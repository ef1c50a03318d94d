SPECIFICATION FairSpec
CONSTANTS
  FirstNode = 4
  FirstWord = 12
  ReuseFits = FALSE
  MaxNodes = 2
  MaxWords = 26
PROPERTY ImplementsAdjacency
