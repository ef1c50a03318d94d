SPECIFICATION Spec
CONSTANTS
  FirstNode = 4
  FirstWord = 12
  ReuseFits = TRUE
  MaxNodes = 2
  MaxWords = 20
INVARIANTS TypeOK SegmentsApart
PROPERTY ImplementsAdjacency
