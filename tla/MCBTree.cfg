SPECIFICATION Spec
CONSTANTS
  PageSize = 64
  OverflowBit = 100
  MaxKey = 17
  Inputs <- KeyIsValue
  FindKeys = {5, 8}
  AllowDups = FALSE
  ConcurrentFind = FALSE
  MaxTrees = 1
  MaxAdds = 12
  Script <- EverySecond
CHECK_DEADLOCK FALSE
INVARIANTS TypeOK Ordered Shape PagesApart NoPageLost FindSees
PROPERTY ImplementsKVIndex
