SPECIFICATION Spec
CONSTANTS
  PageSize = 64
  OverflowBit = 100
  MaxKey = 4
  Inputs <- KeysAndValues
  FindKeys = {1}
  AllowDups = TRUE
  ConcurrentFind = FALSE
  MaxTrees = 2
  MaxAdds = 5
  Script <- NoScript
CHECK_DEADLOCK FALSE
INVARIANTS PagesApart
PROPERTY ImplementsKVIndex
