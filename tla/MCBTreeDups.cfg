SPECIFICATION Spec
CONSTANTS
  PageSize = 64
  OverflowBit = 100
  MaxKey = 2
  Inputs <- KeysAndValues
  FindKeys = {1}
  AllowDups = TRUE
  ConcurrentFind = FALSE
  MaxTrees = 1
  MaxAdds = 5
  Script <- NoScript
CHECK_DEADLOCK FALSE
INVARIANT FindSees
