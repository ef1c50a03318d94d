SPECIFICATION Spec
CONSTANTS
  PageSize = 64
  OverflowBit = 100
  MaxKey = 8
  Inputs <- KeyIsValue
  FindKeys = {6}
  AllowDups = FALSE
  ConcurrentFind = TRUE
  MaxTrees = 1
  MaxAdds = 8
  Script <- NoScript
CHECK_DEADLOCK FALSE
INVARIANT FindSees
