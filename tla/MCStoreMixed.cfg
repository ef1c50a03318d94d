SPECIFICATION Spec
CONSTANTS
  Sizes = {16, 24}
  RootSize = 64
  HeaderSize = 32
  InitFileSize = 64
  DiskCapacity = 800
  ResizeTo = {}
  TornCreate = FALSE
  MaxEnd = 160
INVARIANT NoOverlap
