SPECIFICATION Spec
CONSTANTS
  Sizes = {64}
  RootSize = 64
  HeaderSize = 32
  InitFileSize = 64
  DiskCapacity = 800
  ResizeTo = {}
  TornCreate = TRUE
  MaxEnd = 352
INVARIANT BehindHeader
