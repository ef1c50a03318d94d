SPECIFICATION FairSpec
CONSTANTS
  Sizes = {64}
  RootSize = 64
  HeaderSize = 32
  InitFileSize = 64
  DiskCapacity = 128
  ResizeTo = {}
  TornCreate = FALSE
  MaxEnd = 352
PROPERTY AllocReturns
