SPECIFICATION FairSpec
CONSTANTS
  Sizes = {16}
  RootSize = 64
  HeaderSize = 32
  InitFileSize = 64
  DiskCapacity = 1600
  ResizeTo = {200}
  TornCreate = FALSE
  MaxEnd = 144
INVARIANTS TypeOK NoOverlap RecordedEnd OneHolder EndInMapping IInv
PROPERTIES NoLeak HandedOutOnce AllocReturns ImplementsPageAlloc
