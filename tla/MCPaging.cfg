SPECIFICATION Spec
CONSTANTS
  WordBytes = 4
  WordBits = 8
  Entries = 8
  NFrames = 32
  KernelEnds <- Ends
  Stacks <- AnyStack
  PointerBits <- PageNumberBits
  LeftWords <- SomeWords
  LeftPointers <- SomePointers
  LeftTables <- SomeTables
INVARIANT ChunksAreSound
INVARIANT UsedMemoryIsIdentityMapped
INVARIANT OnlyFrameZeroIsShared
PROPERTY PagingIsSwitchedOn
