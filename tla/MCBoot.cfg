SPECIFICATION Spec
CONSTANTS
  Requested = 34
  Drives <- FloppyOrDisk
  Codes <- SomeCodes
INVARIANT KernelIsWhole
INVARIANT NoInterruptInProtectedMode
INVARIANT ErrorIsReported
