SPECIFICATION Spec
CONSTANTS
  Irqs <- MCIrqs
  Faults <- MCFaults
  Top = 40
INVARIANT TypeOK
INVARIANT FrameIsTrue
INVARIANT FramesDoNotPileUp
PROPERTY ContextIsRestored
