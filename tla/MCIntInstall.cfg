SPECIFICATION Spec
CONSTANTS
  Devices <- MCDevices
  BiosMasks <- MCBiosMasks
INVARIANT RemapRestoresMasks
INVARIANT IrqReachesItsStub
PROPERTY PendingIsTaken
