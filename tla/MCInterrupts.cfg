SPECIFICATION IntSpec
CONSTANTS
  Devices <- MCDevices
  Masked <- MCMasked
  Handler = {timer_callback, divhandler}
  NoHandler = NoHandler
  Hooked <- MCHooked
  Faults <- MCFaults
  AllowNmi = TRUE
INVARIANT InServiceIsOwed
INVARIANT NoNesting
INVARIANT MainIsInterruptible
PROPERTY EoiIsPrecise
PROPERTY FaultIsFinal
PROPERTY IrqHandlersReturn
PROPERTY NoLineGoesDeaf
