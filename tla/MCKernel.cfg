SPECIFICATION KSpec
CONSTANTS
  Devices <- MCDevices
  Masked <- MCMasked
  Handler = {timer_callback, divhandler}
  NoHandler = NoHandler
  Hooked <- MCHooked
  Faults <- MCFaults
  AllowNmi = TRUE
  TickModulus = 4
  TimerHz = 50
  BootDelay = 100
  LineDelay = 150
  TestLines = 2
  TimerCallback = timer_callback
  DivHandler = divhandler
INVARIANT SleepHasItsClock
INVARIANT NothingPrintedBlind
INVARIANT OnlyForcedFault
PROPERTY SleepLastsItsTicks
PROPERTY FaultStopsTheClock
PROPERTY EndsCaught
