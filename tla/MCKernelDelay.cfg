SPECIFICATION KSpec
CONSTANTS
  Devices <- MCDevices
  Masked <- MCMasked
  Handler = {timer_callback, divhandler}
  NoHandler = NoHandler
  Hooked <- MCHooked
  Faults <- MCFaults
  AllowNmi = FALSE
  TickModulus = 16
  TimerHz = 50
  BootDelay = 200
  LineDelay = 200
  TestLines = 1
  TimerCallback = timer_callback
  DivHandler = divhandler
PROPERTY SleepLastsMilliseconds
