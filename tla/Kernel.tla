-------------------------------- MODULE Kernel --------------------------------
(***************************************************************************)
(* kmain() from the return of int_install() to the forced fault, with the  *)
(* PIT, the timer driver and the interrupt dispatch of Interrupts running  *)
(* against it.  Main code advances only while no frame is on the stack; it *)
(* can be interrupted between any two of the steps below.                  *)
(*                                                                         *)
(* The build has no -O, so sleep() reads the (non-volatile) tick from      *)
(* memory at every turn of its loop, and each turn is one step here.       *)
(***************************************************************************)
EXTENDS Interrupts

CONSTANTS
  TickModulus,              (* tick and ref are uint32_t: 2^32 in the code  *)
  TimerHz,                  (* the argument of init_timer                   *)
  BootDelay, LineDelay,     (* the arguments of the two calls of sleep      *)
  TestLines,                (* turns of the loop of kmain                   *)
  TimerCallback, DivHandler (* the two functions that are ever registered   *)

ClockHz == 1193182          \* PIC_INTERNAL_CLK_HZ
ISR0    == 0

\* Mutant: the vector line 0 has under the BIOS.
IRQ0Bios == 8

IRQ0    == 32

ASSUME TimerAssumption ==
  /\ TimerHz \in Nat \ {0} /\ TickModulus \in Nat \ {0}
  /\ BootDelay \in Nat /\ LineDelay \in Nat /\ TestLines \in Nat
  /\ BootDelay \div TimerHz < TickModulus
  /\ LineDelay \div TimerHz < TickModulus
ASSUME DriverAssumption ==
  /\ 0 \in Devices \ Masked
  /\ {TimerCallback, DivHandler} \subseteq Handler
  /\ TimerCallback # DivHandler
  /\ {ISR0, 32} \subseteq Hooked
  /\ ISR0 \in Faults

VARIABLES
  pc,            (* where kmain is                                          *)
  pit_frequency, (* timer.c, 0 until init_timer                             *)
  tick,          (* timer.c                                                 *)
  pit,           (* channel 0: its state, the low byte kept, its divisor    *)
  ref, goal,     (* locals of the current call of sleep                     *)
  ret,           (* where that call returns to                              *)
  line,          (* the loop variable of kmain                              *)
  tty,           (* T_BUFF has been set                                     *)
  blind,         (* something was written through the null T_BUFF           *)
  edges          (* history: PIT edges since sleep read tick, counted up to  *)
                 (* TickModulus                                             *)

timerVars == <<pit_frequency, tick, pit>>
sleepVars == <<ref, goal, ret, edges>>
ttyVars   == <<tty, blind>>
kvars     == <<pc, line, timerVars, sleepVars, ttyVars>>
vars      == <<intVars, kvars>>

-----------------------------------------------------------------------------
(* The PIT.  It stops at the control word and starts with the high byte.    *)

\* A rising edge of the output; on a line that is latched already it is lost.
PitEdge ==
  /\ pit.state \in {"bios", "running"}
  /\ IF 0 \in irr THEN UNCHANGED intVars ELSE Raise(0)
  /\ edges' = IF edges < TickModulus THEN edges + 1 ELSE edges
  /\ UNCHANGED <<pc, line, timerVars, ref, goal, ret, ttyVars>>

-----------------------------------------------------------------------------
(* Steps of the interrupt handlers that kernel code takes part in.          *)

Prints == blind' = (blind \/ ~tty)

\* timer_callback, called by irq_handler.
TimerTick ==
  /\ IrqCall
  /\ handlers[Top.vec] = TimerCallback
  /\ tick' = (tick + 1) % TickModulus
  /\ UNCHANGED <<pc, line, pit_frequency, pit, sleepVars, ttyVars>>

\* isr_handler's own message, divhandler's "caught!" and the PANIC message.
FaultOutput ==
  /\ IsrReport \/ (IsrCall /\ handlers[Top.vec] = DivHandler) \/ IsrPanic
  /\ Prints
  /\ UNCHANGED <<pc, line, timerVars, sleepVars, tty>>

\* Everything else the dispatch does leaves the kernel's data alone.
Dispatch ==
  /\ \/ \E l \in Devices \ {0} : Raise(l)
     \/ Accept \/ Nmi
     \/ EoiSlave \/ EoiMaster \/ IrqNoHandler \/ Iret \/ IsrHalt
     \/ Dead
  /\ UNCHANGED kvars

-----------------------------------------------------------------------------
(* kmain                                                                    *)

Main(at) == stack = <<>> /\ pc = at

\* Mutant: the PIT's bytes go out in the wrong order.
DivisorBytesSwapped(divisor) ==
  [lo |-> (divisor \div 256) % 256, hi |-> divisor % 256]

\* init_timer: uint16_t divisor, low byte first.
DivisorBytes(divisor) ==
  [lo |-> divisor % 256, hi |-> (divisor \div 256) % 256]
Divisor == (ClockHz \div TimerHz) % 65536

SetFrequency ==
  /\ Main("init_timer")
  /\ pit_frequency' = TimerHz
  /\ pc' = "register"
  /\ UNCHANGED <<intVars, line, tick, pit, sleepVars, ttyVars>>

HookTimer ==
  /\ Main("register")
  /\ RegisterHandler(IRQ0, TimerCallback)
  /\ pc' = "pit_ctrl"
  /\ UNCHANGED <<line, timerVars, sleepVars, ttyVars>>

PitCtrl ==
  /\ Main("pit_ctrl")
  /\ pit' = [pit EXCEPT !.state = "lo"]
  /\ pc' = "pit_lo"
  /\ UNCHANGED <<intVars, line, pit_frequency, tick, sleepVars, ttyVars>>

PitLow ==
  /\ Main("pit_lo")
  /\ pit' = [pit EXCEPT !.state = "hi", !.low = DivisorBytes(Divisor).lo]
  /\ pc' = "pit_hi"
  /\ UNCHANGED <<intVars, line, pit_frequency, tick, sleepVars, ttyVars>>

PitHigh ==
  /\ Main("pit_hi")
  /\ pit' = [pit EXCEPT !.state = "running",
                        !.divisor = (DivisorBytes(Divisor).hi * 256) + pit.low]
  /\ pc' = "boot_sleep"
  /\ UNCHANGED <<intVars, line, pit_frequency, tick, sleepVars, ttyVars>>

\* sleep(delay_ms): the reference and the goal, then the loop.  The division
\* faults while pit_frequency is still 0.
SleepCall(at, delay, to) ==
  /\ Main(at)
  /\ ref' = tick
  /\ edges' = 0
  /\ ret' = to
  /\ IF pit_frequency = 0
     THEN Fault(ISR0) /\ UNCHANGED <<pc, goal>>
     ELSE /\ goal' = delay \div pit_frequency
          /\ pc' = "poll"
          /\ UNCHANGED intVars
  /\ UNCHANGED <<line, timerVars, ttyVars>>

\* Mutant: compares with the end instead of the distance, and so not modulo 2^32.
ElapsedAbsolute == tick >= (ref + goal) % TickModulus

Elapsed == (tick - ref) % TickModulus >= goal

SleepPoll ==
  /\ Main("poll") /\ ~Elapsed
  /\ UNCHANGED vars

SleepReturn ==
  /\ Main("poll") /\ Elapsed
  /\ pc' = ret
  /\ UNCHANGED <<intVars, line, timerVars, sleepVars, ttyVars>>

\* Mutant: the screen is set up after the CPU report instead of before.
BootOrderLate == [after_sleep |-> "init_test", after_test |-> "detect_cpu",
                  after_cpu |-> "terminal", after_terminal |-> "loop"]

\* The calls of kmain between the boot delay and the loop, in order.
BootOrder == [after_sleep |-> "terminal", after_terminal |-> "init_test",
              after_test |-> "detect_cpu", after_cpu |-> "loop"]

TerminalInitialize ==
  /\ Main("terminal")
  /\ tty' = TRUE
  /\ pc' = BootOrder.after_terminal
  /\ UNCHANGED <<intVars, line, timerVars, sleepVars, blind>>

InitTest ==
  /\ Main("init_test")
  /\ RegisterHandler(ISR0, DivHandler)
  /\ pc' = BootOrder.after_test
  /\ UNCHANGED <<line, timerVars, sleepVars, ttyVars>>

\* A step of kmain that only prints: detect_cpu, the test line, pci_explore
\* and the announcement of the fault.
PrintStep(at, to) ==
  /\ Main(at)
  /\ Prints
  /\ pc' = to
  /\ UNCHANGED <<intVars, line, timerVars, sleepVars, tty>>

MoreLines == line < TestLines

LoopTest ==
  /\ Main("loop")
  /\ pc' = IF MoreLines THEN "test_line" ELSE "pci_explore"
  /\ UNCHANGED <<intVars, line, timerVars, sleepVars, ttyVars>>

LoopNext ==
  /\ Main("loop_next")
  /\ line' = line + 1
  /\ pc' = "loop"
  /\ UNCHANGED <<intVars, timerVars, sleepVars, ttyVars>>

\* int a = 2/0: the fault is taken at the division, eip still on it.
Divide ==
  /\ Main("divide")
  /\ Fault(ISR0)
  /\ UNCHANGED kvars

MainStep ==
  \/ SetFrequency \/ HookTimer \/ PitCtrl \/ PitLow \/ PitHigh
  \/ SleepCall("boot_sleep", BootDelay, BootOrder.after_sleep)
  \/ SleepCall("line_sleep", LineDelay, "loop_next")
  \/ SleepPoll
  \/ TerminalInitialize \/ InitTest
  \/ PrintStep("detect_cpu", BootOrder.after_cpu)
  \/ LoopTest \/ LoopNext
  \/ PrintStep("test_line", "line_sleep")
  \/ PrintStep("pci_explore", "announce")
  \/ PrintStep("announce", "divide")
  \/ Divide

-----------------------------------------------------------------------------

\* Mutant: the boot delay comes before the timer is set up.
EntryPointBeforeTimer == "boot_sleep"

EntryPoint == "init_timer"

KInit ==
  /\ IntInit
  /\ pc = EntryPoint
  /\ pit_frequency = 0
  /\ tick = 0
  /\ pit = [state |-> "bios", low |-> 0, divisor |-> 0]
  /\ ref = 0 /\ goal = 0 /\ ret = "boot_sleep"
  /\ line = 0
  /\ tty = FALSE /\ blind = FALSE
  /\ edges = 0

KNext == PitEdge \/ TimerTick \/ FaultOutput \/ Dispatch \/ MainStep \/ SleepReturn

\* The PIT keeps ticking, handlers run and requests are taken.  Kernel code is
\* interrupted again and again, but devices are slower than the processor, so
\* it makes progress (SF); for the same reason sleep's loop does look at tick
\* while its distance from ref is between the goal and the wrap (2^32 ticks).
\* The PIT's square wave holds a request for half a period, so that not every
\* one of them is withdrawn before it is acknowledged (SF on AcceptMaster(0)).
KFairness ==
  /\ WF_vars(PitEdge)
  /\ WF_vars(Accept /\ UNCHANGED kvars)
  /\ WF_vars(TimerTick \/ ((EoiSlave \/ EoiMaster \/ IrqNoHandler \/ Iret)
                            /\ UNCHANGED kvars))
  /\ WF_vars(FaultOutput \/ (IsrHalt /\ UNCHANGED kvars))
  /\ SF_vars(AcceptMaster(0) /\ UNCHANGED kvars)
  /\ SF_vars(MainStep)
  /\ SF_vars(SleepReturn)

KSpec == KInit /\ [][KNext]_vars /\ KFairness

-----------------------------------------------------------------------------
(* Properties                                                              *)

Pc == {"init_timer", "register", "pit_ctrl", "pit_lo", "pit_hi", "boot_sleep",
       "poll", "terminal", "init_test", "detect_cpu", "loop", "test_line",
       "line_sleep", "loop_next", "pci_explore", "announce", "divide"}
Return   == {"boot_sleep", "terminal", "loop_next"}
Tick     == 0 .. TickModulus - 1
Byte     == 0 .. 255
MaxWord  == (256 * 256) - 1
Word     == 0 .. MaxWord
PitState == {"bios", "lo", "hi", "running"}
PitTimer == [state : PitState, low : Byte, divisor : Word]

\* Type invariant of the kernel's own state.
KTypeOK ==
  /\ pc \in Pc
  /\ pit_frequency \in {0, TimerHz}
  /\ tick \in Tick
  /\ pit \in PitTimer
  /\ ref \in Tick
  /\ goal \in Tick
  /\ ret \in Return
  /\ line \in 0 .. TestLines
  /\ tty \in BOOLEAN
  /\ blind \in BOOLEAN
  /\ edges \in 0 .. TickModulus

\* sleep() waits for somebody else to move tick.  Whenever it polls, IRQ0 is
\* hooked and the PIT runs with the divisor of pit_frequency, the frequency
\* sleep() has divided by.
SleepHasItsClock ==
  pc = "poll" => /\ handlers[IRQ0] = TimerCallback
                 /\ pit.state = "running"
                 /\ pit.divisor = ClockHz \div pit_frequency

\* sleep() returns only after tick_goal ticks, of which one may have been
\* latched before the call, wherever tick wraps meanwhile.
SleepLastsItsTicks == [][pc = "poll" /\ pc' # "poll" => edges >= goal - 1]_vars

\* Nothing reaches the screen memory through T_BUFF before
\* terminal_initialize() has set it: neither kmain nor an exception handler
\* prints during the boot delay, unless an NMI comes in.
NothingPrintedBlind == blind => nmiBlocked

\* kmain's own code raises no exception but the one it forces: in particular
\* sleep() never divides by a pit_frequency that is still 0.
OnlyForcedFault == Fatal => pc = "divide" \/ nmiBlocked

\* kmain runs through: every sleep ends, the loop ends, the forced fault is
\* caught by divhandler and isr_handler stops the machine; an NMI may stop it
\* earlier, and nothing else does.
EndsCaught ==
  <>(halted /\ \/ nmiBlocked
               \/ pc = "divide" /\ stack[1].vec = ISR0 /\ stack[1].step = "hlt")

\* Once an exception is being handled, be it an NMI inside timer_callback's
\* own interrupt, kmain and the clock stand still for good.
FaultStopsTheClock == [][Fatal => Fatal' /\ UNCHANGED <<pc, tick>>]_vars

\* timer.c:15, timer.h:12: the argument of sleep is a delay in milliseconds,
\* to within the period that is running when it is called.
SleepLastsMilliseconds ==
  [][pc = "poll" /\ pc' # "poll" =>
       LET delay == IF ret = "loop_next" THEN LineDelay ELSE BootDelay
       IN (edges + 1) * 1000 >= delay * pit_frequency]_vars
=============================================================================
