------------------------------ MODULE Interrupts ------------------------------
(***************************************************************************)
(* Interrupt dispatch after int_install(): the 8259 pair acknowledges a    *)
(* request, the stub of interrupt.asm builds a frame, irq_handler or       *)
(* isr_handler runs, and the frame is popped by iret.  Devices, NMIs and   *)
(* the interrupted kernel code interleave with every step of a handler.    *)
(*                                                                         *)
(* Lines 0..7 belong to the master, 8..15 to the slave, whose output is    *)
(* line 2 of the master.  The masks do not change after int_install, so    *)
(* they are a constant; IntInstall shows what state this module starts in. *)
(***************************************************************************)
EXTENDS Integers, Sequences, FiniteSets

CONSTANTS
  Devices,     (* lines on which a device may raise a request              *)
  Masked,      (* lines masked in the two controllers                      *)
  Handler,     (* functions that may be registered with                    *)
               (* register_interrupt_handler                               *)
  NoHandler,   (* the null pointer of interrupt_handlers                   *)
  Hooked,      (* vectors for which a driver may register                  *)
  Faults,      (* exceptions the kernel's own code may raise               *)
  AllowNmi     (* may a non-maskable interrupt arrive                      *)

MasterLines == 0 .. 7
SlaveLines  == 8 .. 15
Lines       == 0 .. 15
Cascade     == 2
NmiVector   == 2
Vectors     == 0 .. 47
Exceptions  == 0 .. 31

ASSUME DevicesAssumption == Devices \subseteq Lines \ {Cascade}
ASSUME MaskedAssumption  == Masked \subseteq Lines
ASSUME HandlerAssumption == NoHandler \notin Handler
ASSUME HookedAssumption  == Hooked \subseteq Vectors
ASSUME FaultsAssumption  == Faults \subseteq Exceptions \ {NmiVector}
ASSUME NmiAssumption     == AllowNmi \in BOOLEAN

VARIABLES
  irr,         (* requests latched in the controllers                      *)
  isr,         (* requests in service: acknowledged, no EOI yet            *)
  iflag,       (* EFLAGS.IF                                                *)
  stack,       (* the interrupt frames on the kernel stack, oldest first   *)
  handlers,    (* interrupt_handlers[]                                     *)
  halted,      (* the processor sits in hlt                                *)
  nmiBlocked   (* an NMI is being handled; no further one is taken         *)

intVars == <<irr, isr, iflag, stack, handlers, halted, nmiBlocked>>

-----------------------------------------------------------------------------
(* The controllers.                                                        *)

Highest(S) == {l \in S : \A k \in S : l <= k}

\* Fully nested mode: a line is held back by its own chip while an equal or
\* higher one is in service there.
Requests(S, chip) ==
  {l \in chip : l \in S /\ l \notin Masked /\ \A k \in isr \cap chip : l < k}

SlaveRequests  == Requests(irr, SlaveLines)
MasterRequests ==
  Requests(irr \cup (IF SlaveRequests = {} THEN {} ELSE {Cascade}), MasterLines)

\* A non-specific EOI clears the highest-priority bit in service on a chip.
Eoi(chip) == isr' = isr \ Highest(isr \cap chip)

-----------------------------------------------------------------------------
(* Frames.  step is how far the C handler has come:                        *)
(*   irq_handler   entry -> (slave_done) -> acked -> done                  *)
(*   isr_handler   entry -> reported -> returned -> (hlt) or panic         *)
(* spurious says that the controller had no request left at the            *)
(* acknowledge cycle: it answers with the vector of its line 7 and sets no *)
(* bit of its own.                                                         *)

Frame(vec, spurious) ==
  [vec |-> vec, step |-> "entry", saved |-> iflag, spurious |-> spurious]

IsIrq(f) == f.vec >= 32
Top      == stack[Len(stack)]

\* Mutant: a gate that leaves IF alone, and no cli in the stub.
EnterTrapGate(vec, spurious) ==
  /\ stack' = Append(stack, Frame(vec, spurious))
  /\ iflag' = iflag
  /\ halted' = FALSE

\* The stub is entered through a gate of type 0xE and starts with cli.
Enter(vec, spurious) ==
  /\ stack' = Append(stack, Frame(vec, spurious))
  /\ iflag' = FALSE
  /\ halted' = FALSE

Advance(to) == stack' = [stack EXCEPT ![Len(stack)].step = to]

Executing == stack # <<>> /\ ~halted

-----------------------------------------------------------------------------
(* Hardware events.                                                        *)

\* Requests are edges: a second one on a latched line leaves no trace.
Raise(line) ==
  /\ line \notin irr
  /\ irr' = irr \cup {line}
  /\ UNCHANGED <<isr, iflag, stack, handlers, halted, nmiBlocked>>

AcceptMaster(line) ==
  /\ iflag
  /\ line \in Highest(MasterRequests) \ {Cascade}
  /\ irr' = irr \ {line}
  /\ isr' = isr \cup {line}
  /\ Enter(32 + line, FALSE)
  /\ UNCHANGED <<handlers, nmiBlocked>>

AcceptSlave(line) ==
  /\ iflag
  /\ Cascade \in Highest(MasterRequests)
  /\ line \in Highest(SlaveRequests)
  /\ irr' = irr \ {line}
  /\ isr' = isr \cup {Cascade, line}
  /\ Enter(32 + line, FALSE)
  /\ UNCHANGED <<handlers, nmiBlocked>>

\* The only request is withdrawn before the master is acknowledged.
SpuriousMaster(line) ==
  /\ iflag
  /\ \/ MasterRequests = {line} /\ line # Cascade
     \/ MasterRequests = {Cascade} /\ SlaveRequests = {line}
  /\ irr' = irr \ {line}
  /\ Enter(39, TRUE)
  /\ UNCHANGED <<isr, handlers, nmiBlocked>>

\* The slave withdraws: the master has already put line 2 in service.
SpuriousSlave(line) ==
  /\ iflag
  /\ Cascade \in Highest(MasterRequests)
  /\ SlaveRequests = {line}
  /\ irr' = irr \ {line}
  /\ isr' = isr \cup {Cascade}
  /\ Enter(47, TRUE)
  /\ UNCHANGED <<handlers, nmiBlocked>>

Nmi ==
  /\ AllowNmi
  /\ ~nmiBlocked
  /\ nmiBlocked' = TRUE
  /\ Enter(NmiVector, FALSE)
  /\ UNCHANGED <<irr, isr, handlers>>

-----------------------------------------------------------------------------
(* irq_handler and its stub.                                               *)

\* Mutant: vector 40, the RTC, is left out.
NeedsSlaveEoiAbove40(vec) == vec > 40

NeedsSlaveEoi(vec) == vec >= 40

EoiSlave ==
  /\ Executing
  /\ IsIrq(Top) /\ Top.step = "entry" /\ NeedsSlaveEoi(Top.vec)
  /\ Eoi(SlaveLines)
  /\ Advance("slave_done")
  /\ UNCHANGED <<irr, iflag, handlers, halted, nmiBlocked>>

EoiMaster ==
  /\ Executing
  /\ IsIrq(Top)
  /\ Top.step = IF NeedsSlaveEoi(Top.vec) THEN "slave_done" ELSE "entry"
  /\ Eoi(MasterLines)
  /\ Advance("acked")
  /\ UNCHANGED <<irr, iflag, handlers, halted, nmiBlocked>>

\* The registered function runs; what it does is the subject of Kernel.
IrqCall ==
  /\ Executing
  /\ IsIrq(Top) /\ Top.step = "acked" /\ handlers[Top.vec] # NoHandler
  /\ Advance("done")
  /\ UNCHANGED <<irr, isr, iflag, handlers, halted, nmiBlocked>>

\* Mutant: an interrupt nobody registered for is treated as isr_handler does.
IrqNoHandlerPanics ==
  /\ Executing
  /\ IsIrq(Top) /\ Top.step = "acked" /\ handlers[Top.vec] = NoHandler
  /\ halted' = TRUE
  /\ UNCHANGED <<irr, isr, iflag, stack, handlers, nmiBlocked>>

IrqNoHandler ==
  /\ Executing
  /\ IsIrq(Top) /\ Top.step = "acked" /\ handlers[Top.vec] = NoHandler
  /\ Advance("done")
  /\ UNCHANGED <<irr, isr, iflag, handlers, halted, nmiBlocked>>

\* Mutant: the epilogue loses the interrupted IF.
IretKeepsIfOff ==
  /\ Executing
  /\ IsIrq(Top) /\ Top.step = "done"
  /\ stack' = SubSeq(stack, 1, Len(stack) - 1)
  /\ UNCHANGED <<irr, isr, iflag, handlers, halted, nmiBlocked>>

\* popa, the discarded numbers, sti and iret.  No interrupt is taken between
\* the sti and the iret, and the iret restores the interrupted IF.
Iret ==
  /\ Executing
  /\ IsIrq(Top) /\ Top.step = "done"
  /\ stack' = SubSeq(stack, 1, Len(stack) - 1)
  /\ iflag' = Top.saved
  /\ UNCHANGED <<irr, isr, handlers, halted, nmiBlocked>>

-----------------------------------------------------------------------------
(* isr_handler.  It ends in hlt on both paths with interrupts off.  Only an *)
(* NMI ends that hlt, and the NMI's own isr_handler halts in turn, so the   *)
(* statements after a hlt, the epilogue of isr_common_stub included, are    *)
(* never executed.                                                          *)

IsrReport ==
  /\ Executing
  /\ ~IsIrq(Top) /\ Top.step = "entry"
  /\ Advance("reported")
  /\ UNCHANGED <<irr, isr, iflag, handlers, halted, nmiBlocked>>

IsrCall ==
  /\ Executing
  /\ ~IsIrq(Top) /\ Top.step = "reported" /\ handlers[Top.vec] # NoHandler
  /\ Advance("returned")
  /\ UNCHANGED <<irr, isr, iflag, handlers, halted, nmiBlocked>>

IsrPanic ==
  /\ Executing
  /\ ~IsIrq(Top) /\ Top.step = "reported" /\ handlers[Top.vec] = NoHandler
  /\ Advance("panic")
  /\ halted' = TRUE
  /\ UNCHANGED <<irr, isr, iflag, handlers, nmiBlocked>>

\* Mutant: after a registered handler the interrupted code is resumed.
IsrReturns ==
  /\ Executing
  /\ ~IsIrq(Top) /\ Top.step = "returned"
  /\ stack' = SubSeq(stack, 1, Len(stack) - 1)
  /\ iflag' = Top.saved
  /\ UNCHANGED <<irr, isr, handlers, halted, nmiBlocked>>

IsrHalt ==
  /\ Executing
  /\ ~IsIrq(Top) /\ Top.step = "returned"
  /\ Advance("hlt")
  /\ halted' = TRUE
  /\ UNCHANGED <<irr, isr, iflag, handlers, nmiBlocked>>

-----------------------------------------------------------------------------
(* The interrupted kernel code, as far as it touches this state.           *)

RegisterHandler(n, h) ==
  /\ stack = <<>>
  /\ handlers' = [handlers EXCEPT ![n] = h]
  /\ UNCHANGED <<irr, isr, iflag, stack, halted, nmiBlocked>>

Fault(v) ==
  /\ stack = <<>>
  /\ Enter(v, FALSE)
  /\ UNCHANGED <<irr, isr, handlers, nmiBlocked>>

-----------------------------------------------------------------------------

IntInit ==
  /\ irr \in SUBSET Devices
  /\ isr = {}
  /\ iflag = TRUE
  /\ stack = <<>>
  /\ handlers = [v \in Vectors |-> NoHandler]
  /\ halted = FALSE
  /\ nmiBlocked = FALSE

Accept ==
  \E line \in Devices : \/ AcceptMaster(line) \/ AcceptSlave(line)
                        \/ SpuriousMaster(line) \/ SpuriousSlave(line)

IrqStep == EoiSlave \/ EoiMaster \/ IrqCall \/ IrqNoHandler \/ Iret
IsrStep == IsrReport \/ IsrCall \/ IsrPanic \/ IsrHalt

\* Nothing is left to execute.
Dead == halted /\ ~iflag /\ UNCHANGED intVars

IntNext ==
  \/ \E line \in Devices : Raise(line)
  \/ Accept
  \/ Nmi
  \/ IrqStep
  \/ IsrStep
  \/ \E n \in Hooked, h \in Handler : RegisterHandler(n, h)
  \/ \E v \in Faults : Fault(v)
  \/ Dead

\* A processor that is not halted executes, and takes interrupts it can take.
IntFairness == WF_intVars(Accept) /\ WF_intVars(IrqStep) /\ WF_intVars(IsrStep)

IntSafety == IntInit /\ [][IntNext]_intVars
IntSpec   == IntSafety /\ IntFairness

-----------------------------------------------------------------------------
(* Properties                                                              *)

Step == {"entry", "slave_done", "acked", "done",
         "reported", "returned", "panic", "hlt"}

FrameType == [vec : Vectors, step : Step, saved : BOOLEAN, spurious : BOOLEAN]

\* Type invariant of the dispatch state.
IntTypeOK ==
  /\ irr \subseteq Devices
  /\ isr \subseteq Lines
  /\ iflag \in BOOLEAN
  /\ stack \in Seq(FrameType)
  /\ handlers \in [Vectors -> Handler \cup {NoHandler}]
  /\ halted \in BOOLEAN
  /\ nmiBlocked \in BOOLEAN

\* The bits a frame's irq_handler still has to clear with its EOIs.
OwnLine(f) == IF f.spurious THEN {} ELSE {f.vec - 32}

Owed(f) ==
  IF ~IsIrq(f) \/ f.step \in {"acked", "done"} THEN {}
  ELSE IF f.vec < 40 THEN OwnLine(f)
  ELSE {Cascade} \cup (IF f.step = "entry" THEN OwnLine(f) ELSE {})

\* The in-service bits of both controllers are exactly those the frames on the
\* stack will still clear: irq_handler neither leaves a bit behind, which would
\* silence that line and all below it for good, nor sends an EOI too many.
InServiceIsOwed == isr = UNION {Owed(stack[i]) : i \in 1 .. Len(stack)}

\* An EOI of irq_handler names no line: it clears whatever is highest.  It
\* still only ever clears a bit the running handler owns, spurious vectors 39
\* and 47, which irq_handler does not tell apart, included.
EoiIsPrecise == [][\A l \in isr \ isr' : l \in Owed(Top)]_intVars

\* Handlers run to completion: only an NMI is ever found on top of another
\* frame, so the kernel stack never holds more than two frames.
NoNesting ==
  /\ \A i \in 2 .. Len(stack) : stack[i].vec = NmiVector
  /\ Len(stack) <= 2

\* Between interrupts kernel code runs with IF set and nothing in service.
MainIsInterruptible == stack = <<>> => iflag /\ isr = {} /\ ~halted

Fatal == \E i \in 1 .. Len(stack) : ~IsIrq(stack[i])

\* isr_handler: "for now we assume no handler fixes anything".  Once an
\* exception frame is on the stack it stays, handler or not: the code below it
\* never runs again and no device interrupt is taken.
FaultIsFinal ==
  [][\A i \in 1 .. Len(stack) :
       ~IsIrq(stack[i]) => /\ Len(stack') >= i
                           /\ stack'[i].vec = stack[i].vec
                           /\ \A j \in i + 1 .. Len(stack') : ~IsIrq(stack'[j])
    ]_intVars

\* irq_handler and its stub always come to the iret, whether or not a function
\* is registered for the vector.
IrqHandlersReturn == stack # <<>> ~> (stack = <<>> \/ Fatal)

\* Lines that win over a line: the slave's sit between 1 and 3.
Rank(l)   == IF l < 2 THEN l ELSE IF l >= 8 THEN l - 6 ELSE l + 8
Higher(l) == {k \in Lines : Rank(k) < Rank(l)}

\* A line that is open is never deaf: unless higher lines keep on calling, a
\* latched request is acknowledged (or withdrawn by its device), over and over.
NoLineGoesDeaf ==
  \A l \in Devices \ Masked :
    <>[](irr \cap Higher(l) = {}) =>
      []((l \in irr) => <>(l \notin irr \/ Fatal))
=============================================================================
