------------------------------ MODULE IntInstall ------------------------------
(***************************************************************************)
(* int_install(): the 8259 pair is moved off the exception vectors, the    *)
(* 48 gates of the IDT are filled in, the table is loaded and interrupts   *)
(* are enabled.  Devices may raise requests at every point, because the    *)
(* BIOS leaves them running; the processor comes here with interrupts off  *)
(* (switch_to_pm executes cli).  The model stops at the first hardware     *)
(* interrupt, where Interrupts takes over.                                 *)
(*                                                                         *)
(* io_wait() is left out: it is a delay and no property is about time.     *)
(***************************************************************************)
EXTENDS Integers, Sequences

CONSTANTS
  Devices,     (* IRQ lines on which a device may raise a request           *)
  BiosMasks    (* the mask-register pairs the BIOS may leave behind         *)

Chips == {"master", "slave"}
Byte  == 0 .. 255

ASSUME DevicesAssumption == Devices \subseteq (0 .. 15) \ {2}
ASSUME MasksAssumption   == BiosMasks \subseteq [Chips -> Byte]

VARIABLES
  chip,     (* per 8259: initialisation stage, vector base, cascade word,   *)
            (* latched requests and mask                                    *)
  bios,     (* the masks the BIOS left; never changes                       *)
  mask,     (* mask_a and mask_b of irq_pic_remap                           *)
  pc, n,    (* control point of int_install and the index inside it         *)
  idt,      (* what each gate holds                                         *)
  idtr,     (* has lidt been executed                                       *)
  iflag,    (* EFLAGS.IF                                                    *)
  entered   (* the first hardware interrupt: its line and where it landed   *)

vars == <<chip, bios, mask, pc, n, idt, idtr, iflag, entered>>

-----------------------------------------------------------------------------
(* The 8259, as far as the code drives it.                                 *)

ICW1  == 17     \* ICW1_INIT | ICW1_ICW4
ICW4  == 1      \* ICW4_8086
ICW3m == 4      \* a slave sits on line 2
ICW3s == 2      \* the slave's cascade identity

BitSet(v, i) == (v \div 2^i) % 2 = 1

\* ICW1 restarts the chip: requests and mask are forgotten, ICW2 comes next.
WriteCtrl(c, v) ==
  IF v = ICW1
  THEN [c EXCEPT !.stage = "icw2", !.irr = {}, !.imr = 0]
  ELSE c

\* The data port is read as ICW2, ICW3, ICW4 and then as the mask.
WriteData(c, v) ==
  CASE c.stage = "icw2"  -> [c EXCEPT !.stage = "icw3",  !.base = v - (v % 8)]
    [] c.stage = "icw3"  -> [c EXCEPT !.stage = "icw4",  !.link = v]
    [] c.stage = "icw4"  -> [c EXCEPT !.stage = "ready"]
    [] c.stage = "ready" -> [c EXCEPT !.imr = v]

ChipOf(line) == IF line < 8 THEN "master" ELSE "slave"

\* A slave's request is answered by the slave only when both chips were told
\* that it sits on line 2; otherwise the master puts its own vector out.
Cascaded == BitSet(chip["master"].link, 2) /\ chip["slave"].link = 2

VectorOf(line) ==
  IF line < 8 THEN chip["master"].base + line
  ELSE IF Cascaded THEN chip["slave"].base + (line - 8)
  ELSE chip["master"].base + 2

Deliverable(line) ==
  /\ line \in chip[ChipOf(line)].irr
  /\ ~BitSet(chip[ChipOf(line)].imr, line % 8)
  /\ line >= 8 => ~BitSet(chip["master"].imr, 2)

-----------------------------------------------------------------------------
(* irq_pic_remap                                                           *)

Out(c, port, v) == [chip |-> c, port |-> port, val |-> v]

\* Mutant: the masks are written back before the chips left initialisation.
RemapWritesEarlyMask(block_a, block_b, m) ==
  << Out("master", "ctrl", ICW1),    Out("slave", "ctrl", ICW1),
     Out("master", "data", block_a), Out("slave", "data", block_b),
     Out("master", "data", ICW3m),   Out("slave", "data", ICW3s),
     Out("master", "data", m["master"]), Out("slave", "data", m["slave"]),
     Out("master", "data", ICW4),    Out("slave", "data", ICW4) >>

\* The ten port writes of irq_pic_remap(block_a, block_b), in order.
RemapWrites(block_a, block_b, m) ==
  << Out("master", "ctrl", ICW1),    Out("slave", "ctrl", ICW1),
     Out("master", "data", block_a), Out("slave", "data", block_b),
     Out("master", "data", ICW3m),   Out("slave", "data", ICW3s),
     Out("master", "data", ICW4),    Out("slave", "data", ICW4),
     Out("master", "data", m["master"]), Out("slave", "data", m["slave"]) >>

\* irq_install asks for vectors 32..39 and 40..47.
RemapBases == [a |-> 32, b |-> 40]

SaveMask(c) ==
  /\ pc = IF c = "master" THEN "save_a" ELSE "save_b"
  /\ mask' = [mask EXCEPT ![c] = chip[c].imr]
  /\ pc' = IF c = "master" THEN "save_b" ELSE "remap"
  /\ UNCHANGED <<chip, bios, n, idt, idtr, iflag, entered>>

RemapWrite ==
  LET prog == RemapWrites(RemapBases.a, RemapBases.b, mask)
      w    == prog[n]
  IN /\ pc = "remap"
     /\ chip' = [chip EXCEPT ![w.chip] = IF w.port = "ctrl"
                                         THEN WriteCtrl(@, w.val)
                                         ELSE WriteData(@, w.val)]
     /\ IF n = Len(prog)
        THEN pc' = "irq_gates" /\ n' = 0
        ELSE pc' = pc /\ n' = n + 1
     /\ UNCHANGED <<bios, mask, idt, idtr, iflag, entered>>

-----------------------------------------------------------------------------
(* set_idt_gate, irq_install, isr_install, idt_load                        *)

Vectors == 0 .. 255

\* A gate is present when bit 7 of its flags is set; type 0xE clears IF.
Stub(kind, num) == [kind |-> kind, num |-> num]
NoGate     == [stub |-> Stub("none", 0), flags |-> 0]
Gate(stub) == [stub |-> stub, flags |-> 142]

\* interrupt.asm: the int_no a stub pushes (isr v pushes v, IRQ i is IRQ i, 32+i).
IntNo(stub) == IF stub.kind = "irq" THEN 32 + stub.num ELSE stub.num

\* Mutant: gates shifted by one.
IrqGateVectorFromOne(i) == 33 + i

\* The vector irq_install gives to set_idt_gate for irq i, and its last irq.
IrqGateVector(i)        == 32 + i
LastIrq                 == 15
SetIrqGate ==
  /\ pc = "irq_gates"
  /\ idt' = [idt EXCEPT ![IrqGateVector(n)] = Gate(Stub("irq", n))]
  /\ IF n = LastIrq THEN pc' = "isr_gates" /\ n' = 0 ELSE pc' = pc /\ n' = n + 1
  /\ UNCHANGED <<chip, bios, mask, idtr, iflag, entered>>

SetIsrGate ==
  /\ pc = "isr_gates"
  /\ idt' = [idt EXCEPT ![n] = Gate(Stub("isr", n))]
  /\ IF n = 31 THEN pc' = "lidt" /\ n' = 0 ELSE pc' = pc /\ n' = n + 1
  /\ UNCHANGED <<chip, bios, mask, idtr, iflag, entered>>

\* Mutant: idt_load returns without the sti.
LidtOnly ==
  /\ pc = "lidt"
  /\ idtr' = TRUE
  /\ pc' = "installed"
  /\ UNCHANGED <<chip, bios, mask, n, idt, iflag, entered>>

Lidt ==
  /\ pc = "lidt"
  /\ idtr' = TRUE
  /\ pc' = "sti"
  /\ UNCHANGED <<chip, bios, mask, n, idt, iflag, entered>>

Sti ==
  /\ pc = "sti"
  /\ iflag' = TRUE
  /\ pc' = "installed"
  /\ UNCHANGED <<chip, bios, mask, n, idt, idtr, entered>>

-----------------------------------------------------------------------------
(* The hardware around it.                                                 *)

Raise(line) ==
  /\ line \notin chip[ChipOf(line)].irr
  /\ chip' = [chip EXCEPT ![ChipOf(line)].irr = @ \cup {line}]
  /\ UNCHANGED <<bios, mask, pc, n, idt, idtr, iflag, entered>>

\* The processor takes a request; a vector without a present gate, or no
\* loaded table, ends in a shutdown.
Accept(line) ==
  LET g == idt[VectorOf(line)]
  IN /\ iflag
     /\ Deliverable(line)
     /\ chip' = [chip EXCEPT ![ChipOf(line)].irr = @ \ {line}]
     /\ entered' = [line |-> line,
                    stub |-> IF idtr /\ BitSet(g.flags, 7)
                             THEN g.stub ELSE Stub("shutdown", 0)]
     /\ iflag' = FALSE
     /\ UNCHANGED <<bios, mask, pc, n, idt, idtr>>

\* The run is over: Interrupts models what the stub does.
Entered == entered.line # -1 /\ UNCHANGED vars

Init ==
  /\ bios \in BiosMasks
  /\ chip = [c \in Chips |-> [stage |-> "ready", link |-> 0, irr |-> {},
                              base  |-> IF c = "master" THEN 8 ELSE 112,
                              imr   |-> bios[c]]]
  /\ mask = [c \in Chips |-> 0]
  /\ pc = "save_a"
  /\ n = 1
  /\ idt = [v \in Vectors |-> NoGate]
  /\ idtr = FALSE
  /\ iflag = FALSE
  /\ entered = [line |-> -1, stub |-> Stub("none", 0)]

Install == (\E c \in Chips : SaveMask(c)) \/ RemapWrite \/ SetIrqGate
             \/ SetIsrGate \/ Lidt \/ Sti

Next ==
  \/ Install
  \/ \E line \in Devices : Raise(line)
  \/ \E line \in Devices : Accept(line)
  \/ Entered

\* The processor runs int_install and takes the interrupts it is offered.
Fairness == WF_vars(Install) /\ WF_vars(\E line \in Devices : Accept(line))

Spec == Init /\ [][Next]_vars /\ Fairness

-----------------------------------------------------------------------------
(* Properties                                                              *)

Stage == {"icw2", "icw3", "icw4", "ready"}
AnyStub == [kind : {"irq"}, num : 0 .. 15] \cup [kind : {"isr"}, num : 0 .. 31]
             \cup {Stub("none", 0)}

\* Type invariant: every port value is a byte and every gate that was filled
\* in (set_idt_gate) holds one of the 48 stubs of interrupt.asm.
TypeOK ==
  /\ chip \in [Chips -> [stage : Stage, link : Byte, irr : SUBSET Devices,
                         base : Byte, imr : Byte]]
  /\ bios \in BiosMasks
  /\ mask \in [Chips -> Byte]
  /\ pc \in {"save_a", "save_b", "remap", "irq_gates", "isr_gates", "lidt",
             "sti", "installed"}
  /\ n \in 0 .. 31
  /\ \A v \in Vectors : idt[v].stub \in AnyStub /\ idt[v].flags \in {0, 142}
  /\ idtr \in BOOLEAN
  /\ iflag \in BOOLEAN
  /\ entered.line \in Devices \cup {-1}

\* irq_pic_remap destroys both masks (ICW1) and promises to restore what it
\* saved: whatever was masked or open under the BIOS is so again before the
\* first instruction that runs with interrupts on.
RemapRestoresMasks ==
  pc \notin {"save_a", "save_b", "remap"} =>
    \A c \in Chips : chip[c].stage = "ready" /\ chip[c].imr = bios[c]

\* The first request that gets through, from whichever line and however early
\* it was raised, lands in the stub of that line, and the int_no this stub
\* pushes is the IRQ<line> constant of isr.h under which drivers register:
\* never an exception vector, never an absent gate.
IrqReachesItsStub ==
  entered.line # -1 => /\ entered.stub.kind = "irq"
                       /\ IntNo(entered.stub) = 32 + entered.line

\* A request that is latched once the controllers are programmed, and that
\* the restored masks let through, is not left waiting for ever: the code does
\* reach the sti and the processor does take an interrupt.
PendingIsTaken ==
  ((\E line \in Devices : Deliverable(line)) /\ pc = "irq_gates")
    ~> entered.line # -1

=============================================================================
