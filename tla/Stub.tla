---------------------------------- MODULE Stub ----------------------------------
(***************************************************************************)
(* The interrupt stubs of interrupt.asm, instruction by instruction: what  *)
(* the processor and the stub push is the registers_t that the C handler   *)
(* reads, and what it pops is the state the interrupted code goes on with. *)
(* An NMI may strike between any two instructions, in C code as well.      *)
(*                                                                         *)
(* A word is <<high half, low half>>; addresses count words.  Interrupts   *)
(* models the controllers around the stubs; here a request may come at any *)
(* time.  All code runs at one privilege level, with all data segments the *)
(* kernel's, as init_pm sets them; no code of the kernel changes fs, but   *)
(* for farpeekl and farpokeb, which nothing calls.                         *)
(***************************************************************************)
EXTENDS Integers, Sequences, SequencesExt

CONSTANTS
  Irqs, Faults,   (* the vectors requested and the exceptions raised        *)
  Top             (* the kernel stack's base                                *)

NMI == 2

\* The exceptions for which the processor pushes an error code, as far as the
\* kernel's processor modes allow them.
WithErrorCode == {8} \cup 10 .. 14 \cup {17}

ASSUME VectorsAssumption ==
  /\ Irqs \subseteq 32 .. 47
  /\ Faults \subseteq (0 .. 8) \cup 10 .. 14 \cup 16 .. 19
  /\ Top \in Nat /\ Top >= 40

General  == {"eax", "ecx", "edx", "ebx", "ebp", "esi", "edi"}
Segments == {"ds", "es", "fs", "gs"}
KernelCode == 8
KernelData == 16

VARIABLES
  reg, sp, seg, cs, eip,   (* registers; eip is <<vector, instruction>>     *)
  flags,                   (* <<DF, IF>>                                    *)
  mem,                     (* the kernel stack                              *)
  frames                   (* history: what was interrupted, innermost last *)

vars == <<reg, sp, seg, cs, eip, flags, mem, frames>>

Main == <<-1, 0>>    \* kmain or anything it calls
InC  == eip[1] >= 0 /\ eip[2] = 0

-----------------------------------------------------------------------------
(* The code.                                                               *)

Op(op, arg) == [op |-> op, arg |-> arg]

\* Mutant: the stub of the page fault pushes a dummy on top of the code.
StubsWithErrorCodeNot14 == {8, 17, 30} \cup 10 .. 13

\* ISR_ERRCODE
StubsWithErrorCode == {8, 17, 30} \cup 10 .. 14

\* Mutant: one word less is dropped.
CleanupOne == 1

\* add esp, 8
Cleanup == 2

LoadSegments(r) ==
  << Op("mov", <<"ds", r>>), Op("mov", <<"es", r>>), Op("mov", <<"fs", r>>),
     Op("mov", <<"gs", r>>) >>

\* The first half of isr_common_stub and of irq_common_stub.
Save ==
  << Op("pusha", 0), Op("mov_ax_ds", 0), Op("push", "eax"), Op("mov_ax_0x10", 0) >>
    \o LoadSegments("eax") \o << Op("push", "esp"), Op("cld", 0), Op("call", 0) >>

\* Mutant: interrupts are on again before the registers are.
RestoreOpen(r) ==
  << Op("pop", r), Op("pop", r) >> \o LoadSegments(r)
    \o << Op("sti", 0), Op("popa", 0), Op("add_esp", Cleanup), Op("iret", 0) >>

\* The second half, through eax or ebx.
Restore(r) ==
  << Op("pop", r), Op("pop", r) >> \o LoadSegments(r)
    \o << Op("popa", 0), Op("add_esp", Cleanup), Op("sti", 0), Op("iret", 0) >>

Code(v) ==
  << Op("cli", 0) >>
    \o (IF v \in StubsWithErrorCode THEN <<>> ELSE << Op("push_imm", 0) >>)
    \o << Op("push_imm", v) >> \o Save \o Restore(IF v < 32 THEN "eax" ELSE "ebx")

Instr  == Code(eip[1])[eip[2]]
At(op) == eip[2] > 0 /\ Instr.op = op
Step   == eip' = <<eip[1], eip[2] + 1>>

-----------------------------------------------------------------------------
(* The processor.                                                          *)

Push(words) ==
  /\ sp' = sp - Len(words)
  /\ mem' = [a \in DOMAIN mem |-> IF a \in sp - Len(words) .. sp - 1
                                  THEN words[sp - a] ELSE mem[a]]

PushOrder == <<"eax", "ecx", "edx", "ebx", "esp", "ebp", "esi", "edi">>

Place(r) == CHOOSE k \in 1 .. 8 : PushOrder[k] = r

ValueOf(r) == IF r = "esp" THEN <<0, sp>> ELSE reg[r]

PushStep ==
  /\ \/ At("push_imm") /\ Push(<< <<0, Instr.arg>> >>)
     \/ At("push")     /\ Push(<<ValueOf(Instr.arg)>>)
     \/ At("pusha")    /\ Push([k \in 1 .. 8 |-> ValueOf(PushOrder[k])])
  /\ Step
  /\ UNCHANGED <<reg, seg, cs, flags, frames>>

PopStep ==
  /\ \/ /\ At("pop")
        /\ reg' = [reg EXCEPT ![Instr.arg] = mem[sp]]
        /\ sp' = sp + 1
     \/ /\ At("popa")
        /\ reg' = [r \in General |-> mem[sp + 8 - Place(r)]]
        /\ sp' = sp + 8
     \/ /\ At("add_esp")
        /\ sp' = sp + Instr.arg
        /\ reg' = reg
  /\ Step
  /\ UNCHANGED <<seg, cs, flags, mem, frames>>

\* Only the low half moves.
MoveStep ==
  /\ \/ /\ At("mov_ax_ds")
        /\ reg' = [reg EXCEPT !["eax"][2] = seg["ds"]]
        /\ seg' = seg
     \/ /\ At("mov_ax_0x10")
        /\ reg' = [reg EXCEPT !["eax"][2] = KernelData]
        /\ seg' = seg
     \/ /\ At("mov")
        /\ seg' = [seg EXCEPT ![Instr.arg[1]] = reg[Instr.arg[2]][2]]
        /\ reg' = reg
  /\ Step
  /\ UNCHANGED <<sp, cs, flags, mem, frames>>

FlagStep ==
  /\ \/ At("cli") /\ flags' = <<flags[1], 0>>
     \/ At("sti") /\ flags' = <<flags[1], 1>>
     \/ At("cld") /\ flags' = <<0, flags[2]>>
  /\ Step
  /\ UNCHANGED <<reg, sp, seg, cs, mem, frames>>

Call ==
  /\ At("call")
  /\ Push(<< <<eip[1], eip[2] + 1>> >>)
  /\ eip' = <<eip[1], 0>>
  /\ UNCHANGED <<reg, seg, cs, flags, frames>>

Garbage == <<9, 9>>

\* irq_handler returns.  By the calling convention it keeps ebx, ebp, esi and
\* edi, and owns the three others and its argument.
Return ==
  /\ InC /\ eip[1] >= 32
  /\ eip' = mem[sp] /\ sp' = sp + 1
  /\ reg' = [r \in General |-> IF r \in {"eax", "ecx", "edx"} THEN Garbage ELSE reg[r]]
  /\ \E w \in {mem[sp + 1], Garbage} : mem' = [mem EXCEPT ![sp + 1] = w]
  /\ UNCHANGED <<seg, cs, flags, frames>>

\* isr_handler ends in hlt, with interrupts off.
Halted == InC /\ eip[1] < 32 /\ UNCHANGED vars

Iret ==
  /\ At("iret")
  /\ eip' = mem[sp] /\ cs' = mem[sp + 1][2] /\ flags' = mem[sp + 2]
  /\ sp' = sp + 3
  /\ frames' = Front(frames)
  /\ UNCHANGED <<reg, seg, mem>>

Live == [a \in sp .. Top - 1 |-> mem[a]]

Context == [reg |-> reg, sp |-> sp, seg |-> seg, cs |-> cs, eip |-> eip,
            flags |-> flags, stack |-> Live]

\* Through an interrupt gate, which turns interrupts off.
Enter(v, err) ==
  /\ Push(<<flags, <<0, cs>>, eip>> \o IF v \in WithErrorCode THEN << <<0, err>> >> ELSE <<>>)
  /\ flags' = <<flags[1], 0>>
  /\ cs' = KernelCode
  /\ eip' = <<v, 1>>
  /\ frames' = Append(frames, [vector |-> v, err |-> err, was |-> Context])
  /\ UNCHANGED <<reg, seg>>

\* The kernel calls and returns.
Run ==
  /\ eip = Main
  /\ sp' \in Top - 3 .. Top - 1
  /\ UNCHANGED <<reg, seg, cs, eip, flags, mem, frames>>

\* sti holds requests off for one more instruction.
Shadow == eip[2] > 1 /\ Code(eip[1])[eip[2] - 1].op = "sti"

Irq(v) == flags[2] = 1 /\ ~Shadow /\ Enter(v, 0)

Fault(v) == eip = Main /\ \E err \in {0, 7} : Enter(v, err)

\* NMIs are blocked from one to the next iret, and its handler never returns.
Nmi == (\A k \in 1 .. Len(frames) : frames[k].vector # NMI) /\ Enter(NMI, 0)

Init ==
  /\ reg = [r \in General |-> <<100 + Place(r), 200 + Place(r)>>]
  /\ sp = Top - 1
  /\ seg = [s \in Segments |-> KernelData] /\ cs = KernelCode
  /\ eip = Main
  /\ flags \in {<<0, 1>>, <<1, 1>>}
  /\ mem = [a \in 0 .. Top - 1 |-> <<300, a>>]
  /\ frames = <<>>

Next ==
  \/ PushStep \/ PopStep \/ MoveStep \/ FlagStep \/ Call \/ Return \/ Iret
  \/ \E v \in Irqs : Irq(v)
  \/ \E v \in Faults : Fault(v)
  \/ Nmi
  \/ Run
  \/ Halted

Spec == Init /\ [][Next]_vars

-----------------------------------------------------------------------------
(* Properties                                                              *)

Halves == Int \X Int

\* Type invariant: eip is in a stub, in C or in the kernel, and the stack
\* pointer on the stack.
TypeOK ==
  /\ reg \in [General -> Halves]
  /\ sp \in 0 .. Top - 1
  /\ seg \in [Segments -> {KernelData}] /\ cs = KernelCode
  /\ eip = Main \/ (eip[1] \in Irqs \cup Faults \cup {NMI} /\ eip[2] \in 0 .. Len(Code(eip[1])))
  /\ flags \in {0, 1} \X {0, 1}
  /\ mem \in [0 .. Top - 1 -> Halves]

\* isr.h: registers_t, whose members count from the address in regs.
Member(r, k) == mem[r[2] + k]

\* What handler(regs) finds in *regs is what was interrupted, for stubs with
\* and without an error code, in kernel code, in a stub or in another handler;
\* and the direction flag is as C expects it.  Of ds only the low half is the
\* selector: the other is that of eax.
FrameIsTrue ==
  InC =>
    LET r   == mem[sp + 1]
        f   == frames[Len(frames)]
        pos == [edi |-> 1, esi |-> 2, ebp |-> 3, ebx |-> 5, edx |-> 6, ecx |-> 7, eax |-> 8]
    IN /\ Member(r, 0)[2] = f.was.seg["ds"]
       /\ \A g \in General : Member(r, pos[g]) = f.was.reg[g]
       /\ Member(r, 9) = <<0, f.vector>> /\ f.vector = eip[1]
       /\ Member(r, 10) = <<0, IF f.vector \in WithErrorCode THEN f.err ELSE 0>>
       /\ Member(r, 11) = f.was.eip /\ Member(r, 12) = <<0, f.was.cs>>
       /\ Member(r, 13) = f.was.flags
       /\ flags = <<0, 0>>

\* Code that an IRQ interrupted goes on as if nothing had happened: registers,
\* flags and every word of its stack.
ContextIsRestored ==
  [][Len(frames') < Len(frames) =>
       Context' = frames[Len(frames)].was]_vars

\* The sti before iret lets no request in: on the stack there is at most one
\* IRQ or fault, and the NMI.
FramesDoNotPileUp == Len(frames) <= 2
=============================================================================
