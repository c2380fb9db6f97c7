----------------------------- MODULE KernelProofs -----------------------------
(***************************************************************************)
(* Interrupt dispatch, for every set of devices, masks and handlers: the   *)
(* inductive invariant IntInv and the safety properties that follow.       *)
(* Then kmain and the timer on top of it, for every delay, frequency and   *)
(* counter width: Kernel implements the dispatch of Interrupts, sleep      *)
(* lasts its ticks across the wrap of tick, exceptions are final, and      *)
(* kmain sets things up in an order in which nothing is used too early.    *)
(***************************************************************************)
EXTENDS Kernel, SequenceTheorems, TLAPS

-----------------------------------------------------------------------------
(* The dispatch.                                                           *)

\* What a frame can look like: the line it stands for is a real one, and only
\* irq_handler's steps occur in an irq frame.
FrameOK(f) ==
  IsIrq(f) =>
    /\ f.vec # 32 + Cascade
    /\ f.step \in {"entry", "slave_done", "acked", "done"}
    /\ f.step = "slave_done" => f.vec >= 40

\* With at most one irq frame, the oldest, the union of InServiceIsOwed is the
\* debt of that frame.
InServiceOfOldest == isr = IF stack = <<>> THEN {} ELSE Owed(stack[1])

\* Inside an interrupt IF is off, and the oldest frame interrupted code that
\* ran with IF on; only exception frames sit in hlt.
FramesSaved ==
  /\ stack # <<>> => ~iflag /\ stack[1].saved = TRUE
  /\ halted => stack # <<>> /\ ~IsIrq(Top)

\* A second frame is an NMI's, and then a further NMI is held back.
NmiHeldBack == Len(stack) = 2 => nmiBlocked

IntInv ==
  /\ IntTypeOK
  /\ NoNesting
  /\ NmiHeldBack
  /\ MainIsInterruptible
  /\ InServiceOfOldest
  /\ FramesSaved
  /\ \A i \in 1 .. Len(stack) : FrameOK(stack[i])

-----------------------------------------------------------------------------
(* The controllers.                                                        *)

\* A chip with one line in service loses exactly that line by an EOI.
LEMMA HighestOfSingleton ==
  ASSUME NEW x \in Int
  PROVE  Highest({x}) = {x}
BY DEF Highest

\* Highest picks from the set it is given.
LEMMA HighestIsMember ==
  ASSUME NEW S
  PROVE  Highest(S) \subseteq S
BY DEF Highest

LEMMA RequestLines ==
  /\ Highest(MasterRequests) \subseteq MasterLines
  /\ Highest(SlaveRequests) \subseteq SlaveLines
  /\ SlaveRequests \subseteq SlaveLines
  /\ MasterRequests \subseteq MasterLines
BY HighestIsMember DEF MasterRequests, SlaveRequests, Requests

-----------------------------------------------------------------------------
(* The frame stack.                                                        *)

LEMMA FrameIsTyped ==
  ASSUME IntTypeOK, NEW v \in Vectors, NEW s \in BOOLEAN
  PROVE  Frame(v, s) \in FrameType
BY DEF Frame, FrameType, Step, IntTypeOK

\* Entering a frame on an empty stack: the accept actions, a fault and an NMI
\* that interrupts kernel code.
LEMMA EnterFirst ==
  ASSUME IntInv, stack = <<>>,
         NEW v \in Vectors, NEW s \in BOOLEAN, Enter(v, s)
  PROVE  /\ stack' \in Seq(FrameType)
         /\ Len(stack') = 1
         /\ stack' # <<>>
         /\ stack'[1] = [vec |-> v, step |-> "entry",
                         saved |-> TRUE, spurious |-> s]
         /\ iflag' = FALSE /\ halted' = FALSE
<1>1. Frame(v, s) \in FrameType
  BY FrameIsTyped DEF IntInv
<1>2. Frame(v, s) = [vec |-> v, step |-> "entry", saved |-> TRUE, spurious |-> s]
  BY DEF Frame, IntInv, MainIsInterruptible, IntTypeOK
<1> QED BY <1>1, <1>2 DEF Enter, IntInv, IntTypeOK

\* The topmost frame exists when the stack is not empty.
LEMMA TopIsTyped ==
  ASSUME IntTypeOK, stack # <<>>
  PROVE  /\ Len(stack) \in Nat \ {0}
         /\ Len(stack) \in 1 .. Len(stack)
         /\ Top \in FrameType
<1>1. stack \in Seq(FrameType)
  BY DEF IntTypeOK
<1>2. Len(stack) \in Nat \ {0}
  BY <1>1, EmptySeq
<1> QED BY <1>1, <1>2, ElementOfSeq DEF Top

\* A step of the topmost handler changes that frame's step and nothing else.
LEMMA AdvanceTop ==
  ASSUME IntTypeOK, stack # <<>>, NEW to \in Step, Advance(to)
  PROVE  /\ stack' \in Seq(FrameType)
         /\ Len(stack') = Len(stack)
         /\ stack' # <<>>
         /\ \A i \in 1 .. Len(stack) :
              stack'[i] = IF i = Len(stack) THEN [Top EXCEPT !.step = to]
                                            ELSE stack[i]
         /\ [Top EXCEPT !.step = to] =
              [vec |-> Top.vec, step |-> to, saved |-> Top.saved,
               spurious |-> Top.spurious]
<1> DEFINE f == [Top EXCEPT !.step = to]
           n == Len(stack)
<1>1. n \in Nat \ {0} /\ n \in 1 .. n /\ Top \in FrameType
  BY TopIsTyped
<1>2. f \in FrameType
  BY <1>1 DEF FrameType
<1>3. f = [vec |-> Top.vec, step |-> to, saved |-> Top.saved,
           spurious |-> Top.spurious]
  BY <1>1 DEF FrameType
<1>4. stack \in Seq(FrameType)
  BY DEF IntTypeOK
<1>5. stack' = [stack EXCEPT ![n] = f]
  BY DEF Advance, Top
<1> HIDE DEF f, n
<1>6. /\ stack' \in Seq(FrameType)
      /\ Len(stack') = Len(stack)
      /\ \A i \in 1 .. Len(stack) : stack'[i] = IF i = n THEN f ELSE stack[i]
  BY <1>1, <1>2, <1>4, <1>5, ExceptSeq DEF n
<1>7. stack' # <<>>
  BY <1>1, <1>6, EmptySeq DEF n
<1> QED BY <1>3, <1>6, <1>7 DEF f, n

LEMMA IrqVector ==
  ASSUME NEW f \in FrameType, IsIrq(f)
  PROVE  f.vec \in 32 .. 47
BY DEF FrameType, IsIrq, Vectors

\* A stack that is not empty holds one frame, or a frame and an NMI above it.
LEMMA OneOrTwoFrames ==
  ASSUME IntInv, stack # <<>>
  PROVE  Len(stack) = 1 \/ (Len(stack) = 2 /\ Top.vec = NmiVector /\ ~IsIrq(Top))
<1>1. Len(stack) \in Nat \ {0} /\ Len(stack) <= 2
  BY TopIsTyped DEF IntInv, NoNesting
<1>2. \A n \in Nat \ {0} : n <= 2 => n = 1 \/ n = 2
  OBVIOUS
<1>3. Len(stack) = 2 => Top.vec = NmiVector
  BY DEF IntInv, NoNesting, Top
<1>4. Top.vec = NmiVector => ~IsIrq(Top)
  BY DEF IsIrq, NmiVector
<1> QED BY <1>1, <1>2, <1>3, <1>4

\* An irq frame on top is alone on the stack.
LEMMA IrqOnTopIsAlone ==
  ASSUME IntInv, stack # <<>>, IsIrq(Top)
  PROVE  /\ Len(stack) = 1
         /\ Top = stack[1]
         /\ Top \in FrameType
         /\ Top.vec \in 32 .. 47
         /\ FrameOK(Top)
<1>1. Len(stack) = 1 /\ Top \in FrameType
  BY OneOrTwoFrames, TopIsTyped DEF IntInv
<1>2. Top = stack[1]
  BY <1>1 DEF Top
<1>3. FrameOK(Top)
  BY <1>1, <1>2 DEF IntInv
<1> QED BY <1>1, <1>2, <1>3, IrqVector

-----------------------------------------------------------------------------
(* Three ways to change the stack, each with what the rest of the state    *)
(* must satisfy afterwards.                                                *)

NewFrame(v, s) ==
  [vec |-> v, step |-> "entry", saved |-> TRUE, spurious |-> s]

RestTyped ==
  /\ irr \subseteq Devices
  /\ isr \subseteq Lines
  /\ handlers \in [Vectors -> Handler \cup {NoHandler}]
  /\ nmiBlocked \in BOOLEAN

LEMMA EnterKeepsInv ==
  ASSUME IntInv, stack = <<>>,
         NEW v \in Vectors \ {34}, NEW s \in BOOLEAN, Enter(v, s),
         RestTyped', isr' = Owed(NewFrame(v, s))
  PROVE  IntInv'
<1>1. /\ stack' \in Seq(FrameType) /\ Len(stack') = 1 /\ stack' # <<>>
      /\ stack'[1] = NewFrame(v, s) /\ iflag' = FALSE /\ halted' = FALSE
  BY EnterFirst DEF NewFrame
<1>2. IntTypeOK'
  BY <1>1 DEF IntTypeOK, RestTyped
<1>3. NoNesting' /\ MainIsInterruptible' /\ InServiceOfOldest'
  BY <1>1 DEF NoNesting, MainIsInterruptible, InServiceOfOldest, Owed, OwnLine, IsIrq
<1>4. FramesSaved' /\ NmiHeldBack'
  BY <1>1 DEF FramesSaved, NewFrame, NmiHeldBack
<1>5. FrameOK(NewFrame(v, s))
  BY DEF FrameOK, NewFrame, Cascade
<1>6. \A i \in 1 .. Len(stack') : FrameOK(stack'[i])
  BY <1>1, <1>5
<1> QED BY <1>2, <1>3, <1>4, <1>6 DEF IntInv, FrameOK, IsIrq

LEMMA IrqAdvanceKeepsInv ==
  ASSUME IntInv, stack # <<>>, IsIrq(Top),
         NEW to \in {"slave_done", "acked", "done"}, Advance(to),
         to = "slave_done" => Top.vec >= 40,
         RestTyped', iflag' = iflag, halted' = halted,
         isr' = Owed([Top EXCEPT !.step = to])
  PROVE  IntInv'
<1> DEFINE f == [Top EXCEPT !.step = to]
<1>1. /\ Len(stack) = 1 /\ Top = stack[1] /\ Top \in FrameType
      /\ Top.vec \in 32 .. 47 /\ FrameOK(Top)
  BY IrqOnTopIsAlone
<1>2. to \in Step
  BY DEF Step
<1>3. /\ stack' \in Seq(FrameType) /\ Len(stack') = 1 /\ stack' # <<>>
      /\ stack'[1] = f
      /\ f = [vec |-> Top.vec, step |-> to, saved |-> Top.saved,
              spurious |-> Top.spurious]
  BY <1>1, <1>2, AdvanceTop DEF IntInv
<1> HIDE DEF f
<1>4. f.vec = Top.vec /\ f.step = to /\ f.saved = Top.saved
  BY <1>3
<1>5. IntTypeOK'
  BY <1>3 DEF IntTypeOK, RestTyped, IntInv
<1>6. NoNesting' /\ NmiHeldBack' /\ MainIsInterruptible' /\ InServiceOfOldest'
  BY <1>3 DEF NoNesting, NmiHeldBack, MainIsInterruptible, InServiceOfOldest, Owed, OwnLine, IsIrq, f
<1>7. ~iflag' /\ stack'[1].saved = TRUE /\ ~halted'
  BY <1>1, <1>3, <1>4 DEF IntInv, FramesSaved
<1>8. FrameOK(f)
  BY <1>1, <1>4 DEF FrameOK, IsIrq
<1>9. \A i \in 1 .. Len(stack') : FrameOK(stack'[i])
  BY <1>3, <1>8
<1> QED BY <1>5, <1>6, <1>7, <1>9 DEF IntInv, FramesSaved, FrameOK, IsIrq

\* isr_handler's steps; it owns no in-service bit.
LEMMA IsrAdvanceKeepsInv ==
  ASSUME IntInv, stack # <<>>, ~IsIrq(Top), NEW to \in Step, Advance(to),
         RestTyped', isr' = isr, iflag' = iflag, halted' \in BOOLEAN,
         nmiBlocked' = nmiBlocked
  PROVE  IntInv'
<1> DEFINE f == [Top EXCEPT !.step = to]
           n == Len(stack)
<1>1. n \in Nat \ {0} /\ (n = 1 \/ n = 2) /\ n <= 2
  BY TopIsTyped, OneOrTwoFrames DEF IntInv
<1>2. /\ stack' \in Seq(FrameType) /\ Len(stack') = n /\ stack' # <<>>
      /\ \A i \in 1 .. n : stack'[i] = IF i = n THEN f ELSE stack[i]
      /\ f = [vec |-> Top.vec, step |-> to, saved |-> Top.saved,
              spurious |-> Top.spurious]
  BY AdvanceTop DEF IntInv
<1>3. Top = stack[n]
  BY DEF Top
<1>4. \A i \in 2 .. n : stack[i].vec = NmiVector
  BY DEF IntInv, NoNesting
<1>5. /\ isr = Owed(stack[1]) /\ ~iflag /\ stack[1].saved = TRUE
      /\ \A i \in 1 .. n : FrameOK(stack[i])
  BY DEF IntInv, InServiceOfOldest, FramesSaved
<1>6. Top' = stack'[n]
  BY <1>2 DEF Top
<1> HIDE DEF f, n
<1>7. f.vec = Top.vec /\ f.saved = Top.saved
  BY <1>2
<1>8. ~IsIrq(f) /\ Owed(f) = {} /\ Owed(Top) = {}
  BY <1>7 DEF IsIrq, Owed
<1>9. stack'[n] = f
  BY <1>1, <1>2
<1>10. IntTypeOK'
  BY <1>2 DEF IntTypeOK, RestTyped, IntInv
<1>11. NoNesting' /\ NmiHeldBack'
  BY <1>1, <1>2, <1>3, <1>4, <1>7 DEF NoNesting, NmiHeldBack, IntInv, n
<1>12. MainIsInterruptible'
  BY <1>2 DEF MainIsInterruptible
<1>13. stack'[1].saved = TRUE /\ Owed(stack'[1]) = Owed(stack[1])
  <2>1. CASE n = 1
    BY <2>1, <1>3, <1>5, <1>7, <1>8, <1>9
  <2>2. CASE n = 2
    BY <2>2, <1>2, <1>5
  <2> QED BY <1>1, <2>1, <2>2
<1>14. InServiceOfOldest'
  BY <1>2, <1>5, <1>13 DEF InServiceOfOldest, Owed, OwnLine, IsIrq
<1>15. FramesSaved'
  BY <1>2, <1>5, <1>6, <1>8, <1>9, <1>13 DEF FramesSaved, IsIrq
<1>16. FrameOK(f)
  BY <1>8 DEF FrameOK
<1>17. \A i \in 1 .. Len(stack') : FrameOK(stack'[i])
  BY <1>2, <1>5, <1>16
<1> QED BY <1>10, <1>11, <1>12, <1>14, <1>15, <1>17 DEF IntInv, FrameOK, IsIrq

-----------------------------------------------------------------------------
(* The actions.                                                            *)

\* A device interrupt finds the stack empty and the controllers idle.
LEMMA AcceptFindsIdle ==
  ASSUME IntInv, iflag
  PROVE  stack = <<>> /\ isr = {}
BY DEF IntInv, FramesSaved, MainIsInterruptible

LEMMA AcceptKeepsInv ==
  ASSUME IntInv, NEW dev \in Devices,
         AcceptMaster(dev) \/ AcceptSlave(dev)
           \/ SpuriousMaster(dev) \/ SpuriousSlave(dev)
  PROVE  IntInv'
<1>1. stack = <<>> /\ isr = {}
  BY AcceptFindsIdle DEF AcceptMaster, AcceptSlave, SpuriousMaster, SpuriousSlave
<1>2. irr \subseteq Devices /\ handlers \in [Vectors -> Handler \cup {NoHandler}]
        /\ nmiBlocked \in BOOLEAN
  BY DEF IntInv, IntTypeOK
<1>3. CASE AcceptMaster(dev)
  <2>1. dev \in 0 .. 7 /\ dev # 2
    BY <1>3, RequestLines DEF AcceptMaster, MasterLines, Cascade
  <2>2. 32 + dev \in Vectors \ {34} /\ 32 + dev < 40 /\ 32 + dev >= 32
        /\ (32 + dev) - 32 = dev
    BY <2>1 DEF Vectors
  <2>3. isr' = {dev} /\ RestTyped'
    BY <1>1, <1>2, <1>3, <2>1 DEF AcceptMaster, RestTyped, Lines
  <2>4. Owed(NewFrame(32 + dev, FALSE)) = {dev}
    BY <2>2 DEF Owed, NewFrame, IsIrq, OwnLine
  <2> QED BY <1>1, <1>3, <2>2, <2>3, <2>4, EnterKeepsInv DEF AcceptMaster
<1>4. CASE AcceptSlave(dev)
  <2>1. dev \in 8 .. 15
    BY <1>4, RequestLines DEF AcceptSlave, SlaveLines
  <2>2. 32 + dev \in Vectors \ {34} /\ ~(32 + dev < 40) /\ 32 + dev >= 32
        /\ (32 + dev) - 32 = dev
    BY <2>1 DEF Vectors
  <2>3. isr' = {Cascade, dev} /\ RestTyped'
    BY <1>1, <1>2, <1>4, <2>1 DEF AcceptSlave, RestTyped, Lines, Cascade
  <2>4. Owed(NewFrame(32 + dev, FALSE)) = {Cascade, dev}
    BY <2>2 DEF Owed, NewFrame, IsIrq, OwnLine
  <2> QED BY <1>1, <1>4, <2>2, <2>3, <2>4, EnterKeepsInv DEF AcceptSlave
<1>5. CASE SpuriousMaster(dev)
  <2>1. isr' = {} /\ RestTyped'
    BY <1>1, <1>2, <1>5 DEF SpuriousMaster, RestTyped
  <2>2. Owed(NewFrame(39, TRUE)) = {}
    BY DEF Owed, NewFrame, IsIrq, OwnLine
  <2>3. 39 \in Vectors \ {34}
    BY DEF Vectors
  <2> QED BY <1>1, <1>5, <2>1, <2>2, <2>3, EnterKeepsInv DEF SpuriousMaster
<1>6. CASE SpuriousSlave(dev)
  <2>1. isr' = {Cascade} /\ RestTyped'
    BY <1>1, <1>2, <1>6 DEF SpuriousSlave, RestTyped, Lines, Cascade
  <2>2. Owed(NewFrame(47, TRUE)) = {Cascade}
    BY DEF Owed, NewFrame, IsIrq, OwnLine
  <2>3. 47 \in Vectors \ {34}
    BY DEF Vectors
  <2> QED BY <1>1, <1>6, <2>1, <2>2, <2>3, EnterKeepsInv DEF SpuriousSlave
<1> QED BY <1>3, <1>4, <1>5, <1>6

\* The one interrupt that can arrive inside a handler.  nmiBlocked is never
\* reset, because the NMI's handler never returns.
LEMMA NmiKeepsInv ==
  ASSUME IntInv, Nmi
  PROVE  IntInv'
<1>1. CASE stack = <<>>
  <2>1. isr = {} /\ RestTyped'
    BY <1>1 DEF Nmi, RestTyped, IntInv, IntTypeOK, MainIsInterruptible
  <2>2. Owed(NewFrame(2, FALSE)) = {} /\ isr' = {}
    BY <2>1 DEF Owed, NewFrame, IsIrq, Nmi
  <2>3. 2 \in Vectors \ {34}
    BY DEF Vectors
  <2> QED BY <1>1, <2>1, <2>2, <2>3, EnterKeepsInv DEF Nmi, NmiVector
<1>2. CASE stack # <<>>
  <2> DEFINE f == Frame(NmiVector, FALSE)
  <2>1. Len(stack) = 1
    BY <1>2, OneOrTwoFrames DEF IntInv, NmiHeldBack, Nmi
  <2>2. f \in FrameType /\ f.vec = NmiVector /\ ~IsIrq(f)
    <3>1. NmiVector \in Vectors /\ FALSE \in BOOLEAN
      BY DEF NmiVector, Vectors
    <3>2. f \in FrameType
      BY <3>1, FrameIsTyped DEF IntInv
    <3> QED BY <3>2 DEF Frame, NmiVector, IsIrq
  <2>3. stack \in Seq(FrameType) /\ stack' = Append(stack, f)
          /\ iflag' = FALSE /\ halted' = FALSE /\ nmiBlocked' = TRUE
    BY DEF IntInv, IntTypeOK, Nmi, Enter
  <2> HIDE DEF f
  <2>4. /\ stack' \in Seq(FrameType) /\ Len(stack') = 2 /\ stack' # <<>>
        /\ stack'[1] = stack[1] /\ stack'[2] = f
    <3>1. /\ stack' \in Seq(FrameType) /\ stack' # <<>>
          /\ Len(stack') = Len(stack) + 1
          /\ \A i \in 1 .. Len(stack) : stack'[i] = stack[i]
          /\ stack'[Len(stack) + 1] = f
      BY <2>2, <2>3, AppendProperties
    <3>2. Len(stack) + 1 = 2 /\ 1 \in 1 .. Len(stack)
      BY <2>1
    <3> QED BY <3>1, <3>2
  <2>5. IntTypeOK' /\ NmiHeldBack'
    BY <2>3, <2>4 DEF IntTypeOK, NmiHeldBack, IntInv, Nmi
  <2>6. NoNesting'
    BY <2>2, <2>4 DEF NoNesting
  <2>7. MainIsInterruptible' /\ FramesSaved'
    BY <1>2, <2>3, <2>4 DEF MainIsInterruptible, FramesSaved, IntInv
  <2>8. isr' = isr /\ isr = Owed(stack[1])
    BY <1>2 DEF IntInv, InServiceOfOldest, Nmi
  <2>9. InServiceOfOldest'
    BY <2>4, <2>8 DEF InServiceOfOldest, Owed, OwnLine, IsIrq
  <2>10. FrameOK(stack[1]) /\ FrameOK(f)
    BY <2>1, <2>2 DEF IntInv, FrameOK
  <2>11. \A i \in 1 .. Len(stack') : FrameOK(stack'[i])
    BY <2>4, <2>10
  <2> QED BY <2>5, <2>6, <2>7, <2>9, <2>11 DEF IntInv, FrameOK, IsIrq
<1> QED BY <1>1, <1>2

LEMMA EoiKeepsInv ==
  ASSUME IntInv, EoiSlave \/ EoiMaster
  PROVE  IntInv' /\ \A l \in isr \ isr' : l \in Owed(Top)
<1>1. stack # <<>> /\ IsIrq(Top)
  BY DEF EoiSlave, EoiMaster, Executing
<1>2. /\ Len(stack) = 1 /\ Top = stack[1] /\ Top \in FrameType
      /\ Top.vec \in 32 .. 47 /\ FrameOK(Top)
  BY <1>1, IrqOnTopIsAlone
<1>3. isr = Owed(Top)
  BY <1>1, <1>2 DEF IntInv, InServiceOfOldest
<1>4. \A to \in Step : [Top EXCEPT !.step = to] =
          [vec |-> Top.vec, step |-> to, saved |-> Top.saved,
           spurious |-> Top.spurious]
  BY <1>2 DEF FrameType
<1>5. OwnLine(Top) = {} \/ OwnLine(Top) = {Top.vec - 32}
  BY DEF OwnLine
<1>6. irr \subseteq Devices /\ handlers \in [Vectors -> Handler \cup {NoHandler}]
        /\ nmiBlocked \in BOOLEAN /\ isr \subseteq Lines
  BY DEF IntInv, IntTypeOK
<1>7. Highest({}) = {}
  BY DEF Highest
<1>8. CASE EoiSlave
  <2>1. Top.vec >= 40 /\ Top.step = "entry" /\ Advance("slave_done")
          /\ isr' = isr \ Highest(isr \cap SlaveLines)
    BY <1>8 DEF EoiSlave, NeedsSlaveEoi, Eoi
  <2>2. isr = {Cascade} \cup OwnLine(Top)
    BY <1>1, <1>2, <1>3, <2>1 DEF Owed
  <2>3. Top.vec - 32 \in SlaveLines /\ Cascade \notin SlaveLines
    BY <1>2, <2>1 DEF SlaveLines, Cascade
  <2>4. Highest(isr \cap SlaveLines) = OwnLine(Top)
    <3>1. isr \cap SlaveLines = OwnLine(Top)
      BY <1>5, <2>2, <2>3
    <3>2. Highest({Top.vec - 32}) = {Top.vec - 32}
      BY <1>2, HighestOfSingleton
    <3> QED BY <1>5, <1>7, <3>1, <3>2
  <2>5. isr' = {Cascade}
    BY <1>5, <2>1, <2>2, <2>3, <2>4 DEF Cascade, SlaveLines
  <2>6. Owed([Top EXCEPT !.step = "slave_done"]) = {Cascade}
    BY <1>1, <1>2, <1>4, <2>1 DEF Owed, IsIrq, Step
  <2>7. RestTyped'
    BY <1>6, <1>8, <2>1 DEF RestTyped, EoiSlave
  <2>8. IntInv'
    BY <1>1, <1>8, <2>1, <2>5, <2>6, <2>7, IrqAdvanceKeepsInv DEF EoiSlave
  <2> QED BY <1>3, <2>8
<1>9. CASE EoiMaster
  <2>1. isr' = isr \ Highest(isr \cap MasterLines) /\ Advance("acked")
    BY <1>9 DEF EoiMaster, Eoi
  <2>2. isr = {} \/ \E x \in MasterLines : isr = {x}
    <3>1. CASE Top.vec >= 40
      <4>1. Top.step = "slave_done"
        BY <1>9, <3>1 DEF EoiMaster, NeedsSlaveEoi
      <4>2. isr = {Cascade}
        BY <1>1, <1>2, <1>3, <3>1, <4>1 DEF Owed
      <4> QED BY <4>2 DEF Cascade, MasterLines
    <3>2. CASE Top.vec < 40
      <4>1. Top.step = "entry"
        BY <1>2, <1>9, <3>2 DEF EoiMaster, NeedsSlaveEoi
      <4>2. isr = OwnLine(Top)
        BY <1>1, <1>2, <1>3, <3>2, <4>1 DEF Owed
      <4>3. Top.vec - 32 \in MasterLines
        BY <1>2, <3>2 DEF MasterLines
      <4> QED BY <1>5, <4>2, <4>3
    <3> QED BY <1>2, <3>1, <3>2
  <2>3. isr' = {}
    <3>1. \A x \in MasterLines : Highest({x}) = {x}
      BY HighestOfSingleton DEF MasterLines
    <3> QED BY <1>7, <2>1, <2>2, <3>1
  <2>4. Owed([Top EXCEPT !.step = "acked"]) = {}
    BY <1>4 DEF Owed, Step
  <2>5. RestTyped'
    BY <1>6, <1>9, <2>1 DEF RestTyped, EoiMaster
  <2>6. IntInv'
    BY <1>1, <1>9, <2>1, <2>3, <2>4, <2>5, IrqAdvanceKeepsInv DEF EoiMaster
  <2> QED BY <1>3, <2>6
<1> QED BY <1>8, <1>9

LEMMA IrqCallKeepsInv ==
  ASSUME IntInv, IrqCall \/ IrqNoHandler
  PROVE  IntInv'
<1>1. stack # <<>> /\ IsIrq(Top) /\ Top.step = "acked" /\ Advance("done")
        /\ UNCHANGED <<irr, isr, iflag, handlers, halted, nmiBlocked>>
  BY DEF IrqCall, IrqNoHandler, Executing
<1>2. Top = stack[1] /\ Top \in FrameType
  BY <1>1, IrqOnTopIsAlone
<1>3. Owed(Top) = {} /\ isr = {}
  BY <1>1, <1>2 DEF IntInv, InServiceOfOldest, Owed
<1>4. Owed([Top EXCEPT !.step = "done"]) = {}
  BY <1>2 DEF Owed, FrameType, Step
<1>5. RestTyped'
  BY <1>1 DEF RestTyped, IntInv, IntTypeOK
<1> QED BY <1>1, <1>3, <1>4, <1>5, IrqAdvanceKeepsInv

LEMMA IretKeepsInv ==
  ASSUME IntInv, Iret
  PROVE  IntInv'
<1>1. stack # <<>> /\ IsIrq(Top) /\ Top.step = "done"
  BY DEF Iret, Executing
<1>2. Len(stack) = 1 /\ Top = stack[1]
  BY <1>1, IrqOnTopIsAlone
<1>3. iflag' = TRUE /\ isr' = {} /\ halted' = FALSE
  BY <1>1, <1>2 DEF Iret, IntInv, InServiceOfOldest, FramesSaved, Owed,
                    Executing, IntTypeOK
<1>4. stack' = <<>> /\ Len(stack') = 0
  BY <1>2, SubSeqEmpty, EmptySeq DEF Iret
<1>5. IntTypeOK'
  BY <1>3, <1>4, EmptySeq DEF Iret, IntInv, IntTypeOK
<1> QED BY <1>3, <1>4, <1>5 DEF IntInv, NoNesting, NmiHeldBack, FrameOK,
          MainIsInterruptible, InServiceOfOldest, FramesSaved

LEMMA IsrStepKeepsInv ==
  ASSUME IntInv, IsrStep
  PROVE  IntInv'
<1>1. /\ stack # <<>> /\ ~IsIrq(Top)
      /\ UNCHANGED <<irr, isr, iflag, handlers, nmiBlocked>>
      /\ halted' \in BOOLEAN
      /\ \E to \in Step : Advance(to)
  BY DEF IsrStep, IsrReport, IsrCall, IsrPanic, IsrHalt, Executing, Step,
         IntInv, IntTypeOK
<1>2. RestTyped'
  BY <1>1 DEF RestTyped, IntInv, IntTypeOK
<1> QED BY <1>1, <1>2, IsrAdvanceKeepsInv

LEMMA MainKeepsInv ==
  ASSUME IntInv,
         \/ \E dev \in Devices : Raise(dev)
         \/ \E n \in Hooked, h \in Handler : RegisterHandler(n, h)
         \/ \E v \in Faults : Fault(v)
         \/ UNCHANGED intVars
  PROVE  IntInv'
<1>1. CASE \E dev \in Devices : Raise(dev)
  BY <1>1 DEF Raise, IntInv, IntTypeOK, NoNesting, NmiHeldBack, FrameOK, IsIrq,
      MainIsInterruptible, InServiceOfOldest, FramesSaved, Top, Owed, OwnLine
<1>2. CASE \E n \in Hooked, h \in Handler : RegisterHandler(n, h)
  <2>1. handlers' \in [Vectors -> Handler \cup {NoHandler}]
    BY <1>2 DEF RegisterHandler, IntInv, IntTypeOK
  <2> QED
    BY <1>2, <2>1 DEF RegisterHandler, IntInv, IntTypeOK, NoNesting, NmiHeldBack,
      FrameOK, IsIrq, MainIsInterruptible, InServiceOfOldest, FramesSaved, Top,
      Owed, OwnLine
<1>3. ASSUME NEW v \in Faults, Fault(v) PROVE IntInv'
  <2>1. v \in Vectors \ {34} /\ v < 32 /\ FALSE \in BOOLEAN
    BY FaultsAssumption DEF Vectors, Exceptions
  <2>2. stack = <<>> /\ Enter(v, FALSE) /\ UNCHANGED <<irr, isr, handlers, nmiBlocked>>
    BY <1>3 DEF Fault
  <2>3. isr' = {} /\ RestTyped'
    BY <2>2 DEF RestTyped, IntInv, IntTypeOK, MainIsInterruptible
  <2>4. Owed(NewFrame(v, FALSE)) = {}
    BY <2>1 DEF Owed, NewFrame, IsIrq, Vectors
  <2> QED BY <2>1, <2>2, <2>3, <2>4, EnterKeepsInv
<1>4. CASE UNCHANGED intVars
  BY <1>4 DEF intVars, IntInv, IntTypeOK, NoNesting, NmiHeldBack, FrameOK, IsIrq,
      MainIsInterruptible, InServiceOfOldest, FramesSaved, Top, Owed, OwnLine
<1> QED BY <1>1, <1>2, <1>3, <1>4

-----------------------------------------------------------------------------
(* The theorems about the dispatch.                                        *)

LEMMA InitHasInv == IntInit => IntInv
<1> SUFFICES ASSUME IntInit PROVE IntInv
  OBVIOUS
<1>1. stack = <<>> /\ Len(stack) = 0 /\ stack \in Seq(FrameType)
  BY EmptySeq DEF IntInit
<1>2. IntTypeOK
  BY <1>1 DEF IntInit, IntTypeOK
<1> QED BY <1>1, <1>2 DEF IntInit, IntInv, NoNesting, NmiHeldBack,
          MainIsInterruptible, InServiceOfOldest, FramesSaved

LEMMA StepKeepsInv ==
  ASSUME IntInv, [IntNext]_intVars
  PROVE  IntInv'
BY AcceptKeepsInv, NmiKeepsInv, EoiKeepsInv, IrqCallKeepsInv, IretKeepsInv,
   IsrStepKeepsInv, MainKeepsInv
   DEF IntNext, Accept, IrqStep, Dead

\* The inductive invariant: the state after any sequence of interrupts, EOIs,
\* NMIs, faults and registrations.
THEOREM IntInvHolds == IntSafety => []IntInv
<1>1. IntInit => IntInv
  BY InitHasInv
<1>2. IntInv /\ [IntNext]_intVars => IntInv'
  BY StepKeepsInv
<1> QED BY <1>1, <1>2, PTL DEF IntSafety

\* Type correctness of the dispatch state, for any set of devices and handlers.
THEOREM IntTypeCorrect == IntSpec => []IntTypeOK
<1>1. IntInv => IntTypeOK
  BY DEF IntInv
<1> QED BY <1>1, IntInvHolds, PTL DEF IntSpec

\* The debt of the oldest frame is the debt of all.
LEMMA InServiceFromInv ==
  ASSUME IntInv
  PROVE  InServiceIsOwed
<1>1. CASE stack = <<>>
  <2>1. Len(stack) = 0 /\ isr = {}
    BY <1>1, EmptySeq DEF IntInv, InServiceOfOldest
  <2>2. {Owed(stack[i]) : i \in 1 .. Len(stack)} = {}
    BY <2>1
  <2> QED BY <2>1, <2>2 DEF InServiceIsOwed
<1>2. CASE stack # <<>>
  <2>1. isr = Owed(stack[1])
    BY <1>2 DEF IntInv, InServiceOfOldest
  <2>2. \A i \in 2 .. Len(stack) : Owed(stack[i]) = {}
    BY DEF IntInv, NoNesting, Owed, IsIrq, NmiVector
  <2>3. Len(stack) = 1 \/ Len(stack) = 2
    BY <1>2, OneOrTwoFrames
  <2>4. CASE Len(stack) = 1
    BY <2>1, <2>4 DEF InServiceIsOwed
  <2>5. CASE Len(stack) = 2
    <3>1. 1 .. Len(stack) = {1, 2} /\ Owed(stack[2]) = {}
      BY <2>2, <2>5
    <3> QED BY <2>1, <3>1 DEF InServiceIsOwed
  <2> QED BY <2>3, <2>4, <2>5
<1> QED BY <1>1, <1>2

\* irq_handler's EOIs and the in-service bits always match: nothing is left in
\* service that no frame on the stack will clear.
THEOREM InServiceIsAlwaysOwed == IntSpec => []InServiceIsOwed
<1>1. IntInv => InServiceIsOwed
  BY InServiceFromInv
<1> QED BY <1>1, IntInvHolds, PTL DEF IntSpec

\* Handlers run to completion: the kernel stack never holds more than an
\* interrupt frame and an NMI's.
THEOREM NeverNested == IntSpec => []NoNesting
<1>1. IntInv => NoNesting
  BY DEF IntInv
<1> QED BY <1>1, IntInvHolds, PTL DEF IntSpec

\* Whenever kernel code is back in control, it can be interrupted again.
THEOREM MainStaysInterruptible == IntSpec => []MainIsInterruptible
<1>1. IntInv => MainIsInterruptible
  BY DEF IntInv
<1> QED BY <1>1, IntInvHolds, PTL DEF IntSpec

\* A non-specific EOI never hits a bit that is not the running handler's.
THEOREM EoiAlwaysPrecise == IntSpec => EoiIsPrecise
<1>1. ASSUME IntInv, [IntNext]_intVars
      PROVE  [\A l \in isr \ isr' : l \in Owed(Top)]_intVars
  <2> SUFFICES ASSUME IntNext PROVE \A l \in isr \ isr' : l \in Owed(Top)
    BY <1>1
  <2>1. CASE EoiSlave \/ EoiMaster
    BY <1>1, <2>1, EoiKeepsInv
  <2>2. CASE ~(EoiSlave \/ EoiMaster)
    <3>1. isr \subseteq isr'
      BY <2>2 DEF IntNext, Accept, IrqStep, IsrStep, Dead, Raise, AcceptMaster,
         AcceptSlave, SpuriousMaster, SpuriousSlave, Nmi, IrqCall, IrqNoHandler,
         Iret, IsrReport, IsrCall, IsrPanic, IsrHalt, RegisterHandler, Fault,
         intVars
    <3> QED BY <3>1
  <2> QED BY <2>1, <2>2
<1> QED BY <1>1, IntInvHolds, PTL DEF IntSpec, IntSafety, EoiIsPrecise


-----------------------------------------------------------------------------
(* Kernel is a composition that Interrupts allows.                         *)

LEMMA DriverFacts ==
  /\ 0 \in Devices
  /\ ISR0 \in Hooked /\ IRQ0 \in Hooked /\ ISR0 \in Faults
  /\ TimerCallback \in Handler /\ DivHandler \in Handler
BY DriverAssumption DEF IRQ0

LEMMA KernelStep ==
  ASSUME [KNext]_vars
  PROVE  [IntNext]_intVars
<1>1. CASE PitEdge
  BY <1>1, DriverFacts DEF PitEdge, IntNext
<1>2. CASE TimerTick
  BY <1>2 DEF TimerTick, IntNext, IrqStep
<1>3. CASE FaultOutput
  BY <1>3 DEF FaultOutput, IntNext, IsrStep
<1>4. CASE Dispatch
  BY <1>4 DEF Dispatch, IntNext, IrqStep, IsrStep
<1>5. CASE MainStep
  <2>1. CASE HookTimer
    BY <2>1, DriverFacts DEF HookTimer, IntNext
  <2>2. CASE InitTest
    BY <2>2, DriverFacts DEF InitTest, IntNext
  <2>3. CASE Divide
    BY <2>3, DriverFacts DEF Divide, IntNext
  <2>4. ASSUME NEW at, NEW delay, NEW to, SleepCall(at, delay, to)
        PROVE  [IntNext]_intVars
    BY <2>4, DriverFacts DEF SleepCall, IntNext
  <2>5. ASSUME NEW at, NEW to, PrintStep(at, to) PROVE [IntNext]_intVars
    BY <2>5 DEF PrintStep
  <2>6. CASE SetFrequency \/ PitCtrl \/ PitLow \/ PitHigh \/ SleepPoll
               \/ TerminalInitialize \/ LoopTest \/ LoopNext
    BY <2>6 DEF SetFrequency, PitCtrl, PitLow, PitHigh, SleepPoll, vars,
                TerminalInitialize, LoopTest, LoopNext
  <2> QED BY <1>5, <2>1, <2>2, <2>3, <2>4, <2>5, <2>6 DEF MainStep
<1>6. CASE SleepReturn
  BY <1>6 DEF SleepReturn
<1>7. CASE UNCHANGED vars
  BY <1>7 DEF vars
<1> QED BY <1>1, <1>2, <1>3, <1>4, <1>5, <1>6, <1>7 DEF KNext

\* Every behaviour of the kernel is one the dispatch model allows: its drivers
\* register and fault as Interrupts assumes.
THEOREM KernelImplementsDispatch == KSpec => IntSafety
<1>1. KInit => IntInit
  BY DEF KInit
<1>2. [KNext]_vars => [IntNext]_intVars
  BY KernelStep
<1> QED BY <1>1, <1>2, PTL DEF KSpec, IntSafety

\* With the kernel on top, the in-service bits still match the handlers that
\* will clear them.
THEOREM KernelInServiceIsOwed == KSpec => []InServiceIsOwed
<1>1. IntInv => InServiceIsOwed
  BY InServiceFromInv
<1> QED BY <1>1, KernelImplementsDispatch, IntInvHolds, PTL

-----------------------------------------------------------------------------
(* Type correctness.  line stays below TestLines inside the loop.          *)

InLoop == pc \in {"test_line", "line_sleep", "loop_next"}
            \/ (pc = "poll" /\ ret = "loop_next")

KTypeInv == KTypeOK /\ (InLoop => line < TestLines)

LEMMA DelayFacts ==
  /\ BootDelay \div TimerHz \in Tick
  /\ LineDelay \div TimerHz \in Tick
<1>1. \A a \in Nat, b \in Nat \ {0} : a \div b \in Nat
  OBVIOUS
<1>2. \A d \in Nat, m \in Nat \ {0} : d < m => d \in 0 .. m - 1
  OBVIOUS
<1> QED BY <1>1, <1>2, TimerAssumption DEF Tick

LEMMA ModRange ==
  ASSUME NEW a \in Int
  PROVE  a % TickModulus \in Tick
<1>1. \A m \in Nat \ {0} : a % m \in 0 .. m - 1
  OBVIOUS
<1> QED BY <1>1, TimerAssumption DEF Tick

LEMMA NextTickTyped ==
  ASSUME tick \in Tick
  PROVE  (tick + 1) % TickModulus \in Tick
<1>1. tick + 1 \in Int
  BY DEF Tick
<1> QED BY <1>1, ModRange

\* The greatest word, of which nothing else is needed.
LEMMA WordBound == MaxWord \in Int /\ MaxWord >= 0 /\ MaxWord + 1 = 256 * 256
BY DEF MaxWord

LEMMA ZeroTyped == 0 \in Byte /\ 0 \in Word
BY WordBound DEF Byte, Word

\* The two bytes are bytes, whatever the divisor is.
LEMMA DivisorTyped ==
  /\ DivisorBytes(Divisor).lo \in Byte
  /\ DivisorBytes(Divisor).hi \in Byte
<1>1. \A a \in Nat, b \in Nat \ {0} : a \div b \in Nat
  OBVIOUS
<1>2. ClockHz \div TimerHz \in Nat
  BY <1>1, TimerAssumption DEF ClockHz
<1>3. \A q \in Nat : q % 65536 \in Nat
  OBVIOUS
<1>4. Divisor \in Nat
  BY <1>2, <1>3 DEF Divisor
<1>5. \A d \in Nat : d % 256 \in 0 .. 255
  OBVIOUS
<1>6. Divisor \div 256 \in Nat
  BY <1>1, <1>4
<1> QED BY <1>4, <1>5, <1>6 DEF DivisorBytes, Byte

LEMMA PitTyped ==
  ASSUME pit \in PitTimer, PitCtrl \/ PitLow \/ PitHigh
  PROVE  pit' \in PitTimer
<1>1. \A s \in PitState, b \in Byte, w \in Word :
        /\ [pit EXCEPT !.state = s] \in PitTimer
        /\ [pit EXCEPT !.state = s, !.low = b] \in PitTimer
        /\ [pit EXCEPT !.state = s, !.divisor = w] \in PitTimer
  BY DEF PitTimer
<1>2. {"lo", "hi", "running"} \subseteq PitState
  BY DEF PitState
<1>3. CASE PitCtrl
  <2>1. [pit EXCEPT !.state = "lo"] \in PitTimer
    <3>1. "lo" \in PitState /\ 0 \in Byte /\ 0 \in Word
      BY <1>2, ZeroTyped
    <3> QED BY <1>1, <3>1
  <2> QED BY <1>3, <2>1 DEF PitCtrl
<1>4. CASE PitLow
  <2>1. "hi" \in PitState /\ 0 \in Word
    BY <1>2, ZeroTyped
  <2> QED BY <1>1, <1>4, <2>1, DivisorTyped DEF PitLow
<1>5. CASE PitHigh
  <2>1. ASSUME NEW h \in Byte, NEW l \in Byte
        PROVE  (h * 256) + l \in Word
    <3> DEFINE w == (h * 256) + l
    <3>1. h \in Int /\ 0 <= h /\ h <= 255 /\ l \in Int /\ 0 <= l /\ l <= 255
      BY DEF Byte
    <3>2. w \in Int /\ 0 <= w /\ w + 1 <= 256 * 256
      BY <3>1
    <3> HIDE DEF w
    <3>3. w <= MaxWord
      BY <3>2, WordBound
    <3>4. w \in Word
      BY <3>2, <3>3, WordBound DEF Word
    <3> QED BY <3>4 DEF w
  <2>2. pit.low \in Byte
    BY DEF PitTimer
  <2>3. "running" \in PitState /\ 0 \in Byte
    BY <1>2 DEF Byte
  <2> DEFINE d == (DivisorBytes(Divisor).hi * 256) + pit.low
  <2>4. d \in Word
    BY <2>1, <2>2, DivisorTyped
  <2>5. pit' = [pit EXCEPT !.state = "running", !.divisor = d]
    BY <1>5 DEF PitHigh
  <2> HIDE DEF d
  <2> QED BY <1>1, <2>3, <2>4, <2>5
<1> QED BY <1>3, <1>4, <1>5

\* The steps of a call of sleep before its loop.
LEMMA SleepCallTyped ==
  ASSUME KTypeInv, NEW at, NEW delay, NEW to \in Return,
         delay \div TimerHz \in Tick,
         at = "line_sleep" \/ to # "loop_next",
         SleepCall(at, delay, to)
  PROVE  KTypeInv'
<1>1. /\ ref' = tick /\ edges' = 0 /\ ret' = to /\ pc = at
      /\ UNCHANGED <<line, pit_frequency, tick, pit, tty, blind>>
  BY DEF SleepCall, Main, timerVars, ttyVars
<1>2. pc' \in {pc, "poll"} /\ (goal' = goal \/ goal' = delay \div TimerHz)
  BY DEF SleepCall, KTypeInv, KTypeOK
<1>3. pc' \in Pc /\ goal' \in Tick
  BY <1>2 DEF KTypeInv, KTypeOK, Pc
<1>4. edges' \in 0 .. TickModulus
  BY <1>1, TimerAssumption
<1>5. KTypeOK'
  BY <1>1, <1>3, <1>4 DEF KTypeInv, KTypeOK
<1>6. InLoop' => InLoop
  BY <1>1, <1>2 DEF InLoop
<1> QED BY <1>1, <1>5, <1>6 DEF KTypeInv

\* A step of kmain that only prints.
LEMMA PrintStepTyped ==
  ASSUME KTypeInv, NEW at, NEW to \in {"loop", "line_sleep", "announce", "divide"},
         at = "test_line" \/ to # "line_sleep",
         PrintStep(at, to)
  PROVE  KTypeInv'
<1>1. /\ pc = at /\ pc' = to
      /\ UNCHANGED <<line, pit_frequency, tick, pit, ref, goal, ret, edges, tty>>
  BY DEF PrintStep, Main, timerVars, sleepVars
<1>2. blind' \in BOOLEAN
  BY DEF PrintStep, Prints
<1>3. pc' \in Pc
  BY <1>1 DEF Pc
<1>4. KTypeOK'
  BY <1>1, <1>2, <1>3 DEF KTypeInv, KTypeOK
<1>5. InLoop' => InLoop
  BY <1>1 DEF InLoop
<1> QED BY <1>1, <1>4, <1>5 DEF KTypeInv

LEMMA KTypeStep ==
  ASSUME KTypeInv, [KNext]_vars
  PROVE  KTypeInv'
<1> USE DEF kvars, timerVars, sleepVars, ttyVars
<1>1. CASE PitEdge
  <2>1. edges' \in 0 .. TickModulus
    BY <1>1, TimerAssumption DEF PitEdge, KTypeInv, KTypeOK
  <2> QED BY <1>1, <2>1 DEF PitEdge, KTypeInv, KTypeOK, InLoop
<1>2. CASE TimerTick
  <2>1. (tick + 1) % TickModulus \in Tick
    BY NextTickTyped DEF KTypeInv, KTypeOK
  <2> QED BY <1>2, <2>1 DEF TimerTick, KTypeInv, KTypeOK, InLoop
<1>3. CASE FaultOutput
  <2>1. blind' \in BOOLEAN
    BY <1>3 DEF FaultOutput, Prints
  <2> QED BY <1>3, <2>1 DEF FaultOutput, KTypeInv, KTypeOK, InLoop
<1>4. CASE Dispatch \/ UNCHANGED vars \/ Divide \/ SleepPoll
  <2>1. UNCHANGED kvars
    BY <1>4 DEF Dispatch, vars, Divide, SleepPoll
  <2> QED BY <2>1 DEF KTypeInv, KTypeOK, InLoop
<1>5. CASE SetFrequency \/ HookTimer
  <2>1. pc' \in Pc /\ ~InLoop' /\ pit_frequency' \in {0, TimerHz}
    BY <1>5 DEF SetFrequency, HookTimer, Pc, InLoop, KTypeInv, KTypeOK
  <2> QED BY <1>5, <2>1 DEF SetFrequency, HookTimer, KTypeInv, KTypeOK
<1>6. CASE TerminalInitialize \/ InitTest
  <2>1. pc' \in Pc /\ ~InLoop' /\ tty' \in BOOLEAN
    BY <1>6 DEF TerminalInitialize, InitTest, BootOrder, Pc, InLoop, KTypeInv, KTypeOK
  <2> QED BY <1>6, <2>1 DEF TerminalInitialize, InitTest, KTypeInv, KTypeOK
<1>7. CASE PitCtrl \/ PitLow \/ PitHigh
  <2>1. pit' \in PitTimer
    BY <1>7, PitTyped DEF KTypeInv, KTypeOK
  <2>2. pc' \in Pc /\ ~InLoop'
    BY <1>7 DEF PitCtrl, PitLow, PitHigh, Pc, InLoop
  <2> QED BY <1>7, <2>1, <2>2 DEF PitCtrl, PitLow, PitHigh, KTypeInv, KTypeOK
<1>8. CASE LoopTest
  <2>1. pc' \in Pc /\ (InLoop' => line < TestLines)
    BY <1>8 DEF LoopTest, MoreLines, Pc, InLoop
  <2> QED BY <1>8, <2>1 DEF LoopTest, KTypeInv, KTypeOK
<1>9. CASE LoopNext
  <2>1. line' \in 0 .. TestLines
    BY <1>9, TimerAssumption DEF LoopNext, Main, KTypeInv, KTypeOK, InLoop
  <2>2. pc' \in Pc /\ ~InLoop'
    BY <1>9 DEF LoopNext, Pc, InLoop
  <2> QED BY <1>9, <2>1, <2>2 DEF LoopNext, KTypeInv, KTypeOK
<1>10. CASE SleepReturn
  <2>1. pc = "poll" /\ pc' = ret /\ ret' = ret
    BY <1>10 DEF SleepReturn, Main
  <2>2. pc' \in Pc /\ (InLoop' => InLoop)
    BY <2>1 DEF Pc, Return, InLoop, KTypeInv, KTypeOK
  <2> QED BY <1>10, <2>2 DEF SleepReturn, KTypeInv, KTypeOK
<1>11. CASE MainStep
  <2>1. CASE SleepCall("boot_sleep", BootDelay, BootOrder.after_sleep)
    <3>1. BootOrder.after_sleep = "terminal" /\ "terminal" \in Return
      BY DEF BootOrder, Return
    <3> QED BY <2>1, <3>1, SleepCallTyped, DelayFacts
  <2>2. CASE SleepCall("line_sleep", LineDelay, "loop_next")
    <3>1. "loop_next" \in Return
      BY DEF Return
    <3> QED BY <2>2, <3>1, SleepCallTyped, DelayFacts
  <2>3. CASE PrintStep("detect_cpu", BootOrder.after_cpu)
    BY <2>3, PrintStepTyped DEF BootOrder
  <2>4. CASE \/ PrintStep("test_line", "line_sleep")
             \/ PrintStep("pci_explore", "announce")
             \/ PrintStep("announce", "divide")
    BY <2>4, PrintStepTyped
  <2> QED
    BY <1>4, <1>5, <1>6, <1>7, <1>8, <1>9, <1>11, <2>1, <2>2, <2>3, <2>4
       DEF MainStep
<1> QED BY <1>1, <1>2, <1>3, <1>4, <1>10, <1>11 DEF KNext

LEMMA KTypeInit == KInit => KTypeInv
<1> SUFFICES ASSUME KInit PROVE KTypeInv
  OBVIOUS
<1>1. 0 \in Tick /\ 0 \in 0 .. TestLines /\ 0 \in 0 .. TickModulus
  BY TimerAssumption DEF Tick
<1>2. pit \in PitTimer
  <2>1. "bios" \in PitState /\ 0 \in Byte /\ 0 \in Word
    BY ZeroTyped DEF PitState
  <2> QED BY <2>1 DEF KInit, PitTimer
<1>3. pc \in Pc /\ ret \in Return /\ ~InLoop
  BY DEF KInit, EntryPoint, Pc, Return, InLoop
<1> QED BY <1>1, <1>2, <1>3 DEF KInit, KTypeInv, KTypeOK

\* Type correctness of kmain, the timer driver and the PIT.
THEOREM KernelTypeCorrect == KSpec => []KTypeOK
<1>1. KTypeInv => KTypeOK
  BY DEF KTypeInv
<1> QED BY <1>1, KTypeInit, KTypeStep, PTL DEF KSpec

-----------------------------------------------------------------------------
(* sleep lasts its ticks.  Every tick counted since the call stems from an  *)
(* edge since the call, except for one that was latched before it; an edge  *)
(* that has not become a tick yet is in the request register or in the      *)
(* handler below the increment.                                             *)

Latched  == 0 \in irr
InFlight == stack # <<>> /\ stack[1].vec = IRQ0 /\ stack[1].step # "done"

Dist == (tick - ref) % TickModulus

TickBudget ==
  pc = "poll" /\ edges < TickModulus =>
    /\ Dist <= edges + 1
    /\ Latched \/ InFlight => Dist <= edges
    /\ Latched /\ InFlight => Dist + 1 <= edges

HookedOnce == \A v \in Vectors : handlers[v] = TimerCallback => v = IRQ0

SleepInv == IntInv /\ KTypeInv /\ HookedOnce /\ TickBudget

LEMMA DistTyped ==
  ASSUME KTypeOK
  PROVE  Dist \in Nat /\ edges \in Nat /\ goal \in Nat
<1>1. tick - ref \in Int
  BY DEF KTypeOK, Tick
<1>2. Dist \in Tick
  BY <1>1, ModRange DEF Dist
<1> QED BY <1>2, TimerAssumption DEF KTypeOK, Tick

\* One more tick is one more step of distance, or less where it wraps.
LEMMA DistStep ==
  ASSUME NEW t \in Tick, NEW r \in Tick
  PROVE  (((t + 1) % TickModulus) - r) % TickModulus <= ((t - r) % TickModulus) + 1
<1>1. ASSUME NEW m \in Nat \ {0}, NEW a \in 0 .. m - 1, NEW b \in 0 .. m - 1
      PROVE  (((a + 1) % m) - b) % m <= ((a - b) % m) + 1
  OBVIOUS
<1> QED BY <1>1, TimerAssumption DEF Tick

\* A frame that enters is never in flight unless it is the timer's own.
LEMMA EnterNotInFlight ==
  ASSUME IntInv, stack = <<>>, NEW v \in Vectors, NEW s \in BOOLEAN, Enter(v, s),
         v # IRQ0
  PROVE  ~InFlight'
<1>1. stack'[1] = NewFrame(v, s)
  BY EnterFirst DEF NewFrame
<1>2. NewFrame(v, s).vec = v
  BY DEF NewFrame
<1> QED BY <1>1, <1>2 DEF InFlight

\* A step of a handler on top puts nothing in flight that was not.
LEMMA AdvanceNotInFlight ==
  ASSUME IntInv, stack # <<>>, NEW to \in Step, Advance(to),
         ~IsIrq(Top) \/ Top.step # "done"
  PROVE  InFlight' => InFlight
<1> DEFINE f == [Top EXCEPT !.step = to]
<1>a. IntTypeOK
  BY DEF IntInv
<1>b. Len(stack) \in Nat \ {0}
  BY <1>a, TopIsTyped
<1>c. 1 \in 1 .. Len(stack)
  BY <1>b
<1>d. stack'[1] = IF 1 = Len(stack) THEN f ELSE stack[1]
  BY <1>a, <1>c, AdvanceTop
<1>e. f.vec = Top.vec
  BY <1>a, AdvanceTop
<1> HIDE DEF f
<1>1. /\ Len(stack) \in Nat \ {0}
      /\ stack'[1] = IF 1 = Len(stack) THEN f ELSE stack[1]
      /\ f.vec = Top.vec
  BY <1>b, <1>d, <1>e
<1>2. CASE Len(stack) = 1
  <2>1. stack'[1].vec = Top.vec /\ Top = stack[1]
    BY <1>1, <1>2 DEF Top
  <2>2. Top.vec = IRQ0 => IsIrq(Top)
    BY DEF IsIrq, IRQ0
  <2> QED BY <2>1, <2>2 DEF InFlight
<1>3. CASE Len(stack) # 1
  BY <1>1, <1>3 DEF InFlight
<1> QED BY <1>2, <1>3

\* Only the acknowledge cycle for line 0 puts a tick in flight, and it takes
\* the request with it.
LEMMA InFlightStep ==
  ASSUME IntInv, [IntNext]_intVars, ~IrqCall
  PROVE  InFlight' => InFlight \/ (Latched /\ ~Latched')
<1>1. ASSUME NEW l \in Devices, Raise(l) PROVE InFlight' => InFlight
  BY <1>1 DEF Raise, InFlight
<1>2. ASSUME NEW l \in Devices, AcceptMaster(l)
      PROVE  InFlight' => InFlight \/ (Latched /\ ~Latched')
  <2>1. stack = <<>> /\ Enter(32 + l, FALSE) /\ irr' = irr \ {l}
    BY <1>2, AcceptFindsIdle DEF AcceptMaster
  <2>2. l \in MasterLines /\ l \in irr
    <3>1. l \in MasterRequests /\ l # Cascade
      BY <1>2, HighestIsMember DEF AcceptMaster
    <3>2. MasterRequests \subseteq MasterLines /\ MasterRequests \subseteq irr \cup {Cascade}
      BY DEF MasterRequests, Requests
    <3> QED BY <3>1, <3>2
  <2>3. 32 + l \in Vectors /\ (l # 0 => 32 + l # IRQ0)
    BY <2>2 DEF Vectors, MasterLines, IRQ0
  <2>4. CASE l = 0
    BY <2>1, <2>2, <2>4 DEF Latched
  <2>5. CASE l # 0
    BY <2>1, <2>3, <2>5, EnterNotInFlight
  <2> QED BY <2>4, <2>5
<1>3. ASSUME NEW l \in Devices, AcceptSlave(l) \/ SpuriousMaster(l) \/ SpuriousSlave(l)
      PROVE  ~InFlight'
  <2>1. stack = <<>>
    BY <1>3, AcceptFindsIdle DEF AcceptSlave, SpuriousMaster, SpuriousSlave
  <2>2. CASE AcceptSlave(l)
    <3>1. l \in SlaveLines
      BY <2>2, RequestLines DEF AcceptSlave
    <3>2. 32 + l \in Vectors /\ 32 + l # IRQ0
      BY <3>1 DEF SlaveLines, Vectors, IRQ0
    <3> QED BY <2>1, <2>2, <3>2, EnterNotInFlight DEF AcceptSlave
  <2>3. CASE SpuriousMaster(l) \/ SpuriousSlave(l)
    <3>1. 39 \in Vectors /\ 47 \in Vectors /\ 39 # IRQ0 /\ 47 # IRQ0
      BY DEF Vectors, IRQ0
    <3> QED
      BY <2>1, <2>3, <3>1, EnterNotInFlight DEF SpuriousMaster, SpuriousSlave
  <2> QED BY <1>3, <2>2, <2>3
<1>4. CASE Nmi
  <2>0. NmiVector \in Vectors /\ NmiVector # IRQ0
    BY DEF NmiVector, Vectors, IRQ0
  <2>1. Enter(NmiVector, FALSE) /\ NmiVector \in Vectors /\ NmiVector # IRQ0
    BY <1>4, <2>0 DEF Nmi
  <2>2. CASE stack = <<>>
    BY <2>1, <2>2, EnterNotInFlight
  <2>3. CASE stack # <<>>
    <3> DEFINE f == Frame(NmiVector, FALSE)
    <3>1. stack \in Seq(FrameType) /\ Len(stack) \in Nat \ {0}
      BY <2>3, TopIsTyped DEF IntInv, IntTypeOK
    <3>2. f \in FrameType
      BY <2>1, FrameIsTyped DEF IntInv
    <3>3. stack' = Append(stack, f)
      BY <2>1 DEF Enter
    <3> HIDE DEF f
    <3>4. \A i \in 1 .. Len(stack) : stack'[i] = stack[i]
      BY <3>1, <3>2, <3>3, AppendProperties
    <3>5. 1 \in 1 .. Len(stack)
      BY <3>1
    <3> QED BY <2>3, <3>4, <3>5 DEF InFlight
  <2> QED BY <2>2, <2>3
<1>5. CASE EoiSlave \/ EoiMaster
  <2>1. PICK to \in Step : Advance(to)
    BY <1>5 DEF EoiSlave, EoiMaster, Step
  <2>2. stack # <<>> /\ Top.step # "done"
    BY <1>5 DEF EoiSlave, EoiMaster, Executing
  <2> QED BY <2>1, <2>2, AdvanceNotInFlight
<1>6. CASE IrqNoHandler
  <2>1. stack # <<>> /\ Top.step # "done" /\ Advance("done") /\ "done" \in Step
    BY <1>6 DEF IrqNoHandler, Executing, Step
  <2> QED BY <2>1, AdvanceNotInFlight
<1>7. CASE Iret
  <2>1. stack # <<>> /\ IsIrq(Top) /\ stack' = SubSeq(stack, 1, Len(stack) - 1)
    BY <1>7 DEF Iret, Executing
  <2>2. Len(stack) = 1
    BY <2>1, IrqOnTopIsAlone
  <2>3. stack' = SubSeq(stack, 1, 0)
    BY <2>1, <2>2
  <2>4. stack' = <<>>
    BY <2>3, SubSeqEmpty
  <2> QED BY <2>4 DEF InFlight
<1>8. CASE IsrStep
  <2>1. PICK to \in Step : Advance(to)
    BY <1>8 DEF IsrStep, IsrReport, IsrCall, IsrPanic, IsrHalt, Step
  <2>2. stack # <<>> /\ ~IsIrq(Top)
    BY <1>8 DEF IsrStep, IsrReport, IsrCall, IsrPanic, IsrHalt, Executing
  <2> QED BY <2>1, <2>2, AdvanceNotInFlight
<1>9. ASSUME NEW n \in Hooked, NEW h \in Handler, RegisterHandler(n, h)
      PROVE  InFlight' => InFlight
  BY <1>9 DEF RegisterHandler, InFlight
<1>10. ASSUME NEW v \in Faults, Fault(v) PROVE ~InFlight'
  <2>1. v \in Vectors /\ v # IRQ0
    BY FaultsAssumption DEF Exceptions, Vectors, IRQ0
  <2> QED BY <1>10, <2>1, EnterNotInFlight DEF Fault
<1>11. CASE UNCHANGED intVars
  BY <1>11 DEF intVars, InFlight
<1>12. CASE IrqStep
  BY <1>5, <1>6, <1>7, <1>12 DEF IrqStep
<1>13. CASE Accept
  BY <1>2, <1>3, <1>13 DEF Accept
<1> QED
  BY <1>1, <1>4, <1>8, <1>9, <1>10, <1>11, <1>12, <1>13 DEF IntNext, Dead

\* A step that neither counts nor raises line 0 keeps the budget.
LEMMA QuietStep ==
  ASSUME SleepInv, [IntNext]_intVars, ~IrqCall, Latched' => Latched,
         UNCHANGED <<tick, ref, edges>>, pc' = "poll" => pc = "poll"
  PROVE  TickBudget'
<1>1. InFlight' => InFlight \/ (Latched /\ ~Latched')
  BY InFlightStep DEF SleepInv
<1>2. Dist' = Dist
  BY DEF Dist
<1>3. Dist \in Nat /\ edges \in Nat
  BY DistTyped DEF SleepInv, KTypeInv
<1> HIDE DEF Dist, Latched, InFlight
<1>4. TickBudget
  BY DEF SleepInv
<1>5. SUFFICES ASSUME pc' = "poll", edges < TickModulus
               PROVE  /\ Dist <= edges + 1
                      /\ Latched' \/ InFlight' => Dist <= edges
                      /\ Latched' /\ InFlight' => Dist + 1 <= edges
  BY <1>2 DEF TickBudget
<1> QED BY <1>1, <1>4, <1>5 DEF TickBudget

\* A step after which kmain does not poll has nothing to keep.
LEMMA NotPolling ==
  ASSUME pc' # "poll"
  PROVE  TickBudget'
BY DEF TickBudget

\* The call of sleep starts the account.
LEMMA SleepCallBudget ==
  ASSUME SleepInv, NEW at, NEW delay, NEW to, SleepCall(at, delay, to),
         at # "poll"
  PROVE  TickBudget'
<1>1. CASE pit_frequency = 0
  <2>1. pc' = pc /\ pc # "poll"
    BY <1>1 DEF SleepCall, Main
  <2> QED BY <2>1, NotPolling
<1>2. CASE pit_frequency # 0
  <2>1. stack' = <<>> /\ tick' = tick /\ ref' = tick /\ edges' = 0
    BY <1>2 DEF SleepCall, Main, intVars, timerVars
  <2>2. ~InFlight'
    BY <2>1 DEF InFlight
  <2>3. tick - tick = 0
    BY DEF SleepInv, KTypeInv, KTypeOK, Tick
  <2>4. \A m \in Nat \ {0} : 0 % m = 0
    OBVIOUS
  <2>5. Dist' = 0
    BY <2>1, <2>3, <2>4, TimerAssumption DEF Dist
  <2> QED BY <2>1, <2>2, <2>5 DEF TickBudget
<1> QED BY <1>1, <1>2

\* An edge pays for the request it latches.
LEMMA EdgeBudget ==
  ASSUME SleepInv, PitEdge
  PROVE  TickBudget'
<1>1. Dist' = Dist /\ pc' = pc
  BY DEF PitEdge, Dist, timerVars
<1>2. Dist \in Nat /\ edges \in Nat /\ TickModulus \in Nat
  BY DistTyped, TimerAssumption DEF SleepInv, KTypeInv
<1>3. InFlight' = InFlight
  BY DEF PitEdge, Raise, intVars, InFlight
<1>4. Latched \/ ~Latched
  OBVIOUS
<1>5. CASE edges < TickModulus
  <2>1. edges' = edges + 1
    BY <1>5 DEF PitEdge
  <2>2. pc = "poll" => /\ Dist <= edges + 1
                       /\ InFlight => Dist <= edges
                       /\ Latched /\ InFlight => Dist + 1 <= edges
    BY <1>5 DEF SleepInv, TickBudget
  <2> HIDE DEF Dist, Latched, InFlight
  <2> QED BY <1>1, <1>2, <1>3, <2>1, <2>2 DEF TickBudget
<1>6. CASE ~(edges < TickModulus)
  <2>1. edges' = edges
    BY <1>6 DEF PitEdge
  <2> QED BY <1>6, <2>1 DEF TickBudget
<1> QED BY <1>5, <1>6

\* A tick is what was in flight, and nothing is in flight after it.
LEMMA TickBudgetTick ==
  ASSUME SleepInv, TimerTick
  PROVE  TickBudget'
<1>1. stack # <<>> /\ IsIrq(Top) /\ Top.step = "acked" /\ Advance("done")
      /\ handlers[Top.vec] = TimerCallback
  BY DEF TimerTick, IrqCall, Executing
<1>2. Len(stack) = 1 /\ Top = stack[1] /\ Top.vec \in 32 .. 47
  BY <1>1, IrqOnTopIsAlone DEF SleepInv
<1>3. Top.vec \in Vectors
  BY <1>2 DEF Vectors
<1>4. Top.vec = IRQ0
  BY <1>1, <1>3 DEF SleepInv, HookedOnce
<1>5. InFlight
  BY <1>1, <1>2, <1>4 DEF InFlight
<1>6. ~InFlight'
  <2>1. "done" \in Step /\ IntTypeOK
    BY DEF Step, SleepInv, IntInv
  <2>2. 1 \in 1 .. Len(stack) /\ 1 = Len(stack)
    BY <1>2
  <2>3. stack'[1] = [Top EXCEPT !.step = "done"]
    BY <1>1, <2>1, <2>2, AdvanceTop
  <2>4. [Top EXCEPT !.step = "done"].step = "done"
    BY <1>1, <2>1, AdvanceTop
  <2> QED BY <2>3, <2>4 DEF InFlight
<1>7. Latched' = Latched /\ pc' = pc /\ ref' = ref /\ edges' = edges
  BY DEF TimerTick, IrqCall, Latched, sleepVars
<1>8. Dist' <= Dist + 1
  <2>1. tick \in Tick /\ ref \in Tick /\ tick' = (tick + 1) % TickModulus
    BY DEF SleepInv, KTypeInv, KTypeOK, TimerTick
  <2>2. Dist' = (((tick + 1) % TickModulus) - ref) % TickModulus
    BY <1>7, <2>1 DEF Dist
  <2> QED BY <2>1, <2>2, DistStep DEF Dist
<1>9. Dist \in Nat /\ edges \in Nat /\ Dist' \in Nat
  <2>1. tick' \in Tick /\ ref' \in Tick
    BY <1>7, NextTickTyped DEF SleepInv, KTypeInv, KTypeOK, TimerTick
  <2>2. tick' - ref' \in Int
    BY <2>1 DEF Tick
  <2>3. Dist' \in Tick
    BY <2>2, ModRange DEF Dist
  <2> QED BY <2>3, DistTyped DEF SleepInv, KTypeInv, Tick
<1>10. pc = "poll" /\ edges < TickModulus =>
         /\ Dist <= edges
         /\ Latched => Dist + 1 <= edges
  BY <1>5 DEF SleepInv, TickBudget
<1> HIDE DEF Dist, Latched, InFlight
<1>11. SUFFICES ASSUME pc = "poll", edges < TickModulus
                PROVE  Dist' <= edges + 1 /\ (Latched => Dist' <= edges)
  BY <1>6, <1>7 DEF TickBudget
<1>12. \A d, e, n \in Nat : /\ n <= d + 1 /\ d <= e => n <= e + 1
                            /\ n <= d + 1 /\ d + 1 <= e => n <= e
  OBVIOUS
<1> QED BY <1>8, <1>9, <1>10, <1>11, <1>12

\* Only the timer's own registration puts timer_callback into the table.
LEMMA HookStep ==
  ASSUME SleepInv, [KNext]_vars
  PROVE  HookedOnce'
<1>1. CASE handlers' = handlers
  BY <1>1 DEF SleepInv, HookedOnce
<1>2. CASE HookTimer
  BY <1>2 DEF HookTimer, RegisterHandler, SleepInv, HookedOnce, IntInv, IntTypeOK
<1>3. CASE InitTest
  BY <1>3, DriverAssumption
     DEF InitTest, RegisterHandler, SleepInv, HookedOnce, IntInv, IntTypeOK
<1>4. CASE MainStep
  <2>1. ASSUME NEW at, NEW delay, NEW to, SleepCall(at, delay, to)
        PROVE  handlers' = handlers
    BY <2>1 DEF SleepCall, Fault, intVars
  <2>2. ASSUME NEW at, NEW to, PrintStep(at, to) PROVE handlers' = handlers
    BY <2>2 DEF PrintStep, intVars
  <2>3. CASE SetFrequency \/ PitCtrl \/ PitLow \/ PitHigh \/ SleepPoll
               \/ TerminalInitialize \/ LoopTest \/ LoopNext
    BY <1>1, <2>3 DEF SetFrequency, PitCtrl, PitLow, PitHigh, SleepPoll, vars,
                TerminalInitialize, LoopTest, LoopNext, intVars
  <2>4. Divide => handlers' = handlers
    BY DEF Divide, Fault
  <2> QED BY <1>1, <1>2, <1>3, <1>4, <2>1, <2>2, <2>3, <2>4 DEF MainStep
<1>5. CASE PitEdge \/ TimerTick \/ FaultOutput \/ SleepReturn \/ UNCHANGED vars
  BY <1>1, <1>5 DEF PitEdge, Raise, TimerTick, IrqCall, FaultOutput, IsrReport,
                    IsrCall, IsrPanic, SleepReturn, vars, intVars
<1>6. CASE Dispatch
  BY <1>1, <1>6 DEF Dispatch, Raise, Accept, AcceptMaster, AcceptSlave,
                    SpuriousMaster, SpuriousSlave, Nmi, EoiSlave, EoiMaster,
                    IrqNoHandler, Iret, IsrHalt, Dead, intVars
<1> QED BY <1>4, <1>5, <1>6 DEF KNext

LEMMA BudgetStep ==
  ASSUME SleepInv, [KNext]_vars
  PROVE  TickBudget'
<1>0. [IntNext]_intVars
  BY KernelStep
<1>1. CASE FaultOutput
  <2>1. ~IrqCall /\ irr' = irr
    BY <1>1 DEF FaultOutput, IsrReport, IsrCall, IsrPanic, IrqCall
  <2>2. UNCHANGED <<tick, ref, edges, pc>>
    BY <1>1 DEF FaultOutput, timerVars, sleepVars
  <2> QED BY <1>0, <2>1, <2>2, QuietStep DEF Latched
<1>2. CASE Dispatch
  <2>1. UNCHANGED <<tick, ref, edges, pc>>
    BY <1>2 DEF Dispatch, kvars, timerVars, sleepVars
  <2>2. Latched' => Latched
    BY <1>2 DEF Dispatch, Raise, Accept, AcceptMaster, AcceptSlave,
                SpuriousMaster, SpuriousSlave, Nmi, EoiSlave, EoiMaster,
                IrqNoHandler, Iret, IsrHalt, Dead, intVars, Latched
  <2>3. CASE IrqCall
    <3>1. Top.step = "acked" /\ IsIrq(Top) /\ stack # <<>> /\ ~halted
      BY <2>3 DEF IrqCall, Executing
    <3>2. InFlight' => InFlight
      BY <2>3, <3>1, AdvanceNotInFlight DEF IrqCall, Step, SleepInv
    <3>3. Dist' = Dist /\ Dist \in Nat /\ edges \in Nat
      BY <2>1, DistTyped DEF Dist, SleepInv, KTypeInv
    <3> HIDE DEF Dist, Latched, InFlight
    <3> QED BY <2>1, <2>2, <3>2, <3>3 DEF SleepInv, TickBudget
  <2> QED BY <1>0, <2>1, <2>2, <2>3, QuietStep
<1>3. CASE MainStep
  <2>1. ASSUME NEW at, NEW delay, NEW to, SleepCall(at, delay, to), at # "poll"
        PROVE  TickBudget'
    BY <2>1, SleepCallBudget
  <2>2. ASSUME NEW at, NEW to, PrintStep(at, to), to # "poll" PROVE TickBudget'
    BY <2>2, NotPolling DEF PrintStep
  <2>3. CASE SetFrequency \/ HookTimer \/ PitCtrl \/ PitLow \/ PitHigh
               \/ TerminalInitialize \/ InitTest \/ LoopTest \/ LoopNext
               \/ Divide
    <3>1. pc' # "poll"
      BY <2>3 DEF SetFrequency, HookTimer, PitCtrl, PitLow, PitHigh, Main, kvars,
                  TerminalInitialize, InitTest, LoopTest, LoopNext, Divide, BootOrder
    <3> QED BY <3>1, NotPolling
  <2>4. CASE SleepPoll
    <3>1. ~IrqCall /\ irr' = irr /\ UNCHANGED <<tick, ref, edges, pc>>
      BY <2>4 DEF SleepPoll, Main, IrqCall, Executing, vars, kvars, intVars,
                  timerVars, sleepVars
    <3> QED BY <1>0, <3>1, QuietStep DEF Latched
  <2>5. BootOrder.after_cpu # "poll"
    BY DEF BootOrder
  <2> QED BY <1>3, <2>1, <2>2, <2>3, <2>4, <2>5 DEF MainStep
<1>4. CASE SleepReturn
  <2>1. pc' \in Return
    BY <1>4 DEF SleepReturn, SleepInv, KTypeInv, KTypeOK
  <2> QED BY <2>1, NotPolling DEF Return
<1>5. CASE UNCHANGED vars
  <2>1. UNCHANGED <<tick, ref, edges, pc, irr, stack>>
    BY <1>5 DEF vars, kvars, intVars, timerVars, sleepVars
  <2>2. Dist' = Dist /\ Latched' = Latched /\ InFlight' = InFlight
    BY <2>1 DEF Dist, Latched, InFlight
  <2> QED BY <2>1, <2>2 DEF SleepInv, TickBudget
<1> QED BY <1>1, <1>2, <1>3, <1>4, <1>5, EdgeBudget, TickBudgetTick DEF KNext

LEMMA SleepInvInit == KInit => SleepInv
<1> SUFFICES ASSUME KInit PROVE SleepInv
  OBVIOUS
<1>1. IntInv /\ KTypeInv
  BY InitHasInv, KTypeInit DEF KInit
<1>2. HookedOnce
  <2>1. TimerCallback # NoHandler
    BY HandlerAssumption, DriverAssumption
  <2> QED BY <2>1 DEF KInit, IntInit, HookedOnce
<1>3. TickBudget
  BY DEF KInit, EntryPoint, TickBudget
<1> QED BY <1>1, <1>2, <1>3 DEF SleepInv

LEMMA SleepInvStep == SleepInv /\ [KNext]_vars => SleepInv'
<1> SUFFICES ASSUME SleepInv, [KNext]_vars PROVE SleepInv'
  OBVIOUS
<1>1. IntInv'
  BY KernelStep, StepKeepsInv DEF SleepInv
<1>2. KTypeInv'
  BY KTypeStep DEF SleepInv
<1> QED BY <1>1, <1>2, HookStep, BudgetStep DEF SleepInv

\* When sleep returns, its ticks have been edges, all but one.
LEMMA SleepReturnPays ==
  ASSUME SleepInv, [KNext]_vars, pc = "poll", pc' # "poll"
  PROVE  edges >= goal - 1
<1>1. SleepReturn
  <2>1. ~MainStep
    BY DEF MainStep, SetFrequency, HookTimer, PitCtrl, PitLow, PitHigh, SleepCall,
           SleepPoll, TerminalInitialize, InitTest, PrintStep, LoopTest, LoopNext,
           Divide, Main, vars, kvars
  <2> QED BY <2>1 DEF KNext, PitEdge, TimerTick, FaultOutput, Dispatch, vars, kvars
<1>2. Dist >= goal
  BY <1>1 DEF SleepReturn, Elapsed, Dist
<1>3. Dist \in Nat /\ edges \in Nat /\ goal \in Nat /\ goal < TickModulus
  BY DistTyped, TimerAssumption DEF SleepInv, KTypeInv, KTypeOK, Tick
<1>4. edges < TickModulus => Dist <= edges + 1
  BY DEF SleepInv, TickBudget
<1> HIDE DEF Dist
<1> QED BY <1>2, <1>3, <1>4, TimerAssumption

\* sleep returns only after its ticks, for every width of tick, every delay and
\* every frequency, and whatever other interrupts and NMIs come in between.
THEOREM SleepLasts == KSpec => SleepLastsItsTicks
<1>1. SleepInv /\ [KNext]_vars =>
        (pc = "poll" /\ pc' # "poll" => edges >= goal - 1)
  BY SleepReturnPays
<1>2. SleepInv /\ [KNext]_vars =>
        [pc = "poll" /\ pc' # "poll" => edges >= goal - 1]_vars
  BY <1>1
<1> QED BY <1>2, SleepInvInit, SleepInvStep, PTL DEF KSpec, SleepLastsItsTicks
-----------------------------------------------------------------------------
(* Exceptions are final.                                                   *)

\* What is below stays; what is added is an NMI's frame.
StackKept ==
  /\ stack' \in Seq(FrameType)
  /\ Len(stack') >= Len(stack)
  /\ \A k \in 1 .. Len(stack) : stack'[k].vec = stack[k].vec
  /\ \A k \in Len(stack) + 1 .. Len(stack') : stack'[k].vec = NmiVector

LEMMA FatalFacts ==
  ASSUME IntInv, Fatal
  PROVE  /\ stack # <<>> /\ stack \in Seq(FrameType) /\ Len(stack) \in Nat \ {0}
         /\ ~IsIrq(Top) /\ ~iflag
<1>1. stack # <<>>
  BY EmptySeq DEF Fatal
<1>2. IsIrq(Top) => Len(stack) = 1 /\ Top = stack[1]
  BY <1>1, IrqOnTopIsAlone
<1>3. ~IsIrq(Top)
  BY <1>2 DEF Fatal
<1> QED BY <1>1, <1>3, TopIsTyped DEF IntInv, IntTypeOK, FramesSaved

LEMMA AdvanceKeepsStack ==
  ASSUME IntInv, stack # <<>>, NEW to \in Step, Advance(to)
  PROVE  StackKept
<1>1. IntTypeOK
  BY DEF IntInv
<1>2. /\ stack' \in Seq(FrameType) /\ Len(stack') = Len(stack)
      /\ \A k \in 1 .. Len(stack) :
           stack'[k] = IF k = Len(stack) THEN [Top EXCEPT !.step = to] ELSE stack[k]
      /\ [Top EXCEPT !.step = to].vec = Top.vec
  BY <1>1, AdvanceTop
<1>3. Len(stack) \in Nat
  BY <1>1, TopIsTyped
<1>4. \A k \in 1 .. Len(stack) : stack'[k].vec = stack[k].vec
  BY <1>2 DEF Top
<1>5. Len(stack') >= Len(stack) /\ Len(stack) + 1 .. Len(stack') = {}
  BY <1>2, <1>3
<1> QED BY <1>2, <1>4, <1>5 DEF StackKept

LEMMA NmiKeepsStack ==
  ASSUME IntInv, Nmi
  PROVE  StackKept
<1> DEFINE g == Frame(NmiVector, FALSE)
<1>1. NmiVector \in Vectors /\ FALSE \in BOOLEAN
  BY DEF NmiVector, Vectors
<1>2. g \in FrameType /\ stack \in Seq(FrameType)
  BY <1>1, FrameIsTyped DEF IntInv, IntTypeOK
<1>3. stack' = Append(stack, g) /\ g.vec = NmiVector
  BY DEF Nmi, Enter, Frame
<1> HIDE DEF g
<1>4. /\ stack' \in Seq(FrameType) /\ Len(stack') = Len(stack) + 1
      /\ \A k \in 1 .. Len(stack) : stack'[k] = stack[k]
      /\ stack'[Len(stack) + 1] = g
  BY <1>2, <1>3, AppendProperties
<1>5. Len(stack) \in Nat
  BY <1>2, LenProperties
<1> QED BY <1>3, <1>4, <1>5 DEF StackKept

LEMMA SameStackKept ==
  ASSUME IntInv, stack' = stack
  PROVE  StackKept
<1>1. stack \in Seq(FrameType)
  BY DEF IntInv, IntTypeOK
<1>2. Len(stack) \in Nat
  BY <1>1, LenProperties
<1> QED BY <1>1, <1>2 DEF StackKept

\* With an exception on the stack no interrupt is accepted and nothing is popped.
LEMMA FatalStep ==
  ASSUME IntInv, Fatal, [IntNext]_intVars
  PROVE  StackKept
<1>1. stack # <<>> /\ ~IsIrq(Top) /\ ~iflag
  BY FatalFacts
<1>2. ~Accept /\ ~IrqStep
  BY <1>1 DEF Accept, AcceptMaster, AcceptSlave, SpuriousMaster, SpuriousSlave,
              IrqStep, EoiSlave, EoiMaster, IrqCall, IrqNoHandler, Iret
<1>3. CASE IsrStep
  <2>1. PICK to \in Step : Advance(to)
    BY <1>3 DEF IsrStep, IsrReport, IsrCall, IsrPanic, IsrHalt, Step
  <2> QED BY <1>1, <2>1, AdvanceKeepsStack
<1>4. CASE stack' = stack
  BY <1>4, SameStackKept
<1> QED
  BY <1>1, <1>2, <1>3, <1>4, NmiKeepsStack DEF IntNext, Raise, RegisterHandler, Fault, Dead, intVars

\* isr_handler never gives control back, with or without a registered function.
THEOREM FaultStaysFinal == IntSafety => FaultIsFinal
<1> DEFINE Final ==
      \A i \in 1 .. Len(stack) :
        ~IsIrq(stack[i]) => /\ Len(stack') >= i
                            /\ stack'[i].vec = stack[i].vec
                            /\ \A j \in i + 1 .. Len(stack') : ~IsIrq(stack'[j])
<1>1. ASSUME IntInv, [IntNext]_intVars PROVE Final
  <2> SUFFICES ASSUME NEW i \in 1 .. Len(stack), ~IsIrq(stack[i])
               PROVE  /\ Len(stack') >= i
                      /\ stack'[i].vec = stack[i].vec
                      /\ \A j \in i + 1 .. Len(stack') : ~IsIrq(stack'[j])
    OBVIOUS
  <2>1. Fatal
    BY DEF Fatal
  <2>2. StackKept
    BY <1>1, <2>1, FatalStep
  <2>3. Len(stack) \in Nat /\ Len(stack') \in Nat
    BY <1>1, <2>1, <2>2, FatalFacts, LenProperties DEF StackKept
  <2>4. ASSUME NEW j \in i + 1 .. Len(stack') PROVE ~IsIrq(stack'[j])
    <3>1. stack'[j].vec = NmiVector
      <4>1. CASE j <= Len(stack)
        <5>1. j \in 2 .. Len(stack)
          BY <2>3, <4>1
        <5> QED BY <1>1, <2>2, <5>1 DEF StackKept, IntInv, NoNesting
      <4>2. CASE j > Len(stack)
        BY <2>2, <2>3, <4>2 DEF StackKept
      <4> QED BY <2>3, <4>1, <4>2
    <3> QED BY <3>1 DEF IsIrq, NmiVector
  <2> QED BY <2>2, <2>3, <2>4 DEF StackKept
<1>2. IntInv /\ [IntNext]_intVars => [Final]_intVars
  BY <1>1
<1> QED BY <1>2, IntInvHolds, PTL DEF IntSafety, FaultIsFinal

\* Fatal is never over.
LEMMA FatalStays ==
  ASSUME IntInv, Fatal, [IntNext]_intVars
  PROVE  Fatal'
<1>1. StackKept
  BY FatalStep
<1>2. Len(stack) \in Nat /\ Len(stack') \in Nat
  BY <1>1, FatalFacts, LenProperties DEF StackKept
<1>3. PICK i \in 1 .. Len(stack) : ~IsIrq(stack[i])
  BY DEF Fatal
<1>4. i \in 1 .. Len(stack') /\ stack'[i].vec = stack[i].vec
  BY <1>1, <1>2 DEF StackKept
<1> QED BY <1>3, <1>4 DEF Fatal, IsIrq

\* A frame of an exception comes from an NMI or a fault of kernel code.
LEMMA FatalBegins ==
  ASSUME IntInv, [IntNext]_intVars, ~Fatal, Fatal'
  PROVE  Nmi \/ \E v \in Faults : Fault(v)
<1>1. CASE Accept
  <2>1. PICK v \in 32 .. 47, s \in BOOLEAN : Enter(v, s)
    <3>1. PICK dev \in Devices : \/ AcceptMaster(dev) \/ AcceptSlave(dev)
                                  \/ SpuriousMaster(dev) \/ SpuriousSlave(dev)
      BY <1>1 DEF Accept
    <3>2. dev \in 0 .. 15
      BY DevicesAssumption DEF Lines
    <3>3. 32 + dev \in 32 .. 47 /\ 39 \in 32 .. 47 /\ 47 \in 32 .. 47
      BY <3>2
    <3> QED BY <3>1, <3>3 DEF AcceptMaster, AcceptSlave, SpuriousMaster, SpuriousSlave
  <2>2. stack = <<>>
    BY <1>1, AcceptFindsIdle DEF Accept, AcceptMaster, AcceptSlave, SpuriousMaster, SpuriousSlave
  <2>3. v \in Vectors
    BY DEF Vectors
  <2>4. Len(stack') = 1 /\ stack'[1].vec = v
    <3>1. Len(stack') = 1 /\ stack'[1] = NewFrame(v, s)
      BY <2>1, <2>2, <2>3, EnterFirst DEF NewFrame
    <3> QED BY <3>1 DEF NewFrame
  <2> QED BY <2>4 DEF Fatal, IsIrq
<1>2. CASE IrqStep \/ IsrStep
  <2>1. stack # <<>>
    BY <1>2 DEF IrqStep, IsrStep, EoiSlave, EoiMaster, IrqCall, IrqNoHandler, Iret, Executing,
                IsrReport, IsrCall, IsrPanic, IsrHalt
  <2>2. CASE Iret
    <3>1. Len(stack) = 1 /\ stack' = SubSeq(stack, 1, Len(stack) - 1)
      BY <2>1, <2>2, IrqOnTopIsAlone DEF Iret
    <3>2. stack' = <<>>
      BY <3>1, SubSeqEmpty
    <3>3. Len(stack') = 0
      BY <3>2, EmptySeq
    <3> QED BY <3>3 DEF Fatal
  <2>3. CASE ~Iret
    <3>1. PICK to \in Step : Advance(to)
      BY <1>2, <2>3 DEF IrqStep, IsrStep, EoiSlave, EoiMaster, IrqCall, IrqNoHandler,
                        IsrReport, IsrCall, IsrPanic, IsrHalt, Step
    <3>2. IntTypeOK
      BY DEF IntInv
    <3>3. /\ Len(stack') = Len(stack)
          /\ \A k \in 1 .. Len(stack) :
               stack'[k] = IF k = Len(stack) THEN [Top EXCEPT !.step = to] ELSE stack[k]
          /\ [Top EXCEPT !.step = to].vec = Top.vec
      BY <2>1, <3>1, <3>2, AdvanceTop
    <3>4. \A k \in 1 .. Len(stack) : stack'[k].vec = stack[k].vec
      BY <3>3 DEF Top
    <3> QED BY <3>3, <3>4 DEF Fatal, IsIrq
  <2> QED BY <2>2, <2>3
<1>3. stack' # stack
  BY DEF Fatal
<1> QED BY <1>1, <1>2, <1>3 DEF IntNext, Raise, RegisterHandler, Dead, intVars

\* The frame of an exception, once there, stops kmain and the clock.
THEOREM FaultStops == KSpec => FaultStopsTheClock
<1>1. ASSUME IntInv, [KNext]_vars, Fatal
      PROVE  Fatal' /\ UNCHANGED <<pc, tick>>
  <2>1. Fatal'
    BY <1>1, KernelStep, FatalStays
  <2>2. stack # <<>> /\ ~IsIrq(Top)
    BY <1>1, FatalFacts
  <2>3. ~MainStep /\ ~SleepReturn /\ ~TimerTick
    BY <2>2 DEF MainStep, SetFrequency, HookTimer, PitCtrl, PitLow, PitHigh, SleepCall,
       SleepPoll, TerminalInitialize, InitTest, PrintStep, LoopTest, LoopNext, Divide, Main,
       SleepReturn, TimerTick, IrqCall
  <2>4. UNCHANGED <<pc, tick>>
    BY <1>1, <2>3 DEF KNext, PitEdge, FaultOutput, Dispatch, vars, kvars, timerVars
  <2> QED BY <2>1, <2>4
<1>2. IntInv /\ [KNext]_vars => [Fatal => Fatal' /\ UNCHANGED <<pc, tick>>]_vars
  BY <1>1
<1> QED BY <1>2, KernelImplementsDispatch, IntInvHolds, PTL DEF KSpec, FaultStopsTheClock

-----------------------------------------------------------------------------
(* The order of kmain: what has been set up at which point.                *)

\* Where kmain goes on after the call of sleep that is running.
After(at) == pc = at \/ (pc = "poll" /\ ret = at)

Unset == pc \in {"init_timer", "register", "pit_ctrl", "pit_lo", "pit_hi"}

TimerSet ==
  /\ pc # "init_timer" => pit_frequency = TimerHz
  /\ pc \notin {"init_timer", "register"} => handlers[IRQ0] = TimerCallback
  /\ pc = "pit_hi" => pit.low = DivisorBytes(Divisor).lo
  /\ ~Unset => /\ pit.state = "running"
               /\ pit.divisor = (DivisorBytes(Divisor).hi * 256) + DivisorBytes(Divisor).lo

ScreenSet ==
  /\ pc = "poll" => ret \in {"terminal", "loop_next"}
  /\ tty \/ Unset \/ pc = "boot_sleep" \/ After("terminal")

OrderInv ==
  /\ IntInv /\ KTypeInv
  /\ TimerSet /\ ScreenSet
  /\ OnlyForcedFault /\ NothingPrintedBlind

LEMMA OrderInit == KInit => OrderInv
<1> SUFFICES ASSUME KInit PROVE OrderInv
  OBVIOUS
<1>1. IntInv /\ KTypeInv
  BY InitHasInv, KTypeInit DEF KInit
<1>2. ~Fatal
  BY EmptySeq DEF KInit, IntInit, Fatal
<1> QED BY <1>1, <1>2 DEF KInit, EntryPoint, OrderInv, TimerSet, ScreenSet, Unset,
           OnlyForcedFault, NothingPrintedBlind

\* sleep does not divide by zero.
LEMMA SleepCallsAreSafe ==
  ASSUME OrderInv, NEW at \in {"boot_sleep", "line_sleep"}, NEW delay, NEW to,
         SleepCall(at, delay, to)
  PROVE  /\ pc = at /\ pc' = "poll" /\ ret' = to
         /\ UNCHANGED <<intVars, pit, pit_frequency, tty, blind>>
<1>1. pc = at
  BY DEF SleepCall, Main
<1>2. pit_frequency # 0
  BY <1>1, TimerAssumption DEF OrderInv, TimerSet
<1> QED BY <1>1, <1>2 DEF SleepCall, timerVars, ttyVars

\* kmain moves on only where the stack is empty.
LEMMA MainRunsAlone ==
  ASSUME OrderInv, [KNext]_vars, pc' # pc
  PROVE  stack = <<>> /\ ~Fatal /\ (MainStep \/ SleepReturn)
<1>1. MainStep \/ SleepReturn
  BY DEF KNext, PitEdge, TimerTick, FaultOutput, Dispatch, vars, kvars
<1>2. stack = <<>>
  BY <1>1 DEF MainStep, SetFrequency, HookTimer, PitCtrl, PitLow, PitHigh, SleepCall, vars, kvars,
     SleepPoll, TerminalInitialize, InitTest, PrintStep, LoopTest, LoopNext, Divide, Main, SleepReturn
<1> QED BY <1>1, <1>2, EmptySeq DEF Fatal

\* No iret unblocks an NMI.
LEMMA NmiStaysBlocked ==
  ASSUME [IntNext]_intVars, nmiBlocked
  PROVE  nmiBlocked'
BY DEF IntNext, Raise, Accept, AcceptMaster, AcceptSlave, SpuriousMaster, SpuriousSlave,
   Nmi, IrqStep, EoiSlave, EoiMaster, IrqCall, IrqNoHandler, Iret, IsrStep, IsrReport, IsrCall,
   IsrPanic, IsrHalt, RegisterHandler, Fault, Dead, intVars

\* An exception before the forced one would have to be an NMI.
LEMMA ForcedFaultStep ==
  ASSUME OrderInv, [KNext]_vars
  PROVE  OnlyForcedFault'
<1> SUFFICES ASSUME Fatal' PROVE pc' = "divide" \/ nmiBlocked'
  BY DEF OnlyForcedFault
<1>0. [IntNext]_intVars /\ IntInv
  BY KernelStep DEF OrderInv
<1>1. nmiBlocked => nmiBlocked'
  BY <1>0, NmiStaysBlocked
<1>2. CASE Fatal
  <2>1. pc' = pc
    BY <1>2, MainRunsAlone
  <2> QED BY <1>1, <1>2, <2>1 DEF OrderInv, OnlyForcedFault
<1>3. CASE ~Fatal
  <2>1. Nmi \/ \E v \in Faults : Fault(v)
    BY <1>0, <1>3, FatalBegins
  <2>2. CASE Nmi
    BY <2>2 DEF Nmi
  <2>3. ASSUME NEW v \in Faults, Fault(v) PROVE pc' = "divide"
    <3>1. stack = <<>> /\ v \in Vectors /\ FALSE \in BOOLEAN
      BY <2>3, FaultsAssumption DEF Fault, Exceptions, Vectors
    <3>2. Len(stack') = 1 /\ stack'[1].vec = v /\ stack' # <<>>
      <4>1. Len(stack') = 1 /\ stack'[1] = NewFrame(v, FALSE) /\ stack' # <<>>
        BY <1>0, <2>3, <3>1, EnterFirst DEF Fault, NewFrame
      <4> QED BY <4>1 DEF NewFrame
    <3>3. ~(\E dev \in Devices : Raise(dev)) /\ ~Accept /\ ~IrqStep /\ ~IsrStep /\ ~Dead
      <4>1. v \in 0 .. 31
        BY FaultsAssumption DEF Exceptions
      <4>2. ~Accept
        <5>1. ASSUME Accept PROVE FALSE
          <6>1. PICK dev \in Devices : \/ AcceptMaster(dev) \/ AcceptSlave(dev)
                                        \/ SpuriousMaster(dev) \/ SpuriousSlave(dev)
            BY <5>1 DEF Accept
          <6>2. dev \in 0 .. 15
            BY DevicesAssumption DEF Lines
          <6>3. 32 + dev \in 32 .. 47 /\ 39 \in 32 .. 47 /\ 47 \in 32 .. 47
            BY <6>2
          <6>4. PICK u \in 32 .. 47, s \in BOOLEAN : Enter(u, s)
            BY <6>1, <6>3 DEF AcceptMaster, AcceptSlave, SpuriousMaster, SpuriousSlave
          <6>5. stack'[1] = NewFrame(u, s)
            <7>1. u \in Vectors
              BY DEF Vectors
            <7> QED BY <1>0, <3>1, <6>4, <7>1, EnterFirst DEF NewFrame
          <6>6. stack'[1].vec = u
            BY <6>5 DEF NewFrame
          <6> QED BY <3>2, <4>1, <6>6
        <5> QED BY <5>1
      <4>3. ~(\E dev \in Devices : Raise(dev)) /\ ~IrqStep /\ ~IsrStep /\ ~Dead
        BY <3>1, <3>2 DEF Raise, IrqStep, IsrStep, EoiSlave, EoiMaster, IrqCall, IrqNoHandler, Iret,
           Executing, IsrReport, IsrCall, IsrPanic, IsrHalt, Dead, intVars
      <4> QED BY <4>2, <4>3
    <3>4. stack' # stack /\ v # NmiVector
      BY <3>1, <3>2, FaultsAssumption
    <3>5. ~Nmi
      <4>1. ASSUME Nmi PROVE FALSE
        <5>1. NmiVector \in Vectors /\ stack = <<>> /\ FALSE \in BOOLEAN
          BY <3>1 DEF NmiVector, Vectors
        <5>2. stack'[1] = NewFrame(NmiVector, FALSE)
          BY <1>0, <4>1, <5>1, EnterFirst DEF Nmi, NewFrame
        <5>3. stack'[1].vec = NmiVector
          BY <5>2 DEF NewFrame
        <5> QED BY <3>2, <3>4, <5>3
      <4> QED BY <4>1
    <3>6. MainStep
      BY <3>1, <3>3, <3>4, <3>5 DEF KNext, PitEdge, TimerTick, FaultOutput, Dispatch, SleepReturn,
         vars, intVars, IrqStep, IsrStep, Raise
    <3>7. CASE Divide
      BY <3>7 DEF Divide, Main, kvars
    <3>8. CASE ~Divide
      <4>1. \A delay, to : /\ ~SleepCall("boot_sleep", delay, to)
                           /\ ~SleepCall("line_sleep", delay, to)
        BY <3>4, SleepCallsAreSafe DEF intVars
      <4> QED
        BY <3>4, <3>6, <3>8, <4>1 DEF MainStep, SetFrequency, HookTimer, PitCtrl, PitLow, PitHigh,
           SleepPoll, TerminalInitialize, InitTest, PrintStep, LoopTest, LoopNext, RegisterHandler,
           vars, intVars
    <3> QED BY <3>7, <3>8
  <2> QED BY <2>1, <2>2, <2>3
<1> QED BY <1>2, <1>3

\* Everything that kmain prints, and every exception but an NMI, comes when the
\* screen is there.
LEMMA BlindStep ==
  ASSUME OrderInv, [KNext]_vars
  PROVE  NothingPrintedBlind'
<1>1. nmiBlocked => nmiBlocked'
  BY KernelStep, NmiStaysBlocked
<1>2. CASE blind' = blind
  BY <1>1, <1>2 DEF OrderInv, NothingPrintedBlind
<1>3. CASE FaultOutput
  <2>1. stack # <<>> /\ ~IsIrq(Top) /\ blind' = (blind \/ ~tty)
    BY <1>3 DEF FaultOutput, IsrReport, IsrCall, IsrPanic, Executing, Prints
  <2>2. Fatal
    <3>1. Len(stack) \in 1 .. Len(stack)
      BY <2>1, TopIsTyped DEF OrderInv, IntInv
    <3> QED BY <2>1, <3>1 DEF Fatal, Top
  <2>3. pc = "divide" => tty
    BY DEF OrderInv, ScreenSet, Unset, After
  <2> QED BY <1>1, <2>1, <2>2, <2>3 DEF OrderInv, OnlyForcedFault, NothingPrintedBlind
<1>4. ASSUME NEW at \in {"detect_cpu", "test_line", "pci_explore", "announce"}, NEW to,
             PrintStep(at, to)
      PROVE  NothingPrintedBlind'
  <2>1. pc = at /\ blind' = (blind \/ ~tty)
    BY <1>4 DEF PrintStep, Main, Prints
  <2>2. tty
    BY <2>1 DEF OrderInv, ScreenSet, Unset, After
  <2> QED BY <1>1, <2>1, <2>2 DEF OrderInv, NothingPrintedBlind
<1> QED
  BY <1>2, <1>3, <1>4 DEF KNext, PitEdge, TimerTick, Dispatch, MainStep, SetFrequency, HookTimer,
     PitCtrl, PitLow, PitHigh, SleepCall, SleepPoll, TerminalInitialize, InitTest, LoopTest,
     LoopNext, Divide, SleepReturn, vars, kvars, ttyVars

\* The table of handlers changes where kmain registers one.
LEMMA HandlersChange ==
  ASSUME OrderInv, [KNext]_vars, handlers' # handlers
  PROVE  HookTimer \/ InitTest
<1>1. CASE MainStep
  BY <1>1 DEF MainStep, SetFrequency, PitCtrl, PitLow, PitHigh, SleepCall, SleepPoll,
     TerminalInitialize, PrintStep, LoopTest, LoopNext, Divide, Fault, vars, intVars
<1>2. CASE ~MainStep
  BY <1>2 DEF KNext, PitEdge, Raise, TimerTick, IrqCall, FaultOutput, IsrReport, IsrCall, IsrPanic,
     SleepReturn, Dispatch, Accept, AcceptMaster, AcceptSlave, SpuriousMaster, SpuriousSlave, Nmi,
     EoiSlave, EoiMaster, IrqNoHandler, Iret, IsrHalt, Dead, vars, intVars
<1> QED BY <1>1, <1>2

\* Where kmain stands still, so does what it sets up.
LEMMA RestStep ==
  ASSUME OrderInv, [KNext]_vars, ~MainStep, ~SleepReturn
  PROVE  TimerSet' /\ ScreenSet'
<1>1. UNCHANGED <<pc, ret, pit, pit_frequency, tty>>
  BY DEF KNext, PitEdge, TimerTick, FaultOutput, Dispatch, vars, kvars, timerVars, sleepVars, ttyVars
<1>2. handlers' = handlers
  BY HandlersChange DEF MainStep
<1> QED BY <1>1, <1>2 DEF OrderInv, TimerSet, ScreenSet, Unset, After

LEMMA MainOrderStep ==
  ASSUME OrderInv, [KNext]_vars, MainStep \/ SleepReturn
  PROVE  TimerSet' /\ ScreenSet'
<1>0. /\ handlers \in [Vectors -> Handler \cup {NoHandler}] /\ IRQ0 \in Vectors /\ ISR0 \in Vectors
      /\ ISR0 # IRQ0
  BY DEF OrderInv, IntInv, IntTypeOK, IRQ0, ISR0, Vectors
<1>1. CASE SetFrequency
  BY <1>1 DEF SetFrequency, Main, OrderInv, TimerSet, ScreenSet, Unset, After
<1>2. CASE HookTimer
  <2>1. handlers'[IRQ0] = TimerCallback
    BY <1>0, <1>2 DEF HookTimer, RegisterHandler
  <2> QED BY <1>2, <2>1 DEF HookTimer, Main, timerVars, OrderInv, TimerSet, ScreenSet, Unset, After
<1>3. CASE PitCtrl
  BY <1>3 DEF PitCtrl, Main, intVars, OrderInv, TimerSet, ScreenSet, Unset, After
<1>4. CASE PitLow
  <2>1. pit'.low = DivisorBytes(Divisor).lo
    BY <1>4 DEF PitLow, OrderInv, KTypeInv, KTypeOK, PitTimer
  <2> QED
    BY <1>4, <2>1 DEF PitLow, Main, intVars, OrderInv, TimerSet, ScreenSet, Unset, After
<1>5. CASE PitHigh
  <2>1. /\ pit'.state = "running"
        /\ pit'.divisor = (DivisorBytes(Divisor).hi * 256) + pit.low
    BY <1>5 DEF PitHigh, OrderInv, KTypeInv, KTypeOK, PitTimer
  <2>2. pit.low = DivisorBytes(Divisor).lo
    BY <1>5 DEF PitHigh, Main, OrderInv, TimerSet
  <2> QED
    BY <1>5, <2>1, <2>2 DEF PitHigh, Main, intVars, OrderInv, TimerSet, ScreenSet, Unset, After
<1>6. ASSUME NEW at \in {"boot_sleep", "line_sleep"}, NEW delay,
             NEW to \in {"terminal", "loop_next"}, SleepCall(at, delay, to),
             at = "boot_sleep" => to = "terminal"
      PROVE  TimerSet' /\ ScreenSet'
  <2>1. pc = at /\ pc' = "poll" /\ ret' = to /\ UNCHANGED <<handlers, pit, pit_frequency, tty>>
    BY <1>6, SleepCallsAreSafe DEF intVars
  <2> QED BY <1>6, <2>1 DEF OrderInv, TimerSet, ScreenSet, Unset, After
<1>7. CASE SleepReturn
  <2>1. pc = "poll" /\ pc' = ret /\ UNCHANGED <<handlers, pit, pit_frequency, ret, tty>>
    BY <1>7 DEF SleepReturn, Main, intVars, timerVars, sleepVars, ttyVars
  <2> QED BY <2>1 DEF OrderInv, TimerSet, ScreenSet, Unset, After
<1>8. CASE SleepPoll \/ Divide
  <2>1. UNCHANGED <<pc, ret, pit, pit_frequency, tty, handlers>>
    BY <1>8 DEF SleepPoll, Divide, Fault, vars, intVars, kvars, timerVars, sleepVars, ttyVars
  <2> QED BY <2>1 DEF OrderInv, TimerSet, ScreenSet, Unset, After
<1>9. CASE TerminalInitialize
  BY <1>9 DEF TerminalInitialize, BootOrder, Main, intVars, timerVars, sleepVars,
     OrderInv, TimerSet, ScreenSet, Unset, After
<1>10. CASE InitTest
  <2>1. handlers'[IRQ0] = handlers[IRQ0]
    BY <1>0, <1>10 DEF InitTest, RegisterHandler
  <2> QED
    BY <1>10, <2>1 DEF InitTest, BootOrder, Main, timerVars, sleepVars, ttyVars,
       OrderInv, TimerSet, ScreenSet, Unset, After
<1>11. ASSUME NEW at \in {"detect_cpu", "test_line", "pci_explore", "announce"},
              NEW to \in {"loop", "line_sleep", "announce", "divide"}, PrintStep(at, to)
       PROVE  TimerSet' /\ ScreenSet'
  <2>1. pc = at /\ pc' = to /\ UNCHANGED <<ret, pit, pit_frequency, tty, handlers>>
    BY <1>11 DEF PrintStep, Main, intVars, timerVars, sleepVars
  <2> QED BY <2>1 DEF OrderInv, TimerSet, ScreenSet, Unset, After
<1>12. CASE LoopTest \/ LoopNext
  <2>1. /\ pc \in {"loop", "loop_next"} /\ pc' \in {"test_line", "pci_explore", "loop"}
        /\ UNCHANGED <<ret, pit, pit_frequency, tty, handlers>>
    BY <1>12 DEF LoopTest, LoopNext, Main, intVars, timerVars, sleepVars, ttyVars
  <2> QED BY <2>1 DEF OrderInv, TimerSet, ScreenSet, Unset, After
<1> QED
  BY <1>1, <1>2, <1>3, <1>4, <1>5, <1>6, <1>7, <1>8, <1>9, <1>10, <1>11, <1>12
  DEF MainStep, BootOrder

LEMMA OrderStep == OrderInv /\ [KNext]_vars => OrderInv'
<1> SUFFICES ASSUME OrderInv, [KNext]_vars PROVE OrderInv'
  OBVIOUS
<1>1. IntInv' /\ KTypeInv'
  BY KernelStep, StepKeepsInv, KTypeStep DEF OrderInv
<1>2. TimerSet' /\ ScreenSet'
  BY RestStep, MainOrderStep
<1> QED BY <1>1, <1>2, ForcedFaultStep, BlindStep DEF OrderInv

LEMMA OrderInvHolds == KSpec => []OrderInv
BY OrderInit, OrderStep, PTL DEF KSpec

\* kmain raises no exception but the one it forces.
THEOREM NoOtherFault == KSpec => []OnlyForcedFault
<1>1. OrderInv => OnlyForcedFault
  BY DEF OrderInv
<1> QED BY <1>1, OrderInvHolds, PTL

\* Nothing is printed before the screen is there, but by an NMI.
THEOREM NeverPrintsBlind == KSpec => []NothingPrintedBlind
<1>1. OrderInv => NothingPrintedBlind
  BY DEF OrderInv
<1> QED BY <1>1, OrderInvHolds, PTL

\* The two bytes are the divisor, as long as it fits into 16 bits.
LEMMA DivisorFits ==
  ASSUME TimerHz >= 19
  PROVE  (DivisorBytes(Divisor).hi * 256) + DivisorBytes(Divisor).lo = ClockHz \div TimerHz
<1>1. TimerHz \in Nat \ {0}
  BY TimerAssumption
<1> DEFINE d == ClockHz \div TimerHz
<1>2. d \in Nat /\ d < 65536
  <2>1. \A h \in Nat \ {0} : h >= 19 => 1193182 \div h \in Nat /\ 1193182 \div h < 65536
    <3> TAKE h \in Nat \ {0}
    <3> DEFINE q == 1193182 \div h
    <3>1. q \in Int /\ h * q <= 1193182
      OBVIOUS
    <3>2. q >= 0
      OBVIOUS
    <3> HIDE DEF q
    <3>3. h >= 19 => 19 * q <= h * q
      BY <3>1, <3>2
    <3>4. h * q \in Int
      BY <3>1
    <3> QED BY <3>1, <3>2, <3>3, <3>4 DEF q
  <2> QED BY <1>1, <2>1 DEF ClockHz
<1> HIDE DEF d
<1>3. d % 65536 = d /\ (((d \div 256) % 256) * 256) + (d % 256) = d
  BY <1>2
<1> QED BY <1>3 DEF DivisorBytes, Divisor, d

\* From 19 Hz on, where the divisor fits the PIT's 16 bits, sleep always has the
\* clock it counts by.
THEOREM SleepAlwaysHasItsClock == ASSUME TimerHz >= 19 PROVE KSpec => []SleepHasItsClock
<1>1. OrderInv => SleepHasItsClock
  BY DivisorFits DEF OrderInv, TimerSet, Unset, SleepHasItsClock
<1> QED BY <1>1, OrderInvHolds, PTL
=============================================================================
