--------------------------- MODULE IntInstallProofs ---------------------------
(***************************************************************************)
(* int_install, for every set of devices and every pair of masks that the  *)
(* BIOS may leave: the masks are restored and the first interrupt lands in *)
(* its stub.                                                               *)
(***************************************************************************)
EXTENDS IntInstall, TLAPS

\* A chip's programming before the write number k of those it gets, counted
\* from 0: ICW1 to ICW4 and the mask m.
Programmed(c, k, block, link, m) ==
  /\ k = 0 => c.stage = "ready" /\ c.imr = m
  /\ k = 1 => c.stage = "icw2"
  /\ k = 2 => c.stage = "icw3"
  /\ k = 3 => c.stage = "icw4"
  /\ k >= 4 => c.stage = "ready"
  /\ k >= 2 => c.base = block
  /\ k >= 3 => c.link = link
  /\ k = 5 => c.imr = m

\* Master and slave are written in turns, the master first.
Turns == 0 .. 4

ChipsInv ==
  /\ pc = "remap" => n \in 1 .. 10
  /\ pc \in {"save_a", "save_b"} =>
       /\ n = 1
       /\ Programmed(chip["master"], 0, 32, 4, bios["master"])
       /\ Programmed(chip["slave"], 0, 40, 2, bios["slave"])
  /\ pc = "save_b" => mask["master"] = bios["master"]
  /\ pc \notin {"save_a", "save_b"} => mask = bios
  /\ \A k \in Turns :
       /\ pc = "remap" /\ n = (2 * k) + 1 =>
            /\ Programmed(chip["master"], k, 32, 4, bios["master"])
            /\ Programmed(chip["slave"], k, 40, 2, bios["slave"])
       /\ pc = "remap" /\ n = (2 * k) + 2 =>
            /\ Programmed(chip["master"], k + 1, 32, 4, bios["master"])
            /\ Programmed(chip["slave"], k, 40, 2, bios["slave"])
  /\ pc \notin {"save_a", "save_b", "remap"} =>
       /\ Programmed(chip["master"], 5, 32, 4, bios["master"])
       /\ Programmed(chip["slave"], 5, 40, 2, bios["slave"])

\* The gates of the IRQs, as far as they have been filled in.
GatesInv ==
  /\ pc = "irq_gates" => n \in 0 .. 15
  /\ pc = "isr_gates" => n \in 0 .. 31
  /\ \A i \in 0 .. 15 :
       \/ pc = "irq_gates" /\ i < n
       \/ pc \in {"isr_gates", "lidt", "sti", "installed"}
       => idt[32 + i] = Gate(Stub("irq", i))

LoadInv ==
  /\ iflag => pc = "installed"
  /\ pc \in {"sti", "installed"} => idtr

ChipType == [stage : Stage, link : Byte, irr : SUBSET Devices, base : Byte, imr : Byte]
GateType == [stub : AnyStub, flags : {0, 142}]

InstallInv ==
  /\ TypeOK /\ idt \in [Vectors -> GateType]
  /\ ChipsInv /\ GatesInv /\ LoadInv /\ IrqReachesItsStub

-----------------------------------------------------------------------------

LEMMA InitInstall == Init => InstallInv
<1> SUFFICES ASSUME Init PROVE InstallInv
  OBVIOUS
<1>1. bios \in BiosMasks /\ bios \in [Chips -> Byte]
  BY MasksAssumption DEF Init
<1>2. ASSUME NEW c \in Chips
      PROVE  /\ chip[c] = [stage |-> "ready", link |-> 0, irr |-> {},
                           base |-> IF c = "master" THEN 8 ELSE 112, imr |-> bios[c]]
             /\ chip[c] \in ChipType
  <2>1. chip[c] = [stage |-> "ready", link |-> 0, irr |-> {},
                   base |-> IF c = "master" THEN 8 ELSE 112, imr |-> bios[c]]
    BY DEF Init
  <2>2. bios[c] \in Byte /\ (IF c = "master" THEN 8 ELSE 112) \in Byte /\ 0 \in Byte
    BY <1>1 DEF Byte
  <2> QED BY <2>1, <2>2 DEF ChipType, Stage
<1>3. chip \in [Chips -> ChipType]
  BY <1>2 DEF Init
<1>4. mask \in [Chips -> Byte]
  BY DEF Init, Byte
<1>5. NoGate \in GateType
  BY DEF NoGate, Stub, GateType, AnyStub
<1>6. idt \in [Vectors -> GateType] /\ \A v \in Vectors : idt[v] = NoGate
  BY <1>5 DEF Init
<1>7. \A v \in Vectors : idt[v].stub \in AnyStub /\ idt[v].flags \in {0, 142}
  BY <1>5, <1>6 DEF GateType
<1>8. TypeOK
  <2>1. /\ pc \in {"save_a", "save_b", "remap", "irq_gates", "isr_gates", "lidt",
                    "sti", "installed"}
        /\ n \in 0 .. 31
    BY DEF Init
  <2>2. entered.line \in Devices \cup {-1}
    BY DEF Init
  <2>3. chip \in [Chips -> [stage : Stage, link : Byte, irr : SUBSET Devices,
                            base : Byte, imr : Byte]]
    BY <1>3 DEF ChipType
  <2>4. idtr \in BOOLEAN /\ iflag \in BOOLEAN
    BY Zenon DEF Init
  <2> QED BY <1>1, <1>4, <1>7, <2>1, <2>2, <2>3, <2>4, Zenon DEF TypeOK
<1>9. "master" \in Chips /\ "slave" \in Chips
  BY DEF Chips
<1>10. ChipsInv
  BY <1>2, <1>9 DEF Init, ChipsInv, Programmed
<1> QED BY <1>6, <1>8, <1>10 DEF Init, InstallInv, GatesInv, LoadInv, IrqReachesItsStub

\* The fields of a chip after a write that changes one of them, or several.
LEMMA ChipField ==
  ASSUME NEW c \in ChipType, NEW s \in Stage, NEW v \in Byte, NEW S \in SUBSET Devices
  PROVE  /\ [c EXCEPT !.stage = s]
              = [stage |-> s, link |-> c.link, irr |-> c.irr, base |-> c.base, imr |-> c.imr]
         /\ [c EXCEPT !.link = v]
              = [stage |-> c.stage, link |-> v, irr |-> c.irr, base |-> c.base, imr |-> c.imr]
         /\ [c EXCEPT !.base = v]
              = [stage |-> c.stage, link |-> c.link, irr |-> c.irr, base |-> v, imr |-> c.imr]
         /\ [c EXCEPT !.imr = v]
              = [stage |-> c.stage, link |-> c.link, irr |-> c.irr, base |-> c.base, imr |-> v]
         /\ [c EXCEPT !.irr = S]
              = [stage |-> c.stage, link |-> c.link, irr |-> S, base |-> c.base, imr |-> c.imr]
<1>1. [c EXCEPT !.stage = s]
        = [stage |-> s, link |-> c.link, irr |-> c.irr, base |-> c.base, imr |-> c.imr]
  BY DEF ChipType
<1>2. [c EXCEPT !.link = v]
        = [stage |-> c.stage, link |-> v, irr |-> c.irr, base |-> c.base, imr |-> c.imr]
  BY DEF ChipType
<1>3. [c EXCEPT !.base = v]
        = [stage |-> c.stage, link |-> c.link, irr |-> c.irr, base |-> v, imr |-> c.imr]
  BY DEF ChipType
<1>4. [c EXCEPT !.imr = v]
        = [stage |-> c.stage, link |-> c.link, irr |-> c.irr, base |-> c.base, imr |-> v]
  BY DEF ChipType
<1>5. [c EXCEPT !.irr = S]
        = [stage |-> c.stage, link |-> c.link, irr |-> S, base |-> c.base, imr |-> c.imr]
  BY DEF ChipType
<1> QED BY <1>1, <1>2, <1>3, <1>4, <1>5

LEMMA ChipWrites ==
  ASSUME NEW c \in ChipType, NEW s \in Stage, NEW v \in Byte
  PROVE  /\ [c EXCEPT !.stage = s, !.irr = {}, !.imr = 0]
              = [stage |-> s, link |-> c.link, irr |-> {}, base |-> c.base, imr |-> 0]
         /\ [c EXCEPT !.stage = s, !.base = v]
              = [stage |-> s, link |-> c.link, irr |-> c.irr, base |-> v, imr |-> c.imr]
         /\ [c EXCEPT !.stage = s, !.link = v]
              = [stage |-> s, link |-> v, irr |-> c.irr, base |-> c.base, imr |-> c.imr]
<1>1. PICK d \in ChipType :
        /\ d = [c EXCEPT !.stage = s]
        /\ d = [stage |-> s, link |-> c.link, irr |-> c.irr, base |-> c.base, imr |-> c.imr]
  BY ChipField DEF ChipType
<1>2. PICK e \in ChipType :
        /\ e = [d EXCEPT !.irr = {}]
        /\ e = [stage |-> s, link |-> c.link, irr |-> {}, base |-> c.base, imr |-> c.imr]
  <2>1. {} \in SUBSET Devices
    OBVIOUS
  <2>2. [d EXCEPT !.irr = {}]
          = [stage |-> d.stage, link |-> d.link, irr |-> {}, base |-> d.base, imr |-> d.imr]
    BY <2>1, ChipField
  <2> QED BY <1>1, <2>1, <2>2 DEF ChipType
<1>3. [e EXCEPT !.imr = 0]
        = [stage |-> e.stage, link |-> e.link, irr |-> e.irr, base |-> e.base, imr |-> 0]
  <2>1. 0 \in Byte /\ {} \in SUBSET Devices
    BY DEF Byte
  <2> QED BY <2>1, ChipField
<1>4. [d EXCEPT !.base = v]
        = [stage |-> d.stage, link |-> d.link, irr |-> d.irr, base |-> v, imr |-> d.imr]
  BY ChipField
<1>5. [d EXCEPT !.link = v]
        = [stage |-> d.stage, link |-> v, irr |-> d.irr, base |-> d.base, imr |-> d.imr]
  BY ChipField
<1>6. /\ [c EXCEPT !.stage = s, !.irr = {}, !.imr = 0]
           = [[[c EXCEPT !.stage = s] EXCEPT !.irr = {}] EXCEPT !.imr = 0]
      /\ [c EXCEPT !.stage = s, !.base = v] = [[c EXCEPT !.stage = s] EXCEPT !.base = v]
      /\ [c EXCEPT !.stage = s, !.link = v] = [[c EXCEPT !.stage = s] EXCEPT !.link = v]
  <2>1. [c EXCEPT !.stage = s, !.irr = {}, !.imr = 0]
           = [[[c EXCEPT !.stage = s] EXCEPT !.irr = {}] EXCEPT !.imr = 0]
    BY Zenon DEF ChipType
  <2>2. [c EXCEPT !.stage = s, !.base = v] = [[c EXCEPT !.stage = s] EXCEPT !.base = v]
    BY Zenon DEF ChipType
  <2>3. [c EXCEPT !.stage = s, !.link = v] = [[c EXCEPT !.stage = s] EXCEPT !.link = v]
    BY Zenon DEF ChipType
  <2> QED BY <2>1, <2>2, <2>3
<1>7. [c EXCEPT !.stage = s, !.irr = {}, !.imr = 0] = [e EXCEPT !.imr = 0]
  BY <1>1, <1>2, <1>6, Zenon
<1>8. /\ [c EXCEPT !.stage = s, !.base = v] = [d EXCEPT !.base = v]
      /\ [c EXCEPT !.stage = s, !.link = v] = [d EXCEPT !.link = v]
  BY <1>1, <1>6, Zenon
<1> QED BY <1>1, <1>2, <1>3, <1>4, <1>5, <1>7, <1>8

\* A chip takes the next word of its initialisation.
LEMMA NextWord ==
  ASSUME NEW c \in ChipType, NEW block \in Byte, NEW link \in Byte, NEW m \in Byte,
         block % 8 = 0
  PROVE  /\ Programmed(WriteCtrl(c, ICW1), 1, block, link, m)
         /\ Programmed(c, 1, block, link, m) => Programmed(WriteData(c, block), 2, block, link, m)
         /\ Programmed(c, 2, block, link, m) => Programmed(WriteData(c, link), 3, block, link, m)
         /\ Programmed(c, 3, block, link, m) => Programmed(WriteData(c, ICW4), 4, block, link, m)
         /\ Programmed(c, 4, block, link, m) => Programmed(WriteData(c, m), 5, block, link, m)
         /\ WriteCtrl(c, ICW1) \in ChipType
         /\ \A v \in Byte : WriteData(c, v) \in ChipType
<1>0. {"icw2", "icw3", "icw4", "ready"} = Stage /\ {} \in SUBSET Devices /\ 0 \in Byte
  BY DEF Stage, Byte
<1>1. WriteCtrl(c, ICW1) = [stage |-> "icw2", link |-> c.link, irr |-> {}, base |-> c.base, imr |-> 0]
  <2>1. "icw2" \in Stage
    BY <1>0
  <2>2. WriteCtrl(c, ICW1) = [c EXCEPT !.stage = "icw2", !.irr = {}, !.imr = 0]
    BY DEF WriteCtrl
  <2> QED BY <1>0, <2>1, <2>2, ChipWrites
<1>2. ASSUME NEW v \in Byte
      PROVE  /\ c.stage = "icw2" => WriteData(c, v) =
                  [stage |-> "icw3", link |-> c.link, irr |-> c.irr, base |-> v - (v % 8), imr |-> c.imr]
             /\ c.stage = "icw3" => WriteData(c, v) =
                  [stage |-> "icw4", link |-> v, irr |-> c.irr, base |-> c.base, imr |-> c.imr]
             /\ c.stage = "icw4" => WriteData(c, v) =
                  [stage |-> "ready", link |-> c.link, irr |-> c.irr, base |-> c.base, imr |-> c.imr]
             /\ c.stage = "ready" => WriteData(c, v) =
                  [stage |-> "ready", link |-> c.link, irr |-> c.irr, base |-> c.base, imr |-> v]
  <2>1. v - (v % 8) \in Byte
    BY DEF Byte
  <2>2. CASE c.stage = "icw2"
    <3>1. WriteData(c, v) = [c EXCEPT !.stage = "icw3", !.base = v - (v % 8)]
      BY <2>2 DEF WriteData
    <3>2. "icw3" \in Stage
      BY <1>0
    <3> QED BY <1>0, <2>1, <2>2, <3>1, <3>2, ChipWrites
  <2>3. CASE c.stage = "icw3"
    <3>1. WriteData(c, v) = [c EXCEPT !.stage = "icw4", !.link = v]
      BY <2>3 DEF WriteData
    <3>2. "icw4" \in Stage
      BY <1>0
    <3> QED BY <1>0, <2>3, <3>1, <3>2, ChipWrites
  <2>4. CASE c.stage = "icw4"
    <3>1. WriteData(c, v) = [c EXCEPT !.stage = "ready"]
      BY <2>4 DEF WriteData
    <3>2. "ready" \in Stage
      BY <1>0
    <3> QED BY <1>0, <2>4, <3>1, <3>2, ChipField
  <2>5. CASE c.stage = "ready"
    <3>1. WriteData(c, v) = [c EXCEPT !.imr = v]
      BY <2>5 DEF WriteData
    <3>2. WriteData(c, v) = [stage |-> c.stage, link |-> c.link, irr |-> c.irr, base |-> c.base, imr |-> v]
      BY <1>0, <2>5, <3>1, ChipField
    <3>3. WriteData(c, v) = [stage |-> "ready", link |-> c.link, irr |-> c.irr, base |-> c.base, imr |-> v]
      BY <2>5, <3>2
    <3> QED BY <2>5, <3>3
  <2> QED BY <2>2, <2>3, <2>4, <2>5
<1>3. c.stage \in Stage /\ c.link \in Byte /\ c.irr \in SUBSET Devices /\ c.base \in Byte /\ c.imr \in Byte
  BY DEF ChipType
<1>4. ASSUME NEW v \in Byte PROVE WriteData(c, v) \in ChipType
  <2>1. v - (v % 8) \in Byte
    BY DEF Byte
  <2> QED BY <1>2, <1>3, <2>1 DEF ChipType, Stage
<1>5. Programmed(c, 1, block, link, m) => Programmed(WriteData(c, block), 2, block, link, m)
  <2>1. block - (block % 8) = block
    BY DEF Byte
  <2> QED BY <1>2, <2>1 DEF Programmed
<1>6. Programmed(c, 2, block, link, m) => Programmed(WriteData(c, link), 3, block, link, m)
  BY <1>2 DEF Programmed
<1>7. Programmed(c, 3, block, link, m) => Programmed(WriteData(c, ICW4), 4, block, link, m)
  <2>1. ICW4 \in Byte
    BY DEF ICW4, Byte
  <2> QED BY <1>2, <2>1 DEF Programmed
<1>8. Programmed(c, 4, block, link, m) => Programmed(WriteData(c, m), 5, block, link, m)
  BY <1>2 DEF Programmed
<1>9. Programmed(WriteCtrl(c, ICW1), 1, block, link, m)
  BY <1>1 DEF Programmed
<1>10. WriteCtrl(c, ICW1) \in ChipType
  BY <1>0, <1>1, <1>3 DEF ChipType, Stage
<1> QED BY <1>4, <1>5, <1>6, <1>7, <1>8, <1>9, <1>10

\* A latched request is no part of the programming.
LEMMA IrrKeepsType ==
  ASSUME NEW c \in ChipType, NEW S \in SUBSET Devices
  PROVE  [c EXCEPT !.irr = S] \in ChipType
<1>1. [c EXCEPT !.irr = S]
        = [stage |-> c.stage, link |-> c.link, irr |-> S, base |-> c.base, imr |-> c.imr]
  BY DEF ChipType
<1>2. c.stage \in Stage /\ c.link \in Byte /\ c.base \in Byte /\ c.imr \in Byte
  BY DEF ChipType
<1> QED BY <1>1, <1>2 DEF ChipType

LEMMA IrrIsApart ==
  ASSUME NEW c \in ChipType, NEW S \in SUBSET Devices, NEW k, NEW block, NEW link, NEW m,
         Programmed(c, k, block, link, m)
  PROVE  Programmed([c EXCEPT !.irr = S], k, block, link, m)
<1>1. PICK d : d = [c EXCEPT !.irr = S]
  OBVIOUS
<1>2. d.stage = c.stage /\ d.link = c.link /\ d.base = c.base /\ d.imr = c.imr
  BY <1>1 DEF ChipType
<1>3. Programmed(d, k, block, link, m)
  BY <1>2, Zenon DEF Programmed
<1> QED BY <1>1, <1>3

\* The first mask, then the second; with it mask holds what the BIOS left.
LEMMA SaveMaskKeeps ==
  ASSUME InstallInv, NEW c \in Chips, SaveMask(c)
  PROVE  InstallInv'
<1>1. chip[c].imr = bios[c] /\ chip[c].imr \in Byte /\ mask \in [Chips -> Byte]
      /\ bios \in [Chips -> Byte] /\ n = 1
  <2>1. chip[c].imr \in Byte /\ mask \in [Chips -> Byte] /\ bios \in [Chips -> Byte]
    BY MasksAssumption DEF InstallInv, TypeOK
  <2>2. chip[c].imr = bios[c] /\ n = 1
    BY DEF InstallInv, ChipsInv, SaveMask, Programmed, Chips
  <2> QED BY <2>1, <2>2
<1>2. mask' \in [Chips -> Byte] /\ mask'[c] = bios[c] /\ \A d \in Chips \ {c} : mask'[d] = mask[d]
  BY <1>1 DEF SaveMask
<1>3. pc' = "remap" => mask' = bios
  <2>1. ASSUME pc' = "remap" PROVE \A d \in Chips : mask'[d] = bios[d]
    BY <1>2, <2>1 DEF SaveMask, InstallInv, ChipsInv, Chips
  <2> QED BY <1>1, <1>2, <2>1
<1>4. ChipsInv'
  <2>1. UNCHANGED <<chip, bios, n>> /\ pc' \in {"save_b", "remap"} /\ n = 1
    BY <1>1 DEF SaveMask
  <2>2. /\ Programmed(chip["master"], 0, 32, 4, bios["master"])
        /\ Programmed(chip["slave"], 0, 40, 2, bios["slave"])
    BY DEF InstallInv, ChipsInv, SaveMask
  <2>3. pc' = "save_b" => mask'["master"] = bios["master"]
    BY <1>2 DEF SaveMask
  <2>4. \A k \in Turns : /\ 1 = (2 * k) + 1 => k = 0
                         /\ 1 # (2 * k) + 2
    BY DEF Turns
  <2> QED BY <1>3, <2>1, <2>2, <2>3, <2>4 DEF ChipsInv
<1>5. TypeOK'
  <2>1. UNCHANGED <<chip, bios, n, idt, idtr, iflag, entered>> /\ pc' \in {"save_b", "remap"}
    BY DEF SaveMask
  <2> QED BY <1>2, <2>1 DEF InstallInv, TypeOK
<1> QED BY <1>4, <1>5 DEF SaveMask, InstallInv, GatesInv, LoadInv, IrqReachesItsStub

\* The ten words of irq_pic_remap, as irq_install calls it.
LEMMA Words ==
  ASSUME NEW m
  PROVE  LET p == RemapWrites(RemapBases.a, RemapBases.b, m)
         IN /\ Len(p) = 10
            /\ p[1] = Out("master", "ctrl", ICW1) /\ p[2] = Out("slave", "ctrl", ICW1)
            /\ p[3] = Out("master", "data", 32) /\ p[4] = Out("slave", "data", 40)
            /\ p[5] = Out("master", "data", 4) /\ p[6] = Out("slave", "data", 2)
            /\ p[7] = Out("master", "data", ICW4) /\ p[8] = Out("slave", "data", ICW4)
            /\ p[9] = Out("master", "data", m["master"])
            /\ p[10] = Out("slave", "data", m["slave"])
BY DEF RemapWrites, RemapBases, ICW3m, ICW3s

\* Write number n brings the chip it goes to one word further.
LEMMA WordGoesOut ==
  ASSUME InstallInv, RemapWrite
  PROVE  \E k \in Turns, d \in ChipType :
           \/ /\ n = (2 * k) + 1
              /\ chip' = [chip EXCEPT !["master"] = d]
              /\ Programmed(d, k + 1, 32, 4, bios["master"])
           \/ /\ n = (2 * k) + 2
              /\ chip' = [chip EXCEPT !["slave"] = d]
              /\ Programmed(d, k + 1, 40, 2, bios["slave"])
<1> DEFINE p == RemapWrites(RemapBases.a, RemapBases.b, mask)
<1>1. chip \in [Chips -> ChipType] /\ chip["master"] \in ChipType /\ chip["slave"] \in ChipType
  BY DEF InstallInv, TypeOK, ChipType, Chips
<1>2. bios["master"] \in Byte /\ bios["slave"] \in Byte /\ mask = bios
      /\ 32 \in Byte /\ 40 \in Byte /\ 4 \in Byte /\ 2 \in Byte
      /\ 32 % 8 = 0 /\ 40 % 8 = 0 /\ ICW4 \in Byte
  <2>1. mask = bios
    BY DEF InstallInv, ChipsInv, RemapWrite
  <2> QED BY <2>1, MasksAssumption DEF InstallInv, TypeOK, Chips, Byte, ICW4
<1>3. n \in 1 .. 10 /\ pc = "remap"
  BY DEF InstallInv, ChipsInv, RemapWrite
<1>4. chip' = [chip EXCEPT ![p[n].chip] = IF p[n].port = "ctrl"
                                          THEN WriteCtrl(chip[p[n].chip], p[n].val)
                                          ELSE WriteData(chip[p[n].chip], p[n].val)]
  BY DEF RemapWrite
<1>5. ASSUME NEW k \in Turns, n = (2 * k) + 1
      PROVE  Programmed(chip["master"], k, 32, 4, bios["master"])
  BY <1>3, <1>5 DEF InstallInv, ChipsInv
<1>6. ASSUME NEW k \in Turns, n = (2 * k) + 2
      PROVE  Programmed(chip["slave"], k, 40, 2, bios["slave"])
  BY <1>3, <1>6 DEF InstallInv, ChipsInv
<1>7. /\ p[1] = Out("master", "ctrl", ICW1) /\ p[2] = Out("slave", "ctrl", ICW1)
      /\ p[3] = Out("master", "data", 32) /\ p[4] = Out("slave", "data", 40)
      /\ p[5] = Out("master", "data", 4) /\ p[6] = Out("slave", "data", 2)
      /\ p[7] = Out("master", "data", ICW4) /\ p[8] = Out("slave", "data", ICW4)
      /\ p[9] = Out("master", "data", bios["master"])
      /\ p[10] = Out("slave", "data", bios["slave"])
  BY <1>2, Words
<1> HIDE DEF p
<1>8. /\ Programmed(WriteCtrl(chip["master"], ICW1), 1, 32, 4, bios["master"])
      /\ WriteCtrl(chip["master"], ICW1) \in ChipType
      /\ \A v \in Byte : WriteData(chip["master"], v) \in ChipType
      /\ Programmed(chip["master"], 1, 32, 4, bios["master"]) =>
           Programmed(WriteData(chip["master"], 32), 2, 32, 4, bios["master"])
      /\ Programmed(chip["master"], 2, 32, 4, bios["master"]) =>
           Programmed(WriteData(chip["master"], 4), 3, 32, 4, bios["master"])
      /\ Programmed(chip["master"], 3, 32, 4, bios["master"]) =>
           Programmed(WriteData(chip["master"], ICW4), 4, 32, 4, bios["master"])
      /\ Programmed(chip["master"], 4, 32, 4, bios["master"]) =>
           Programmed(WriteData(chip["master"], bios["master"]), 5, 32, 4, bios["master"])
  BY <1>1, <1>2, NextWord, Zenon
<1>9. /\ Programmed(WriteCtrl(chip["slave"], ICW1), 1, 40, 2, bios["slave"])
      /\ WriteCtrl(chip["slave"], ICW1) \in ChipType
      /\ \A v \in Byte : WriteData(chip["slave"], v) \in ChipType
      /\ Programmed(chip["slave"], 1, 40, 2, bios["slave"]) =>
           Programmed(WriteData(chip["slave"], 40), 2, 40, 2, bios["slave"])
      /\ Programmed(chip["slave"], 2, 40, 2, bios["slave"]) =>
           Programmed(WriteData(chip["slave"], 2), 3, 40, 2, bios["slave"])
      /\ Programmed(chip["slave"], 3, 40, 2, bios["slave"]) =>
           Programmed(WriteData(chip["slave"], ICW4), 4, 40, 2, bios["slave"])
      /\ Programmed(chip["slave"], 4, 40, 2, bios["slave"]) =>
           Programmed(WriteData(chip["slave"], bios["slave"]), 5, 40, 2, bios["slave"])
  BY <1>1, <1>2, NextWord, Zenon
<1>10. ASSUME NEW w, NEW who, NEW v, w = Out(who, "ctrl", v), p[n] = w
       PROVE  chip' = [chip EXCEPT ![who] = WriteCtrl(chip[who], v)]
  BY <1>4, <1>10 DEF Out
<1>11. ASSUME NEW w, NEW who, NEW v, w = Out(who, "data", v), p[n] = w
       PROVE  chip' = [chip EXCEPT ![who] = WriteData(chip[who], v)]
  BY <1>4, <1>11 DEF Out
<1>12. CASE n = 1
  <2>1. 0 \in Turns /\ n = (2 * 0) + 1 /\ 0 + 1 = 1
    BY <1>12 DEF Turns
  <2> QED BY <1>7, <1>8, <1>10, <1>12, <2>1
<1>13. CASE n = 2
  <2>1. 0 \in Turns /\ n = (2 * 0) + 2 /\ 0 + 1 = 1
    BY <1>13 DEF Turns
  <2> QED BY <1>7, <1>9, <1>10, <1>13, <2>1
<1>14. CASE n = 3
  <2>1. 1 \in Turns /\ n = (2 * 1) + 1 /\ 1 + 1 = 2
    BY <1>14 DEF Turns
  <2> QED BY <1>2, <1>5, <1>7, <1>8, <1>11, <1>14, <2>1
<1>15. CASE n = 4
  <2>1. 1 \in Turns /\ n = (2 * 1) + 2 /\ 1 + 1 = 2
    BY <1>15 DEF Turns
  <2> QED BY <1>2, <1>6, <1>7, <1>9, <1>11, <1>15, <2>1
<1>16. CASE n = 5
  <2>1. 2 \in Turns /\ n = (2 * 2) + 1 /\ 2 + 1 = 3
    BY <1>16 DEF Turns
  <2> QED BY <1>2, <1>5, <1>7, <1>8, <1>11, <1>16, <2>1
<1>17. CASE n = 6
  <2>1. 2 \in Turns /\ n = (2 * 2) + 2 /\ 2 + 1 = 3
    BY <1>17 DEF Turns
  <2> QED BY <1>2, <1>6, <1>7, <1>9, <1>11, <1>17, <2>1
<1>18. CASE n = 7
  <2>1. 3 \in Turns /\ n = (2 * 3) + 1 /\ 3 + 1 = 4
    BY <1>18 DEF Turns
  <2> QED BY <1>2, <1>5, <1>7, <1>8, <1>11, <1>18, <2>1
<1>19. CASE n = 8
  <2>1. 3 \in Turns /\ n = (2 * 3) + 2 /\ 3 + 1 = 4
    BY <1>19 DEF Turns
  <2> QED BY <1>2, <1>6, <1>7, <1>9, <1>11, <1>19, <2>1
<1>20. CASE n = 9
  <2>1. 4 \in Turns /\ n = (2 * 4) + 1 /\ 4 + 1 = 5
    BY <1>20 DEF Turns
  <2> QED BY <1>2, <1>5, <1>7, <1>8, <1>11, <1>20, <2>1
<1>21. CASE n = 10
  <2>1. 4 \in Turns /\ n = (2 * 4) + 2 /\ 4 + 1 = 5
    BY <1>21 DEF Turns
  <2> QED BY <1>2, <1>6, <1>7, <1>9, <1>11, <1>21, <2>1
<1> QED BY <1>3, <1>12, <1>13, <1>14, <1>15, <1>16, <1>17, <1>18, <1>19, <1>20, <1>21

LEMMA RemapWriteKeeps == InstallInv /\ RemapWrite => InstallInv'
<1> SUFFICES ASSUME InstallInv, RemapWrite PROVE InstallInv'
  OBVIOUS
<1>1. PICK k \in Turns, d \in ChipType :
        \/ /\ n = (2 * k) + 1
           /\ chip' = [chip EXCEPT !["master"] = d]
           /\ Programmed(d, k + 1, 32, 4, bios["master"])
        \/ /\ n = (2 * k) + 2
           /\ chip' = [chip EXCEPT !["slave"] = d]
           /\ Programmed(d, k + 1, 40, 2, bios["slave"])
  BY WordGoesOut
<1>2. /\ chip \in [Chips -> ChipType] /\ chip' \in [Chips -> ChipType]
      /\ "master" \in Chips /\ "slave" \in Chips
  BY <1>1 DEF InstallInv, TypeOK, ChipType, Chips
<1>3. /\ UNCHANGED <<bios, mask, idt, idtr, iflag, entered>> /\ pc = "remap" /\ n \in 1 .. 10
      /\ mask = bios
      /\ IF n = 10 THEN pc' = "irq_gates" /\ n' = 0 ELSE pc' = "remap" /\ n' = n + 1
  BY Words DEF RemapWrite, InstallInv, ChipsInv
<1>4. ChipsInv'
  <2>1. ASSUME NEW j \in Turns
        PROVE  /\ n = (2 * j) + 1 =>
                    /\ Programmed(chip["master"], j, 32, 4, bios["master"])
                    /\ Programmed(chip["slave"], j, 40, 2, bios["slave"])
               /\ n = (2 * j) + 2 =>
                    /\ Programmed(chip["master"], j + 1, 32, 4, bios["master"])
                    /\ Programmed(chip["slave"], j, 40, 2, bios["slave"])
    BY <1>3, <2>1 DEF InstallInv, ChipsInv
  <2>2. CASE n = (2 * k) + 1
    <3>1. /\ chip' = [chip EXCEPT !["master"] = d]
          /\ Programmed(d, k + 1, 32, 4, bios["master"])
      <4>1. n # (2 * k) + 2
        BY <2>2 DEF Turns
      <4> QED BY <1>1, <4>1
    <3>2. /\ Programmed(chip'["master"], k + 1, 32, 4, bios["master"])
          /\ Programmed(chip'["slave"], k, 40, 2, bios["slave"])
      BY <1>2, <2>1, <2>2, <3>1
    <3>3. pc' = "remap" /\ n' = (2 * k) + 2 /\ n' \in 1 .. 10
      BY <1>3, <2>2 DEF Turns
    <3>4. \A j \in Turns : n' # (2 * j) + 1 /\ (n' = (2 * j) + 2 => j = k)
      BY <3>3 DEF Turns
    <3> QED BY <1>3, <3>2, <3>3, <3>4 DEF ChipsInv
  <2>3. CASE n = (2 * k) + 2
    <3>1. /\ chip' = [chip EXCEPT !["slave"] = d]
          /\ Programmed(d, k + 1, 40, 2, bios["slave"])
      <4>1. n # (2 * k) + 1
        BY <2>3 DEF Turns
      <4> QED BY <1>1, <4>1
    <3>2. /\ Programmed(chip'["master"], k + 1, 32, 4, bios["master"])
          /\ Programmed(chip'["slave"], k + 1, 40, 2, bios["slave"])
      BY <1>2, <2>1, <2>3, <3>1
    <3>3. CASE n = 10
      <4>1. k + 1 = 5 /\ pc' = "irq_gates"
        BY <1>3, <2>3, <3>3 DEF Turns
      <4> QED BY <1>3, <3>2, <4>1 DEF ChipsInv
    <3>4. CASE n # 10
      <4>1. pc' = "remap" /\ n' = (2 * (k + 1)) + 1 /\ n' \in 1 .. 10
        BY <1>3, <2>3, <3>4 DEF Turns
      <4>2. \A j \in Turns : n' # (2 * j) + 2 /\ (n' = (2 * j) + 1 => j = k + 1)
        BY <4>1 DEF Turns
      <4> QED BY <1>3, <3>2, <4>1, <4>2 DEF ChipsInv
    <3> QED BY <3>3, <3>4
  <2> QED BY <1>1, <2>2, <2>3
<1>5. TypeOK'
  <2>1. n' \in 0 .. 31 /\ pc' \in {"remap", "irq_gates"}
    BY <1>3
  <2>2. chip' \in [Chips -> [stage : Stage, link : Byte, irr : SUBSET Devices,
                             base : Byte, imr : Byte]]
    BY <1>2 DEF ChipType
  <2> QED BY <1>3, <2>1, <2>2 DEF InstallInv, TypeOK
<1>6. GatesInv'
  <2>1. pc' = "irq_gates" => n' = 0
    BY <1>3
  <2>2. pc' \in {"remap", "irq_gates"}
    BY <1>3
  <2> QED BY <2>1, <2>2 DEF GatesInv
<1> QED BY <1>3, <1>4, <1>5, <1>6 DEF InstallInv, LoadInv, IrqReachesItsStub

\* Once the controllers are programmed the table and the flags change nothing
\* of it.
LEMMA ChipsDone ==
  ASSUME InstallInv, pc \notin {"save_a", "save_b", "remap"},
         pc' \notin {"save_a", "save_b", "remap"}, UNCHANGED <<chip, bios, mask>>
  PROVE  ChipsInv'
BY DEF InstallInv, ChipsInv

LEMMA SetIrqGateKeeps == InstallInv /\ SetIrqGate => InstallInv'
<1> SUFFICES ASSUME InstallInv, SetIrqGate PROVE InstallInv'
  OBVIOUS
<1>1. /\ pc = "irq_gates" /\ n \in 0 .. 15 /\ pc' \in {"irq_gates", "isr_gates"}
      /\ UNCHANGED <<chip, bios, mask, idtr, iflag, entered>>
      /\ IF n = 15 THEN pc' = "isr_gates" /\ n' = 0 ELSE pc' = "irq_gates" /\ n' = n + 1
  BY DEF SetIrqGate, InstallInv, GatesInv, LastIrq
<1>2. Gate(Stub("irq", n)) \in GateType /\ 32 + n \in Vectors
  BY <1>1 DEF Gate, Stub, GateType, AnyStub, Vectors
<1>3. idt \in [Vectors -> GateType] /\ idt' = [idt EXCEPT ![32 + n] = Gate(Stub("irq", n))]
  BY DEF SetIrqGate, InstallInv, IrqGateVector
<1>4. idt' \in [Vectors -> GateType]
  BY <1>2, <1>3
<1>5. ASSUME NEW i \in 0 .. 15, i <= n PROVE idt'[32 + i] = Gate(Stub("irq", i))
  <2>1. CASE i = n
    BY <1>2, <1>3, <2>1
  <2>2. CASE i # n
    <3>1. idt[32 + i] = Gate(Stub("irq", i))
      BY <1>1, <1>5, <2>2 DEF InstallInv, GatesInv
    <3>2. 32 + i # 32 + n /\ 32 + i \in Vectors
      BY <1>1, <2>2 DEF Vectors
    <3> QED BY <1>3, <3>1, <3>2
  <2> QED BY <2>1, <2>2
<1>6. GatesInv'
  BY <1>1, <1>5 DEF GatesInv
<1>7. TypeOK'
  <2>1. n' \in 0 .. 31
    BY <1>1
  <2>2. \A v \in Vectors : idt'[v].stub \in AnyStub /\ idt'[v].flags \in {0, 142}
    BY <1>4 DEF GateType
  <2> QED BY <1>1, <2>1, <2>2 DEF InstallInv, TypeOK
<1>8. ChipsInv'
  BY <1>1, ChipsDone
<1> QED BY <1>1, <1>4, <1>6, <1>7, <1>8 DEF InstallInv, LoadInv, IrqReachesItsStub

LEMMA SetIsrGateKeeps == InstallInv /\ SetIsrGate => InstallInv'
<1> SUFFICES ASSUME InstallInv, SetIsrGate PROVE InstallInv'
  OBVIOUS
<1>1. /\ pc = "isr_gates" /\ n \in 0 .. 31 /\ pc' \in {"isr_gates", "lidt"}
      /\ UNCHANGED <<chip, bios, mask, idtr, iflag, entered>>
      /\ IF n = 31 THEN pc' = "lidt" /\ n' = 0 ELSE pc' = "isr_gates" /\ n' = n + 1
  BY DEF SetIsrGate, InstallInv, GatesInv
<1>2. Gate(Stub("isr", n)) \in GateType /\ n \in Vectors
  BY <1>1 DEF Gate, Stub, GateType, AnyStub, Vectors
<1>3. idt \in [Vectors -> GateType] /\ idt' = [idt EXCEPT ![n] = Gate(Stub("isr", n))]
  BY DEF SetIsrGate, InstallInv
<1>4. idt' \in [Vectors -> GateType]
  BY <1>2, <1>3
<1>5. ASSUME NEW i \in 0 .. 15 PROVE idt'[32 + i] = Gate(Stub("irq", i))
  <2>1. idt[32 + i] = Gate(Stub("irq", i))
    BY <1>1 DEF InstallInv, GatesInv
  <2>2. 32 + i # n /\ 32 + i \in Vectors
    BY <1>1 DEF Vectors
  <2> QED BY <1>3, <2>1, <2>2
<1>6. GatesInv'
  BY <1>1, <1>5 DEF GatesInv
<1>7. TypeOK'
  <2>1. n' \in 0 .. 31
    BY <1>1
  <2>2. \A v \in Vectors : idt'[v].stub \in AnyStub /\ idt'[v].flags \in {0, 142}
    BY <1>4 DEF GateType
  <2> QED BY <1>1, <2>1, <2>2 DEF InstallInv, TypeOK
<1>8. ChipsInv'
  BY <1>1, ChipsDone
<1> QED BY <1>1, <1>4, <1>6, <1>7, <1>8 DEF InstallInv, LoadInv, IrqReachesItsStub

LEMMA LoadKeeps == InstallInv /\ (Lidt \/ Sti) => InstallInv'
<1> SUFFICES ASSUME InstallInv, Lidt \/ Sti PROVE InstallInv'
  OBVIOUS
<1>1. /\ UNCHANGED <<chip, bios, mask, n, idt, entered>>
      /\ \/ pc = "lidt" /\ pc' = "sti" /\ idtr' = TRUE /\ iflag' = iflag
         \/ pc = "sti" /\ pc' = "installed" /\ idtr' = idtr /\ iflag' = TRUE
  BY DEF Lidt, Sti
<1>2. ChipsInv'
  BY <1>1, ChipsDone
<1>3. GatesInv'
  BY <1>1 DEF InstallInv, GatesInv
<1>4. LoadInv'
  BY <1>1 DEF InstallInv, LoadInv
<1>5. TypeOK'
  <2>1. pc' \in {"sti", "installed"}
    BY <1>1
  <2>2. idtr' \in BOOLEAN /\ iflag' \in BOOLEAN
    BY <1>1, Zenon DEF InstallInv, TypeOK
  <2> QED BY <1>1, <2>1, <2>2 DEF InstallInv, TypeOK
<1> QED BY <1>1, <1>2, <1>3, <1>4, <1>5 DEF InstallInv, IrqReachesItsStub

\* A request comes or goes: the programming stays.
LEMMA RequestKeeps ==
  ASSUME InstallInv, NEW c \in Chips, NEW S \in SUBSET Devices,
         chip' = [chip EXCEPT ![c] = [chip[c] EXCEPT !.irr = S]],
         UNCHANGED <<bios, mask, pc, n>>
  PROVE  ChipsInv' /\ chip' \in [Chips -> ChipType]
<1>1. chip \in [Chips -> ChipType] /\ "master" \in Chips /\ "slave" \in Chips
  BY DEF InstallInv, TypeOK, ChipType, Chips
<1>2. chip' \in [Chips -> ChipType]
  <2>1. chip[c] \in ChipType
    BY <1>1
  <2>2. [chip[c] EXCEPT !.irr = S] \in ChipType
    BY <2>1, IrrKeepsType
  <2> QED BY <1>1, <2>2
<1>3. ASSUME NEW d \in Chips, NEW k, NEW block, NEW link, NEW m,
             Programmed(chip[d], k, block, link, m)
      PROVE  Programmed(chip'[d], k, block, link, m)
  <2>1. CASE d = c
    BY <1>1, <1>3, <2>1, IrrIsApart
  <2>2. CASE d # c
    BY <1>1, <1>3, <2>2
  <2> QED BY <2>1, <2>2
<1>4. ChipsInv'
  <2>1. ASSUME NEW k \in Turns
        PROVE  /\ pc = "remap" /\ n = (2 * k) + 1 =>
                    /\ Programmed(chip'["master"], k, 32, 4, bios["master"])
                    /\ Programmed(chip'["slave"], k, 40, 2, bios["slave"])
               /\ pc = "remap" /\ n = (2 * k) + 2 =>
                    /\ Programmed(chip'["master"], k + 1, 32, 4, bios["master"])
                    /\ Programmed(chip'["slave"], k, 40, 2, bios["slave"])
    BY <1>1, <1>3, <2>1 DEF InstallInv, ChipsInv
  <2>2. pc \in {"save_a", "save_b"} =>
          /\ n = 1
          /\ Programmed(chip'["master"], 0, 32, 4, bios["master"])
          /\ Programmed(chip'["slave"], 0, 40, 2, bios["slave"])
    BY <1>1, <1>3 DEF InstallInv, ChipsInv
  <2>3. pc \notin {"save_a", "save_b", "remap"} =>
          /\ Programmed(chip'["master"], 5, 32, 4, bios["master"])
          /\ Programmed(chip'["slave"], 5, 40, 2, bios["slave"])
    BY <1>1, <1>3 DEF InstallInv, ChipsInv
  <2>4. /\ pc = "remap" => n \in 1 .. 10
        /\ pc = "save_b" => mask["master"] = bios["master"]
        /\ pc \notin {"save_a", "save_b"} => mask = bios
    BY DEF InstallInv, ChipsInv
  <2> QED BY <2>1, <2>2, <2>3, <2>4 DEF ChipsInv
<1> QED BY <1>2, <1>4

LEMMA RaiseKeeps == ASSUME InstallInv, NEW line \in Devices, Raise(line) PROVE InstallInv'
<1> DEFINE c == ChipOf(line)
<1>1. c \in Chips
  BY DEF ChipOf, Chips
<1>2. chip[c].irr \cup {line} \in SUBSET Devices
  BY <1>1 DEF InstallInv, TypeOK
<1>3. chip' = [chip EXCEPT ![c] = [chip[c] EXCEPT !.irr = chip[c].irr \cup {line}]]
  BY Zenon DEF Raise
<1>4. UNCHANGED <<bios, mask, pc, n, idt, idtr, iflag, entered>>
  BY DEF Raise
<1>5. ChipsInv' /\ chip' \in [Chips -> ChipType]
  BY <1>1, <1>2, <1>3, <1>4, RequestKeeps
<1>6. TypeOK'
  <2>1. chip' \in [Chips -> [stage : Stage, link : Byte, irr : SUBSET Devices,
                             base : Byte, imr : Byte]]
    BY <1>5 DEF ChipType
  <2> QED BY <1>4, <2>1 DEF InstallInv, TypeOK
<1> QED BY <1>4, <1>5, <1>6 DEF InstallInv, GatesInv, LoadInv, IrqReachesItsStub

\* Where a request lands once the interrupts are on.
LEMMA VectorsAreRight ==
  ASSUME InstallInv, NEW line \in Devices, pc = "installed"
  PROVE  VectorOf(line) = 32 + line /\ line \in 0 .. 15
<1>1. line \in 0 .. 15
  BY DevicesAssumption
<1>2. /\ Programmed(chip["master"], 5, 32, 4, bios["master"])
      /\ Programmed(chip["slave"], 5, 40, 2, bios["slave"])
  BY DEF InstallInv, ChipsInv
<1>3. /\ chip["master"].base = 32 /\ chip["master"].link = 4
      /\ chip["slave"].base = 40 /\ chip["slave"].link = 2
  BY <1>2 DEF Programmed
<1>4. BitSet(4, 2)
  <2>1. 2^2 = 4
    OBVIOUS
  <2>2. (4 \div 4) % 2 = 1
    OBVIOUS
  <2> QED BY <2>1, <2>2 DEF BitSet
<1>5. Cascaded
  BY <1>3, <1>4 DEF Cascaded
<1> QED BY <1>1, <1>3, <1>5 DEF VectorOf

LEMMA AcceptKeeps == ASSUME InstallInv, NEW line \in Devices, Accept(line) PROVE InstallInv'
<1> DEFINE c == ChipOf(line)
<1>1. c \in Chips
  BY DEF ChipOf, Chips
<1>2. chip[c].irr \ {line} \in SUBSET Devices
  BY <1>1 DEF InstallInv, TypeOK
<1>3. chip' = [chip EXCEPT ![c] = [chip[c] EXCEPT !.irr = chip[c].irr \ {line}]]
  BY Zenon DEF Accept
<1>4. UNCHANGED <<bios, mask, pc, n, idt, idtr>> /\ iflag = TRUE /\ iflag' = FALSE
  <2>1. iflag
    BY DEF Accept
  <2>2. iflag = TRUE
    BY <2>1, Zenon DEF InstallInv, TypeOK
  <2> QED BY <2>2 DEF Accept
<1>5. ChipsInv' /\ chip' \in [Chips -> ChipType]
  BY <1>1, <1>2, <1>3, <1>4, RequestKeeps
<1>6. pc = "installed" /\ idtr
  BY <1>4 DEF InstallInv, LoadInv
<1>7. VectorOf(line) = 32 + line /\ line \in 0 .. 15
  BY <1>6, VectorsAreRight
<1>8. idt[VectorOf(line)] = Gate(Stub("irq", line))
  BY <1>6, <1>7 DEF InstallInv, GatesInv
<1>9. BitSet(142, 7)
  <2>1. 2^7 = 128
    OBVIOUS
  <2>2. (142 \div 128) % 2 = 1
    OBVIOUS
  <2> QED BY <2>1, <2>2 DEF BitSet
<1>10. entered' = [line |-> line, stub |-> Stub("irq", line)]
  BY <1>6, <1>8, <1>9 DEF Accept, Gate
<1>11. IrqReachesItsStub'
  BY <1>7, <1>10 DEF IrqReachesItsStub, IntNo, Stub
<1>12. TypeOK'
  <2>1. chip' \in [Chips -> [stage : Stage, link : Byte, irr : SUBSET Devices,
                             base : Byte, imr : Byte]]
    BY <1>5 DEF ChipType
  <2>2. entered'.line \in Devices \cup {-1}
    BY <1>10
  <2>3. iflag' \in BOOLEAN
    BY <1>4
  <2> QED BY <1>4, <2>1, <2>2, <2>3 DEF InstallInv, TypeOK
<1> QED BY <1>4, <1>5, <1>11, <1>12 DEF InstallInv, GatesInv, LoadInv

LEMMA NextKeepsInstall == InstallInv /\ [Next]_vars => InstallInv'
<1> SUFFICES ASSUME InstallInv, [Next]_vars PROVE InstallInv'
  OBVIOUS
<1>1. CASE \E c \in Chips : SaveMask(c)
  BY <1>1, SaveMaskKeeps
<1>2. CASE RemapWrite
  BY <1>2, RemapWriteKeeps
<1>3. CASE SetIrqGate
  BY <1>3, SetIrqGateKeeps
<1>4. CASE SetIsrGate
  BY <1>4, SetIsrGateKeeps
<1>5. CASE Lidt \/ Sti
  BY <1>5, LoadKeeps
<1>6. CASE \E line \in Devices : Raise(line)
  BY <1>6, RaiseKeeps
<1>7. CASE \E line \in Devices : Accept(line)
  BY <1>7, AcceptKeeps
<1>8. CASE UNCHANGED vars
  BY <1>8 DEF vars, InstallInv, TypeOK, ChipsInv, GatesInv, LoadInv, IrqReachesItsStub
<1>9. Entered => UNCHANGED vars
  BY DEF Entered
<1> QED BY <1>1, <1>2, <1>3, <1>4, <1>5, <1>6, <1>7, <1>8, <1>9 DEF Next, Install

-----------------------------------------------------------------------------

LEMMA InstallInvHolds == Spec => []InstallInv
BY InitInstall, NextKeepsInstall, PTL DEF Spec

\* Type correctness of the controllers, the table and the flags.
THEOREM InstallTypeCorrect == Spec => []TypeOK
<1>1. InstallInv => TypeOK
  BY DEF InstallInv
<1> QED BY <1>1, InstallInvHolds, PTL

\* Whatever masks the BIOS left, and whatever is requested meanwhile,
\* irq_pic_remap puts them back.
THEOREM MasksAreRestored == Spec => []RemapRestoresMasks
<1>1. InstallInv => RemapRestoresMasks
  <2> SUFFICES ASSUME InstallInv, pc \notin {"save_a", "save_b", "remap"}
               PROVE  \A c \in Chips : chip[c].stage = "ready" /\ chip[c].imr = bios[c]
    BY DEF RemapRestoresMasks
  <2>1. /\ Programmed(chip["master"], 5, 32, 4, bios["master"])
        /\ Programmed(chip["slave"], 5, 40, 2, bios["slave"])
    BY DEF InstallInv, ChipsInv
  <2> QED BY <2>1 DEF Programmed, Chips
<1> QED BY <1>1, InstallInvHolds, PTL

\* For every set of devices and all masks, the first interrupt enters the stub
\* of its line, whenever it was requested.
THEOREM IrqsReachTheirStubs == Spec => []IrqReachesItsStub
<1>1. InstallInv => IrqReachesItsStub
  BY DEF InstallInv
<1> QED BY <1>1, InstallInvHolds, PTL
=============================================================================
