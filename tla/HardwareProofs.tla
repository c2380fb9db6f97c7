----------------------------- MODULE HardwareProofs -----------------------------
(***************************************************************************)
(* What the kernel finds out about the hardware.                           *)
(*                                                                         *)
(* pci_explore, on every machine: the list holds the functions that        *)
(* answer, each once and with its own numbers.  DescriptorIsTrue says what *)
(* the reads of a function bring; PciInv says that the list is the part of *)
(* Expected that lies before Here, the place the loops have come to, and   *)
(* the lemmas about Before how that part grows with a step of theirs.      *)
(*                                                                         *)
(* detect_cpu, on every processor: CpuInv says that all it prints are      *)
(* Lines, the lines that the processor's own numbers justify.              *)
(* NamePrinted says how far the processor's name has been printed, and     *)
(* PartsAreName that the pieces it is printed in are the name.             *)
(***************************************************************************)
EXTENDS Pci, DetectCpu, SequenceTheorems, WellFoundedInduction, NaturalsInduction, TLAPS

-----------------------------------------------------------------------------
(* Reading.                                                                *)

\* The offsets pci_explore reads from, and the registers they lie in.
Offsets == {0, 2, 8, 9, 10, 14, 60}
Register(o) == o - (o % 4)

LEMMA TwoPairs ==
  ASSUME NEW a, NEW b, NEW c, NEW d
  PROVE  <<a, b>> \o <<c, d>> = <<a, b, c, d>>
<1> DEFINE S == {a, b, c, d}
           s == <<a, b>>
           t == <<c, d>>
           u == <<a, b, c, d>>
<1>1. /\ s \in Seq(S) /\ Len(s) = 2 /\ s[1] = a /\ s[2] = b
      /\ t \in Seq(S) /\ Len(t) = 2 /\ t[1] = c /\ t[2] = d
      /\ u \in Seq(S) /\ Len(u) = 4 /\ u[1] = a /\ u[2] = b /\ u[3] = c /\ u[4] = d
  OBVIOUS
<1> HIDE DEF S, s, t, u
<1>2. /\ s \o t \in Seq(S) /\ Len(s \o t) = 4
      /\ \A k \in 1 .. 4 : (s \o t)[k] = IF k <= 2 THEN s[k] ELSE t[k - 2]
  <2>1. /\ s \o t \in Seq(S) /\ Len(s \o t) = Len(s) + Len(t)
        /\ \A k \in 1 .. Len(s) + Len(t) :
             (s \o t)[k] = IF k <= Len(s) THEN s[k] ELSE t[k - Len(s)]
    BY <1>1, ConcatProperties
  <2> QED BY <1>1, <2>1
<1>3. (s \o t)[1] = a /\ (s \o t)[2] = b /\ (s \o t)[3] = c /\ (s \o t)[4] = d
  BY <1>1, <1>2
<1>4. \A k \in 1 .. 4 : (s \o t)[k] = u[k]
  <2>1. \A k \in 1 .. 4 : k = 1 \/ k = 2 \/ k = 3 \/ k = 4
    OBVIOUS
  <2> QED BY <1>1, <1>3, <2>1
<1>5. s \o t = u
  BY <1>1, <1>2, <1>4, SeqEqual
<1> QED BY <1>5 DEF s, t, u

\* The greatest word, of which nothing else is needed.
LEMMA WordBound == MaxWord \in Int /\ MaxWord >= 0 /\ MaxWord + 1 = 256 * 256
BY DEF MaxWord

\* A word's two bytes give the word.
LEMMA WordOfBytes ==
  ASSUME NEW w \in Word
  PROVE  w % 256 \in Byte /\ w \div 256 \in Byte /\ (w % 256) + (256 * (w \div 256)) = w
<1>1. w \in Int /\ 0 <= w /\ w <= MaxWord
  BY WordBound DEF Word
<1>2. w < 256 * 256
  BY <1>1, WordBound
<1>3. w % 256 \in Int /\ 0 <= w % 256 /\ w % 256 <= 255
  BY <1>1
<1>4. w \div 256 \in Int /\ 0 <= w \div 256 /\ w \div 256 <= 255
  BY <1>1, <1>2
<1>5. (w % 256) + (256 * (w \div 256)) = w
  BY <1>1
<1>6. \A b \in Int : 0 <= b /\ b <= 255 => b \in Byte
  BY DEF Byte
<1>7. w % 256 \in Byte
  BY <1>3, <1>6
<1>8. w \div 256 \in Byte
  BY <1>4, <1>6
<1> QED BY <1>5, <1>7, <1>8

\* The double word that a function shows in a register it has.
Shows(h, r) ==
  CASE r = 0  -> <<h.vendor % 256, h.vendor \div 256, h.device % 256, h.device \div 256>>
    [] r = 8  -> <<h.revision, h.interface, h.subclass, h.class>>
    [] r = 12 -> <<0, 0, h.type, 0>>
    [] r = 60 -> <<h.line, 1, 0, 0>>

Shown(p, r) == IF p \in DOMAIN machine THEN Shows(machine[p], r) ELSE <<255, 255, 255, 255>>

\* DataPort, for the place and the register that an identifier names.
Answer(p, r) ==
  IF p \notin DOMAIN machine THEN <<255, 255, 255, 255>>
  ELSE CASE r = 0  -> LowHigh(machine[p].vendor) \o LowHigh(machine[p].device)
         [] r = 8  -> <<machine[p].revision, machine[p].interface,
                        machine[p].subclass, machine[p].class>>
         [] r = 12 -> <<0, 0, machine[p].type, 0>>
         [] r = 60 -> <<machine[p].line, 1, 0, 0>>

\* The bridge takes an identifier apart the way it was put together.
LEMMA PortShows ==
  ASSUME NEW b \in 0 .. 254, NEW s \in 0 .. 31, NEW f \in 0 .. 7, NEW o \in Offsets
  PROVE  DataPort(construct_identifier(b, s, f, o)) = Shown(<<b, s, f>>, Register(o))
<1> DEFINE r == Register(o)
           id == construct_identifier(b, s, f, o)
           p == <<b, s, f>>
<1>1. r \in {0, 8, 12, 60} /\ r \in 0 .. 255
  BY DEF Offsets, Register
<1>2. id = (b * 65536) + (s * 2048) + (f * 256) + r
  BY DEF construct_identifier, Register
<1> HIDE DEF r, id
<1>3. id \div 65536 = b
  BY <1>1, <1>2
<1>4. id \div 2048 = (b * 32) + s
  BY <1>1, <1>2
<1>5. id \div 256 = (b * 256) + (s * 8) + f
  BY <1>1, <1>2
<1>6. id % 256 = r
  BY <1>1, <1>2
<1>7. b % 256 = b /\ ((b * 32) + s) % 32 = s /\ ((b * 256) + (s * 8) + f) % 8 = f
  OBVIOUS
<1>8. <<(id \div 65536) % 256, (id \div 2048) % 32, (id \div 256) % 8>> = p
  BY <1>3, <1>4, <1>5, <1>7
<1> HIDE DEF p
<1>9. DataPort(id) = Answer(p, r)
  <2>1. DataPort(id) = Answer(<<(id \div 65536) % 256, (id \div 2048) % 32, (id \div 256) % 8>>,
                              id % 256)
    BY DEF DataPort, Answer
  <2> QED BY <1>6, <1>8, <2>1
<1>10. Answer(p, r) = Shown(p, r)
  <2>1. CASE p \notin DOMAIN machine
    BY <2>1 DEF Answer, Shown
  <2>2. CASE p \in DOMAIN machine /\ r = 0
    BY <2>2, TwoPairs DEF Answer, Shown, Shows, LowHigh
  <2>3. CASE p \in DOMAIN machine /\ r = 8
    BY <2>3 DEF Answer, Shown, Shows
  <2>4. CASE p \in DOMAIN machine /\ r = 12
    BY <2>4 DEF Answer, Shown, Shows
  <2>5. CASE p \in DOMAIN machine /\ r = 60
    BY <2>5 DEF Answer, Shown, Shows
  <2> QED BY <1>1, <2>1, <2>2, <2>3, <2>4, <2>5
<1> QED BY <1>9, <1>10 DEF r, id, p

\* What a header shows is four bytes.
LEMMA FourBytes ==
  ASSUME NEW p, NEW o \in Offsets, p \in DOMAIN machine => machine[p] \in Header
  PROVE  \A k \in 1 .. 4 : Shown(p, Register(o))[k] \in Byte
<1>1. Register(o) \in {0, 8, 12, 60}
  BY DEF Offsets, Register
<1>2. CASE p \notin DOMAIN machine
  BY <1>2 DEF Shown, Byte
<1>3. CASE p \in DOMAIN machine
  <2> DEFINE h == machine[p]
  <2>1. /\ h.vendor \in Word /\ h.device \in Word /\ h.revision \in Byte /\ h.interface \in Byte
        /\ h.subclass \in Byte /\ h.class \in Byte /\ h.type \in Byte /\ h.line \in Byte
    BY <1>3 DEF Header
  <2>2. /\ h.vendor % 256 \in Byte /\ h.vendor \div 256 \in Byte
        /\ h.device % 256 \in Byte /\ h.device \div 256 \in Byte /\ 0 \in Byte /\ 1 \in Byte
    <3>1. 0 \in Byte /\ 1 \in Byte
      BY DEF Byte
    <3> HIDE DEF h
    <3> QED BY <2>1, <3>1, WordOfBytes
  <2> HIDE DEF h
  <2>3. \A k \in 1 .. 4 : Shows(h, Register(o))[k] \in Byte
    BY <1>1, <2>1, <2>2 DEF Shows
  <2> QED BY <1>3, <2>3 DEF h, Shown
<1> QED BY <1>2, <1>3

\* read gives the bytes from the offset on.
LEMMA ReadBytes ==
  ASSUME NEW b \in 0 .. 254, NEW s \in 0 .. 31, NEW f \in 0 .. 7, NEW o \in Offsets,
         <<b, s, f>> \in DOMAIN machine => machine[<<b, s, f>>] \in Header
  PROVE  /\ read(b, s, f, o) \in Seq(Byte)
         /\ \A k \in 1 .. 4 - (o % 4) :
              read(b, s, f, o)[k] = Shown(<<b, s, f>>, Register(o))[(o % 4) + k]
<1> DEFINE d == Shown(<<b, s, f>>, Register(o))
           m == (o % 4) + 1
<1>1. read(b, s, f, o) = SubSeq(d, m, 4)
  BY PortShows DEF read
<1>2. m \in 1 .. 4
  BY DEF Offsets
<1>3. \A k \in m .. 4 : d[k] \in Byte
  BY <1>2, FourBytes
<1> HIDE DEF d, m
<1>4. /\ SubSeq(d, m, 4) \in Seq(Byte)
      /\ \A k \in 1 .. (4 - m) + 1 : SubSeq(d, m, 4)[k] = d[m + k - 1]
  <2>1. m \in Int /\ 4 \in Int
    BY <1>2
  <2> QED BY <1>3, <2>1, SubSeqProperties
<1>5. \A k \in 1 .. 4 - (o % 4) : k \in 1 .. (4 - m) + 1 /\ m + k - 1 = (o % 4) + k
  BY DEF Offsets, m
<1> QED BY <1>1, <1>4, <1>5 DEF d
-----------------------------------------------------------------------------
(* Descriptors.                                                            *)

PlaceOf(d) == <<d.bus, d.slot, d.function>>

\* d holds what the function in its place says of itself.
Numbers(d) ==
  LET h == machine[PlaceOf(d)]
  IN /\ d.vendor_id = h.vendor /\ d.device_id = h.device /\ d.class_id = h.type
     /\ d.subclass_id = h.subclass /\ d.interface_id = h.interface /\ d.revision = h.revision
     /\ d.interrupt[1] = h.line

LEMMA PlacesFit ==
  /\ Buses \in Nat /\ Slots \in Nat /\ Functions \in Nat \ {0}
  /\ 0 .. Buses - 1 \subseteq 0 .. 254 /\ 0 .. Slots - 1 \subseteq 0 .. 31
  /\ 0 .. Functions - 1 \subseteq 0 .. 7
BY BusAssumption

LEMMA MachineFacts ==
  ASSUME machine \in Machines
  PROVE  DOMAIN machine \subseteq Place /\ \A p \in DOMAIN machine : machine[p] \in Header
BY BusAssumption

LEMMA DescriptorIsTrue ==
  ASSUME machine \in Machines,
         NEW b \in 0 .. Buses - 1, NEW s \in 0 .. Slots - 1, NEW f \in 0 .. Functions - 1
  PROVE  LET d == get_device_descriptor(b, s, f)
         IN  /\ d.bus = b /\ d.slot = s /\ d.function = f
             /\ <<b, s, f>> \notin DOMAIN machine => d.vendor_id = 65535
             /\ <<b, s, f>> \in DOMAIN machine => Numbers(d) /\ d \in Descriptor
<1> DEFINE d == get_device_descriptor(b, s, f)
           p == <<b, s, f>>
           R(o) == read(b, s, f, o)
           S(o) == Shown(p, Register(o))
<1>1. b \in 0 .. 254 /\ s \in 0 .. 31 /\ f \in 0 .. 7
  BY PlacesFit
<1>2. \A o \in Offsets :
        /\ R(o) \in Seq(Byte)
        /\ \A k \in 1 .. 4 - (o % 4) : R(o)[k] = S(o)[(o % 4) + k]
  BY <1>1, MachineFacts, ReadBytes
<1>3. /\ d.bus = b /\ d.slot = s /\ d.function = f
      /\ d.vendor_id = R(0)[1] + (256 * R(0)[2]) /\ d.device_id = R(2)[1] + (256 * R(2)[2])
      /\ d.class_id = R(14)[1] /\ d.subclass_id = R(10)[1] /\ d.interface_id = R(9)[1]
      /\ d.revision = R(8)[1] /\ d.interrupt = R(60)
      /\ d = [bus |-> b, slot |-> s, function |-> f, vendor_id |-> d.vendor_id,
              device_id |-> d.device_id, class_id |-> d.class_id,
              subclass_id |-> d.subclass_id, interface_id |-> d.interface_id,
              revision |-> d.revision, interrupt |-> d.interrupt]
  BY DEF get_device_descriptor, Word2, Byte1
<1> HIDE DEF d, R, S
<1>4. /\ R(0)[1] = S(0)[1] /\ R(0)[2] = S(0)[2] /\ R(2)[1] = S(2)[3] /\ R(2)[2] = S(2)[4]
      /\ R(14)[1] = S(14)[3] /\ R(10)[1] = S(10)[3] /\ R(9)[1] = S(9)[2]
      /\ R(8)[1] = S(8)[1] /\ R(60)[1] = S(60)[1] /\ R(60) \in Seq(Byte)
  <2>1. /\ 0 \in Offsets /\ 2 \in Offsets /\ 8 \in Offsets /\ 9 \in Offsets
        /\ 10 \in Offsets /\ 14 \in Offsets /\ 60 \in Offsets
    BY DEF Offsets
  <2>2. /\ 0 % 4 = 0 /\ 2 % 4 = 2 /\ 8 % 4 = 0 /\ 9 % 4 = 1
        /\ 10 % 4 = 2 /\ 14 % 4 = 2 /\ 60 % 4 = 0
    OBVIOUS
  <2>3. \A k \in 1 .. 4 : R(0)[k] = S(0)[k]
    <3>1. \A k \in 1 .. 4 - (0 % 4) : R(0)[k] = S(0)[(0 % 4) + k]
      BY <1>2, <2>1
    <3> QED BY <2>2, <3>1
  <2>4. \A k \in 1 .. 2 : R(2)[k] = S(2)[2 + k]
    <3>1. \A k \in 1 .. 4 - (2 % 4) : R(2)[k] = S(2)[(2 % 4) + k]
      BY <1>2, <2>1
    <3> QED BY <2>2, <3>1
  <2>5. \A k \in 1 .. 4 : R(8)[k] = S(8)[k]
    <3>1. \A k \in 1 .. 4 - (8 % 4) : R(8)[k] = S(8)[(8 % 4) + k]
      BY <1>2, <2>1
    <3> QED BY <2>2, <3>1
  <2>6. \A k \in 1 .. 3 : R(9)[k] = S(9)[1 + k]
    <3>1. \A k \in 1 .. 4 - (9 % 4) : R(9)[k] = S(9)[(9 % 4) + k]
      BY <1>2, <2>1
    <3> QED BY <2>2, <3>1
  <2>7. \A k \in 1 .. 2 : R(10)[k] = S(10)[2 + k]
    <3>1. \A k \in 1 .. 4 - (10 % 4) : R(10)[k] = S(10)[(10 % 4) + k]
      BY <1>2, <2>1
    <3> QED BY <2>2, <3>1
  <2>8. \A k \in 1 .. 2 : R(14)[k] = S(14)[2 + k]
    <3>1. \A k \in 1 .. 4 - (14 % 4) : R(14)[k] = S(14)[(14 % 4) + k]
      BY <1>2, <2>1
    <3> QED BY <2>2, <3>1
  <2>9. \A k \in 1 .. 4 : R(60)[k] = S(60)[k]
    <3>1. \A k \in 1 .. 4 - (60 % 4) : R(60)[k] = S(60)[(60 % 4) + k]
      BY <1>2, <2>1
    <3> QED BY <2>2, <3>1
  <2>10. R(60) \in Seq(Byte)
    BY <1>2, <2>1
  <2> QED BY <2>3, <2>4, <2>5, <2>6, <2>7, <2>8, <2>9, <2>10
<1>5. /\ Register(0) = 0 /\ Register(2) = 0 /\ Register(8) = 8 /\ Register(9) = 8
      /\ Register(10) = 8 /\ Register(14) = 12 /\ Register(60) = 60
  BY DEF Register
<1>6. p \notin DOMAIN machine => d.vendor_id = 65535
  <2> SUFFICES ASSUME p \notin DOMAIN machine PROVE d.vendor_id = 65535
    OBVIOUS
  <2>1. S(0) = <<255, 255, 255, 255>>
    BY DEF S, Shown
  <2> QED BY <1>3, <1>4, <2>1
<1>7. ASSUME p \in DOMAIN machine PROVE Numbers(d) /\ d \in Descriptor
  <2> DEFINE h == machine[p]
  <2>1. h \in Header
    BY <1>7, MachineFacts
  <2>2. /\ h.vendor \in Word /\ h.device \in Word /\ h.revision \in Byte /\ h.interface \in Byte
        /\ h.subclass \in Byte /\ h.class \in Byte /\ h.type \in Byte /\ h.line \in Byte
    BY <2>1 DEF Header
  <2>3. \A o \in Offsets : S(o) = Shows(h, Register(o))
    BY <1>7 DEF S, Shown
  <2>4. PlaceOf(d) = p
    BY <1>3 DEF PlaceOf
  <2> HIDE DEF h, p
  <2>5. /\ S(0)[1] = h.vendor % 256 /\ S(0)[2] = h.vendor \div 256
        /\ S(2)[3] = h.device % 256 /\ S(2)[4] = h.device \div 256
    BY <1>5, <2>3 DEF Offsets, Shows
  <2>6. S(14)[3] = h.type /\ S(10)[3] = h.subclass /\ S(9)[2] = h.interface
    BY <1>5, <2>3 DEF Offsets, Shows
  <2>7. S(8)[1] = h.revision /\ S(60)[1] = h.line
    BY <1>5, <2>3 DEF Offsets, Shows
  <2>8. d.vendor_id = h.vendor /\ d.device_id = h.device
    BY <1>3, <1>4, <2>2, <2>5, WordOfBytes
  <2>9. Numbers(d)
    BY <1>3, <1>4, <2>4, <2>6, <2>7, <2>8 DEF Numbers, h
  <2>10. d \in Descriptor
    BY <1>3, <1>4, <2>2, <2>6, <2>7, <2>8 DEF Descriptor
  <2> QED BY <2>9, <2>10
<1> QED BY <1>3, <1>6, <1>7 DEF d, p

\* Function 0 is absent or says that it is not alone.
Several(b, s) == <<b, s, 0>> \in DOMAIN machine => machine[<<b, s, 0>>].type >= 128

LEMMA MultifunctionIsTrue ==
  ASSUME machine \in Machines, NEW b \in 0 .. Buses - 1, NEW s \in 0 .. Slots - 1
  PROVE  device_multifunction(b, s) <=> Several(b, s)
<1> DEFINE p == <<b, s, 0>>
<1>1. b \in 0 .. 254 /\ s \in 0 .. 31 /\ 0 \in 0 .. 7 /\ 14 \in Offsets
  BY PlacesFit DEF Offsets
<1>2. read(b, s, 0, 14)[1] = Shown(p, 12)[3]
  <2>1. \A k \in 1 .. 4 - (14 % 4) :
          read(b, s, 0, 14)[k] = Shown(p, Register(14))[(14 % 4) + k]
    BY <1>1, MachineFacts, ReadBytes
  <2>2. 14 % 4 = 2 /\ Register(14) = 12 /\ 1 \in 1 .. 2
    BY DEF Register
  <2> QED BY <2>1, <2>2
<1>3. Shown(p, 12)[3] = IF p \in DOMAIN machine THEN machine[p].type ELSE 255
  BY DEF Shown, Shows
<1> QED BY <1>2, <1>3 DEF device_multifunction, Byte1, Several
-----------------------------------------------------------------------------
(* The order of places.                                                    *)

LEMMA BeforeNext ==
  ASSUME NEW q \in Place, NEW b \in Nat, NEW s \in Nat, NEW f \in Nat
  PROVE  Before(q, <<b, s, f + 1>>) <=> Before(q, <<b, s, f>>) \/ q = <<b, s, f>>
<1>1. PICK x \in 0 .. Buses - 1, y \in 0 .. Slots - 1, z \in 0 .. Functions - 1 : q = <<x, y, z>>
  BY DEF Place
<1>2. x \in Int /\ y \in Int /\ z \in Int
  BY PlacesFit
<1> QED BY <1>1, <1>2 DEF Before

\* What is left of a slot does not count when none of it is a place of the set.
LEMMA BeforeNextSlot ==
  ASSUME NEW q \in Place, NEW b \in Nat, NEW s \in Nat, NEW f \in Nat,
         q[1] = b /\ q[2] = s => q[3] < f
  PROVE  Before(q, <<b, s + 1, 0>>) <=> Before(q, <<b, s, f>>)
<1>1. PICK x \in 0 .. Buses - 1, y \in 0 .. Slots - 1, z \in 0 .. Functions - 1 : q = <<x, y, z>>
  BY DEF Place
<1>2. x \in Int /\ y \in Int /\ z \in Nat
  BY PlacesFit
<1> QED BY <1>1, <1>2 DEF Before

LEMMA BeforeNextBus ==
  ASSUME NEW q \in Place, NEW b \in Nat, NEW s \in Nat, NEW f \in Nat, NEW g \in Nat,
         s + 1 >= Slots, q[1] = b /\ q[2] = s => q[3] < f, g = 0 \/ b + 1 >= Buses
  PROVE  Before(q, <<b + 1, 0, g>>) <=> Before(q, <<b, s, f>>)
<1>1. PICK x \in 0 .. Buses - 1, y \in 0 .. Slots - 1, z \in 0 .. Functions - 1 : q = <<x, y, z>>
  BY DEF Place
<1>2. x \in Int /\ y \in Nat /\ z \in Nat /\ x < Buses /\ y < Slots
  BY PlacesFit
<1> QED BY <1>1, <1>2, PlacesFit DEF Before

-----------------------------------------------------------------------------
(* The invariant.                                                          *)

Listed   == {PlaceOf(devices[n]) : n \in 1 .. Len(devices)}
Unlisted == IF pc = "overrun" THEN {<<bus, slot, function - 1>>} ELSE {}

Sorted ==
  \A n \in 1 .. Len(devices) : \A k \in 1 .. n - 1 :
    Before(PlaceOf(devices[k]), PlaceOf(devices[n]))

Named == \A n \in 1 .. Len(devices) : Numbers(devices[n])

PciInv ==
  /\ machine \in Machines
  /\ PciTypeOK
  /\ pc # "done" => bus < Buses
  /\ pc = "function" =>
       /\ number_of_functions = IF Several(bus, slot) THEN Functions ELSE 1
       /\ function <= number_of_functions
  /\ Len(devices) <= TableSize /\ (pc = "overrun" => Len(devices) = TableSize)
  /\ Listed \cup Unlisted = {p \in Expected : Before(p, Here)}
  /\ Sorted /\ Named

LEMMA ExpectedPlaces ==
  ASSUME machine \in Machines
  PROVE  /\ Expected \subseteq Place
         /\ \A b \in Nat, s \in Nat, f \in Nat :
              <<b, s, f>> \in Expected <=>
                /\ <<b, s, f>> \in DOMAIN machine
                /\ machine[<<b, s, f>>].vendor \notin {0, 65535}
                /\ f # 0 => Several(b, s)
<1>1. Expected \subseteq Place
  BY MachineFacts DEF Expected
<1>2. \A b \in Nat, s \in Nat, f \in Nat :
        <<b, s, f>>[1] = b /\ <<b, s, f>>[2] = s /\ <<b, s, f>>[3] = f
  OBVIOUS
<1> QED BY <1>1, <1>2 DEF Expected, Several

LEMMA PciInit ==
  ASSUME Init
  PROVE  PciInv
<1>1. Len(devices) = 0 /\ devices = <<>> /\ pc = "slot" /\ bus = 0 /\ slot = 0 /\ function = 0
  BY DEF Init
<1>2. PciTypeOK
  BY <1>1, PlacesFit, BusAssumption DEF Init, PciTypeOK
<1>3. Here = <<0, 0, 0>> /\ Listed = {} /\ Unlisted = {}
  BY <1>1 DEF Here, Listed, Unlisted
<1>4. \A p \in Expected : ~Before(p, <<0, 0, 0>>)
  <2> SUFFICES ASSUME NEW p \in Place PROVE ~Before(p, <<0, 0, 0>>)
    BY ExpectedPlaces DEF Init
  <2>1. PICK x \in 0 .. Buses - 1, y \in 0 .. Slots - 1, z \in 0 .. Functions - 1 : p = <<x, y, z>>
    BY DEF Place
  <2>2. x \in Nat /\ y \in Nat /\ z \in Nat
    BY PlacesFit
  <2> QED BY <2>1, <2>2 DEF Before
<1>5. bus < Buses
  BY <1>1, BusAssumption
<1>6. Sorted /\ Named /\ Len(devices) <= TableSize
  BY <1>1 DEF Sorted, Named, TableSize
<1>7. Listed \cup Unlisted = {p \in Expected : Before(p, Here)}
  BY <1>3, <1>4
<1>8. machine \in Machines
  BY DEF Init
<1> QED BY <1>1, <1>2, <1>5, <1>6, <1>7, <1>8 DEF PciInv

\* bus and slot of a step that asks the machine.
LEMMA InPlace ==
  ASSUME PciInv, pc # "done"
  PROVE  /\ bus \in 0 .. Buses - 1 /\ slot \in 0 .. Slots - 1 /\ bus \in Nat /\ slot \in Nat
         /\ function \in Nat /\ devices \in Seq(Descriptor) /\ Len(devices) \in Nat
BY PlacesFit DEF PciInv, PciTypeOK

LEMMA EnterSlotStep ==
  ASSUME PciInv, EnterSlot
  PROVE  PciInv'
<1>1. pc = "slot" /\ pc' = "function" /\ function' = 0
      /\ UNCHANGED <<machine, bus, slot, devices>> /\ number_of_functions' = FunctionsToTry
  BY DEF EnterSlot
<1>2. bus \in 0 .. Buses - 1 /\ slot \in 0 .. Slots - 1 /\ machine \in Machines
  BY <1>1, InPlace DEF PciInv
<1>3. number_of_functions' = IF Several(bus, slot) THEN Functions ELSE 1
  BY <1>1, <1>2, MultifunctionIsTrue DEF FunctionsToTry
<1>4. PciTypeOK'
  BY <1>1, <1>3, PlacesFit DEF PciInv, PciTypeOK
<1>5. Here' = Here /\ Expected' = Expected /\ Listed' = Listed /\ Unlisted' = Unlisted
  BY <1>1 DEF Here, Expected, Listed, Unlisted
<1>6. Several(bus, slot)' <=> Several(bus, slot)
  BY <1>1 DEF Several
<1>7. Sorted' /\ Named'
  BY <1>1 DEF PciInv, Sorted, PlaceOf, Named, Numbers
<1>8. function' <= number_of_functions'
  BY <1>1, <1>3, PlacesFit
<1>9. Len(devices') <= TableSize /\ bus' < Buses /\ machine' \in Machines
  BY <1>1, <1>2 DEF PciInv, TableSize
<1>10. Listed' \cup Unlisted' = {p \in Expected' : Before(p, Here')}
  BY <1>5 DEF PciInv
<1>11. number_of_functions' = IF Several(bus, slot)' THEN Functions ELSE 1
  BY <1>3, <1>6
<1> QED BY <1>1, <1>4, <1>7, <1>8, <1>9, <1>10, <1>11 DEF PciInv

LEMMA TryFunctionStep ==
  ASSUME PciInv, TryFunction
  PROVE  PciInv'
<1> DEFINE p == <<bus, slot, function>>
           d == get_device_descriptor(bus, slot, function)
<1>1. /\ pc = "function" /\ function < number_of_functions /\ function' = function + 1
      /\ UNCHANGED <<machine, bus, slot, number_of_functions>>
      /\ IF ~Answers(d) THEN UNCHANGED <<devices, pc>>
         ELSE IF Len(devices) < TableSize
         THEN devices' = Append(devices, d) /\ UNCHANGED pc
         ELSE pc' = "overrun" /\ UNCHANGED devices
  BY DEF TryFunction, NextFunction
<1>2. /\ bus \in 0 .. Buses - 1 /\ slot \in 0 .. Slots - 1 /\ machine \in Machines
      /\ bus \in Nat /\ slot \in Nat /\ function \in Nat
      /\ devices \in Seq(Descriptor) /\ Len(devices) \in Nat
      /\ number_of_functions = (IF Several(bus, slot) THEN Functions ELSE 1)
  BY <1>1, InPlace DEF PciInv
<1>3. function \in 0 .. Functions - 1 /\ (function # 0 => Several(bus, slot))
  BY <1>1, <1>2, PlacesFit
<1>4. /\ d.bus = bus /\ d.slot = slot /\ d.function = function
      /\ p \notin DOMAIN machine => d.vendor_id = 65535
      /\ p \in DOMAIN machine => Numbers(d) /\ d \in Descriptor
  BY <1>2, <1>3, DescriptorIsTrue
<1>5. Answers(d) <=> p \in Expected
  <2>1. p \in DOMAIN machine => d.vendor_id = machine[p].vendor
    BY <1>4 DEF Numbers, PlaceOf
  <2>2. p \in Expected <=> p \in DOMAIN machine /\ machine[p].vendor \notin {0, 65535}
    BY <1>2, <1>3, ExpectedPlaces
  <2> QED BY <1>4, <2>1, <2>2 DEF Answers
<1>6. Answers(d) => Numbers(d) /\ d \in Descriptor
  BY <1>4 DEF Answers
<1>7. PlaceOf(d) = p
  BY <1>4 DEF PlaceOf
<1> HIDE DEF d
<1>8. Here = p /\ Here' = <<bus, slot, function + 1>>
  BY <1>1 DEF Here
<1>9. {q \in Expected' : Before(q, Here')}
        = {q \in Expected : Before(q, Here)} \cup (IF Answers(d) THEN {p} ELSE {})
  <2>1. Expected' = Expected
    BY <1>1 DEF Expected
  <2>2. \A q \in Expected : Before(q, Here') <=> Before(q, Here) \/ q = p
    BY <1>2, <1>8, BeforeNext, ExpectedPlaces
  <2> QED BY <1>5, <2>1, <2>2
<1>10. Listed = {q \in Expected : Before(q, Here)}
  BY <1>1 DEF PciInv, Unlisted
<1>11. /\ function' \in 0 .. Functions /\ function' <= number_of_functions'
       /\ bus' < Buses /\ machine' \in Machines
       /\ number_of_functions' = IF Several(bus, slot)' THEN Functions ELSE 1
  BY <1>1, <1>2, <1>3, PlacesFit DEF Several
<1>12. PciTypeOK' <=> pc' \in {"slot", "function", "done", "overrun"} /\ devices' \in Seq(Descriptor)
  BY <1>1, <1>11 DEF PciInv, PciTypeOK
<1>13. CASE ~Answers(d) \/ ~(Len(devices) < TableSize)
  <2>1. devices' = devices /\ ((pc' = "function" /\ ~Answers(d)) \/ (pc' = "overrun" /\ Answers(d)))
    BY <1>1, <1>13
  <2>2. PciTypeOK'
    BY <1>2, <1>12, <2>1
  <2>3. Listed' \cup Unlisted' = {q \in Expected' : Before(q, Here')}
    <3>1. Listed' = Listed
      BY <2>1 DEF Listed, PlaceOf
    <3>2. Unlisted' = IF Answers(d) THEN {p} ELSE {}
      <4>1. function' - 1 = function
        BY <1>1, <1>2
      <4> QED BY <1>1, <2>1, <4>1 DEF Unlisted
    <3> QED BY <1>9, <1>10, <3>1, <3>2
  <2>4. Sorted' /\ Named'
    BY <1>1, <2>1 DEF PciInv, Sorted, PlaceOf, Named, Numbers
  <2>5. Len(devices) <= TableSize
    BY DEF PciInv
  <2>6. Len(devices') <= TableSize /\ (pc' = "overrun" => Len(devices') = TableSize)
    <3>1. Len(devices') = Len(devices) /\ (pc' = "overrun" => Answers(d))
      BY <2>1
    <3>2. Len(devices) <= 15 /\ TableSize = 15
      BY <2>5 DEF TableSize
    <3>3. Len(devices') <= TableSize
      BY <1>2, <3>1, <3>2
    <3>4. Answers(d) => ~(Len(devices) < TableSize)
      BY <1>13
    <3> QED BY <1>2, <3>1, <3>2, <3>3, <3>4
  <2> QED BY <1>11, <2>1, <2>2, <2>3, <2>4, <2>6 DEF PciInv
<1>14. CASE Answers(d) /\ Len(devices) < TableSize
  <2>1. devices' = Append(devices, d) /\ pc' = "function" /\ d \in Descriptor /\ Numbers(d)
    BY <1>1, <1>6, <1>14
  <2> DEFINE L == Len(devices)
  <2>2. /\ devices' \in Seq(Descriptor) /\ Len(devices') = L + 1
        /\ \A n \in 1 .. L : devices'[n] = devices[n]
        /\ devices'[L + 1] = d
    BY <1>2, <2>1, AppendProperties
  <2>3. \A n \in 1 .. L + 1 : n \in 1 .. L \/ n = L + 1
    BY <1>2
  <2>4. 1 .. L \subseteq 1 .. L + 1 /\ L + 1 \in 1 .. L + 1
    BY <1>2
  <2> HIDE DEF L
  <2>5. PciTypeOK'
    BY <1>12, <2>1, <2>2
  <2>6. Listed' = Listed \cup {p}
    BY <1>7, <2>2, <2>3, <2>4 DEF Listed, L
  <2>7. Unlisted' = {}
    BY <2>1 DEF Unlisted
  <2>8. Listed' \cup Unlisted' = {q \in Expected' : Before(q, Here')}
    BY <1>9, <1>10, <1>14, <2>6, <2>7
  <2>9. Sorted'
    <3> SUFFICES ASSUME NEW n \in 1 .. L + 1, NEW k \in 1 .. n - 1
                 PROVE  Before(PlaceOf(devices'[k]), PlaceOf(devices'[n]))
      BY <2>2 DEF Sorted
    <3>1. k \in 1 .. L
      BY <1>2 DEF L
    <3>2. CASE n \in 1 .. L
      BY <2>2, <3>1, <3>2 DEF PciInv, Sorted, L
    <3>3. CASE n = L + 1
      <4>1. PlaceOf(devices[k]) \in Listed
        BY <3>1 DEF Listed, L
      <4>2. Before(PlaceOf(devices[k]), p)
        BY <1>8, <1>10, <4>1
      <4> QED BY <1>7, <2>2, <3>1, <3>3, <4>2
    <3> QED BY <2>3, <3>2, <3>3
  <2>10. Named'
    <3>1. \A n \in 1 .. L : Numbers(devices'[n])
      BY <2>2 DEF PciInv, Named, L
    <3>2. \A n \in 1 .. L + 1 : Numbers(devices'[n])
      BY <2>1, <2>2, <2>3, <3>1
    <3> QED BY <1>1, <2>2, <3>2 DEF Named, Numbers, PlaceOf
  <2>11. Len(devices') <= TableSize
    BY <1>2, <1>14, <2>2 DEF TableSize, L
  <2> QED BY <1>11, <2>1, <2>5, <2>8, <2>9, <2>10, <2>11 DEF PciInv
<1> QED BY <1>13, <1>14

LEMMA LeaveSlotStep ==
  ASSUME PciInv, LeaveSlot
  PROVE  PciInv'
<1>1. /\ pc = "function" /\ function >= number_of_functions
      /\ UNCHANGED <<machine, function, number_of_functions, devices>>
      /\ IF slot + 1 < Slots THEN slot' = slot + 1 /\ bus' = bus /\ pc' = "slot"
         ELSE /\ slot' = 0
              /\ bus' = bus + 1
              /\ pc' = IF bus + 1 < Buses THEN "slot" ELSE "done"
  BY DEF LeaveSlot
<1>2. /\ bus \in 0 .. Buses - 1 /\ slot \in 0 .. Slots - 1 /\ machine \in Machines
      /\ bus \in Nat /\ slot \in Nat /\ function \in Nat /\ function \in 0 .. Functions
      /\ devices \in Seq(Descriptor) /\ number_of_functions \in {0, 1, Functions}
      /\ number_of_functions = (IF Several(bus, slot) THEN Functions ELSE 1)
  BY <1>1, InPlace DEF PciInv, PciTypeOK
<1>3. pc' \in {"slot", "done"} /\ bus' \in 0 .. Buses /\ slot' \in 0 .. Slots - 1
  BY <1>1, <1>2, PlacesFit
<1>4. pc' # "done" => bus' < Buses
  BY <1>1, <1>2, PlacesFit
<1>5. PciTypeOK'
  BY <1>1, <1>2, <1>3 DEF PciTypeOK
<1>6. Sorted' /\ Named' /\ Len(devices') <= TableSize /\ machine' \in Machines
  BY <1>1, <1>2 DEF PciInv, Sorted, PlaceOf, Named, Numbers
<1>7. Listed' = Listed /\ Unlisted' = {} /\ Unlisted = {} /\ Expected' = Expected
  BY <1>1, <1>3 DEF Listed, PlaceOf, Unlisted, Expected
<1>8. Here = <<bus, slot, function>>
  BY <1>1 DEF Here
<1>9. ASSUME NEW q \in Expected, q[1] = bus, q[2] = slot
      PROVE  q[3] < function
  <2>1. q \in Place
    BY <1>2, ExpectedPlaces
  <2>2. PICK x \in 0 .. Buses - 1, y \in 0 .. Slots - 1, z \in 0 .. Functions - 1 : q = <<x, y, z>>
    BY <2>1 DEF Place
  <2>3. q = <<bus, slot, z>> /\ q[3] = z /\ z \in Nat /\ z < Functions
    BY <1>9, <2>2, PlacesFit
  <2>4. z # 0 => Several(bus, slot)
    BY <1>2, <1>9, <2>3, ExpectedPlaces
  <2> QED BY <1>1, <1>2, <2>3, <2>4, PlacesFit
<1>10. \A q \in Expected : Before(q, Here') <=> Before(q, Here)
  <2> SUFFICES ASSUME NEW q \in Expected PROVE Before(q, Here') <=> Before(q, Here)
    OBVIOUS
  <2>1. q \in Place /\ (q[1] = bus /\ q[2] = slot => q[3] < function)
    BY <1>2, <1>9, ExpectedPlaces
  <2>2. CASE slot + 1 < Slots
    <3>1. Here' = <<bus, slot + 1, 0>>
      BY <1>1, <2>2 DEF Here
    <3> QED BY <1>2, <1>8, <2>1, <3>1, BeforeNextSlot
  <2>3. CASE ~(slot + 1 < Slots)
    <3>1. slot + 1 >= Slots
      BY <1>2, <2>3, PlacesFit
    <3>2. PICK g \in Nat : Here' = <<bus + 1, 0, g>> /\ (g = 0 \/ bus + 1 >= Buses)
      <4>1. CASE bus + 1 < Buses
        <5>1. Here' = <<bus + 1, 0, 0>>
          BY <1>1, <2>3, <4>1 DEF Here
        <5> QED BY <5>1
      <4>2. CASE ~(bus + 1 < Buses)
        <5>1. Here' = <<bus + 1, 0, function>> /\ bus + 1 >= Buses
          BY <1>1, <1>2, <2>3, <4>2, PlacesFit DEF Here
        <5> QED BY <1>2, <5>1
      <4> QED BY <4>1, <4>2
    <3> QED BY <1>2, <1>8, <2>1, <3>1, <3>2, BeforeNextBus
  <2> QED BY <2>2, <2>3
<1>11. Listed' \cup Unlisted' = {p \in Expected' : Before(p, Here')}
  <2>1. Listed \cup Unlisted = {p \in Expected : Before(p, Here)}
    BY DEF PciInv
  <2>2. {p \in Expected' : Before(p, Here')} = {p \in Expected : Before(p, Here)}
    BY <1>7, <1>10
  <2> QED BY <1>7, <2>1, <2>2
<1> QED BY <1>3, <1>4, <1>5, <1>6, <1>11 DEF PciInv

LEMMA PciStep ==
  ASSUME PciInv, [Next]_vars
  PROVE  PciInv'
<1>1. CASE EnterSlot
  BY <1>1, EnterSlotStep
<1>2. CASE TryFunction
  BY <1>2, TryFunctionStep
<1>3. CASE LeaveSlot
  BY <1>3, LeaveSlotStep
<1>4. CASE UNCHANGED vars
  <2>1. UNCHANGED <<machine, pc, bus, slot, function, number_of_functions, devices>>
    BY <1>4 DEF vars
  <2>2. Listed' = Listed /\ Unlisted' = Unlisted /\ Expected' = Expected /\ Here' = Here
    BY <2>1 DEF Listed, PlaceOf, Unlisted, Expected, Here
  <2>3. Sorted' /\ Named' /\ PciTypeOK'
    BY <2>1 DEF PciInv, Sorted, PlaceOf, Named, Numbers, PciTypeOK
  <2>4. Several(bus, slot)' <=> Several(bus, slot)
    BY <2>1 DEF Several
  <2>5. TableSize' = TableSize
    BY DEF TableSize
  <2> QED BY <2>1, <2>2, <2>3, <2>4, <2>5 DEF PciInv
<1> QED BY <1>1, <1>2, <1>3, <1>4 DEF Next, Explore, Finished

LEMMA PciInvHolds == Spec => []PciInv
<1>1. Init => PciInv
  BY PciInit
<1>2. PciInv /\ [Next]_vars => PciInv'
  BY PciStep
<1> QED BY <1>1, <1>2, PTL DEF Spec

-----------------------------------------------------------------------------

\* Type correctness, on every machine and for every number of buses.
THEOREM PciTypeCorrect == Spec => []PciTypeOK
<1>1. PciInv => PciTypeOK
  BY DEF PciInv
<1> QED BY <1>1, PciInvHolds, PTL

\* pci_explore's list is that of the machine: a function that answers is on it
\* once, in order and with its own numbers, nothing else is, and the table
\* overflows only with the sixteenth.
THEOREM ListIsAlwaysTrue == Spec => []ListIsTrue
<1>1. ASSUME PciInv PROVE ListIsTrue
  <2> DEFINE listed == [n \in DOMAIN devices |-> <<devices[n].bus, devices[n].slot, devices[n].function>>]
             unlisted == IF pc = "overrun" THEN {<<bus, slot, function - 1>>} ELSE {}
  <2>1. DOMAIN devices = 1 .. Len(devices)
    BY <1>1 DEF PciInv, PciTypeOK
  <2>2. DOMAIN listed = 1 .. Len(devices) /\ \A n \in 1 .. Len(devices) : listed[n] = PlaceOf(devices[n])
    BY <2>1 DEF PlaceOf
  <2>3. unlisted = Unlisted
    BY DEF Unlisted
  <2> HIDE DEF listed, unlisted
  <2>4. ToSet(listed) = Listed
    BY <2>2 DEF ToSet, Listed
  <2>5. ToSet(listed) \cup unlisted = {p \in Expected : Before(p, Here)}
    BY <1>1, <2>3, <2>4 DEF PciInv
  <2>6. pc = "overrun" => Len(devices) = TableSize
    BY <1>1 DEF PciInv
  <2>7. ASSUME NEW n \in 1 .. Len(devices)
        PROVE  /\ \A k \in 1 .. n - 1 : Before(listed[k], listed[n])
               /\ LET h == machine[listed[n]]
                      d == devices[n]
                  IN /\ <<d.vendor_id, d.device_id, d.class_id>> = <<h.vendor, h.device, h.type>>
                     /\ <<d.subclass_id, d.interface_id, d.revision>> =
                          <<h.subclass, h.interface, h.revision>>
                     /\ d.interrupt[1] = h.line
    <3>1. \A k \in 1 .. n - 1 : Before(listed[k], listed[n])
      <4>1. \A k \in 1 .. n - 1 : k \in 1 .. Len(devices)
        BY <1>1 DEF PciInv, PciTypeOK
      <4> QED BY <1>1, <2>2, <2>7, <4>1 DEF PciInv, Sorted
    <3>2. Numbers(devices[n]) /\ listed[n] = PlaceOf(devices[n])
      BY <1>1, <2>2, <2>7 DEF PciInv, Named
    <3> QED BY <3>1, <3>2 DEF Numbers
  <2> QED BY <2>1, <2>5, <2>6, <2>7 DEF ListIsTrue, listed, unlisted
<1> QED BY <1>1, PciInvHolds, PTL

-----------------------------------------------------------------------------
(* What detect_cpu prints.                                                 *)

\* Every line it may print of this processor: one for each label, those of the
\* brand tables, and the pieces of the name.
FieldLines ==
  LET sig == cpu.signature
  IN { <<>>, <<"unknown", 0>>, <<"sensor", 0>>,
       <<"type", Bits(sig, 12, 2)>>, <<"family", Family(sig)>>, <<"family_name", Family(sig)>>,
       IF Family(sig) = 15 THEN <<"extended_family", Bits(sig, 20, 8)>> ELSE <<>>,
       <<"model", Model(sig)>>,
       <<"model_name", Model(sig)>>, <<"model_number", Model(sig)>>,
       <<"brand", cpu.brand>>, <<"brand_reserved", 0>>, <<"stepping", Stepping(sig)>>,
       <<"reserved", IF Intel THEN IntelReserved(sig) ELSE AmdReserved(sig)>> }

TableLines == {<<t, b>> : t \in {"Intel", "Intel_Other"}, b \in 0 .. TableLength - 1}

OtherLines == FieldLines \cup TableLines

NameLines == {printregs(NameRegisters(k)) : k \in 2 .. 4}

Lines == OtherLines \cup NameLines

CpuInv ==
  /\ cpu \in Cpus
  /\ stage \in {"vendor", "signature", "max", "name", "done"}
  /\ j \in 2 .. 5
  /\ stage \in {"max", "name"} => eax = cpu.signature
  /\ stage = "name" /\ Intel => cpu.max >= 4
  /\ out \in Seq(Lines)

LEMMA OtherLinesAreLines ==
  ASSUME NEW q \in Seq(OtherLines)
  PROVE  q \in Seq(Lines)
BY DEF Lines

\* What is assumed of a processor's numbers.
LEMMA CpuNumbers ==
  ASSUME NEW c \in Cpus
  PROVE  c.signature \in Nat /\ c.brand \in 0 .. 255 /\ c.max \in Int
<1> DEFINE last == (2^28) - 1
<1>1. c.signature \in 0 .. last /\ c.brand \in 0 .. 255 /\ c.max \in Int
  BY NumbersAssumption
<1>2. last \in Int
  OBVIOUS
<1> HIDE DEF last
<1>3. c.signature \in Nat
  BY <1>1, <1>2
<1> QED BY <1>1, <1>3

LEMMA IntelLinesListed ==
  IntelLines(cpu.signature) \in Seq(OtherLines)
<1> DEFINE sig == cpu.signature
           a == << <<"type", Bits(sig, 12, 2)>>, <<"family", Family(sig)>>,
                   NameIf(Family(sig) \in 3 .. 6 \cup {15}, "family_name", Family(sig)) >>
           b == IF Family(sig) = 15 THEN << <<"extended_family", Bits(sig, 20, 8)>> >> ELSE <<>>
           c == << <<"model", Model(sig)>>,
                   NameIf(Model(sig) \in IntelModels(Family(sig)), "model_name", Model(sig)) >>
<1>1. IntelLines(sig) = (a \o b) \o c
  BY DEF IntelLines
<1>2. /\ <<>> \in OtherLines /\ <<"type", Bits(sig, 12, 2)>> \in OtherLines /\ <<"family", Family(sig)>> \in OtherLines
      /\ <<"family_name", Family(sig)>> \in OtherLines
      /\ (Family(sig) = 15 => <<"extended_family", Bits(sig, 20, 8)>> \in OtherLines)
      /\ <<"model", Model(sig)>> \in OtherLines /\ <<"model_name", Model(sig)>> \in OtherLines
  BY DEF OtherLines, FieldLines, TableLines
<1>3. /\ NameIf(Family(sig) \in 3 .. 6 \cup {15}, "family_name", Family(sig)) \in OtherLines
      /\ NameIf(Model(sig) \in IntelModels(Family(sig)), "model_name", Model(sig)) \in OtherLines
  BY <1>2 DEF NameIf
<1>4. a \in Seq(OtherLines) /\ b \in Seq(OtherLines) /\ c \in Seq(OtherLines)
  BY <1>2, <1>3
<1> HIDE DEF a, b, c, sig
<1>5. (a \o b) \o c \in Seq(OtherLines)
  BY <1>4
<1> QED BY <1>1, <1>5 DEF sig

LEMMA AmdLinesListed ==
  AmdLines(cpu.signature) \in Seq(OtherLines)
<1> DEFINE sig == cpu.signature
           l == IF Model(sig) \in AmdModels(Family(sig)) THEN "model_name" ELSE "model_number"
<1>1. /\ <<>> \in OtherLines /\ <<"family", Family(sig)>> \in OtherLines /\ <<"model", Model(sig)>> \in OtherLines
      /\ <<"model_name", Model(sig)>> \in OtherLines /\ <<"model_number", Model(sig)>> \in OtherLines
  BY DEF OtherLines, FieldLines, TableLines
<1>2. NameIf(Family(sig) \in 4 .. 6, l, Model(sig)) \in OtherLines
  BY <1>1 DEF NameIf
<1> QED BY <1>1, <1>2 DEF AmdLines

LEMMA BrandLinesListed ==
  ASSUME cpu \in Cpus
  PROVE  BrandLines(cpu.signature, cpu.brand) \in Seq(OtherLines)
<1> DEFINE sig == cpu.signature
           t == IF sig \in {1713, 3859} THEN "Intel_Other" ELSE "Intel"
           l == IF ~BrandFits(cpu.brand) THEN <<"brand_reserved", 0>> ELSE <<t, cpu.brand>>
<1>1. cpu.brand \in 0 .. 255
  BY CpuNumbers
<1>2. BrandFits(cpu.brand) => <<t, cpu.brand>> \in TableLines
  <2>1. BrandFits(cpu.brand) => cpu.brand \in 0 .. TableLength - 1
    BY <1>1 DEF BrandFits, TableLength
  <2>2. t \in {"Intel", "Intel_Other"}
    OBVIOUS
  <2> HIDE DEF t
  <2> QED BY <2>1, <2>2 DEF TableLines
<1>3. /\ <<>> \in OtherLines /\ <<"brand", cpu.brand>> \in OtherLines /\ <<"brand_reserved", 0>> \in OtherLines
      /\ TableLines \subseteq OtherLines
  BY DEF OtherLines, FieldLines
<1>4. l \in OtherLines
  BY <1>2, <1>3
<1> QED BY <1>3, <1>4 DEF BrandLines

LEMMA LastLineListed ==
  ASSUME eax = cpu.signature
  PROVE  LastLine \in Seq(OtherLines)
BY DEF LastLine, OtherLines, FieldLines

LEMMA CpuNextKeepsInv ==
  ASSUME CpuInv, [CpuNext]_cpuVars
  PROVE  CpuInv'
<1>1. cpu' = cpu
  BY DEF CpuNext, Vendor, Signature, MaxLeaf, Name, AfterName, Reported, cpuVars
<1>2. Lines' = Lines
  BY <1>1 DEF Lines, OtherLines, FieldLines, TableLines, NameLines, Intel, NameRegisters
<1>3. /\ cpu \in Cpus /\ j \in 2 .. 5 /\ out \in Seq(Lines)
      /\ stage \in {"max", "name"} => eax = cpu.signature
      /\ stage = "name" /\ Intel => cpu.max >= 4
  BY DEF CpuInv
<1>4. cpu.max \in Int /\ Intel' = Intel
  BY <1>1, <1>3, CpuNumbers DEF Intel
<1>5. \A s, t \in Seq(Lines) : s \o t \in Seq(Lines)
  OBVIOUS
<1>6. eax = cpu.signature => LastLine \in Seq(Lines)
  BY LastLineListed, OtherLinesAreLines
<1>7. <<>> \in Seq(Lines)
  OBVIOUS
<1>8. CASE Vendor
  <2>1. << <<"unknown", 0>> >> \in Seq(Lines)
    BY DEF Lines, OtherLines, FieldLines, TableLines, NameLines
  <2> QED BY <1>1, <1>2, <1>3, <1>8, <2>1 DEF Vendor, CpuInv
<1>9. CASE Signature
  <2>1. out' \in Seq(Lines)
    <3>1. eax' = cpu.signature /\ out' = out \o IF Intel THEN IntelLines(eax') ELSE AmdLines(eax')
      BY <1>9 DEF Signature
    <3>2. (IF Intel THEN IntelLines(eax') ELSE AmdLines(eax')) \in Seq(Lines)
      BY <3>1, IntelLinesListed, AmdLinesListed, OtherLinesAreLines
    <3> QED BY <1>3, <1>5, <3>1, <3>2
  <2> QED BY <1>1, <1>2, <1>3, <1>9, <2>1 DEF Signature, CpuInv
<1>10. CASE MaxLeaf
  <2>1. eax = cpu.signature
    BY <1>3, <1>10 DEF MaxLeaf
  <2>2. BrandLines(eax, cpu.brand) \in Seq(Lines) /\ LastLine \in Seq(Lines)
    BY <1>3, <1>6, <2>1, BrandLinesListed, OtherLinesAreLines
  <2>3. out' \in Seq(Lines)
    <3>1. (out \o BrandLines(eax, cpu.brand)) \o LastLine \in Seq(Lines) /\ out \o LastLine \in Seq(Lines)
      BY <1>3, <1>5, <2>2
    <3>2. \/ out' = out \/ out' = out \o LastLine
          \/ out' = (out \o BrandLines(eax, cpu.brand)) \o LastLine
      BY <1>10 DEF MaxLeaf
    <3> QED BY <1>3, <3>1, <3>2
  <2>4. stage' \in {"name", "done"} /\ (stage' = "name" /\ Intel => cpu.max >= 4)
    BY <1>4, <1>10 DEF MaxLeaf
  <2>5. j' = j /\ eax' = eax
    BY <1>10 DEF MaxLeaf
  <2> QED BY <1>1, <1>2, <1>3, <1>4, <2>1, <2>3, <2>4, <2>5 DEF CpuInv
<1>11. CASE Name
  <2>1. stage = "name" /\ j \in 2 .. 4 /\ j' = j + 1 /\ stage' = stage /\ eax' = eax
    BY <1>3, <1>11 DEF Name
  <2>2. printregs(NameRegisters(j)) \in Lines
    BY <2>1 DEF Lines, NameLines
  <2>3. out' \in Seq(Lines)
    BY <1>3, <1>11, <2>2 DEF Name
  <2>4. j' \in 2 .. 5
    BY <2>1
  <2> QED BY <1>1, <1>2, <1>3, <1>4, <2>1, <2>3, <2>4 DEF CpuInv
<1>12. CASE AfterName
  <2>1. stage = "name" /\ eax = cpu.signature /\ stage' = "done" /\ j' = j
    BY <1>3, <1>12 DEF AfterName
  <2>2. out' \in Seq(Lines)
    <3> DEFINE s == IF cpu.sensor THEN << <<"sensor", 0>> >> ELSE <<>>
    <3>1. s \in Seq(Lines)
      BY DEF Lines, OtherLines, FieldLines, TableLines, NameLines
    <3>2. (out' = (out \o s) \o LastLine) \/ out' = out \o LastLine
      BY <1>12 DEF AfterName
    <3> HIDE DEF s
    <3>3. LastLine \in Seq(Lines)
      BY <1>6, <2>1
    <3>4. (out \o s) \o LastLine \in Seq(Lines) /\ out \o LastLine \in Seq(Lines)
      BY <1>3, <1>5, <3>1, <3>3
    <3> QED BY <3>2, <3>4
  <2> QED BY <1>1, <1>2, <1>3, <1>4, <2>1, <2>2 DEF CpuInv
<1>13. CASE UNCHANGED cpuVars
  <2>1. stage' = stage /\ j' = j /\ eax' = eax /\ out' = out
    BY <1>13 DEF cpuVars
  <2> QED BY <1>1, <1>2, <1>3, <1>4, <2>1 DEF CpuInv
<1> QED BY <1>8, <1>9, <1>10, <1>11, <1>12, <1>13 DEF CpuNext, Reported

LEMMA CpuInvariant ==
  CpuSpec => []CpuInv
<1>1. CpuInit => CpuInv
  BY DEF CpuInit, CpuInv
<1>2. CpuInv /\ [CpuNext]_cpuVars => CpuInv'
  BY CpuNextKeepsInv
<1> QED BY <1>1, <1>2, PTL DEF CpuSpec

\* What is printed under a label is a line of that label.
LEMMA PrintedLine ==
  ASSUME out \in Seq(Lines), NEW label, NEW x \in Printed(label)
  PROVE  \E o \in Lines : o # <<>> /\ o[1] = label /\ o[2] = x
<1>1. PICK k \in DOMAIN out : out[k] # <<>> /\ out[k][1] = label /\ out[k][2] = x
  BY DEF Printed
<1>2. out[k] \in Lines
  OBVIOUS
<1> QED BY <1>1, <1>2

\* The lines of the tables and the pieces of the name have labels of their own.
LEMMA TableAndNameLabels ==
  /\ \A o \in TableLines : o[1] \in {"Intel", "Intel_Other"} /\ o[2] \in 0 .. TableLength - 1
  /\ \A o \in NameLines : o[1] = "name"
<1>1. ASSUME NEW o \in TableLines
      PROVE  o[1] \in {"Intel", "Intel_Other"} /\ o[2] \in 0 .. TableLength - 1
  <2> DEFINE r == 0 .. TableLength - 1
  <2> HIDE DEF r
  <2>1. PICK t \in {"Intel", "Intel_Other"}, b \in r : o = <<t, b>>
    BY DEF TableLines, r
  <2>2. o[1] = t /\ o[2] = b
    BY <2>1
  <2> QED BY <2>2 DEF r
<1>2. \A o \in NameLines : o[1] = "name"
  BY DEF NameLines, printregs
<1> QED BY <1>1, <1>2

\* The tables are read inside their bounds, for every brand index a processor gives.
THEOREM BrandAlwaysInTable ==
  CpuSpec => []BrandIsInTable
<1>1. ASSUME CpuInv PROVE BrandIsInTable
  <2>1. SUFFICES ASSUME NEW label \in {"Intel", "Intel_Other"}, NEW x \in Printed(label)
        PROVE  x \in 0 .. TableLength - 1
    BY DEF BrandIsInTable
  <2>2. PICK o \in Lines : o # <<>> /\ o[1] = label /\ o[2] = x
    BY <1>1, PrintedLine DEF CpuInv
  <2>3. o \notin FieldLines
    BY <2>2 DEF FieldLines
  <2>4. o \notin NameLines
    BY <2>2, TableAndNameLabels
  <2>5. o \in TableLines
    BY <2>3, <2>4 DEF Lines, OtherLines
  <2> QED BY <2>2, <2>5, TableAndNameLabels
<1> QED BY <1>1, CpuInvariant, PTL

\* One line for each field.
LEMMA OneLineEach ==
  ASSUME CpuInv
  PROVE  LET sig == cpu.signature
         IN /\ \A x \in Printed("stepping") : x = Stepping(sig)
            /\ \A x \in Printed("model") : x = Model(sig)
            /\ \A x \in Printed("family") : x = Family(sig)
            /\ \A x \in Printed("type") : x = Bits(sig, 12, 2)
            /\ \A x \in Printed("reserved") :
                 x = IF Intel THEN IntelReserved(sig) ELSE AmdReserved(sig)
            /\ \A x \in Printed("extended_family") : Family(sig) = 15 /\ x = Bits(sig, 20, 8)
<1> DEFINE sig == cpu.signature
           r == IF Intel THEN IntelReserved(sig) ELSE AmdReserved(sig)
<1>1. \A label : \A x \in Printed(label) : \E o \in Lines : o # <<>> /\ o[1] = label /\ o[2] = x
  BY PrintedLine DEF CpuInv
<1>2. \A o \in TableLines \cup NameLines :
        o[1] \notin {"stepping", "model", "family", "type", "reserved", "extended_family"}
  <2>1. \A o \in TableLines \cup NameLines : o[1] \in {"Intel", "Intel_Other", "name"}
    BY TableAndNameLabels
  <2> QED BY <2>1
<1>3. ASSUME NEW o \in FieldLines, o # <<>>
      PROVE  /\ o[1] = "stepping" => o[2] = Stepping(sig)
             /\ o[1] = "model" => o[2] = Model(sig)
             /\ o[1] = "family" => o[2] = Family(sig)
             /\ o[1] = "type" => o[2] = Bits(sig, 12, 2)
             /\ o[1] = "reserved" => o[2] = r
             /\ o[1] = "extended_family" => Family(sig) = 15 /\ o[2] = Bits(sig, 20, 8)
  BY <1>3 DEF FieldLines
<1> HIDE DEF r, sig
<1>4. \A o \in Lines : o \in FieldLines \/ o \in TableLines \cup NameLines
  BY DEF Lines, OtherLines
<1>5. \A x \in Printed("stepping") : x = Stepping(sig)
  BY <1>1, <1>2, <1>3, <1>4
<1>6. \A x \in Printed("model") : x = Model(sig)
  BY <1>1, <1>2, <1>3, <1>4
<1>7. \A x \in Printed("family") : x = Family(sig)
  BY <1>1, <1>2, <1>3, <1>4
<1>8. \A x \in Printed("type") : x = Bits(sig, 12, 2)
  BY <1>1, <1>2, <1>3, <1>4
<1>9. \A x \in Printed("reserved") : x = r
  BY <1>1, <1>2, <1>3, <1>4
<1>10. \A x \in Printed("extended_family") : Family(sig) = 15 /\ x = Bits(sig, 20, 8)
  BY <1>1, <1>2, <1>3, <1>4
<1> QED BY <1>5, <1>6, <1>7, <1>8, <1>9, <1>10 DEF r, sig

\* The number that the fields make up.
LEMMA SignatureFields ==
  ASSUME NEW v \in Nat
  PROVE  /\ v = Stepping(v) + 16 * Model(v) + 256 * Family(v) + 4096 * Bits(v, 12, 2)
                + 16384 * IntelReserved(v)
         /\ v = Stepping(v) + 16 * Model(v) + 256 * Family(v) + 4096 * AmdReserved(v)
         /\ Bits(v, 20, 8) = (IntelReserved(v) \div 64) % 256
BY DEF Stepping, Model, Family, Bits, IntelReserved, AmdReserved

\* For every signature the fields that are printed are all of it, and the extended
\* family is part of what is printed as reserved.
THEOREM SignatureAlwaysDecoded ==
  CpuSpec => []SignatureIsDecoded
<1>1. ASSUME CpuInv PROVE SignatureIsDecoded
  <2>1. cpu.signature \in Nat
    BY <1>1, CpuNumbers DEF CpuInv
  <2>2. SUFFICES ASSUME NEW s \in Printed("stepping"), NEW r \in Printed("reserved"),
                        NEW m \in Printed("model"), NEW f \in Printed("family")
        PROVE  /\ Intel  => /\ \A t \in Printed("type") :
                                 cpu.signature = s + 16 * m + 256 * f + 4096 * t + 16384 * r
                            /\ \A x \in Printed("extended_family") :
                                 f = 15 /\ x = (r \div 64) % 256
               /\ ~Intel => cpu.signature = s + 16 * m + 256 * f + 4096 * r
    BY DEF SignatureIsDecoded
  <2> DEFINE v == cpu.signature
  <2>3. /\ s = Stepping(v) /\ m = Model(v) /\ f = Family(v)
        /\ r = IF Intel THEN IntelReserved(v) ELSE AmdReserved(v)
        /\ \A t \in Printed("type") : t = Bits(v, 12, 2)
        /\ \A x \in Printed("extended_family") : Family(v) = 15 /\ x = Bits(v, 20, 8)
    BY <1>1, OneLineEach
  <2> HIDE DEF v
  <2>4. /\ v = Stepping(v) + 16 * Model(v) + 256 * Family(v) + 4096 * Bits(v, 12, 2)
               + 16384 * IntelReserved(v)
        /\ v = Stepping(v) + 16 * Model(v) + 256 * Family(v) + 4096 * AmdReserved(v)
        /\ Bits(v, 20, 8) = (IntelReserved(v) \div 64) % 256
    BY <2>1, SignatureFields DEF v
  <2>5. CASE Intel
    BY <2>3, <2>4, <2>5 DEF v
  <2>6. CASE ~Intel
    BY <2>3, <2>4, <2>6 DEF v
  <2> QED BY <2>5, <2>6
<1> QED BY <1>1, CpuInvariant, PTL

-----------------------------------------------------------------------------
(* The processor's name.                                                   *)

\* A set of natural numbers that is not empty has a least member.
Below == {p \in Nat \X Nat : p[1] < p[2]}

LEMMA BelowIsWellFounded == IsWellFoundedOn(Below, Nat)
BY NatLessThanWellFounded DEF OpToRel, Below

LEMMA LeastMember ==
  ASSUME NEW S \in SUBSET Nat, NEW s \in S
  PROVE  \E x \in S : \A y \in S : x <= y
<1>1. \E x \in S : \A y \in S : <<y, x>> \notin Below
  BY BelowIsWellFounded, WFMin, S # {}
<1>2. ASSUME NEW a \in Nat, NEW b \in Nat, <<a, b>> \notin Below PROVE b <= a
  <2>1. <<a, b>>[1] = a /\ <<a, b>>[2] = b /\ <<a, b>> \in Nat \X Nat
    OBVIOUS
  <2> QED BY <1>2, <2>1 DEF Below
<1> QED BY <1>1, <1>2

\* s holds l characters before its first NUL.
EndsAt(s, l) ==
  /\ l \in Nat /\ l < Len(s) /\ s[l + 1] = Nul
  /\ \A k \in 1 .. l : s[k] # Nul

LEMMA UpToFirstNul ==
  ASSUME NEW S, NEW s \in Seq(S), NEW l, EndsAt(s, l)
  PROVE  UpToNul(s) = SubSeq(s, 1, l)
<1> DEFINE T == {k \in DOMAIN s : s[k] = Nul}
<1>1. l \in Nat /\ l < Len(s) /\ s[l + 1] = Nul /\ \A k \in 1 .. l : s[k] # Nul
  BY DEF EndsAt
<1>2. DOMAIN s = 1 .. Len(s) /\ Len(s) \in Nat
  OBVIOUS
<1>3. l + 1 \in T
  BY <1>1, <1>2
<1>4. \A k \in T : k \in Nat /\ l + 1 <= k
  BY <1>1, <1>2
<1> HIDE DEF T
<1>5. Min(T) = l + 1
  <2>1. Min(T) \in T /\ \A k \in T : Min(T) <= k
    BY <1>3, <1>4, <1>1 DEF Min
  <2> QED BY <2>1, <1>1, <1>3, <1>4
<1>6. Min(T) - 1 = l
  BY <1>1, <1>5
<1> QED BY <1>6 DEF UpToNul, T

\* A name has a length.
HasLength(name, l) ==
  /\ l \in 0 .. 48
  /\ \A k \in 1 .. 48 : name[k] = Nul <=> l < k

LEMMA NameHasLength ==
  ASSUME NEW c \in Cpus
  PROVE  \E l : HasLength(c.name, l)
<1> DEFINE nm == c.name
           S == {k \in 1 .. 49 : k = 49 \/ nm[k] = Nul}
<1>1. \A k \in 1 .. 47 : nm[k] = Nul => nm[k + 1] = Nul
  BY NameAssumption
<1> HIDE DEF nm
<1>2. 49 \in S /\ S \in SUBSET Nat
  OBVIOUS
<1>3. PICK x \in S : \A y \in S : x <= y
  BY <1>2, LeastMember
<1>4. x \in 1 .. 49 /\ (x = 49 \/ nm[x] = Nul)
  BY <1>3
<1> DEFINE T == {k \in x .. 48 : nm[k] # Nul}
<1>5. T = {}
  <2> SUFFICES ASSUME NEW t \in T PROVE FALSE
    OBVIOUS
  <2>1. T \in SUBSET Nat
    BY <1>4
  <2>2. PICK y \in T : \A z \in T : y <= z
    BY <2>1, LeastMember
  <2>3. y \in x .. 48 /\ nm[y] # Nul /\ y # x
    BY <1>4, <2>2
  <2>4. y - 1 \in x .. 48 /\ y - 1 \in 1 .. 47 /\ y - 1 < y /\ (y - 1) + 1 = y
    BY <1>4, <2>3
  <2>5. y - 1 \notin T
    BY <2>2, <2>4
  <2>6. nm[y - 1] = Nul
    BY <2>4, <2>5
  <2> QED BY <1>1, <2>3, <2>4, <2>6
<1>6. ASSUME NEW k \in 1 .. 48 PROVE nm[k] = Nul <=> x - 1 < k
  <2>1. CASE k < x
    BY <1>3, <1>4, <2>1
  <2>2. CASE x <= k
    BY <1>4, <1>5, <2>2
  <2> QED BY <1>4, <2>1, <2>2
<1>7. x - 1 \in 0 .. 48
  BY <1>4
<1>8. HasLength(nm, x - 1)
  BY <1>6, <1>7 DEF HasLength
<1> QED BY <1>8 DEF nm

LEMMA Division ==
  ASSUME NEW d \in Nat \ {0}, NEW q \in Nat, NEW r \in Nat, r < d, NEW w, w = (d * q) + r
  PROVE  w \div d = q /\ w % d = r
<1> DEFINE p == w \div d
           e == w % d
<1>1. d * q \in Nat /\ w \in Nat
  OBVIOUS
<1>2. w = (d * p) + e /\ p \in Nat /\ e \in 0 .. d - 1
  BY <1>1
<1> HIDE DEF p, e
<1>3. ASSUME NEW x \in Nat, NEW y \in Nat, x < y PROVE (d * x) + d <= d * y
  <2>1. y - x - 1 \in Nat /\ y = x + 1 + (y - x - 1)
    BY <1>3
  <2>2. d * y = (d * x) + d + (d * (y - x - 1))
    BY <2>1
  <2>3. d * (y - x - 1) \in Nat /\ d * x \in Nat /\ d * y \in Nat
    BY <2>1
  <2> QED BY <2>2, <2>3
<1>4. d * p \in Nat
  BY <1>2
<1>5. ~ (p < q)
  BY <1>1, <1>2, <1>3, <1>4
<1>6. ~ (q < p)
  BY <1>1, <1>2, <1>3, <1>4
<1>7. p = q
  BY <1>2, <1>5, <1>6
<1>8. e = r
  BY <1>1, <1>2, <1>7
<1> QED BY <1>7, <1>8 DEF p, e

\* A number of four characters; d and e are what the third and the fourth count.
HasBytes(v, d, e, b0, b1, b2, b3) ==
  /\ b0 \in 0 .. 127 /\ b1 \in 0 .. 127 /\ b2 \in 0 .. 127 /\ b3 \in 0 .. 127
  /\ d = 256 * 256 /\ e = 256 * d
  /\ v = b0 + (256 * b1) + (d * b2) + (e * b3)

LEMMA BytesOfNumber ==
  ASSUME NEW v, NEW d, NEW e, NEW b0, NEW b1, NEW b2, NEW b3, HasBytes(v, d, e, b0, b1, b2, b3)
  PROVE  /\ (v \div 1) % 256 = b0
         /\ (v \div 256) % 256 = b1
         /\ (v \div d) % 256 = b2
         /\ (v \div e) % 256 = b3
<1> USE DEF HasBytes
<1> DEFINE r2 == (256 * b1) + b0
           r3 == (256 * ((256 * b2) + b1)) + b0
           q2 == (256 * b3) + b2
           q1 == (256 * q2) + b1
<1>1. /\ 256 \in Nat \ {0} /\ d \in Nat \ {0} /\ e \in Nat \ {0}
      /\ b0 \in Nat /\ b1 \in Nat /\ b2 \in Nat /\ b3 \in Nat
  OBVIOUS
<1>2. b0 < 256 /\ b1 < 256 /\ b2 < 256
  OBVIOUS
<1>3. r2 < d
  BY <1>1, <1>2
<1>4. r3 < e
  BY <1>1, <1>2
<1>5. q2 \in Nat /\ q1 \in Nat /\ r2 \in Nat /\ r3 \in Nat
  BY <1>1
<1>6. v = (256 * q1) + b0
  BY <1>1
<1>7. v = (d * q2) + r2
  BY <1>1
<1>8. v = (e * b3) + r3
  BY <1>1
<1>9. q1 = (256 * q2) + b1 /\ q2 = (256 * b3) + b2
  OBVIOUS
<1> HIDE DEF q1, q2, r2, r3
<1>10. v \div 256 = q1 /\ v % 256 = b0
  BY <1>1, <1>2, <1>5, <1>6, Division
<1>11. q1 % 256 = b1
  BY <1>1, <1>2, <1>5, <1>9, Division
<1>12. v \div d = q2
  BY <1>1, <1>3, <1>5, <1>7, Division
<1>13. q2 % 256 = b2
  BY <1>1, <1>2, <1>9, Division
<1>14. v \div e = b3
  BY <1>1, <1>4, <1>5, <1>8, Division
<1>15. b3 % 256 = b3
  OBVIOUS
<1>16. v \div 1 = v
  BY <1>1, <1>5, <1>6
<1> QED BY <1>10, <1>11, <1>12, <1>13, <1>14, <1>15, <1>16

\* The number of a register, and the bytes that are taken from it.
LEMMA BytesOfRegister ==
  ASSUME cpu \in Cpus, NEW leaf \in 2 .. 4, NEW r \in 1 .. 4, NEW b \in 0 .. 3
  PROVE  (NameRegisters(leaf)[r] \div 2^(8 * b)) % 256
           = cpu.name[16 * (leaf - 2) + 4 * (r - 1) + b + 1]
<1> DEFINE at == 16 * (leaf - 2) + 4 * (r - 1)
           nm == cpu.name
           v  == NameRegisters(leaf)[r]
           a  == 2^8
           d  == 2^16
           e  == 2^24
<1>1. at \in 0 .. 44
  OBVIOUS
<1>2. v = nm[at + 0 + 1] + (a * nm[at + 1 + 1]) + (d * nm[at + 2 + 1]) + (e * nm[at + 3 + 1])
  BY DEF NameRegisters
<1>3. nm \in [1 .. 48 -> 0 .. 127]
  BY NameAssumption
<1>4. 2^0 = 1 /\ a = 256
  OBVIOUS
<1>5. d = 256 * 256
  OBVIOUS
<1>6. e = 256 * d
  OBVIOUS
<1> HIDE DEF at, nm, v, a, d, e
<1>7. at + 0 + 1 = at + 1 /\ at + 1 + 1 = at + 2 /\ at + 2 + 1 = at + 3 /\ at + 3 + 1 = at + 4
  BY <1>1
<1> DEFINE b0 == nm[at + 1]
           b1 == nm[at + 2]
           b2 == nm[at + 3]
           b3 == nm[at + 4]
<1>8. b0 \in 0 .. 127 /\ b1 \in 0 .. 127 /\ b2 \in 0 .. 127 /\ b3 \in 0 .. 127
  BY <1>1, <1>3
<1>9. v = b0 + (256 * b1) + (d * b2) + (e * b3)
  BY <1>2, <1>4, <1>7
<1> HIDE DEF b0, b1, b2, b3
<1>10. /\ (v \div 1) % 256 = b0 /\ (v \div 256) % 256 = b1
       /\ (v \div d) % 256 = b2 /\ (v \div e) % 256 = b3
  <2>1. HasBytes(v, d, e, b0, b1, b2, b3)
    BY <1>5, <1>6, <1>8, <1>9 DEF HasBytes
  <2> QED BY <2>1, BytesOfNumber
<1>11. ASSUME NEW x, 8 * b = x PROVE 2^(8 * b) = 2^x
  BY <1>11
<1>12. (v \div 2^(8 * b)) % 256 = nm[at + b + 1]
  <2>1. CASE b = 0
    <3>1. 8 * b = 0 /\ at + b + 1 = at + 1
      BY <1>1, <2>1
    <3>2. 2^(8 * b) = 1
      BY <1>4, <1>11, <3>1
    <3> QED BY <1>10, <3>1, <3>2 DEF b0
  <2>2. CASE b = 1
    <3>1. 8 * b = 8 /\ at + b + 1 = at + 2
      BY <1>1, <2>2
    <3>2. 2^(8 * b) = 256
      BY <1>4, <1>11, <3>1 DEF a
    <3> QED BY <1>10, <3>1, <3>2 DEF b1
  <2>3. CASE b = 2
    <3>1. 8 * b = 16 /\ at + b + 1 = at + 3
      BY <1>1, <2>3
    <3>2. 2^(8 * b) = d
      BY <1>11, <3>1 DEF d
    <3> QED BY <1>10, <3>1, <3>2 DEF b2
  <2>4. CASE b = 3
    <3>1. 8 * b = 24 /\ at + b + 1 = at + 4
      BY <1>1, <2>4
    <3>2. 2^(8 * b) = e
      BY <1>11, <3>1 DEF e
    <3> QED BY <1>10, <3>1, <3>2 DEF b3
  <2> QED BY <2>1, <2>2, <2>3, <2>4
<1> QED BY <1>12 DEF at, nm, v

\* How much of a name of length l is in the sixteen characters from o on.
Held(l, o) == IF l <= o THEN 0 ELSE IF l <= o + 16 THEN l - o ELSE 16

Part(l, o) == [k \in 1 .. Held(l, o) |-> cpu.name[o + k]]

\* A piece has the characters of its leaf that are part of the name.
LEMMA PieceOfName ==
  ASSUME cpu \in Cpus, NEW l, HasLength(cpu.name, l), NEW leaf \in 2 .. 4
  PROVE  printregs(NameRegisters(leaf)) = <<"name", Part(l, 16 * (leaf - 2))>>
<1> DEFINE regs == NameRegisters(leaf)
           s    == StringOf(regs)
           nm   == cpu.name
           o    == 16 * (leaf - 2)
           h    == Held(l, o)
<1>1. /\ nm \in [1 .. 48 -> 0 .. 127] /\ l \in 0 .. 48
      /\ \A k \in 1 .. 48 : nm[k] = Nul <=> l < k
  BY NameAssumption DEF HasLength
<1>2. o \in {0, 16, 32} /\ h \in 0 .. 16
  <2>1. leaf = 2 \/ leaf = 3 \/ leaf = 4
    OBVIOUS
  <2>2. o \in {0, 16, 32}
    BY <2>1
  <2> HIDE DEF o, nm
  <2>3. l \in Int /\ 0 <= l
    BY <1>1
  <2>4. l <= o \/ (o < l /\ l <= o + 16) \/ o + 16 < l
    BY <2>2, <2>3
  <2>5. h \in 0 .. 16
    BY <2>2, <2>3, <2>4 DEF Held
  <2> QED BY <2>2, <2>5
<1>3. ASSUME NEW k \in 1 .. 16 PROVE s[k] = nm[o + k]
  <2> DEFINE r == ((k - 1) \div 4) + 1
             b == (k - 1) % 4
  <2>1. r \in 1 .. 4 /\ b \in 0 .. 3 /\ k = 4 * (r - 1) + b + 1
    OBVIOUS
  <2>2. s[k] = (regs[r] \div 2^(8 * b)) % 256
    <3>1. k \in 1 .. 17 /\ k # 17
      OBVIOUS
    <3> QED BY <3>1 DEF StringOf
  <2> HIDE DEF r, b
  <2>3. (regs[r] \div 2^(8 * b)) % 256 = nm[o + 4 * (r - 1) + b + 1]
    BY <2>1, BytesOfRegister
  <2>4. o + 4 * (r - 1) + b + 1 = o + k
    BY <1>2, <2>1
  <2> QED BY <2>2, <2>3, <2>4
<1>4. s[17] = Nul /\ DOMAIN s = 1 .. 17
  BY DEF StringOf
<1>5. s = [k \in 1 .. 17 |-> s[k]]
  BY DEF StringOf
<1> HIDE DEF s, nm, o, h, regs
<1>6. s \in [1 .. 17 -> 0 .. 127]
  <2>1. ASSUME NEW k \in 1 .. 17 PROVE s[k] \in 0 .. 127
    <3>1. CASE k = 17
      BY <1>4, <3>1 DEF Nul
    <3>2. CASE k # 17
      <4>1. k \in 1 .. 16 /\ o + k \in 1 .. 48
        BY <1>2, <3>2
      <4> QED BY <1>1, <1>3, <4>1
    <3> QED BY <3>1, <3>2
  <2> QED BY <1>5, <2>1
<1>7. s \in Seq(0 .. 127) /\ Len(s) = 17
  <2>1. \A k \in 1 .. 17 : s[k] \in 0 .. 127
    BY <1>6
  <2>2. [k \in 1 .. 17 |-> s[k]] \in Seq(0 .. 127) /\ Len([k \in 1 .. 17 |-> s[k]]) = 17
    BY <2>1
  <2> QED BY <1>5, <2>2
<1>8. EndsAt(s, h)
  <2>1. h = IF l <= o THEN 0 ELSE IF l <= o + 16 THEN l - o ELSE 16
    BY DEF h, Held
  <2>2. s[h + 1] = Nul
    <3>1. CASE h = 16
      BY <1>4, <3>1
    <3>2. CASE h # 16
      <4>1. h + 1 \in 1 .. 16 /\ o + (h + 1) \in 1 .. 48 /\ l < o + (h + 1)
        BY <1>1, <1>2, <2>1, <3>2
      <4> QED BY <1>1, <1>3, <4>1
    <3> QED BY <3>1, <3>2
  <2>3. ASSUME NEW k \in 1 .. h PROVE s[k] # Nul
    <3>1. k \in 1 .. 16 /\ o + k \in 1 .. 48 /\ ~ (l < o + k)
      BY <1>1, <1>2, <2>1
    <3> QED BY <1>1, <1>3, <3>1
  <2> QED BY <1>2, <1>7, <2>2, <2>3 DEF EndsAt
<1>9. UpToNul(s) = SubSeq(s, 1, h)
  BY <1>7, <1>8, UpToFirstNul
<1>10. SubSeq(s, 1, h) = [k \in 1 .. h |-> s[k]]
  BY <1>2, <1>7
<1>11. \A k \in 1 .. h : s[k] = nm[o + k]
  <2>1. \A k \in 1 .. h : k \in 1 .. 16
    BY <1>2
  <2> QED BY <1>3, <2>1
<1>12. UpToNul(s) = [k \in 1 .. h |-> nm[o + k]]
  BY <1>9, <1>10, <1>11
<1> QED BY <1>12 DEF printregs, Part, s, nm, o, h, regs

LEMMA Concatenation ==
  ASSUME NEW S, NEW x \in Seq(S), NEW y \in Seq(S)
  PROVE  /\ x \o y \in Seq(S) /\ Len(x \o y) = Len(x) + Len(y)
         /\ \A k \in 1 .. Len(x) + Len(y) :
              (x \o y)[k] = IF k <= Len(x) THEN x[k] ELSE y[k - Len(x)]
BY ConcatProperties

\* The three parts are the name.
LEMMA PartsAreName ==
  ASSUME cpu \in Cpus, NEW l, HasLength(cpu.name, l)
  PROVE  (Part(l, 0) \o Part(l, 16)) \o Part(l, 32) = UpToNul(Append(cpu.name, Nul))
<1> DEFINE nm == cpu.name
           C  == 0 .. 127
           w  == Append(nm, Nul)
           g  == [k \in 1 .. l |-> nm[k]]
<1>1. /\ nm \in [1 .. 48 -> C] /\ l \in 0 .. 48
      /\ \A k \in 1 .. 48 : nm[k] = Nul <=> l < k
  BY NameAssumption DEF HasLength
<1> HIDE DEF nm
<1>2. g \in Seq(C) /\ Len(g) = l /\ \A k \in 1 .. l : g[k] = nm[k]
  <2> HIDE DEF C
  <2>1. l \in Nat /\ l <= 48
    BY <1>1
  <2>2. \A k \in 1 .. l : k \in 1 .. 48
    BY <2>1
  <2>3. \A k \in 1 .. l : nm[k] \in C
    BY <1>1, <2>2
  <2>4. g \in [1 .. l -> C]
    BY <2>3
  <2>5. g \in Seq(C) /\ Len(g) = l
    BY <2>1, <2>4
  <2> QED BY <2>5
<1>3. UpToNul(w) = g
  <2>1. Nul \in C
    BY DEF Nul
  <2> HIDE DEF C
  <2>2. nm \in Seq(C) /\ Len(nm) = 48
    <3>1. nm = [k \in 1 .. 48 |-> nm[k]] /\ \A k \in 1 .. 48 : nm[k] \in C
      BY <1>1
    <3>2. [k \in 1 .. 48 |-> nm[k]] \in Seq(C) /\ Len([k \in 1 .. 48 |-> nm[k]]) = 48
      BY <3>1
    <3> QED BY <3>1, <3>2
  <2>3. w \in Seq(C) /\ Len(w) = Len(nm) + 1
    <3>1. nm \in Seq(C)
      BY <2>2
    <3>2. Append(nm, Nul) \in Seq(C)
      BY <2>1, <3>1, AppendProperties
    <3>3. Len(Append(nm, Nul)) = Len(nm) + 1
      BY <2>1, <3>1, AppendProperties
    <3> QED BY <3>2, <3>3
  <2>4. w[Len(nm) + 1] = Nul
    <3>1. nm \in Seq(C)
      BY <2>2
    <3> QED BY <2>1, <3>1, AppendProperties
  <2>5. \A k \in 1 .. Len(nm) : w[k] = nm[k]
    <3>1. nm \in Seq(C)
      BY <2>2
    <3> QED BY <2>1, <3>1, AppendProperties
  <2> HIDE DEF w
  <2>6. w[l + 1] = Nul
    <3>1. CASE l = 48
      BY <2>2, <2>4, <3>1
    <3>2. CASE l # 48
      <4>1. l + 1 \in 1 .. 48 /\ l < l + 1
        BY <1>1, <3>2
      <4> QED BY <1>1, <2>2, <2>5, <4>1
    <3> QED BY <3>1, <3>2
  <2>7. ASSUME NEW k \in 1 .. l PROVE w[k] # Nul /\ w[k] = nm[k]
    <3>1. k \in 1 .. 48 /\ ~ (l < k)
      BY <1>1
    <3> QED BY <1>1, <2>2, <2>5, <3>1
  <2>8. EndsAt(w, l)
    <3>1. Len(w) = 49
      BY <2>2, <2>3
    <3>2. l \in Nat /\ l < Len(w)
      BY <1>1, <3>1
    <3> QED BY <2>6, <2>7, <3>2 DEF EndsAt
  <2>9. UpToNul(w) = SubSeq(w, 1, l)
    BY <2>3, <2>8, UpToFirstNul
  <2>10. SubSeq(w, 1, l) = [k \in 1 .. l |-> w[k]]
    BY <1>1, <2>2, <2>3
  <2> QED BY <2>7, <2>9, <2>10
<1>4. ASSUME NEW o \in {0, 16, 32}
      PROVE  /\ Part(l, o) \in Seq(C) /\ Len(Part(l, o)) = Held(l, o)
             /\ \A k \in 1 .. Held(l, o) : Part(l, o)[k] = nm[o + k]
             /\ Held(l, o) \in 0 .. 16
  <2>1. Held(l, o) \in 0 .. 16
    BY <1>1 DEF Held
  <2> DEFINE h == Held(l, o)
             p == Part(l, o)
  <2>2. p = [k \in 1 .. h |-> nm[o + k]]
    BY DEF Part, nm
  <2> HIDE DEF h, p
  <2>3. \A k \in 1 .. h : o + k \in 1 .. 48
    BY <2>1 DEF h
  <2>4. \A k \in 1 .. h : nm[o + k] \in C
    BY <1>1, <2>3
  <2> HIDE DEF C
  <2>5. p \in [1 .. h -> C] /\ h \in Nat /\ \A k \in 1 .. h : p[k] = nm[o + k]
    BY <2>1, <2>2, <2>4 DEF h
  <2>6. p \in Seq(C) /\ Len(p) = h
    BY <2>5
  <2> QED BY <2>1, <2>5, <2>6 DEF h, p
<1> DEFINE x == Part(l, 0)
           y == Part(l, 16)
           z == Part(l, 32)
           f == (x \o y) \o z
<1>5. /\ x \in Seq(C) /\ Len(x) = Held(l, 0) /\ \A k \in 1 .. Len(x) : x[k] = nm[k]
      /\ y \in Seq(C) /\ Len(y) = Held(l, 16) /\ \A k \in 1 .. Len(y) : y[k] = nm[16 + k]
      /\ z \in Seq(C) /\ Len(z) = Held(l, 32) /\ \A k \in 1 .. Len(z) : z[k] = nm[32 + k]
  <2>1. \A k \in Nat : 0 + k = k
    OBVIOUS
  <2>2. Len(x) = Held(l, 0) /\ x \in Seq(C) /\ \A k \in 1 .. Len(x) : x[k] = nm[0 + k]
    BY <1>4
  <2>3. \A k \in 1 .. Len(x) : x[k] = nm[k]
    <3> HIDE DEF x
    <3> QED BY <2>1, <2>2
  <2>4. Len(y) = Held(l, 16) /\ y \in Seq(C) /\ \A k \in 1 .. Len(y) : y[k] = nm[16 + k]
    BY <1>4
  <2>5. Len(z) = Held(l, 32) /\ z \in Seq(C) /\ \A k \in 1 .. Len(z) : z[k] = nm[32 + k]
    BY <1>4
  <2> QED BY <2>2, <2>3, <2>4, <2>5
<1>6. /\ Len(x) = IF l <= 16 THEN l ELSE 16
      /\ Len(y) = IF l <= 16 THEN 0 ELSE IF l <= 32 THEN l - 16 ELSE 16
      /\ Len(z) = IF l <= 32 THEN 0 ELSE l - 32
  <2>1. Held(l, 0) = IF l <= 16 THEN l ELSE 16
    BY <1>1 DEF Held
  <2>2. Held(l, 16) = IF l <= 16 THEN 0 ELSE IF l <= 32 THEN l - 16 ELSE 16
    BY <1>1 DEF Held
  <2>3. Held(l, 32) = IF l <= 32 THEN 0 ELSE l - 32
    BY <1>1 DEF Held
  <2> QED BY <1>5, <2>1, <2>2, <2>3
<1> HIDE DEF x, y, z, C, g
<1>7. /\ x \o y \in Seq(C) /\ Len(x \o y) = Len(x) + Len(y)
      /\ \A k \in 1 .. Len(x) + Len(y) :
           (x \o y)[k] = IF k <= Len(x) THEN x[k] ELSE y[k - Len(x)]
  BY <1>5, Concatenation
<1> DEFINE v == x \o y
           lx == Len(x)
           lv == Len(v)
<1>8. /\ f \in Seq(C) /\ Len(f) = lv + Len(z)
      /\ \A k \in 1 .. lv + Len(z) :
           f[k] = IF k <= lv THEN v[k] ELSE z[k - lv]
  <2>1. v \in Seq(C) /\ f = v \o z
    BY <1>7
  <2> HIDE DEF f, v
  <2> QED BY <1>5, <2>1, Concatenation
<1>9. /\ lv = lx + Len(y)
      /\ \A k \in 1 .. lv : v[k] = IF k <= lx THEN x[k] ELSE y[k - lx]
  BY <1>7
<1> HIDE DEF f, v, lv
<1>10. /\ lx = IF l <= 16 THEN l ELSE 16
       /\ lv = IF l <= 32 THEN l ELSE 32
       /\ lv + Len(z) = l /\ l \in Nat
  <2>1. l \in Nat /\ l <= 48
    BY <1>1
  <2> QED BY <1>6, <1>9, <2>1
<1>11. ASSUME NEW k \in 1 .. l PROVE f[k] = nm[k]
  <2>0. f[k] = IF k <= lv THEN v[k] ELSE z[k - lv]
    BY <1>8, <1>10
  <2>1. CASE k <= lx
    <3>1. k \in 1 .. lv /\ k <= lv /\ k \in 1 .. Len(x)
      BY <1>10, <2>1
    <3> HIDE DEF lx
    <3>2. f[k] = v[k] /\ v[k] = x[k]
      BY <1>9, <2>0, <2>1, <3>1
    <3> QED BY <1>5, <3>1, <3>2
  <2>2. CASE ~ (k <= lx) /\ k <= lv
    <3>1. k \in 1 .. lv /\ k - lx \in 1 .. Len(y) /\ 16 + (k - lx) = k
      BY <1>6, <1>10, <2>2
    <3> HIDE DEF lx
    <3>2. f[k] = v[k] /\ v[k] = y[k - lx]
      BY <1>9, <2>0, <2>2, <3>1
    <3> QED BY <1>5, <3>1, <3>2
  <2>3. CASE ~ (k <= lv)
    <3>1. k - lv \in 1 .. Len(z) /\ 32 + (k - lv) = k
      BY <1>6, <1>10, <2>3
    <3> QED BY <1>5, <2>0, <2>3, <3>1
  <2> QED BY <2>1, <2>2, <2>3
<1>12. Len(f) = l
  BY <1>8, <1>10
<1>13. f = g
  BY <1>2, <1>8, <1>11, <1>12, SeqEqual
<1> QED BY <1>3, <1>13 DEF f, x, y, z, nm, g

\* The first n pieces of the name.
Pieces(n) == [k \in 1 .. n |-> printregs(NameRegisters(k + 1))]

\* The name stands in the report as far as it has been read, and what is printed
\* before it and after it is something else.
NamePrinted ==
  /\ stage \in {"vendor", "signature", "max"} => j = 2 /\ out \in Seq(OtherLines)
  /\ stage = "name" => \E a \in Seq(OtherLines) : out = a \o Pieces(j - 2)
  /\ stage = "done" /\ cpu.vendor \in {"Genu", "Auth"} /\ cpu.max >= 4 =>
       \E a, z \in Seq(OtherLines) : out = (a \o Pieces(3)) \o z

LEMMA NextPiece ==
  ASSUME NEW S, NEW a \in Seq(S), NEW n \in 0 .. 2
  PROVE  Append(a \o Pieces(n), printregs(NameRegisters(n + 2))) = a \o Pieces(n + 1)
<1> DEFINE T    == S \cup {printregs(NameRegisters(k)) : k \in 2 .. 4}
           F(k) == printregs(NameRegisters(k + 1))
           p    == Pieces(n)
           q    == Pieces(n + 1)
           e    == F(n + 1)
<1>1. \A k \in 1 .. n + 1 : F(k) \in T
  <2>1. \A k \in 1 .. n + 1 : k + 1 \in 2 .. 4
    OBVIOUS
  <2> QED BY <2>1
<1>2. p = [k \in 1 .. n |-> F(k)] /\ q = [k \in 1 .. n + 1 |-> F(k)]
  BY DEF Pieces
<1>3. a \in Seq(T)
  OBVIOUS
<1>4. n + 1 \in 1 .. n + 1 /\ (n + 1) + 1 = n + 2
  OBVIOUS
<1>5. e \in T /\ e = printregs(NameRegisters(n + 2))
  BY <1>1, <1>4
<1> HIDE DEF T, F, p, q
<1>6. p \in Seq(T) /\ Len(p) = n /\ \A k \in 1 .. n : p[k] = F(k)
  BY <1>1, <1>2
<1>7. q \in Seq(T) /\ Len(q) = n + 1 /\ \A k \in 1 .. n + 1 : q[k] = F(k)
  BY <1>1, <1>2
<1> HIDE DEF e
<1>8. Append(p, e) = q
  <2>1. p \in Seq(T)
    BY <1>6
  <2>2. Append(p, e) \in Seq(T)
    BY <1>5, <2>1, AppendProperties
  <2>3. Len(Append(p, e)) = Len(p) + 1
    BY <1>5, <2>1, AppendProperties
  <2>4. Append(p, e)[Len(p) + 1] = e
    BY <1>5, <2>1, AppendProperties
  <2>5. \A k \in 1 .. Len(p) : Append(p, e)[k] = p[k]
    BY <1>5, <2>1, AppendProperties
  <2> DEFINE w == Append(p, e)
  <2> HIDE DEF w
  <2>6. \A k \in 1 .. Len(q) : w[k] = q[k]
    <3>1. w[n + 1] = q[n + 1]
      BY <1>6, <1>7, <2>4 DEF w, e
    <3>2. \A k \in 1 .. n : w[k] = q[k]
      BY <1>6, <1>7, <2>5 DEF w
    <3> QED BY <1>7, <3>1, <3>2
  <2>7. w \in Seq(T) /\ Len(w) = Len(q)
    BY <1>6, <1>7, <2>2, <2>3 DEF w
  <2>8. w = q
    BY <1>7, <2>6, <2>7, SeqEqual
  <2> QED BY <2>8 DEF w
<1>9. Append(a \o p, e) = a \o Append(p, e)
  <2>1. a \o p \in Seq(T) /\ <<e>> \in Seq(T) /\ p \in Seq(T)
    BY <1>3, <1>5, <1>6
  <2>2. Append(a \o p, e) = (a \o p) \o <<e>>
    BY <1>5, <2>1, AppendIsConcat
  <2>3. Append(p, e) = p \o <<e>>
    BY <1>5, <2>1, AppendIsConcat
  <2>4. (a \o p) \o <<e>> = a \o (p \o <<e>>)
    BY <1>3, <2>1, ConcatAssociative
  <2> QED BY <2>2, <2>3, <2>4
<1> QED BY <1>5, <1>8, <1>9 DEF p, q

LEMMA NamePrintedStep ==
  ASSUME CpuInv, NamePrinted, [CpuNext]_cpuVars
  PROVE  NamePrinted'
<1>1. cpu' = cpu
  BY DEF CpuNext, Vendor, Signature, MaxLeaf, Name, AfterName, Reported, cpuVars
<1>2. OtherLines' = OtherLines
  BY <1>1 DEF OtherLines, FieldLines, TableLines, Intel
<1>3. \A n, m : n = m => Pieces(n)' = Pieces(m)
  BY <1>1 DEF Pieces, NameRegisters
<1>4. /\ cpu \in Cpus /\ j \in 2 .. 5 /\ cpu.max \in Int
      /\ stage \in {"max", "name"} => eax = cpu.signature
      /\ stage = "name" /\ Intel => cpu.max >= 4
  BY CpuNumbers DEF CpuInv
<1>5. CASE Vendor
  <2>1. stage = "vendor" /\ stage' \in {"signature", "done"} /\ j' = j
    BY <1>5 DEF Vendor
  <2>2. stage' = "done" => cpu.vendor \notin {"Genu", "Auth"}
    BY <1>5 DEF Vendor
  <2>3. stage' = "signature" => out' = out
    BY <1>5 DEF Vendor
  <2>4. j = 2 /\ out \in Seq(OtherLines)
    BY <2>1 DEF NamePrinted
  <2> QED BY <1>1, <1>2, <2>1, <2>2, <2>3, <2>4 DEF NamePrinted
<1>6. CASE Signature
  <2>1. stage = "signature" /\ stage' = "max" /\ j' = j
    BY <1>6 DEF Signature
  <2>2. j = 2 /\ out \in Seq(OtherLines)
    BY <2>1 DEF NamePrinted
  <2>3. out' \in Seq(OtherLines)
    <3>1. eax' = cpu.signature /\ out' = out \o IF Intel THEN IntelLines(eax') ELSE AmdLines(eax')
      BY <1>6 DEF Signature
    <3>2. (IF Intel THEN IntelLines(eax') ELSE AmdLines(eax')) \in Seq(OtherLines)
      BY <3>1, IntelLinesListed, AmdLinesListed
    <3> QED BY <2>2, <3>1, <3>2
  <2> QED BY <1>1, <1>2, <2>1, <2>2, <2>3 DEF NamePrinted
<1>7. CASE MaxLeaf
  <2>1. stage = "max" /\ stage' \in {"name", "done"} /\ j' = j
    BY <1>7 DEF MaxLeaf
  <2>2. j = 2 /\ out \in Seq(OtherLines)
    BY <2>1 DEF NamePrinted
  <2>3. stage' = "done" => ~ (cpu.max >= 4)
    BY <1>4, <1>7 DEF MaxLeaf
  <2>4. stage' = "name" => out' = out
    BY <1>7 DEF MaxLeaf
  <2>5. out = out \o Pieces(2 - 2)
    <3>1. Pieces(2 - 2) = <<>>
      BY DEF Pieces
    <3> QED BY <2>2, <3>1
  <2>6. stage' = "name" => \E a \in Seq(OtherLines)' : out' = a \o Pieces(j - 2)'
    BY <1>2, <1>3, <2>1, <2>2, <2>4, <2>5
  <2> QED BY <1>1, <1>2, <2>1, <2>3, <2>6 DEF NamePrinted
<1>8. CASE Name
  <2>1. stage = "name" /\ stage' = "name" /\ j \in 2 .. 4 /\ j' = j + 1
        /\ (Intel => cpu.max >= j)
    BY <1>4, <1>8 DEF Name
  <2>2. out' = Append(out, printregs(NameRegisters(j)))
    BY <1>4, <1>8, <2>1 DEF Name
  <2>3. PICK a \in Seq(OtherLines) : out = a \o Pieces(j - 2)
    BY <2>1 DEF NamePrinted
  <2> DEFINE n == j - 2
  <2>4. n \in 0 .. 2 /\ n + 2 = j /\ j' - 2 = n + 1
    BY <2>1
  <2>5. out' = a \o Pieces(n + 1)
    <3>1. out' = Append(a \o Pieces(n), printregs(NameRegisters(n + 2)))
      BY <2>2, <2>3, <2>4
    <3> HIDE DEF n
    <3> QED BY <2>4, <3>1, NextPiece
  <2>6. out' = a \o Pieces(j - 2)'
    BY <1>3, <2>4, <2>5
  <2> QED BY <1>1, <1>2, <2>1, <2>6 DEF NamePrinted
<1>9. CASE AfterName
  <2>1. stage = "name" /\ stage' = "done" /\ j = 5 /\ eax = cpu.signature
    BY <1>4, <1>9 DEF AfterName
  <2>2. PICK a \in Seq(OtherLines) : out = a \o Pieces(5 - 2)
    BY <2>1 DEF NamePrinted
  <2>3. out = a \o Pieces(3)
    BY <2>2, 5 - 2 = 3
  <2> DEFINE s == IF cpu.sensor THEN << <<"sensor", 0>> >> ELSE <<>>
             z == IF ~Intel /\ SensorLeaf(cpu.max) THEN s \o LastLine ELSE LastLine
  <2>4. LastLine \in Seq(OtherLines) /\ s \in Seq(OtherLines)
    <3>1. s \in Seq(OtherLines)
      <4> DEFINE o == <<"sensor", 0>>
      <4>1. o \in OtherLines
        BY DEF OtherLines, FieldLines
      <4> HIDE DEF o
      <4>2. <<o>> \in Seq(OtherLines) /\ <<>> \in Seq(OtherLines)
        BY <4>1
      <4> QED BY <4>2 DEF o
    <3>2. LastLine \in Seq(OtherLines)
      BY <2>1, LastLineListed
    <3> QED BY <3>1, <3>2
  <2> HIDE DEF s
  <2>5. z \in Seq(OtherLines)
    BY <2>4
  <2>6. out' = out \o z
    <3>1. out \in Seq(Lines) /\ s \in Seq(Lines) /\ LastLine \in Seq(Lines)
      BY <2>4, OtherLinesAreLines DEF CpuInv
    <3>2. (out \o s) \o LastLine = out \o (s \o LastLine)
      BY <3>1, ConcatAssociative
    <3> QED BY <1>9, <3>2 DEF AfterName, s
  <2> HIDE DEF z
  <2>7. out' = (a \o Pieces(3)') \o z
    BY <1>3, <2>3, <2>6
  <2> QED BY <1>1, <1>2, <2>1, <2>5, <2>7 DEF NamePrinted
<1>10. CASE UNCHANGED cpuVars
  <2>1. stage' = stage /\ j' = j /\ out' = out
    BY <1>10 DEF cpuVars
  <2>2. Pieces(j - 2)' = Pieces(j - 2) /\ Pieces(3)' = Pieces(3)
    BY <1>1, <2>1 DEF Pieces, NameRegisters
  <2> QED BY <1>1, <1>2, <2>1, <2>2 DEF NamePrinted
<1> QED BY <1>5, <1>6, <1>7, <1>8, <1>9, <1>10 DEF CpuNext, Reported

LEMMA NameInvariant ==
  CpuSpec => [](CpuInv /\ NamePrinted)
<1>1. CpuInit => CpuInv /\ NamePrinted
  <2>1. CpuInit => NamePrinted
    BY DEF CpuInit, NamePrinted
  <2> QED BY <2>1 DEF CpuInit, CpuInv
<1>2. (CpuInv /\ NamePrinted) /\ [CpuNext]_cpuVars => (CpuInv /\ NamePrinted)'
  BY CpuNextKeepsInv, NamePrintedStep
<1> QED BY <1>1, <1>2, PTL DEF CpuSpec

\* No other line has the label of the name.
LEMMA OtherLabels ==
  ASSUME NEW o \in OtherLines, o # <<>>
  PROVE  o[1] # "name"
<1>1. CASE o \in FieldLines
  BY <1>1 DEF FieldLines
<1>2. CASE o \in TableLines
  <2>1. o[1] \in {"Intel", "Intel_Other"}
    BY <1>2, TableAndNameLabels
  <2> QED BY <2>1
<1> QED BY <1>1, <1>2 DEF OtherLines

\* Where the pieces are when all have been printed.
LEMMA PlaceOfName ==
  ASSUME NEW a \in Seq(OtherLines), NEW z \in Seq(OtherLines), out = (a \o Pieces(3)) \o z
  PROVE  \E k \in DOMAIN out :
           /\ {m \in DOMAIN out : out[m] # <<>> /\ out[m][1] = "name"} = k .. k + 2
           /\ out[k] = printregs(NameRegisters(2))
           /\ out[k + 1] = printregs(NameRegisters(3))
           /\ out[k + 2] = printregs(NameRegisters(4))
<1> DEFINE p == Pieces(3)
           v == a \o p
           b == Len(a)
           IsName(m) == out[m] # <<>> /\ out[m][1] = "name"
<1>1. /\ p \in Seq(Lines) /\ Len(p) = 3
      /\ p[1] = printregs(NameRegisters(2)) /\ p[2] = printregs(NameRegisters(3))
      /\ p[3] = printregs(NameRegisters(4))
  <2> DEFINE F(k) == printregs(NameRegisters(k + 1))
  <2>1. \A k \in 1 .. 3 : F(k) \in Lines
    <3>1. \A k \in 1 .. 3 : k + 1 \in 2 .. 4
      OBVIOUS
    <3> QED BY <3>1 DEF Lines, NameLines
  <2>2. p = [k \in 1 .. 3 |-> F(k)]
    BY DEF Pieces
  <2>3. /\ F(1) = printregs(NameRegisters(2)) /\ F(2) = printregs(NameRegisters(3))
        /\ F(3) = printregs(NameRegisters(4))
    BY 1 + 1 = 2, 2 + 1 = 3, 3 + 1 = 4
  <2> HIDE DEF F, p
  <2>4. p \in Seq(Lines) /\ Len(p) = 3 /\ p[1] = F(1) /\ p[2] = F(2) /\ p[3] = F(3)
    BY <2>1, <2>2
  <2> QED BY <2>3, <2>4
<1>2. \A k \in 2 .. 4 : printregs(NameRegisters(k)) # <<>> /\ printregs(NameRegisters(k))[1] = "name"
  BY DEF printregs
<1>3. a \in Seq(Lines) /\ z \in Seq(Lines) /\ b \in Nat /\ Len(z) \in Nat
  BY OtherLinesAreLines
<1> HIDE DEF p
<1>4. /\ v \in Seq(Lines) /\ Len(v) = Len(a) + Len(p)
      /\ \A k \in 1 .. Len(a) + Len(p) : v[k] = IF k <= Len(a) THEN a[k] ELSE p[k - Len(a)]
  BY <1>1, <1>3, Concatenation
<1>5. /\ out \in Seq(Lines) /\ Len(out) = Len(v) + Len(z)
      /\ \A k \in 1 .. Len(v) + Len(z) : out[k] = IF k <= Len(v) THEN v[k] ELSE z[k - Len(v)]
  <2>1. v \in Seq(Lines)
    BY <1>4
  <2>2. out = v \o z
    BY DEF p
  <2> HIDE DEF v
  <2>3. z \in Seq(Lines)
    BY <1>3
  <2>4. v \o z \in Seq(Lines) /\ Len(v \o z) = Len(v) + Len(z)
    BY <2>1, <2>3, ConcatProperties
  <2>5. \A k \in 1 .. Len(v) + Len(z) :
          (v \o z)[k] = IF k <= Len(v) THEN v[k] ELSE z[k - Len(v)]
    BY <2>1, <2>3, ConcatProperties
  <2> QED BY <2>2, <2>4, <2>5
<1> HIDE DEF v
<1>6. Len(v) = b + 3 /\ DOMAIN out = 1 .. (b + 3) + Len(z) /\ v \in Seq(Lines)
  BY <1>1, <1>3, <1>4, <1>5 DEF v
<1> HIDE DEF b
<1>7. ASSUME NEW k \in 1 .. 3 PROVE b + k \in DOMAIN out /\ out[b + k] = p[k]
  <2>1. b + k \in 1 .. Len(v) + Len(z) /\ b + k <= Len(v) /\ ~ (b + k <= b) /\ (b + k) - b = k
    BY <1>3, <1>6
  <2>2. out[b + k] = v[b + k]
    BY <1>5, <2>1
  <2>3. v[b + k] = p[k]
    <3>1. b + k \in 1 .. Len(a) + Len(p) /\ b = Len(a)
      BY <1>1, <1>3 DEF b
    <3> QED BY <1>4, <2>1, <3>1 DEF v
  <2> QED BY <1>6, <2>1, <2>2, <2>3
<1>8. ASSUME NEW m \in DOMAIN out, ~ (m \in b + 1 .. b + 3) PROVE ~ IsName(m)
  <2>1. CASE m <= b
    <3>1. m \in 1 .. Len(v) + Len(z) /\ m <= Len(v) /\ m \in 1 .. b
      BY <1>3, <1>6, <2>1
    <3>2. out[m] = v[m]
      BY <1>5, <3>1
    <3>3. v[m] = a[m] /\ a[m] \in OtherLines
      <4>1. m \in 1 .. Len(a) + Len(p) /\ m <= Len(a) /\ m \in 1 .. Len(a)
        BY <1>1, <1>3, <3>1 DEF b
      <4> QED BY <1>4, <4>1 DEF v
    <3> QED BY <3>2, <3>3, OtherLabels
  <2>2. CASE b + 3 < m
    <3>1. m \in 1 .. Len(v) + Len(z) /\ ~ (m <= Len(v)) /\ m - Len(v) \in 1 .. Len(z)
      BY <1>3, <1>6, <2>2
    <3>2. out[m] = z[m - Len(v)]
      BY <1>5, <3>1
    <3>3. z[m - Len(v)] \in OtherLines
      BY <3>1
    <3> QED BY <3>2, <3>3, OtherLabels
  <2> QED BY <1>3, <1>6, <1>8, <2>1, <2>2
<1>9. /\ out[b + 1] = printregs(NameRegisters(2)) /\ out[b + 2] = printregs(NameRegisters(3))
      /\ out[b + 3] = printregs(NameRegisters(4))
      /\ b + 1 \in DOMAIN out /\ b + 2 \in DOMAIN out /\ b + 3 \in DOMAIN out
  <2>1. 1 \in 1 .. 3 /\ 2 \in 1 .. 3 /\ 3 \in 1 .. 3
    OBVIOUS
  <2>2. \A k \in 1 .. 3 : b + k \in DOMAIN out /\ out[b + k] = p[k]
    BY <1>7
  <2> HIDE DEF p
  <2>3. /\ b + 1 \in DOMAIN out /\ b + 2 \in DOMAIN out /\ b + 3 \in DOMAIN out
        /\ out[b + 1] = p[1] /\ out[b + 2] = p[2] /\ out[b + 3] = p[3]
    BY <2>1, <2>2
  <2> QED BY <1>1, <2>3
<1>10. ASSUME NEW m \in b + 1 .. b + 3 PROVE m \in DOMAIN out /\ IsName(m)
  <2>1. m = b + 1 \/ m = b + 2 \/ m = b + 3
    BY <1>3
  <2>2. PICK k \in 2 .. 4 : out[m] = printregs(NameRegisters(k))
    <3>1. 2 \in 2 .. 4 /\ 3 \in 2 .. 4 /\ 4 \in 2 .. 4
      OBVIOUS
    <3> QED BY <1>9, <2>1, <3>1, Zenon
  <2>3. m \in DOMAIN out
    BY <1>9, <2>1, Zenon
  <2> QED BY <1>2, <2>2, <2>3
<1>11. {m \in DOMAIN out : IsName(m)} = b + 1 .. b + 3
  <2> HIDE DEF IsName
  <2> DEFINE D == b + 1 .. b + 3
  <2> HIDE DEF D
  <2>1. \A m \in DOMAIN out : m \notin D => ~ IsName(m)
    BY <1>8 DEF D
  <2>2. \A m \in D : m \in DOMAIN out /\ IsName(m)
    BY <1>10 DEF D
  <2>3. {m \in DOMAIN out : IsName(m)} = D
    BY <2>1, <2>2
  <2> QED BY <2>3 DEF D
<1> DEFINE c == b + 1
<1>12. c + 1 = b + 2 /\ c + 2 = b + 3
  BY <1>3
<1> QED BY <1>9, <1>11, <1>12

\* The name of every processor is printed whole, whether it ends in a register, at
\* the end of a leaf, or without a NUL, and its pieces follow one another.
THEOREM NameIsAlwaysWhole ==
  CpuSpec => []NameIsWhole
<1>1. ASSUME CpuInv, NamePrinted PROVE NameIsWhole
  <2>1. SUFFICES ASSUME stage = "done", cpu.vendor \in {"Genu", "Auth"}, cpu.max >= 4
        PROVE  \E k \in DOMAIN out :
                 /\ {m \in DOMAIN out : out[m] # <<>> /\ out[m][1] = "name"} = k .. k + 2
                 /\ out[k][2] \o out[k + 1][2] \o out[k + 2][2] = UpToNul(Append(cpu.name, Nul))
    BY DEF NameIsWhole
  <2>2. PICK a, z \in Seq(OtherLines) : out = (a \o Pieces(3)) \o z
    BY <1>1, <2>1 DEF NamePrinted
  <2>3. PICK k \in DOMAIN out :
          /\ {m \in DOMAIN out : out[m] # <<>> /\ out[m][1] = "name"} = k .. k + 2
          /\ out[k] = printregs(NameRegisters(2))
          /\ out[k + 1] = printregs(NameRegisters(3))
          /\ out[k + 2] = printregs(NameRegisters(4))
    BY <2>2, PlaceOfName
  <2>4. cpu \in Cpus
    BY <1>1 DEF CpuInv
  <2>5. PICK l : HasLength(cpu.name, l)
    BY <2>4, NameHasLength
  <2>6. ASSUME NEW leaf \in 2 .. 4, NEW o, o = 16 * (leaf - 2)
        PROVE  printregs(NameRegisters(leaf))[2] = Part(l, o)
    BY <2>4, <2>5, <2>6, PieceOfName
  <2>7. out[k][2] = Part(l, 0) /\ out[k + 1][2] = Part(l, 16) /\ out[k + 2][2] = Part(l, 32)
    <3>1. printregs(NameRegisters(2))[2] = Part(l, 0)
      BY <2>6
    <3>2. printregs(NameRegisters(3))[2] = Part(l, 16)
      BY <2>6
    <3>3. printregs(NameRegisters(4))[2] = Part(l, 32)
      BY <2>6
    <3> QED BY <2>3, <3>1, <3>2, <3>3
  <2>8. out[k][2] \o out[k + 1][2] \o out[k + 2][2] = UpToNul(Append(cpu.name, Nul))
    BY <2>4, <2>5, <2>7, PartsAreName
  <2> QED BY <2>3, <2>8
<1> QED BY <1>1, NameInvariant, PTL

================================================================================
