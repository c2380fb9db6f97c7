---------------------------------- MODULE Pci ----------------------------------
(***************************************************************************)
(* pci_explore: it asks every function of every slot of every bus for its  *)
(* vendor and keeps a list of those that answer.  The configuration space  *)
(* is the machine's: a function in it is a record of its header's fields.  *)
(*                                                                         *)
(* A double word is the sequence of its four bytes, lowest first.          *)
(***************************************************************************)
EXTENDS Integers, Sequences, SequencesExt

CONSTANTS
  Buses, Slots, Functions, (* 8, 32, 8                                      *)
  Machines                 (* configuration spaces: functions from some     *)
                           (* <<bus, slot, function>> to headers            *)

Byte    == 0 .. 255
MaxWord == (256 * 256) - 1
Word    == 0 .. MaxWord
Header == [vendor : Word, device : Word, revision : Byte, interface : Byte,
           subclass : Byte, class : Byte, type : Byte, line : Byte]
Place  == (0 .. Buses - 1) \X (0 .. Slots - 1) \X (0 .. Functions - 1)

ASSUME BusAssumption ==
  /\ Buses \in 1 .. 255 /\ Slots \in 1 .. 32 /\ Functions \in 1 .. 8
  /\ \A m \in Machines : DOMAIN m \subseteq Place /\ \A p \in DOMAIN m : m[p] \in Header

VARIABLES
  machine,
  pc,                     (* "slot", "function", "done", or "overrun"       *)
  bus, slot, function,    (* the loop variables                             *)
  number_of_functions,
  devices                 (* pci_list: its used part                        *)

vars == <<machine, pc, bus, slot, function, number_of_functions, devices>>

-----------------------------------------------------------------------------
(* The host bridge: what the data port shows for an address.               *)

LowHigh(w) == <<w % 256, w \div 256>>

DataPort(id) ==
  LET p == <<(id \div 65536) % 256, (id \div 2048) % 32, (id \div 256) % 8>>
      r == id % 256
  IN IF p \notin DOMAIN machine THEN <<255, 255, 255, 255>>
     ELSE LET h == machine[p]
          IN CASE r = 0  -> LowHigh(h.vendor) \o LowHigh(h.device)
               [] r = 8  -> <<h.revision, h.interface, h.subclass, h.class>>
               [] r = 12 -> <<0, 0, h.type, 0>>
               [] r = 60 -> <<h.line, 1, 0, 0>>

-----------------------------------------------------------------------------
(* Reading a register.                                                     *)

\* Mutant: the slot is shifted by one bit too few.
construct_identifier_short(b, s, f, offset) ==
  (b * 65536) + (s * 1024) + (f * 256) + (offset - (offset % 4))

\* Without the enable bit, which is the same in all of them.
construct_identifier(b, s, f, offset) ==
  (b * 65536) + (s * 2048) + (f * 256) + (offset - (offset % 4))

\* The bytes from the offset on; the callers keep one, two or all of them.
read(b, s, f, offset) ==
  SubSeq(DataPort(construct_identifier(b, s, f, offset)), (offset % 4) + 1, 4)

Byte1(bytes) == bytes[1]
Word2(bytes) == bytes[1] + (256 * bytes[2])

get_device_descriptor(b, s, f) ==
  [bus |-> b, slot |-> s, function |-> f,
   vendor_id    |-> Word2(read(b, s, f, 0)),
   device_id    |-> Word2(read(b, s, f, 2)),
   class_id     |-> Byte1(read(b, s, f, 14)),
   subclass_id  |-> Byte1(read(b, s, f, 10)),
   interface_id |-> Byte1(read(b, s, f, 9)),
   revision     |-> Byte1(read(b, s, f, 8)),
   interrupt    |-> read(b, s, f, 60)]

device_multifunction(b, s) == Byte1(read(b, s, 0, 14)) >= 128

FunctionsToTry == IF device_multifunction(bus, slot) THEN Functions ELSE 1

-----------------------------------------------------------------------------
(* pci_explore                                                             *)

EnterSlot ==
  /\ pc = "slot"
  /\ number_of_functions' = FunctionsToTry
  /\ function' = 0
  /\ pc' = "function"
  /\ UNCHANGED <<machine, bus, slot, devices>>

TableSize == 15

Answers(dev) == dev.vendor_id \notin {0, 65535}

\* Mutant: continue skips the increment.
NextFunctionStuck(dev) == IF Answers(dev) THEN function + 1 ELSE function

NextFunction(dev) == function + 1

\* A turn of the inner loop.  The sixteenth descriptor goes behind the table,
\* into the rest of the stack frame; the model ends there.
TryFunction ==
  /\ pc = "function" /\ function < number_of_functions
  /\ LET dev == get_device_descriptor(bus, slot, function)
     IN /\ IF ~Answers(dev) THEN UNCHANGED <<devices, pc>>
           ELSE IF Len(devices) < TableSize
           THEN devices' = Append(devices, dev) /\ UNCHANGED pc
           ELSE pc' = "overrun" /\ UNCHANGED devices
        /\ function' = NextFunction(dev)
  /\ UNCHANGED <<machine, bus, slot, number_of_functions>>

LeaveSlot ==
  /\ pc = "function" /\ function >= number_of_functions
  /\ IF slot + 1 < Slots THEN slot' = slot + 1 /\ bus' = bus /\ pc' = "slot"
     ELSE /\ slot' = 0
          /\ bus' = bus + 1
          /\ pc' = IF bus + 1 < Buses THEN "slot" ELSE "done"
  /\ UNCHANGED <<machine, function, number_of_functions, devices>>

Init ==
  /\ machine \in Machines
  /\ pc = "slot"
  /\ bus = 0 /\ slot = 0 /\ function = 0 /\ number_of_functions = 0
  /\ devices = <<>>

\* The list is on the stack: nothing is left of it.
Finished == pc \in {"done", "overrun"} /\ UNCHANGED vars

Explore == EnterSlot \/ TryFunction \/ LeaveSlot
Next    == Explore \/ Finished
Spec    == Init /\ [][Next]_vars /\ WF_vars(Explore)

-----------------------------------------------------------------------------
(* Properties                                                              *)

Descriptor ==
  [bus : 0 .. Buses - 1, slot : 0 .. Slots - 1, function : 0 .. Functions - 1,
   vendor_id : Word, device_id : Word, class_id : Byte, subclass_id : Byte,
   interface_id : Byte, revision : Byte, interrupt : Seq(Byte)]

\* Type invariant.
PciTypeOK ==
  /\ pc \in {"slot", "function", "done", "overrun"}
  /\ bus \in 0 .. Buses /\ slot \in 0 .. Slots - 1
  /\ function \in 0 .. Functions
  /\ number_of_functions \in {0, 1, Functions}
  /\ devices \in Seq(Descriptor)

Before(p, q) ==
  \/ p[1] < q[1]
  \/ p[1] = q[1] /\ p[2] < q[2]
  \/ p[1] = q[1] /\ p[2] = q[2] /\ p[3] < q[3]

\* The functions of the machine that count: those with a vendor, except behind
\* a function 0 that says it is the only one.
Expected ==
  {p \in DOMAIN machine :
     /\ machine[p].vendor \notin {0, 65535}
     /\ LET first == <<p[1], p[2], 0>>
        IN p[3] # 0 /\ first \in DOMAIN machine => machine[first].type >= 128}

Here == <<bus, slot, IF pc = "slot" THEN 0 ELSE function>>

\* At every point the list holds exactly the functions up to there that
\* answer, each once, in the order of bus, slot and function, and each with the
\* numbers that the machine has under this place and no other (class_id is the
\* header type: pci.c:105 reads 0x0E, not 0x0B).  The table
\* overflows with the sixteenth of them, not earlier.
ListIsTrue ==
  LET placeOf(d) == <<d.bus, d.slot, d.function>>
      listed == [n \in DOMAIN devices |-> placeOf(devices[n])]
      unlisted == IF pc = "overrun" THEN {<<bus, slot, function - 1>>} ELSE {}
  IN /\ ToSet(listed) \cup unlisted = {p \in Expected : Before(p, Here)}
     /\ pc = "overrun" => Len(devices) = TableSize
     /\ \A n \in DOMAIN devices :
          /\ \A k \in 1 .. n - 1 : Before(listed[k], listed[n])
          /\ LET h == machine[listed[n]]
                 d == devices[n]
             IN /\ <<d.vendor_id, d.device_id, d.class_id>> = <<h.vendor, h.device, h.type>>
                /\ <<d.subclass_id, d.interface_id, d.revision>> =
                     <<h.subclass, h.interface, h.revision>>
                /\ d.interrupt[1] = h.line

\* The three loops end.
ExploreEnds == <>(pc \in {"done", "overrun"})
=============================================================================
