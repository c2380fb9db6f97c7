------------------------------- MODULE MCReports -------------------------------
(***************************************************************************)
(* Machines with every kind of processor and nothing on their buses, and   *)
(* with every kind of configuration space and a few processors: the two    *)
(* reports have nothing in common.  Eight buses of 32 slots, as in the     *)
(* code.                                                                   *)
(***************************************************************************)
EXTENDS Reports

NameOfLength(k) == [p \in 1 .. 48 |-> IF p <= k THEN 32 + p ELSE Nul]

\* Signatures of old and new processors, the two that use Intel_Other among them;
\* brands at both ends of the tables; without the name, with or without any
\* extended leaves.
Numbers ==
  [vendor : {"Genu", "Auth"}, signature : {1141, 1345, 1713, 3859, 132784, 68161369},
   brand : {0, 1, 3, 23, 24, 255}, max : {NoLeaves, 1}, name : {NameOfLength(0)},
   sensor : {FALSE}]

\* A largest leaf of 1 (not extended), no leaf but one, one, two or all of the name,
\* and the sensor; an empty name, one that ends in the middle of a register, one at
\* the end of a leaf, one without a NUL; and a vendor that the code does not know.
Names ==
  [vendor : {"Genu", "Auth", "Cyri"}, signature : {68161369}, brand : {3},
   max : {-2147483647, 1, 2, 3, 4, 7},
   name : {NameOfLength(k) : k \in {0, 6, 16, 48}}, sensor : BOOLEAN]

SomeCpus == Numbers \cup Names

\* A function's header: its numbers tell the functions of a machine apart.
H(n, type) ==
  [vendor |-> 32902, device |-> 4660 + n, revision |-> n, interface |-> 255 - n,
   subclass |-> 1, class |-> 6, type |-> type, line |-> 11]

Empty == [p \in {} |-> H(0, 0)]

\* A PC: a host bridge, a chip with three functions, two cards.
Pc ==
  [p \in {<<0, 0, 0>>, <<0, 1, 0>>, <<0, 1, 1>>, <<0, 1, 3>>, <<0, 2, 0>>, <<0, 3, 0>>} |->
     H(p[2] * 8 + p[3], IF p[2] = 1 THEN 128 ELSE 0)]

\* The last place of all, a device that echoes its function 0, one whose
\* function 0 does not answer, and one that answers with vendor 0.
Corners ==
  [p \in {<<7, 31, 0>>, <<7, 31, 7>>, <<2, 5, 0>>, <<2, 5, 1>>, <<3, 31, 6>>, <<4, 0, 0>>} |->
     IF p[1] = 4 THEN [H(0, 0) EXCEPT !.vendor = 0]
     ELSE H(p[2] * 8 + p[3], IF p[1] = 7 THEN 129 ELSE 0)]

\* n devices with eight functions on bus 1, the last one with m of them.
Many(n, m) ==
  [p \in {1} \X (0 .. n - 1) \X (0 .. 7) \ ({1} \X {n - 1} \X (m .. 7)) |->
     H(p[2] * 8 + p[3], 128)]

\* The last two fill the table and overflow it.
SomeMachines == {Empty, Pc, Corners, Many(2, 7), Many(2, 8)}

SomeHosts ==
  (SomeCpus \X {Empty}) \cup ({c \in Numbers : c.brand = 1 /\ c.signature = 1713} \X SomeMachines)
=============================================================================
