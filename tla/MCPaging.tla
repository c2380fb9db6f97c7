------------------------------- MODULE MCPaging -------------------------------
(***************************************************************************)
(* The sizes of the code with the same proportions: words of 4 bytes (and  *)
(* 8 bits), pages of 32 bytes, 64 pages of address space, 32 frames.       *)
(***************************************************************************)
EXTENDS Paging

\* The bitset of 16 bytes, 4 of them asked for, ends before the directory, with
\* one or two tables: one to three pages of the last one are left to users.
EndsApart == {236, 300}

\* Its last words, two or three, are the first entries of the directory.
EndsShared == {24, 28}

Ends == EndsApart \cup EndsShared

\* A stack in the kernel's own first page, and one far behind all that is in use,
\* as 0x90000 is (boot/pm_switch.asm:29).
StackInside  == 16
StackOutside == 40 * PageSize

AnyStack == {StackInside, StackOutside}

\* Tables start at pages: the bits of an address are those of its page number.
PageNumberBits(a) == {b \in Bits : ((a \div PageSize) \div 2^b) % 2 = 1}

ZeroWords == [w \in 0 .. Words - 1 |-> {}]

\* Nothing left; the last word with one bit; everything set.
SomeWords == {ZeroWords, [ZeroWords EXCEPT ![3] = {1}], [w \in 0 .. Words - 1 |-> Bits]}

SomePointers == {{}, {1}, {0, 5}}

\* Nothing left; a page that is present, in a frame beyond memory; one that is
\* present in a frame of the kernel's; entries that are allocated, not present.
SomeTables ==
  { NoPages,
    [NoPages EXCEPT ![7] = MapsTo(40)],
    [NoPages EXCEPT ![7] = MapsTo(2)],
    [x \in 0 .. Entries - 1 |-> [present |-> FALSE, frame |-> 1]] }
=============================================================================
