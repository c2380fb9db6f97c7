-------------------------------- MODULE Strings --------------------------------
(***************************************************************************)
(* memcpy, memmove, memset, memcmp and strlen of libc on one memory, one   *)
(* turn of a loop per step.  Callers keep to what the functions require: a *)
(* region ends in memory (so that size_t does not wrap), the regions of    *)
(* memcpy are disjoint (restrict) and a string ends in a NUL.              *)
(***************************************************************************)
EXTENDS Integers

CONSTANTS
  Size,       (* of the memory                                              *)
  Values,     (* what its bytes hold at first                               *)
  Fills       (* the int that memset is given                               *)

Byte == 0 .. 255

ASSUME MemoryAssumption ==
  /\ Size \in Nat \ {0}
  /\ Values \subseteq Byte /\ Fills \subseteq Int

Address == 0 .. Size - 1

VARIABLES
  mem,
  before,             (* history: the memory at the call                    *)
  f,                  (* the function called last                           *)
  dst, src, n,        (* its arguments, named after memmove's               *)
  value,
  i,                  (* the loop variable                                  *)
  running,
  ret                 (* what memcmp or strlen returned                     *)

args == <<before, f, dst, src, n, value>>
vars == <<mem, args, i, running, ret>>

-----------------------------------------------------------------------------
(* Choices of the code.                                                    *)

\* Mutant: memmove starts at the front, as memcpy does.
NeverBackwards == FALSE

\* memmove's second loop.
Backwards == f = "memmove" /\ ~(dst < src)

\* Mutant: the int is stored as it is.
Uncut(v) == v

\* (unsigned char) value
UnsignedChar(v) == v % 256

\* Mutant: plain char, which is signed on this processor.
LessAsChar(x, y) ==
  LET Char(v) == IF v < 128 THEN v ELSE v - 256 IN Char(x) < Char(y)

Less(x, y) == x < y

\* Mutant: the first byte is not looked at.
LengthFromOne == 1

\* strlen's len at the start.
LengthFrom == 0

-----------------------------------------------------------------------------

Disjoint(d, s, c) == d + c <= s \/ s + c <= d

Call(g, d, s, c, v) ==
  /\ ~running
  /\ d + c <= Size /\ s + c <= Size
  /\ g = "memcpy" => Disjoint(d, s, c)
  /\ g = "strlen" => \E a \in Address : a >= s /\ mem[a] = 0
  /\ f' = g /\ dst' = d /\ src' = s /\ n' = c /\ value' = v
  /\ i' = CASE g = "memmove" /\ ~(d < s) -> c
            [] g = "strlen"              -> LengthFrom
            [] OTHER                     -> 0
  /\ before' = mem
  /\ running' = TRUE
  /\ UNCHANGED <<mem, ret>>

Return(r) ==
  /\ running' = FALSE /\ ret' = r
  /\ UNCHANGED <<mem, args, i>>

\* memcpy, and memmove to a lower address.
CopyForwards ==
  /\ running /\ f \in {"memcpy", "memmove"} /\ ~Backwards
  /\ IF i < n
     THEN /\ mem' = [mem EXCEPT ![dst + i] = mem[src + i]]
          /\ i' = i + 1
          /\ UNCHANGED <<args, running, ret>>
     ELSE Return(ret)

CopyBackwards ==
  /\ running /\ Backwards
  /\ IF i # 0
     THEN /\ mem' = [mem EXCEPT ![dst + i - 1] = mem[src + i - 1]]
          /\ i' = i - 1
          /\ UNCHANGED <<args, running, ret>>
     ELSE Return(ret)

Memset ==
  /\ running /\ f = "memset"
  /\ IF i < n
     THEN /\ mem' = [mem EXCEPT ![dst + i] = UnsignedChar(value)]
          /\ i' = i + 1
          /\ UNCHANGED <<args, running, ret>>
     ELSE Return(ret)

\* aptr is dst, bptr is src.
Memcmp ==
  /\ running /\ f = "memcmp"
  /\ IF i < n /\ mem[dst + i] = mem[src + i]
     THEN i' = i + 1 /\ UNCHANGED <<mem, args, running, ret>>
     ELSE Return(IF i = n THEN 0 ELSE IF Less(mem[dst + i], mem[src + i]) THEN -1 ELSE 1)

Strlen ==
  /\ running /\ f = "strlen"
  /\ IF mem[src + i] # 0
     THEN i' = i + 1 /\ UNCHANGED <<mem, args, running, ret>>
     ELSE Return(i)

Init ==
  /\ mem \in [Address -> Values] /\ before = mem
  /\ f = "none" /\ dst = 0 /\ src = 0 /\ n = 0 /\ value = 0
  /\ i = 0 /\ running = FALSE /\ ret = 0

Next ==
  \/ \E g \in {"memcpy", "memmove", "memcmp"}, d \in Address, s \in Address, c \in 0 .. Size :
       Call(g, d, s, c, 0)
  \/ \E d \in Address, c \in 0 .. Size, v \in Fills : Call("memset", d, 0, c, v)
  \/ \E s \in Address : Call("strlen", 0, s, 0, 0)
  \/ CopyForwards \/ CopyBackwards \/ Memset \/ Memcmp \/ Strlen

Spec == Init /\ [][Next]_vars

-----------------------------------------------------------------------------
(* Properties                                                              *)

Names == {"none", "memcpy", "memmove", "memset", "memcmp", "strlen"}

\* Type invariant.
TypeOK ==
  /\ mem \in [Address -> Byte] /\ before \in [Address -> Byte]
  /\ f \in Names
  /\ dst \in Address /\ src \in Address /\ n \in 0 .. Size /\ value \in Int
  /\ i \in 0 .. Size
  /\ running \in BOOLEAN
  /\ ret \in -1 .. Size

Region == dst .. dst + n - 1

\* The bytes a call may touch: its region or its two regions in memory, or the
\* string with its NUL.
Given ==
  CASE f = "strlen" -> {a \in Address : a >= src /\ \A b \in src .. a - 1 : mem[b] # 0}
    [] f = "memset" -> Address \cap Region
    [] OTHER        -> Address \cap (Region \cup {src + k : k \in 0 .. n - 1})

\* Those that the next turn of its loop reads or writes.
Touched ==
  CASE f = "strlen" -> {src + i}
    [] f = "memset" -> IF i < n THEN {dst + i} ELSE {}
    [] Backwards    -> IF i # 0 THEN {dst + i - 1, src + i - 1} ELSE {}
    [] OTHER        -> IF i < n THEN {dst + i, src + i} ELSE {}

\* No turn of a loop reads or writes a byte the call was not given: the loop that
\* counts down does not pass the front of its region, and strlen reads nothing
\* behind the first NUL.
StaysInside == running => Touched \subseteq Given

\* memcpy and memmove leave in the region what the other one held before the
\* call, however the two overlap, and touch nothing else.
CopiesWhatWasThere ==
  ~running /\ f \in {"memcpy", "memmove"} =>
    \A a \in Address : mem[a] = IF a \in Region THEN before[src + (a - dst)] ELSE before[a]

\* memset stores the low byte of its int, in the region only.
FillsTheRegion ==
  ~running /\ f = "memset" =>
    \A a \in Address : mem[a] = IF a \in Region THEN value % 256 ELSE before[a]

\* memcmp's sign is that of the first difference, bytes taken as unsigned.
ComparesFirstDifference ==
  ~running /\ f = "memcmp" =>
    \/ ret = 0 /\ \A k \in 0 .. n - 1 : mem[dst + k] = mem[src + k]
    \/ \E k \in 0 .. n - 1 :
         /\ \A j \in 0 .. k - 1 : mem[dst + j] = mem[src + j]
         /\ \/ ret = -1 /\ mem[dst + k] < mem[src + k]
            \/ ret = 1  /\ mem[dst + k] > mem[src + k]

\* strlen counts the characters before the first NUL.
LengthIsFirstNul ==
  ~running /\ f = "strlen" =>
    mem[src + ret] = 0 /\ \A k \in 0 .. ret - 1 : mem[src + k] # 0

\* When one of the five returns, it has done what its name promises, on every
\* memory that the calls before it may leave.
KeepsItsPromise ==
  CopiesWhatWasThere /\ FillsTheRegion /\ ComparesFirstDifference /\ LengthIsFirstNul
=============================================================================
