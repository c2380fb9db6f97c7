------------------------------ MODULE LibcProofs ------------------------------
(***************************************************************************)
(* libc.  The loops of its memory functions do what the functions promise, *)
(* for every memory, length and overlap: one loop invariant for each of    *)
(* them.  And printf prints what its format says, for every format and     *)
(* every argument: by induction on the digits of a number and on the       *)
(* characters of a format.                                                 *)
(***************************************************************************)
EXTENDS Strings, Printf, SequenceTheorems, WellFoundedInduction, TLAPS

-----------------------------------------------------------------------------
(* The memory functions.                                                   *)

\* The memory at the call, with the bytes lo .. hi - 1 of the region copied.
Copied(lo, hi) ==
  [a \in Address |-> IF a \in dst + lo .. dst + hi - 1 THEN before[src + (a - dst)] ELSE before[a]]

\* The same with value stored.
Filled(hi) ==
  [a \in Address |-> IF a \in dst .. dst + hi - 1 THEN value % 256 ELSE before[a]]

Copying == f \in {"memcpy", "memmove"}

\* What the caller promised.
ArgsInv ==
  /\ dst + n <= Size /\ src + n <= Size
  /\ f = "memcpy" => Disjoint(dst, src, n)

ForwardsInv ==
  Copying /\ ~Backwards => i <= n /\ mem = Copied(0, i) /\ (~running => i = n)

BackwardsInv ==
  Backwards => i <= n /\ mem = Copied(i, n) /\ (~running => i = 0)

MemsetInv ==
  f = "memset" => i <= n /\ mem = Filled(i) /\ (~running => i = n)

MemcmpInv ==
  f = "memcmp" =>
    /\ i <= n
    /\ \A k \in 0 .. i - 1 : mem[dst + k] = mem[src + k]
    /\ ~running => \/ i = n /\ ret = 0
                   \/ i < n /\ mem[dst + i] < mem[src + i] /\ ret = -1
                   \/ i < n /\ mem[dst + i] > mem[src + i] /\ ret = 1

StrlenInv ==
  f = "strlen" =>
    /\ \E a \in Address : a >= src + i /\ mem[a] = 0
    /\ \A k \in 0 .. i - 1 : mem[src + k] # 0
    /\ ~running => ret = i /\ mem[src + i] = 0

LoopInv ==
  /\ TypeOK /\ ArgsInv
  /\ ForwardsInv /\ BackwardsInv /\ MemsetInv /\ MemcmpInv /\ StrlenInv

LEMMA SizeIsNat == Size \in Nat \ {0} /\ Fills \subseteq Int /\ Values \subseteq Byte
BY MemoryAssumption

\* A call sets up its loop; before the first turn nothing is copied.
LEMMA CallSetsUp ==
  ASSUME TypeOK, NEW g \in Names, NEW d \in Address, NEW s \in Address, NEW c \in 0 .. Size,
         NEW v \in Int, Call(g, d, s, c, v)
  PROVE  LoopInv'
<1>1. /\ f' = g /\ dst' = d /\ src' = s /\ n' = c /\ value' = v /\ before' = mem
      /\ running' = TRUE /\ mem' = mem /\ ret' = ret
      /\ d + c <= Size /\ s + c <= Size
      /\ g = "memcpy" => Disjoint(d, s, c)
      /\ i' = IF g = "memmove" /\ ~(d < s) THEN c ELSE 0
  BY DEF Call, LengthFrom
<1>2. /\ Size \in Nat \ {0} /\ c \in Nat /\ d \in Nat /\ s \in Nat /\ i' \in 0 .. Size
      /\ mem \in [Address -> Byte]
  BY <1>1, SizeIsNat DEF Address, TypeOK
<1>3. TypeOK'
  BY <1>1, <1>2 DEF TypeOK
<1>4. ArgsInv'
  BY <1>1 DEF ArgsInv, Disjoint
<1>5. Copied(0, 0)' = mem
  <2>1. \A a \in Address : a \notin d + 0 .. d + 0 - 1
    BY <1>2 DEF Address
  <2> QED BY <1>1, <1>2, <2>1 DEF Copied
<1>6. ForwardsInv'
  BY <1>1, <1>2, <1>5 DEF ForwardsInv, Backwards, Copying
<1>7. BackwardsInv'
  <2>1. Copied(c, c)' = mem
    <3>1. \A a \in Address : a \notin d + c .. d + c - 1
      BY <1>2 DEF Address
    <3> QED BY <1>1, <1>2, <3>1 DEF Copied
  <2> QED BY <1>1, <1>2, <2>1 DEF BackwardsInv, Backwards
<1>8. MemsetInv'
  <2>1. Filled(0)' = mem
    <3>1. \A a \in Address : a \notin d .. d + 0 - 1
      BY <1>2 DEF Address
    <3> QED BY <1>1, <1>2, <3>1 DEF Filled
  <2> QED BY <1>1, <1>2, <2>1 DEF MemsetInv
<1>9. MemcmpInv'
  BY <1>1, <1>2 DEF MemcmpInv
<1>10. StrlenInv'
  <2>1. g = "strlen" => \E a \in Address : a >= s /\ mem[a] = 0
    BY DEF Call
  <2> QED BY <1>1, <1>2, <2>1 DEF StrlenInv
<1> QED BY <1>3, <1>4, <1>6, <1>7, <1>8, <1>9, <1>10 DEF LoopInv

\* One byte in front of those copied: it still is what it was at the call, for
\* the source is not among the bytes copied.
LEMMA ForwardsStep ==
  ASSUME LoopInv, CopyForwards
  PROVE  LoopInv'
<1>1. /\ running /\ Copying /\ ~Backwards /\ f \in {"memcpy", "memmove"}
      /\ i <= n /\ mem = Copied(0, i) /\ dst + n <= Size /\ src + n <= Size
      /\ Size \in Nat /\ dst \in Nat /\ src \in Nat /\ n \in Nat /\ i \in Nat
      /\ before \in [Address -> Byte] /\ mem \in [Address -> Byte]
  BY SizeIsNat DEF CopyForwards, LoopInv, ForwardsInv, ArgsInv, TypeOK, Address, Copying
<1>2. CASE i < n
  <2>1. /\ mem' = [mem EXCEPT ![dst + i] = mem[src + i]] /\ i' = i + 1
        /\ UNCHANGED <<before, f, dst, src, n, value, running, ret>>
    BY <1>2 DEF CopyForwards, args
  <2>2. dst + i \in Address /\ src + i \in Address
    BY <1>1, <1>2 DEF Address
  <2>3. src + i \notin dst + 0 .. dst + i - 1
    BY <1>1, <1>2 DEF LoopInv, ArgsInv, Disjoint, Backwards
  <2>4. mem[src + i] = before[src + i]
    BY <1>1, <2>2, <2>3 DEF Copied
  <2>5. mem' = Copied(0, i + 1)
    <3>1. \A a \in Address : mem'[a] = Copied(0, i + 1)[a]
      <4> TAKE a \in Address
      <4>1. CASE a = dst + i
        <5>1. src + (a - dst) = src + i /\ a \in dst + 0 .. dst + (i + 1) - 1
          BY <1>1, <4>1
        <5> QED BY <1>1, <2>1, <2>2, <2>4, <4>1, <5>1 DEF Copied
      <4>2. CASE a # dst + i
        <5>1. a \in dst + 0 .. dst + (i + 1) - 1 <=> a \in dst + 0 .. dst + i - 1
          BY <1>1, <4>2 DEF Address
        <5> QED BY <1>1, <2>1, <4>2, <5>1 DEF Copied
      <4> QED BY <4>1, <4>2
    <3>2. mem' \in [Address -> Byte]
      BY <1>1, <2>1, <2>2
    <3> QED BY <3>1, <3>2 DEF Copied
  <2>6. Copied(0, i + 1) = Copied(0, i)'
    BY <2>1 DEF Copied
  <2>7. TypeOK'
    BY <1>1, <1>2, <2>1, <2>2 DEF LoopInv, TypeOK
  <2>8. ~Backwards' /\ f' \notin {"memset", "memcmp", "strlen"} /\ ArgsInv'
    BY <1>1, <2>1 DEF Backwards, LoopInv, ArgsInv, Disjoint
  <2>9. ForwardsInv'
    BY <1>1, <1>2, <2>1, <2>5, <2>6 DEF ForwardsInv
  <2> QED BY <2>7, <2>8, <2>9 DEF LoopInv, BackwardsInv, MemsetInv, MemcmpInv, StrlenInv
<1>3. CASE ~(i < n)
  <2>1. UNCHANGED <<mem, before, f, dst, src, n, value, i, ret>> /\ running' = FALSE
    BY <1>3 DEF CopyForwards, Return, args
  <2>2. TypeOK' /\ ArgsInv' /\ ~Backwards' /\ f' \notin {"memset", "memcmp", "strlen"}
    BY <1>1, <2>1 DEF LoopInv, TypeOK, ArgsInv, Disjoint, Backwards
  <2>3. i = n /\ Copied(0, i)' = Copied(0, i)
    BY <1>1, <1>3, <2>1 DEF Copied
  <2>4. ForwardsInv'
    BY <1>1, <2>1, <2>3 DEF ForwardsInv
  <2> QED BY <2>2, <2>4 DEF LoopInv, BackwardsInv, MemsetInv, MemcmpInv, StrlenInv
<1> QED BY <1>2, <1>3

\* One byte before those copied.
LEMMA BackwardsStep ==
  ASSUME LoopInv, CopyBackwards
  PROVE  LoopInv'
<1>1. /\ running /\ f = "memmove" /\ ~(dst < src)
      /\ i <= n /\ mem = Copied(i, n) /\ dst + n <= Size /\ src + n <= Size
      /\ Size \in Nat /\ dst \in Nat /\ src \in Nat /\ n \in Nat /\ i \in Nat
      /\ before \in [Address -> Byte] /\ mem \in [Address -> Byte]
  BY SizeIsNat DEF CopyBackwards, LoopInv, BackwardsInv, Backwards, ArgsInv, TypeOK, Address
<1>2. CASE i # 0
  <2> DEFINE x == dst + i - 1
             y == src + i - 1
  <2>1. /\ mem' = [mem EXCEPT ![x] = mem[y]] /\ i' = i - 1
        /\ UNCHANGED <<before, f, dst, src, n, value, running, ret>>
    BY <1>2 DEF CopyBackwards, args
  <2>2. x \in Address /\ y \in Address
    BY <1>1, <1>2 DEF Address
  <2>3. y \notin dst + i .. dst + n - 1
    BY <1>1, <1>2
  <2>4. mem[y] = before[y]
    BY <1>1, <2>2, <2>3 DEF Copied
  <2>5. mem' = Copied(i - 1, n)
    <3>1. \A a \in Address : mem'[a] = Copied(i - 1, n)[a]
      <4> TAKE a \in Address
      <4>1. CASE a = x
        <5>1. src + (a - dst) = y /\ a \in dst + (i - 1) .. dst + n - 1
          BY <1>1, <1>2, <4>1
        <5> QED BY <1>1, <2>1, <2>2, <2>4, <4>1, <5>1 DEF Copied
      <4>2. CASE a # x
        <5>1. a \in dst + (i - 1) .. dst + n - 1 <=> a \in dst + i .. dst + n - 1
          BY <1>1, <1>2, <4>2 DEF Address
        <5> QED BY <1>1, <2>1, <4>2, <5>1 DEF Copied
      <4> QED BY <4>1, <4>2
    <3>2. mem' \in [Address -> Byte]
      BY <1>1, <2>1, <2>2
    <3> QED BY <3>1, <3>2 DEF Copied
  <2>6. Copied(i - 1, n) = Copied(i, n)'
    BY <2>1 DEF Copied
  <2>7. i - 1 \in 0 .. Size /\ i - 1 <= n
    BY <1>1, <1>2
  <2>8. mem' \in [Address -> Byte]
    BY <1>1, <2>1, <2>2
  <2>9. TypeOK'
    BY <2>1, <2>7, <2>8 DEF LoopInv, TypeOK
  <2>10. Backwards' /\ ~(f' \in {"memset", "memcmp", "strlen"}) /\ ArgsInv'
    BY <1>1, <2>1 DEF Backwards, LoopInv, ArgsInv, Disjoint
  <2>11. BackwardsInv'
    BY <1>1, <2>1, <2>5, <2>6, <2>7 DEF BackwardsInv
  <2> QED BY <2>9, <2>10, <2>11 DEF LoopInv, ForwardsInv, MemsetInv, MemcmpInv, StrlenInv
<1>3. CASE i = 0
  <2>1. UNCHANGED <<mem, before, f, dst, src, n, value, i, ret>> /\ running' = FALSE
    BY <1>3 DEF CopyBackwards, Return, args
  <2>2. TypeOK' /\ ArgsInv' /\ Backwards' /\ ~(f' \in {"memset", "memcmp", "strlen"})
    BY <1>1, <2>1 DEF LoopInv, TypeOK, ArgsInv, Disjoint, Backwards
  <2>3. Copied(i, n)' = Copied(i, n)
    BY <2>1 DEF Copied
  <2>4. BackwardsInv'
    BY <1>1, <1>3, <2>1, <2>3 DEF BackwardsInv
  <2> QED BY <2>2, <2>4 DEF LoopInv, ForwardsInv, MemsetInv, MemcmpInv, StrlenInv
<1> QED BY <1>2, <1>3

LEMMA MemsetStep ==
  ASSUME LoopInv, Memset
  PROVE  LoopInv'
<1>1. /\ running /\ f = "memset" /\ value \in Int
      /\ i <= n /\ mem = Filled(i) /\ dst + n <= Size
      /\ Size \in Nat /\ dst \in Nat /\ n \in Nat /\ i \in Nat
      /\ before \in [Address -> Byte] /\ mem \in [Address -> Byte]
  BY SizeIsNat DEF Memset, LoopInv, MemsetInv, ArgsInv, TypeOK, Address
<1>2. CASE i < n
  <2>1. /\ mem' = [mem EXCEPT ![dst + i] = value % 256] /\ i' = i + 1
        /\ UNCHANGED <<before, f, dst, src, n, value, running, ret>>
    BY <1>2 DEF Memset, UnsignedChar, args
  <2>2. dst + i \in Address
    BY <1>1, <1>2 DEF Address
  <2>3. value % 256 \in Byte
    BY <1>1 DEF Byte
  <2>4. mem' \in [Address -> Byte]
    BY <1>1, <2>1, <2>2, <2>3
  <2>5. mem' = Filled(i + 1)
    <3>1. \A a \in Address : mem'[a] = Filled(i + 1)[a]
      <4> TAKE a \in Address
      <4>1. CASE a = dst + i
        <5>1. a \in dst .. dst + (i + 1) - 1
          BY <1>1, <4>1
        <5> QED BY <1>1, <2>1, <2>2, <4>1, <5>1 DEF Filled
      <4>2. CASE a # dst + i
        <5>1. a \in dst .. dst + (i + 1) - 1 <=> a \in dst .. dst + i - 1
          BY <1>1, <4>2 DEF Address
        <5> QED BY <1>1, <2>1, <4>2, <5>1 DEF Filled
      <4> QED BY <4>1, <4>2
    <3> QED BY <3>1, <2>4 DEF Filled
  <2>6. Filled(i + 1) = Filled(i)'
    BY <2>1 DEF Filled
  <2>7. i + 1 \in 0 .. Size /\ i + 1 <= n
    BY <1>1, <1>2
  <2>8. TypeOK'
    BY <2>1, <2>4, <2>7 DEF LoopInv, TypeOK
  <2>9. ArgsInv' /\ ~Backwards' /\ ~Copying'
    BY <1>1, <2>1 DEF Backwards, Copying, LoopInv, ArgsInv, Disjoint
  <2>10. MemsetInv'
    BY <1>1, <2>1, <2>5, <2>6, <2>7 DEF MemsetInv
  <2> QED
    BY <1>1, <2>1, <2>8, <2>9, <2>10 DEF LoopInv, ForwardsInv, BackwardsInv, MemcmpInv, StrlenInv
<1>3. CASE ~(i < n)
  <2>1. UNCHANGED <<mem, before, f, dst, src, n, value, i, ret>> /\ running' = FALSE
    BY <1>3 DEF Memset, Return, args
  <2>2. TypeOK' /\ ArgsInv' /\ ~Backwards' /\ ~Copying'
    BY <1>1, <2>1 DEF LoopInv, TypeOK, ArgsInv, Disjoint, Backwards, Copying
  <2>3. i = n /\ Filled(i)' = Filled(i)
    BY <1>1, <1>3, <2>1 DEF Filled
  <2>4. MemsetInv'
    BY <1>1, <2>1, <2>3 DEF MemsetInv
  <2> QED BY <1>1, <2>1, <2>2, <2>4 DEF LoopInv, ForwardsInv, BackwardsInv, MemcmpInv, StrlenInv
<1> QED BY <1>2, <1>3

LEMMA MemcmpStep ==
  ASSUME LoopInv, Memcmp
  PROVE  LoopInv'
<1>1. /\ running /\ f = "memcmp" /\ i <= n /\ dst + n <= Size /\ src + n <= Size
      /\ \A k \in 0 .. i - 1 : mem[dst + k] = mem[src + k]
      /\ Size \in Nat \ {0} /\ dst \in Nat /\ src \in Nat /\ n \in Nat /\ i \in Nat
      /\ mem \in [Address -> Byte] /\ i \in 0 .. Size
  BY SizeIsNat DEF Memcmp, LoopInv, MemcmpInv, ArgsInv, TypeOK, Address
<1>2. UNCHANGED <<mem, before, f, dst, src, n, value>>
  BY DEF Memcmp, Return, args
<1>3. ArgsInv' /\ ~Backwards' /\ ~Copying' /\ f' = "memcmp"
  BY <1>1, <1>2 DEF LoopInv, ArgsInv, Disjoint, Backwards, Copying
<1>4. CASE i < n /\ mem[dst + i] = mem[src + i]
  <2>1. i' = i + 1 /\ running' = running /\ ret' = ret
    BY <1>4 DEF Memcmp
  <2>2. i + 1 \in 0 .. Size /\ i + 1 <= n
    BY <1>1, <1>4
  <2>3. \A k \in 0 .. (i + 1) - 1 : mem[dst + k] = mem[src + k]
    <3> TAKE k \in 0 .. (i + 1) - 1
    <3>1. CASE k = i
      BY <1>4, <3>1
    <3>2. CASE k # i
      BY <1>1, <3>2
    <3> QED BY <3>1, <3>2
  <2>4. MemcmpInv'
    BY <1>1, <1>2, <2>1, <2>2, <2>3 DEF MemcmpInv
  <2>5. TypeOK'
    BY <1>2, <2>1, <2>2 DEF LoopInv, TypeOK
  <2> QED BY <1>3, <2>4, <2>5 DEF LoopInv, ForwardsInv, BackwardsInv, MemsetInv, StrlenInv
<1>5. CASE ~(i < n /\ mem[dst + i] = mem[src + i])
  <2>1. /\ running' = FALSE /\ i' = i
        /\ ret' = IF i = n THEN 0 ELSE IF mem[dst + i] < mem[src + i] THEN -1 ELSE 1
    BY <1>5 DEF Memcmp, Return, Less
  <2>2. ret' \in -1 .. Size
    BY <1>1, <2>1
  <2>3. TypeOK'
    BY <1>2, <2>1, <2>2 DEF LoopInv, TypeOK
  <2>4. \/ i = n /\ ret' = 0
        \/ i < n /\ mem[dst + i] < mem[src + i] /\ ret' = -1
        \/ i < n /\ mem[dst + i] > mem[src + i] /\ ret' = 1
    <3>1. CASE i = n
      BY <2>1, <3>1
    <3>2. CASE i < n
      <4>1. dst + i \in Address /\ src + i \in Address
        BY <1>1, <3>2 DEF Address
      <4>2. mem[dst + i] \in Int /\ mem[src + i] \in Int
        BY <1>1, <4>1 DEF Byte
      <4> QED BY <1>1, <1>5, <2>1, <3>2, <4>2
    <3> QED BY <1>1, <3>1, <3>2
  <2>5. MemcmpInv'
    BY <1>1, <1>2, <2>1, <2>4 DEF MemcmpInv
  <2> QED BY <1>3, <2>3, <2>5 DEF LoopInv, ForwardsInv, BackwardsInv, MemsetInv, StrlenInv
<1> QED BY <1>4, <1>5

\* The NUL that the caller promised stays ahead, so that the loop ends in memory.
LEMMA StrlenStep ==
  ASSUME LoopInv, Strlen
  PROVE  LoopInv'
<1>1. /\ running /\ f = "strlen"
      /\ \E a \in Address : a >= src + i /\ mem[a] = 0
      /\ \A k \in 0 .. i - 1 : mem[src + k] # 0
      /\ Size \in Nat \ {0} /\ src \in Nat /\ i \in 0 .. Size
  BY SizeIsNat DEF Strlen, LoopInv, StrlenInv, TypeOK, Address
<1>2. UNCHANGED <<mem, before, f, dst, src, n, value>>
  BY DEF Strlen, Return, args
<1>3. ArgsInv' /\ ~Backwards' /\ ~Copying' /\ f' = "strlen"
  BY <1>1, <1>2 DEF LoopInv, ArgsInv, Disjoint, Backwards, Copying
<1>4. CASE mem[src + i] # 0
  <2>1. i' = i + 1 /\ running' = running /\ ret' = ret
    BY <1>4 DEF Strlen
  <2>2. PICK a \in Address : a >= src + i /\ mem[a] = 0
    BY <1>1
  <2>3. a >= src + (i + 1) /\ i + 1 \in 0 .. Size
    BY <1>1, <1>4, <2>2 DEF Address
  <2>4. \A k \in 0 .. (i + 1) - 1 : mem[src + k] # 0
    <3> TAKE k \in 0 .. (i + 1) - 1
    <3>1. CASE k = i
      BY <1>4, <3>1
    <3>2. CASE k # i
      BY <1>1, <3>2
    <3> QED BY <3>1, <3>2
  <2>5. StrlenInv'
    BY <1>1, <1>2, <2>1, <2>2, <2>3, <2>4 DEF StrlenInv
  <2>6. TypeOK'
    BY <1>2, <2>1, <2>3 DEF LoopInv, TypeOK
  <2> QED BY <1>3, <2>5, <2>6 DEF LoopInv, ForwardsInv, BackwardsInv, MemsetInv, MemcmpInv
<1>5. CASE mem[src + i] = 0
  <2>1. running' = FALSE /\ i' = i /\ ret' = i
    BY <1>5 DEF Strlen, Return
  <2>2. i \in -1 .. Size
    BY <1>1
  <2>3. TypeOK'
    BY <1>2, <2>1, <2>2 DEF LoopInv, TypeOK
  <2>4. StrlenInv'
    BY <1>1, <1>2, <1>5, <2>1 DEF StrlenInv
  <2> QED BY <1>3, <2>3, <2>4 DEF LoopInv, ForwardsInv, BackwardsInv, MemsetInv, MemcmpInv
<1> QED BY <1>4, <1>5

-----------------------------------------------------------------------------

LEMMA InitLoop == Init => LoopInv
<1> SUFFICES ASSUME Init PROVE LoopInv
  OBVIOUS
<1>1. TypeOK
  <2>1. 0 \in Address /\ 0 \in 0 .. Size /\ 0 \in -1 .. Size /\ 0 \in Int
    BY SizeIsNat DEF Address
  <2>2. mem \in [Address -> Byte] /\ before = mem
    <3>1. \A a \in Address : mem[a] \in Byte
      BY SizeIsNat DEF Init
    <3> QED BY <3>1 DEF Init
  <2> QED BY <2>1, <2>2 DEF Init, TypeOK, Names
<1>2. ArgsInv
  BY SizeIsNat DEF Init, ArgsInv
<1> QED
  BY <1>1, <1>2 DEF Init, LoopInv, ForwardsInv, BackwardsInv, MemsetInv, MemcmpInv, StrlenInv,
     Copying, Backwards

LEMMA LoopStep == LoopInv /\ [Next]_vars => LoopInv'
<1> SUFFICES ASSUME LoopInv, [Next]_vars PROVE LoopInv'
  OBVIOUS
<1>0. TypeOK /\ 0 \in Address /\ 0 \in 0 .. Size /\ 0 \in Int
  BY SizeIsNat DEF LoopInv, Address
<1>1. ASSUME NEW g \in {"memcpy", "memmove", "memcmp"}, NEW d \in Address, NEW s \in Address,
             NEW c \in 0 .. Size, Call(g, d, s, c, 0)
      PROVE  LoopInv'
  BY <1>0, <1>1, CallSetsUp DEF Names
<1>2. ASSUME NEW d \in Address, NEW c \in 0 .. Size, NEW v \in Fills, Call("memset", d, 0, c, v)
      PROVE  LoopInv'
  BY <1>0, <1>2, SizeIsNat, CallSetsUp DEF Names
<1>3. ASSUME NEW s \in Address, Call("strlen", 0, s, 0, 0)
      PROVE  LoopInv'
  BY <1>0, <1>3, CallSetsUp DEF Names
<1>4. CASE UNCHANGED vars
  BY <1>4 DEF vars, args, LoopInv, TypeOK, ArgsInv, Disjoint, ForwardsInv, BackwardsInv,
     MemsetInv, MemcmpInv, StrlenInv, Copying, Backwards, Copied, Filled
<1> QED
  BY <1>1, <1>2, <1>3, <1>4, ForwardsStep, BackwardsStep, MemsetStep, MemcmpStep, StrlenStep
  DEF Next

LEMMA LoopInvHolds == Spec => []LoopInv
BY InitLoop, LoopStep, PTL DEF Spec

\* No function reads or writes a byte outside the regions of its call, or behind the
\* NUL of its string, for every memory and every call.
THEOREM StringsStayInside == Spec => []StaysInside
<1>1. ASSUME LoopInv, running PROVE Touched \subseteq Given
  <2>1. /\ dst \in Address /\ src \in Address /\ n \in 0 .. Size /\ i \in 0 .. Size /\ Size \in Nat
        /\ dst + n <= Size /\ src + n <= Size /\ f \in Names
    BY <1>1, SizeIsNat DEF LoopInv, TypeOK, ArgsInv
  <2>2. CASE f = "strlen"
    <3>1. PICK a \in Address : a >= src + i /\ mem[a] = 0
      BY <1>1, <2>2 DEF LoopInv, StrlenInv
    <3>2. src + i \in Address /\ src + i >= src
      BY <2>1, <3>1 DEF Address
    <3>3. \A b \in src .. (src + i) - 1 : mem[b] # 0
      <4> SUFFICES ASSUME NEW b \in src .. (src + i) - 1 PROVE mem[b] # 0
        OBVIOUS
      <4>1. src \in Nat /\ i \in Nat
        BY <2>1 DEF Address
      <4>2. b \in Int /\ src <= b /\ b <= (src + i) - 1
        BY <4>1
      <4>3. b - src \in 0 .. i - 1 /\ src + (b - src) = b
        BY <4>1, <4>2
      <4>4. \A k \in 0 .. i - 1 : mem[src + k] # 0
        BY <1>1, <2>2 DEF LoopInv, StrlenInv
      <4> QED BY <4>3, <4>4
    <3>4. Touched = {src + i}
      BY <2>2 DEF Touched, Backwards
    <3> QED BY <2>2, <3>2, <3>3, <3>4 DEF Given
  <2>3. ASSUME f # "strlen", NEW k \in 0 .. n - 1
        PROVE  dst + k \in Given /\ (f # "memset" => src + k \in Given)
    <3>1. dst + k \in Region /\ dst + k \in Address /\ src + k \in Address
      BY <2>1 DEF Region, Address
    <3> QED BY <2>3, <3>1 DEF Given
  <2>4. CASE f # "strlen" /\ Backwards
    <3>1. i <= n
      BY <1>1, <2>4 DEF LoopInv, BackwardsInv
    <3>2. i # 0 => i - 1 \in 0 .. n - 1 /\ dst + (i - 1) = dst + i - 1 /\ src + (i - 1) = src + i - 1
      BY <2>1, <3>1 DEF Address
    <3>3. f # "memset"
      BY <2>4 DEF Backwards
    <3>4. i # 0 => dst + i - 1 \in Given /\ src + i - 1 \in Given
      <4>1. i # 0 => dst + (i - 1) \in Given /\ src + (i - 1) \in Given
        BY <2>3, <2>4, <3>2, <3>3
      <4> QED BY <3>2, <4>1
    <3>5. Touched = IF i # 0 THEN {dst + i - 1, src + i - 1} ELSE {}
      BY <2>4, <3>3 DEF Touched
    <3> QED BY <3>4, <3>5
  <2>5. CASE f # "strlen" /\ ~Backwards
    <3>1. i < n => i \in 0 .. n - 1
      BY <2>1
    <3>2. i < n => dst + i \in Given /\ (f # "memset" => src + i \in Given)
      BY <2>3, <2>5, <3>1
    <3>3. Touched = IF ~(i < n) THEN {} ELSE IF f = "memset" THEN {dst + i} ELSE {dst + i, src + i}
      BY <2>5 DEF Touched
    <3> QED BY <3>2, <3>3
  <2> QED BY <2>2, <2>4, <2>5
<1>2. LoopInv => StaysInside
  BY <1>1 DEF StaysInside
<1> QED BY <1>2, LoopInvHolds, PTL

\* memcpy and memmove copy what was there before the call, for every memory and
\* every pair of regions, overlapping or not.
THEOREM CopyIsRight == Spec => []CopiesWhatWasThere
<1>1. LoopInv => CopiesWhatWasThere
  <2> SUFFICES ASSUME LoopInv, ~running, Copying, NEW a \in Address
               PROVE  mem[a] = IF a \in Region THEN before[src + (a - dst)] ELSE before[a]
    BY DEF CopiesWhatWasThere, Copying
  <2>1. dst \in Nat /\ n \in Nat /\ dst + 0 = dst
    BY SizeIsNat DEF LoopInv, TypeOK, Address
  <2>2. mem = Copied(0, n)
    BY DEF LoopInv, ForwardsInv, BackwardsInv, Copying
  <2> QED BY <2>1, <2>2 DEF Copied, Region
<1> QED BY <1>1, LoopInvHolds, PTL

\* memset fills its region with the low byte of any int.
THEOREM FillIsRight == Spec => []FillsTheRegion
<1>1. LoopInv => FillsTheRegion
  BY DEF LoopInv, MemsetInv, Filled, FillsTheRegion, Region
<1> QED BY <1>1, LoopInvHolds, PTL

\* memcmp decides by the first difference.
THEOREM CompareIsRight == Spec => []ComparesFirstDifference
<1>1. LoopInv => ComparesFirstDifference
  <2> SUFFICES ASSUME LoopInv, ~running, f = "memcmp"
               PROVE  \/ ret = 0 /\ \A k \in 0 .. n - 1 : mem[dst + k] = mem[src + k]
                      \/ \E k \in 0 .. n - 1 :
                           /\ \A j \in 0 .. k - 1 : mem[dst + j] = mem[src + j]
                           /\ \/ ret = -1 /\ mem[dst + k] < mem[src + k]
                              \/ ret = 1  /\ mem[dst + k] > mem[src + k]
    BY DEF ComparesFirstDifference
  <2>1. i < n => i \in 0 .. n - 1
    BY SizeIsNat DEF LoopInv, TypeOK
  <2> QED BY <2>1 DEF LoopInv, MemcmpInv
<1> QED BY <1>1, LoopInvHolds, PTL

\* strlen finds the first NUL.
THEOREM LengthIsRight == Spec => []LengthIsFirstNul
<1>1. LoopInv => LengthIsFirstNul
  BY DEF LoopInv, StrlenInv, LengthIsFirstNul
<1> QED BY <1>1, LoopInvHolds, PTL

\* All five do what they promise, for every memory, region and int.
THEOREM PromiseIsKept == Spec => []KeepsItsPromise
<1>1. CopiesWhatWasThere /\ FillsTheRegion /\ ComparesFirstDifference /\ LengthIsFirstNul
        => KeepsItsPromise
  BY DEF KeepsItsPromise
<1> QED BY <1>1, CopyIsRight, FillIsRight, CompareIsRight, LengthIsRight, PTL

-----------------------------------------------------------------------------
(* Induction.  The library's theorem of induction has a predicate for a    *)
(* parameter, which no prover here can instantiate; this one has a set.    *)

Below == {p \in Nat \X Nat : p[1] < p[2]}

LEMMA BelowIsWellFounded == IsWellFoundedOn(Below, Nat)
BY NatLessThanWellFounded DEF OpToRel, Below

LEMMA LeastMember ==
  ASSUME NEW S \in SUBSET Nat, NEW s \in S
  PROVE  \E x \in S : \A y \in S : x <= y
<1>1. \E x \in S : \A y \in S : <<y, x>> \notin Below
  BY BelowIsWellFounded, WFMin, S # {}
<1>2. ASSUME NEW a \in Nat, NEW b \in Nat, <<a, b>> \notin Below PROVE b <= a
  <2>1. <<a, b>>[1] = a /\ <<a, b>>[2] = b /\ <<a, b>> \in Nat \X Nat
    OBVIOUS
  <2> QED BY <1>2, <2>1 DEF Below
<1> QED BY <1>1, <1>2

LEMMA Induction ==
  ASSUME NEW S \in SUBSET Nat, 0 \in S, \A k \in S : k + 1 \in S
  PROVE  S = Nat
<1> DEFINE T == Nat \ S
<1>1. SUFFICES ASSUME NEW t \in T PROVE FALSE
  OBVIOUS
<1>2. PICK x \in T : \A y \in T : x <= y
  <2> HIDE DEF T
  <2>1. T \in SUBSET Nat
    BY DEF T
  <2> QED BY <1>1, <2>1, LeastMember
<1>3. x # 0 /\ x - 1 \in Nat /\ x - 1 \notin T
  BY <1>2
<1>4. x - 1 \in S /\ (x - 1) + 1 = x
  BY <1>3
<1> QED BY <1>4

-----------------------------------------------------------------------------
(* Power.                                                                  *)

IsPower(g, base, e) == g = [k \in 0 .. e |-> IF k = 0 THEN 1 ELSE base * g[k - 1]]

LEMMA PowerExists ==
  ASSUME NEW base
  PROVE  \A e \in Nat : \E g : IsPower(g, base, e)
<1> DEFINE S == {e \in Nat : \E g : IsPower(g, base, e)}
<1>1. 0 \in S
  <2>1. IsPower([k \in 0 .. 0 |-> 1], base, 0)
    BY DEF IsPower
  <2> QED BY <2>1
<1>2. ASSUME NEW e \in S PROVE e + 1 \in S
  <2>1. PICK g : IsPower(g, base, e)
    OBVIOUS
  <2> DEFINE h == [k \in 0 .. e + 1 |-> IF k = e + 1 THEN base * g[e] ELSE g[k]]
  <2>2. e \in Nat
    OBVIOUS
  <2>3. \A k \in 0 .. e + 1 : h[k] = IF k = 0 THEN 1 ELSE base * h[k - 1]
    <3>1. \A k \in 0 .. e : h[k] = g[k]
      BY <2>2
    <3>2. h[e + 1] = base * g[e]
      BY <2>2
    <3>3. \A k \in 0 .. e : g[k] = IF k = 0 THEN 1 ELSE base * g[k - 1]
      BY <2>1 DEF IsPower
    <3> HIDE DEF h
    <3>4. ASSUME NEW k \in 0 .. e + 1 PROVE h[k] = IF k = 0 THEN 1 ELSE base * h[k - 1]
      <4>1. CASE k = e + 1
        <5>1. k # 0 /\ k - 1 = e /\ e \in 0 .. e
          BY <2>2, <4>1
        <5> QED BY <3>1, <3>2, <4>1, <5>1
      <4>2. CASE k # e + 1
        <5>1. k \in 0 .. e /\ (k # 0 => k - 1 \in 0 .. e)
          BY <2>2, <4>2
        <5> QED BY <3>1, <3>3, <5>1
      <4> QED BY <4>1, <4>2
    <3> QED BY <3>4
  <2>4. h = [k \in 0 .. e + 1 |-> h[k]]
    OBVIOUS
  <2> HIDE DEF h
  <2>5. IsPower(h, base, e + 1)
    BY <2>3, <2>4 DEF IsPower
  <2> QED BY <2>2, <2>5
<1> HIDE DEF S
<1>3. S = Nat
  <2>1. S \in SUBSET Nat
    BY DEF S
  <2> QED BY <1>1, <1>2, <2>1, Induction
<1> QED BY <1>3 DEF S

LEMMA PowerIsOne ==
  ASSUME NEW base, NEW e \in Nat, NEW g, IsPower(g, base, e)
  PROVE  \A k \in 0 .. e : Power(base, k) = g[k]
<1> DEFINE S == {k \in Nat : k <= e => Power(base, k) = g[k]}
<1>0. \A k \in 0 .. e : g[k] = IF k = 0 THEN 1 ELSE base * g[k - 1]
  BY DEF IsPower
<1>1. ASSUME NEW k \in Nat, NEW h, IsPower(h, base, k), k <= e
      PROVE  h[k] = g[k]
  <2> DEFINE T == {m \in Nat : m <= k => h[m] = g[m]}
  <2>1. 0 \in T
    BY <1>0, <1>1 DEF IsPower
  <2>2. ASSUME NEW m \in T PROVE m + 1 \in T
    <3>1. SUFFICES ASSUME m + 1 <= k PROVE h[m + 1] = g[m + 1]
      OBVIOUS
    <3>2. m \in Nat /\ m <= k /\ h[m] = g[m]
      BY <3>1
    <3>3. m + 1 \in 0 .. k /\ m + 1 \in 0 .. e /\ m + 1 # 0 /\ (m + 1) - 1 = m
      BY <1>1, <3>1, <3>2
    <3>4. h[m + 1] = base * h[m]
      BY <1>1, <3>3 DEF IsPower
    <3>5. g[m + 1] = base * g[m]
      BY <1>0, <3>3
    <3> QED BY <3>2, <3>4, <3>5
  <2> HIDE DEF T
  <2>3. T = Nat
    <3>1. T \in SUBSET Nat
      BY DEF T
    <3> QED BY <2>1, <2>2, <3>1, Induction
  <2> QED BY <2>3 DEF T
<1>2. ASSUME NEW k \in 0 .. e PROVE Power(base, k) = g[k]
  <2> DEFINE c == CHOOSE h : IsPower(h, base, k)
  <2>1. k \in Nat /\ k <= e
    OBVIOUS
  <2>2. \E h : IsPower(h, base, k)
    BY <2>1, PowerExists
  <2>3. IsPower(c, base, k)
    BY <2>2
  <2>4. Power(base, k) = c[k]
    BY DEF Power, IsPower
  <2> HIDE DEF c
  <2> QED BY <1>1, <2>1, <2>3, <2>4
<1> QED BY <1>2

\* What defines a power.
LEMMA PowerStep ==
  ASSUME NEW base \in Nat \ {0}, NEW e \in Nat
  PROVE  /\ Power(base, 0) = 1
         /\ Power(base, e + 1) = base * Power(base, e)
<1>1. e + 1 \in Nat /\ 0 \in 0 .. e + 1 /\ e \in 0 .. e + 1 /\ e + 1 \in 0 .. e + 1
      /\ e + 1 # 0 /\ (e + 1) - 1 = e
  OBVIOUS
<1>2. PICK g : IsPower(g, base, e + 1)
  BY <1>1, PowerExists
<1>3. Power(base, 0) = g[0] /\ Power(base, e) = g[e] /\ Power(base, e + 1) = g[e + 1]
  BY <1>1, <1>2, PowerIsOne
<1>4. g[0] = 1 /\ g[e + 1] = base * g[e]
  BY <1>1, <1>2 DEF IsPower
<1> QED BY <1>3, <1>4

LEMMA PowerGrows ==
  ASSUME NEW base \in Nat, base >= 2
  PROVE  \A e \in Nat : Power(base, e) \in Nat /\ Power(base, e) > e
<1> DEFINE S == {e \in Nat : Power(base, e) \in Nat /\ Power(base, e) > e}
<1>1. 0 \in S
  BY PowerStep
<1>2. ASSUME NEW e \in S PROVE e + 1 \in S
  <2> DEFINE q == Power(base, e)
  <2>1. Power(base, e + 1) = base * q /\ q \in Nat /\ q > e /\ e \in Nat
    BY PowerStep
  <2> HIDE DEF q
  <2>2. base * q \in Nat /\ base * q >= 2 * q
    BY <2>1
  <2> QED BY <2>1, <2>2
<1> HIDE DEF S
<1>3. S = Nat
  <2>1. S \in SUBSET Nat
    BY DEF S
  <2> QED BY <1>1, <1>2, <2>1, Induction
<1> QED BY <1>3 DEF S

-----------------------------------------------------------------------------
(* Numerals.                                                               *)

Bases == {10, 16}

\* Dividing by two numbers in turn is dividing by their product.
LEMMA DivIsUnique ==
  ASSUME NEW v \in Nat, NEW b \in Nat \ {0}, NEW q \in Nat, q * b <= v, v < q * b + b
  PROVE  v \div b = q
<1> DEFINE d == v \div b
<1>1. d \in Nat /\ d * b <= v /\ v < d * b + b
  OBVIOUS
<1> HIDE DEF d
<1>2. ~ (d < q)
  <2>1. ASSUME d < q PROVE d * b + b <= q * b
    <3>1. (q - d - 1) \in Nat /\ q = d + 1 + (q - d - 1)
      BY <1>1, <2>1
    <3>2. q * b = d * b + b + (q - d - 1) * b
      BY <1>1, <3>1
    <3>3. (q - d - 1) * b \in Nat /\ d * b \in Nat /\ q * b \in Nat
      BY <1>1, <3>1
    <3> QED BY <3>2, <3>3
  <2> QED BY <1>1, <2>1
<1>3. ~ (q < d)
  <2>1. ASSUME q < d PROVE q * b + b <= d * b
    <3>1. (d - q - 1) \in Nat /\ d = q + 1 + (d - q - 1)
      BY <1>1, <2>1
    <3>2. d * b = q * b + b + (d - q - 1) * b
      BY <1>1, <3>1
    <3>3. (d - q - 1) * b \in Nat /\ d * b \in Nat /\ q * b \in Nat
      BY <1>1, <3>1
    <3> QED BY <3>2, <3>3
  <2> QED BY <1>1, <2>1
<1> QED BY <1>1, <1>2, <1>3 DEF d

LEMMA DivTwice ==
  ASSUME NEW v \in Nat, NEW b \in Bases, NEW m \in Nat \ {0}
  PROVE  /\ v \div (b * m) = (v \div b) \div m
         /\ v < b * m <=> v \div b < m
<1> DEFINE w == v \div b
           q == w \div m
<1>1. b \in Nat \ {0}
  BY DEF Bases
<1>2. w \in Nat /\ w * b <= v /\ v < w * b + b
  BY <1>1
<1>3. q \in Nat /\ q * m <= w /\ w < q * m + m
  BY <1>2
<1> HIDE DEF w, q
<1>4. q * m \in Nat
  BY <1>3
<1>5. b * m \in Nat \ {0} /\ q * (b * m) <= v /\ v < q * (b * m) + b * m
  <2> DEFINE x == q * m
  <2>1. x \in Nat /\ x <= w /\ w < x + m
    BY <1>3, <1>4
  <2>2. q * (10 * m) = 10 * x /\ q * (16 * m) = 16 * x
    BY <1>3
  <2> HIDE DEF x
  <2>3. CASE b = 10
    <3>1. w * 10 <= v /\ v < w * 10 + 10
      BY <1>2, <2>3
    <3>2. 10 * m \in Nat \ {0} /\ q * (10 * m) <= v /\ v < q * (10 * m) + 10 * m
      BY <1>2, <2>1, <2>2, <3>1
    <3> QED BY <2>3, <3>2
  <2>4. CASE b = 16
    <3>1. w * 16 <= v /\ v < w * 16 + 16
      BY <1>2, <2>4
    <3>2. 16 * m \in Nat \ {0} /\ q * (16 * m) <= v /\ v < q * (16 * m) + 16 * m
      BY <1>2, <2>1, <2>2, <3>1
    <3> QED BY <2>4, <3>2
  <2> QED BY <2>3, <2>4 DEF Bases
<1>6. v \div (b * m) = q
  BY <1>3, <1>5, DivIsUnique
<1>7. v < b * m <=> w < m
  <2>1. CASE b = 10
    <3>1. w * 10 <= v /\ v < w * 10 + 10
      BY <1>2, <2>1
    <3> QED BY <1>2, <2>1, <3>1
  <2>2. CASE b = 16
    <3>1. w * 16 <= v /\ v < w * 16 + 16
      BY <1>2, <2>2
    <3> QED BY <1>2, <2>2, <3>1
  <2> QED BY <2>1, <2>2 DEF Bases
<1> QED BY <1>6, <1>7 DEF w, q

\* How many digits a number has.
IsLength(k, v, b) == v < Power(b, k) /\ \A m \in 1 .. k - 1 : v >= Power(b, m)

LEMMA LengthExists ==
  ASSUME NEW v \in Nat, NEW b \in Bases
  PROVE  \E k \in 1 .. v + 1 : IsLength(k, v, b)
<1> DEFINE S == {k \in Nat : k >= 1 /\ v < Power(b, k)}
<1>1. \A e \in Nat : Power(b, e) \in Nat /\ Power(b, e) > e
  BY PowerGrows DEF Bases
<1>2. v + 1 \in S
  <2>1. Power(b, v + 1) \in Nat /\ Power(b, v + 1) > v + 1
    BY <1>1
  <2> QED BY <2>1
<1>3. PICK k \in S : \A y \in S : k <= y
  <2>1. S \in SUBSET Nat
    OBVIOUS
  <2> HIDE DEF S
  <2> QED BY <1>2, <2>1, LeastMember
<1>4. k \in 1 .. v + 1 /\ v < Power(b, k)
  BY <1>2, <1>3
<1>5. ASSUME NEW m \in 1 .. k - 1 PROVE v >= Power(b, m)
  <2>1. m \in Nat /\ m >= 1 /\ ~ (k <= m)
    BY <1>4
  <2>2. m \notin S
    BY <1>3, <2>1
  <2> QED BY <1>1, <2>1, <2>2
<1> QED BY <1>4, <1>5 DEF IsLength

LEMMA LengthIsUnique ==
  ASSUME NEW v \in Nat, NEW b \in Bases, NEW k \in Nat \ {0}, NEW m \in Nat \ {0},
         IsLength(k, v, b), IsLength(m, v, b)
  PROVE  k = m
<1>0. b \in Nat /\ b >= 2
  BY DEF Bases
<1>1. \A e \in Nat : Power(b, e) \in Nat
  BY <1>0, PowerGrows
<1>2. k < m => k \in 1 .. m - 1
  OBVIOUS
<1>3. m < k => m \in 1 .. k - 1
  OBVIOUS
<1>4. v < Power(b, k) /\ v < Power(b, m) /\ Power(b, k) \in Nat /\ Power(b, m) \in Nat
  BY <1>1 DEF IsLength
<1>5. ~ (k < m)
  BY <1>2, <1>4 DEF IsLength
<1>6. ~ (m < k)
  BY <1>3, <1>4 DEF IsLength
<1> QED BY <1>5, <1>6

LEMMA NumeralOfLength ==
  ASSUME NEW v \in Nat, NEW b \in Bases, NEW k \in Nat \ {0}, IsLength(k, v, b)
  PROVE  Numeral(v, b) = [m \in 1 .. k |-> Digit[((v \div Power(b, k - m)) % b) + 1]]
<1> DEFINE c == CHOOSE x \in 1 .. v + 1 : IsLength(x, v, b)
<1>1. c \in 1 .. v + 1 /\ IsLength(c, v, b)
  BY LengthExists
<1>2. Numeral(v, b) = [m \in 1 .. c |-> Digit[((v \div Power(b, c - m)) % b) + 1]]
  BY DEF Numeral, IsLength
<1> HIDE DEF c
<1>3. c = k
  BY <1>1, LengthIsUnique
<1> QED BY <1>2, <1>3

Glyph == STRING \cup {"%", "-"} \cup {Digit[k] : k \in 1 .. 16}

LEMMA DigitIsGlyph ==
  ASSUME NEW v \in Nat, NEW b \in Bases
  PROVE  Digit[(v % b) + 1] \in Glyph
<1>1. (v % b) + 1 \in 1 .. 16
  BY DEF Bases
<1> HIDE DEF Digit
<1> QED BY <1>1 DEF Glyph

LEMMA NumeralTyped ==
  ASSUME NEW v \in Nat, NEW b \in Bases
  PROVE  Numeral(v, b) \in Seq(Glyph)
<1>1. PICK k \in 1 .. v + 1 : IsLength(k, v, b)
  BY LengthExists
<1>2. Numeral(v, b) = [m \in 1 .. k |-> Digit[((v \div Power(b, k - m)) % b) + 1]]
  BY <1>1, NumeralOfLength
<1>3. ASSUME NEW m \in 1 .. k PROVE Digit[((v \div Power(b, k - m)) % b) + 1] \in Glyph
  <2>1. k - m \in Nat
    BY <1>1
  <2>2. Power(b, k - m) \in Nat \ {0}
    BY <2>1, PowerGrows DEF Bases
  <2>3. v \div Power(b, k - m) \in Nat
    BY <2>2
  <2> QED BY <2>3, DigitIsGlyph
<1>4. k \in Nat
  BY <1>1
<1> DEFINE F(m) == Digit[((v \div Power(b, k - m)) % b) + 1]
<1>5. \A m \in 1 .. k : F(m) \in Glyph
  BY <1>3
<1> HIDE DEF F
<1>6. [m \in 1 .. k |-> F(m)] \in Seq(Glyph)
  BY <1>4, <1>5
<1> QED BY <1>2, <1>6 DEF F

\* A numeral ends in the last digit; before it is the numeral of the quotient.
LEMMA NumeralStep ==
  ASSUME NEW v \in Nat, NEW b \in Bases
  PROVE  Numeral(v, b) =
           (IF v \div b = 0 THEN <<>> ELSE Numeral(v \div b, b)) \o << Digit[(v % b) + 1] >>
<1> DEFINE w == v \div b
<1>1. b \in Nat \ {0} /\ b >= 2 /\ w \in Nat
  BY DEF Bases
<1>2. Power(b, 0) = 1 /\ Power(b, 1) = b
  <2>1. Power(b, 0 + 1) = b * Power(b, 0) /\ Power(b, 0) = 1
    BY <1>1, PowerStep
  <2> QED BY <1>1, <2>1
<1>3. v \div 1 = v
  OBVIOUS
<1>4. CASE w = 0
  <2>1. v < b
    BY <1>4 DEF Bases
  <2>2. IsLength(1, v, b)
    BY <1>2, <2>1 DEF IsLength
  <2>3. Numeral(v, b) = [m \in 1 .. 1 |-> Digit[((v \div Power(b, 1 - m)) % b) + 1]]
    <3>1. 1 \in Nat \ {0}
      OBVIOUS
    <3> QED BY <2>2, <3>1, NumeralOfLength
  <2>4. Numeral(v, b) = [m \in 1 .. 1 |-> Digit[(v % b) + 1]]
    BY <1>2, <1>3, <2>3
  <2> DEFINE g == Digit[(v % b) + 1]
  <2>5. <<>> \o <<g>> = [m \in 1 .. 1 |-> g]
    <3> HIDE DEF g
    <3>1. <<g>> \in Seq({g})
      OBVIOUS
    <3>2. <<>> \o <<g>> = <<g>>
      BY <3>1, ConcatEmptySeq
    <3> QED BY <3>2
  <2> QED BY <1>4, <2>4, <2>5
<1>5. CASE w # 0
  <2>1. PICK k \in 1 .. w + 1 : IsLength(k, w, b)
    BY <1>1, LengthExists
  <2>2. k \in Nat \ {0} /\ k + 1 \in Nat \ {0}
    BY <1>1, <2>1
  <2>3. \A e \in Nat : Power(b, e) \in Nat \ {0} /\ Power(b, e + 1) = b * Power(b, e)
    <3> TAKE e \in Nat
    <3>1. Power(b, e) \in Nat /\ Power(b, e) > e
      BY <1>1, PowerGrows
    <3>2. Power(b, e + 1) = b * Power(b, e)
      BY <1>1, PowerStep
    <3>3. Power(b, e) \in Nat \ {0}
      BY <3>1
    <3> QED BY <3>2, <3>3
  <2>4. \A e \in Nat : /\ v \div Power(b, e + 1) = w \div Power(b, e)
                       /\ v < Power(b, e + 1) <=> w < Power(b, e)
    <3> TAKE e \in Nat
    <3> DEFINE m == Power(b, e)
    <3>1. m \in Nat \ {0} /\ Power(b, e + 1) = b * m
      BY <2>3
    <3> HIDE DEF m
    <3>2. v \div (b * m) = w \div m /\ (v < b * m <=> w < m)
      BY <3>1, DivTwice
    <3> QED BY <3>1, <3>2 DEF m
  <2>5. IsLength(k + 1, v, b)
    <3>1. v < Power(b, k + 1)
      BY <2>1, <2>2, <2>4 DEF IsLength
    <3>2. ASSUME NEW m \in 1 .. (k + 1) - 1 PROVE v >= Power(b, m)
      <4>1. CASE m = 1
        <5>1. v >= b
          BY <1>5 DEF Bases
        <5> QED BY <1>2, <4>1, <5>1
      <4>2. CASE m # 1
        <5>1. m - 1 \in 1 .. k - 1 /\ m - 1 \in Nat /\ (m - 1) + 1 = m
          BY <2>2, <4>2
        <5>2. w >= Power(b, m - 1)
          BY <2>1, <5>1 DEF IsLength
        <5>3. Power(b, m - 1) \in Nat /\ Power(b, m) \in Nat
          BY <2>3, <5>1
        <5>4. ~ (w < Power(b, m - 1))
          BY <1>1, <5>2, <5>3
        <5>5. ~ (v < Power(b, m))
          BY <2>4, <5>1, <5>4
        <5> QED BY <5>3, <5>5
      <4> QED BY <4>1, <4>2
    <3> QED BY <3>1, <3>2 DEF IsLength
  <2> DEFINE F(m) == Digit[((v \div Power(b, (k + 1) - m)) % b) + 1]
             G(m) == Digit[((w \div Power(b, k - m)) % b) + 1]
             g    == Digit[(v % b) + 1]
  <2>6. Numeral(v, b) = [m \in 1 .. k + 1 |-> F(m)]
    BY <2>2, <2>5, NumeralOfLength
  <2>7. Numeral(w, b) = [m \in 1 .. k |-> G(m)]
    BY <1>1, <2>1, <2>2, NumeralOfLength
  <2>8. ASSUME NEW m \in 1 .. k PROVE F(m) = G(m)
    <3>1. k - m \in Nat /\ (k + 1) - m = (k - m) + 1
      BY <2>2
    <3>2. v \div Power(b, (k - m) + 1) = w \div Power(b, k - m)
      BY <2>4, <3>1
    <3> QED BY <3>1, <3>2
  <2>9. F(k + 1) = g
    <3>1. (k + 1) - (k + 1) = 0
      BY <2>2
    <3> QED BY <1>2, <1>3, <3>1
  <2> HIDE DEF F, G, g
  <2>10. [m \in 1 .. k + 1 |-> F(m)] = [m \in 1 .. k |-> G(m)] \o <<g>>
    <3> DEFINE s == [m \in 1 .. k |-> G(m)]
               U == {G(m) : m \in 1 .. k} \cup {g}
    <3>1. s \in Seq(U) /\ Len(s) = k /\ \A m \in 1 .. k : s[m] = G(m)
      BY <2>2
    <3>2. <<g>> \in Seq(U) /\ Len(<<g>>) = 1 /\ <<g>>[1] = g
      OBVIOUS
    <3> HIDE DEF s, U
    <3>3. s \o <<g>> = [m \in 1 .. k + 1 |-> IF m <= k THEN s[m] ELSE g]
      BY <2>2, <3>1, <3>2
    <3>4. \A m \in 1 .. k + 1 : F(m) = IF m <= k THEN s[m] ELSE g
      BY <2>2, <2>8, <2>9, <3>1
    <3> QED BY <3>3, <3>4 DEF s
  <2> QED BY <1>5, <2>6, <2>7, <2>10 DEF g
<1> QED BY <1>4, <1>5

\* Digits is a function defined by recursion: what it is, and that there is one.
IsDigits(g, v, b) ==
  g = [u \in 0 .. v |->
        (IF u \div b = 0 THEN <<>> ELSE g[u \div b]) \o << Digit[(u % b) + 1] >>]

LEMMA DigitsIsNumeral ==
  ASSUME NEW v \in Nat, NEW b \in Bases
  PROVE  Digits(v, b) = Numeral(v, b)
<1>1. b \in Nat \ {0} /\ b >= 2
  BY DEF Bases
<1>2. \A u \in Nat : u \div b \in Nat /\ u \div b <= u /\ (u \div b = u => u = 0)
  <2> TAKE u \in Nat
  <2>1. CASE b = 10
    BY <2>1
  <2>2. CASE b = 16
    BY <2>2
  <2> QED BY <2>1, <2>2 DEF Bases
<1> DEFINE N == [u \in 0 .. v |-> Numeral(u, b)]
           c == CHOOSE g : IsDigits(g, v, b)
<1>3. IsDigits(N, v, b)
  <2>1. ASSUME NEW u \in 0 .. v
        PROVE  N[u] = (IF u \div b = 0 THEN <<>> ELSE N[u \div b]) \o << Digit[(u % b) + 1] >>
    <3>1. u \in Nat /\ u \div b \in 0 .. v
      BY <1>2
    <3>2. N[u] = Numeral(u, b) /\ N[u \div b] = Numeral(u \div b, b)
      BY <3>1
    <3> HIDE DEF N
    <3> QED BY <3>1, <3>2, NumeralStep
  <2>2. N = [u \in 0 .. v |-> N[u]]
    OBVIOUS
  <2> HIDE DEF N
  <2> QED BY <2>1, <2>2 DEF IsDigits
<1>4. IsDigits(c, v, b)
  BY <1>3
<1>5. Digits(v, b) = c[v]
  BY DEF Digits, IsDigits
<1> HIDE DEF N, c
<1> DEFINE S == {u \in Nat : u <= v /\ c[u] # Numeral(u, b)}
<1>6. SUFFICES ASSUME v \in S PROVE FALSE
  BY <1>5
<1>7. PICK x \in S : \A y \in S : x <= y
  <2>1. S \in SUBSET Nat
    OBVIOUS
  <2> HIDE DEF S
  <2> QED BY <1>6, <2>1, LeastMember
<1>8. x \in Nat /\ x \in 0 .. v /\ c[x] # Numeral(x, b)
  OBVIOUS
<1>9. c[x] = (IF x \div b = 0 THEN <<>> ELSE c[x \div b]) \o << Digit[(x % b) + 1] >>
  BY <1>4, <1>8 DEF IsDigits
<1>10. x \div b # 0 => c[x \div b] = Numeral(x \div b, b)
  <2>1. SUFFICES ASSUME x \div b # 0 PROVE x \div b \notin S /\ x \div b \in Nat /\ x \div b <= v
    OBVIOUS
  <2>2. x \div b \in Nat /\ x \div b <= x /\ x \div b # x
    BY <1>2, <1>8, <2>1
  <2> DEFINE d == x \div b
  <2> HIDE DEF d, S
  <2>3. d \notin S
    BY <1>7, <1>8, <2>2 DEF d
  <2> QED BY <1>8, <2>2, <2>3 DEF d
<1> QED BY <1>8, <1>9, <1>10, NumeralStep

\* What itoa writes is the number in decimal, or in hexadecimal as an unsigned int:
\* for every int, the least one too, whose -value wraps.
THEOREM ItoaConverts ==
  ASSUME NEW d \in -INT_MAX - 1 .. INT_MAX
  PROVE  /\ itoa(d, 10) = Converted("d", d) /\ itoa(d, 10) \in Seq(Glyph)
         /\ itoa(d, 16) = Converted("x", d) /\ itoa(d, 16) \in Seq(Glyph)
<1> DEFINE m == 2 * INT_MAX + 2
<1>1. INT_MAX \in Nat \ {0} /\ m \in Nat \ {0} /\ d \in Int
  BY PrintfAssumption
<1>2. ASSUME NEW v \in 0 .. m - 1 PROVE v % m = v
  <2>1. v \in Nat /\ 0 * m <= v /\ v < 0 * m + m
    BY <1>1
  <2> HIDE DEF m
  <2>2. v \div m = 0
    BY <1>1, <2>1, DivIsUnique
  <2>3. v = m * (v \div m) + (v % m)
    BY <1>1, <2>1
  <2> QED BY <1>1, <2>1, <2>2, <2>3
<1>3. ASSUME d < 0 PROVE d % m = m + d
  <2>1. d + m \in 0 .. m - 1 /\ d + m \in Nat
    BY <1>1, <1>3
  <2>2. (d + m) % m = d + m
    BY <1>2, <2>1
  <2> DEFINE q == d \div m
             r == d % m
  <2> HIDE DEF m
  <2>3. q \in Int /\ r \in 0 .. m - 1 /\ d = m * q + r
    <3>1. d \in Int /\ m \in Nat \ {0}
      BY <1>1
    <3>2. q \in Int
      BY <3>1
    <3>3. r \in 0 .. m - 1
      BY <3>1
    <3>4. d = m * q + r
      BY <3>1
    <3> QED BY <3>2, <3>3, <3>4
  <2> HIDE DEF q, r
  <2>4. q = 0 - 1
    <3>1. ~ (q >= 0)
      <4>1. q >= 0 => m * q \in Nat
        BY <1>1, <2>3
      <4> QED BY <1>1, <1>3, <2>3, <4>1
    <3>2. ~ (q <= 0 - 2)
      <4>1. ASSUME q <= 0 - 2 PROVE m * q <= 0 - 2 * m
        <5>1. 0 - q - 2 \in Nat /\ q = 0 - 2 - (0 - q - 2)
          BY <2>3, <4>1
        <5>2. m * (0 - q - 2) \in Nat
          BY <1>1, <5>1
        <5>3. m * q = 0 - 2 * m - m * (0 - q - 2)
          BY <1>1, <2>3
        <5> QED BY <1>1, <2>3, <5>2, <5>3
      <4>2. m * q \in Int
        BY <1>1, <2>3
      <4> QED BY <1>1, <2>1, <2>3, <4>1, <4>2
    <3> QED BY <2>3, <3>1, <3>2
  <2>5. m * q = 0 - m
    BY <1>1, <2>4
  <2> QED BY <1>1, <2>3, <2>5 DEF r
<1>4. 10 \in Bases /\ 16 \in Bases
  BY DEF Bases
<1>5. d >= 0 => Unsigned(d) = d
  <2>1. d >= 0 => d \in 0 .. m - 1
    BY <1>1
  <2> QED BY <1>2, <2>1 DEF Unsigned
<1>6. d < 0 => Unsigned(d) = m + d /\ m + d \in Nat
  BY <1>1, <1>3 DEF Unsigned
<1>7. d < 0 => Unsigned(-d) = 0 - d /\ 0 - d \in Nat /\ -d = 0 - d
  <2>1. d < 0 => 0 - d \in 0 .. m - 1 /\ -d = 0 - d
    BY <1>1
  <2> QED BY <1>1, <1>2, <2>1 DEF Unsigned
<1>8. itoa(d, 10) = Converted("d", d)
  <2>1. CASE d < 0
    <3>1. itoa(d, 10) = <<"-">> \o Digits(0 - d, 10)
      BY <1>7, <2>1 DEF itoa
    <3>2. Converted("d", d) = <<"-">> \o Numeral(0 - d, 10)
      BY <2>1 DEF Converted
    <3> QED BY <1>4, <1>7, <2>1, <3>1, <3>2, DigitsIsNumeral
  <2>2. CASE ~ (d < 0)
    <3>1. d >= 0 /\ d \in Nat
      BY <1>1, <2>2
    <3>2. itoa(d, 10) = Digits(d, 10)
      BY <1>5, <2>2, <3>1 DEF itoa
    <3>3. Converted("d", d) = Numeral(d, 10)
      BY <2>2 DEF Converted
    <3> QED BY <1>4, <3>1, <3>2, <3>3, DigitsIsNumeral
  <2> QED BY <2>1, <2>2
<1>9. itoa(d, 16) = Converted("x", d)
  <2>1. itoa(d, 16) = Digits(Unsigned(d), 16)
    BY DEF itoa
  <2>2. Converted("x", d) = Numeral(IF d < 0 THEN m + d ELSE d, 16)
    BY DEF Converted
  <2> HIDE DEF m
  <2>3. (IF d < 0 THEN m + d ELSE d) \in Nat /\ Unsigned(d) = IF d < 0 THEN m + d ELSE d
    BY <1>1, <1>5, <1>6
  <2> QED BY <1>4, <2>1, <2>2, <2>3, DigitsIsNumeral
<1>10. Converted("d", d) \in Seq(Glyph)
  <2>1. <<"-">> \in Seq(Glyph)
    <3> HIDE DEF Digit
    <3> QED BY DEF Glyph
  <2>2. CASE d < 0
    <3>1. Converted("d", d) = <<"-">> \o Numeral(0 - d, 10)
      BY <2>2 DEF Converted
    <3>2. Numeral(0 - d, 10) \in Seq(Glyph)
      BY <1>4, <1>7, <2>2, NumeralTyped
    <3> QED BY <2>1, <3>1, <3>2, ConcatProperties
  <2>3. CASE ~ (d < 0)
    <3>1. d \in Nat
      BY <1>1, <2>3
    <3>2. Converted("d", d) = Numeral(d, 10)
      BY <2>3 DEF Converted
    <3> QED BY <1>4, <3>1, <3>2, NumeralTyped
  <2> QED BY <2>2, <2>3
<1>11. Converted("x", d) \in Seq(Glyph)
  <2>1. Converted("x", d) = Numeral(IF d < 0 THEN m + d ELSE d, 16)
    BY DEF Converted
  <2> HIDE DEF m
  <2>2. (IF d < 0 THEN m + d ELSE d) \in Nat
    BY <1>1, <1>6
  <2> QED BY <1>4, <2>1, <2>2, NumeralTyped
<1> QED BY <1>8, <1>9, <1>10, <1>11

-----------------------------------------------------------------------------
(* Reading a format.                                                       *)

IsReading(g, fmt, as, p) ==
  g = [k \in 0 .. p |-> IF k = 0 THEN Opened ELSE Read(g[k - 1], fmt[k], as)]

LEMMA ReadingExists ==
  ASSUME NEW fmt, NEW as
  PROVE  \A p \in Nat : \E g : IsReading(g, fmt, as, p)
<1> DEFINE S == {p \in Nat : \E g : IsReading(g, fmt, as, p)}
<1>1. 0 \in S
  <2>1. IsReading([k \in 0 .. 0 |-> Opened], fmt, as, 0)
    BY DEF IsReading
  <2> QED BY <2>1
<1>2. ASSUME NEW p \in S PROVE p + 1 \in S
  <2>1. PICK g : IsReading(g, fmt, as, p)
    OBVIOUS
  <2>2. p \in Nat /\ p + 1 \in Nat
    OBVIOUS
  <2> DEFINE e == Read(g[p], fmt[p + 1], as)
             h == [k \in 0 .. p + 1 |-> IF k = p + 1 THEN e ELSE g[k]]
  <2> HIDE DEF S, e
  <2>3. \A k \in 0 .. p + 1 : h[k] = IF k = 0 THEN Opened ELSE Read(h[k - 1], fmt[k], as)
    <3>1. \A k \in 0 .. p : h[k] = g[k]
      BY <2>2
    <3>2. h[p + 1] = e
      BY <2>2
    <3>3. \A k \in 0 .. p : g[k] = IF k = 0 THEN Opened ELSE Read(g[k - 1], fmt[k], as)
      BY <2>1 DEF IsReading
    <3> HIDE DEF h
    <3>4. ASSUME NEW k \in 0 .. p + 1
          PROVE  h[k] = IF k = 0 THEN Opened ELSE Read(h[k - 1], fmt[k], as)
      <4>1. CASE k = p + 1
        <5>1. k # 0 /\ k - 1 = p /\ p \in 0 .. p
          BY <2>2, <4>1
        <5>2. h[k] = Read(h[p], fmt[p + 1], as)
          BY <3>1, <3>2, <4>1, <5>1 DEF e
        <5> QED BY <4>1, <5>1, <5>2
      <4>2. CASE k # p + 1
        <5>1. k \in 0 .. p /\ (k # 0 => k - 1 \in 0 .. p)
          BY <2>2, <4>2
        <5> QED BY <3>1, <3>3, <5>1
      <4> QED BY <4>1, <4>2
    <3> QED BY <3>4
  <2>4. h = [k \in 0 .. p + 1 |-> h[k]]
    OBVIOUS
  <2> HIDE DEF h
  <2>5. IsReading(h, fmt, as, p + 1)
    BY <2>3, <2>4 DEF IsReading
  <2>6. \E x : IsReading(x, fmt, as, p + 1)
    BY <2>5
  <2> QED BY <2>2, <2>6 DEF S
<1> HIDE DEF S
<1>3. S = Nat
  <2>1. S \in SUBSET Nat
    BY DEF S
  <2> QED BY <1>1, <1>2, <2>1, Induction
<1> QED BY <1>3 DEF S

LEMMA ReadingIsOne ==
  ASSUME NEW fmt, NEW as, NEW p \in Nat
  PROVE  \E g : IsReading(g, fmt, as, p) /\ \A m \in 0 .. p : Reading(fmt, as, m) = g[m]
<1>1. PICK g : IsReading(g, fmt, as, p)
  BY ReadingExists
<1>2. \A k \in 0 .. p : g[k] = IF k = 0 THEN Opened ELSE Read(g[k - 1], fmt[k], as)
  BY <1>1 DEF IsReading
<1>3. ASSUME NEW k \in Nat, NEW h, IsReading(h, fmt, as, k), k <= p
      PROVE  h[k] = g[k]
  <2> DEFINE T == {x \in Nat : x <= k => h[x] = g[x]}
  <2>1. 0 \in T
    <3>1. h[0] = Opened
      BY <1>3 DEF IsReading
    <3>2. g[0] = Opened
      BY <1>1 DEF IsReading
    <3> QED BY <3>1, <3>2
  <2>2. ASSUME NEW x \in T PROVE x + 1 \in T
    <3>1. SUFFICES ASSUME x + 1 <= k PROVE h[x + 1] = g[x + 1]
      OBVIOUS
    <3>2. x \in Nat /\ x <= k /\ h[x] = g[x]
      BY <3>1
    <3>3. x + 1 \in 0 .. k /\ x + 1 \in 0 .. p /\ x + 1 # 0 /\ (x + 1) - 1 = x
      BY <1>3, <3>1, <3>2
    <3>4. h[x + 1] = Read(h[x], fmt[x + 1], as)
      BY <1>3, <3>3 DEF IsReading
    <3>5. g[x + 1] = Read(g[x], fmt[x + 1], as)
      BY <1>2, <3>3
    <3> QED BY <3>2, <3>4, <3>5
  <2> HIDE DEF T
  <2>3. T = Nat
    <3>1. T \in SUBSET Nat
      BY DEF T
    <3> QED BY <2>1, <2>2, <3>1, Induction
  <2> QED BY <2>3 DEF T
<1> SUFFICES ASSUME NEW m \in 0 .. p PROVE Reading(fmt, as, m) = g[m]
  BY <1>1
<1> DEFINE c == CHOOSE h : IsReading(h, fmt, as, m)
<1>4. m \in Nat /\ m <= p
  OBVIOUS
<1>5. \E h : IsReading(h, fmt, as, m)
  BY <1>4, ReadingExists
<1>6. IsReading(c, fmt, as, m)
  BY <1>5
<1>7. Reading(fmt, as, m) = c[m]
  BY DEF Reading, IsReading
<1> HIDE DEF c
<1> QED BY <1>3, <1>4, <1>6, <1>7

\* What defines a reading.
LEMMA ReadingStep ==
  ASSUME NEW fmt, NEW as, NEW p \in Nat
  PROVE  /\ Reading(fmt, as, 0) = Opened
         /\ Reading(fmt, as, p + 1) = Read(Reading(fmt, as, p), fmt[p + 1], as)
<1>1. PICK q \in Nat : q = p + 1
  OBVIOUS
<1>2. PICK g : IsReading(g, fmt, as, q) /\ \A m \in 0 .. q : Reading(fmt, as, m) = g[m]
  BY ReadingIsOne
<1>3. 0 \in 0 .. q /\ p \in 0 .. q /\ q \in 0 .. q /\ q # 0 /\ q - 1 = p
  BY <1>1
<1>4. g[0] = Opened /\ g[q] = Read(g[p], fmt[q], as)
  BY <1>2, <1>3 DEF IsReading
<1> QED BY <1>1, <1>2, <1>3, <1>4

Reader(t, u, m) == [text |-> t, used |-> u, mode |-> m]

\* A reader is a record of a text, a count of arguments and a mode.
IsReader(r) ==
  /\ r = [text |-> r.text, used |-> r.used, mode |-> r.mode]
  /\ r.used \in Nat
  /\ r.mode \in {"plain", "directive", "verbatim"}

LEMMA ReadIsReader ==
  ASSUME NEW r, IsReader(r), NEW c, NEW as
  PROVE  IsReader(Read(r, c, as))
<1> DEFINE t == r.text
           u == r.used
           m == r.mode
<1>1. r = [text |-> t, used |-> u, mode |-> m] /\ u \in Nat
      /\ m \in {"plain", "directive", "verbatim"}
  BY DEF IsReader
<1> HIDE DEF t, u, m
<1>2. CASE m = "plain"
  <2>1. CASE c = "%"
    <3>1. Read(r, c, as) = [text |-> t, used |-> u, mode |-> "directive"]
      BY <1>1, <1>2, <2>1 DEF Read
    <3> QED BY <1>1, <3>1 DEF IsReader
  <2>2. CASE c # "%"
    <3>1. Read(r, c, as) = [text |-> Append(t, c), used |-> u, mode |-> "plain"]
      BY <1>1, <1>2, <2>2 DEF Read
    <3> QED BY <1>1, <3>1 DEF IsReader
  <2> QED BY <2>1, <2>2
<1>3. CASE m = "verbatim"
  <2>1. Read(r, c, as) = [text |-> Append(t, c), used |-> u, mode |-> "verbatim"]
    BY <1>1, <1>3 DEF Read
  <2> QED BY <1>1, <2>1 DEF IsReader
<1>4. CASE m = "directive"
  <2>1. CASE c = "%"
    <3>1. Read(r, c, as) = [text |-> Append(t, c), used |-> u, mode |-> "plain"]
      BY <1>1, <1>4, <2>1 DEF Read
    <3> QED BY <1>1, <3>1 DEF IsReader
  <2>2. CASE c \in {"c", "s", "d", "x"}
    <3>1. Read(r, c, as) =
            [text |-> t \o Converted(c, as[u + 1]), used |-> u + 1, mode |-> "plain"]
      BY <1>1, <1>4, <2>2 DEF Read
    <3>2. u + 1 \in Nat
      BY <1>1
    <3> QED BY <3>1, <3>2 DEF IsReader
  <2>3. CASE c \notin {"%", "c", "s", "d", "x"}
    <3>1. Read(r, c, as) = [text |-> t \o <<"%", c>>, used |-> u, mode |-> "verbatim"]
      BY <1>1, <1>4, <2>3 DEF Read
    <3> QED BY <1>1, <3>1 DEF IsReader
  <2> QED BY <2>1, <2>2, <2>3
<1> QED BY <1>1, <1>2, <1>3, <1>4

LEMMA ReadingIsReader ==
  ASSUME NEW fmt, NEW as
  PROVE  \A p \in Nat : IsReader(Reading(fmt, as, p))
<1> DEFINE S == {p \in Nat : IsReader(Reading(fmt, as, p))}
<1>1. 0 \in S
  <2>1. Reading(fmt, as, 0) = Opened
    BY ReadingStep
  <2>2. IsReader(Opened)
    BY DEF Opened, IsReader
  <2> QED BY <2>1, <2>2
<1>2. ASSUME NEW p \in S PROVE p + 1 \in S
  <2>1. p \in Nat /\ p + 1 \in Nat /\ IsReader(Reading(fmt, as, p))
    OBVIOUS
  <2>2. Reading(fmt, as, p + 1) = Read(Reading(fmt, as, p), fmt[p + 1], as)
    BY <2>1, ReadingStep
  <2>3. IsReader(Reading(fmt, as, p + 1))
    BY <2>1, <2>2, ReadIsReader
  <2> QED BY <2>1, <2>3
<1> HIDE DEF S
<1>3. S = Nat
  <2>1. S \in SUBSET Nat
    BY DEF S
  <2> QED BY <1>1, <1>2, <2>1, Induction
<1> QED BY <1>3 DEF S

\* A reader looks at no argument but the next, and only to use it.
LEMMA ReadLooksAtNext ==
  ASSUME NEW r, IsReader(r), NEW c, NEW as, NEW bs, NEW q \in Nat,
         \A k \in 1 .. q : as[k] = bs[k],
         Read(r, c, as).used <= q
  PROVE  r.used <= q /\ Read(r, c, bs) = Read(r, c, as)
<1> DEFINE t == r.text
           u == r.used
           m == r.mode
<1>1. r = [text |-> t, used |-> u, mode |-> m] /\ u \in Nat
      /\ m \in {"plain", "directive", "verbatim"}
  BY DEF IsReader
<1> HIDE DEF t, u, m
<1>2. CASE m = "directive" /\ c \in {"c", "s", "d", "x"}
  <2>1. /\ Read(r, c, as) = [text |-> t \o Converted(c, as[u + 1]), used |-> u + 1, mode |-> "plain"]
        /\ Read(r, c, bs) = [text |-> t \o Converted(c, bs[u + 1]), used |-> u + 1, mode |-> "plain"]
    BY <1>1, <1>2 DEF Read
  <2>2. u + 1 <= q
    BY <2>1
  <2>3. u + 1 \in 1 .. q /\ u <= q
    BY <1>1, <2>2
  <2> QED BY <2>1, <2>3 DEF u
<1>3. CASE ~ (m = "directive" /\ c \in {"c", "s", "d", "x"})
  <2>1. Read(r, c, as) = Read(r, c, bs) /\ Read(r, c, as).used = u
    <3>1. CASE m = "plain" /\ c = "%"
      BY <1>1, <3>1 DEF Read
    <3>2. CASE m = "plain" /\ c # "%"
      BY <1>1, <3>2 DEF Read
    <3>3. CASE m = "verbatim"
      BY <1>1, <3>3 DEF Read
    <3>4. CASE m = "directive" /\ c = "%"
      BY <1>1, <3>4 DEF Read
    <3>5. CASE m = "directive" /\ c \notin {"%", "c", "s", "d", "x"}
      BY <1>1, <3>5 DEF Read
    <3> QED BY <1>1, <1>3, <3>1, <3>2, <3>3, <3>4, <3>5
  <2> QED BY <2>1 DEF u
<1> QED BY <1>2, <1>3

\* Arguments that have not been read make no difference.
LEMMA LaterArguments ==
  ASSUME NEW fmt, NEW as, NEW bs, NEW q \in Nat, \A k \in 1 .. q : as[k] = bs[k]
  PROVE  \A p \in Nat : Reading(fmt, as, p).used <= q => Reading(fmt, bs, p) = Reading(fmt, as, p)
<1> DEFINE S == {p \in Nat : Reading(fmt, as, p).used <= q
                               => Reading(fmt, bs, p) = Reading(fmt, as, p)}
<1>1. 0 \in S
  BY ReadingStep
<1>2. ASSUME NEW p \in S PROVE p + 1 \in S
  <2> DEFINE r == Reading(fmt, as, p)
  <2>1. SUFFICES ASSUME Reading(fmt, as, p + 1).used <= q
                 PROVE  Reading(fmt, bs, p + 1) = Reading(fmt, as, p + 1)
    <3>1. p + 1 \in Nat
      OBVIOUS
    <3> QED BY <3>1
  <2>2. p \in Nat
    OBVIOUS
  <2>3. /\ Reading(fmt, as, p + 1) = Read(r, fmt[p + 1], as)
        /\ Reading(fmt, bs, p + 1) = Read(Reading(fmt, bs, p), fmt[p + 1], bs)
    BY <2>2, ReadingStep
  <2>4. IsReader(r)
    BY <2>2, ReadingIsReader
  <2>5. r.used <= q => Reading(fmt, bs, p) = r
    OBVIOUS
  <2> HIDE DEF r, S
  <2>6. r.used <= q /\ Read(r, fmt[p + 1], bs) = Read(r, fmt[p + 1], as)
    <3> DEFINE c == fmt[p + 1]
    <3>1. Read(r, c, as).used <= q
      BY <2>1, <2>3
    <3> HIDE DEF c
    <3>2. r.used <= q /\ Read(r, c, bs) = Read(r, c, as)
      BY <2>4, <3>1, ReadLooksAtNext
    <3> QED BY <3>2 DEF c
  <2> QED BY <2>3, <2>5, <2>6
<1> HIDE DEF S
<1>3. S = Nat
  <2>1. S \in SUBSET Nat
    BY DEF S
  <2> QED BY <1>1, <1>2, <2>1, Induction
<1> QED BY <1>3 DEF S

\* Text that holds no directive, or of which a directive was none, is read as it is.
IsText(fmt, as, p, l, t, u, m) ==
  /\ fmt \in Seq(Glyph) /\ p \in Nat /\ l \in Nat /\ p + l <= Len(fmt) /\ t \in Seq(Glyph)
  /\ Reading(fmt, as, p) = Reader(t, u, m)
  /\ m = "verbatim" \/ (m = "plain" /\ \A k \in p + 1 .. p + l : fmt[k] # "%")

LEMMA ReadText ==
  ASSUME NEW fmt, NEW as, NEW p, NEW l, NEW t, NEW u, NEW m, IsText(fmt, as, p, l, t, u, m)
  PROVE  Reading(fmt, as, p + l) = Reader(t \o SubSeq(fmt, p + 1, p + l), u, m)
<1>0. /\ fmt \in Seq(Glyph) /\ p \in Nat /\ l \in Nat /\ p + l <= Len(fmt) /\ t \in Seq(Glyph)
      /\ Reading(fmt, as, p) = Reader(t, u, m)
      /\ m = "verbatim" \/ (m = "plain" /\ \A k \in p + 1 .. p + l : fmt[k] # "%")
  BY DEF IsText
<1> USE <1>0
<1> DEFINE W(j) == t \o SubSeq(fmt, p + 1, p + j)
           S == {j \in Nat : j <= l => Reading(fmt, as, p + j) = Reader(W(j), u, m)}
<1> HIDE DEF W
<1>1. 0 \in S
  <2>1. SubSeq(fmt, p + 1, p + 0) = <<>> /\ p + 0 = p
    BY SubSeqEmpty
  <2>2. W(0) = t
    BY <2>1, ConcatEmptySeq DEF W
  <2> QED BY <2>1, <2>2
<1>2. ASSUME NEW j \in S PROVE j + 1 \in S
  <2>1. j \in Nat /\ j + 1 \in Nat /\ p + (j + 1) = (p + j) + 1
    OBVIOUS
  <2>0. j <= l => Reading(fmt, as, p + j) = Reader(W(j), u, m)
    OBVIOUS
  <2>2. SUFFICES ASSUME j + 1 <= l
                 PROVE  Reading(fmt, as, p + (j + 1)) = Reader(W(j + 1), u, m)
    BY <2>1
  <2>3. Reading(fmt, as, p + j) = Reader(W(j), u, m)
    <3>1. j <= l
      BY <2>1, <2>2
    <3> QED BY <2>0, <3>1
  <2> HIDE DEF S
  <2> DEFINE e == fmt[(p + j) + 1]
             x == SubSeq(fmt, p + 1, p + j)
  <2>4. e \in Glyph /\ x \in Seq(Glyph)
    <3>1. (p + j) + 1 \in 1 .. Len(fmt)
      BY <2>1, <2>2
    <3>2. e \in Glyph
      BY <3>1, ElementOfSeq
    <3>3. \A k \in p + 1 .. p + j : fmt[k] \in Glyph
      <4> TAKE k \in p + 1 .. p + j
      <4>1. k \in 1 .. Len(fmt)
        BY <2>1, <2>2
      <4> QED BY <4>1, ElementOfSeq
    <3>4. p + 1 \in Int /\ p + j \in Int
      BY <2>1
    <3> QED BY <3>2, <3>3, <3>4, SubSeqProperties
  <2>5. SubSeq(fmt, p + 1, p + (j + 1)) = x \o <<e>>
    <3>1. p + 1 \in 1 .. Len(fmt) /\ (p + j) + 1 \in p + 1 .. Len(fmt) /\ ((p + j) + 1) - 1 = p + j
      BY <2>1, <2>2
    <3> QED BY <2>1, <3>1, SubSeqRecursiveSecond
  <2> HIDE DEF e, x
  <2>6. W(j + 1) = Append(W(j), e)
    <3>1. <<e>> \in Seq(Glyph)
      BY <2>4
    <3>2. W(j + 1) = t \o (x \o <<e>>) /\ W(j) = t \o x
      BY <2>5 DEF x, W
    <3>3. (t \o x) \o <<e>> = t \o (x \o <<e>>)
      BY <2>4, <3>1, ConcatAssociative
    <3>4. t \o x \in Seq(Glyph)
      BY <2>4, ConcatProperties
    <3>5. Append(t \o x, e) = (t \o x) \o <<e>>
      BY <2>4, <3>4, AppendIsConcat
    <3> QED BY <3>2, <3>3, <3>5
  <2>7. m = "verbatim" \/ (m = "plain" /\ e # "%")
    <3>1. (p + j) + 1 \in p + 1 .. p + l
      BY <2>1, <2>2
    <3> QED BY <3>1 DEF e
  <2>8. Reading(fmt, as, (p + j) + 1) = Read(Reading(fmt, as, p + j), e, as)
    <3>1. p + j \in Nat
      BY <2>1
    <3> QED BY <3>1, ReadingStep DEF e
  <2>9. Read(Reader(W(j), u, m), e, as)
          = Reader(Append(W(j), e), u, m)
    <3> DEFINE y == W(j)
    <3> HIDE DEF y
    <3>1. CASE m = "verbatim"
      <4>1. Read(Reader(y, u, m), e, as)
              = Reader(Append(y, e), u, m)
        BY <3>1 DEF Read, Reader
      <4> QED BY <4>1 DEF y
    <3>2. CASE m = "plain" /\ e # "%"
      <4>1. Read(Reader(y, u, m), e, as)
              = Reader(Append(y, e), u, m)
        BY <3>2 DEF Read, Reader
      <4> QED BY <4>1 DEF y
    <3> QED BY <2>7, <3>1, <3>2
  <2> QED BY <2>1, <2>3, <2>6, <2>8, <2>9
<1> HIDE DEF S
<1>3. S = Nat
  <2>1. S \in SUBSET Nat
    BY DEF S
  <2> QED BY <1>1, <1>2, <2>1, Induction
<1>4. Reading(fmt, as, p + l) = Reader(W(l), u, m)
  <2>1. l \in S /\ l <= l
    BY <1>3
  <2> QED BY <2>1 DEF S
<1> QED BY <1>4 DEF W

\* The rest of a format behind its first p characters.
LEMMA SuffixOf ==
  ASSUME NEW fmt \in Seq(Glyph), NEW p \in Nat, p <= Len(fmt),
         NEW s, s = SubSeq(fmt, p + 1, Len(fmt))
  PROVE  /\ s \in Seq(Glyph) /\ Len(s) = Len(fmt) - p
         /\ \A k \in 1 .. Len(fmt) - p : s[k] = fmt[p + k]
         /\ \A k \in 1 .. Len(fmt) - p : SubSeq(s, 1, k) = SubSeq(fmt, p + 1, p + k)
<1>1. \A k \in p + 1 .. Len(fmt) : fmt[k] \in Glyph
  <2> TAKE k \in p + 1 .. Len(fmt)
  <2>1. k \in 1 .. Len(fmt)
    OBVIOUS
  <2> QED BY <2>1, ElementOfSeq
<1>2. p + 1 \in Int /\ Len(fmt) \in Nat /\ Len(fmt) \in Int
  BY LenProperties
<1>3. /\ s \in Seq(Glyph) /\ Len(s) = IF p + 1 <= Len(fmt) THEN Len(fmt) - (p + 1) + 1 ELSE 0
      /\ \A k \in 1 .. Len(fmt) - (p + 1) + 1 : s[k] = fmt[p + 1 + k - 1]
  BY <1>1, <1>2, SubSeqProperties
<1>4. Len(s) = Len(fmt) - p
  BY <1>2, <1>3
<1>5. ASSUME NEW k \in 1 .. Len(fmt) - p PROVE s[k] = fmt[p + k]
  <2>1. k \in 1 .. Len(fmt) - (p + 1) + 1 /\ p + 1 + k - 1 = p + k
    BY <1>2
  <2> QED BY <1>3, <2>1
<1>6. ASSUME NEW k \in 1 .. Len(fmt) - p PROVE SubSeq(s, 1, k) = SubSeq(fmt, p + 1, p + k)
  <2>1. p + 1 \in 1 .. Len(fmt) /\ Len(fmt) \in 1 .. Len(fmt)
        /\ 1 \in 1 .. Len(fmt) - (p + 1) + 1 /\ k \in 1 .. Len(fmt) - (p + 1) + 1
        /\ (p + 1) + 1 - 1 = p + 1 /\ (p + 1) + k - 1 = p + k
    BY <1>2
  <2>2. SubSeq(SubSeq(fmt, p + 1, Len(fmt)), 1, k) = SubSeq(fmt, (p + 1) + 1 - 1, (p + 1) + k - 1)
    BY <2>1, SubSeqOfSubSeq
  <2> QED BY <2>1, <2>2
<1> QED BY <1>3, <1>4, <1>5, <1>6

LEMMA LiteralHasNoDirective ==
  ASSUME NEW s \in Seq(Glyph), Len(s) >= 1
  PROVE  LiteralLength(s) \in 1 .. Len(s) /\ \A k \in 2 .. LiteralLength(s) : s[k] # "%"
<1> DEFINE next == {k \in 2 .. Len(s) : s[k] = "%"}
           x == CHOOSE k \in next : \A j \in next : k <= j
<1>1. Len(s) \in Nat
  BY LenProperties
<1>2. CASE next = {}
  <2>1. LiteralLength(s) = Len(s)
    BY <1>2 DEF LiteralLength
  <2> QED BY <1>1, <1>2, <2>1
<1>3. CASE next # {}
  <2>1. LiteralLength(s) = x - 1
    BY <1>3 DEF LiteralLength
  <2>2. next \in SUBSET Nat
    BY <1>1
  <2> HIDE DEF next
  <2>3. \E k \in next : \A j \in next : k <= j
    <3>1. PICK j : j \in next
      BY <1>3
    <3> QED BY <2>2, <3>1, LeastMember
  <2>4. x \in next /\ \A j \in next : x <= j
    BY <2>3
  <2> HIDE DEF x
  <2>5. x \in 2 .. Len(s)
    BY <2>4 DEF next
  <2>6. ASSUME NEW k \in 2 .. x - 1 PROVE s[k] # "%"
    <3>1. k \notin next /\ k \in 2 .. Len(s)
      BY <1>1, <2>4, <2>5
    <3> QED BY <3>1 DEF next
  <2> QED BY <1>1, <2>1, <2>5, <2>6
<1> QED BY <1>2, <1>3

-----------------------------------------------------------------------------
(* The invariant: so far the reader has the text that is out, has used the *)
(* arguments that were taken, and is in plain text, or at the end.         *)

PrintfTypes ==
  /\ format \in Formats /\ at \in 0 .. Len(format)
  /\ taken \in Seq(Ints \cup Strings)
  /\ out \in Seq(Glyph) /\ written = Len(out) /\ written <= INT_MAX
  /\ result \in {"none", "count", "overflow"}

ReadSoFar ==
  LET r == Reading(format, taken, at)
  IN /\ r.used = Len(taken)
     /\ result # "overflow" => Meaning(r) = out /\ (r.mode = "plain" \/ at = Len(format))
     /\ result = "overflow" => IsStrictPrefix(out, Meaning(r)) /\ Len(Meaning(r)) > INT_MAX

PrintfInv == PrintfTypes /\ ReadSoFar

LEMMA FormatIsGlyphs ==
  ASSUME PrintfTypes
  PROVE  format \in Seq(Glyph) /\ Len(format) \in Nat /\ at \in Nat /\ at <= Len(format)
         /\ INT_MAX \in Nat
<1>1. format \in Seq(STRING)
  BY PrintfAssumption DEF PrintfTypes
<1>2. STRING \subseteq Glyph
  BY DEF Glyph
<1>3. format \in Seq(Glyph)
  BY <1>1, <1>2, SeqMonotonic
<1> QED BY <1>3, LenProperties, PrintfAssumption DEF PrintfTypes

\* At the start of a turn of the loop.
LEMMA AtTurn ==
  ASSUME PrintfInv, Running
  PROVE  /\ Rest \in Seq(Glyph) /\ Len(Rest) = Len(format) - at /\ at < Len(format)
         /\ \A k \in 1 .. Len(Rest) : Rest[k] = format[at + k]
         /\ \A k \in 1 .. Len(Rest) : SubSeq(Rest, 1, k) = SubSeq(format, at + 1, at + k)
         /\ Reading(format, taken, at) = Reader(out, Len(taken), "plain")
         /\ Len(taken) \in Nat
<1> DEFINE r == Reading(format, taken, at)
<1>1. PrintfTypes /\ ReadSoFar
  BY DEF PrintfInv
<1>2. format \in Seq(Glyph) /\ Len(format) \in Nat /\ at \in Nat /\ at <= Len(format)
  BY <1>1, FormatIsGlyphs
<1>3. /\ Rest \in Seq(Glyph) /\ Len(Rest) = Len(format) - at
      /\ \A k \in 1 .. Len(format) - at : Rest[k] = format[at + k]
      /\ \A k \in 1 .. Len(format) - at : SubSeq(Rest, 1, k) = SubSeq(format, at + 1, at + k)
  BY <1>2, SuffixOf DEF Rest
<1>4. at < Len(format)
  <2>1. Rest # <<>>
    BY DEF Running
  <2>2. Len(Rest) # 0
    BY <1>3, <2>1, EmptySeq
  <2> QED BY <1>2, <1>3, <2>2
<1>5. r.used = Len(taken) /\ Meaning(r) = out /\ r.mode = "plain"
  BY <1>1, <1>2, <1>4 DEF ReadSoFar, Running
<1>6. IsReader(r)
  BY <1>2, ReadingIsReader
<1>7. r.text = out
  BY <1>5 DEF Meaning
<1> HIDE DEF r
<1>8. r = Reader(out, Len(taken), "plain") /\ Len(taken) \in Nat
  BY <1>5, <1>6, <1>7 DEF IsReader, Reader
<1> QED BY <1>3, <1>4, <1>8 DEF r

\* A turn prints what the reader makes of the characters that it takes, or gives up.
LEMMA PieceKeeps ==
  ASSUME PrintfInv, Running, NEW text \in Seq(Glyph), NEW length \in Nat, Piece(text, length),
         at + length <= Len(format), taken' \in Seq(Ints \cup Strings),
         NEW r, r = Reading(format, taken', at + length),
         r.used = Len(taken'), Meaning(r) = out \o text,
         r.mode = "plain" \/ at + length = Len(format)
  PROVE  PrintfInv'
<1>1. PrintfTypes /\ result = "none"
  BY DEF PrintfInv, Running
<1>2. Len(format) \in Nat /\ at \in Nat /\ INT_MAX \in Nat /\ out \in Seq(Glyph)
      /\ written = Len(out) /\ written <= INT_MAX
  BY <1>1, FormatIsGlyphs DEF PrintfTypes
<1>3. Len(text) \in Nat /\ Len(out) \in Nat
  BY <1>2, LenProperties
<1>4. out \o text \in Seq(Glyph) /\ Len(out \o text) = Len(out) + Len(text)
  BY <1>2, ConcatProperties
<1>5. format' = format /\ at' = at + length /\ at' \in 0 .. Len(format')
  BY <1>2 DEF Piece
<1>6. CASE Fits(Len(text))
  <2>1. out' = out \o text /\ written' = written + Len(text) /\ result' = "none"
    BY <1>1, <1>6 DEF Piece
  <2>2. written' <= INT_MAX
    BY <1>2, <1>3, <1>6, <2>1 DEF Fits
  <2>3. PrintfTypes'
    BY <1>1, <1>2, <1>4, <1>5, <2>1, <2>2 DEF PrintfTypes
  <2>4. ReadSoFar'
    BY <1>5, <2>1 DEF ReadSoFar
  <2> QED BY <2>3, <2>4 DEF PrintfInv
<1>7. CASE ~ Fits(Len(text))
  <2>1. result' = "overflow" /\ out' = out /\ written' = written
    BY <1>7 DEF Piece
  <2>2. Len(out \o text) > INT_MAX
    BY <1>2, <1>3, <1>4, <1>7 DEF Fits
  <2>3. IsStrictPrefix(out, out \o text)
    <3>1. Len(out) <= Len(out \o text)
      BY <1>3, <1>4
    <3>2. out # out \o text
      BY <1>2, <1>3, <1>4, <2>2
    <3>3. SubSeq(out, 1, Len(out)) = out
      BY <1>2, SubSeqFull
    <3>4. SubSeq(out \o text, 1, Len(out)) = out
      <4>1. CASE Len(out) = 0
        <5>1. out = <<>>
          BY <1>2, <4>1, EmptySeq
        <5> QED BY <4>1, <5>1, SubSeqEmpty
      <4>2. CASE Len(out) # 0
        <5>1. 1 \in 1 .. Len(out) /\ Len(out) \in 1 .. Len(out)
          BY <1>3, <4>2
        <5>2. SubSeq(out \o text, 1, Len(out)) = SubSeq(out, 1, Len(out))
          BY <1>2, <5>1, SubSeqOfConcat1
        <5> QED BY <3>3, <5>2
      <4> QED BY <4>1, <4>2
    <3> QED BY <3>1, <3>2, <3>3, <3>4 DEF IsStrictPrefix, IsPrefix
  <2>4. PrintfTypes'
    BY <1>1, <1>2, <1>5, <2>1 DEF PrintfTypes
  <2>5. ReadSoFar'
    BY <1>5, <2>1, <2>2, <2>3 DEF ReadSoFar
  <2> QED BY <2>4, <2>5 DEF PrintfInv
<1> QED BY <1>6, <1>7

\* The reader's steps.
LEMMA ReadPercent ==
  ASSUME NEW t, NEW u, NEW as
  PROVE  Read(Reader(t, u, "plain"), "%", as) = Reader(t, u, "directive")
BY DEF Read, Reader

LEMMA ReadSecondPercent ==
  ASSUME NEW t, NEW u, NEW as
  PROVE  Read(Reader(t, u, "directive"), "%", as) = Reader(Append(t, "%"), u, "plain")
BY DEF Read, Reader

LEMMA ReadConversion ==
  ASSUME NEW t, NEW u, NEW as, NEW c \in {"c", "s", "d", "x"}
  PROVE  Read(Reader(t, u, "directive"), c, as)
           = Reader(t \o Converted(c, as[u + 1]), u + 1, "plain")
<1>1. c # "%"
  OBVIOUS
<1> QED BY <1>1 DEF Read, Reader

LEMMA ReadNoDirective ==
  ASSUME NEW t, NEW u, NEW as, NEW c, c \notin {"%", "c", "s", "d", "x"}
  PROVE  Read(Reader(t, u, "directive"), c, as) = Reader(t \o <<"%", c>>, u, "verbatim")
BY DEF Read, Reader

LEMMA ReaderFields ==
  ASSUME NEW t, NEW u, NEW m
  PROVE  /\ Reader(t, u, m).used = u
         /\ Reader(t, u, m).mode = m
BY DEF Reader

LEMMA MeaningIsText ==
  ASSUME NEW t, NEW u
  PROVE  /\ Meaning(Reader(t, u, "plain")) = t
         /\ Meaning(Reader(t, u, "verbatim")) = t
         /\ Meaning(Reader(t, u, "directive")) = Append(t, "%")
BY DEF Meaning, Reader

LEMMA LiteralKeeps ==
  ASSUME PrintfInv, Literal
  PROVE  PrintfInv'
<1>1. Running /\ PrintfTypes
  BY DEF Literal, PrintfInv
<1>2. /\ Rest \in Seq(Glyph) /\ Len(Rest) = Len(format) - at /\ at < Len(format)
      /\ \A k \in 1 .. Len(Rest) : Rest[k] = format[at + k]
      /\ \A k \in 1 .. Len(Rest) : SubSeq(Rest, 1, k) = SubSeq(format, at + 1, at + k)
      /\ Reading(format, taken, at) = Reader(out, Len(taken), "plain")
      /\ Len(taken) \in Nat
  BY <1>1, AtTurn
<1>3. format \in Seq(Glyph) /\ Len(format) \in Nat /\ at \in Nat
  BY <1>1, FormatIsGlyphs
<1>4. taken \in Seq(Ints \cup Strings) /\ out \in Seq(Glyph) /\ taken' = taken
  BY <1>1 DEF PrintfTypes, Literal
<1>5. CASE Rest[1] # "%"
  <2> DEFINE l == LiteralLength(Rest)
             text == SubSeq(Rest, 1, l)
  <2>1. Piece(text, l)
    <3>1. Piece(SubSeq(Rest, 1, l), l + 0)
      BY <1>5 DEF Literal
    <3>2. l + 0 = l
      BY <1>2, <1>3, LiteralHasNoDirective
    <3> QED BY <3>1, <3>2
  <2>2. l \in 1 .. Len(Rest) /\ \A k \in 2 .. l : Rest[k] # "%"
    BY <1>2, <1>3, LiteralHasNoDirective
  <2> HIDE DEF l
  <2>3. text = SubSeq(format, at + 1, at + l) /\ l \in Nat /\ at + l <= Len(format)
    BY <1>2, <1>3, <2>2
  <2>4. \A k \in at + 1 .. at + l : format[k] # "%"
    <3> TAKE k \in at + 1 .. at + l
    <3>1. k - at \in 1 .. l /\ k - at \in 1 .. Len(Rest) /\ at + (k - at) = k
      BY <1>2, <1>3, <2>2
    <3>2. Rest[k - at] # "%"
      BY <1>5, <2>2, <3>1
    <3> QED BY <1>2, <3>1, <3>2
  <2>5. text \in Seq(Glyph)
    <3>1. \A k \in 1 .. l : Rest[k] \in Glyph
      BY <1>2, <2>2, ElementOfSeq
    <3> QED BY <2>2, <3>1, SubSeqProperties
  <2> DEFINE r == Reading(format, taken, at + l)
  <2>6. r = Reader(out \o SubSeq(format, at + 1, at + l), Len(taken), "plain")
    <3>1. IsText(format, taken, at, l, out, Len(taken), "plain")
      BY <1>2, <1>3, <1>4, <2>3, <2>4 DEF IsText
    <3> QED BY <3>1, ReadText
  <2> HIDE DEF text
  <2>7. r.used = Len(taken') /\ Meaning(r) = out \o text /\ r.mode = "plain"
    <3>1. r = Reader(out \o text, Len(taken'), "plain")
      BY <1>4, <2>3, <2>6
    <3> HIDE DEF r
    <3>2. Meaning(r) = out \o text
      BY <3>1, MeaningIsText
    <3>3. r.used = Len(taken') /\ r.mode = "plain"
      BY <3>1, ReaderFields
    <3> QED BY <3>2, <3>3
  <2>8. r = Reading(format, taken', at + l)
    BY <1>4
  <2> HIDE DEF r
  <2> QED BY <1>1, <1>4, <2>1, <2>3, <2>5, <2>7, <2>8, PieceKeeps
<1>6. CASE Rest[1] = "%"
  <2> DEFINE s == Tail(Rest)
             l == LiteralLength(s)
             text == SubSeq(s, 1, l)
             p == at + 2
  <2>1. Len(Rest) > 1 /\ Rest[1] = "%" /\ Rest[2] = "%" /\ Piece(text, l + 1)
    <3>1. Len(Rest) > 1 /\ Rest[1] = "%" /\ Rest[2] = "%"
      BY <1>6 DEF Literal
    <3>2. Piece(text, l + 1)
      BY <3>1 DEF Literal
    <3> QED BY <3>1, <3>2
  <2>2. s = SubSeq(format, (at + 1) + 1, Len(format))
    <3>1. Tail(Rest) = SubSeq(Rest, 2, Len(Rest))
      <4>1. Rest # <<>>
        BY <1>1 DEF Running
      <4> QED BY <1>2, <4>1, TailIsSubSeq
    <3>2. SubSeq(Rest, 2, Len(Rest)) = SubSeq(format, (at + 1) + 1, Len(format))
      <4>1. at + 1 \in 1 .. Len(format) /\ Len(format) \in 1 .. Len(format)
            /\ 2 \in 1 .. Len(format) - (at + 1) + 1
            /\ Len(Rest) \in 1 .. Len(format) - (at + 1) + 1
            /\ (at + 1) + 2 - 1 = (at + 1) + 1 /\ (at + 1) + Len(Rest) - 1 = Len(format)
        BY <1>2, <1>3, <2>1
      <4>2. SubSeq(SubSeq(format, at + 1, Len(format)), 2, Len(Rest))
              = SubSeq(format, (at + 1) + 2 - 1, (at + 1) + Len(Rest) - 1)
        BY <1>3, <4>1, SubSeqOfSubSeq
      <4> QED BY <4>1, <4>2 DEF Rest
    <3> QED BY <3>1, <3>2
  <2> HIDE DEF s
  <2>3. /\ s \in Seq(Glyph) /\ Len(s) = Len(format) - (at + 1)
        /\ \A k \in 1 .. Len(format) - (at + 1) : s[k] = format[(at + 1) + k]
        /\ \A k \in 1 .. Len(format) - (at + 1) :
             SubSeq(s, 1, k) = SubSeq(format, (at + 1) + 1, (at + 1) + k)
    <3>1. at + 1 \in Nat /\ at + 1 <= Len(format)
      BY <1>2, <1>3
    <3> QED BY <1>3, <2>2, <3>1, SuffixOf
  <2>4. l \in 1 .. Len(s) /\ \A k \in 2 .. l : s[k] # "%"
    <3>1. Len(s) >= 1
      BY <1>2, <1>3, <2>1, <2>3
    <3> QED BY <2>3, <3>1, LiteralHasNoDirective
  <2> HIDE DEF l
  <2>5. l \in Nat /\ l - 1 \in Nat /\ p + (l - 1) = at + (l + 1) /\ p + (l - 1) <= Len(format)
        /\ p \in Nat /\ l + 1 \in Nat /\ (at + 1) + 1 = p /\ p \in 1 .. Len(format)
        /\ p + (l - 1) \in p .. Len(format)
    BY <1>2, <1>3, <2>3, <2>4
  <2>6. \A k \in p + 1 .. p + (l - 1) : format[k] # "%"
    <3> TAKE k \in p + 1 .. p + (l - 1)
    <3>1. k - (at + 1) \in 2 .. l /\ k - (at + 1) \in 1 .. Len(format) - (at + 1)
          /\ (at + 1) + (k - (at + 1)) = k
      BY <1>2, <1>3, <2>3, <2>4
    <3> QED BY <2>3, <2>4, <3>1
  <2>7. format[at + 1] = "%" /\ format[p] = "%"
    <3>1. 1 \in 1 .. Len(Rest) /\ 2 \in 1 .. Len(Rest)
      BY <1>2, <1>3, <2>1
    <3> QED BY <1>2, <2>1, <3>1
  <2> DEFINE y == SubSeq(format, p + 1, p + (l - 1))
  <2>8. "%" \in Glyph /\ <<"%">> \in Seq(Glyph) /\ y \in Seq(Glyph)
    <3>1. "%" \in Glyph
      BY DEF Glyph
    <3>2. \A k \in p + 1 .. p + (l - 1) : format[k] \in Glyph
      <4> TAKE k \in p + 1 .. p + (l - 1)
      <4>1. k \in 1 .. Len(format)
        BY <2>5
      <4> QED BY <1>3, <4>1, ElementOfSeq
    <3>3. p + 1 \in Int /\ p + (l - 1) \in Int
      BY <2>5
    <3>4. y \in Seq(Glyph)
      BY <3>2, <3>3, SubSeqProperties
    <3> HIDE DEF y
    <3> QED BY <3>1, <3>4
  <2>9. text = <<"%">> \o y
    <3>1. text = SubSeq(format, (at + 1) + 1, (at + 1) + l)
      BY <2>3, <2>4
    <3>2. (at + 1) + l = p + (l - 1)
      BY <1>3, <2>4
    <3>3. SubSeq(format, p, p + (l - 1)) = << format[p] >> \o SubSeq(format, p + 1, p + (l - 1))
      BY <1>3, <2>5, SubSeqRecursiveFirst
    <3> QED BY <2>5, <2>7, <3>1, <3>2, <3>3
  <2> HIDE DEF text, y
  <2>10. text \in Seq(Glyph)
    BY <2>8, <2>9, ConcatProperties
  <2> DEFINE o == Append(out, "%")
  <2>11. Reading(format, taken, p) = Reader(o, Len(taken), "plain")
    <3>1. Reading(format, taken, at + 1) = Reader(out, Len(taken), "directive")
      <4>1. Reading(format, taken, at + 1) = Read(Reading(format, taken, at), format[at + 1], taken)
        BY <1>3, ReadingStep
      <4> QED BY <1>2, <2>7, <4>1, ReadPercent
    <3>2. Reading(format, taken, (at + 1) + 1)
            = Read(Reading(format, taken, at + 1), format[(at + 1) + 1], taken)
      <4>1. at + 1 \in Nat
        BY <1>3
      <4> QED BY <4>1, ReadingStep
    <3>3. Reading(format, taken, p)
            = Read(Reader(out, Len(taken), "directive"), "%", taken)
      BY <2>5, <2>7, <3>1, <3>2
    <3> QED BY <3>3, ReadSecondPercent
  <2>12. o \in Seq(Glyph) /\ o = out \o <<"%">>
    BY <1>4, <2>8, AppendProperties, AppendIsConcat
  <2> HIDE DEF o, p
  <2> DEFINE r == Reading(format, taken, at + (l + 1))
  <2>13. r = Reader(o \o y, Len(taken), "plain")
    <3>1. Reading(format, taken, p + (l - 1))
            = Reader(o \o SubSeq(format, p + 1, p + (l - 1)), Len(taken), "plain")
      <4> DEFINE more == l - 1
      <4>1. more \in Nat /\ p + more <= Len(format) /\ p \in Nat
        BY <2>5
      <4>2. \A k \in p + 1 .. p + more : format[k] # "%"
        BY <2>6
      <4> HIDE DEF more
      <4>3. Reading(format, taken, p + more)
              = Reader(o \o SubSeq(format, p + 1, p + more), Len(taken), "plain")
        <5>1. IsText(format, taken, p, more, o, Len(taken), "plain")
          BY <1>3, <2>11, <2>12, <4>1, <4>2 DEF IsText
        <5> QED BY <5>1, ReadText
      <4> QED BY <4>3 DEF more
    <3> QED BY <2>5, <3>1 DEF y
  <2>14. o \o y = out \o text
    BY <1>4, <2>8, <2>9, <2>12, ConcatAssociative
  <2>15. r.used = Len(taken') /\ Meaning(r) = out \o text /\ r.mode = "plain"
    <3> HIDE DEF r
    <3>1. Meaning(r) = o \o y
      BY <2>13, MeaningIsText
    <3>2. r.used = Len(taken) /\ r.mode = "plain"
      BY <2>13, ReaderFields
    <3> QED BY <1>4, <2>14, <3>1, <3>2
  <2>16. r = Reading(format, taken', at + (l + 1))
    BY <1>4
  <2> HIDE DEF r
  <2>17. at + (l + 1) <= Len(format)
    BY <2>5
  <2> QED BY <1>1, <1>4, <2>1, <2>5, <2>10, <2>15, <2>16, <2>17, PieceKeeps
<1> QED BY <1>5, <1>6

\* What a directive prints.
LEMMA DirectiveKeeps ==
  ASSUME PrintfInv, NEW c \in {"c", "s", "d", "x"}, Directive(c),
         NEW x \in Ints \cup Strings, taken' = Append(taken, x),
         Converted(c, x) \in Seq(Glyph), Piece(Converted(c, x), 2)
  PROVE  PrintfInv'
<1>1. Running /\ PrintfTypes /\ Rest[1] = "%" /\ Len(Rest) > 1 /\ Rest[2] = c
  BY DEF Directive, PrintfInv
<1>2. /\ Len(Rest) = Len(format) - at
      /\ \A k \in 1 .. Len(Rest) : Rest[k] = format[at + k]
      /\ Reading(format, taken, at) = Reader(out, Len(taken), "plain")
      /\ Len(taken) \in Nat
  BY <1>1, AtTurn
<1>3. Len(format) \in Nat /\ at \in Nat
  BY <1>1, FormatIsGlyphs
<1>4. taken \in Seq(Ints \cup Strings)
  BY <1>1 DEF PrintfTypes
<1>5. /\ taken' \in Seq(Ints \cup Strings) /\ Len(taken') = Len(taken) + 1
      /\ \A k \in 1 .. Len(taken) : taken'[k] = taken[k]
      /\ taken'[Len(taken) + 1] = x
  BY <1>4, AppendProperties
<1>6. at + 1 \in Nat /\ (at + 1) + 1 = at + 2 /\ at + 2 <= Len(format)
  BY <1>1, <1>2, <1>3
<1>7. format[at + 1] = "%" /\ format[at + 2] = c
  <2>1. 1 \in 1 .. Len(Rest) /\ 2 \in 1 .. Len(Rest)
    BY <1>1, <1>2, <1>3
  <2> QED BY <1>1, <1>2, <2>1
<1> DEFINE as == taken'
           q == Len(taken)
<1>8. Reading(format, as, at) = Reader(out, q, "plain")
  <2> HIDE DEF as
  <2>1. Reading(format, taken, at).used <= q
    BY <1>2, ReaderFields DEF q
  <2>2. \A k \in 1 .. q : taken[k] = as[k]
    BY <1>5 DEF as
  <2>3. Reading(format, as, at) = Reading(format, taken, at)
    BY <1>2, <1>3, <2>1, <2>2, LaterArguments
  <2> QED BY <1>2, <2>3
<1>9. as[q + 1] = x /\ Len(as) = q + 1 /\ q \in Nat
  BY <1>2, <1>5
<1> HIDE DEF as, q
<1>10. Reading(format, as, at + 1) = Reader(out, q, "directive")
  <2>1. Reading(format, as, at + 1) = Read(Reading(format, as, at), format[at + 1], as)
    BY <1>3, ReadingStep
  <2> QED BY <1>7, <1>8, <2>1, ReadPercent
<1> DEFINE r == Reading(format, as, at + 2)
           text == Converted(c, x)
<1>11. r = Reader(out \o text, q + 1, "plain")
  <2>1. Reading(format, as, (at + 1) + 1)
          = Read(Reading(format, as, at + 1), format[(at + 1) + 1], as)
    BY <1>6, ReadingStep
  <2>2. r = Read(Reader(out, q, "directive"), c, as)
    BY <1>6, <1>7, <1>10, <2>1
  <2> HIDE DEF r
  <2>3. r = Reader(out \o Converted(c, as[q + 1]), q + 1, "plain")
    BY <2>2, ReadConversion
  <2> QED BY <1>9, <2>3
<1>12. r.used = Len(as) /\ Meaning(r) = out \o text /\ r.mode = "plain"
  <2> HIDE DEF r, text
  <2>1. Meaning(r) = out \o text
    BY <1>11, MeaningIsText
  <2>2. r.used = q + 1 /\ r.mode = "plain"
    BY <1>11, ReaderFields
  <2> QED BY <1>9, <2>1, <2>2
<1>13. Piece(text, 2) /\ text \in Seq(Glyph) /\ 2 \in Nat
  OBVIOUS
<1>14. r = Reading(format, taken', at + 2) /\ r.used = Len(taken')
  BY <1>12 DEF as
<1> HIDE DEF r, text
<1> QED BY <1>1, <1>5, <1>6, <1>12, <1>13, <1>14, PieceKeeps

LEMMA CharKeeps ==
  ASSUME PrintfInv, Char
  PROVE  PrintfInv'
<1>1. PICK s \in Strings : taken' = Append(taken, s) /\ Piece(s, 2)
  BY DEF Char
<1>2. Directive("c")
  BY DEF Char
<1>3. Converted("c", s) = s
  BY DEF Converted
<1>4. s \in Seq(Glyph)
  <2>1. s \in Seq(STRING) /\ STRING \subseteq Glyph
    BY PrintfAssumption DEF Glyph
  <2> QED BY <2>1, SeqMonotonic
<1>5. "c" \in {"c", "s", "d", "x"} /\ s \in Ints \cup Strings
  OBVIOUS
<1> QED BY <1>1, <1>2, <1>3, <1>4, <1>5, DirectiveKeeps

LEMMA StringKeeps ==
  ASSUME PrintfInv, String
  PROVE  PrintfInv'
<1>1. PICK s \in Strings : taken' = Append(taken, s) /\ Piece(s, 2)
  BY DEF String
<1>2. Directive("s")
  BY DEF String
<1>3. Converted("s", s) = s
  BY DEF Converted
<1>4. s \in Seq(Glyph)
  <2>1. s \in Seq(STRING) /\ STRING \subseteq Glyph
    BY PrintfAssumption DEF Glyph
  <2> QED BY <2>1, SeqMonotonic
<1>5. "s" \in {"c", "s", "d", "x"} /\ s \in Ints \cup Strings
  OBVIOUS
<1> QED BY <1>1, <1>2, <1>3, <1>4, <1>5, DirectiveKeeps

LEMMA DecimalKeeps ==
  ASSUME PrintfInv, Decimal
  PROVE  PrintfInv'
<1>1. PICK d \in Ints : taken' = Append(taken, d) /\ Piece(itoa(d, 10), 2)
  BY DEF Decimal
<1>2. Directive("d")
  BY DEF Decimal
<1>3. d \in -INT_MAX - 1 .. INT_MAX
  BY PrintfAssumption
<1>4. itoa(d, 10) = Converted("d", d) /\ itoa(d, 10) \in Seq(Glyph)
  BY <1>3, ItoaConverts
<1>5. "d" \in {"c", "s", "d", "x"} /\ d \in Ints \cup Strings
  OBVIOUS
<1> QED BY <1>1, <1>2, <1>4, <1>5, DirectiveKeeps

LEMMA HexadecimalKeeps ==
  ASSUME PrintfInv, Hexadecimal
  PROVE  PrintfInv'
<1>1. PICK d \in Ints : taken' = Append(taken, d) /\ Piece(itoa(d, 16), 2)
  BY DEF Hexadecimal
<1>2. Directive("x")
  BY DEF Hexadecimal
<1>3. d \in -INT_MAX - 1 .. INT_MAX
  BY PrintfAssumption
<1>4. itoa(d, 16) = Converted("x", d) /\ itoa(d, 16) \in Seq(Glyph)
  BY <1>3, ItoaConverts
<1>5. "x" \in {"c", "s", "d", "x"} /\ d \in Ints \cup Strings
  OBVIOUS
<1> QED BY <1>1, <1>2, <1>4, <1>5, DirectiveKeeps

LEMMA ShortSequences ==
  ASSUME NEW S, NEW s \in Seq(S)
  PROVE  /\ Len(s) = 1 => s = << s[1] >>
         /\ Len(s) = 2 => s = << s[1], s[2] >>
<1>1. ASSUME Len(s) = 1 PROVE s = << s[1] >>
  <2> DEFINE z == << s[1] >>
  <2>1. s[1] \in S
    BY <1>1, ElementOfSeq
  <2>2. z \in Seq(S) /\ Len(z) = 1 /\ z[1] = s[1]
    BY <2>1
  <2> HIDE DEF z
  <2>3. \A k \in 1 .. Len(s) : s[k] = z[k]
    BY <1>1, <2>2
  <2>4. s = z
    BY <1>1, <2>2, <2>3, SeqEqual
  <2> QED BY <2>4 DEF z
<1>2. ASSUME Len(s) = 2 PROVE s = << s[1], s[2] >>
  <2> DEFINE z == << s[1], s[2] >>
  <2>1. s[1] \in S /\ s[2] \in S
    BY <1>2, ElementOfSeq
  <2>2. z \in Seq(S) /\ Len(z) = 2 /\ z[1] = s[1] /\ z[2] = s[2]
    BY <2>1
  <2> HIDE DEF z
  <2>3. \A k \in 1 .. Len(s) : s[k] = z[k]
    BY <1>2, <2>2
  <2>4. s = z
    BY <1>2, <2>2, <2>3, SeqEqual
  <2> QED BY <2>4 DEF z
<1> QED BY <1>1, <1>2

LEMMA UnknownKeeps ==
  ASSUME PrintfInv, Unknown
  PROVE  PrintfInv'
<1>1. Running /\ PrintfTypes /\ Piece(Rest, Len(Rest)) /\ Rest[1] = "%"
  BY DEF Unknown, PrintfInv
<1>2. /\ Rest \in Seq(Glyph) /\ Len(Rest) = Len(format) - at /\ at < Len(format)
      /\ \A k \in 1 .. Len(Rest) : Rest[k] = format[at + k]
      /\ \A k \in 1 .. Len(Rest) : SubSeq(Rest, 1, k) = SubSeq(format, at + 1, at + k)
      /\ Reading(format, taken, at) = Reader(out, Len(taken), "plain")
      /\ Len(taken) \in Nat
  BY <1>1, AtTurn
<1>3. format \in Seq(Glyph) /\ Len(format) \in Nat /\ at \in Nat
  BY <1>1, FormatIsGlyphs
<1>4. taken \in Seq(Ints \cup Strings) /\ out \in Seq(Glyph) /\ taken' = taken
  BY <1>1 DEF PrintfTypes, Unknown
<1> DEFINE l == Len(Rest)
           r == Reading(format, taken, at + l)
<1>5. l \in Nat /\ l >= 1 /\ at + l = Len(format)
  BY <1>2, <1>3
<1>6. format[at + 1] = "%"
  <2>1. 1 \in 1 .. Len(Rest)
    BY <1>5
  <2> QED BY <1>1, <1>2, <2>1
<1>7. Reading(format, taken, at + 1) = Reader(out, Len(taken), "directive")
  <2>1. Reading(format, taken, at + 1) = Read(Reading(format, taken, at), format[at + 1], taken)
    BY <1>3, ReadingStep
  <2> QED BY <1>2, <1>6, <2>1, ReadPercent
<1>8. Meaning(r) = out \o Rest /\ r.used = Len(taken)
  <2>1. CASE l = 1
    <3>1. r = Reader(out, Len(taken), "directive")
      BY <1>7, <2>1
    <3>2. Rest = <<"%">>
      BY <1>1, <1>2, <2>1, ShortSequences
    <3>3. "%" \in Glyph
      BY DEF Glyph
    <3>4. Append(out, "%") = out \o <<"%">>
      BY <1>4, <3>3, AppendIsConcat
    <3> HIDE DEF r
    <3>5. Meaning(r) = Append(out, "%")
      BY <3>1, MeaningIsText
    <3>6. r.used = Len(taken)
      BY <3>1, ReaderFields
    <3> QED BY <3>2, <3>4, <3>5, <3>6
  <2>2. CASE l > 1
    <3> DEFINE c == Rest[2]
               more == l - 2
               p == at + 2
               y == SubSeq(format, p + 1, p + more)
               t == out \o <<"%", c>>
    <3>1. c \notin {"%", "c", "s", "d", "x"} /\ format[p] = c /\ c \in Glyph
      <4>1. 2 \in 1 .. Len(Rest)
        BY <1>5, <2>2
      <4>2. c \in Glyph
        BY <1>2, <4>1, ElementOfSeq
      <4>3. format[p] = c
        BY <1>2, <4>1
      <4>4. c \notin {"%", "c", "s", "d", "x"}
        BY <2>2 DEF Unknown
      <4> QED BY <4>2, <4>3, <4>4
    <3>2. more \in Nat /\ p \in Nat /\ p + more = at + l /\ p + more <= Len(format) /\ (at + 1) + 1 = p
          /\ at + 1 \in Nat
      BY <1>3, <1>5, <2>2
    <3>3. Rest = <<"%", c>> \o y
      <4>1. at + 1 \in 1 .. Len(format) /\ p \in at + 1 - 1 .. Len(format)
            /\ p + more \in p .. Len(format) /\ l \in 1 .. Len(Rest)
        BY <1>3, <1>5, <3>2
      <4>2. SubSeq(format, at + 1, p + more) = Rest
        <5>1. SubSeq(Rest, 1, l) = SubSeq(format, at + 1, at + l)
          BY <1>2, <4>1
        <5>2. SubSeq(Rest, 1, Len(Rest)) = Rest
          BY <1>2, SubSeqFull
        <5> QED BY <3>2, <5>1, <5>2
      <4>3. SubSeq(format, at + 1, p) \o y = SubSeq(format, at + 1, p + more)
        BY <1>3, <4>1, ConcatAdjacentSubSeq
      <4>4. SubSeq(format, at + 1, p) = <<"%", c>>
        <5> DEFINE z == SubSeq(Rest, 1, 2)
        <5>1. 2 \in 1 .. Len(Rest) /\ 1 \in 1 .. Len(Rest)
          BY <1>5, <2>2
        <5>2. z = SubSeq(format, at + 1, p)
          BY <1>2, <5>1
        <5>3. \A k \in 1 .. 2 : Rest[k] \in Glyph
          BY <1>2, <5>1, ElementOfSeq
        <5>4. z \in Seq(Glyph) /\ Len(z) = 2 /\ z[1] = Rest[1] /\ z[2] = Rest[2]
          <6>1. 1 \in Int /\ 2 \in Int
            OBVIOUS
          <6>2. /\ z \in Seq(Glyph) /\ Len(z) = IF 1 <= 2 THEN 2 - 1 + 1 ELSE 0
                /\ \A k \in 1 .. 2 - 1 + 1 : z[k] = Rest[1 + k - 1]
            BY <5>3, <6>1, SubSeqProperties
          <6> HIDE DEF z
          <6>3. z[1] = Rest[1 + 1 - 1] /\ z[2] = Rest[1 + 2 - 1]
            BY <6>2
          <6> QED BY <6>2, <6>3
        <5> HIDE DEF z
        <5>5. z = <<"%", c>>
          BY <1>1, <5>4, ShortSequences
        <5> QED BY <5>2, <5>5
      <4> QED BY <4>2, <4>3, <4>4
    <3> HIDE DEF c, more, p
    <3>4. <<"%", c>> \in Seq(Glyph) /\ y \in Seq(Glyph)
      <4>1. "%" \in Glyph
        BY DEF Glyph
      <4>2. \A k \in p + 1 .. p + more : format[k] \in Glyph
        <5> TAKE k \in p + 1 .. p + more
        <5>1. k \in 1 .. Len(format)
          BY <3>2
        <5> QED BY <1>3, <5>1, ElementOfSeq
      <4>3. p + 1 \in Int /\ p + more \in Int
        BY <3>2
      <4>4. y \in Seq(Glyph)
        BY <4>2, <4>3, SubSeqProperties
      <4>5. <<"%", c>> \in Seq(Glyph)
        BY <3>1, <4>1
      <4> QED BY <4>4, <4>5
    <3> HIDE DEF y
    <3>5. t \in Seq(Glyph)
      BY <1>4, <3>4, ConcatProperties
    <3>6. Reading(format, taken, p) = Reader(t, Len(taken), "verbatim")
      <4>1. Reading(format, taken, (at + 1) + 1)
              = Read(Reading(format, taken, at + 1), format[(at + 1) + 1], taken)
        BY <3>2, ReadingStep
      <4>2. Reading(format, taken, p) = Read(Reader(out, Len(taken), "directive"), c, taken)
        BY <1>7, <3>1, <3>2, <4>1
      <4> QED BY <3>1, <4>2, ReadNoDirective
    <3>7. Reading(format, taken, p + more) = Reader(t \o y, Len(taken), "verbatim")
      <4> HIDE DEF t
      <4>1. IsText(format, taken, p, more, t, Len(taken), "verbatim")
        BY <1>3, <3>2, <3>5, <3>6 DEF IsText
      <4> QED BY <4>1, ReadText DEF y
    <3>8. t \o y = out \o Rest
      BY <1>4, <3>3, <3>4, ConcatAssociative
    <3>9. r = Reader(out \o Rest, Len(taken), "verbatim")
      BY <3>2, <3>7, <3>8
    <3> HIDE DEF r
    <3>10. Meaning(r) = out \o Rest
      BY <3>9, MeaningIsText
    <3>11. r.used = Len(taken)
      BY <3>9, ReaderFields
    <3> QED BY <3>10, <3>11
  <2>3. l \in Nat /\ l >= 1
    BY <1>5
  <2> HIDE DEF r, l
  <2>4. l = 1 \/ l > 1
    BY <2>3
  <2> QED BY <2>1, <2>2, <2>4
<1>9. r = Reading(format, taken', at + l) /\ r.used = Len(taken') /\ at + l <= Len(format)
  BY <1>3, <1>4, <1>5, <1>8
<1> HIDE DEF r
<1> QED BY <1>1, <1>2, <1>4, <1>5, <1>8, <1>9, PieceKeeps

LEMMA FinishKeeps ==
  ASSUME PrintfInv, Finish
  PROVE  PrintfInv'
<1>1. PrintfTypes /\ ReadSoFar /\ result = "none"
  BY DEF PrintfInv, Finish
<1>2. format' = format /\ at' = at /\ taken' = taken /\ out' = out /\ written' = written
      /\ result' = "count"
  BY DEF Finish
<1>3. PrintfTypes'
  BY <1>1, <1>2 DEF PrintfTypes
<1>4. ReadSoFar'
  BY <1>1, <1>2 DEF ReadSoFar
<1> QED BY <1>3, <1>4 DEF PrintfInv

\* The invariant holds of every call.
THEOREM PrintfInvariant == PrintfSpec => []PrintfInv
<1>1. PrintfInit => PrintfInv
  <2> SUFFICES ASSUME PrintfInit PROVE PrintfInv
    OBVIOUS
  <2>1. /\ format \in Formats /\ at = 0 /\ taken = <<>> /\ out = <<>> /\ written = 0
        /\ result = "none"
    BY DEF PrintfInit
  <2>2. Len(format) \in Nat /\ INT_MAX \in Nat
    <3>1. format \in Seq(STRING)
      BY <2>1, PrintfAssumption
    <3> QED BY <3>1, LenProperties, PrintfAssumption
  <2>3. PrintfTypes
    BY <2>1, <2>2 DEF PrintfTypes
  <2>4. ReadSoFar
    <3>1. Reading(format, taken, at) = Reader(<<>>, 0, "plain")
      BY <2>1, ReadingStep DEF Opened, Reader
    <3>2. Reading(format, taken, at).used = 0
      BY <3>1, ReaderFields
    <3>3. Reading(format, taken, at).mode = "plain"
      BY <3>1, ReaderFields
    <3>4. Meaning(Reading(format, taken, at)) = <<>>
      BY <3>1, MeaningIsText
    <3> QED BY <2>1, <3>2, <3>3, <3>4 DEF ReadSoFar
  <2> QED BY <2>3, <2>4 DEF PrintfInv
<1>2. PrintfInv /\ [PrintfNext]_printfVars => PrintfInv'
  <2> SUFFICES ASSUME PrintfInv, [PrintfNext]_printfVars PROVE PrintfInv'
    OBVIOUS
  <2>1. CASE Literal
    BY <2>1, LiteralKeeps
  <2>2. CASE Char
    BY <2>2, CharKeeps
  <2>3. CASE String
    BY <2>3, StringKeeps
  <2>4. CASE Decimal
    BY <2>4, DecimalKeeps
  <2>5. CASE Hexadecimal
    BY <2>5, HexadecimalKeeps
  <2>6. CASE Unknown
    BY <2>6, UnknownKeeps
  <2>7. CASE Finish
    BY <2>7, FinishKeeps
  <2>8. CASE Returned \/ UNCHANGED printfVars
    <3>1. UNCHANGED printfVars
      BY <2>8 DEF Returned
    <3>2. format' = format /\ at' = at /\ taken' = taken /\ out' = out /\ written' = written
          /\ result' = result
      BY <3>1 DEF printfVars
    <3>3. PrintfTypes /\ ReadSoFar
      BY DEF PrintfInv
    <3>4. PrintfTypes'
      BY <3>2, <3>3 DEF PrintfTypes
    <3>5. ReadSoFar'
      BY <3>2, <3>3 DEF ReadSoFar
    <3> QED BY <3>4, <3>5 DEF PrintfInv
  <2> QED BY <2>1, <2>2, <2>3, <2>4, <2>5, <2>6, <2>7, <2>8 DEF PrintfNext
<1> QED BY <1>1, <1>2, PTL DEF PrintfSpec

\* printf's state keeps its type; the count stays an int.
THEOREM PrintfTypeCorrect == PrintfSpec => []PrintfTypeOK
<1>1. PrintfInv => PrintfTypeOK
  <2> SUFFICES ASSUME PrintfInv PROVE PrintfTypeOK
    OBVIOUS
  <2>1. PrintfTypes
    BY DEF PrintfInv
  <2>2. INT_MAX \in Nat /\ Len(out) \in Nat
    <3>1. out \in Seq(Glyph)
      BY <2>1 DEF PrintfTypes
    <3> QED BY <3>1, LenProperties, PrintfAssumption
  <2> QED BY <2>1, <2>2 DEF PrintfTypes, PrintfTypeOK
<1> QED BY <1>1, PrintfInvariant, PTL

\* What printf prints is what the format says of the arguments that it has
\* read, however long the format and whatever the arguments; and what it
\* returns is how much that was.
THEOREM PrintsWhatFormatSays == PrintfSpec => []PrintsWhatItSays
<1>1. PrintfInv => PrintsWhatItSays
  BY DEF PrintfInv, PrintfTypes, ReadSoFar, PrintsWhatItSays
<1> QED BY <1>1, PrintfInvariant, PTL
=============================================================================
