------------------------------ MODULE StubProofs ------------------------------
(***************************************************************************)
(* The theorems of Stub: what a handler reads in its registers_t is what   *)
(* was interrupted, what iret goes on with is what was interrupted, and    *)
(* frames do not pile up.  All three follow from what lies on the stack    *)
(* before each instruction of a stub (StubInv).                            *)
(***************************************************************************)
EXTENDS Stub, SequenceTheorems, TLAPS

-----------------------------------------------------------------------------
(* The code, read as one listing.  A position is the index of an instruction *)
(* in a stub that pushes a dummy; the others have none at position 2.        *)

Vectors == Irqs \cup Faults \cup {NMI}

Dummy(v)   == v \notin StubsWithErrorCode
Through(v) == IF v < 32 THEN "eax" ELSE "ebx"

Position(v, i) == IF i >= 2 /\ ~Dummy(v) THEN i + 1 ELSE i

Listing(v) ==
  LET r == Through(v)
  IN << Op("cli", 0), Op("push_imm", 0), Op("push_imm", v),
        Op("pusha", 0), Op("mov_ax_ds", 0), Op("push", "eax"), Op("mov_ax_0x10", 0),
        Op("mov", <<"ds", "eax">>), Op("mov", <<"es", "eax">>),
        Op("mov", <<"fs", "eax">>), Op("mov", <<"gs", "eax">>),
        Op("push", "esp"), Op("cld", 0), Op("call", 0),
        Op("pop", r), Op("pop", r),
        Op("mov", <<"ds", r>>), Op("mov", <<"es", r>>),
        Op("mov", <<"fs", r>>), Op("mov", <<"gs", r>>),
        Op("popa", 0), Op("add_esp", 2), Op("sti", 0), Op("iret", 0) >>

Instructions(v) == {Listing(v)[k] : k \in 1 .. 24}

\* The listing, line by line.
LEMMA ListingRead ==
  ASSUME NEW v
  PROVE  LET l == Listing(v)
             r == Through(v)
         IN /\ l[1] = Op("cli", 0)
            /\ l[2] = Op("push_imm", 0)
            /\ l[3] = Op("push_imm", v)
            /\ l[4] = Op("pusha", 0)
            /\ l[5] = Op("mov_ax_ds", 0)
            /\ l[6] = Op("push", "eax")
            /\ l[7] = Op("mov_ax_0x10", 0)
            /\ l[8] = Op("mov", <<"ds", "eax">>)
            /\ l[9] = Op("mov", <<"es", "eax">>)
            /\ l[10] = Op("mov", <<"fs", "eax">>)
            /\ l[11] = Op("mov", <<"gs", "eax">>)
            /\ l[12] = Op("push", "esp")
            /\ l[13] = Op("cld", 0)
            /\ l[14] = Op("call", 0)
            /\ l[15] = Op("pop", r)
            /\ l[16] = Op("pop", r)
            /\ l[17] = Op("mov", <<"ds", r>>)
            /\ l[18] = Op("mov", <<"es", r>>)
            /\ l[19] = Op("mov", <<"fs", r>>)
            /\ l[20] = Op("mov", <<"gs", r>>)
            /\ l[21] = Op("popa", 0)
            /\ l[22] = Op("add_esp", 2)
            /\ l[23] = Op("sti", 0)
            /\ l[24] = Op("iret", 0)
BY DEF Listing

LEMMA ListingMember ==
  ASSUME NEW v, NEW k \in 1 .. 24
  PROVE  Listing(v)[k] \in Instructions(v)
BY DEF Instructions

\* Short sequences.
LEMMA Two ==
  ASSUME NEW S, NEW a \in S, NEW b \in S
  PROVE  LET s == <<a, b>>
         IN s \in Seq(S) /\ Len(s) = 2 /\ s[1] = a /\ s[2] = b
OBVIOUS

LEMMA Three ==
  ASSUME NEW S, NEW a \in S, NEW b \in S, NEW c \in S
  PROVE  LET s == <<a, b, c>>
         IN s \in Seq(S) /\ Len(s) = 3 /\ s[1] = a /\ s[2] = b /\ s[3] = c
OBVIOUS

LEMMA Four ==
  ASSUME NEW S, NEW a \in S, NEW b \in S, NEW c \in S, NEW d \in S
  PROVE  LET s == <<a, b, c, d>>
         IN /\ s \in Seq(S) /\ Len(s) = 4
            /\ s[1] = a /\ s[2] = b /\ s[3] = c /\ s[4] = d
OBVIOUS

\* The first half of the common part.
LEMMA SaveListed ==
  ASSUME NEW v
  PROVE  /\ Save \in Seq(Instructions(v)) /\ Len(Save) = 11
         /\ \A k \in 1 .. 11 : Save[k] = Listing(v)[k + 3]
<1> DEFINE S == Instructions(v)
           l == Listing(v)
           a == << Op("pusha", 0), Op("mov_ax_ds", 0), Op("push", "eax"), Op("mov_ax_0x10", 0) >>
           b == LoadSegments("eax")
           c == << Op("push", "esp"), Op("cld", 0), Op("call", 0) >>
<1>1. a = <<l[4], l[5], l[6], l[7]>> /\ b = <<l[8], l[9], l[10], l[11]>>
        /\ c = <<l[12], l[13], l[14]>>
  BY ListingRead DEF LoadSegments
<1>2. Save = (a \o b) \o c
  BY DEF Save
<1>3. \A k \in 1 .. 24 : l[k] \in S
  BY ListingMember
<1> HIDE DEF S, l, a, b, c
<1>4. /\ a \in Seq(S) /\ Len(a) = 4
      /\ a[1] = l[4] /\ a[2] = l[5] /\ a[3] = l[6] /\ a[4] = l[7]
  BY <1>1, <1>3, Four
<1>5. /\ b \in Seq(S) /\ Len(b) = 4
      /\ b[1] = l[8] /\ b[2] = l[9] /\ b[3] = l[10] /\ b[4] = l[11]
  BY <1>1, <1>3, Four
<1>6. /\ c \in Seq(S) /\ Len(c) = 3
      /\ c[1] = l[12] /\ c[2] = l[13] /\ c[3] = l[14]
  BY <1>1, <1>3, Three
<1> DEFINE d == a \o b
<1>7. d \in Seq(S) /\ Len(d) = 8 /\ \A k \in 1 .. 8 : d[k] = IF k <= 4 THEN a[k] ELSE b[k - 4]
  <2>1. /\ a \o b \in Seq(S) /\ Len(a \o b) = Len(a) + Len(b)
        /\ \A k \in 1 .. Len(a) + Len(b) :
             (a \o b)[k] = IF k <= Len(a) THEN a[k] ELSE b[k - Len(a)]
    <3>1. a \in Seq(S) /\ b \in Seq(S)
      BY <1>4, <1>5
    <3> QED BY <3>1, ConcatProperties
  <2> QED BY <1>4, <1>5, <2>1
<1>8. Save = d \o c
  BY <1>2
<1> HIDE DEF d
<1>9. /\ Save \in Seq(S) /\ Len(Save) = 11
      /\ \A k \in 1 .. 11 : Save[k] = IF k <= 8 THEN d[k] ELSE c[k - 8]
  <2>1. /\ d \o c \in Seq(S) /\ Len(d \o c) = Len(d) + Len(c)
        /\ \A k \in 1 .. Len(d) + Len(c) :
             (d \o c)[k] = IF k <= Len(d) THEN d[k] ELSE c[k - Len(d)]
    <3>1. d \in Seq(S) /\ c \in Seq(S)
      BY <1>6, <1>7
    <3> QED BY <3>1, ConcatProperties
  <2>2. Len(d) = 8 /\ Len(d) + Len(c) = 11
    BY <1>6, <1>7
  <2> QED BY <1>8, <2>1, <2>2
<1>10. /\ Save[1] = l[4] /\ Save[2] = l[5] /\ Save[3] = l[6] /\ Save[4] = l[7]
       /\ Save[5] = l[8] /\ Save[6] = l[9] /\ Save[7] = l[10] /\ Save[8] = l[11]
       /\ Save[9] = l[12] /\ Save[10] = l[13] /\ Save[11] = l[14]
  BY <1>4, <1>5, <1>6, <1>7, <1>9
<1>11. ASSUME NEW k \in 1 .. 11
       PROVE  Save[k] = l[k + 3]
  <2>1. k \in {1, 2, 3, 4, 5, 6, 7, 8, 9, 10, 11}
    OBVIOUS
  <2> QED BY <1>10, <2>1
<1> QED BY <1>9, <1>11 DEF S, l

\* The second half.
LEMMA RestoreListed ==
  ASSUME NEW v
  PROVE  LET t == Restore(Through(v))
         IN /\ t \in Seq(Instructions(v)) /\ Len(t) = 10
            /\ \A k \in 1 .. 10 : t[k] = Listing(v)[k + 14]
<1> DEFINE S == Instructions(v)
           l == Listing(v)
           r == Through(v)
           t == Restore(r)
           a == << Op("pop", r), Op("pop", r) >>
           b == LoadSegments(r)
           c == << Op("popa", 0), Op("add_esp", Cleanup), Op("sti", 0), Op("iret", 0) >>
<1>1. a = <<l[15], l[16]>> /\ b = <<l[17], l[18], l[19], l[20]>>
        /\ c = <<l[21], l[22], l[23], l[24]>>
  BY ListingRead DEF LoadSegments, Cleanup
<1>2. t = (a \o b) \o c
  BY DEF Restore
<1>3. \A k \in 1 .. 24 : l[k] \in S
  BY ListingMember
<1> HIDE DEF S, l, r, t, a, b, c
<1>4. a \in Seq(S) /\ Len(a) = 2 /\ a[1] = l[15] /\ a[2] = l[16]
  BY <1>1, <1>3, Two
<1>5. /\ b \in Seq(S) /\ Len(b) = 4
      /\ b[1] = l[17] /\ b[2] = l[18] /\ b[3] = l[19] /\ b[4] = l[20]
  BY <1>1, <1>3, Four
<1>6. /\ c \in Seq(S) /\ Len(c) = 4
      /\ c[1] = l[21] /\ c[2] = l[22] /\ c[3] = l[23] /\ c[4] = l[24]
  BY <1>1, <1>3, Four
<1> DEFINE d == a \o b
<1>7. d \in Seq(S) /\ Len(d) = 6 /\ \A k \in 1 .. 6 : d[k] = IF k <= 2 THEN a[k] ELSE b[k - 2]
  <2>1. /\ a \o b \in Seq(S) /\ Len(a \o b) = Len(a) + Len(b)
        /\ \A k \in 1 .. Len(a) + Len(b) :
             (a \o b)[k] = IF k <= Len(a) THEN a[k] ELSE b[k - Len(a)]
    <3>1. a \in Seq(S) /\ b \in Seq(S)
      BY <1>4, <1>5
    <3> QED BY <3>1, ConcatProperties
  <2> QED BY <1>4, <1>5, <2>1
<1>8. t = d \o c
  BY <1>2
<1> HIDE DEF d
<1>9. /\ t \in Seq(S) /\ Len(t) = 10
      /\ \A k \in 1 .. 10 : t[k] = IF k <= 6 THEN d[k] ELSE c[k - 6]
  <2>1. /\ d \o c \in Seq(S) /\ Len(d \o c) = Len(d) + Len(c)
        /\ \A k \in 1 .. Len(d) + Len(c) :
             (d \o c)[k] = IF k <= Len(d) THEN d[k] ELSE c[k - Len(d)]
    <3>1. d \in Seq(S) /\ c \in Seq(S)
      BY <1>6, <1>7
    <3> QED BY <3>1, ConcatProperties
  <2>2. Len(d) = 6 /\ Len(d) + Len(c) = 10
    BY <1>6, <1>7
  <2> QED BY <1>8, <2>1, <2>2
<1>10. /\ d[1] = l[15] /\ d[2] = l[16] /\ d[3] = l[17] /\ d[4] = l[18] /\ d[5] = l[19]
       /\ d[6] = l[20]
  BY <1>4, <1>5, <1>7
<1>11. /\ t[1] = d[1] /\ t[2] = d[2] /\ t[3] = d[3] /\ t[4] = d[4] /\ t[5] = d[5]
       /\ t[6] = d[6] /\ t[7] = c[1] /\ t[8] = c[2] /\ t[9] = c[3] /\ t[10] = c[4]
  BY <1>9
<1>12. ASSUME NEW k \in 1 .. 10
       PROVE  t[k] = l[k + 14]
  <2>1. k \in {1, 2, 3, 4, 5, 6, 7, 8, 9, 10}
    OBVIOUS
  <2>2. /\ t[7] = l[21] /\ t[8] = l[22] /\ t[9] = l[23] /\ t[10] = l[24]
    BY <1>6, <1>11
  <2> QED BY <1>10, <1>11, <2>1, <2>2
<1> QED BY <1>9, <1>12 DEF S, l, r, t

\* What comes before the common part.
Entry(v) == << Op("cli", 0) >>
              \o (IF v \in StubsWithErrorCode THEN <<>> ELSE << Op("push_imm", 0) >>)
              \o << Op("push_imm", v) >>

\* A stub without the dummy skips its line.
LEMMA EntryListed ==
  ASSUME NEW v
  PROVE  /\ Entry(v) \in Seq(Instructions(v)) /\ Len(Entry(v)) = IF Dummy(v) THEN 3 ELSE 2
         /\ \A i \in 1 .. Len(Entry(v)) : Entry(v)[i] = Listing(v)[Position(v, i)]
<1> DEFINE S == Instructions(v)
           l == Listing(v)
           e == Entry(v)
           a == << l[1] >>
           b == << l[2] >>
           c == << l[3] >>
<1>1. l[1] = Op("cli", 0) /\ l[2] = Op("push_imm", 0) /\ l[3] = Op("push_imm", v)
  BY ListingRead
<1>2. e = (a \o (IF Dummy(v) THEN b ELSE <<>>)) \o c
  BY <1>1 DEF Entry, Dummy
<1>3. /\ Position(v, 1) = 1
      /\ Dummy(v) => Position(v, 2) = 2 /\ Position(v, 3) = 3
      /\ ~Dummy(v) => Position(v, 2) = 3
  BY DEF Position
<1>4. l[1] \in S /\ l[2] \in S /\ l[3] \in S
  BY ListingMember
<1> HIDE DEF S, l, e
<1>5. /\ a \in Seq(S) /\ Len(a) = 1 /\ a[1] = l[1]
      /\ b \in Seq(S) /\ Len(b) = 1 /\ b[1] = l[2]
      /\ c \in Seq(S) /\ Len(c) = 1 /\ c[1] = l[3]
  BY <1>4
<1> HIDE DEF a, b, c
<1>6. CASE Dummy(v)
  <2> DEFINE d == a \o b
  <2>1. d \in Seq(S) /\ Len(d) = 2 /\ d[1] = l[1] /\ d[2] = l[2]
    <3>1. /\ a \o b \in Seq(S) /\ Len(a \o b) = Len(a) + Len(b)
          /\ \A k \in 1 .. Len(a) + Len(b) :
               (a \o b)[k] = IF k <= Len(a) THEN a[k] ELSE b[k - Len(a)]
      <4>1. a \in Seq(S) /\ b \in Seq(S)
        BY <1>5
      <4> QED BY <4>1, ConcatProperties
    <3> QED BY <1>5, <3>1
  <2>2. e = d \o c
    BY <1>2, <1>6
  <2> HIDE DEF d
  <2>3. e \in Seq(S) /\ Len(e) = 3 /\ e[1] = l[1] /\ e[2] = l[2] /\ e[3] = l[3]
    <3>1. /\ d \o c \in Seq(S) /\ Len(d \o c) = Len(d) + Len(c)
          /\ \A k \in 1 .. Len(d) + Len(c) :
               (d \o c)[k] = IF k <= Len(d) THEN d[k] ELSE c[k - Len(d)]
      <4>1. d \in Seq(S) /\ c \in Seq(S)
        BY <1>5, <2>1
      <4> QED BY <4>1, ConcatProperties
    <3> QED BY <1>5, <2>1, <2>2, <3>1
  <2>4. \A i \in 1 .. 3 : i = 1 \/ i = 2 \/ i = 3
    OBVIOUS
  <2> QED BY <1>3, <1>6, <2>3, <2>4 DEF S, l, e
<1>7. CASE ~Dummy(v)
  <2>1. e = a \o c
    <3>1. a \o <<>> = a
      BY <1>5, ConcatEmptySeq
    <3> QED BY <1>2, <1>7, <3>1
  <2>2. e \in Seq(S) /\ Len(e) = 2 /\ e[1] = l[1] /\ e[2] = l[3]
    <3>1. /\ a \o c \in Seq(S) /\ Len(a \o c) = Len(a) + Len(c)
          /\ \A k \in 1 .. Len(a) + Len(c) :
               (a \o c)[k] = IF k <= Len(a) THEN a[k] ELSE c[k - Len(a)]
      <4>1. a \in Seq(S) /\ c \in Seq(S)
        BY <1>5
      <4> QED BY <4>1, ConcatProperties
    <3> QED BY <1>5, <2>1, <3>1
  <2>3. \A i \in 1 .. 2 : i = 1 \/ i = 2
    OBVIOUS
  <2> QED BY <1>3, <1>7, <2>2, <2>3 DEF S, l, e
<1> QED BY <1>6, <1>7

\* The code of a stub is the listing, without the dummy's line where there is none.
LEMMA CodeListed ==
  ASSUME NEW v
  PROVE  /\ Len(Code(v)) = IF Dummy(v) THEN 24 ELSE 23
         /\ \A i \in 1 .. Len(Code(v)) : Code(v)[i] = Listing(v)[Position(v, i)]
<1> DEFINE S == Instructions(v)
           l == Listing(v)
           e == Entry(v)
           s == Save
           t == Restore(Through(v))
           n == IF Dummy(v) THEN 3 ELSE 2
           c == Code(v)
<1>1. c = (e \o s) \o t
  BY DEF Code, Entry, Through
<1>2. e \in Seq(S) /\ Len(e) = n /\ \A i \in 1 .. n : e[i] = l[Position(v, i)]
  BY EntryListed
<1>3. s \in Seq(S) /\ Len(s) = 11 /\ \A k \in 1 .. 11 : s[k] = l[k + 3]
  BY SaveListed
<1>4. t \in Seq(S) /\ Len(t) = 10 /\ \A k \in 1 .. 10 : t[k] = l[k + 14]
  BY RestoreListed
<1>5. n \in Nat /\ \A i \in Nat : i > n => i - n + 3 = Position(v, i)
  BY DEF Position
<1> HIDE DEF S, l, e, s, t, n, c
<1> DEFINE d == e \o s
<1>6. /\ d \in Seq(S) /\ Len(d) = n + 11
      /\ \A k \in 1 .. n + 11 : d[k] = IF k <= n THEN e[k] ELSE s[k - n]
  <2>1. /\ e \o s \in Seq(S) /\ Len(e \o s) = Len(e) + Len(s)
        /\ \A k \in 1 .. Len(e) + Len(s) :
             (e \o s)[k] = IF k <= Len(e) THEN e[k] ELSE s[k - Len(e)]
    <3>1. e \in Seq(S) /\ s \in Seq(S)
      BY <1>2, <1>3
    <3> QED BY <3>1, ConcatProperties
  <2> QED BY <1>2, <1>3, <2>1
<1>7. c = d \o t
  BY <1>1
<1> HIDE DEF d
<1>8. /\ Len(c) = n + 21
      /\ \A k \in 1 .. n + 21 : c[k] = IF k <= n + 11 THEN d[k] ELSE t[k - (n + 11)]
  <2>1. /\ d \o t \in Seq(S) /\ Len(d \o t) = Len(d) + Len(t)
        /\ \A k \in 1 .. Len(d) + Len(t) :
             (d \o t)[k] = IF k <= Len(d) THEN d[k] ELSE t[k - Len(d)]
    <3>1. d \in Seq(S) /\ t \in Seq(S)
      BY <1>4, <1>6
    <3> QED BY <3>1, ConcatProperties
  <2>2. Len(d) = n + 11 /\ Len(d) + Len(t) = n + 21
    BY <1>4, <1>5, <1>6
  <2> QED BY <1>7, <2>1, <2>2
<1>9. ASSUME NEW i \in 1 .. n + 21
      PROVE  c[i] = l[Position(v, i)]
  <2>1. CASE i <= n
    <3>1. i \in 1 .. n /\ i \in 1 .. n + 11 /\ i <= n + 11
      BY <1>5, <2>1
    <3> QED BY <1>2, <1>6, <1>8, <2>1, <3>1
  <2>2. CASE i > n /\ i <= n + 11
    <3>1. i - n \in 1 .. 11 /\ i \in 1 .. n + 11 /\ ~(i <= n)
      BY <1>5, <2>2
    <3>2. c[i] = s[i - n]
      BY <1>6, <1>8, <2>2, <3>1
    <3>3. s[i - n] = l[i - n + 3]
      BY <1>3, <3>1
    <3> QED BY <1>5, <2>2, <3>2, <3>3
  <2>3. CASE i > n + 11
    <3>1. i - (n + 11) \in 1 .. 10 /\ ~(i <= n + 11) /\ (i - (n + 11)) + 14 = i - n + 3 /\ i > n
      BY <1>5, <2>3
    <3>2. c[i] = t[i - (n + 11)]
      BY <1>8, <3>1
    <3>3. t[i - (n + 11)] = l[(i - (n + 11)) + 14]
      BY <1>4, <3>1
    <3> QED BY <1>5, <3>1, <3>2, <3>3
  <2> QED BY <1>5, <2>1, <2>2, <2>3
<1>10. n + 21 = IF Dummy(v) THEN 24 ELSE 23
  BY DEF n
<1> QED BY <1>8, <1>9, <1>10 DEF c, l

-----------------------------------------------------------------------------
(* The invariant.                                                          *)

\* The words from the interrupted code's stack pointer down.
Words(f) ==
  LET w == f.was
  IN << w.flags, <<0, w.cs>>, w.eip, <<0, IF f.vector \in WithErrorCode THEN f.err ELSE 0>>,
        <<0, f.vector>>,
        w.reg["eax"], w.reg["ecx"], w.reg["edx"], w.reg["ebx"], <<0, w.sp - 5>>,
        w.reg["ebp"], w.reg["esi"], w.reg["edi"],
        <<w.reg["eax"][1], KernelData>>, <<0, w.sp - 14>>,
        <<f.vector, IF Dummy(f.vector) THEN 15 ELSE 14>> >>

\* How many of them there are before the instruction at a position is executed.
Depths(v) ==
  << IF Dummy(v) THEN 3 ELSE 4, 3, 4, 5, 13, 13, 14, 14, 14, 14, 14, 14, 15, 15, 15,
     14, 13, 13, 13, 13, 13, 5, 3, 3 >>

Depth(v, p) == IF p = 0 THEN 16 ELSE Depths(v)[p]

\* C may have overwritten its argument.
Pushed(f, p, m) ==
  \A d \in 1 .. Depth(f.vector, p) : m[f.was.sp - d] = Words(f)[d] \/ (d = 15 /\ p = 15)

\* What the rest of the stub needs of the registers.
RegsAt(f, p, r) ==
  /\ p \in 1 .. 5 \cup 22 .. 24 => r = f.was.reg
  /\ p = 6        => r["eax"] = <<f.was.reg["eax"][1], KernelData>>
  /\ p \in 8 .. 11  => r["eax"][2] = KernelData
  /\ p \in 17 .. 20 => r[Through(f.vector)][2] = KernelData

\* Interrupts are off but after the sti; C gets a clear direction flag.
FlagsAt(f, p) ==
  IF p = 24 THEN <<0, 1>> ELSE IF p = 0 \/ p >= 14 THEN <<0, 0>> ELSE <<f.was.flags[1], 0>>

\* The state before the instruction at position p of the stub that f entered.
Inside(f, p, r, s, m, fl) ==
  /\ s = f.was.sp - Depth(f.vector, p)
  /\ Pushed(f, p, m)
  /\ RegsAt(f, p, r)
  /\ fl = FlagsAt(f, p)
  /\ f.was.stack = [a \in f.was.sp .. Top - 1 |-> m[a]]

Pos   == Position(eip[1], eip[2])
Frame == frames[Len(frames)]

\* Only an IRQ's handler returns, so what follows the call is an IRQ's.
InStub ==
  /\ eip = <<Frame.vector, eip[2]>> /\ eip[2] \in 0 .. Len(Code(Frame.vector))
  /\ Pos >= 15 => Frame.vector >= 32
  /\ Inside(Frame, Pos, reg, sp, mem, flags)

IsContext(w) ==
  w = [reg |-> w.reg, sp |-> w.sp, seg |-> w.seg, cs |-> w.cs, eip |-> w.eip,
       flags |-> w.flags, stack |-> w.stack]

\* 16 words of a frame, and three at most of the kernel's above the outer one.
FrameOK(f) ==
  /\ IsContext(f.was)
  /\ f.vector \in Vectors /\ f.err \in {0, 7}
  /\ f.was.reg \in [General -> Halves] /\ f.was.sp \in Top - 19 .. Top - 1
  /\ f.was.seg \in [Segments -> {KernelData}] /\ f.was.cs = KernelCode /\ f.was.eip \in Halves
  /\ f.was.flags \in {0, 1} \X {0, 1}

\* A frame of the kernel's own code.
KernelFrame(f) == FrameOK(f) /\ f.was.eip = Main /\ f.was.sp \in Top - 3 .. Top - 1

\* The kernel runs, or a stub or handler that interrupted it, or an NMI's that
\* interrupted that.
StubInv ==
  /\ TypeOK
  /\ \/ frames = <<>> /\ eip = Main /\ sp \in Top - 3 .. Top - 1
     \/ frames = <<frames[1]>> /\ KernelFrame(frames[1]) /\ InStub
     \/ /\ frames = <<frames[1], frames[2]>> /\ KernelFrame(frames[1]) /\ FrameOK(frames[2])
        /\ frames[1].vector # NMI /\ frames[2].vector = NMI /\ InStub

-----------------------------------------------------------------------------
(* What the tables say.                                                    *)

\* The tables, entry by entry.
LEMMA DepthTable ==
  ASSUME NEW v
  PROVE  /\ Depth(v, 0) = 16
         /\ Depth(v, 1) = IF Dummy(v) THEN 3 ELSE 4
         /\ Depth(v, 2) = 3 /\ Depth(v, 3) = 4 /\ Depth(v, 4) = 5
         /\ Depth(v, 5) = 13 /\ Depth(v, 6) = 13
         /\ Depth(v, 7) = 14 /\ Depth(v, 8) = 14 /\ Depth(v, 9) = 14 /\ Depth(v, 10) = 14
         /\ Depth(v, 11) = 14 /\ Depth(v, 12) = 14
         /\ Depth(v, 13) = 15 /\ Depth(v, 14) = 15 /\ Depth(v, 15) = 15 /\ Depth(v, 16) = 14
         /\ Depth(v, 17) = 13 /\ Depth(v, 18) = 13 /\ Depth(v, 19) = 13 /\ Depth(v, 20) = 13
         /\ Depth(v, 21) = 13 /\ Depth(v, 22) = 5 /\ Depth(v, 23) = 3 /\ Depth(v, 24) = 3
BY DEF Depth, Depths

LEMMA DepthRange ==
  ASSUME NEW v, NEW p \in 0 .. 24
  PROVE  Depth(v, p) \in 3 .. 16
<1>1. p \in {0, 1, 2, 3, 4, 5, 6, 7, 8, 9, 10, 11, 12} \/ p \in {13, 14, 15, 16, 17, 18, 19, 20, 21, 22, 23, 24}
  OBVIOUS
<1>2. (IF Dummy(v) THEN 3 ELSE 4) \in 3 .. 16
  OBVIOUS
<1> QED BY <1>1, <1>2, DepthTable

LEMMA WordTable ==
  ASSUME NEW f
  PROVE  LET t == Words(f)
             w == f.was
         IN /\ t[1] = w.flags /\ t[2] = <<0, w.cs>> /\ t[3] = w.eip
            /\ t[4] = <<0, IF f.vector \in WithErrorCode THEN f.err ELSE 0>>
            /\ t[5] = <<0, f.vector>>
            /\ t[6] = w.reg["eax"] /\ t[7] = w.reg["ecx"] /\ t[8] = w.reg["edx"]
            /\ t[9] = w.reg["ebx"] /\ t[10] = <<0, w.sp - 5>> /\ t[11] = w.reg["ebp"]
            /\ t[12] = w.reg["esi"] /\ t[13] = w.reg["edi"]
            /\ t[14] = <<w.reg["eax"][1], KernelData>> /\ t[15] = <<0, w.sp - 14>>
            /\ t[16] = <<f.vector, IF Dummy(f.vector) THEN 15 ELSE 14>>
BY DEF Words

\* A stub pushes a dummy just where the processor pushes no error code.
LEMMA VectorFacts ==
  ASSUME NEW v \in Vectors
  PROVE  /\ v \in Int /\ v >= 0
         /\ v \in WithErrorCode <=> ~Dummy(v)
BY VectorsAssumption DEF Vectors, WithErrorCode, StubsWithErrorCode, Dummy, NMI

LEMMA WordsTyped ==
  ASSUME NEW f, FrameOK(f), NEW d \in 1 .. 16
  PROVE  Words(f)[d] \in Halves
<1>1. d \in {1, 2, 3, 4, 5, 6, 7, 8, 9, 10, 11, 12, 13, 14, 15, 16}
  OBVIOUS
<1>2. f.vector \in Int /\ f.err \in Int /\ f.was.sp \in Int /\ 0 \in Int
  BY VectorFacts, VectorsAssumption DEF FrameOK
<1>3. \A x, y \in Int : <<x, y>> \in Halves
  BY DEF Halves
<1>4. /\ f.was.reg["eax"] \in Halves /\ f.was.reg["ecx"] \in Halves /\ f.was.reg["edx"] \in Halves
      /\ f.was.reg["ebx"] \in Halves /\ f.was.reg["ebp"] \in Halves /\ f.was.reg["esi"] \in Halves
      /\ f.was.reg["edi"] \in Halves
  BY DEF FrameOK, General
<1>5. f.was.reg["eax"][1] \in Int
  BY <1>4 DEF Halves
<1>6. f.was.eip \in Halves /\ f.was.flags \in Halves /\ f.was.cs \in Int
  BY DEF FrameOK, Halves, KernelCode
<1>7. KernelData \in Int
  BY DEF KernelData
<1>8. (IF f.vector \in WithErrorCode THEN f.err ELSE 0) \in Int
        /\ (IF Dummy(f.vector) THEN 15 ELSE 14) \in Int
        /\ f.was.sp - 5 \in Int /\ f.was.sp - 14 \in Int
  BY <1>2
<1> DEFINE t == Words(f)
<1>9. /\ t[1] \in Halves /\ t[2] \in Halves /\ t[3] \in Halves /\ t[4] \in Halves /\ t[5] \in Halves
  BY <1>2, <1>3, <1>6, <1>8, WordTable
<1>10. /\ t[6] \in Halves /\ t[7] \in Halves /\ t[8] \in Halves /\ t[9] \in Halves
       /\ t[11] \in Halves /\ t[12] \in Halves /\ t[13] \in Halves
  BY <1>4, WordTable
<1>11. t[10] \in Halves /\ t[14] \in Halves /\ t[15] \in Halves /\ t[16] \in Halves
  <2>1. /\ <<0, f.was.sp - 5>> \in Halves /\ <<0, f.was.sp - 14>> \in Halves
        /\ <<f.was.reg["eax"][1], KernelData>> \in Halves
        /\ <<f.vector, IF Dummy(f.vector) THEN 15 ELSE 14>> \in Halves
    BY <1>2, <1>3, <1>5, <1>7, <1>8
  <2> QED BY <2>1, WordTable
<1> HIDE DEF t
<1>12. t[d] \in Halves
  <2>1. d \in {1, 2, 3, 4, 5} \/ d \in {6, 7, 8, 9, 11, 12, 13} \/ d \in {10, 14, 15, 16}
    BY <1>1
  <2>2. d \in {1, 2, 3, 4, 5} => t[d] \in Halves
    BY <1>9
  <2>3. d \in {6, 7, 8, 9, 11, 12, 13} => t[d] \in Halves
    BY <1>10
  <2>4. d \in {10, 14, 15, 16} => t[d] \in Halves
    BY <1>11
  <2> QED BY <2>1, <2>2, <2>3, <2>4
<1> QED BY <1>12 DEF t

\* Where the instructions are.
LEMMA Found ==
  ASSUME NEW v, NEW p \in 1 .. 24
  PROVE  LET o == Listing(v)[p].op
         IN /\ o = "push_imm" => p \in {2, 3}
            /\ o = "push" => p \in {6, 12}
            /\ o = "pusha" => p = 4
            /\ o = "pop" => p \in {15, 16}
            /\ o = "popa" => p = 21
            /\ o = "add_esp" => p = 22
            /\ o = "mov_ax_ds" => p = 5
            /\ o = "mov_ax_0x10" => p = 7
            /\ o = "mov" => p \in 8 .. 11 \cup 17 .. 20
            /\ o = "cli" => p = 1
            /\ o = "cld" => p = 13
            /\ o = "sti" => p = 23
            /\ o = "call" => p = 14
            /\ o = "iret" => p = 24
<1> DEFINE l == Listing(v)
<1>1. p \in {1, 2, 3, 4, 5, 6, 7, 8, 9, 10, 11, 12} \/ p \in {13, 14, 15, 16, 17, 18, 19, 20, 21, 22, 23, 24}
  OBVIOUS
<1>2. /\ l[1].op = "cli" /\ l[2].op = "push_imm" /\ l[3].op = "push_imm" /\ l[4].op = "pusha"
      /\ l[5].op = "mov_ax_ds" /\ l[6].op = "push" /\ l[7].op = "mov_ax_0x10"
      /\ l[8].op = "mov" /\ l[9].op = "mov" /\ l[10].op = "mov" /\ l[11].op = "mov"
      /\ l[12].op = "push" /\ l[13].op = "cld" /\ l[14].op = "call"
  <2>1. /\ l[1] = Op("cli", 0) /\ l[2] = Op("push_imm", 0) /\ l[3] = Op("push_imm", v)
      /\ l[4] = Op("pusha", 0) /\ l[5] = Op("mov_ax_ds", 0) /\ l[6] = Op("push", "eax") /\ l[7] = Op("mov_ax_0x10", 0)
      /\ l[8] = Op("mov", <<"ds", "eax">>) /\ l[9] = Op("mov", <<"es", "eax">>)
      /\ l[10] = Op("mov", <<"fs", "eax">>) /\ l[11] = Op("mov", <<"gs", "eax">>)
      /\ l[12] = Op("push", "esp") /\ l[13] = Op("cld", 0) /\ l[14] = Op("call", 0)
    BY ListingRead
  <2> HIDE DEF l
  <2>2. /\ Op("cli", 0).op = "cli" /\ Op("push_imm", 0).op = "push_imm"
        /\ Op("push_imm", v).op = "push_imm" /\ Op("pusha", 0).op = "pusha"
        /\ Op("mov_ax_ds", 0).op = "mov_ax_ds" /\ Op("push", "eax").op = "push"
        /\ Op("mov_ax_0x10", 0).op = "mov_ax_0x10" /\ Op("mov", <<"ds", "eax">>).op = "mov"
        /\ Op("mov", <<"es", "eax">>).op = "mov" /\ Op("mov", <<"fs", "eax">>).op = "mov"
        /\ Op("mov", <<"gs", "eax">>).op = "mov" /\ Op("push", "esp").op = "push"
        /\ Op("cld", 0).op = "cld" /\ Op("call", 0).op = "call"
    BY DEF Op
  <2> QED BY <2>1, <2>2
<1>3. /\ l[15].op = "pop" /\ l[16].op = "pop"
      /\ l[17].op = "mov" /\ l[18].op = "mov" /\ l[19].op = "mov" /\ l[20].op = "mov"
      /\ l[21].op = "popa" /\ l[22].op = "add_esp" /\ l[23].op = "sti" /\ l[24].op = "iret"
  <2> DEFINE r == Through(v)
  <2>1. /\ l[15] = Op("pop", r) /\ l[16] = Op("pop", r)
      /\ l[17] = Op("mov", <<"ds", r>>) /\ l[18] = Op("mov", <<"es", r>>)
      /\ l[19] = Op("mov", <<"fs", r>>) /\ l[20] = Op("mov", <<"gs", r>>)
      /\ l[21] = Op("popa", 0) /\ l[22] = Op("add_esp", 2)
      /\ l[23] = Op("sti", 0) /\ l[24] = Op("iret", 0)
    BY ListingRead
  <2> HIDE DEF l, r
  <2>2. /\ Op("pop", r).op = "pop" /\ Op("mov", <<"ds", r>>).op = "mov"
        /\ Op("mov", <<"es", r>>).op = "mov" /\ Op("mov", <<"fs", r>>).op = "mov"
        /\ Op("mov", <<"gs", r>>).op = "mov" /\ Op("popa", 0).op = "popa"
        /\ Op("add_esp", 2).op = "add_esp" /\ Op("sti", 0).op = "sti"
        /\ Op("iret", 0).op = "iret"
    BY DEF Op
  <2> QED BY <2>1, <2>2
<1> HIDE DEF l
<1>4. l[p].op = "push_imm" => p \in {2, 3}
  BY <1>1, <1>2, <1>3
<1>5. l[p].op = "push" => p \in {6, 12}
  BY <1>1, <1>2, <1>3
<1>6. l[p].op = "pop" => p \in {15, 16}
  BY <1>1, <1>2, <1>3
<1>7. l[p].op = "mov" => p \in 8 .. 11 \cup 17 .. 20
  <2>1. l[p].op = "mov" => p \in {8, 9, 10, 11} \cup {17, 18, 19, 20}
    BY <1>1, <1>2, <1>3
  <2> QED BY <2>1
<1>8. /\ l[p].op = "pusha" => p = 4
      /\ l[p].op = "popa" => p = 21
      /\ l[p].op = "add_esp" => p = 22
      /\ l[p].op = "mov_ax_ds" => p = 5
      /\ l[p].op = "mov_ax_0x10" => p = 7
  BY <1>1, <1>2, <1>3
<1>9. /\ l[p].op = "cli" => p = 1
      /\ l[p].op = "cld" => p = 13
      /\ l[p].op = "sti" => p = 23
      /\ l[p].op = "call" => p = 14
      /\ l[p].op = "iret" => p = 24
  BY <1>1, <1>2, <1>3
<1> QED BY <1>4, <1>5, <1>6, <1>7, <1>8, <1>9 DEF l

-----------------------------------------------------------------------------
(* Moving through a stub.                                                  *)

\* The instruction after one is the next in the listing, but for the dummy's.
LEMMA PositionRange ==
  ASSUME NEW v, NEW i \in 1 .. Len(Code(v))
  PROVE  /\ Position(v, i) \in 1 .. 24
         /\ Position(v, i) = 2 => Dummy(v)
         /\ i = Len(Code(v)) <=> Position(v, i) = 24
         /\ Position(v, i) # 24 => /\ i + 1 \in 1 .. Len(Code(v))
                                 /\ Position(v, i + 1) = IF Position(v, i) = 1 /\ ~Dummy(v)
                                                        THEN 3 ELSE Position(v, i) + 1
<1>1. Len(Code(v)) = IF Dummy(v) THEN 24 ELSE 23
  BY CodeListed
<1>2. CASE Dummy(v)
  <2>1. i \in 1 .. 24 /\ Position(v, i) = i /\ Position(v, i + 1) = i + 1
    BY <1>1, <1>2 DEF Position
  <2> QED BY <1>1, <1>2, <2>1
<1>3. CASE ~Dummy(v)
  <2>1. i \in 1 .. 23
    BY <1>1, <1>3
  <2>2. CASE i = 1
    <3>1. Position(v, i) = 1 /\ Position(v, i + 1) = 3
      BY <1>3, <2>2 DEF Position
    <3> QED BY <1>1, <1>3, <2>2, <3>1
  <2>3. CASE i # 1
    <3>1. Position(v, i) = i + 1 /\ Position(v, i + 1) = i + 2
      BY <1>3, <2>1, <2>3 DEF Position
    <3> QED BY <1>1, <1>3, <2>1, <2>3, <3>1
  <2> QED BY <2>2, <2>3
<1> QED BY <1>2, <1>3

\* Outside the kernel's own code there is a frame, and the stub is its.
LEMMA ExecutingInFrame ==
  ASSUME StubInv, eip # Main
  PROVE  /\ frames # <<>> /\ InStub /\ FrameOK(Frame)
         /\ eip[1] = Frame.vector /\ Frame.vector \in Vectors
<1>1. \/ frames = <<frames[1]>> /\ KernelFrame(frames[1]) /\ InStub
      \/ frames = <<frames[1], frames[2]>> /\ FrameOK(frames[2]) /\ InStub
  BY DEF StubInv
<1>2. frames # <<>> /\ InStub /\ FrameOK(Frame)
  <2>1. CASE frames = <<frames[1]>> /\ KernelFrame(frames[1]) /\ InStub
    <3>1. frames # <<>> /\ Len(frames) = 1
      BY <2>1
    <3>2. Frame = frames[1] /\ FrameOK(frames[1])
      BY <2>1, <3>1 DEF Frame, KernelFrame
    <3> QED BY <2>1, <3>1, <3>2
  <2>2. CASE frames = <<frames[1], frames[2]>> /\ FrameOK(frames[2]) /\ InStub
    <3>1. frames # <<>> /\ Len(frames) = 2
      BY <2>2
    <3>2. Frame = frames[2]
      BY <3>1 DEF Frame
    <3> QED BY <2>2, <3>1, <3>2
  <2> QED BY <1>1, <2>1, <2>2
<1>3. eip = <<Frame.vector, eip[2]>>
  BY <1>2 DEF InStub
<1>4. eip[1] = Frame.vector
  <2>1. \A x, y, z : z = <<x, y>> => z[1] = x
    OBVIOUS
  <2> QED BY <1>3, <2>1
<1> QED BY <1>2, <1>4 DEF FrameOK

\* The instruction that is being executed is in the listing.
LEMMA Executing ==
  ASSUME StubInv, NEW op, At(op)
  PROVE  /\ frames # <<>> /\ InStub /\ FrameOK(Frame)
         /\ eip[1] = Frame.vector /\ Frame.vector \in Vectors
         /\ eip[2] \in 1 .. Len(Code(Frame.vector))
         /\ Pos = Position(Frame.vector, eip[2]) /\ Pos \in 1 .. 24
         /\ Instr = Listing(Frame.vector)[Pos] /\ Listing(Frame.vector)[Pos].op = op
<1>1. eip # Main
  BY DEF At, Main
<1>2. /\ frames # <<>> /\ InStub /\ FrameOK(Frame)
      /\ eip[1] = Frame.vector /\ Frame.vector \in Vectors
  BY <1>1, ExecutingInFrame
<1>3. eip[2] \in 1 .. Len(Code(Frame.vector))
  <2>1. eip[2] \in 0 .. Len(Code(Frame.vector)) /\ eip[2] > 0
    BY <1>2 DEF InStub, At
  <2>2. Len(Code(Frame.vector)) \in Nat
    BY CodeListed
  <2> QED BY <2>1, <2>2
<1>4. Pos = Position(Frame.vector, eip[2])
  BY <1>2 DEF Pos
<1>5. Pos \in 1 .. 24
  BY <1>3, <1>4, PositionRange
<1>6. Instr = Listing(Frame.vector)[Pos]
  BY <1>2, <1>3, <1>4, CodeListed DEF Instr
<1> QED BY <1>2, <1>3, <1>4, <1>5, <1>6 DEF At

\* What of the type invariant does not follow from the position.
RestTyped ==
  /\ reg \in [General -> Halves]
  /\ seg \in [Segments -> {KernelData}] /\ cs = KernelCode
  /\ mem \in [0 .. Top - 1 -> Halves]

\* The stack is deep enough for every stub.
LEMMA PointerTyped ==
  ASSUME NEW f, FrameOK(f), NEW p \in 0 .. 24
  PROVE  /\ f.was.sp - Depth(f.vector, p) \in 0 .. Top - 1
         /\ f.was.sp \in Int /\ f.was.sp - 16 >= 0 /\ f.was.sp <= Top - 1 /\ Top \in Int
<1>1. f.was.sp \in Int /\ f.was.sp >= Top - 19 /\ f.was.sp <= Top - 1 /\ Top \in Int /\ Top >= 40
  BY VectorsAssumption DEF FrameOK
<1>2. Depth(f.vector, p) \in Int /\ Depth(f.vector, p) >= 3 /\ Depth(f.vector, p) <= 16
  BY DepthRange
<1> QED BY <1>1, <1>2

LEMMA FlagsTyped ==
  ASSUME NEW f, FrameOK(f), NEW p
  PROVE  FlagsAt(f, p) \in {0, 1} \X {0, 1}
BY DEF FrameOK, FlagsAt

\* A step inside a stub keeps the invariant when it lands in the same stub.
LEMMA FramesKept ==
  ASSUME StubInv, eip # Main, frames' = frames, RestTyped', InStub'
  PROVE  StubInv'
<1>1. /\ frames # <<>> /\ FrameOK(Frame) /\ Frame.vector \in Vectors
  BY ExecutingInFrame
<1>2. Frame' = Frame
  BY DEF Frame
<1> PICK f : f = Frame
  OBVIOUS
<1>3. /\ eip' = <<f.vector, eip'[2]>> /\ eip'[2] \in 0 .. Len(Code(f.vector))
      /\ Inside(f, Pos', reg', sp', mem', flags')
  BY <1>2 DEF InStub
<1>4. Pos' \in 0 .. 24
  <2>1. Pos' = Position(f.vector, eip'[2])
    BY <1>3 DEF Pos
  <2>2. CASE eip'[2] = 0
    BY <2>1, <2>2 DEF Position
  <2>3. CASE eip'[2] # 0
    <3>1. eip'[2] \in 1 .. Len(Code(f.vector))
      <4>1. Len(Code(f.vector)) \in Nat
        BY CodeListed
      <4> QED BY <1>3, <2>3, <4>1
    <3>2. \A i \in 1 .. Len(Code(f.vector)) : Position(f.vector, i) \in 1 .. 24
      BY PositionRange
    <3>3. Position(f.vector, eip'[2]) \in 1 .. 24
      BY <3>1, <3>2
    <3> QED BY <2>1, <3>3
  <2> QED BY <2>2, <2>3
<1>5. sp' \in 0 .. Top - 1
  <2>1. sp' = f.was.sp - Depth(f.vector, Pos')
    BY <1>3 DEF Inside
  <2>2. \A p \in 0 .. 24 : f.was.sp - Depth(f.vector, p) \in 0 .. Top - 1
    BY <1>1, PointerTyped
  <2> QED BY <1>4, <2>1, <2>2
<1>6. flags' \in {0, 1} \X {0, 1}
  <2>1. \A p : FlagsAt(f, p) \in {0, 1} \X {0, 1}
    BY <1>1, FlagsTyped
  <2>2. flags' = FlagsAt(f, Pos')
    BY <1>3 DEF Inside
  <2> QED BY <2>1, <2>2
<1>7. eip'[1] \in Vectors /\ eip'[2] \in 0 .. Len(Code(eip'[1]))
  BY <1>1, <1>3
<1>8. TypeOK'
  BY <1>5, <1>6, <1>7 DEF RestTyped, TypeOK, Vectors
<1>9. \/ frames = <<frames[1]>> /\ KernelFrame(frames[1])
      \/ /\ frames = <<frames[1], frames[2]>> /\ KernelFrame(frames[1]) /\ FrameOK(frames[2])
         /\ frames[1].vector # NMI /\ frames[2].vector = NMI
  BY <1>1 DEF StubInv
<1> QED BY <1>8, <1>9 DEF StubInv, KernelFrame, FrameOK

\* The position after p in a stub of vector v.
Following(v, p) == IF p = 1 /\ ~Dummy(v) THEN 3 ELSE p + 1

\* An instruction that leads to the next one.
LEMMA Stepped ==
  ASSUME StubInv, NEW op, At(op), Step, frames' = frames, Pos \notin {14, 24}, RestTyped',
         Inside(Frame, Following(Frame.vector, Pos), reg', sp', mem', flags')
  PROVE  StubInv'
<1> PICK f : f = Frame
  OBVIOUS
<1> PICK p : p = Pos
  OBVIOUS
<1> PICK i : i = eip[2]
  OBVIOUS
<1>1. /\ eip[1] = f.vector /\ f.vector \in Vectors /\ i \in 1 .. Len(Code(f.vector))
      /\ p = Position(f.vector, i) /\ p \in 1 .. 24 /\ InStub
  BY Executing
<1>2. i + 1 \in 1 .. Len(Code(f.vector)) /\ Position(f.vector, i + 1) = Following(f.vector, p)
  BY <1>1, PositionRange DEF Following
<1>3. eip' = <<f.vector, i + 1>>
  BY <1>1 DEF Step
<1>4. eip'[1] = f.vector /\ eip'[2] = i + 1 /\ eip' = <<f.vector, eip'[2]>>
  BY <1>3
<1>5. Pos' = Following(f.vector, p)
  BY <1>2, <1>4 DEF Pos
<1>6. Frame' = f
  BY DEF Frame
<1>7. Pos' >= 15 => f.vector >= 32
  <2>1. p >= 15 => f.vector >= 32
    BY <1>1 DEF InStub
  <2>2. Pos' >= 15 => p >= 15
    BY <1>1, <1>5 DEF Following
  <2> QED BY <2>1, <2>2
<1>8. eip'[2] \in 0 .. Len(Code(f.vector))
  <2>1. Len(Code(f.vector)) \in Nat
    BY CodeListed
  <2> QED BY <1>2, <1>4, <2>1
<1>9. InStub'
  BY <1>4, <1>5, <1>6, <1>7, <1>8 DEF InStub
<1>10. eip # Main
  BY DEF At, Main
<1> QED BY <1>9, <1>10, FramesKept

-----------------------------------------------------------------------------
(* The stack.                                                              *)

\* What is left after words have been popped.
LEMMA StillPushed ==
  ASSUME NEW f, NEW p \in 0 .. 24, NEW q \in 0 .. 24, NEW m, Pushed(f, p, m),
         Depth(f.vector, q) <= Depth(f.vector, p), p = 15 => Depth(f.vector, q) < 15
  PROVE  Pushed(f, q, m)
<1>1. Depth(f.vector, p) \in Int /\ Depth(f.vector, q) \in Int
  BY DepthRange
<1>2. SUFFICES ASSUME NEW d \in 1 .. Depth(f.vector, q)
      PROVE  m[f.was.sp - d] = Words(f)[d]
  BY DEF Pushed
<1>3. d \in 1 .. Depth(f.vector, p) /\ ~(d = 15 /\ p = 15)
  BY <1>1
<1> QED BY <1>3 DEF Pushed

\* Addresses below b, of the D words that are on the stack and n more.
LEMMA Places ==
  ASSUME NEW b \in Int, NEW D \in Int, NEW n \in Nat, NEW top \in Int,
         0 <= D, D + n <= 16, 16 <= b, b <= top - 1
  PROVE  /\ \A k \in 1 .. n : /\ b - (D + k) \in 0 .. top - 1
                             /\ b - (D + k) \in (b - D) - n .. (b - D) - 1
                             /\ (b - D) - (b - (D + k)) = k
                             /\ D + k \in 1 .. 16
         /\ \A d \in 1 .. D : /\ b - d \in 0 .. top - 1
                             /\ ~(b - d \in (b - D) - n .. (b - D) - 1)
         /\ \A d \in 1 .. D + n : d \in 1 .. D \/ (d - D \in 1 .. n /\ D + (d - D) = d)
         /\ \A a \in b .. top - 1 : a \in 0 .. top - 1 /\ ~(a \in (b - D) - n .. (b - D) - 1)
         /\ \A a \in (b - D) - n .. (b - D) - 1 : (b - D) - a \in 1 .. n
         /\ (b - D) - n = b - (D + n)
OBVIOUS

\* The words w of a frame, from address b down, are pushed one by one or several
\* at a time: D of them are there, n more come.
Continues(w, b, D, n, words) ==
  /\ mem \in [0 .. Top - 1 -> Halves]
  /\ b \in Int /\ 16 <= b /\ b <= Top - 1 /\ Top \in Int
  /\ D \in Int /\ n \in Nat /\ 0 <= D /\ D + n <= 16
  /\ \A d \in 1 .. 16 : w[d] \in Halves
  /\ sp = b - D /\ \A d \in 1 .. D : mem[b - d] = w[d]
  /\ Len(words) = n /\ Push(words)
  /\ \A k \in 1 .. n : words[k] = w[D + k]

LEMMA PushDeeper ==
  ASSUME NEW w, NEW b, NEW D, NEW n, NEW words, Continues(w, b, D, n, words)
  PROVE  /\ sp' = b - (D + n)
         /\ \A d \in 1 .. D + n : mem'[b - d] = w[d]
         /\ \A a \in b .. Top - 1 : mem'[a] = mem[a]
         /\ mem' \in [0 .. Top - 1 -> Halves]
<1> DEFINE All == 0 .. Top - 1
           Low == (b - D) - n .. (b - D) - 1
           at(a) == (b - D) - a
<1>1. /\ mem \in [All -> Halves]
      /\ b \in Int /\ 16 <= b /\ b <= Top - 1 /\ Top \in Int
      /\ D \in Int /\ n \in Nat /\ 0 <= D /\ D + n <= 16
      /\ \A d \in 1 .. 16 : w[d] \in Halves
      /\ sp = b - D /\ \A d \in 1 .. D : mem[b - d] = w[d]
      /\ Len(words) = n /\ Push(words)
      /\ \A k \in 1 .. n : words[k] = w[D + k]
  BY DEF Continues
<1>2. sp' = (b - D) - n /\ mem' = [a \in DOMAIN mem |-> IF a \in Low THEN words[at(a)] ELSE mem[a]]
  BY <1>1 DEF Push
<1>3. /\ \A k \in 1 .. n : /\ b - (D + k) \in All /\ b - (D + k) \in Low
                          /\ at(b - (D + k)) = k /\ D + k \in 1 .. 16
      /\ \A d \in 1 .. D : b - d \in All /\ ~(b - d \in Low)
      /\ \A d \in 1 .. D + n : d \in 1 .. D \/ (d - D \in 1 .. n /\ D + (d - D) = d)
      /\ \A a \in b .. Top - 1 : a \in All /\ ~(a \in Low)
      /\ \A a \in Low : at(a) \in 1 .. n
      /\ (b - D) - n = b - (D + n)
  <2>1. /\ b \in Int /\ D \in Int /\ n \in Nat /\ Top \in Int
        /\ 0 <= D /\ D + n <= 16 /\ 16 <= b /\ b <= Top - 1
    BY <1>1
  <2> QED BY <2>1, Places
<1> HIDE DEF All, Low, at
<1>4. /\ \A a \in All : mem'[a] = IF a \in Low THEN words[at(a)] ELSE mem[a]
      /\ mem' = [a \in All |-> mem'[a]]
  BY <1>1, <1>2
<1>5. /\ \A k \in 1 .. n : words[k] = w[D + k]
      /\ \A d \in 1 .. 16 : w[d] \in Halves
      /\ \A d \in 1 .. D : mem[b - d] = w[d]
      /\ \A a \in All : mem[a] \in Halves
  BY <1>1
<1>6. ASSUME NEW k \in 1 .. n PROVE mem'[b - (D + k)] = w[D + k]
  BY <1>3, <1>4, <1>5
<1>7. ASSUME NEW d \in 1 .. D PROVE mem'[b - d] = w[d]
  BY <1>3, <1>4, <1>5
<1>8. ASSUME NEW d \in 1 .. D + n PROVE mem'[b - d] = w[d]
  <2>1. CASE d \in 1 .. D
    BY <1>7, <2>1
  <2>2. CASE d - D \in 1 .. n /\ D + (d - D) = d
    <3>1. mem'[b - (D + (d - D))] = w[D + (d - D)]
      BY <1>6, <2>2
    <3> QED BY <2>2, <3>1
  <2> QED BY <1>3, <2>1, <2>2
<1>9. \A a \in b .. Top - 1 : mem'[a] = mem[a]
  BY <1>3, <1>4
<1>10. ASSUME NEW a \in All PROVE mem'[a] \in Halves
  <2>1. CASE a \in Low
    <3>1. PICK k \in 1 .. n : k = at(a)
      BY <1>3, <2>1
    <3>2. mem'[a] = words[k]
      BY <1>4, <2>1, <3>1
    <3>3. words[k] = w[D + k] /\ D + k \in 1 .. 16
      BY <1>3, <1>5
    <3> QED BY <1>5, <3>2, <3>3
  <2>2. CASE a \notin Low
    BY <1>4, <1>5, <2>2
  <2> QED BY <2>1, <2>2
<1>11. mem' \in [All -> Halves]
  BY <1>4, <1>10
<1>12. sp' = b - (D + n)
  BY <1>2, <1>3
<1> QED BY <1>8, <1>9, <1>11, <1>12 DEF All

\* The words are those that the table has next.
Grows(f, p, q, words) ==
  /\ Len(words) \in Nat /\ Depth(f.vector, q) = Depth(f.vector, p) + Len(words)
  /\ \A k \in 1 .. Len(words) : words[k] = Words(f)[Depth(f.vector, p) + k]

LEMMA GrowsByOne ==
  ASSUME NEW f, NEW p, NEW q, NEW word, NEW d \in Nat,
         Depth(f.vector, p) = d, Depth(f.vector, q) = d + 1, word = Words(f)[d + 1]
  PROVE  Grows(f, p, q, <<word>>)
<1> PICK words : words = <<word>>
  OBVIOUS
<1>1. Len(words) = 1 /\ words[1] = word
  OBVIOUS
<1>2. \A k \in 1 .. 1 : k = 1
  OBVIOUS
<1> QED BY <1>1, <1>2 DEF Grows

LEMMA PushInside ==
  ASSUME NEW f, NEW p \in 0 .. 24, NEW q \in 0 .. 24, NEW words
  PROVE  /\ FrameOK(f) /\ p # 15 /\ mem \in [0 .. Top - 1 -> Halves]
         /\ Inside(f, p, reg, sp, mem, flags) /\ Push(words) /\ Grows(f, p, q, words)
         => /\ sp' = f.was.sp - Depth(f.vector, q) /\ Pushed(f, q, mem')
            /\ f.was.stack = [a \in f.was.sp .. Top - 1 |-> mem'[a]]
            /\ mem' \in [0 .. Top - 1 -> Halves]
<1>1. SUFFICES
        ASSUME /\ FrameOK(f) /\ p # 15 /\ mem \in [0 .. Top - 1 -> Halves]
               /\ Inside(f, p, reg, sp, mem, flags) /\ Push(words) /\ Grows(f, p, q, words)
        PROVE  /\ sp' = f.was.sp - Depth(f.vector, q) /\ Pushed(f, q, mem')
               /\ f.was.stack = [a \in f.was.sp .. Top - 1 |-> mem'[a]]
               /\ mem' \in [0 .. Top - 1 -> Halves]
  OBVIOUS
<1>2. PICK n, b, D, w : /\ n = Len(words) /\ b = f.was.sp
                        /\ D = Depth(f.vector, p) /\ w = Words(f)
  OBVIOUS
<1>3. n \in Nat /\ Depth(f.vector, q) = D + n /\ \A k \in 1 .. n : words[k] = w[D + k]
  BY <1>1, <1>2 DEF Grows
<1>4. D \in 3 .. 16 /\ D + n \in 3 .. 16
  BY <1>2, <1>3, DepthRange
<1>5. D \in Int /\ 0 <= D /\ D + n <= 16
  BY <1>4
<1>6. b \in Int /\ 16 <= b /\ b <= Top - 1 /\ Top \in Int
  <2>1. b \in Int /\ b - 16 >= 0 /\ b <= Top - 1 /\ Top \in Int
    BY <1>1, <1>2, PointerTyped
  <2> QED BY <2>1
<1>7. \A d \in 1 .. 16 : w[d] \in Halves
  BY <1>1, <1>2, WordsTyped
<1>8. sp = b - D /\ (\A d \in 1 .. D : mem[b - d] = w[d]) /\ f.was.stack = [a \in b .. Top - 1 |-> mem[a]]
  BY <1>1, <1>2 DEF Inside, Pushed
<1>9. Len(words) = n /\ Push(words) /\ mem \in [0 .. Top - 1 -> Halves]
  BY <1>1, <1>2
<1>10. /\ sp' = b - (D + n)
       /\ \A d \in 1 .. D + n : mem'[b - d] = w[d]
       /\ \A a \in b .. Top - 1 : mem'[a] = mem[a]
       /\ mem' \in [0 .. Top - 1 -> Halves]
  <2>1. Continues(w, b, D, n, words)
    BY <1>3, <1>5, <1>6, <1>7, <1>8, <1>9 DEF Continues
  <2> QED BY <2>1, PushDeeper
<1>11. Pushed(f, q, mem')
  BY <1>2, <1>3, <1>10 DEF Pushed
<1>12. f.was.stack = [a \in b .. Top - 1 |-> mem'[a]]
  BY <1>8, <1>10
<1> QED BY <1>2, <1>3, <1>10, <1>11, <1>12

-----------------------------------------------------------------------------
(* The instructions.                                                       *)

LEMMA StateTyped ==
  ASSUME StubInv
  PROVE  RestTyped /\ sp \in 0 .. Top - 1 /\ flags \in {0, 1} \X {0, 1}
BY DEF StubInv, TypeOK, RestTyped

\* What the invariant says before an instruction.
LEMMA ExecutingInside ==
  ASSUME StubInv, NEW op, At(op)
  PROVE  /\ FrameOK(Frame) /\ Frame.vector \in Vectors
         /\ Pos \in 1 .. 24 /\ (Pos >= 15 => Frame.vector >= 32) /\ (Pos = 2 => Dummy(Frame.vector))
         /\ Instr = Listing(Frame.vector)[Pos] /\ Listing(Frame.vector)[Pos].op = op
         /\ Inside(Frame, Pos, reg, sp, mem, flags)
<1>1. /\ InStub /\ FrameOK(Frame) /\ Frame.vector \in Vectors
      /\ eip[2] \in 1 .. Len(Code(Frame.vector))
      /\ Pos = Position(Frame.vector, eip[2]) /\ Pos \in 1 .. 24
      /\ Instr = Listing(Frame.vector)[Pos] /\ Listing(Frame.vector)[Pos].op = op
  BY Executing
<1>2. Pos = 2 => Dummy(Frame.vector)
  BY <1>1, PositionRange
<1> QED BY <1>1, <1>2 DEF InStub

\* The position of an instruction that is being executed.
LEMMA FoundAt ==
  ASSUME StubInv
  PROVE  /\ At("push_imm") => Pos \in {2, 3}
         /\ At("push") => Pos \in {6, 12}
         /\ At("pusha") => Pos = 4
         /\ At("pop") => Pos \in {15, 16}
         /\ At("popa") => Pos = 21
         /\ At("add_esp") => Pos = 22
         /\ At("mov_ax_ds") => Pos = 5
         /\ At("mov_ax_0x10") => Pos = 7
         /\ At("mov") => Pos \in 8 .. 11 \cup 17 .. 20
         /\ At("cli") => Pos = 1
         /\ At("cld") => Pos = 13
         /\ At("sti") => Pos = 23
         /\ At("call") => Pos = 14
         /\ At("iret") => Pos = 24
<1> DEFINE o == Listing(Frame.vector)[Pos].op
<1>1. ASSUME NEW op, At(op)
      PROVE  Pos \in 1 .. 24 /\ o = op
  BY <1>1, ExecutingInside
<1>2. CASE Pos \in 1 .. 24
  <2>1. /\ o = "push_imm" => Pos \in {2, 3}
        /\ o = "push" => Pos \in {6, 12}
        /\ o = "pusha" => Pos = 4
        /\ o = "pop" => Pos \in {15, 16}
        /\ o = "popa" => Pos = 21
        /\ o = "add_esp" => Pos = 22
        /\ o = "mov_ax_ds" => Pos = 5
        /\ o = "mov_ax_0x10" => Pos = 7
        /\ o = "mov" => Pos \in 8 .. 11 \cup 17 .. 20
        /\ o = "cli" => Pos = 1
        /\ o = "cld" => Pos = 13
        /\ o = "sti" => Pos = 23
        /\ o = "call" => Pos = 14
        /\ o = "iret" => Pos = 24
    BY <1>2, Found
  <2> HIDE DEF o
  <2> QED BY <1>1, <2>1
<1>3. CASE Pos \notin 1 .. 24
  <2>1. ASSUME NEW op PROVE ~At(op)
    BY <1>1, <1>3
  <2> QED BY <2>1, Zenon
<1> QED BY <1>2, <1>3

\* cli, sti, cld.
LEMMA FlagKeepsInv ==
  ASSUME StubInv, FlagStep
  PROVE  StubInv'
<1>1. PICK op \in {"cli", "sti", "cld"} : At(op)
  BY DEF FlagStep
<1> PICK f : f = Frame
  OBVIOUS
<1> PICK p : p = Pos
  OBVIOUS
<1>2. /\ p \in 1 .. 24 /\ Listing(f.vector)[p].op = op /\ Inside(f, p, reg, sp, mem, flags)
  BY <1>1, ExecutingInside
<1>3. /\ At("cli") => p = 1
      /\ At("cld") => p = 13
      /\ At("sti") => p = 23
  BY FoundAt
<1>4. /\ Step /\ frames' = frames /\ reg' = reg /\ sp' = sp /\ seg' = seg /\ cs' = cs /\ mem' = mem
      /\ \/ At("cli") /\ flags' = <<flags[1], 0>>
         \/ At("sti") /\ flags' = <<flags[1], 1>>
         \/ At("cld") /\ flags' = <<0, flags[2]>>
  BY DEF FlagStep
<1>5. p \in {1, 13, 23}
  BY <1>1, <1>3
<1> PICK q : q = Following(f.vector, p)
  OBVIOUS
<1>6. /\ p = 1 => q = IF Dummy(f.vector) THEN 2 ELSE 3
      /\ p = 13 => q = 14
      /\ p = 23 => q = 24
  BY DEF Following
<1>7. Depth(f.vector, q) = Depth(f.vector, p) /\ q \in 0 .. 24 /\ p # 15
  BY <1>5, <1>6, DepthTable
<1>8. Pushed(f, q, mem')
  <2>1. Pushed(f, p, mem)
    BY <1>2 DEF Inside
  <2> QED BY <1>4, <1>7, <2>1 DEF Pushed
<1>9. RegsAt(f, q, reg')
  <2>1. RegsAt(f, p, reg) /\ reg' = reg
    BY <1>2, <1>4 DEF Inside
  <2>2. p \in {1, 23} => reg = f.was.reg
    BY <2>1 DEF RegsAt
  <2>3. (p \in {1, 23} /\ q \in {2, 3, 24}) \/ (p = 13 /\ q = 14)
    BY <1>5, <1>6
  <2>4. q \in {2, 3, 24} /\ reg' = f.was.reg => RegsAt(f, q, reg')
    BY DEF RegsAt
  <2>5. q = 14 => RegsAt(f, q, reg')
    BY DEF RegsAt
  <2> QED BY <2>1, <2>2, <2>3, <2>4, <2>5
<1>10. flags' = FlagsAt(f, q)
  <2>1. flags = FlagsAt(f, p)
    BY <1>2 DEF Inside
  <2>2. CASE At("cli") /\ flags' = <<flags[1], 0>>
    <3>1. p = 1 /\ q \in {2, 3}
      BY <1>3, <1>6, <2>2
    <3> QED BY <2>1, <2>2, <3>1 DEF FlagsAt
  <2>3. CASE At("sti") /\ flags' = <<flags[1], 1>>
    <3>1. p = 23 /\ q = 24
      BY <1>3, <1>6, <2>3
    <3> QED BY <2>1, <2>3, <3>1 DEF FlagsAt
  <2>4. CASE At("cld") /\ flags' = <<0, flags[2]>>
    <3>1. p = 13 /\ q = 14
      BY <1>3, <1>6, <2>4
    <3> QED BY <2>1, <2>4, <3>1 DEF FlagsAt
  <2> QED BY <1>4, <2>2, <2>3, <2>4
<1>11. Inside(f, q, reg', sp', mem', flags')
  BY <1>2, <1>4, <1>7, <1>8, <1>9, <1>10 DEF Inside
<1>12. RestTyped'
  BY <1>4, StateTyped DEF RestTyped
<1>13. Pos \notin {14, 24}
  BY <1>5
<1> QED BY <1>1, <1>4, <1>11, <1>12, <1>13, Stepped

\* The operands.
LEMMA Arguments ==
  ASSUME NEW v
  PROVE  LET l == Listing(v)
         IN /\ l[2].arg = 0 /\ l[3].arg = v /\ l[6].arg = "eax" /\ l[12].arg = "esp"
            /\ l[15].arg = Through(v) /\ l[16].arg = Through(v) /\ l[22].arg = 2
<1> DEFINE l == Listing(v)
           r == Through(v)
<1>1. /\ l[2] = Op("push_imm", 0) /\ l[3] = Op("push_imm", v) /\ l[6] = Op("push", "eax")
      /\ l[12] = Op("push", "esp") /\ l[15] = Op("pop", r) /\ l[16] = Op("pop", r)
      /\ l[22] = Op("add_esp", 2)
  BY ListingRead
<1> HIDE DEF l, r
<1>2. /\ Op("push_imm", 0).arg = 0 /\ Op("push_imm", v).arg = v /\ Op("push", "eax").arg = "eax"
      /\ Op("push", "esp").arg = "esp" /\ Op("pop", r).arg = r /\ Op("add_esp", 2).arg = 2
  BY DEF Op
<1> QED BY <1>1, <1>2 DEF l, r

LEMMA MovArguments ==
  ASSUME NEW v, NEW p \in 8 .. 11 \cup 17 .. 20
  PROVE  \E s \in Segments : Listing(v)[p].arg = <<s, IF p <= 11 THEN "eax" ELSE Through(v)>>
<1> DEFINE l == Listing(v)
           r == Through(v)
<1>1. /\ l[8] = Op("mov", <<"ds", "eax">>) /\ l[9] = Op("mov", <<"es", "eax">>)
      /\ l[10] = Op("mov", <<"fs", "eax">>) /\ l[11] = Op("mov", <<"gs", "eax">>)
      /\ l[17] = Op("mov", <<"ds", r>>) /\ l[18] = Op("mov", <<"es", r>>)
      /\ l[19] = Op("mov", <<"fs", r>>) /\ l[20] = Op("mov", <<"gs", r>>)
  BY ListingRead
<1> HIDE DEF l, r
<1>2. /\ Op("mov", <<"ds", "eax">>).arg = <<"ds", "eax">> /\ Op("mov", <<"es", "eax">>).arg = <<"es", "eax">>
      /\ Op("mov", <<"fs", "eax">>).arg = <<"fs", "eax">> /\ Op("mov", <<"gs", "eax">>).arg = <<"gs", "eax">>
      /\ Op("mov", <<"ds", r>>).arg = <<"ds", r>> /\ Op("mov", <<"es", r>>).arg = <<"es", r>>
      /\ Op("mov", <<"fs", r>>).arg = <<"fs", r>> /\ Op("mov", <<"gs", r>>).arg = <<"gs", r>>
  BY DEF Op
<1>3. p \in {8, 9, 10, 11} \/ p \in {17, 18, 19, 20}
  OBVIOUS
<1>4. "ds" \in Segments /\ "es" \in Segments /\ "fs" \in Segments /\ "gs" \in Segments
  BY DEF Segments
<1>5. CASE p \in {8, 9, 10, 11}
  <2>1. \E s \in Segments : l[p].arg = <<s, "eax">>
    BY <1>1, <1>2, <1>4, <1>5
  <2> QED BY <1>5, <2>1 DEF l
<1>6. CASE p \in {17, 18, 19, 20}
  <2>1. \E s \in Segments : l[p].arg = <<s, r>>
    BY <1>1, <1>2, <1>4, <1>6
  <2>2. ~(p <= 11)
    BY <1>6
  <2> QED BY <2>1, <2>2 DEF l, r
<1> QED BY <1>3, <1>5, <1>6

\* A load of the low half.
LEMMA LowHalf ==
  ASSUME NEW r \in [General -> Halves], NEW x \in Int, NEW r2,
         r2 = [r EXCEPT !["eax"][2] = x]
  PROVE  r2 \in [General -> Halves] /\ r2["eax"] = <<r["eax"][1], x>> /\ r2["eax"][2] = x
<1>1. "eax" \in General
  BY DEF General
<1>2. r["eax"] \in Int \X Int
  BY <1>1 DEF Halves
<1>3. [r["eax"] EXCEPT ![2] = x] = <<r["eax"][1], x>>
  BY <1>2
<1>4. r2 = [r EXCEPT !["eax"] = <<r["eax"][1], x>>]
  BY <1>3
<1>5. <<r["eax"][1], x>> \in Halves
  BY <1>2 DEF Halves
<1> HIDE DEF Halves
<1>6. r2["eax"] = <<r["eax"][1], x>>
  BY <1>1, <1>4
<1>7. r2 \in [General -> Halves]
  BY <1>4, <1>5
<1> QED BY <1>6, <1>7

\* The data segments are only ever loaded with the kernel's selector.
LEMMA MoveKeepsInv ==
  ASSUME StubInv, MoveStep
  PROVE  StubInv'
<1>1. PICK op \in {"mov_ax_ds", "mov_ax_0x10", "mov"} : At(op)
  BY DEF MoveStep
<1> PICK f : f = Frame
  OBVIOUS
<1> PICK p : p = Pos
  OBVIOUS
<1> PICK q : q = Following(f.vector, p)
  OBVIOUS
<1>2. /\ p \in 1 .. 24 /\ Instr = Listing(f.vector)[p] /\ Inside(f, p, reg, sp, mem, flags)
  BY <1>1, ExecutingInside
<1>3. Step /\ frames' = frames /\ sp' = sp /\ cs' = cs /\ mem' = mem /\ flags' = flags
  BY DEF MoveStep
<1>4. /\ At("mov_ax_ds") => p = 5
      /\ At("mov_ax_0x10") => p = 7
      /\ At("mov") => p \in 8 .. 11 \cup 17 .. 20
  BY FoundAt
<1>5. /\ p \in {5, 7, 8, 9, 10, 11, 17, 18, 19, 20} /\ q = p + 1
  <2>1. p \in {5, 7} \cup 8 .. 11 \cup 17 .. 20
    BY <1>1, <1>4
  <2>2. q = p + 1
    BY <2>1 DEF Following
  <2> QED BY <2>1, <2>2
<1>6. Depth(f.vector, q) = Depth(f.vector, p) /\ q \in 0 .. 24 /\ p # 15
  BY <1>5, DepthTable
<1>7. Pushed(f, q, mem')
  <2>1. Pushed(f, p, mem)
    BY <1>2 DEF Inside
  <2> QED BY <1>3, <1>6, <2>1 DEF Pushed
<1>8. flags' = FlagsAt(f, q)
  BY <1>2, <1>3, <1>5 DEF Inside, FlagsAt
<1>9. reg \in [General -> Halves] /\ seg \in [Segments -> {KernelData}] /\ RestTyped
  BY StateTyped DEF RestTyped
<1>10. RegsAt(f, p, reg)
  BY <1>2 DEF Inside
<1>11. /\ reg' \in [General -> Halves] /\ seg' \in [Segments -> {KernelData}]
       /\ RegsAt(f, q, reg')
  <2>1. CASE At("mov_ax_ds") /\ reg' = [reg EXCEPT !["eax"][2] = seg["ds"]] /\ seg' = seg
    <3>1. p = 5 /\ q = 6
      BY <1>4, <1>5, <2>1
    <3>2. seg["ds"] = KernelData /\ KernelData \in Int
      BY <1>9 DEF Segments, KernelData
    <3>3. reg' \in [General -> Halves] /\ reg'["eax"] = <<reg["eax"][1], KernelData>>
      BY <1>9, <2>1, <3>2, LowHalf
    <3>4. reg = f.was.reg
      BY <1>10, <3>1 DEF RegsAt
    <3> QED BY <1>9, <2>1, <3>1, <3>3, <3>4 DEF RegsAt
  <2>2. CASE At("mov_ax_0x10") /\ reg' = [reg EXCEPT !["eax"][2] = KernelData] /\ seg' = seg
    <3>1. p = 7 /\ q = 8
      BY <1>4, <1>5, <2>2
    <3>2. KernelData \in Int
      BY DEF KernelData
    <3>3. reg' \in [General -> Halves] /\ reg'["eax"][2] = KernelData
      BY <1>9, <2>2, <3>2, LowHalf
    <3> QED BY <1>9, <2>2, <3>1, <3>3 DEF RegsAt
  <2>3. CASE At("mov") /\ seg' = [seg EXCEPT ![Instr.arg[1]] = reg[Instr.arg[2]][2]] /\ reg' = reg
    <3>1. p \in 8 .. 11 \cup 17 .. 20
      BY <1>4, <2>3
    <3>2. PICK s \in Segments : Instr.arg = <<s, IF p <= 11 THEN "eax" ELSE Through(f.vector)>>
      BY <1>2, <3>1, MovArguments
    <3>3. reg[IF p <= 11 THEN "eax" ELSE Through(f.vector)][2] = KernelData
      BY <1>10, <3>1 DEF RegsAt
    <3>4. Instr.arg[1] = s /\ Instr.arg[2] = IF p <= 11 THEN "eax" ELSE Through(f.vector)
      BY <3>2
    <3>5. seg' = [seg EXCEPT ![s] = KernelData]
      BY <2>3, <3>3, <3>4
    <3>6. seg' \in [Segments -> {KernelData}]
      BY <1>9, <3>5
    <3>7. RegsAt(f, q, reg)
      BY <1>5, <1>10, <3>1 DEF RegsAt
    <3> QED BY <1>9, <2>3, <3>6, <3>7
  <2> QED BY <2>1, <2>2, <2>3 DEF MoveStep
<1>12. Inside(f, q, reg', sp', mem', flags')
  BY <1>2, <1>3, <1>6, <1>7, <1>8, <1>11 DEF Inside
<1>13. RestTyped'
  BY <1>3, <1>9, <1>11 DEF RestTyped
<1>14. Pos \notin {14, 24}
  BY <1>5
<1> QED BY <1>1, <1>3, <1>12, <1>13, <1>14, Stepped

\* pusha and popa agree on where each register is.
LEMMA Places8 ==
  ASSUME NEW r \in General
  PROVE  Place(r) \in 1 .. 8 /\ PushOrder[Place(r)] = r /\ r # "esp"
<1>1. /\ PushOrder[1] = "eax" /\ PushOrder[2] = "ecx" /\ PushOrder[3] = "edx" /\ PushOrder[4] = "ebx"
      /\ PushOrder[6] = "ebp" /\ PushOrder[7] = "esi" /\ PushOrder[8] = "edi"
  BY DEF PushOrder
<1>2. \E k \in 1 .. 8 : PushOrder[k] = r
  BY <1>1 DEF General
<1>3. r # "esp"
  BY DEF General
<1> QED BY <1>2, <1>3 DEF Place

\* The eight words of pusha are words 6 to 13 of the table.
LEMMA RegisterWords ==
  ASSUME NEW f, NEW k \in 1 .. 8
  PROVE  /\ k # 5 => PushOrder[k] \in General /\ Words(f)[k + 5] = f.was.reg[PushOrder[k]]
         /\ k = 5 => PushOrder[k] = "esp" /\ Words(f)[k + 5] = <<0, f.was.sp - 5>>
<1>1. /\ PushOrder[1] = "eax" /\ PushOrder[2] = "ecx" /\ PushOrder[3] = "edx" /\ PushOrder[4] = "ebx"
      /\ PushOrder[5] = "esp"
      /\ PushOrder[6] = "ebp" /\ PushOrder[7] = "esi" /\ PushOrder[8] = "edi"
  BY DEF PushOrder
<1> DEFINE t == Words(f)
           g == f.was.reg
<1>2. /\ t[6] = g["eax"] /\ t[7] = g["ecx"] /\ t[8] = g["edx"]
      /\ t[9] = g["ebx"] /\ t[10] = <<0, f.was.sp - 5>> /\ t[11] = g["ebp"]
      /\ t[12] = g["esi"] /\ t[13] = g["edi"]
  BY WordTable
<1>3. k \in {1, 2, 3, 4, 5, 6, 7, 8}
  OBVIOUS
<1> HIDE DEF t, g
<1>4. k # 5 => PushOrder[k] \in General
  BY <1>1, <1>3 DEF General
<1>5. k # 5 => t[k + 5] = g[PushOrder[k]]
  BY <1>1, <1>2, <1>3
<1>6. k = 5 => PushOrder[k] = "esp" /\ t[k + 5] = <<0, f.was.sp - 5>>
  BY <1>1, <1>2
<1> QED BY <1>4, <1>5, <1>6 DEF t, g

\* A step that moves the stack pointer up, over words it may have read.
Drops(f, p, q, r, fl, n) ==
  /\ n \in Nat /\ p \in 0 .. 24 /\ q \in 0 .. 24
  /\ FrameOK(f) /\ Inside(f, p, reg, sp, mem, fl)
  /\ Depth(f.vector, p) = Depth(f.vector, q) + n /\ (p = 15 => q = 16)
  /\ FlagsAt(f, q) = FlagsAt(f, p) /\ RegsAt(f, q, r)

LEMMA Dropped ==
  ASSUME NEW f, NEW p, NEW q, NEW r, NEW fl, NEW n, Drops(f, p, q, r, fl, n)
  PROVE  Inside(f, q, r, sp + n, mem, fl)
<1> USE DEF Drops
<1>1. /\ Depth(f.vector, p) \in Int /\ Depth(f.vector, q) \in Int /\ f.was.sp \in Int
  BY DepthRange, PointerTyped
<1>2. sp = f.was.sp - Depth(f.vector, p)
  BY DEF Inside
<1>3. sp + n = f.was.sp - Depth(f.vector, q)
  BY <1>1, <1>2
<1>4. Depth(f.vector, q) <= Depth(f.vector, p)
  BY <1>1
<1>5. p = 15 => Depth(f.vector, q) < 15
  BY DepthTable
<1>6. Pushed(f, q, mem)
  BY <1>4, <1>5, StillPushed DEF Inside
<1> QED BY <1>3, <1>6 DEF Inside

\* pop, popa, add esp: what comes off is what the table says was there.
LEMMA PopKeepsInv ==
  ASSUME StubInv, PopStep
  PROVE  StubInv'
<1>1. PICK op \in {"pop", "popa", "add_esp"} : At(op)
  BY DEF PopStep
<1> PICK f : f = Frame
  OBVIOUS
<1> PICK p : p = Pos
  OBVIOUS
<1> PICK q : q = Following(f.vector, p)
  OBVIOUS
<1>2. /\ p \in 1 .. 24 /\ Instr = Listing(f.vector)[p] /\ Inside(f, p, reg, sp, mem, flags)
      /\ FrameOK(f) /\ f.vector \in Vectors
  BY <1>1, ExecutingInside
<1>3. Step /\ frames' = frames /\ seg' = seg /\ cs' = cs /\ mem' = mem /\ flags' = flags
  BY DEF PopStep
<1>4. /\ At("pop") => p \in {15, 16}
      /\ At("popa") => p = 21
      /\ At("add_esp") => p = 22
  BY FoundAt
<1>5. p \in {15, 16, 21, 22} /\ q = p + 1 /\ p \in 0 .. 24 /\ q \in 0 .. 24
  <2>1. p \in {15, 16, 21, 22}
    BY <1>1, <1>4
  <2> QED BY <2>1 DEF Following
<1>6. RestTyped /\ reg \in [General -> Halves] /\ sp \in 0 .. Top - 1 /\ mem \in [0 .. Top - 1 -> Halves]
  BY StateTyped DEF RestTyped
<1>7. FlagsAt(f, q) = FlagsAt(f, p)
  BY <1>5 DEF FlagsAt
<1>8. sp = f.was.sp - Depth(f.vector, p) /\ Pushed(f, p, mem) /\ RegsAt(f, p, reg)
  BY <1>2 DEF Inside
<1>9. f.was.sp \in Int
  BY <1>2, <1>5, PointerTyped
<1>10. p = 15 => q = 16
  BY <1>5
<1>11. /\ reg' \in [General -> Halves]
       /\ Inside(f, q, reg', sp', mem', flags')
  <2>1. CASE At("pop") /\ reg' = [reg EXCEPT ![Instr.arg] = mem[sp]] /\ sp' = sp + 1
    <3>1. p \in {15, 16} /\ Instr.arg = Through(f.vector)
      BY <1>2, <1>4, <2>1, Arguments
    <3>2. Through(f.vector) \in General
      BY DEF Through, General
    <3>3. reg' = [reg EXCEPT ![Through(f.vector)] = mem[sp]] /\ mem[sp] \in Halves
      BY <1>6, <2>1, <3>1
    <3>4. reg' \in [General -> Halves] /\ reg'[Through(f.vector)] = mem[sp]
      BY <1>6, <3>2, <3>3
    <3>5. Depth(f.vector, p) = Depth(f.vector, q) + 1
      BY <1>5, <3>1, DepthTable
    <3>6. p = 16 => mem[sp] = <<f.was.reg["eax"][1], KernelData>>
      <4>1. ASSUME p = 16 PROVE mem[f.was.sp - 14] = Words(f)[14] /\ sp = f.was.sp - 14
        <5>1. Depth(f.vector, p) = 14 /\ 14 \in 1 .. 14
          BY <4>1, DepthTable
        <5>2. mem[f.was.sp - 14] = Words(f)[14]
          BY <1>8, <5>1 DEF Pushed
        <5> QED BY <1>8, <5>1, <5>2
      <4> QED BY <4>1, WordTable
    <3>7. p = 16 => reg'[Through(f.vector)][2] = KernelData
      BY <3>4, <3>6
    <3>8. RegsAt(f, q, reg')
      BY <1>5, <3>1, <3>7 DEF RegsAt
    <3>9. Inside(f, q, reg', sp + 1, mem, flags)
      <4>1. Drops(f, p, q, reg', flags, 1)
        BY <1>2, <1>5, <1>7, <1>10, <3>5, <3>8 DEF Drops
      <4> QED BY <4>1, Dropped
    <3> QED BY <1>3, <2>1, <3>4, <3>9
  <2>2. CASE At("popa") /\ reg' = [r \in General |-> mem[sp + 8 - Place(r)]] /\ sp' = sp + 8
    <3>1. p = 21 /\ q = 22 /\ Depth(f.vector, p) = 13 /\ Depth(f.vector, q) = 5
      BY <1>4, <1>5, <2>2, DepthTable
    <3>2. ASSUME NEW r \in General PROVE reg'[r] = f.was.reg[r]
      <4>1. PICK k \in 1 .. 8 : k = Place(r) /\ PushOrder[k] = r /\ r # "esp"
        BY Places8
      <4>2. k # 5
        BY <4>1, RegisterWords
      <4>3. Words(f)[k + 5] = f.was.reg[r]
        BY <4>1, <4>2, RegisterWords
      <4>4. sp + 8 - k = f.was.sp - (k + 5) /\ k + 5 \in 1 .. 13
        BY <1>8, <1>9, <3>1
      <4>5. mem[f.was.sp - (k + 5)] = Words(f)[k + 5]
        <5>1. Pushed(f, 21, mem) /\ Depth(f.vector, 21) = 13
          BY <1>8, <3>1
        <5> QED BY <4>4, <5>1 DEF Pushed
      <4> QED BY <2>2, <4>1, <4>3, <4>4, <4>5
    <3>3. f.was.reg \in [General -> Halves]
      BY <1>2 DEF FrameOK
    <3>4. reg' = f.was.reg
      BY <2>2, <3>2, <3>3
    <3>5. RegsAt(f, q, reg')
      BY <3>1, <3>4 DEF RegsAt
    <3>6. Inside(f, q, reg', sp + 8, mem, flags)
      <4>1. Drops(f, p, q, reg', flags, 8)
        BY <1>2, <1>5, <1>7, <1>10, <3>1, <3>5 DEF Drops
      <4> QED BY <4>1, Dropped
    <3> QED BY <1>3, <2>2, <3>3, <3>4, <3>6
  <2>3. CASE At("add_esp") /\ sp' = sp + Instr.arg /\ reg' = reg
    <3>1. p = 22 /\ q = 23 /\ Depth(f.vector, p) = 5 /\ Depth(f.vector, q) = 3 /\ Instr.arg = 2
      BY <1>2, <1>4, <1>5, <2>3, DepthTable, Arguments
    <3>2. RegsAt(f, q, reg')
      BY <1>8, <2>3, <3>1 DEF RegsAt
    <3>3. Inside(f, q, reg', sp + 2, mem, flags)
      <4>1. Drops(f, p, q, reg', flags, 2)
        BY <1>2, <1>5, <1>7, <1>10, <3>1, <3>2 DEF Drops
      <4> QED BY <4>1, Dropped
    <3> QED BY <1>3, <1>6, <2>3, <3>1, <3>3
  <2> QED BY <2>1, <2>2, <2>3 DEF PopStep
<1>12. RestTyped'
  BY <1>3, <1>6, <1>11 DEF RestTyped
<1>13. Pos \notin {14, 24}
  BY <1>5
<1> QED BY <1>1, <1>3, <1>11, <1>12, <1>13, Stepped

\* push, pusha: what goes on is what the table has next.
LEMMA PushKeepsInv ==
  ASSUME StubInv, PushStep
  PROVE  StubInv'
<1>1. PICK op \in {"push_imm", "push", "pusha"} : At(op)
  BY DEF PushStep
<1> PICK f : f = Frame
  OBVIOUS
<1> PICK p : p = Pos
  OBVIOUS
<1> PICK q : q = Following(f.vector, p)
  OBVIOUS
<1> PICK v : v = f.vector
  OBVIOUS
<1>2. /\ p \in 1 .. 24 /\ Instr = Listing(v)[p] /\ Inside(f, p, reg, sp, mem, flags)
      /\ FrameOK(f) /\ v \in Vectors /\ (p = 2 => Dummy(v))
  BY <1>1, ExecutingInside
<1>3. Step /\ frames' = frames /\ reg' = reg /\ seg' = seg /\ cs' = cs /\ flags' = flags
  BY DEF PushStep
<1>4. /\ At("push_imm") => p \in {2, 3}
      /\ At("push") => p \in {6, 12}
      /\ At("pusha") => p = 4
  BY FoundAt
<1>5. p \in {2, 3, 4, 6, 12} /\ q = p + 1 /\ p \in 0 .. 24 /\ q \in 0 .. 24 /\ p # 15
  <2>1. p \in {2, 3, 4, 6, 12}
    BY <1>1, <1>4
  <2> QED BY <2>1 DEF Following
<1>6. RestTyped /\ mem \in [0 .. Top - 1 -> Halves]
  BY StateTyped DEF RestTyped
<1>7. flags = FlagsAt(f, q)
  BY <1>2, <1>5 DEF Inside, FlagsAt
<1>8. /\ sp = f.was.sp - Depth(v, p) /\ Pushed(f, p, mem) /\ RegsAt(f, p, reg)
      /\ f.was.stack = [a \in f.was.sp .. Top - 1 |-> mem[a]]
  BY <1>2 DEF Inside
<1>9. RegsAt(f, q, reg)
  <2>1. CASE p \in {2, 3, 4}
    <3>1. reg = f.was.reg /\ q \in {3, 4, 5}
      BY <1>5, <1>8, <2>1 DEF RegsAt
    <3> QED BY <3>1 DEF RegsAt
  <2>2. CASE p \in {6, 12}
    <3>1. q \in {7, 13}
      BY <1>5, <2>2
    <3> QED BY <3>1 DEF RegsAt
  <2> QED BY <1>5, <2>1, <2>2
\* In each case the words that follow in the table.
<1>10. \E words : Push(words) /\ Grows(f, p, q, words)
  <2>1. CASE At("push_imm") /\ Push(<< <<0, Instr.arg>> >>)
    <3>1. CASE p = 2
      <4>1. Instr.arg = 0 /\ Depth(v, p) = 3 /\ Depth(v, q) = 4
        BY <1>2, <1>5, <3>1, Arguments, DepthTable
      <4>2. Words(f)[4] = <<0, 0>>
        BY <1>2, <3>1, VectorFacts, WordTable
      <4>3. <<0, Instr.arg>> = Words(f)[3 + 1] /\ Depth(f.vector, q) = 3 + 1
        BY <4>1, <4>2
      <4>4. Grows(f, p, q, << <<0, Instr.arg>> >>)
        BY <4>1, <4>3, GrowsByOne
      <4> QED BY <2>1, <4>4
    <3>2. CASE p = 3
      <4>1. Instr.arg = v /\ Depth(v, p) = 4 /\ Depth(v, q) = 5
        BY <1>2, <1>5, <3>2, Arguments, DepthTable
      <4>2. Words(f)[5] = <<0, v>>
        BY WordTable
      <4>3. <<0, Instr.arg>> = Words(f)[4 + 1] /\ Depth(f.vector, q) = 4 + 1
        BY <4>1, <4>2
      <4>4. Grows(f, p, q, << <<0, Instr.arg>> >>)
        BY <4>1, <4>3, GrowsByOne
      <4> QED BY <2>1, <4>4
    <3> QED BY <1>4, <2>1, <3>1, <3>2
  <2>2. CASE At("push") /\ Push(<<ValueOf(Instr.arg)>>)
    <3>1. CASE p = 6
      <4>1. Instr.arg = "eax" /\ Depth(v, p) = 13 /\ Depth(v, q) = 14
        BY <1>2, <1>5, <3>1, Arguments, DepthTable
      <4>2. reg["eax"] = <<f.was.reg["eax"][1], KernelData>>
        BY <1>8, <3>1 DEF RegsAt
      <4>3. Words(f)[14] = reg["eax"] /\ ValueOf(Instr.arg) = reg["eax"]
        BY <4>1, <4>2, WordTable DEF ValueOf
      <4>4. ValueOf(Instr.arg) = Words(f)[13 + 1] /\ Depth(f.vector, q) = 13 + 1
        BY <4>1, <4>3
      <4>5. Grows(f, p, q, <<ValueOf(Instr.arg)>>)
        BY <4>1, <4>4, GrowsByOne
      <4> QED BY <2>2, <4>5
    <3>2. CASE p = 12
      <4>1. Instr.arg = "esp" /\ Depth(v, p) = 14 /\ Depth(v, q) = 15
        BY <1>2, <1>5, <3>2, Arguments, DepthTable
      <4>2. Words(f)[15] = <<0, f.was.sp - 14>> /\ ValueOf(Instr.arg) = <<0, sp>>
        BY <4>1, WordTable DEF ValueOf
      <4>3. ValueOf(Instr.arg) = Words(f)[14 + 1] /\ Depth(f.vector, q) = 14 + 1
        BY <1>8, <4>1, <4>2
      <4>4. Grows(f, p, q, <<ValueOf(Instr.arg)>>)
        BY <4>1, <4>3, GrowsByOne
      <4> QED BY <2>2, <4>4
    <3> QED BY <1>4, <2>2, <3>1, <3>2
  <2>3. CASE At("pusha") /\ Push([k \in 1 .. 8 |-> ValueOf(PushOrder[k])])
    <3> DEFINE words == [k \in 1 .. 8 |-> ValueOf(PushOrder[k])]
    <3>1. p = 4 /\ Depth(v, p) = 5 /\ Depth(v, q) = 13
      BY <1>4, <1>5, <2>3, DepthTable
    <3>2. reg = f.was.reg
      BY <1>8, <3>1 DEF RegsAt
    <3>3. ASSUME NEW k \in 1 .. 8 PROVE words[k] = Words(f)[5 + k]
      <4>1. words[k] = ValueOf(PushOrder[k]) /\ 5 + k = k + 5
        OBVIOUS
      <4>2. CASE k = 5
        <5>1. PushOrder[k] = "esp" /\ Words(f)[k + 5] = <<0, f.was.sp - 5>>
          BY <4>2, RegisterWords
        <5> QED BY <1>8, <3>1, <4>1, <5>1 DEF ValueOf
      <4>3. CASE k # 5
        <5>1. PushOrder[k] \in General /\ Words(f)[k + 5] = f.was.reg[PushOrder[k]]
          BY <4>3, RegisterWords
        <5>2. PushOrder[k] # "esp"
          BY <5>1, Places8
        <5> QED BY <3>2, <4>1, <5>1, <5>2 DEF ValueOf
      <4> QED BY <4>2, <4>3
    <3>4. Len(words) = 8
      OBVIOUS
    <3> HIDE DEF words
    <3>5. Push(words)
      BY <2>3 DEF words
    <3>6. Grows(f, p, q, words)
      BY <3>1, <3>3, <3>4 DEF Grows
    <3> QED BY <3>5, <3>6
  <2> QED BY <2>1, <2>2, <2>3 DEF PushStep
<1>11. PICK words : Push(words) /\ Grows(f, p, q, words)
  BY <1>10
<1>12. /\ sp' = f.was.sp - Depth(f.vector, q) /\ Pushed(f, q, mem')
       /\ f.was.stack = [a \in f.was.sp .. Top - 1 |-> mem'[a]]
       /\ mem' \in [0 .. Top - 1 -> Halves]
  BY <1>2, <1>5, <1>6, <1>11, PushInside
<1>13. Inside(f, q, reg', sp', mem', flags')
  BY <1>3, <1>7, <1>9, <1>12 DEF Inside
<1>14. RestTyped'
  BY <1>3, <1>6, <1>12 DEF RestTyped
<1>15. Pos \notin {14, 24}
  BY <1>5
<1> QED BY <1>1, <1>3, <1>13, <1>14, <1>15, Stepped

LEMMA CallKeepsInv ==
  ASSUME StubInv, Call
  PROVE  StubInv'
<1> PICK f : f = Frame
  OBVIOUS
<1> PICK v : v = f.vector
  OBVIOUS
<1> PICK i : i = eip[2]
  OBVIOUS
<1>1. /\ At("call") /\ Push(<< <<eip[1], i + 1>> >>) /\ eip' = <<eip[1], 0>>
      /\ frames' = frames /\ reg' = reg /\ seg' = seg /\ cs' = cs /\ flags' = flags
  BY DEF Call
<1>2. /\ FrameOK(f) /\ v \in Vectors /\ eip[1] = v
      /\ i \in 1 .. Len(Code(v)) /\ Pos = Position(v, i)
  BY <1>1, Executing
<1>3. Inside(f, Pos, reg, sp, mem, flags)
  BY <1>1, ExecutingInside
<1>4. Pos = 14
  BY <1>1, FoundAt
<1>5. i + 1 = IF Dummy(v) THEN 15 ELSE 14
  <2>1. Position(v, i) = 14
    BY <1>2, <1>4
  <2>2. i \in Nat
    <3>1. Len(Code(v)) \in Nat
      BY CodeListed
    <3> QED BY <1>2, <3>1
  <2> QED BY <2>1, <2>2 DEF Position
<1>6. Depth(v, 14) = 15 /\ Depth(v, 0) = 16
  BY DepthTable
<1>7. /\ sp = f.was.sp - Depth(v, 14) /\ Pushed(f, 14, mem)
      /\ f.was.stack = [a \in f.was.sp .. Top - 1 |-> mem[a]]
      /\ flags = FlagsAt(f, 14)
  BY <1>3, <1>4 DEF Inside
<1>8. RestTyped /\ mem \in [0 .. Top - 1 -> Halves]
  BY StateTyped DEF RestTyped
<1>10. Words(f)[15 + 1] = <<eip[1], i + 1>> /\ Depth(f.vector, 0) = 15 + 1
  <2>1. Words(f)[16] = <<v, IF Dummy(v) THEN 15 ELSE 14>>
    BY WordTable
  <2> QED BY <1>2, <1>5, <1>6, <2>1
<1>11. Grows(f, 14, 0, << <<eip[1], i + 1>> >>)
  BY <1>6, <1>10, GrowsByOne
<1>12. /\ sp' = f.was.sp - Depth(f.vector, 0) /\ Pushed(f, 0, mem')
       /\ f.was.stack = [a \in f.was.sp .. Top - 1 |-> mem'[a]]
       /\ mem' \in [0 .. Top - 1 -> Halves]
  <2>1. 14 \in 0 .. 24 /\ 0 \in 0 .. 24 /\ 14 # 15
    OBVIOUS
  <2> QED BY <1>1, <1>2, <1>3, <1>4, <1>8, <1>11, <2>1, PushInside
<1>13. flags = FlagsAt(f, 0)
  BY <1>7 DEF FlagsAt
<1>14. Inside(f, 0, reg', sp', mem', flags')
  BY <1>1, <1>12, <1>13 DEF Inside, RegsAt
<1>15. eip'[1] = v /\ eip'[2] = 0 /\ eip' = <<v, eip'[2]>>
  BY <1>1, <1>2
<1>16. Pos' = 0
  BY <1>15 DEF Pos, Position
<1>17. Frame' = f
  BY <1>1 DEF Frame
<1>18. eip'[2] \in 0 .. Len(Code(v))
  <2>1. Len(Code(v)) \in Nat
    BY CodeListed
  <2> QED BY <1>15, <2>1
<1>19. InStub'
  BY <1>14, <1>15, <1>16, <1>17, <1>18 DEF InStub
<1>20. RestTyped'
  BY <1>1, <1>8, <1>12 DEF RestTyped
<1>21. eip # Main
  BY <1>1 DEF At, Main
<1> QED BY <1>1, <1>19, <1>20, <1>21, FramesKept

\* C code runs inside a frame.
LEMMA InHandler ==
  ASSUME StubInv, InC
  PROVE  /\ eip # Main /\ Pos = 0 /\ eip[1] = Frame.vector /\ FrameOK(Frame)
         /\ Frame.vector \in Vectors
         /\ Inside(Frame, 0, reg, sp, mem, flags)
<1>1. eip # Main
  BY DEF InC, Main
<1>2. InStub /\ FrameOK(Frame) /\ eip[1] = Frame.vector /\ Frame.vector \in Vectors
  BY <1>1, ExecutingInFrame
<1>3. Pos = 0
  BY DEF InC, Pos, Position
<1> QED BY <1>1, <1>2, <1>3 DEF InStub

\* The handler may have changed its argument, and nothing above it.
LEMMA ReturnKeepsInv ==
  ASSUME StubInv, Return
  PROVE  StubInv'
<1> PICK f : f = Frame
  OBVIOUS
<1> PICK v : v = f.vector
  OBVIOUS
<1>1. /\ InC /\ eip[1] >= 32 /\ eip' = mem[sp] /\ sp' = sp + 1
      /\ reg' = [r \in General |-> IF r \in {"eax", "ecx", "edx"} THEN Garbage ELSE reg[r]]
      /\ seg' = seg /\ cs' = cs /\ flags' = flags /\ frames' = frames
  BY DEF Return
<1>2. PICK w \in {mem[sp + 1], Garbage} : mem' = [mem EXCEPT ![sp + 1] = w]
  BY DEF Return
<1>3. /\ eip # Main /\ Pos = 0 /\ eip[1] = v /\ FrameOK(f) /\ v \in Vectors
      /\ Inside(f, 0, reg, sp, mem, flags)
  BY <1>1, InHandler
<1>4. /\ sp = f.was.sp - 16 /\ Pushed(f, 0, mem) /\ flags = FlagsAt(f, 0)
      /\ f.was.stack = [a \in f.was.sp .. Top - 1 |-> mem[a]]
  <2>1. Depth(v, 0) = 16
    BY DepthTable
  <2> QED BY <1>3, <2>1 DEF Inside
<1>5. /\ f.was.sp \in Int /\ f.was.sp - 16 >= 0 /\ f.was.sp <= Top - 1 /\ Top \in Int
  BY <1>3, PointerTyped
<1>6. Depth(v, 15) = 15 /\ Depth(v, 0) = 16
  BY DepthTable
<1>7. RestTyped /\ mem \in [0 .. Top - 1 -> Halves] /\ reg \in [General -> Halves]
  BY StateTyped DEF RestTyped
<1>8. eip' = <<v, IF Dummy(v) THEN 15 ELSE 14>>
  <2>1. mem[f.was.sp - 16] = Words(f)[16]
    <3>1. 16 \in 1 .. Depth(f.vector, 0)
      BY <1>6
    <3> QED BY <1>4, <3>1 DEF Pushed
  <2> QED BY <1>1, <1>4, <2>1, WordTable
<1>9. sp + 1 = f.was.sp - 15 /\ sp + 1 \in 0 .. Top - 1
  BY <1>4, <1>5
<1>10. Garbage \in Halves
  BY DEF Garbage, Halves
<1>11. w \in Halves
  BY <1>2, <1>7, <1>9, <1>10
<1>12. mem' \in [0 .. Top - 1 -> Halves]
  BY <1>2, <1>7, <1>11
<1>13. reg' \in [General -> Halves]
  BY <1>1, <1>7, <1>10
<1>14. Pushed(f, 15, mem')
  <2>1. SUFFICES ASSUME NEW d \in 1 .. 15, d # 15
        PROVE  mem'[f.was.sp - d] = Words(f)[d]
    BY <1>6 DEF Pushed
  <2>2. f.was.sp - d # sp + 1
    BY <1>5, <1>9, <2>1
  <2>3. f.was.sp - d \in 0 .. Top - 1
    BY <1>5
  <2>4. mem'[f.was.sp - d] = mem[f.was.sp - d]
    BY <1>2, <1>7, <2>2, <2>3
  <2>5. mem[f.was.sp - d] = Words(f)[d]
    <3>1. d \in 1 .. Depth(f.vector, 0)
      BY <1>6
    <3> QED BY <1>4, <3>1 DEF Pushed
  <2> QED BY <2>4, <2>5
<1>15. f.was.stack = [a \in f.was.sp .. Top - 1 |-> mem'[a]]
  <2>1. ASSUME NEW a \in f.was.sp .. Top - 1
        PROVE  mem'[a] = mem[a]
    <3>1. a # sp + 1 /\ a \in 0 .. Top - 1
      BY <1>5, <1>9
    <3> QED BY <1>2, <1>7, <3>1
  <2> QED BY <1>4, <2>1
<1>16. flags' = FlagsAt(f, 15)
  BY <1>1, <1>4 DEF FlagsAt
<1>17. Inside(f, 15, reg', sp', mem', flags')
  BY <1>1, <1>6, <1>9, <1>14, <1>15, <1>16 DEF Inside, RegsAt
<1>18. eip'[1] = v /\ eip'[2] = (IF Dummy(v) THEN 15 ELSE 14) /\ eip' = <<v, eip'[2]>>
  BY <1>8
<1>19. Pos' = 15
  BY <1>18 DEF Pos, Position
<1>20. eip'[2] \in 0 .. Len(Code(v))
  <2>1. Len(Code(v)) = IF Dummy(v) THEN 24 ELSE 23
    BY CodeListed
  <2> QED BY <1>18, <2>1
<1>21. Frame' = f
  BY <1>1 DEF Frame
<1>22. InStub'
  BY <1>1, <1>3, <1>17, <1>18, <1>19, <1>20, <1>21 DEF InStub
<1>23. RestTyped'
  BY <1>1, <1>7, <1>12, <1>13 DEF RestTyped
<1> QED BY <1>1, <1>3, <1>22, <1>23, FramesKept

-----------------------------------------------------------------------------
(* Entering and leaving.                                                   *)

\* What the invariant says of the innermost frame.
LEMMA Shapes ==
  ASSUME StubInv
  PROVE  \/ frames = <<>> /\ eip = Main /\ sp \in Top - 3 .. Top - 1
         \/ Len(frames) = 1 /\ Frame = frames[1] /\ KernelFrame(Frame) /\ InStub
         \/ /\ Len(frames) = 2 /\ Frame = frames[2] /\ KernelFrame(frames[1]) /\ FrameOK(Frame)
            /\ frames[1].vector # NMI /\ Frame.vector = NMI /\ InStub
<1>1. CASE frames = <<frames[1]>> /\ KernelFrame(frames[1]) /\ InStub
  <2>1. Len(frames) = 1
    BY <1>1
  <2>2. Frame = frames[1]
    BY <2>1 DEF Frame
  <2> QED BY <1>1, <2>1, <2>2
<1>2. CASE /\ frames = <<frames[1], frames[2]>> /\ KernelFrame(frames[1]) /\ FrameOK(frames[2])
           /\ frames[1].vector # NMI /\ frames[2].vector = NMI /\ InStub
  <2>1. Len(frames) = 2
    BY <1>2
  <2>2. Frame = frames[2]
    BY <2>1 DEF Frame
  <2> QED BY <1>2, <2>1, <2>2
<1> QED BY <1>1, <1>2 DEF StubInv

\* The kernel's own code runs outside every frame.
LEMMA InKernel ==
  ASSUME StubInv, eip = Main
  PROVE  frames = <<>> /\ sp \in Top - 3 .. Top - 1
<1>1. SUFFICES ASSUME InStub, FrameOK(Frame) PROVE FALSE
  BY Shapes DEF KernelFrame
<1>2. eip[1] = Frame.vector /\ Frame.vector \in Vectors
  <2>1. \A x, y, z : z = <<x, y>> => z[1] = x
    OBVIOUS
  <2> QED BY <1>1, <2>1 DEF InStub, FrameOK
<1>3. eip[1] = -1
  BY DEF Main
<1> QED BY <1>2, <1>3, VectorFacts

\* What iret finds is what the processor pushed.
LEMMA IretFacts ==
  ASSUME StubInv, Iret
  PROVE  /\ Len(frames) = 1 /\ Frame = frames[1] /\ KernelFrame(Frame)
         /\ frames' = <<>>
         /\ eip' = Frame.was.eip /\ cs' = Frame.was.cs /\ flags' = Frame.was.flags
         /\ sp' = Frame.was.sp /\ reg = Frame.was.reg
         /\ Frame.was.stack = [a \in Frame.was.sp .. Top - 1 |-> mem[a]]
<1>1. /\ At("iret") /\ eip' = mem[sp] /\ cs' = mem[sp + 1][2] /\ flags' = mem[sp + 2]
      /\ sp' = sp + 3 /\ frames' = Front(frames)
  BY DEF Iret
<1>2. PICK f : f = Frame
  OBVIOUS
<1>3. /\ FrameOK(f) /\ f.vector \in Vectors /\ Pos = 24 /\ f.vector >= 32
      /\ Inside(f, 24, reg, sp, mem, flags)
  <2>1. Pos = 24
    BY <1>1, FoundAt
  <2> QED BY <1>1, <1>2, <2>1, ExecutingInside
<1>4. Len(frames) = 1 /\ Frame = frames[1] /\ KernelFrame(Frame)
  <2>1. eip # Main
    BY <1>1 DEF At, Main
  <2>2. f.vector # NMI
    BY <1>3 DEF NMI
  <2> QED BY <1>2, <2>1, <2>2, Shapes
<1>5. frames' = <<>>
  BY <1>1, <1>4 DEF Front
<1>6. /\ sp = f.was.sp - 3 /\ Pushed(f, 24, mem) /\ RegsAt(f, 24, reg)
      /\ f.was.stack = [a \in f.was.sp .. Top - 1 |-> mem[a]]
  <2>1. Depth(f.vector, 24) = 3
    BY DepthTable
  <2> QED BY <1>3, <2>1 DEF Inside
<1>7. f.was.sp \in Int
  BY <1>3 DEF FrameOK
<1>8. /\ mem[f.was.sp - 1] = f.was.flags /\ mem[f.was.sp - 2] = <<0, f.was.cs>>
      /\ mem[f.was.sp - 3] = f.was.eip
  <2>1. Depth(f.vector, 24) = 3 /\ 24 \in 0 .. 24
    BY DepthTable
  <2>2. \A d \in 1 .. 3 : mem[f.was.sp - d] = Words(f)[d]
    BY <1>6, <2>1 DEF Pushed
  <2>3. 1 \in 1 .. 3 /\ 2 \in 1 .. 3 /\ 3 \in 1 .. 3
    OBVIOUS
  <2>4. /\ mem[f.was.sp - 1] = Words(f)[1] /\ mem[f.was.sp - 2] = Words(f)[2]
        /\ mem[f.was.sp - 3] = Words(f)[3]
    BY <2>2, <2>3
  <2> QED BY <2>4, WordTable
<1>9. sp + 1 = f.was.sp - 2 /\ sp + 2 = f.was.sp - 1 /\ sp + 3 = f.was.sp
  BY <1>6, <1>7
<1>10. eip' = f.was.eip /\ cs' = f.was.cs /\ flags' = f.was.flags /\ sp' = f.was.sp
  BY <1>1, <1>6, <1>8, <1>9
<1>11. reg = f.was.reg
  BY <1>6 DEF RegsAt
<1> QED BY <1>2, <1>4, <1>5, <1>6, <1>10, <1>11

LEMMA IretKeepsInv ==
  ASSUME StubInv, Iret
  PROVE  StubInv'
<1>1. PICK f : f = Frame
  OBVIOUS
<1>2. /\ KernelFrame(f) /\ frames' = <<>>
      /\ eip' = f.was.eip /\ cs' = f.was.cs /\ flags' = f.was.flags /\ sp' = f.was.sp
  BY <1>1, IretFacts
<1>3. reg' = reg /\ seg' = seg /\ mem' = mem
  BY DEF Iret
<1>4. /\ eip' = Main /\ cs' = KernelCode /\ flags' \in {0, 1} \X {0, 1} /\ sp' \in Top - 3 .. Top - 1
  BY <1>2 DEF KernelFrame, FrameOK
<1>5. Top - 3 .. Top - 1 \subseteq 0 .. Top - 1
  BY VectorsAssumption
<1>6. TypeOK'
  BY <1>3, <1>4, <1>5, StateTyped DEF RestTyped, TypeOK
<1> QED BY <1>2, <1>4, <1>6 DEF StubInv

\* The record of an interruption.
Entered(v, err) == [vector |-> v, err |-> err, was |-> Context]

\* What the processor pushes.
Trap(v, err) ==
  <<flags, <<0, cs>>, eip>> \o IF v \in WithErrorCode THEN << <<0, err>> >> ELSE <<>>

LEMMA ContextFields ==
  LET w == Context
  IN /\ IsContext(w)
     /\ w.reg = reg /\ w.sp = sp /\ w.seg = seg /\ w.cs = cs /\ w.eip = eip /\ w.flags = flags
     /\ w.stack = [a \in sp .. Top - 1 |-> mem[a]]
BY DEF Context, IsContext, Live

LEMMA EnteredFields ==
  ASSUME NEW v, NEW err
  PROVE  LET f == Entered(v, err)
         IN f.vector = v /\ f.err = err /\ f.was = Context
BY DEF Entered

\* eip is an address, wherever it is.
LEMMA PointerIsWord ==
  ASSUME StubInv
  PROVE  eip \in Halves
<1>1. CASE eip = Main
  BY <1>1 DEF Main, Halves
<1>2. CASE eip # Main
  <2>1. InStub /\ Frame.vector \in Vectors
    BY <1>2, ExecutingInFrame
  <2>2. eip = <<Frame.vector, eip[2]>> /\ eip[2] \in 0 .. Len(Code(Frame.vector))
    BY <2>1 DEF InStub
  <2>3. eip[2] \in Int /\ Frame.vector \in Int
    <3>1. Len(Code(Frame.vector)) \in Int
      BY CodeListed
    <3>2. eip[2] \in Int
      BY <2>2, <3>1
    <3>3. Frame.vector \in Int
      BY <2>1, VectorFacts
    <3> QED BY <3>2, <3>3
  <2>4. <<Frame.vector, eip[2]>> \in Halves
    BY <2>3 DEF Halves
  <2> QED BY <2>2, <2>4
<1> QED BY <1>1, <1>2

\* The new frame is as the invariant wants it.
LEMMA EnteredOK ==
  ASSUME StubInv, NEW v \in Vectors, NEW err \in {0, 7}, sp \in Top - 19 .. Top - 1
  PROVE  FrameOK(Entered(v, err))
<1> PICK f : f = Entered(v, err)
  OBVIOUS
<1>1. f.vector = v /\ f.err = err /\ f.was = Context
  BY EnteredFields
<1>2. /\ IsContext(f.was)
      /\ f.was.reg = reg /\ f.was.sp = sp /\ f.was.seg = seg /\ f.was.cs = cs /\ f.was.eip = eip
      /\ f.was.flags = flags
  BY <1>1, ContextFields
<1>3. /\ reg \in [General -> Halves] /\ seg \in [Segments -> {KernelData}] /\ cs = KernelCode
      /\ flags \in {0, 1} \X {0, 1} /\ eip \in Halves
  BY StateTyped, PointerIsWord DEF RestTyped
<1> QED BY <1>1, <1>2, <1>3 DEF FrameOK

\* The words that the processor pushes are the first of the table.
LEMMA TrapWords ==
  ASSUME StubInv, NEW v \in Vectors, NEW err
  PROVE  LET f == Entered(v, err)
             n == IF Dummy(v) THEN 3 ELSE 4
         IN Len(Trap(v, err)) = n /\ \A k \in 1 .. n : Trap(v, err)[k] = Words(f)[k]
<1> PICK f : f = Entered(v, err)
  OBVIOUS
<1>1. /\ f.vector = v /\ f.err = err
      /\ f.was.cs = cs /\ f.was.eip = eip /\ f.was.flags = flags
  BY EnteredFields, ContextFields
<1>2. v \in WithErrorCode <=> ~Dummy(v)
  BY VectorFacts
<1> PICK w : w = Words(f)
  OBVIOUS
<1>3. /\ w[1] = flags /\ w[2] = <<0, cs>> /\ w[3] = eip
      /\ ~Dummy(v) => w[4] = <<0, err>>
  BY <1>1, <1>2, WordTable
<1> DEFINE S == {w[1], w[2], w[3], w[4]}
           a == <<flags, <<0, cs>>, eip>>
           b == << w[4] >>
<1>4. w[1] \in S /\ w[2] \in S /\ w[3] \in S /\ w[4] \in S
  OBVIOUS
<1>5. a = <<w[1], w[2], w[3]>>
  BY <1>3
<1>6. Trap(v, err) = a \o (IF Dummy(v) THEN <<>> ELSE b)
  BY <1>2, <1>3 DEF Trap
<1> HIDE DEF S, a
<1>7. b \in Seq(S) /\ Len(b) = 1 /\ b[1] = w[4]
  BY <1>4
<1> HIDE DEF b
<1>8. a \in Seq(S) /\ Len(a) = 3 /\ a[1] = w[1] /\ a[2] = w[2] /\ a[3] = w[3]
  BY <1>4, <1>5, Three
<1> PICK t : t = Trap(v, err)
  OBVIOUS
<1>9. CASE Dummy(v)
  <2>1. t = a
    <3>1. a \o <<>> = a
      BY <1>8, ConcatEmptySeq
    <3> QED BY <1>6, <1>9, <3>1
  <2>2. \A k \in 1 .. 3 : k = 1 \/ k = 2 \/ k = 3
    OBVIOUS
  <2>3. Len(t) = 3 /\ \A k \in 1 .. 3 : t[k] = w[k]
    BY <1>8, <2>1, <2>2
  <2> QED BY <1>9, <2>3
<1>10. CASE ~Dummy(v)
  <2>1. t = a \o b
    BY <1>6, <1>10
  <2>2. /\ Len(a \o b) = Len(a) + Len(b)
        /\ \A k \in 1 .. Len(a) + Len(b) :
             (a \o b)[k] = IF k <= Len(a) THEN a[k] ELSE b[k - Len(a)]
    BY <1>7, <1>8, ConcatProperties
  <2>3. Len(t) = 4 /\ t[1] = w[1] /\ t[2] = w[2] /\ t[3] = w[3] /\ t[4] = w[4]
    BY <1>7, <1>8, <2>1, <2>2
  <2>4. \A k \in 1 .. 4 : k = 1 \/ k = 2 \/ k = 3 \/ k = 4
    OBVIOUS
  <2>5. \A k \in 1 .. 4 : t[k] = w[k]
    BY <2>3, <2>4
  <2> QED BY <1>10, <2>3, <2>5
<1> QED BY <1>9, <1>10

\* The processor's push leads to the first instruction of the stub.
LEMMA EnterLands ==
  ASSUME StubInv, NEW v \in Vectors, NEW err \in {0, 7}, sp \in Top - 19 .. Top - 1,
         Enter(v, err), frames = <<>> \/ \E g : frames = <<g>>
  PROVE  /\ TypeOK' /\ InStub' /\ FrameOK(Entered(v, err))
         /\ frames' = Append(frames, Entered(v, err))
<1>1. PICK f : f = Entered(v, err)
  OBVIOUS
<1>2. /\ f.vector = v /\ f.err = err
      /\ f.was.reg = reg /\ f.was.sp = sp /\ f.was.flags = flags
      /\ f.was.stack = [a \in sp .. Top - 1 |-> mem[a]]
  BY <1>1, EnteredFields, ContextFields
<1>3. FrameOK(f)
  BY <1>1, EnteredOK
<1>4. /\ Push(Trap(v, err)) /\ flags' = <<flags[1], 0>> /\ cs' = KernelCode /\ eip' = <<v, 1>>
      /\ frames' = Append(frames, f) /\ reg' = reg /\ seg' = seg
  BY <1>1 DEF Enter, Trap, Entered
<1>5. PICK n, w : n = (IF Dummy(v) THEN 3 ELSE 4) /\ w = Words(f)
  OBVIOUS
<1>6. Len(Trap(v, err)) = n /\ \A k \in 1 .. n : Trap(v, err)[k] = w[k]
  BY <1>1, <1>5, TrapWords
<1>7. n \in 3 .. 4 /\ Depth(v, 1) = n
  BY <1>5, DepthTable
<1>8. sp \in Int /\ 16 <= sp /\ sp <= Top - 1 /\ Top \in Int
  BY VectorsAssumption
<1>9. \A d \in 1 .. 16 : w[d] \in Halves
  BY <1>3, <1>5, WordsTyped
<1>10. /\ mem \in [0 .. Top - 1 -> Halves] /\ reg \in [General -> Halves]
       /\ seg \in [Segments -> {KernelData}] /\ flags \in {0, 1} \X {0, 1}
  BY StateTyped DEF RestTyped
<1>11. Continues(w, sp, 0, n, Trap(v, err))
  <2>1. sp = sp - 0 /\ 0 + n <= 16 /\ n \in Nat /\ 0 \in Int /\ 0 <= 0
    BY <1>7, <1>8
  <2>2. \A d \in 1 .. 0 : mem[sp - d] = w[d]
    OBVIOUS
  <2>3. \A k \in 1 .. n : Trap(v, err)[k] = w[0 + k]
    <3>1. \A k \in 1 .. n : 0 + k = k
      BY <1>7
    <3> QED BY <1>6, <3>1
  <2> QED BY <1>4, <1>6, <1>8, <1>9, <1>10, <2>1, <2>2, <2>3 DEF Continues
<1>12. /\ sp' = sp - n
       /\ \A d \in 1 .. n : mem'[sp - d] = w[d]
       /\ \A a \in sp .. Top - 1 : mem'[a] = mem[a]
       /\ mem' \in [0 .. Top - 1 -> Halves]
  <2>1. /\ sp' = sp - (0 + n)
        /\ \A d \in 1 .. 0 + n : mem'[sp - d] = w[d]
        /\ \A a \in sp .. Top - 1 : mem'[a] = mem[a]
        /\ mem' \in [0 .. Top - 1 -> Halves]
    BY <1>11, PushDeeper
  <2>2. 0 + n = n
    BY <1>7
  <2> QED BY <2>1, <2>2
<1>13. Pushed(f, 1, mem')
  BY <1>2, <1>5, <1>7, <1>12 DEF Pushed
<1>14. f.was.stack = [a \in f.was.sp .. Top - 1 |-> mem'[a]]
  BY <1>2, <1>12
<1>15. flags' = FlagsAt(f, 1)
  BY <1>2, <1>4 DEF FlagsAt
<1>16. sp' = f.was.sp - Depth(f.vector, 1)
  BY <1>2, <1>7, <1>12
<1>17. RegsAt(f, 1, reg')
  BY <1>2, <1>4 DEF RegsAt
<1>18. Inside(f, 1, reg', sp', mem', flags')
  BY <1>13, <1>14, <1>15, <1>16, <1>17 DEF Inside
<1>19. eip' = <<f.vector, eip'[2]>> /\ eip'[1] = v /\ eip'[2] = 1
  BY <1>2, <1>4
<1>20. Pos' = 1
  BY <1>19 DEF Pos, Position
<1>21. eip'[2] \in 0 .. Len(Code(f.vector))
  <2>1. Len(Code(f.vector)) = IF Dummy(f.vector) THEN 24 ELSE 23
    BY CodeListed
  <2> QED BY <1>19, <2>1
<1>22. Frame' = f
  <2>1. CASE frames = <<>>
    <3>1. Len(frames') = 1 /\ frames'[1] = f
      BY <1>4, <2>1
    <3> QED BY <3>1 DEF Frame
  <2>2. CASE \E g : frames = <<g>>
    <3>1. Len(frames') = 2 /\ frames'[2] = f
      BY <1>4, <2>2
    <3> QED BY <3>1 DEF Frame
  <2> QED BY <2>1, <2>2
<1>23. InStub'
  BY <1>18, <1>19, <1>20, <1>21, <1>22 DEF InStub
<1>24. flags' \in {0, 1} \X {0, 1}
  BY <1>4, <1>10
<1>25. sp' \in 0 .. Top - 1
  BY <1>7, <1>8, <1>12
<1>26. eip'[1] \in Irqs \cup Faults \cup {NMI} /\ eip'[2] \in 0 .. Len(Code(eip'[1]))
  BY <1>2, <1>19, <1>21 DEF Vectors
<1>27. TypeOK'
  BY <1>4, <1>10, <1>12, <1>24, <1>25, <1>26 DEF TypeOK
<1> QED BY <1>1, <1>3, <1>4, <1>23, <1>27

LEMMA VectorSets ==
  /\ Irqs \subseteq Vectors /\ Faults \subseteq Vectors /\ NMI \in Vectors
BY DEF Vectors

\* In the kernel's own code any vector may come.
LEMMA EnterKernelKeepsInv ==
  ASSUME StubInv, NEW v \in Vectors, NEW err \in {0, 7}, eip = Main, Enter(v, err)
  PROVE  StubInv'
<1> PICK f : f = Entered(v, err)
  OBVIOUS
<1>1. frames = <<>> /\ sp \in Top - 3 .. Top - 1
  BY InKernel
<1>2. sp \in Top - 19 .. Top - 1
  BY <1>1, VectorsAssumption
<1>3. TypeOK' /\ InStub' /\ FrameOK(f) /\ frames' = Append(frames, f)
  BY <1>1, <1>2, EnterLands
<1>4. f.was.eip = Main /\ f.was.sp = sp
  BY EnteredFields, ContextFields
<1>5. KernelFrame(f)
  BY <1>1, <1>3, <1>4 DEF KernelFrame
<1>6. frames' = <<f>>
  BY <1>1, <1>3
<1>7. frames'[1] = f
  BY <1>6
<1>8. frames' = <<frames'[1]>> /\ KernelFrame(frames'[1])
  BY <1>5, <1>6, <1>7
<1>9. KernelFrame(frames[1])'
  BY <1>8 DEF KernelFrame, FrameOK
<1> QED BY <1>3, <1>8, <1>9 DEF StubInv

\* Requests come only to the kernel's own code.
LEMMA OpenOnlyInKernel ==
  ASSUME StubInv, flags[2] = 1, ~Shadow
  PROVE  eip = Main
<1>1. SUFFICES ASSUME eip # Main PROVE FALSE
  OBVIOUS
<1> PICK f : f = Frame
  OBVIOUS
<1>2. /\ InStub /\ FrameOK(f) /\ eip[1] = f.vector /\ f.vector \in Vectors
  BY <1>1, ExecutingInFrame
<1>3. flags = FlagsAt(f, Pos)
  BY <1>2 DEF InStub, Inside
<1>4. Pos = 24
  <2>1. SUFFICES ASSUME Pos # 24 PROVE flags[2] = 0
    OBVIOUS
  <2> QED BY <1>3, <2>1 DEF FlagsAt
<1> PICK i : i = eip[2]
  OBVIOUS
<1> PICK n : n = Len(Code(f.vector))
  OBVIOUS
<1>5. Pos = Position(f.vector, i)
  BY <1>2 DEF Pos
<1>6. n = IF Dummy(f.vector) THEN 24 ELSE 23
  BY CodeListed
<1>7. i \in 0 .. n
  BY <1>2 DEF InStub
<1>8. i = n
  BY <1>4, <1>5, <1>6, <1>7 DEF Position
<1>9. i - 1 \in 1 .. n /\ i > 1 /\ Position(f.vector, i - 1) = 23
  BY <1>6, <1>8 DEF Position
<1>10. Code(f.vector)[i - 1] = Listing(f.vector)[23]
  BY <1>9, CodeListed
<1>11. Listing(f.vector)[23].op = "sti"
  <2>1. Listing(f.vector)[23] = Op("sti", 0)
    BY ListingRead
  <2> QED BY <2>1 DEF Op
<1>12. Shadow
  BY <1>2, <1>9, <1>10, <1>11 DEF Shadow
<1> QED BY <1>12

LEMMA PosRange ==
  ASSUME StubInv, eip # Main
  PROVE  Pos \in 0 .. 24
<1>1. Len(Code(Frame.vector)) = IF Dummy(Frame.vector) THEN 24 ELSE 23
  BY CodeListed
<1>2. InStub /\ eip[1] = Frame.vector
  BY ExecutingInFrame
<1>3. eip[2] \in 0 .. Len(Code(Frame.vector))
  BY <1>2 DEF InStub
<1>4. Pos = Position(Frame.vector, eip[2])
  BY <1>2 DEF Pos
<1>5. eip[2] \in Int /\ 0 <= eip[2] /\ eip[2] <= 24 /\ (~Dummy(Frame.vector) => eip[2] <= 23)
  BY <1>1, <1>3
<1> QED BY <1>4, <1>5 DEF Position

LEMMA AppendTwo ==
  ASSUME NEW g, NEW h
  PROVE  Append(<<g>>, h) = <<g, h>>
<1>1. <<g>> \in Seq({g, h}) /\ h \in {g, h}
  OBVIOUS
<1>2. Append(<<g>>, h) \in Seq({g, h}) /\ Len(Append(<<g>>, h)) = 2 /\ Append(<<g>>, h)[1] = g /\ Append(<<g>>, h)[2] = h
  BY <1>1
<1>3. <<g, h>> \in Seq({g, h}) /\ Len(<<g, h>>) = 2 /\ <<g, h>>[1] = g /\ <<g, h>>[2] = h
  OBVIOUS
<1>4. \A k \in 1 .. 2 : k = 1 \/ k = 2
  OBVIOUS
<1> QED BY <1>2, <1>3, <1>4, SeqEqual

\* An NMI may come anywhere, but not on another.
LEMMA NmiKeepsInv ==
  ASSUME StubInv, Nmi
  PROVE  StubInv'
<1>1. NMI \in Vectors /\ 0 \in {0, 7} /\ Enter(NMI, 0)
  BY VectorSets DEF Nmi
<1>2. CASE eip = Main
  BY <1>1, <1>2, EnterKernelKeepsInv
<1>3. CASE eip # Main
  <2>1. \A k \in 1 .. Len(frames) : frames[k].vector # NMI
    BY DEF Nmi
  <2>2. Len(frames) = 1 /\ Frame = frames[1] /\ KernelFrame(Frame) /\ InStub
    <3>1. \/ Len(frames) = 1 /\ Frame = frames[1] /\ KernelFrame(Frame) /\ InStub
          \/ Len(frames) = 2 /\ Frame = frames[2] /\ Frame.vector = NMI
      BY <1>3, Shapes
    <3>2. ~(Len(frames) = 2 /\ Frame = frames[2] /\ Frame.vector = NMI)
      BY <2>1
    <3> QED BY <3>1, <3>2
  <2>3. PICK g : g = frames[1] /\ KernelFrame(g)
    BY <2>2
  <2>4. frames = <<g>>
    BY <2>2, <2>3 DEF StubInv
  <2>5. g.vector # NMI
    BY <2>1, <2>2, <2>3
  <2>6. sp \in Top - 19 .. Top - 1
    <3>1. sp = g.was.sp - Depth(g.vector, Pos)
      BY <2>2, <2>3 DEF InStub, Inside
    <3>2. Depth(g.vector, Pos) \in 3 .. 16
      <4>1. Pos \in 0 .. 24
        BY <1>3, PosRange
      <4> QED BY <4>1, DepthRange
    <3>3. g.was.sp \in Top - 3 .. Top - 1
      BY <2>3 DEF KernelFrame
    <3> QED BY <3>1, <3>2, <3>3, VectorsAssumption
  <2>7. PICK f : f = Entered(NMI, 0)
    OBVIOUS
  <2>8. TypeOK' /\ InStub' /\ FrameOK(f) /\ frames' = Append(frames, f)
    BY <1>1, <2>4, <2>6, <2>7, EnterLands
  <2>9. f.vector = NMI
    BY <2>7, EnteredFields
  <2>10. frames' = <<g, f>>
    <3>1. Append(<<g>>, f) = <<g, f>>
      BY AppendTwo
    <3> QED BY <2>4, <2>8, <3>1
  <2>11. frames'[1] = g /\ frames'[2] = f
    BY <2>10
  <2>12. /\ frames' = <<frames'[1], frames'[2]>> /\ KernelFrame(frames'[1]) /\ FrameOK(frames'[2])
         /\ frames'[1].vector # NMI /\ frames'[2].vector = NMI
    BY <2>3, <2>5, <2>8, <2>9, <2>10, <2>11
  <2>13. KernelFrame(frames[1])' /\ FrameOK(frames[2])'
    BY <2>12 DEF KernelFrame, FrameOK
  <2> QED BY <2>8, <2>12, <2>13 DEF StubInv
<1> QED BY <1>2, <1>3

LEMMA IrqKeepsInv ==
  ASSUME StubInv, NEW v \in Irqs, Irq(v)
  PROVE  StubInv'
<1>1. eip = Main
  BY OpenOnlyInKernel DEF Irq
<1>2. Enter(v, 0) /\ v \in Vectors /\ 0 \in {0, 7}
  BY VectorSets DEF Irq
<1> QED BY <1>1, <1>2, EnterKernelKeepsInv

LEMMA FaultKeepsInv ==
  ASSUME StubInv, NEW v \in Faults, Fault(v)
  PROVE  StubInv'
<1>1. eip = Main /\ v \in Vectors /\ \E err \in {0, 7} : Enter(v, err)
  BY VectorSets DEF Fault
<1> QED BY <1>1, EnterKernelKeepsInv

LEMMA RunKeepsInv ==
  ASSUME StubInv, Run
  PROVE  StubInv'
<1>1. /\ eip = Main /\ sp' \in Top - 3 .. Top - 1 /\ reg' = reg /\ seg' = seg /\ cs' = cs
      /\ eip' = eip /\ flags' = flags /\ mem' = mem /\ frames' = frames
  BY DEF Run
<1>2. frames = <<>>
  BY <1>1, InKernel
<1>3. sp' \in 0 .. Top - 1
  BY <1>1, VectorsAssumption
<1>4. TypeOK'
  BY <1>1, <1>3 DEF StubInv, TypeOK
<1> QED BY <1>1, <1>2, <1>4 DEF StubInv

LEMMA StutterKeepsInv ==
  ASSUME StubInv, UNCHANGED vars
  PROVE  StubInv'
<1>1. /\ reg' = reg /\ sp' = sp /\ seg' = seg /\ cs' = cs /\ eip' = eip /\ flags' = flags
      /\ mem' = mem /\ frames' = frames
  BY DEF vars
<1>2. TypeOK'
  BY <1>1 DEF StubInv, TypeOK
<1>3. CASE eip = Main
  <2>1. frames = <<>> /\ sp \in Top - 3 .. Top - 1
    BY <1>3, InKernel
  <2> QED BY <1>1, <1>2, <1>3, <2>1 DEF StubInv
<1>4. CASE eip # Main
  <2>1. InStub
    BY <1>4, ExecutingInFrame
  <2>2. Frame' = Frame /\ Pos' = Pos
    BY <1>1 DEF Frame, Pos
  <2>3. InStub'
    BY <1>1, <2>1, <2>2 DEF InStub
  <2>4. RestTyped'
    BY <1>1, StateTyped DEF RestTyped
  <2> QED BY <1>1, <1>4, <2>3, <2>4, FramesKept
<1> QED BY <1>3, <1>4

-----------------------------------------------------------------------------
(* The invariant holds, and what follows from it.                          *)

LEMMA InitHasInv ==
  ASSUME Init
  PROVE  StubInv
<1>1. \A r \in General : Place(r) \in Int
  BY Places8
<1>2. reg \in [General -> Halves]
  <2>1. \A r \in General : <<100 + Place(r), 200 + Place(r)>> \in Halves
    BY <1>1 DEF Halves
  <2> QED BY <2>1 DEF Init
<1>3. mem \in [0 .. Top - 1 -> Halves]
  <2>1. \A a \in 0 .. Top - 1 : <<300, a>> \in Halves
    BY DEF Halves
  <2> QED BY <2>1 DEF Init
<1>4. sp \in Top - 3 .. Top - 1 /\ sp \in 0 .. Top - 1
  BY VectorsAssumption DEF Init
<1>5. seg \in [Segments -> {KernelData}] /\ cs = KernelCode /\ eip = Main /\ frames = <<>>
        /\ flags \in {0, 1} \X {0, 1}
  BY DEF Init
<1>6. TypeOK
  BY <1>2, <1>3, <1>4, <1>5 DEF TypeOK
<1> QED BY <1>4, <1>5, <1>6 DEF StubInv

LEMMA NextKeepsInv ==
  ASSUME StubInv, [Next]_vars
  PROVE  StubInv'
<1>1. CASE PushStep
  BY <1>1, PushKeepsInv
<1>2. CASE PopStep
  BY <1>2, PopKeepsInv
<1>3. CASE MoveStep
  BY <1>3, MoveKeepsInv
<1>4. CASE FlagStep
  BY <1>4, FlagKeepsInv
<1>5. CASE Call
  BY <1>5, CallKeepsInv
<1>6. CASE Return
  BY <1>6, ReturnKeepsInv
<1>7. CASE Iret
  BY <1>7, IretKeepsInv
<1>8. CASE \E v \in Irqs : Irq(v)
  BY <1>8, IrqKeepsInv
<1>9. CASE \E v \in Faults : Fault(v)
  BY <1>9, FaultKeepsInv
<1>10. CASE Nmi
  BY <1>10, NmiKeepsInv
<1>11. CASE Run
  BY <1>11, RunKeepsInv
<1>12. CASE Halted
  BY <1>12, StutterKeepsInv DEF Halted
<1>13. CASE UNCHANGED vars
  BY <1>13, StutterKeepsInv
<1> QED BY <1>1, <1>2, <1>3, <1>4, <1>5, <1>6, <1>7, <1>8, <1>9, <1>10, <1>11, <1>12, <1>13 DEF Next

\* Before each instruction the stack holds the words that the table says.
LEMMA StubInvariant ==
  Spec => []StubInv
<1>1. Init => StubInv
  BY InitHasInv
<1>2. StubInv /\ [Next]_vars => StubInv'
  BY NextKeepsInv
<1> QED BY <1>1, <1>2, PTL DEF Spec

\* The stack pointer stays on the stack, eip in a stub, in C or in the kernel,
\* and the segments are the kernel's.
THEOREM StubTypeCorrect ==
  Spec => []TypeOK
<1>1. StubInv => TypeOK
  BY DEF StubInv
<1> QED BY <1>1, StubInvariant, PTL

\* The sti before iret lets no request in before iret is done: at most one
\* interruption of the kernel is on the stack, and an NMI on top.
THEOREM FramesNeverPileUp ==
  Spec => []FramesDoNotPileUp
<1>1. ASSUME StubInv PROVE FramesDoNotPileUp
  <2>1. frames = <<>> \/ Len(frames) = 1 \/ Len(frames) = 2
    BY <1>1, Shapes
  <2>2. frames = <<>> => Len(frames) = 0
    OBVIOUS
  <2>3. PICK n : n = Len(frames)
    OBVIOUS
  <2>4. n = 0 \/ n = 1 \/ n = 2
    BY <2>1, <2>2, <2>3
  <2>5. n <= 2
    BY <2>4
  <2> QED BY <2>3, <2>5 DEF FramesDoNotPileUp
<1> QED BY <1>1, StubInvariant, PTL

\* The registers_t that a handler is given is what was interrupted, the vector and
\* the error code included, for stubs that push a dummy and for those that do not.
THEOREM FrameAlwaysTrue ==
  Spec => []FrameIsTrue
<1>1. ASSUME StubInv PROVE FrameIsTrue
  <2>1. SUFFICES ASSUME InC PROVE FrameIsTrue
    BY DEF FrameIsTrue
  <2>2. PICK f, w : f = frames[Len(frames)] /\ w = Words(f)
    OBVIOUS
  <2>3. /\ FrameOK(f) /\ eip[1] = f.vector /\ f.vector \in Vectors
        /\ Inside(f, 0, reg, sp, mem, flags)
    BY <1>1, <2>1, <2>2, InHandler DEF Frame
  <2>4. sp = f.was.sp - 16 /\ flags = <<0, 0>> /\ \A d \in 1 .. 16 : mem[f.was.sp - d] = w[d]
    <3>1. Depth(f.vector, 0) = 16
      BY DepthTable
    <3>2. sp = f.was.sp - 16 /\ Pushed(f, 0, mem) /\ flags = FlagsAt(f, 0)
      BY <2>3, <3>1 DEF Inside
    <3>3. flags = <<0, 0>>
      BY <3>2 DEF FlagsAt
    <3>4. \A d \in 1 .. 16 : mem[f.was.sp - d] = w[d]
      BY <2>2, <3>1, <3>2 DEF Pushed
    <3> QED BY <3>2, <3>3, <3>4
  <2>5. f.was.sp \in Int
    BY <2>3 DEF FrameOK
  <2>6. w[15] = <<0, f.was.sp - 14>>
    BY <2>2, WordTable
  <2>7. PICK r : r = mem[sp + 1]
    OBVIOUS
  <2>8. r[2] = f.was.sp - 14
    <3>1. sp + 1 = f.was.sp - 15 /\ 15 \in 1 .. 16
      BY <2>4, <2>5
    <3> QED BY <2>4, <2>6, <2>7, <3>1
  <2>9. ASSUME NEW k \in 0 .. 13 PROVE Member(r, k) = w[14 - k]
    <3>1. r[2] + k = f.was.sp - (14 - k) /\ 14 - k \in 1 .. 16
      BY <2>5, <2>8
    <3> QED BY <2>4, <3>1 DEF Member
  <2>10. /\ Member(r, 0) = w[14] /\ Member(r, 1) = w[13] /\ Member(r, 2) = w[12]
         /\ Member(r, 3) = w[11] /\ Member(r, 5) = w[9] /\ Member(r, 6) = w[8]
         /\ Member(r, 7) = w[7] /\ Member(r, 8) = w[6] /\ Member(r, 9) = w[5]
         /\ Member(r, 10) = w[4] /\ Member(r, 11) = w[3] /\ Member(r, 12) = w[2]
         /\ Member(r, 13) = w[1]
    BY <2>9
  <2>11. Member(r, 0)[2] = f.was.seg["ds"]
    <3>1. f.was.seg["ds"] = KernelData
      BY <2>3 DEF FrameOK, Segments
    <3>2. w[14] = <<f.was.reg["eax"][1], KernelData>>
      BY <2>2, WordTable
    <3> QED BY <2>10, <3>1, <3>2
  <2>12. /\ Member(r, 9) = <<0, f.vector>> /\ f.vector = eip[1]
         /\ Member(r, 10) = <<0, IF f.vector \in WithErrorCode THEN f.err ELSE 0>>
         /\ Member(r, 11) = f.was.eip /\ Member(r, 12) = <<0, f.was.cs>>
         /\ Member(r, 13) = f.was.flags
    BY <2>2, <2>3, <2>10, WordTable
  <2>13. /\ Member(r, 1) = f.was.reg["edi"] /\ Member(r, 2) = f.was.reg["esi"]
         /\ Member(r, 3) = f.was.reg["ebp"] /\ Member(r, 5) = f.was.reg["ebx"]
         /\ Member(r, 6) = f.was.reg["edx"] /\ Member(r, 7) = f.was.reg["ecx"]
         /\ Member(r, 8) = f.was.reg["eax"]
    BY <2>2, <2>10, WordTable
  <2> DEFINE pos == [edi |-> 1, esi |-> 2, ebp |-> 3, ebx |-> 5, edx |-> 6, ecx |-> 7, eax |-> 8]
  <2>14. \A g \in General : Member(r, pos[g]) = f.was.reg[g]
    <3>1. /\ pos["edi"] = 1 /\ pos["esi"] = 2 /\ pos["ebp"] = 3 /\ pos["ebx"] = 5
          /\ pos["edx"] = 6 /\ pos["ecx"] = 7 /\ pos["eax"] = 8
      OBVIOUS
    <3> HIDE DEF pos
    <3> QED BY <2>13, <3>1 DEF General
  <2> QED BY <2>2, <2>4, <2>7, <2>11, <2>12, <2>14 DEF FrameIsTrue
<1> QED BY <1>1, StubInvariant, PTL

\* Only iret takes a frame off, and what it goes on with is what was interrupted:
\* registers, segments, flags and every word of the stack.
THEOREM ContextAlwaysRestored ==
  Spec => ContextIsRestored
<1>1. ASSUME StubInv, [Next]_vars
      PROVE  [Len(frames') < Len(frames) => Context' = frames[Len(frames)].was]_vars
  <2>1. SUFFICES ASSUME Len(frames') < Len(frames) PROVE Context' = Frame.was
    BY DEF Frame
  <2>2. Iret
    <3>1. frames' # frames
      <4>1. Len(frames) \in Int
        BY <1>1, Shapes
      <4> QED BY <2>1, <4>1
    <3>2. ~\E v, err : Enter(v, err)
      <4>1. SUFFICES ASSUME NEW v, NEW err, Enter(v, err) PROVE FALSE
        OBVIOUS
      <4>2. \E g : frames' = Append(frames, g)
        BY <4>1 DEF Enter
      <4>3. CASE frames = <<>>
        BY <2>1, <4>2, <4>3
      <4>4. CASE \E g : frames = <<g>>
        BY <2>1, <4>2, <4>4
      <4>5. CASE \E g, h : frames = <<g, h>>
        BY <2>1, <4>2, <4>5
      <4> QED BY <1>1, <4>3, <4>4, <4>5 DEF StubInv
    <3> QED BY <1>1, <3>1, <3>2 DEF Next, PushStep, PopStep, MoveStep, FlagStep, Call, Return,
            Irq, Fault, Nmi, Run, Halted, vars
  <2>3. PICK f : f = Frame
    OBVIOUS
  <2>4. /\ KernelFrame(f) /\ eip' = f.was.eip /\ cs' = f.was.cs /\ flags' = f.was.flags
        /\ sp' = f.was.sp /\ reg = f.was.reg
        /\ f.was.stack = [a \in f.was.sp .. Top - 1 |-> mem[a]]
    BY <1>1, <2>2, <2>3, IretFacts
  <2>5. reg' = reg /\ seg' = seg /\ mem' = mem
    BY <2>2 DEF Iret
  <2>6. seg' = f.was.seg
    <3>1. seg \in [Segments -> {KernelData}] /\ f.was.seg \in [Segments -> {KernelData}]
      BY <1>1, <2>4, StateTyped DEF RestTyped, KernelFrame, FrameOK
    <3> QED BY <2>5, <3>1
  <2>7. Live' = f.was.stack
    BY <2>4, <2>5 DEF Live
  <2>8. IsContext(f.was)
    BY <2>4 DEF KernelFrame, FrameOK
  <2>9. Context' = [reg |-> f.was.reg, sp |-> f.was.sp, seg |-> f.was.seg, cs |-> f.was.cs,
                    eip |-> f.was.eip, flags |-> f.was.flags, stack |-> f.was.stack]
    BY <2>4, <2>5, <2>6, <2>7 DEF Context
  <2> QED BY <2>3, <2>8, <2>9 DEF IsContext
<1> QED BY <1>1, StubInvariant, PTL DEF Spec, ContextIsRestored
=============================================================================
