----------------------------- MODULE PagingProofs -----------------------------
(***************************************************************************)
(* Whatever memory holds, wherever the kernel ends, no address and no index*)
(* leaves its range.  In memory that was zero two pages share no frame but *)
(* 0.  Where there is also room for all tables, and the bitset ends before *)
(* the directory, kmalloc hands out nothing twice and all that is in use is*)
(* mapped to itself when paging is switched on.                            *)
(***************************************************************************)
EXTENDS Paging, FiniteSetTheorems, TLAPS

-----------------------------------------------------------------------------
(* Arithmetic.                                                             *)

LEMMA DivMod ==
  ASSUME NEW a \in Nat, NEW b \in Nat \ {0}
  PROVE  /\ a \div b \in Nat /\ a % b \in 0 .. b - 1
         /\ a = ((a \div b) * b) + (a % b)
<1>1. a \div b \in Int /\ a % b \in 0 .. b - 1 /\ a = (b * (a \div b)) + (a % b)
  OBVIOUS
<1>2. a \div b >= 0
  BY <1>1
<1> QED BY <1>1, <1>2

LEMMA MulMono ==
  ASSUME NEW a \in Nat, NEW b \in Nat, NEW c \in Nat, a <= b
  PROVE  a * c <= b * c
OBVIOUS

\* A quotient is below a bound when the number is below the bound's multiple.
LEMMA DivBelow ==
  ASSUME NEW a \in Nat, NEW b \in Nat \ {0}, NEW c \in Nat, a < c * b
  PROVE  a \div b \in 0 .. c - 1
<1>1. a \div b \in Nat /\ a % b \in 0 .. b - 1 /\ a = ((a \div b) * b) + (a % b)
  BY DivMod
<1>2. c <= a \div b => c * b <= (a \div b) * b
  BY <1>1, MulMono
<1>3. (a \div b) * b \in Nat /\ c * b \in Nat
  BY <1>1
<1> QED BY <1>1, <1>2, <1>3

LEMMA DivOfMultiple ==
  ASSUME NEW a \in Nat, NEW b \in Nat \ {0}
  PROVE  (a * b) \div b = a
<1> DEFINE q == (a * b) \div b
           r == (a * b) % b
<1>1. a * b \in Nat
  OBVIOUS
<1>2. q \in Nat /\ r \in 0 .. b - 1 /\ a * b = (q * b) + r
  BY <1>1, DivMod
<1> HIDE DEF q, r
<1>3. q + 1 <= a => (q + 1) * b <= a * b
  BY <1>2, MulMono
<1>4. a + 1 <= q => (a + 1) * b <= q * b
  BY <1>2, MulMono
<1>5. (q + 1) * b = (q * b) + b /\ (a + 1) * b = (a * b) + b
  BY <1>2
<1>6. q * b \in Nat
  BY <1>2
<1>7. q = a
  BY <1>1, <1>2, <1>3, <1>4, <1>5, <1>6
<1> QED BY <1>7 DEF q

LEMMA DivOfSmall ==
  ASSUME NEW a \in Nat, NEW b \in Nat \ {0}, a < b
  PROVE  a \div b = 0
<1>1. a < 1 * b
  OBVIOUS
<1>2. a \div b \in 0 .. 1 - 1
  BY <1>1, DivBelow
<1> QED BY <1>2

\* Two numbers with the same quotient and rest are one.
LEMMA SamePlace ==
  ASSUME NEW a \in Nat, NEW b \in Nat, NEW c \in Nat \ {0}, a \div c = b \div c, a % c = b % c
  PROVE  a = b
BY DivMod

\* Sets of natural numbers have minima.
LEMMA MinIsLeast ==
  ASSUME NEW S, S \subseteq Nat, S # {}
  PROVE  Min(S) \in S /\ \A y \in S : Min(S) <= y
<1> DEFINE Below(m) == 0 .. m - 1
           T == {Below(m) : m \in S}
<1>1. T \subseteq FiniteSubsetsOf(Nat)
  <2>1. \A m \in S : Below(m) \subseteq Nat /\ IsFiniteSet(Below(m))
    <3> TAKE m \in S
    <3>1. m - 1 \in Int /\ 0 \in Int
      OBVIOUS
    <3> QED BY <3>1, FS_Interval
  <2> QED BY <2>1 DEF FiniteSubsetsOf
<1>2. T # {}
  OBVIOUS
<1>3. IsWellFoundedOn(StrictSubsetOrdering(Nat), FiniteSubsetsOf(Nat))
  BY FS_StrictSubsetOrderingWellFounded
<1>4. PICK X \in T : \A Y \in T : ~(<<Y, X>> \in StrictSubsetOrdering(Nat))
  <2> HIDE DEF T
  <2> QED BY <1>1, <1>2, <1>3, WFMin
<1>5. PICK m \in S : X = Below(m)
  BY <1>4
<1>6. \A k \in S : m <= k
  <2> SUFFICES ASSUME NEW k \in S, k < m PROVE FALSE
    OBVIOUS
  <2>1. k \in Nat /\ m \in Nat
    OBVIOUS
  <2>2. Below(k) \subseteq Below(m) /\ Below(k) # Below(m)
    <3>1. k \in Below(m) /\ k \notin Below(k)
      BY <2>1
    <3> QED BY <2>1, <3>1
  <2>3. Below(k) \in SUBSET Nat /\ Below(m) \in SUBSET Nat
    BY <2>1
  <2>4. <<Below(k), Below(m)>> \in StrictSubsetOrdering(Nat)
    BY <2>2, <2>3 DEF StrictSubsetOrdering
  <2> QED BY <1>4, <1>5, <2>4
<1> QED BY <1>6 DEF Min

-----------------------------------------------------------------------------
(* The bitset.                                                             *)

Pages == 0 .. (Entries * Entries) - 1
Frame == 0 .. NFrames - 1
Bitset == [0 .. Words - 1 -> SUBSET Bits]
Directory == [0 .. Entries - 1 -> Address \cup {Stale}]

LEMMA Sizes ==
  /\ WordBytes \in Nat \ {0} /\ WordBits \in Nat \ {0} /\ Entries \in Nat \ {0}
  /\ NFrames \in Nat /\ 1 < NFrames /\ NFrames <= PageSize
  /\ Entries <= NFrames /\ NFrames < Entries * Entries
  /\ PageSize \in Nat \ {0} /\ AddressSpace \in Nat \ {0}
  /\ AddressSpace = (Entries * Entries) * PageSize /\ Entries * Entries \in Nat \ {0}
  /\ Words \in Nat /\ NFrames = Words * WordBits
  /\ KernelEnds \subseteq 1 .. AddressSpace - 1
<1>1. /\ WordBytes \in Nat \ {0} /\ WordBits \in Nat \ {0} /\ Entries \in Nat \ {0}
      /\ NFrames \in Nat /\ 1 < NFrames /\ NFrames <= PageSize /\ NFrames % WordBits = 0
      /\ Entries <= NFrames /\ NFrames < Entries * Entries
  BY SizeAssumption
<1>2. \A a, b \in Nat \ {0} : a * b \in Nat \ {0}
  OBVIOUS
<1>3. PageSize \in Nat \ {0} /\ Entries * Entries \in Nat \ {0}
  BY <1>1, <1>2 DEF PageSize
<1>4. AddressSpace = (Entries * Entries) * PageSize
  BY DEF AddressSpace
<1>5. AddressSpace \in Nat \ {0}
  BY <1>2, <1>3, <1>4
<1>6. Words \in Nat /\ NFrames = (Words * WordBits) + (NFrames % WordBits)
  BY <1>1, DivMod DEF Words
<1>7. Words * WordBits \in Nat
  BY <1>1, <1>6
<1>8. KernelEnds \subseteq 1 .. AddressSpace - 1
  BY MemoryAssumption
<1> QED BY <1>1, <1>3, <1>4, <1>5, <1>6, <1>7, <1>8

\* What memory may hold fits its places.
LEMMA Leftover ==
  /\ PointerBits(0) = {} /\ \A a \in Address : PointerBits(a) \subseteq Bits
  /\ \A left \in LeftWords : left \in Bitset
  /\ \A left \in LeftTables : left \in [0 .. Entries - 1 -> Entry]
BY MemoryAssumption DEF Bitset

LEMMA FrameFits ==
  /\ 0 \in Frame
  /\ \A g \in Frame : g \in Nat /\ MapsTo(g) \in Entry
  /\ NoPage \in Entry /\ ~NoPage.present /\ NoPage.frame = 0
<1>1. \A g \in Frame : g \in 0 .. (Entries * Entries) - 1 /\ g \in Nat
  BY Sizes DEF Frame
<1>2. 0 \in Frame
  BY Sizes DEF Frame
<1> QED BY <1>1, <1>2 DEF MapsTo, NoPage, Entry

\* Every frame has its bit.
LEMMA FrameHasBit ==
  ASSUME NEW g \in Frame
  PROVE  g \div WordBits \in 0 .. Words - 1 /\ g % WordBits \in Bits
<1>1. g \in Nat /\ g < Words * WordBits
  BY Sizes DEF Frame
<1>2. g \div WordBits \in 0 .. Words - 1
  BY <1>1, Sizes, DivBelow
<1>3. g % WordBits \in 0 .. WordBits - 1
  BY <1>1, Sizes, DivMod
<1> QED BY <1>2, <1>3 DEF Bits

\* An entry of the directory that is also a word of the bitset is 0 only where the
\* word is empty.
Blank(words, entries) ==
  \A w \in 0 .. Words - 1, t \in 0 .. Entries - 1 :
    SameWord(kernel_directory, w, t) /\ entries[t] = 0 => words[w] = {}

\* set_frame takes its frame and no other.
LEMMA SetFrameTakes ==
  ASSUME NEW words \in Bitset, NEW entries \in Directory, NEW g \in Frame,
         set_frame(g * PageSize, words, entries)
  PROVE  /\ frames' \in Bitset /\ tables' \in Directory
         /\ FreeFrames(frames') = FreeFrames(words) \ {g}
         /\ Blank(words, entries) => Blank(frames', tables')
<1> DEFINE w == g \div WordBits
           b == g % WordBits
           same(t) == SameWord(kernel_directory, w, t)
<1>1. (g * PageSize) \div PageSize = g
  BY Sizes, DivOfMultiple DEF Frame
<1>2. /\ frames' = [words EXCEPT ![w] = @ \cup {b}]
      /\ tables' = [t \in DOMAIN entries |-> IF same(t) THEN Stale ELSE entries[t]]
  BY <1>1 DEF set_frame, INDEX_FROM_BIT, OFFSET_FROM_BIT
<1>3. w \in 0 .. Words - 1 /\ b \in Bits
  BY FrameHasBit
<1>4. Stale # 0
  BY Sizes DEF Stale
<1>5. ASSUME Blank(words, entries), NEW v \in 0 .. Words - 1, NEW t \in 0 .. Entries - 1,
             SameWord(kernel_directory, v, t), tables'[t] = 0
      PROVE  frames'[v] = {}
  <2>1. DOMAIN entries = 0 .. Entries - 1
    BY DEF Directory
  <2>2. ~same(t) /\ entries[t] = 0
    <3> HIDE DEF same
    <3> QED BY <1>2, <1>4, <1>5, <2>1
  <2>3. v # w
    BY <1>5, <2>2
  <2>4. words[v] = {}
    BY <1>5, <2>2 DEF Blank
  <2> HIDE DEF w, b, same
  <2> QED BY <1>2, <2>3, <2>4 DEF Bitset
<1> HIDE DEF w, b, same
<1>6. frames' \in Bitset
  BY <1>2, <1>3 DEF Bitset
<1>7. tables' \in Directory
  BY <1>2 DEF Directory
<1>8. \A h \in Frame : h % WordBits \notin frames'[h \div WordBits]
                         <=> h % WordBits \notin words[h \div WordBits] /\ h # g
  <2> TAKE h \in Frame
  <2>1. h \div WordBits \in 0 .. Words - 1
    BY FrameHasBit
  <2>2. CASE h = g
    BY <1>2, <1>3, <2>1, <2>2 DEF Bitset, w, b
  <2>3. CASE h # g
    <3>1. ~(h \div WordBits = w /\ h % WordBits = b)
      <4>1. g \in Nat /\ h \in Nat /\ WordBits \in Nat \ {0}
        BY Sizes DEF Frame
      <4> QED BY <2>3, <4>1, SamePlace DEF w, b
    <3> QED BY <1>2, <1>3, <2>1, <2>3, <3>1 DEF Bitset
  <2> QED BY <2>2, <2>3
<1>9. FreeFrames(frames') = FreeFrames(words) \ {g}
  BY <1>8 DEF FreeFrames, Frame
<1>10. Blank(words, entries) => Blank(frames', tables')
  BY <1>5 DEF Blank
<1> QED BY <1>6, <1>7, <1>9, <1>10

\* clear_frame, given any number of 20 bits, changes words of the bitset alone.
LEMMA ClearFrameFits ==
  ASSUME frames \in Bitset, NEW g \in 0 .. (Entries * Entries) - 1, clear_frame(g)
  PROVE  /\ frames' \in Bitset
         /\ INDEX_FROM_BIT(g \div PageSize) \in 0 .. Words - 1
<1> DEFINE q == g \div PageSize
<1>1. Entries * Entries <= Entries * PageSize
  <2>1. Entries <= PageSize /\ Entries \in Nat /\ PageSize \in Nat
    BY Sizes
  <2>2. Entries * Entries <= PageSize * Entries /\ PageSize * Entries = Entries * PageSize
    BY <2>1, MulMono
  <2> QED BY <2>2
<1>2. g \in Nat /\ g < Entries * PageSize
  <2>1. Entries * Entries \in Nat /\ Entries * PageSize \in Nat
    BY Sizes
  <2> QED BY <1>1, <2>1
<1>3. q \in 0 .. Entries - 1
  BY <1>2, Sizes, DivBelow
<1> HIDE DEF q
<1>4. q \in Nat /\ q < Words * WordBits
  BY <1>3, Sizes
<1>5. q \div WordBits \in 0 .. Words - 1
  BY <1>4, Sizes, DivBelow
<1>6. frames' = [frames EXCEPT ![q \div WordBits] = @ \ {q % WordBits}]
  BY DEF clear_frame, INDEX_FROM_BIT, OFFSET_FROM_BIT, q
<1> QED BY <1>5, <1>6 DEF Bitset, INDEX_FROM_BIT, q

\* Given the number of a frame of memory, it sets free no other than frame 0.
LEMMA ClearFrameFrees ==
  ASSUME frames \in Bitset, NEW g \in Frame, clear_frame(g)
  PROVE  /\ FreeFrames(frames') \subseteq FreeFrames(frames) \cup {0}
         /\ \A w \in 0 .. Words - 1 : frames[w] = {} => frames'[w] = {}
<1>1. g \div PageSize = 0 /\ 0 \div WordBits = 0 /\ 0 % WordBits = 0
  <2>1. g \in Nat /\ g < PageSize
    BY Sizes DEF Frame
  <2>2. 0 \in Nat /\ 0 < WordBits /\ WordBits \in Nat \ {0}
    BY Sizes
  <2>3. 0 \div WordBits = 0
    BY <2>2, DivOfSmall
  <2>4. 0 % WordBits = 0
    BY <2>2
  <2> QED BY <2>1, <2>3, <2>4, Sizes, DivOfSmall
<1>2. frames' = [frames EXCEPT ![0] = @ \ {0}]
  BY <1>1 DEF clear_frame, INDEX_FROM_BIT, OFFSET_FROM_BIT
<1>3. \A h \in Frame : h % WordBits \notin frames'[h \div WordBits]
                         => h % WordBits \notin frames[h \div WordBits] \/ h = 0
  <2> TAKE h \in Frame
  <2>1. h \div WordBits \in 0 .. Words - 1
    BY FrameHasBit
  <2>2. CASE h # 0
    <3>1. ~(h \div WordBits = 0 /\ h % WordBits = 0)
      <4>1. 0 \in Nat /\ h \in Nat /\ WordBits \in Nat \ {0}
        BY Sizes DEF Frame
      <4> QED BY <1>1, <2>2, <4>1, SamePlace
    <3> QED BY <1>2, <2>1, <3>1 DEF Bitset
  <2> QED BY <2>2
<1>4. \A w \in 0 .. Words - 1 : frames[w] = {} => frames'[w] = {}
  BY <1>2 DEF Bitset
<1> QED BY <1>3, <1>4 DEF FreeFrames, Frame

LEMMA FirstFrameIsFree ==
  ASSUME NEW words
  PROVE  /\ first_frame(words) \in Frame
         /\ first_frame(words) # 0 => first_frame(words) \in FreeFrames(words)
<1>1. FreeFrames(words) \subseteq Frame /\ FreeFrames(words) \subseteq Nat
  BY Sizes DEF FreeFrames, Frame
<1>2. 0 \in Frame
  BY Sizes DEF Frame
<1>3. CASE FreeFrames(words) = {}
  BY <1>2, <1>3 DEF first_frame
<1>4. CASE FreeFrames(words) # {}
  BY <1>1, <1>4, MinIsLeast DEF first_frame
<1> QED BY <1>3, <1>4

-----------------------------------------------------------------------------
(* The pages.                                                              *)

\* Every page's frame is one of memory's.  A present page's frame, unless it is
\* frame 0, is taken and not another page's.
Owned(pg, free) ==
  /\ \A p \in Pages : pg[p].frame \in Frame
  /\ \A p \in Pages : pg[p].present /\ pg[p].frame # 0 => pg[p].frame \notin free
  /\ \A p, q \in Pages :
       p # q /\ pg[p].present /\ pg[q].present /\ pg[p].frame = pg[q].frame
         => pg[p].frame = 0

PagingInv ==
  /\ PTypeOK
  /\ pc \in {"bitset", "directory"} => \A p \in Pages : page[p] = NoPage
  /\ clean => Owned(page, FreeFrames(frames))
  /\ pc \in {"map", "switch", "enabled"} /\ clean => Blank(frames, tables)

\* alloc_frame, on a page of tables that get_page has left so.
LEMMA AllocFits ==
  ASSUME NEW words \in Bitset, NEW entries \in Directory, NEW before \in [Pages -> Entry],
         NEW p \in Pages, alloc_frame(p, before, words, entries)
  PROVE  /\ frames' \in Bitset /\ tables' \in Directory /\ page' \in [Pages -> Entry]
         /\ Blank(words, entries) => Blank(frames', tables')
<1>1. CASE before[p].frame # 0
  BY <1>1 DEF alloc_frame
<1>2. CASE before[p].frame = 0
  <2> DEFINE g == first_frame(words)
  <2>1. set_frame(g * PageSize, words, entries) /\ page' = [before EXCEPT ![p] = MapsTo(g)]
    BY <1>2 DEF alloc_frame
  <2>2. g \in Frame
    BY FirstFrameIsFree
  <2> HIDE DEF g
  <2>3. MapsTo(g) \in Entry
    BY <2>2, FrameFits
  <2>4. page' \in [Pages -> Entry]
    BY <2>1, <2>3
  <2> QED BY <2>1, <2>2, <2>4, SetFrameTakes
<1> QED BY <1>1, <1>2

LEMMA AllocKeeps ==
  ASSUME NEW words \in Bitset, NEW entries \in Directory, NEW before \in [Pages -> Entry],
         NEW p \in Pages, alloc_frame(p, before, words, entries),
         Owned(before, FreeFrames(words))
  PROVE  Owned(page', FreeFrames(frames'))
<1>1. CASE before[p].frame # 0
  <2>1. page' = before /\ frames' = words
    BY <1>1 DEF alloc_frame
  <2> QED BY <2>1
<1>2. CASE before[p].frame = 0
  <2> DEFINE g == first_frame(words)
             e == MapsTo(g)
             free == FreeFrames(words)
             left == FreeFrames(frames')
  <2>1. set_frame(g * PageSize, words, entries) /\ page' = [before EXCEPT ![p] = e]
    BY <1>2 DEF alloc_frame
  <2>2. g \in Frame /\ (g # 0 => g \in free)
    BY FirstFrameIsFree
  <2> HIDE DEF g
  <2>3. left = free \ {g}
    BY <2>1, <2>2, SetFrameTakes
  <2>4. e.present = TRUE /\ e.frame = g
    BY DEF MapsTo
  <2> HIDE DEF e, free, left
  <2>5. \A q \in Pages : page'[q] = IF q = p THEN e ELSE before[q]
    BY <2>1
  <2>6. Owned(before, free)
    BY DEF free
  <2>7. \A q \in Pages : page'[q].frame \in Frame
    BY <2>2, <2>4, <2>5, <2>6 DEF Owned
  <2>8. \A q \in Pages : page'[q].present /\ page'[q].frame # 0 => page'[q].frame \notin left
    BY <2>3, <2>4, <2>5, <2>6 DEF Owned
  <2>9. ASSUME NEW q \in Pages, q # p, before[q].present, before[q].frame = g PROVE g = 0
    BY <2>2, <2>6, <2>9 DEF Owned
  <2>10. \A q, r \in Pages :
          q # r /\ page'[q].present /\ page'[r].present /\ page'[q].frame = page'[r].frame
            => page'[q].frame = 0
    <3> SUFFICES ASSUME NEW q \in Pages, NEW r \in Pages, q # r, page'[q].present,
                        page'[r].present, page'[q].frame = page'[r].frame
                 PROVE  page'[q].frame = 0
      OBVIOUS
    <3>1. CASE q # p /\ r # p
      BY <2>5, <2>6, <3>1 DEF Owned
    <3>2. CASE q = p
      BY <2>4, <2>5, <2>9, <3>2
    <3>3. CASE r = p
      BY <2>4, <2>5, <2>9, <3>3
    <3> QED BY <3>1, <3>2, <3>3
  <2> QED BY <2>7, <2>8, <2>10 DEF Owned, left
<1> QED BY <1>1, <1>2

\* A new table: what memory had left in it, and where memory was zero nothing.
LEMMA NewTableKeeps ==
  ASSUME page \in [Pages -> Entry], NEW t, NEW left \in [0 .. Entries - 1 -> Entry]
  PROVE  /\ WithTable(t, left) \in [Pages -> Entry]
         /\ \A free : Owned(page, free) /\ left = NoPages => Owned(WithTable(t, left), free)
<1>1. DOMAIN page = Pages /\ Pages \subseteq Nat
  BY DEF Pages
<1>2. \A p \in Pages : p % Entries \in 0 .. Entries - 1
  BY <1>1, Sizes
<1> DEFINE fresh == WithTable(t, left)
<1>3. /\ fresh = [p \in Pages |-> fresh[p]]
      /\ \A p \in Pages : fresh[p] = IF TableOf(p) = t THEN left[p % Entries] ELSE page[p]
  BY <1>1 DEF WithTable
<1> HIDE DEF fresh
<1>4. \A p \in Pages : fresh[p] \in Entry
  BY <1>2, <1>3
<1>5. fresh \in [Pages -> Entry]
  BY <1>3, <1>4
<1>6. ASSUME NEW free, Owned(page, free), left = NoPages PROVE Owned(fresh, free)
  <2>1. \A p \in Pages : fresh[p] = page[p] \/ fresh[p] = NoPage
    BY <1>2, <1>3, <1>6 DEF NoPages
  <2>2. \A p \in Pages : fresh[p].frame \in Frame
    BY <1>6, <2>1, FrameFits DEF Owned
  <2>3. \A p \in Pages : fresh[p].present => fresh[p] = page[p]
    BY <2>1, FrameFits
  <2> QED BY <1>6, <2>2, <2>3 DEF Owned
<1> QED BY <1>5, <1>6 DEF fresh

LEMMA OwnedMono ==
  ASSUME NEW pg, NEW free, NEW less, less \subseteq free, Owned(pg, free)
  PROVE  Owned(pg, less)
BY DEF Owned

\* The pointer to a new table takes frames, and frees none.
LEMMA PointerKeeps ==
  ASSUME frames \in Bitset, tables \in Directory, NEW t \in 0 .. Entries - 1, tables[t] = 0,
         NEW at \in Address, kernel_directory \in Address
  PROVE  /\ WithPointer(t, at) \in Bitset
         /\ [tables EXCEPT ![t] = at] \in Directory
         /\ Blank(frames, tables) =>
              /\ FreeFrames(WithPointer(t, at)) \subseteq FreeFrames(frames)
              /\ Blank(WithPointer(t, at), [tables EXCEPT ![t] = at])
<1> DEFINE words == WithPointer(t, at)
           entries == [tables EXCEPT ![t] = at]
           same(w) == SameWord(kernel_directory, w, t)
<1>1. DOMAIN frames = 0 .. Words - 1
  BY DEF Bitset
<1>2. /\ words = [w \in 0 .. Words - 1 |-> words[w]]
      /\ \A w \in 0 .. Words - 1 : words[w] = IF same(w) THEN PointerBits(at) ELSE frames[w]
  BY <1>1 DEF WithPointer
<1>3. /\ \A u \in 0 .. Entries - 1 : entries[u] = IF u = t THEN at ELSE tables[u]
      /\ entries \in Directory
  BY DEF Directory
<1>4. PointerBits(at) \subseteq Bits /\ PointerBits(0) = {}
  BY Leftover
<1>5. \A w \in 0 .. Words - 1, u \in 0 .. Entries - 1 :
        Blank(frames, tables) /\ SameWord(kernel_directory, w, u) /\ tables[u] = 0 => frames[w] = {}
  BY DEF Blank
<1> HIDE DEF words, entries
<1>6. words \in Bitset
  <2> HIDE DEF same
  <2> QED BY <1>2, <1>4 DEF Bitset
<1>7. ASSUME Blank(frames, tables), NEW g \in FreeFrames(words)
      PROVE  g \in FreeFrames(frames)
  <2>1. g \in Frame /\ g % WordBits \notin words[g \div WordBits]
    BY <1>7 DEF FreeFrames, Frame
  <2>2. g \div WordBits \in 0 .. Words - 1
    BY <2>1, FrameHasBit
  <2>3. g % WordBits \notin frames[g \div WordBits]
    BY <1>2, <1>5, <1>7, <2>1, <2>2
  <2> QED BY <2>1, <2>3 DEF FreeFrames, Frame
<1>8. ASSUME Blank(frames, tables), NEW w \in 0 .. Words - 1, NEW u \in 0 .. Entries - 1,
             SameWord(kernel_directory, w, u), entries[u] = 0
      PROVE  words[w] = {}
  <2>1. CASE u = t
    BY <1>2, <1>3, <1>4, <1>8, <2>1
  <2>2. CASE u # t /\ ~same(w)
    BY <1>2, <1>3, <1>5, <1>8, <2>2
  <2>3. CASE u # t /\ same(w)
    <3>1. /\ bitset + w * WordBytes = kernel_directory + u * WordBytes
          /\ bitset + w * WordBytes = kernel_directory + t * WordBytes
      BY <1>8, <2>3 DEF SameWord
    <3>2. /\ WordBytes \in Nat \ {0} /\ kernel_directory \in Nat /\ u \in Nat /\ t \in Nat
      BY Sizes DEF Address
    <3>3. u * WordBytes \in Nat /\ t * WordBytes \in Nat
      BY <3>2
    <3>4. u * WordBytes = t * WordBytes
      BY <3>1, <3>2, <3>3
    <3>5. (u * WordBytes) \div WordBytes = u /\ (t * WordBytes) \div WordBytes = t
      BY <3>2, DivOfMultiple
    <3> QED BY <2>3, <3>4, <3>5
  <2> QED BY <2>1, <2>2, <2>3
<1>9. Blank(frames, tables) => Blank(words, entries)
  BY <1>8 DEF Blank
<1> QED BY <1>3, <1>6, <1>7, <1>9 DEF words, entries

-----------------------------------------------------------------------------
(* The steps.                                                              *)

LEMMA TypesOfState ==
  PTypeOK <=>
    /\ pc \in {"bitset", "directory", "map", "switch", "enabled", "reset", "lost"}
    /\ placement_address \in Address /\ bitset \in Address
    /\ kernel_directory \in Address /\ i \in Address
    /\ frames \in Bitset /\ tables \in Directory
    /\ page \in [Pages -> Entry] /\ clean \in BOOLEAN
BY DEF PTypeOK, Bitset, Directory, Pages

LEMMA TypesOfNextState ==
  PTypeOK' <=>
    /\ pc' \in {"bitset", "directory", "map", "switch", "enabled", "reset", "lost"}
    /\ placement_address' \in Address /\ bitset' \in Address
    /\ kernel_directory' \in Address /\ i' \in Address
    /\ frames' \in Bitset /\ tables' \in Directory
    /\ page' \in [Pages -> Entry] /\ clean' \in BOOLEAN
BY DEF PTypeOK, Bitset, Directory, Pages

LEMMA Wraps ==
  ASSUME NEW a \in Int
  PROVE  a % AddressSpace \in Address
<1>1. AddressSpace \in Nat \ {0}
  BY Sizes
<1>2. a % AddressSpace \in 0 .. AddressSpace - 1
  BY <1>1
<1> QED BY <1>2 DEF Address

LEMMA AlignedIsAddress ==
  ASSUME NEW a \in Address
  PROVE  Aligned(a) \in Address
<1>1. a \in Nat /\ PageSize \in Nat \ {0}
  BY Sizes DEF Address
<1>2. (a - (a % PageSize)) + PageSize \in Int
  BY <1>1
<1> QED BY <1>2, Wraps DEF Aligned

LEMMA KmallocStays ==
  ASSUME NEW c, NEW at \in Address, c.size \in Nat, Kmalloc(c, at)
  PROVE  placement_address' \in Address
<1>1. at + c.size \in Int
  BY Sizes DEF Address
<1> QED BY <1>1, Wraps DEF Kmalloc

LEMMA PageOfAddress ==
  ASSUME NEW a \in Address
  PROVE  /\ a \div PageSize \in Pages
         /\ TableOf(a \div PageSize) \in 0 .. Entries - 1
<1>1. a \in Nat /\ a < (Entries * Entries) * PageSize
  BY Sizes DEF Address
<1>2. a \div PageSize \in 0 .. (Entries * Entries) - 1
  BY <1>1, Sizes, DivBelow
<1> DEFINE p == a \div PageSize
<1>3. p \in Nat /\ p < Entries * Entries
  BY <1>2, Sizes
<1> HIDE DEF p
<1>4. p \div Entries \in 0 .. Entries - 1
  BY <1>3, Sizes, DivBelow
<1> QED BY <1>2, <1>4 DEF p, Pages, TableOf

\* A step that leaves the two pointers alone.
LEMMA InvAfter ==
  ASSUME PTypeOK', pc' \notin {"bitset", "directory"}, UNCHANGED <<bitset, kernel_directory>>,
         clean' => Owned(page', FreeFrames(frames')) /\ Blank(frames', tables')
  PROVE  PagingInv'
<1>1. clean' => Blank(frames, tables)'
  BY DEF Blank, SameWord
<1>2. clean' => Owned(page, FreeFrames(frames))'
  BY DEF Owned, FreeFrames
<1> QED BY <1>1, <1>2 DEF PagingInv

\* What is left of the invariant when nothing but pc changes.
LEMMA InvStays ==
  ASSUME PagingInv, pc \in {"map", "switch", "enabled"},
         pc' \in {"switch", "enabled", "reset", "lost"},
         UNCHANGED <<placement_address, frames, bitset, kernel_directory, tables, page, i, clean>>
  PROVE  PagingInv'
<1>1. PTypeOK'
  BY TypesOfState, TypesOfNextState DEF PagingInv
<1> QED BY <1>1, InvAfter DEF PagingInv

LEMMA InitPaging ==
  ASSUME Init
  PROVE  PagingInv
<1>1. 0 \in Address /\ KernelEnds \subseteq Address
  BY Sizes DEF Address
<1>2. page = [p \in Pages |-> NoPage]
  BY DEF Init, Pages
<1>3. \A p \in Pages : page[p] = NoPage
  BY <1>2
<1>4. frames \in Bitset /\ tables \in Directory /\ clean \in BOOLEAN
  BY <1>1 DEF Init, Bitset, Directory
<1>5. page \in [Pages -> Entry]
  BY <1>2, FrameFits
<1>6. PTypeOK
  BY <1>1, <1>4, <1>5, TypesOfState DEF Init
<1>7. Owned(page, FreeFrames(frames))
  BY <1>3, FrameFits DEF Owned
<1> QED BY <1>3, <1>6, <1>7 DEF PagingInv, Init

LEMMA BitsetStep ==
  ASSUME PagingInv, AllocateBitset
  PROVE  PagingInv'
<1>1. PTypeOK
  BY DEF PagingInv
<1>2. /\ pc' = "directory" /\ page' = page /\ bitset' = placement_address
      /\ kernel_directory' = kernel_directory /\ tables' = tables /\ i' = i
      /\ \A p \in Pages : page[p] = NoPage
  BY DEF AllocateBitset, PagingInv
<1>3. frames' \in Bitset /\ clean' \in BOOLEAN
  <2>1. PICK left \in LeftWords :
          frames' = [w \in 0 .. Words - 1 |-> IF (w + 1) * WordBytes <= Words THEN {} ELSE left[w]]
    BY DEF AllocateBitset
  <2>2. left \in Bitset
    BY Leftover
  <2>3. frames' \in Bitset
    BY <2>1, <2>2 DEF Bitset
  <2>4. clean' = (\A w \in 0 .. Words - 1 : frames'[w] = {})
    BY DEF AllocateBitset
  <2> QED BY <2>3, <2>4
<1>4. placement_address' \in Address
  <2> DEFINE c == [base |-> placement_address, size |-> Words]
  <2>1. Kmalloc(c, placement_address) /\ c.size \in Nat
    BY Sizes DEF AllocateBitset
  <2> HIDE DEF c
  <2> QED BY <1>1, <2>1, KmallocStays, TypesOfState
<1>5. PTypeOK'
  BY <1>1, <1>2, <1>3, <1>4, TypesOfState, TypesOfNextState
<1>6. Owned(page, FreeFrames(frames))'
  BY <1>2, FrameFits DEF Owned
<1> QED BY <1>2, <1>5, <1>6 DEF PagingInv

LEMMA DirectorySizeIsNat == DirectorySize \in Nat
<1>1. \A a, b \in Nat : a * b \in Nat /\ a + b \in Nat
  OBVIOUS
<1>2. 2 * Entries \in Nat
  BY <1>1, Sizes
<1>3. 2 * Entries * WordBytes \in Nat
  BY <1>1, <1>2, Sizes
<1> QED BY <1>1, <1>3, Sizes DEF DirectorySize

LEMMA DirectoryStep ==
  ASSUME PagingInv, AllocateDirectory
  PROVE  PagingInv'
<1>1. PTypeOK
  BY DEF PagingInv
<1> DEFINE at == Aligned(placement_address)
           c  == [base |-> at, size |-> DirectorySize]
           shared == {t \in DOMAIN tables : \E w \in DOMAIN frames : SameWord(at, w, t)}
           taken  == {t \in DOMAIN tables :
                        \E w \in DOMAIN frames : SameWord(at, w, t) /\ frames[w] # {}}
<1>2. /\ pc' = "map" /\ UNCHANGED <<page, bitset, frames, i>>
      /\ kernel_directory' = at /\ Kmalloc(c, at)
      /\ clean' = (clean /\ \A t \in DOMAIN tables : tables'[t] = 0)
  BY DEF AllocateDirectory
<1>3. PICK left \in LeftPointers :
        tables' = [t \in DOMAIN tables |-> IF t \in (left \ shared) \cup taken THEN Stale ELSE 0]
  BY DEF AllocateDirectory
<1>4. frames \in Bitset /\ DOMAIN frames = 0 .. Words - 1 /\ DOMAIN tables = 0 .. Entries - 1
  BY <1>1, TypesOfState DEF Bitset, Directory
<1>5. at \in Address
  BY <1>1, AlignedIsAddress, TypesOfState
<1>6. placement_address' \in Address
  <2>1. c.size \in Nat
    BY DirectorySizeIsNat
  <2> HIDE DEF c, at
  <2> QED BY <1>2, <1>5, <2>1, KmallocStays
<1>7. tables' \in Directory
  <2>1. 0 \in Address
    BY Sizes DEF Address
  <2> HIDE DEF shared, taken
  <2> QED BY <1>3, <1>4, <2>1 DEF Directory
<1>8. ASSUME NEW w \in 0 .. Words - 1, NEW t \in 0 .. Entries - 1, SameWord(at, w, t),
             tables'[t] = 0
      PROVE  frames[w] = {}
  <2>1. Stale # 0
    BY Sizes DEF Stale
  <2>2. t \notin taken
    <3> HIDE DEF shared, taken
    <3> QED BY <1>3, <1>4, <1>8, <2>1
  <2> QED BY <1>4, <1>8, <2>2
<1> HIDE DEF shared, taken
<1>9. Blank(frames, tables)'
  BY <1>2, <1>8 DEF Blank, SameWord
<1> HIDE DEF at, c
<1>10. PTypeOK'
  BY <1>1, <1>2, <1>5, <1>6, <1>7, TypesOfState, TypesOfNextState
<1>11. clean' => Owned(page, FreeFrames(frames))'
  BY <1>2 DEF PagingInv, Owned, FreeFrames
<1> QED BY <1>2, <1>9, <1>10, <1>11 DEF PagingInv

LEMMA MapStep ==
  ASSUME PagingInv, MapPage
  PROVE  PagingInv'
<1>1. PTypeOK /\ pc = "map" /\ (clean => Owned(page, FreeFrames(frames)) /\ Blank(frames, tables))
  BY DEF PagingInv, MapPage
<1> DEFINE p == i \div PageSize
           t == TableOf(p)
           at == Aligned(placement_address)
           c == [base |-> at, size |-> TableSize]
<1>2. /\ p \in Pages /\ t \in 0 .. Entries - 1 /\ at \in Address
      /\ frames \in Bitset /\ tables \in Directory /\ page \in [Pages -> Entry]
      /\ kernel_directory \in Address /\ clean \in BOOLEAN
  BY <1>1, AlignedIsAddress, PageOfAddress, TypesOfState
<1>3. (i + PageSize) % AddressSpace \in Address
  <2>1. i + PageSize \in Int
    BY <1>1, Sizes, TypesOfState DEF Address
  <2> QED BY <2>1, Wraps
<1>4. CASE GoAstray(t)
  BY <1>1, <1>4, InvStays DEF GoAstray
<1>5. CASE /\ tables[t] \notin {0, Stale}
           /\ alloc_frame(p, page, frames, tables)
           /\ i' = NextAddress
           /\ UNCHANGED <<pc, placement_address, bitset, kernel_directory, chunks, clean>>
  <2> HIDE DEF p, t, at, c
  <2>1. /\ frames' \in Bitset /\ tables' \in Directory /\ page' \in [Pages -> Entry]
        /\ Blank(frames, tables) => Blank(frames', tables')
    BY <1>2, <1>5, AllocFits
  <2>2. clean => Owned(page', FreeFrames(frames'))
    BY <1>1, <1>2, <1>5, AllocKeeps
  <2>3. PTypeOK'
    BY <1>1, <1>3, <1>5, <2>1, TypesOfState, TypesOfNextState DEF NextAddress
  <2> QED BY <1>1, <1>5, <2>1, <2>2, <2>3, InvAfter
<1>6. CASE /\ tables[t] = 0
           /\ Kmalloc(c, at)
           /\ \E left \in LeftTables :
                /\ alloc_frame(p, WithTable(t, left), WithPointer(t, at),
                               [tables EXCEPT ![t] = at])
                /\ clean' = (clean /\ left = NoPages)
           /\ i' = NextAddress
           /\ UNCHANGED <<pc, bitset, kernel_directory>>
  <2> DEFINE words == WithPointer(t, at)
             entries == [tables EXCEPT ![t] = at]
  <2>1. PICK left \in LeftTables :
          alloc_frame(p, WithTable(t, left), words, entries) /\ clean' = (clean /\ left = NoPages)
    BY <1>6
  <2>2. placement_address' \in Address
    <3>1. c.size \in Nat
      <4>1. \A a, b \in Nat : a * b \in Nat
        OBVIOUS
      <4> QED BY <4>1, Sizes DEF TableSize
    <3> HIDE DEF c, at
    <3> QED BY <1>2, <1>6, <3>1, KmallocStays
  <2> DEFINE fresh == WithTable(t, left)
  <2> HIDE DEF p, t, at, c
  <2>3. fresh \in [Pages -> Entry] /\ left \in [0 .. Entries - 1 -> Entry]
    BY <1>2, Leftover, NewTableKeeps
  <2>4. /\ words \in Bitset /\ entries \in Directory
        /\ Blank(frames, tables) =>
             FreeFrames(words) \subseteq FreeFrames(frames) /\ Blank(words, entries)
    BY <1>2, <1>6, PointerKeeps
  <2>5. clean' => Owned(fresh, FreeFrames(frames))
    BY <1>1, <1>2, <2>1, <2>3, NewTableKeeps
  <2> HIDE DEF words, entries, fresh
  <2>6. /\ frames' \in Bitset /\ tables' \in Directory /\ page' \in [Pages -> Entry]
        /\ Blank(words, entries) => Blank(frames', tables')
    BY <1>2, <2>1, <2>3, <2>4, AllocFits DEF fresh
  <2>7. clean' => Owned(fresh, FreeFrames(words))
    BY <1>1, <2>1, <2>4, <2>5, OwnedMono
  <2>8. clean' => Owned(page', FreeFrames(frames'))
    BY <1>2, <2>1, <2>3, <2>4, <2>7, AllocKeeps DEF fresh
  <2>9. clean' \in BOOLEAN
    BY <2>1
  <2>10. PTypeOK'
    BY <1>1, <1>3, <1>6, <2>2, <2>6, <2>9, TypesOfState, TypesOfNextState DEF NextAddress
  <2> QED BY <1>1, <1>6, <2>1, <2>4, <2>6, <2>8, <2>10, InvAfter
<1> QED BY <1>4, <1>5, <1>6 DEF MapPage

LEMMA RegisterStep ==
  ASSUME PagingInv, RegisterPageFault
  PROVE  PagingInv'
BY InvStays DEF RegisterPageFault

LEMMA EnableTo ==
  ASSUME EnablePaging
  PROVE  pc' \in {"enabled", "reset", "lost"}
BY DEF EnablePaging

LEMMA EnableStep ==
  ASSUME PagingInv, EnablePaging
  PROVE  PagingInv'
BY EnableTo, InvStays DEF EnablePaging

LEMMA AllocFrameStep ==
  ASSUME PagingInv, NEW p \in Pages, AllocFrame(p)
  PROVE  PagingInv'
<1>1. PTypeOK /\ pc = "enabled" /\ (clean => Owned(page, FreeFrames(frames)) /\ Blank(frames, tables))
  BY DEF PagingInv, AllocFrame
<1>2. CASE GoAstray(TableOf(p))
  BY <1>1, <1>2, InvStays DEF GoAstray
<1>3. CASE /\ alloc_frame(p, page, frames, tables)
           /\ UNCHANGED <<pc, placement_address, bitset, kernel_directory, i, chunks, clean>>
  <2>1. frames \in Bitset /\ tables \in Directory /\ page \in [Pages -> Entry]
    BY <1>1, TypesOfState
  <2>2. /\ frames' \in Bitset /\ tables' \in Directory /\ page' \in [Pages -> Entry]
        /\ Blank(frames, tables) => Blank(frames', tables')
    BY <1>3, <2>1, AllocFits
  <2>3. clean => Owned(page', FreeFrames(frames'))
    BY <1>1, <1>3, <2>1, AllocKeeps
  <2>4. PTypeOK'
    BY <1>1, <1>3, <2>2, TypesOfState, TypesOfNextState
  <2> QED BY <1>1, <1>3, <2>2, <2>3, <2>4, InvAfter
<1> QED BY <1>2, <1>3 DEF AllocFrame

\* The bit that free_frame clears is frame 0's, which may be shared; the page has
\* frame 0 from then on.
LEMMA FreeFrameStep ==
  ASSUME PagingInv, NEW p \in Pages, FreeFrame(p)
  PROVE  PagingInv'
<1>1. /\ PTypeOK /\ pc = "enabled"
      /\ clean => Owned(page, FreeFrames(frames)) /\ Blank(frames, tables)
  BY DEF PagingInv, FreeFrame
<1>2. /\ page \in [Pages -> Entry] /\ frames \in Bitset /\ page[p] \in Entry
      /\ DOMAIN frames = 0 .. Words - 1
  BY <1>1, TypesOfState DEF Bitset
<1>3. CASE GoAstray(TableOf(p))
  BY <1>1, <1>3, InvStays DEF GoAstray
<1>4. CASE /\ page[p].frame = 0 /\ UNCHANGED <<frames, page>>
           /\ UNCHANGED <<pc, placement_address, bitset, kernel_directory, tables, i, clean>>
  <2>1. PTypeOK'
    BY <1>1, <1>4, TypesOfState, TypesOfNextState
  <2> QED BY <1>1, <1>4, <2>1, InvAfter
<1>5. CASE /\ page[p].frame # 0
           /\ clear_frame(page[p].frame) /\ page' = [page EXCEPT ![p].frame = 0]
           /\ UNCHANGED <<pc, placement_address, bitset, kernel_directory, tables, i, clean>>
  <2>1. page[p].frame \in 0 .. (Entries * Entries) - 1
    BY <1>2 DEF Entry
  <2>2. frames' \in Bitset
    BY <1>2, <1>5, <2>1, ClearFrameFits
  <2> DEFINE e == [page[p] EXCEPT !.frame = 0]
  <2>3. e \in Entry /\ e.frame = 0
    <3>1. 0 \in 0 .. (Entries * Entries) - 1
      BY Sizes
    <3> QED BY <1>2, <3>1 DEF Entry
  <2>4. page' = [page EXCEPT ![p] = e]
    BY <1>2, <1>5
  <2> HIDE DEF e
  <2>5. page' \in [Pages -> Entry]
    BY <1>2, <2>3, <2>4
  <2>6. \A q \in Pages : page'[q] = IF q = p THEN e ELSE page[q]
    BY <1>2, <2>4
  <2>7. ASSUME clean
        PROVE  Owned(page', FreeFrames(frames')) /\ Blank(frames', tables)
    <3>1. page[p].frame \in Frame /\ 0 \in Frame
      BY <1>1, <2>7, FrameFits DEF Owned
    <3>2. /\ FreeFrames(frames') \subseteq FreeFrames(frames) \cup {0}
          /\ \A w \in 0 .. Words - 1 : frames[w] = {} => frames'[w] = {}
      BY <1>2, <1>5, <3>1, ClearFrameFrees
    <3>3. Owned(page', FreeFrames(frames'))
      <4> DEFINE free == FreeFrames(frames)
                 more == FreeFrames(frames')
      <4>1. more \subseteq free \cup {0} /\ Owned(page, free)
        BY <1>1, <2>7, <3>2
      <4> HIDE DEF free, more
      <4> QED BY <2>3, <2>6, <3>1, <4>1 DEF Owned, more
    <3>4. Blank(frames', tables)
      BY <1>1, <2>7, <3>2 DEF Blank
    <3> QED BY <3>3, <3>4
  <2>8. PTypeOK'
    BY <1>1, <1>5, <2>2, <2>5, TypesOfState, TypesOfNextState
  <2> QED BY <1>1, <1>5, <2>7, <2>8, InvAfter
<1> QED BY <1>3, <1>4, <1>5 DEF FreeFrame

LEMMA PagingStep ==
  ASSUME PagingInv, [Next]_vars
  PROVE  PagingInv'
<1>1. UserPages \subseteq Pages
  <2>1. DOMAIN page = Pages
    BY TypesOfState DEF PagingInv
  <2> QED BY <2>1 DEF UserPages
<1>2. CASE UNCHANGED vars
  <2>1. PTypeOK'
    BY <1>2, TypesOfState, TypesOfNextState DEF vars, PagingInv
  <2> QED BY <1>2, <2>1 DEF vars, PagingInv, Owned, FreeFrames, Blank, SameWord
<1>3. CASE InitialisePaging
  BY <1>3, BitsetStep, DirectoryStep, MapStep, RegisterStep, EnableStep DEF InitialisePaging
<1>4. ASSUME NEW p \in UserPages, AllocFrame(p) \/ FreeFrame(p) PROVE PagingInv'
  BY <1>1, <1>4, AllocFrameStep, FreeFrameStep
<1> QED BY <1>2, <1>3, <1>4 DEF Next, Stopped

LEMMA PagingInvHolds == Spec => []PagingInv
<1>1. Init => PagingInv
  BY InitPaging
<1>2. PagingInv /\ [Next]_vars => PagingInv'
  BY PagingStep
<1> QED BY <1>1, <1>2, PTL DEF Spec

\* Whatever memory held: the addresses stay in the address space, every index the
\* bitset is used with is one of its words and every page has a frame of 20 bits.
THEOREM PagingTypeCorrect == Spec => []PTypeOK
<1>1. PagingInv => PTypeOK
  BY DEF PagingInv
<1> QED BY <1>1, PagingInvHolds, PTL

\* In memory that was zero alloc_frame gives no page a frame that another page has,
\* but frame 0, however often free_frame clears the wrong bit, and also where words
\* of the bitset are entries of the directory.
THEOREM FramesAreNotShared == Spec => []OnlyFrameZeroIsShared
<1>1. PagingInv => OnlyFrameZeroIsShared
  <2>1. PagingInv => DOMAIN page = Pages
    BY TypesOfState DEF PagingInv
  <2> QED BY <2>1 DEF PagingInv, Owned, OnlyFrameZeroIsShared
<1> QED BY <1>1, PagingInvHolds, PTL

-----------------------------------------------------------------------------
(* Where memory suffices.                                                  *)

\* Memory holds the kernel, the bitset, the directory and all the tables there can
\* be, each with the rest of a page; and the bitset, which is WordBytes as long as
\* what kmalloc was asked for, ends before the directory begins.
Room ==
  \A e \in KernelEnds :
    /\ e + Words + WordBytes + 4 * PageSize + Entries * PageSize <= NFrames * PageSize
    /\ e + Words * WordBytes <= Aligned(e + Words)

\* No word of the bitset is an entry of the directory.
Separate ==
  \A w \in 0 .. Words - 1, t \in 0 .. Entries - 1 : ~SameWord(kernel_directory, w, t)

\* The pages before page k are mapped to themselves.
Behind(pg, k) == \A p \in Pages : p < k => pg[p] = MapsTo(p)

\* Those from k on are still to come, and so are their frames.
Ahead(pg, free, k) ==
  /\ \A p \in Pages : p >= k => pg[p] = NoPage
  /\ free = {g \in Frame : g >= k}

\* k pages are mapped, with m tables.
Mapped(k, m) ==
  /\ i = k * PageSize
  /\ k <= m * Entries /\ (m > 0 => (m - 1) * Entries < k)
  /\ \A t \in 0 .. Entries - 1 : tables[t] \in {0, Stale} <=> t >= m
  /\ clean => Behind(page, k)
  /\ pc \in {"bitset", "directory", "map"} /\ clean => Ahead(page, FreeFrames(frames), k)
  /\ pc \in {"switch", "enabled"} => placement_address <= i

\* m tables behind the kernel's end e.
Placed(e, m) ==
  /\ pc = "bitset" => m = 0 /\ placement_address = e
  /\ pc = "directory" => m = 0 /\ placement_address = e + Words /\ bitset = e
  /\ pc \notin {"bitset", "directory"} =>
       /\ m = 0 => placement_address < e + Words + WordBytes + 3 * PageSize
       /\ m > 0 => /\ placement_address % PageSize = 0
                   /\ placement_address < e + Words + WordBytes + 4 * PageSize + m * PageSize

ChunksInv ==
  /\ \A c \in chunks : c.base \in Nat /\ c.size \in Nat /\ c.base + c.size <= placement_address
  /\ \A c, d \in chunks : c # d => c.base + c.size <= d.base \/ d.base + d.size <= c.base
  /\ \A t \in 0 .. Entries - 1 : tables[t] # Stale => tables[t] % PageSize = 0
  /\ kernel_directory % PageSize = 0

RoomInv ==
  /\ PagingInv
  /\ placement_address > 0 /\ (pc = "bitset" => clean)
  /\ ChunksInv
  /\ pc \notin {"bitset", "directory"} => Separate
  /\ \E e \in KernelEnds, k \in Nat, m \in 0 .. Entries : Placed(e, m) /\ Mapped(k, m)

-----------------------------------------------------------------------------

LEMMA ModSmall ==
  ASSUME NEW a \in Nat, NEW b \in Nat \ {0}, a < b
  PROVE  a % b = a
OBVIOUS

LEMMA ModOfMultiple ==
  ASSUME NEW a \in Nat, NEW b \in Nat \ {0}
  PROVE  (a * b) % b = 0
<1>1. a * b \in Nat /\ (a * b) \div b = a
  BY DivOfMultiple
<1>2. a * b = (((a * b) \div b) * b) + ((a * b) % b) /\ (a * b) % b \in 0 .. b - 1
  BY <1>1, DivMod
<1>3. a * b = (a * b) + ((a * b) % b)
  BY <1>1, <1>2
<1> QED BY <1>1, <1>2, <1>3

\* Aligned rounds up to the next page.
LEMMA AlignedRounds ==
  ASSUME NEW a \in Nat, a + PageSize < AddressSpace
  PROVE  /\ Aligned(a) \in Nat /\ Aligned(a) % PageSize = 0
         /\ a <= Aligned(a) /\ Aligned(a) < a + PageSize
         /\ a % PageSize = 0 => Aligned(a) = a
<1>1. CASE a % PageSize = 0
  BY <1>1, Sizes DEF Aligned
<1>2. CASE a % PageSize # 0
  <2> DEFINE q == a \div PageSize
             r == a % PageSize
  <2>1. q \in Nat /\ r \in 0 .. PageSize - 1 /\ a = (q * PageSize) + r
    BY Sizes, DivMod
  <2> HIDE DEF q, r
  <2>2. (a - r) + PageSize = (q + 1) * PageSize /\ q * PageSize \in Nat
    <3>1. PageSize \in Nat
      BY Sizes
    <3>2. (q + 1) * PageSize = (q * PageSize) + PageSize /\ q * PageSize \in Nat
      BY <2>1, <3>1
    <3> QED BY <2>1, <3>1, <3>2
  <2>3. (a - r) + PageSize \in Nat /\ (a - r) + PageSize <= a + PageSize
    BY <2>1, <2>2, Sizes
  <2>4. ((a - r) + PageSize) % AddressSpace = (a - r) + PageSize
    BY <2>3, Sizes, ModSmall
  <2>5. Aligned(a) = (a - r) + PageSize
    BY <1>2, <2>4 DEF Aligned, r
  <2>6. ((q + 1) * PageSize) % PageSize = 0
    BY <2>1, Sizes, ModOfMultiple
  <2>7. r # 0
    BY <1>2 DEF r
  <2> QED BY <1>2, <2>1, <2>2, <2>3, <2>5, <2>6, <2>7, Sizes
<1> QED BY <1>1, <1>2

\* A chunk behind the others leaves them alone.
LEMMA KmallocSound ==
  ASSUME ChunksInv, placement_address \in Nat, NEW c, NEW at \in Nat, c.size \in Nat,
         placement_address <= at, at + c.size < AddressSpace, Kmalloc(c, at)
  PROVE  /\ placement_address' = at + c.size
         /\ \A d \in chunks' :
              d.base \in Nat /\ d.size \in Nat /\ d.base + d.size <= placement_address'
         /\ \A d, f \in chunks' :
              d # f => d.base + d.size <= f.base \/ f.base + f.size <= d.base
<1>1. c.base = at /\ chunks' = chunks \cup {c} /\ placement_address' = at + c.size
  BY Sizes, ModSmall DEF Kmalloc
<1>2. \A d \in chunks :
        d.base \in Nat /\ d.size \in Nat /\ d.base + d.size <= at
  BY DEF ChunksInv
<1>3. \A d \in chunks' :
        d.base \in Nat /\ d.size \in Nat /\ d.base + d.size <= placement_address'
  BY <1>1, <1>2
<1>4. \A d, f \in chunks' : d # f => d.base + d.size <= f.base \/ f.base + f.size <= d.base
  BY <1>1, <1>2 DEF ChunksInv
<1> QED BY <1>1, <1>3, <1>4

LEMMA FirstOfUpper ==
  ASSUME NEW words, NEW k \in Frame, FreeFrames(words) = {g \in Frame : g >= k}
  PROVE  first_frame(words) = k
<1> DEFINE free == FreeFrames(words)
<1>1. free \subseteq Nat /\ k \in free /\ k \in Nat
  BY Sizes DEF Frame
<1>2. Min(free) \in free /\ Min(free) <= k
  <2> HIDE DEF free
  <2> QED BY <1>1, MinIsLeast
<1>3. Min(free) \in Nat /\ Min(free) >= k
  BY <1>1, <1>2
<1> QED BY <1>1, <1>2, <1>3 DEF first_frame

\* Where no word is an entry, set_frame leaves the directory alone and a pointer to
\* a new table leaves the bitset.
LEMMA SeparateStays ==
  ASSUME Separate, NEW words, NEW entries \in Directory, NEW before, NEW p,
         alloc_frame(p, before, words, entries)
  PROVE  tables' = entries
<1>1. CASE before[p].frame # 0
  BY <1>1 DEF alloc_frame
<1>2. CASE before[p].frame = 0
  <2> DEFINE g == first_frame(words)
             w == g \div WordBits
  <2>1. g \in Frame
    BY FirstFrameIsFree
  <2> HIDE DEF g
  <2>2. (g * PageSize) \div PageSize = g /\ w \in 0 .. Words - 1
    <3>1. g \in Nat /\ PageSize \in Nat \ {0}
      BY <2>1, Sizes DEF Frame
    <3>2. (g * PageSize) \div PageSize = g
      BY <3>1, DivOfMultiple
    <3> QED BY <2>1, <3>2, FrameHasBit
  <2>3. set_frame(g * PageSize, words, entries)
    BY <1>2 DEF alloc_frame, g
  <2>4. tables' = [t \in DOMAIN entries |->
                     IF SameWord(kernel_directory, w, t) THEN Stale ELSE entries[t]]
    BY <2>2, <2>3 DEF set_frame, INDEX_FROM_BIT
  <2> HIDE DEF w
  <2>5. \A t \in DOMAIN entries : ~SameWord(kernel_directory, w, t)
    BY <2>2 DEF Separate, Directory
  <2>6. tables' = [t \in DOMAIN entries |-> entries[t]]
    BY <2>4, <2>5
  <2> QED BY <2>6 DEF Directory
<1> QED BY <1>1, <1>2

LEMMA PointerIsElsewhere ==
  ASSUME Separate, frames \in Bitset, NEW t \in 0 .. Entries - 1, NEW at
  PROVE  WithPointer(t, at) = frames
<1>1. \A w \in 0 .. Words - 1 : ~SameWord(kernel_directory, w, t)
  BY DEF Separate
<1>2. WithPointer(t, at) = [w \in 0 .. Words - 1 |-> frames[w]]
  BY <1>1 DEF WithPointer, Bitset
<1> QED BY <1>2 DEF Bitset

\* alloc_frame maps the next page to its own frame.
LEMMA AllocMaps ==
  ASSUME NEW words \in Bitset, NEW entries \in Directory, NEW before \in [Pages -> Entry],
         NEW k \in Frame, k \in Pages, Behind(before, k), Ahead(before, FreeFrames(words), k),
         alloc_frame(k, before, words, entries)
  PROVE  Behind(page', k + 1) /\ Ahead(page', FreeFrames(frames'), k + 1)
<1> DEFINE free == FreeFrames(words)
           left == FreeFrames(frames')
<1>1. k \in Nat /\ Pages \subseteq Nat /\ Frame \subseteq Nat
  BY Sizes DEF Frame, Pages
<1>2. before[k].frame = 0
  BY <1>1, FrameFits DEF Ahead
<1>3. first_frame(words) = k
  BY FirstOfUpper DEF Ahead
<1>4. set_frame(k * PageSize, words, entries) /\ page' = [before EXCEPT ![k] = MapsTo(k)]
  BY <1>2, <1>3 DEF alloc_frame
<1>5. left = free \ {k} /\ free = {h \in Frame : h >= k}
  BY <1>4, SetFrameTakes DEF Ahead
<1> HIDE DEF left, free
<1>6. \A p \in Pages : page'[p] = IF p = k THEN MapsTo(k) ELSE before[p]
  BY <1>4
<1>7. Behind(page', k + 1)
  <2> SUFFICES ASSUME NEW p \in Pages, p < k + 1
               PROVE  page'[p] = MapsTo(p)
    BY DEF Behind
  <2>1. CASE p = k
    BY <1>6, <2>1
  <2>2. CASE p # k
    <3>1. p < k /\ page'[p] = before[p]
      BY <1>1, <1>6, <2>2
    <3> QED BY <3>1 DEF Behind
  <2> QED BY <2>1, <2>2
<1>8. left = {h \in Frame : h >= k + 1}
  <2>1. \A h \in Frame : h >= k + 1 <=> h >= k /\ h # k
    BY <1>1
  <2> QED BY <1>5, <2>1
<1>9. \A p \in Pages : p >= k + 1 => page'[p] = NoPage
  <2>1. \A p \in Pages : p >= k => before[p] = NoPage
    BY DEF Ahead
  <2>2. \A p \in Pages : p >= k + 1 => p >= k /\ p # k
    BY <1>1
  <2> QED BY <1>6, <2>1, <2>2
<1> QED BY <1>7, <1>8, <1>9 DEF Ahead, left

\* A table made for the next page disturbs none of those before it.
LEMMA NewTableAhead ==
  ASSUME page \in [Pages -> Entry], NEW k \in Nat, NEW t \in Nat, k = t * Entries,
         NEW free, Behind(page, k), Ahead(page, free, k)
  PROVE  Behind(WithTable(t, NoPages), k) /\ Ahead(WithTable(t, NoPages), free, k)
<1> DEFINE fresh == WithTable(t, NoPages)
<1>1. DOMAIN page = Pages /\ Pages \subseteq Nat
  BY DEF Pages
<1>2. \A p \in Pages : TableOf(p) = t => p >= k
  <2> SUFFICES ASSUME NEW p \in Pages, TableOf(p) = t PROVE p >= k
    OBVIOUS
  <2>1. p = ((p \div Entries) * Entries) + (p % Entries) /\ p % Entries \in 0 .. Entries - 1
    BY <1>1, Sizes, DivMod
  <2> QED BY <1>1, <2>1, Sizes DEF TableOf
<1>3. \A p \in Pages : p % Entries \in 0 .. Entries - 1
  BY <1>1, Sizes
<1>4. \A p \in Pages : fresh[p] = IF TableOf(p) = t THEN NoPage ELSE page[p]
  BY <1>1, <1>3 DEF WithTable, NoPages
<1> HIDE DEF fresh
<1>5. Behind(fresh, k)
  <2> SUFFICES ASSUME NEW p \in Pages, p < k PROVE fresh[p] = page[p]
    BY DEF Behind
  <2>1. TableOf(p) # t
    BY <1>1, <1>2
  <2> QED BY <1>4, <2>1
<1>6. Ahead(fresh, free, k)
  BY <1>4 DEF Ahead
<1> QED BY <1>5, <1>6 DEF fresh

LEMMA RoomFacts ==
  ASSUME Room
  PROVE  /\ NFrames * PageSize \in Nat /\ Entries * PageSize \in Nat
         /\ NFrames * PageSize + PageSize <= AddressSpace
         /\ \A m \in 0 .. Entries : m * PageSize \in Nat /\ m * PageSize <= Entries * PageSize
         /\ Frame \subseteq Pages
<1>1. NFrames \in Nat /\ PageSize \in Nat /\ Entries \in Nat /\ Entries * Entries \in Nat
  BY Sizes
<1>2. (NFrames + 1) * PageSize <= (Entries * Entries) * PageSize
  BY <1>1, Sizes, MulMono
<1>3. (NFrames + 1) * PageSize = NFrames * PageSize + PageSize
  BY <1>1
<1>4. \A a, b \in Nat : a * b \in Nat
  OBVIOUS
<1>5. \A m \in 0 .. Entries : m * PageSize \in Nat /\ m * PageSize <= Entries * PageSize
  BY <1>1, <1>4, MulMono
<1>6. Frame \subseteq Pages
  BY <1>1, Sizes DEF Frame, Pages
<1> QED BY <1>1, <1>2, <1>3, <1>4, <1>5, <1>6, Sizes

\* The page that MapPage comes to: its table is the last one or the next.
LEMMA NextTable ==
  ASSUME NEW k \in Nat, NEW m \in Nat, k <= m * Entries, m > 0 => (m - 1) * Entries < k
  PROVE  /\ k \div Entries < m => k + 1 <= m * Entries
         /\ k \div Entries >= m => k = m * Entries /\ k \div Entries = m
         /\ (m + 1) * Entries = m * Entries + Entries /\ m * Entries \in Nat
<1> DEFINE t == k \div Entries
           r == k % Entries
<1>1. t \in Nat /\ r \in 0 .. Entries - 1 /\ k = (t * Entries) + r
  BY Sizes, DivMod
<1>2. (m * Entries) \div Entries = m /\ m * Entries \in Nat
  BY Sizes, DivOfMultiple
<1> HIDE DEF t, r
<1>3. t + 1 <= m => (t + 1) * Entries <= m * Entries
  BY <1>1, Sizes, MulMono
<1>4. (t + 1) * Entries = (t * Entries) + Entries /\ t * Entries \in Nat
  BY <1>1, Sizes
<1>5. t < m => k + 1 <= m * Entries
  BY <1>1, <1>2, <1>3, <1>4, Sizes
<1>6. m <= t => m * Entries <= t * Entries
  BY <1>1, Sizes, MulMono
<1>7. t >= m => k = m * Entries
  BY <1>1, <1>2, <1>4, <1>6, Sizes
<1>8. t >= m => t = m
  BY <1>2, <1>7 DEF t
<1>9. (m + 1) * Entries = m * Entries + Entries
  BY Sizes
<1> QED BY <1>2, <1>5, <1>7, <1>8, <1>9 DEF t

-----------------------------------------------------------------------------
(* The steps, where there is room.                                         *)

LEMMA RoomForKernel ==
  ASSUME Room, NEW e \in KernelEnds, NEW m \in 0 .. Entries
  PROVE  /\ e \in Nat /\ e > 0 /\ m * PageSize \in Nat
         /\ e + Words + WordBytes + 4 * PageSize + m * PageSize <= NFrames * PageSize
         /\ NFrames * PageSize \in Nat
         /\ NFrames * PageSize + PageSize <= AddressSpace
<1>1. e \in 1 .. AddressSpace - 1
  BY Sizes
<1>2. e + Words + WordBytes + 4 * PageSize + Entries * PageSize <= NFrames * PageSize
  BY DEF Room
<1>3. m * PageSize \in Nat /\ m * PageSize <= Entries * PageSize
      /\ Entries * PageSize \in Nat /\ NFrames * PageSize \in Nat
      /\ NFrames * PageSize + PageSize <= AddressSpace
  BY RoomFacts
<1> QED BY <1>1, <1>2, <1>3, Sizes

LEMMA InitRoom ==
  ASSUME Room, Init
  PROVE  RoomInv
<1>1. PagingInv
  BY InitPaging
<1> DEFINE e == placement_address
<1>2. e \in KernelEnds /\ e > 0 /\ clean = TRUE /\ pc = "bitset"
  BY Sizes DEF Init
<1>3. page = [p \in Pages |-> NoPage] /\ tables = [t \in 0 .. Entries - 1 |-> 0]
      /\ frames = [w \in 0 .. Words - 1 |-> {}] /\ chunks = {} /\ kernel_directory = 0 /\ i = 0
  BY DEF Init, Pages
<1>4. Pages \subseteq Nat /\ Frame \subseteq Nat
  BY Sizes DEF Pages, Frame
<1>5. FreeFrames(frames) = {g \in Frame : g >= 0}
  <2>1. \A g \in Frame : frames[g \div WordBits] = {}
    BY <1>3, FrameHasBit
  <2> QED BY <1>4, <2>1 DEF FreeFrames, Frame
<1>6. Behind(page, 0)
  BY <1>4 DEF Behind
<1>7. Ahead(page, FreeFrames(frames), 0)
  BY <1>3, <1>5 DEF Ahead
<1>8. Placed(e, 0)
  BY <1>2 DEF Placed
<1>9. Mapped(0, 0)
  <2>1. 0 * PageSize = 0 /\ 0 <= 0 * Entries
    BY Sizes
  <2>2. \A t \in 0 .. Entries - 1 : tables[t] \in {0, Stale} <=> t >= 0
    BY <1>3
  <2>3. pc \notin {"switch", "enabled"} /\ i = 0 * PageSize
    BY <1>2, <1>3, <2>1
  <2> QED BY <1>6, <1>7, <2>1, <2>2, <2>3 DEF Mapped
<1>10. ChunksInv
  <2>1. 0 % PageSize = 0
    BY Sizes
  <2> QED BY <1>3, <2>1 DEF ChunksInv
<1>11. 0 \in Nat /\ 0 \in 0 .. Entries
  BY Sizes
<1> QED BY <1>1, <1>2, <1>8, <1>9, <1>10, <1>11 DEF RoomInv

LEMMA BitsetRoom ==
  ASSUME Room, RoomInv, AllocateBitset
  PROVE  RoomInv'
<1>1. PagingInv /\ PagingInv' /\ placement_address \in Nat /\ ChunksInv
  BY BitsetStep, TypesOfState DEF RoomInv, PagingInv, Address
<1>2. /\ pc = "bitset" /\ pc' = "directory" /\ page' = page /\ kernel_directory' = kernel_directory
      /\ tables' = tables /\ i' = i /\ bitset' = placement_address
      /\ clean' = (\A w \in 0 .. Words - 1 : frames'[w] = {})
  BY DEF AllocateBitset
<1>3. PICK e \in KernelEnds, k \in Nat, m \in 0 .. Entries : Placed(e, m) /\ Mapped(k, m)
  BY DEF RoomInv
<1>4. m = 0 /\ placement_address = e /\ k = 0
  <2>1. m = 0 /\ placement_address = e
    BY <1>2, <1>3 DEF Placed
  <2>2. k <= 0 * Entries /\ 0 * Entries = 0
    BY <1>3, <2>1, Sizes DEF Mapped
  <2> QED BY <2>1, <2>2
<1>5. /\ placement_address' = e + Words
      /\ \A d \in chunks' :
           d.base \in Nat /\ d.size \in Nat /\ d.base + d.size <= placement_address'
      /\ \A d, f \in chunks' : d # f => d.base + d.size <= f.base \/ f.base + f.size <= d.base
  <2> DEFINE c == [base |-> placement_address, size |-> Words]
  <2>1. Kmalloc(c, placement_address) /\ c.size = Words
    BY DEF AllocateBitset
  <2>2. Words \in Nat /\ placement_address + Words < AddressSpace
    BY <1>4, RoomForKernel, Sizes
  <2> HIDE DEF c
  <2> QED BY <1>1, <1>4, <2>1, <2>2, KmallocSound
<1>6. ChunksInv'
  BY <1>1, <1>2, <1>5 DEF ChunksInv
<1>7. Pages \subseteq Nat /\ Frame \subseteq Nat
  BY Sizes DEF Pages, Frame
<1>8. clean' => FreeFrames(frames') = {g \in Frame : g >= 0}
  <2> SUFFICES ASSUME clean' PROVE FreeFrames(frames') = {g \in Frame : g >= 0}
    OBVIOUS
  <2>1. \A g \in Frame : frames'[g \div WordBits] = {}
    BY <1>2, FrameHasBit
  <2> QED BY <1>7, <2>1 DEF FreeFrames, Frame
<1>9. \A p \in Pages : page[p] = NoPage
  BY <1>1, <1>2 DEF PagingInv
<1>10. Behind(page', 0) /\ (clean' => Ahead(page', FreeFrames(frames'), 0))
  <2>1. \A p \in Pages : ~(p < 0) /\ page'[p] = NoPage
    BY <1>2, <1>7, <1>9
  <2> QED BY <1>8, <2>1 DEF Behind, Ahead
<1>11. Mapped(k, m)'
  BY <1>2, <1>3, <1>4, <1>10 DEF Mapped, Behind, Ahead, FreeFrames
<1>12. Placed(e, m)'
  BY <1>2, <1>4, <1>5 DEF Placed
<1>13. placement_address' > 0
  BY <1>4, <1>5, RoomForKernel, Sizes
<1> QED BY <1>1, <1>2, <1>6, <1>11, <1>12, <1>13 DEF RoomInv

LEMMA DirectoryRoom ==
  ASSUME Room, RoomInv, AllocateDirectory
  PROVE  RoomInv'
<1> DEFINE at == Aligned(placement_address)
           c  == [base |-> at, size |-> DirectorySize]
<1>1. PagingInv /\ PagingInv' /\ placement_address \in Nat /\ ChunksInv
  BY DirectoryStep, TypesOfState DEF RoomInv, PagingInv, Address
<1>2. /\ pc = "directory" /\ pc' = "map" /\ page' = page /\ kernel_directory' = at
      /\ i' = i /\ frames' = frames /\ bitset' = bitset /\ (clean' => clean)
      /\ Kmalloc(c, at) /\ c.size = DirectorySize
  BY DEF AllocateDirectory
<1>3. tables' \in [0 .. Entries - 1 -> {0, Stale}]
  <2> DEFINE shared == {t \in DOMAIN tables : \E w \in DOMAIN frames : SameWord(at, w, t)}
             taken  == {t \in DOMAIN tables :
                          \E w \in DOMAIN frames : SameWord(at, w, t) /\ frames[w] # {}}
  <2>1. PICK left \in LeftPointers :
          tables' = [t \in DOMAIN tables |-> IF t \in (left \ shared) \cup taken THEN Stale ELSE 0]
    BY DEF AllocateDirectory
  <2>2. DOMAIN tables = 0 .. Entries - 1
    BY <1>1, TypesOfState DEF PagingInv, Directory
  <2> HIDE DEF shared, taken
  <2> QED BY <2>1, <2>2
<1>4. PICK e \in KernelEnds, k \in Nat, m \in 0 .. Entries : Placed(e, m) /\ Mapped(k, m)
  BY DEF RoomInv
<1>5. m = 0 /\ placement_address = e + Words /\ bitset = e
  BY <1>2, <1>4 DEF Placed
<1>6. DirectorySize = 2 * PageSize + WordBytes
  <2>1. Entries \in Nat /\ WordBytes \in Nat
    BY Sizes
  <2> QED BY <2>1 DEF DirectorySize, PageSize
<1>7. /\ at \in Nat /\ at % PageSize = 0 /\ placement_address <= at
      /\ at < placement_address + PageSize
  <2>1. placement_address + PageSize < AddressSpace
    <3>1. m * PageSize \in Nat
      BY RoomForKernel
    <3> QED BY <1>5, <3>1, RoomForKernel, Sizes
  <2> QED BY <1>1, <2>1, AlignedRounds
<1> HIDE DEF at, c
<1>8. at + DirectorySize < e + Words + WordBytes + 3 * PageSize /\ DirectorySize \in Nat
  BY <1>5, <1>6, <1>7, RoomForKernel, Sizes
<1>9. at + DirectorySize < AddressSpace
  BY <1>7, <1>8, RoomForKernel, Sizes
<1>10. /\ placement_address' = at + DirectorySize
       /\ \A d \in chunks' :
            d.base \in Nat /\ d.size \in Nat /\ d.base + d.size <= placement_address'
       /\ \A d, f \in chunks' : d # f => d.base + d.size <= f.base \/ f.base + f.size <= d.base
  BY <1>1, <1>2, <1>7, <1>8, <1>9, KmallocSound
<1>11. ChunksInv'
  <2>1. \A t \in 0 .. Entries - 1 : tables'[t] # Stale => tables'[t] = 0
    BY <1>3
  <2>2. 0 % PageSize = 0
    BY Sizes
  <2>3. \A t \in 0 .. Entries - 1 : tables'[t] # Stale => tables'[t] % PageSize = 0
    BY <2>1, <2>2
  <2> QED BY <1>2, <1>7, <1>10, <2>3 DEF ChunksInv
<1>12. Separate'
  <2> SUFFICES ASSUME NEW w \in 0 .. Words - 1, NEW t \in 0 .. Entries - 1
               PROVE  e + w * WordBytes # at + t * WordBytes
    BY <1>2, <1>5 DEF Separate, SameWord
  <2>1. e + Words * WordBytes <= at
    BY <1>5 DEF Room, at
  <2>2. w \in Nat /\ t \in Nat /\ w + 1 <= Words /\ Words \in Nat /\ WordBytes \in Nat \ {0}
    BY Sizes
  <2>3. (w + 1) * WordBytes <= Words * WordBytes
    BY <2>2, MulMono
  <2>4. /\ (w + 1) * WordBytes = w * WordBytes + WordBytes
        /\ w * WordBytes \in Nat /\ t * WordBytes \in Nat /\ Words * WordBytes \in Nat
    BY <2>2
  <2> QED BY <1>7, <2>1, <2>2, <2>3, <2>4, RoomForKernel
<1>13. /\ i = k * PageSize /\ k <= m * Entries /\ (m > 0 => (m - 1) * Entries < k)
       /\ clean => Behind(page, k) /\ Ahead(page, FreeFrames(frames), k)
  BY <1>2, <1>4 DEF Mapped
<1>14. \A t \in 0 .. Entries - 1 : tables'[t] \in {0, Stale} <=> t >= m
  BY <1>3, <1>5
<1>15. Mapped(k, m)'
  BY <1>2, <1>13, <1>14 DEF Mapped, Behind, Ahead, FreeFrames
<1>16. Placed(e, m)'
  BY <1>2, <1>5, <1>8, <1>10 DEF Placed
<1>17. placement_address' > 0
  BY <1>5, <1>7, <1>8, <1>10, RoomForKernel, Sizes
<1> QED BY <1>1, <1>2, <1>11, <1>12, <1>15, <1>16, <1>17 DEF RoomInv

\* From here on memory stays as it is, and the pages before k too.
LEMMA AfterMap ==
  ASSUME RoomInv, PagingInv', pc \in {"map", "switch", "enabled"},
         pc' \in {"switch", "enabled", "reset", "lost"},
         UNCHANGED <<placement_address, bitset, kernel_directory, tables, i, chunks, clean>>,
         pc' \in {"switch", "enabled"} => placement_address <= i,
         \A p \in Pages : p * PageSize < i => page'[p] = page[p]
  PROVE  RoomInv'
<1>1. PICK e \in KernelEnds, k \in Nat, m \in 0 .. Entries : Placed(e, m) /\ Mapped(k, m)
  BY DEF RoomInv
<1>2. \A p \in Pages : p < k => page'[p] = page[p]
  <2> SUFFICES ASSUME NEW p \in Pages, p < k PROVE p * PageSize < i
    OBVIOUS
  <2>1. p \in Nat /\ PageSize \in Nat \ {0} /\ i = k * PageSize
    BY <1>1, Sizes DEF Pages, Mapped
  <2>2. (p + 1) * PageSize <= k * PageSize
    BY <2>1, MulMono
  <2>3. (p + 1) * PageSize = p * PageSize + PageSize /\ p * PageSize \in Nat
    BY <2>1
  <2> QED BY <2>1, <2>2, <2>3
<1>3. clean' => Behind(page, k)'
  BY <1>1, <1>2 DEF Mapped, Behind
<1>4. Mapped(k, m)'
  BY <1>1, <1>3 DEF Mapped
<1>5. Placed(e, m)'
  BY <1>1 DEF Placed
<1>6. ChunksInv' /\ Separate'
  BY DEF RoomInv, ChunksInv, Separate, SameWord
<1> QED BY <1>1, <1>4, <1>5, <1>6 DEF RoomInv

LEMMA StrayRoom ==
  ASSUME RoomInv, pc \in {"map", "enabled"}, NEW t, GoAstray(t)
  PROVE  RoomInv'
<1>1. PagingInv'
  BY InvStays DEF RoomInv, GoAstray
<1> QED BY <1>1, AfterMap DEF GoAstray

LEMMA MapRoom ==
  ASSUME Room, RoomInv, MapPage
  PROVE  RoomInv'
<1> DEFINE at == Aligned(placement_address)
           c  == [base |-> at, size |-> TableSize]
<1>1. PagingInv /\ PagingInv' /\ placement_address \in Nat /\ ChunksInv /\ clean \in BOOLEAN
      /\ page \in [Pages -> Entry] /\ frames \in Bitset /\ placement_address > 0
      /\ tables \in Directory
  BY MapStep, TypesOfState DEF RoomInv, PagingInv, Address
<1>2. pc = "map" /\ i < placement_address /\ Separate
  BY DEF MapPage, MapEnd, RoomInv
<1>3. PICK e \in KernelEnds, k \in Nat, m \in 0 .. Entries : Placed(e, m) /\ Mapped(k, m)
  BY DEF RoomInv
<1>4. m \in Nat /\ m <= Entries /\ PageSize \in Nat \ {0} /\ NFrames \in Nat /\ Entries \in Nat \ {0}
  BY Sizes
<1>5. placement_address < NFrames * PageSize
  <2>1. /\ e \in Nat /\ m * PageSize \in Nat /\ NFrames * PageSize \in Nat
        /\ e + Words + WordBytes + 4 * PageSize + m * PageSize <= NFrames * PageSize
    BY RoomForKernel
  <2>2. /\ m = 0 => placement_address < e + Words + WordBytes + 3 * PageSize
        /\ m > 0 => placement_address < e + Words + WordBytes + 4 * PageSize + m * PageSize
    BY <1>2, <1>3 DEF Placed
  <2>3. m = 0 \/ m > 0
    BY <1>4
  <2>4. Words \in Nat /\ WordBytes \in Nat
    BY Sizes
  <2> QED BY <1>1, <1>4, <2>1, <2>2, <2>3, <2>4
<1>6. /\ i = k * PageSize /\ k <= m * Entries /\ (m > 0 => (m - 1) * Entries < k)
      /\ \A t \in 0 .. Entries - 1 : tables[t] \in {0, Stale} <=> t >= m
      /\ clean => Behind(page, k) /\ Ahead(page, FreeFrames(frames), k)
  BY <1>2, <1>3 DEF Mapped
<1>7. k \in Frame /\ k \in Pages
  <2>1. NFrames <= k => NFrames * PageSize <= k * PageSize
    BY <1>4, MulMono
  <2>2. k * PageSize \in Nat /\ NFrames * PageSize \in Nat
    BY <1>4
  <2>3. k < NFrames
    BY <1>1, <1>2, <1>4, <1>5, <1>6, <2>1, <2>2
  <2> QED BY <1>4, <2>3, RoomFacts DEF Frame
<1>8. i \div PageSize = k
  BY <1>4, <1>6, DivOfMultiple
<1>9. NextAddress = (k + 1) * PageSize
  <2>1. (k + 1) * PageSize = k * PageSize + PageSize /\ k * PageSize \in Nat
    BY <1>4
  <2>2. k + 1 <= NFrames
    BY <1>4, <1>7 DEF Frame
  <2>3. (k + 1) * PageSize <= NFrames * PageSize
    BY <1>4, <2>2, MulMono
  <2>4. k * PageSize + PageSize < AddressSpace
    BY <1>4, <2>1, <2>3, RoomFacts, Sizes
  <2> QED BY <1>4, <1>6, <2>1, <2>4, ModSmall, Sizes DEF NextAddress
<1> DEFINE t == TableOf(k)
<1>10. t \in 0 .. Entries - 1 /\ t = k \div Entries
  <2>1. k < Entries * Entries
    BY <1>4, <1>7 DEF Pages
  <2> QED BY <1>4, <2>1, DivBelow DEF TableOf
<1>11. /\ t < m => k + 1 <= m * Entries
       /\ t >= m => k = m * Entries /\ t = m
       /\ (m + 1) * Entries = m * Entries + Entries /\ m * Entries \in Nat
  BY <1>4, <1>6, <1>10, NextTable
<1>12. CASE GoAstray(t)
  <2> HIDE DEF t
  <2> QED BY <1>2, <1>12, StrayRoom
<1>13. CASE /\ tables[t] \notin {0, Stale}
            /\ alloc_frame(k, page, frames, tables)
            /\ i' = NextAddress
            /\ UNCHANGED <<pc, placement_address, bitset, kernel_directory, chunks, clean>>
  <2>1. tables' = tables
    BY <1>1, <1>2, <1>13, SeparateStays
  <2>2. clean => Behind(page', k + 1) /\ Ahead(page', FreeFrames(frames'), k + 1)
    BY <1>1, <1>6, <1>7, <1>13, AllocMaps
  <2>3. t < m
    BY <1>4, <1>6, <1>10, <1>13
  <2>4. k + 1 <= m * Entries /\ (m > 0 => (m - 1) * Entries < k + 1) /\ k + 1 \in Nat
    <3>1. (m - 1) * Entries \in Int
      BY <1>4
    <3> QED BY <1>6, <1>11, <2>3, <3>1
  <2>5. Mapped(k + 1, m)'
    BY <1>2, <1>6, <1>9, <1>13, <2>1, <2>2, <2>4 DEF Mapped, Behind, Ahead, FreeFrames
  <2>6. Placed(e, m)'
    BY <1>2, <1>3, <1>13 DEF Placed
  <2>7. ChunksInv' /\ Separate'
    BY <1>1, <1>2, <1>13, <2>1 DEF ChunksInv, Separate, SameWord
  <2> QED BY <1>1, <1>2, <1>13, <2>4, <2>5, <2>6, <2>7 DEF RoomInv
<1>14. CASE /\ tables[t] = 0
            /\ Kmalloc(c, at)
            /\ \E left \in LeftTables :
                 /\ alloc_frame(k, WithTable(t, left), WithPointer(t, at),
                                [tables EXCEPT ![t] = at])
                 /\ clean' = (clean /\ left = NoPages)
            /\ i' = NextAddress
            /\ UNCHANGED <<pc, bitset, kernel_directory>>
  <2> DEFINE entries == [tables EXCEPT ![t] = at]
  <2>1. Kmalloc(c, at) /\ c.size = PageSize /\ at \in Address
    BY <1>1, <1>14, AlignedIsAddress, TypesOfState DEF TableSize, PageSize, PagingInv
  <2>2. PICK left \in LeftTables :
          alloc_frame(k, WithTable(t, left), WithPointer(t, at), entries)
          /\ clean' = (clean /\ left = NoPages)
    BY <1>14
  <2> DEFINE fresh == WithTable(t, left)
  <2>3. t = m /\ k = m * Entries /\ m + 1 \in 0 .. Entries
    BY <1>4, <1>6, <1>10, <1>11, <1>14
  <2>4. entries \in Directory /\ WithPointer(t, at) = frames
    BY <1>1, <1>2, <1>10, <2>1, PointerIsElsewhere DEF Directory
  <2>5. alloc_frame(k, fresh, frames, entries)
    BY <2>2, <2>4
  <2>6. fresh \in [Pages -> Entry]
    <3>1. left \in [0 .. Entries - 1 -> Entry]
      BY Leftover
    <3> HIDE DEF t
    <3> QED BY <1>1, <3>1, NewTableKeeps
  <2>7. clean' => Behind(fresh, k) /\ Ahead(fresh, FreeFrames(frames), k)
    <3>1. t \in Nat /\ k = t * Entries
      BY <1>4, <2>3
    <3> HIDE DEF t
    <3> QED BY <1>1, <1>6, <2>2, <3>1, NewTableAhead
  <2> HIDE DEF fresh, entries
  <2>8. tables' = entries
    BY <1>2, <2>4, <2>5, SeparateStays
  <2>9. clean' => Behind(page', k + 1) /\ Ahead(page', FreeFrames(frames'), k + 1)
    BY <1>1, <1>7, <2>4, <2>5, <2>6, <2>7, AllocMaps
  <2>10. /\ (m + 1) * PageSize = m * PageSize + PageSize /\ m * PageSize \in Nat
         /\ e + Words + WordBytes + 4 * PageSize + (m + 1) * PageSize <= NFrames * PageSize
         /\ e \in Nat /\ NFrames * PageSize \in Nat
         /\ NFrames * PageSize + PageSize <= AddressSpace
    <3>1. PICK n \in 0 .. Entries : n = m + 1
      BY <2>3
    <3>2. /\ e + Words + WordBytes + 4 * PageSize + n * PageSize <= NFrames * PageSize
          /\ e \in Nat /\ NFrames * PageSize \in Nat
          /\ NFrames * PageSize + PageSize <= AddressSpace
      BY RoomForKernel
    <3>3. (m + 1) * PageSize = m * PageSize + PageSize /\ m * PageSize \in Nat
      BY <1>4
    <3> QED BY <3>1, <3>2, <3>3
  <2>11. /\ at \in Nat /\ at % PageSize = 0 /\ placement_address <= at
         /\ at < placement_address + PageSize
         /\ placement_address % PageSize = 0 => at = placement_address
    <3>1. placement_address + PageSize < AddressSpace
      BY <1>1, <1>4, <1>5, <2>10, Sizes
    <3> QED BY <1>1, <3>1, AlignedRounds
  <2> HIDE DEF at, c
  <2>12. at + PageSize < e + Words + WordBytes + 4 * PageSize + (m + 1) * PageSize
    <3>1. CASE m = 0
      BY <1>1, <1>2, <1>3, <1>4, <2>10, <2>11, <3>1, Sizes DEF Placed
    <3>2. CASE m > 0
      BY <1>1, <1>2, <1>3, <1>4, <2>10, <2>11, <3>2, Sizes DEF Placed
    <3> QED BY <1>4, <3>1, <3>2
  <2>13. at + PageSize < AddressSpace
    BY <1>4, <2>10, <2>11, <2>12, Sizes
  <2>14. /\ placement_address' = at + PageSize
         /\ \A d \in chunks' :
              d.base \in Nat /\ d.size \in Nat /\ d.base + d.size <= placement_address'
         /\ \A d, f \in chunks' : d # f => d.base + d.size <= f.base \/ f.base + f.size <= d.base
    BY <1>1, <1>4, <2>1, <2>11, <2>13, KmallocSound
  <2>15. (at + PageSize) % PageSize = 0
    <3>1. at = ((at \div PageSize) * PageSize) + 0 /\ at \div PageSize \in Nat
      BY <1>4, <2>11, DivMod
    <3>2. at + PageSize = ((at \div PageSize) + 1) * PageSize
      BY <1>4, <3>1
    <3>3. (((at \div PageSize) + 1) * PageSize) % PageSize = 0
      BY <1>4, <3>1, ModOfMultiple
    <3> QED BY <3>2, <3>3
  <2>16. \A u \in 0 .. Entries - 1 : tables'[u] = IF u = t THEN at ELSE tables[u]
    <3> HIDE DEF t
    <3> QED BY <1>1, <2>8 DEF entries, Directory
  <2>17. ChunksInv' /\ Separate'
    BY <1>1, <1>2, <1>14, <2>11, <2>14, <2>16 DEF ChunksInv, Separate, SameWord
  <2>18. \A u \in 0 .. Entries - 1 : tables'[u] \in {0, Stale} <=> u >= m + 1
    <3>1. at # 0 /\ at # Stale
      BY <1>1, <2>1, <2>11, Sizes DEF Address, Stale
    <3> QED BY <1>4, <1>6, <2>3, <2>16, <3>1
  <2>19. k + 1 <= (m + 1) * Entries /\ ((m + 1) - 1) * Entries < k + 1 /\ k + 1 \in Nat
    BY <1>4, <1>11, <2>3
  <2>20. Mapped(k + 1, m + 1)'
    BY <1>2, <1>4, <1>9, <1>14, <2>9, <2>18, <2>19 DEF Mapped, Behind, Ahead, FreeFrames
  <2>21. Placed(e, m + 1)'
    BY <1>2, <1>4, <1>14, <2>12, <2>14, <2>15 DEF Placed
  <2>22. placement_address' > 0
    BY <1>4, <2>11, <2>14
  <2> QED BY <1>1, <1>2, <1>14, <2>3, <2>17, <2>19, <2>20, <2>21, <2>22 DEF RoomInv
<1> QED BY <1>8, <1>12, <1>13, <1>14 DEF MapPage

LEMMA UserRoom ==
  ASSUME Room, RoomInv, NEW p \in UserPages, AllocFrame(p) \/ FreeFrame(p)
  PROVE  RoomInv'
<1>1. page \in [Pages -> Entry] /\ PagingInv
  BY TypesOfState DEF RoomInv, PagingInv
<1>2. p \in Pages /\ p * PageSize >= i
  BY <1>1 DEF UserPages
<1>3. PagingInv'
  BY <1>1, <1>2, AllocFrameStep, FreeFrameStep
<1>4. pc = "enabled" /\ Separate /\ placement_address <= i /\ tables \in Directory
  BY <1>1, TypesOfState DEF AllocFrame, FreeFrame, RoomInv, Mapped, PagingInv
<1>5. CASE GoAstray(TableOf(p))
  BY <1>4, <1>5, StrayRoom
<1>6. CASE ~GoAstray(TableOf(p))
  <2>1. /\ UNCHANGED <<pc, placement_address, bitset, kernel_directory, i, chunks, clean>>
        /\ alloc_frame(p, page, frames, tables) \/ tables' = tables
    BY <1>6 DEF AllocFrame, FreeFrame
  <2>2. tables' = tables
    BY <1>4, <2>1, SeparateStays
  <2>3. \A q \in Pages : q # p => page'[q] = page[q]
    BY <1>1, <1>6 DEF AllocFrame, FreeFrame, alloc_frame
  <2>4. \A q \in Pages : q * PageSize < i => q # p
    <3>1. p * PageSize \in Nat /\ i \in Nat
      BY <1>1, <1>2, TypesOfState, Sizes DEF PagingInv, Address, Pages
    <3> QED BY <1>2, <3>1
  <2> QED BY <1>3, <1>4, <2>1, <2>2, <2>3, <2>4, AfterMap
<1> QED BY <1>5, <1>6

LEMMA RoomStep ==
  ASSUME Room, RoomInv, [Next]_vars
  PROVE  RoomInv'
<1>1. CASE UNCHANGED vars
  <2>1. PagingInv'
    BY <1>1, PagingStep DEF RoomInv
  <2>2. PICK e \in KernelEnds, k \in Nat, m \in 0 .. Entries : Placed(e, m) /\ Mapped(k, m)
    BY DEF RoomInv
  <2>3. Placed(e, m)' /\ Mapped(k, m)'
    BY <1>1, <2>2 DEF vars, Placed, Mapped, Behind, Ahead, FreeFrames
  <2>4. ChunksInv' /\ (pc' \notin {"bitset", "directory"} => Separate')
    BY <1>1 DEF vars, RoomInv, ChunksInv, Separate, SameWord
  <2> QED BY <1>1, <2>1, <2>3, <2>4 DEF vars, RoomInv
<1>2. CASE RegisterPageFault
  <2>1. PagingInv'
    BY <1>2, RegisterStep DEF RoomInv
  <2>2. placement_address <= i
    BY <1>2, TypesOfState DEF RegisterPageFault, MapEnd, RoomInv, PagingInv, Address
  <2> QED BY <1>2, <2>1, <2>2, AfterMap DEF RegisterPageFault
<1>3. CASE EnablePaging
  <2>1. PagingInv'
    BY <1>3, EnableStep DEF RoomInv
  <2>2. placement_address <= i
    BY <1>3 DEF EnablePaging, RoomInv, Mapped
  <2> QED BY <1>3, <2>1, <2>2, AfterMap, EnableTo DEF EnablePaging
<1>4. ASSUME NEW p \in UserPages, AllocFrame(p) \/ FreeFrame(p) PROVE RoomInv'
  BY <1>4, UserRoom
<1> QED BY <1>1, <1>2, <1>3, <1>4, BitsetRoom, DirectoryRoom, MapRoom DEF Next, InitialisePaging, Stopped

LEMMA RoomInvHolds == ASSUME Room PROVE Spec => []RoomInv
<1>1. Init => RoomInv
  BY InitRoom
<1>2. RoomInv /\ [Next]_vars => RoomInv'
  BY RoomStep
<1> QED BY <1>1, <1>2, PTL DEF Spec

\* Whatever memory held: kmalloc hands out no memory twice, and tables start at a
\* page, wherever the kernel ends, as long as there is Room for all tables and the
\* bitset ends before the directory.
THEOREM ChunksAreAlwaysSound == ASSUME Room PROVE Spec => []ChunksAreSound
<1>1. RoomInv => ChunksAreSound
  <2> SUFFICES ASSUME RoomInv PROVE ChunksAreSound
    OBVIOUS
  <2>1. \A c, d \in chunks : c # d => Bytes(c) \cap Bytes(d) = {}
    BY DEF RoomInv, ChunksInv, Bytes
  <2>2. DOMAIN tables = 0 .. Entries - 1
    BY TypesOfState DEF RoomInv, PagingInv, Directory
  <2> QED BY <2>1, <2>2 DEF RoomInv, ChunksInv, ChunksAreSound
<1> QED BY <1>1, RoomInvHolds, PTL

\* The loop of initialise_paging, which allocates while it maps, maps everything that is
\* in use when it ends to itself, the tables it made last included, in memory that was
\* zero, with Room for all tables and a bitset that ends before the directory.
THEOREM UsedMemoryIsMapped == ASSUME Room PROVE Spec => []UsedMemoryIsIdentityMapped
<1>1. RoomInv => UsedMemoryIsIdentityMapped
  <2> SUFFICES ASSUME RoomInv, clean, pc \in {"switch", "enabled"}, NEW p \in Pages,
                      p * PageSize < placement_address
               PROVE  page[p] = MapsTo(p)
    <3>1. RoomInv => DOMAIN page = Pages
      BY TypesOfState DEF RoomInv, PagingInv
    <3> QED BY <3>1 DEF UsedMemoryIsIdentityMapped, IdentityMap, UsedPages
  <2>1. PICK k \in Nat, m \in 0 .. Entries : Mapped(k, m)
    BY DEF RoomInv
  <2>2. i = k * PageSize /\ placement_address <= i /\ Behind(page, k)
    BY <2>1 DEF Mapped
  <2>3. p \in Nat /\ PageSize \in Nat /\ placement_address \in Nat
    BY Sizes, TypesOfState DEF Pages, RoomInv, PagingInv, Address
  <2>4. k <= p => k * PageSize <= p * PageSize
    BY <2>3, MulMono
  <2>5. p < k
    <3>1. k * PageSize \in Nat /\ p * PageSize \in Nat
      BY <2>3
    <3> QED BY <2>2, <2>3, <2>4, <3>1
  <2> QED BY <2>2, <2>5 DEF Behind
<1> QED BY <1>1, RoomInvHolds, PTL
=============================================================================
