-------------------------------- MODULE Paging --------------------------------
(***************************************************************************)
(* kernel/paging: the placement allocator, the bitset of frames, the page  *)
(* tables, initialise_paging and, after it, alloc_frame and free_frame on  *)
(* pages beyond the kernel's own.  (The Makefile compiles kernel/*.c only, *)
(* so none of this is in the image yet.)                                   *)
(*                                                                         *)
(* Nobody clears what kmalloc returns: tables, directory and most of the   *)
(* bitset hold at first what memory held.  And kmalloc is asked for as     *)
(* many bytes as the bitset has words, so that its last words may be the   *)
(* first entries of the directory, which is allocated next.                *)
(*                                                                         *)
(* Addresses are numbers below AddressSpace, 2^32 in the code, and wrap.   *)
(* The sizes keep the proportions of the code: a word is WordBytes long, a *)
(* table of Entries words fills a page, a directory needs two pages and a  *)
(* word, and there are no more frames than a page has bytes.  The rw and   *)
(* user bits of a page are left out.                                       *)
(***************************************************************************)
EXTENDS Integers, FiniteSets, FiniteSetsExt

CONSTANTS
  WordBytes,     (* 4                                                       *)
  WordBits,      (* 32                                                      *)
  Entries,       (* of a table and of a directory: 1024                     *)
  NFrames,       (* 16 MB of memory: 4096                                   *)
  KernelEnds,    (* where the linker may put end                            *)
  Stacks,        (* where the caller's stack may be                         *)
  PointerBits(_),(* the bits that are set in an address                     *)
  LeftWords,     (* what memory may hold where the bitset comes to be,      *)
  LeftPointers,  (* where the directory does: the entries that are not 0,   *)
  LeftTables     (* and where a table does                                  *)

PageSize      == Entries * WordBytes
AddressSpace  == Entries * Entries * PageSize
TableSize     == Entries * WordBytes
DirectorySize == (2 * Entries * WordBytes) + WordBytes

Address == 0 .. AddressSpace - 1
Bits    == 0 .. WordBits - 1

\* As many words as kmalloc is asked for bytes.
Words == NFrames \div WordBits

\* An entry of a table: the frame has 20 bits.
Entry == [present : BOOLEAN, frame : 0 .. (Entries * Entries) - 1]

ASSUME SizeAssumption ==
  /\ {WordBytes, WordBits, Entries, NFrames} \subseteq Nat \ {0}
  /\ NFrames % WordBits = 0 /\ Words % WordBytes = 0
  /\ 1 < NFrames /\ NFrames <= PageSize
  /\ Entries <= NFrames /\ NFrames < Entries * Entries

ASSUME MemoryAssumption ==
  /\ KernelEnds \subseteq {e \in 1 .. AddressSpace - 1 : e % WordBytes = 0}
  /\ Stacks \subseteq Address
  /\ PointerBits(0) = {} /\ \A a \in Address : PointerBits(a) \subseteq Bits
  /\ LeftWords \subseteq [0 .. Words - 1 -> SUBSET Bits]
  /\ LeftPointers \subseteq SUBSET (0 .. Entries - 1)
  /\ LeftTables \subseteq [0 .. Entries - 1 -> Entry]

VARIABLES
  pc,                (* where initialise_paging is                          *)
  placement_address, (* kheap.c                                             *)
  frames,            (* the bitset: for each word the bits set in it        *)
  bitset,            (* the pointer frames                                  *)
  kernel_directory,  (* the pointer                                         *)
  tables,            (* its entries: the address of a table, 0 for none     *)
  page,              (* the page entries, by page number                    *)
  i,                 (* the loop variable of initialise_paging              *)
  chunks,            (* history: what kmalloc has returned, with the sizes  *)
  clean              (* history: all that memory was zero                   *)

vars == <<pc, placement_address, frames, bitset, kernel_directory, tables,
          page, i, chunks, clean>>

-----------------------------------------------------------------------------
(* kheap.c                                                                  *)

\* Mutant: masks the address and forgets to go on to the next page.
AlignedDown(address) == address - (address % PageSize)

Aligned(address) ==
  IF address % PageSize = 0 THEN address
  ELSE ((address - (address % PageSize)) + PageSize) % AddressSpace

\* kmalloc_int: a bump allocator.  c is the chunk it returns.
Kmalloc(c, at) ==
  /\ c.base = at
  /\ placement_address' = (at + c.size) % AddressSpace
  /\ chunks' = chunks \cup {c}

-----------------------------------------------------------------------------
(* The bitset and the directory.                                           *)

\* Word w of the bitset is entry t of the directory at dir.
SameWord(dir, w, t) == bitset + w * WordBytes = dir + t * WordBytes

\* An entry of the directory that is neither 0 nor a table of kmalloc's.
Stale == AddressSpace

INDEX_FROM_BIT(a) == a \div WordBits

\* Mutant: forgets that a word has four bytes.
OFFSET_FROM_BIT8(a) == a % (WordBits \div 2)

OFFSET_FROM_BIT(a) == a % WordBits

\* frame_addr is an address, of which the page number counts.  words and entries
\* are what the bitset and the directory hold before.
set_frame(frame_addr, words, entries) ==
  LET frame == frame_addr \div PageSize
      idx   == INDEX_FROM_BIT(frame)
  IN /\ frames' = [words EXCEPT ![idx] = @ \cup {OFFSET_FROM_BIT(frame)}]
     /\ tables' = [t \in DOMAIN entries |->
                     IF SameWord(kernel_directory, idx, t) THEN Stale ELSE entries[t]]

\* The number of a frame, taken for an address, is one in the first words of the
\* bitset, which kmalloc was asked for: no entry of the directory changes.
clear_frame(frame_addr) ==
  LET frame == frame_addr \div PageSize
  IN frames' = [frames EXCEPT ![INDEX_FROM_BIT(frame)] = @ \ {OFFSET_FROM_BIT(frame)}]

FreeFrames(words) ==
  {f \in 0 .. NFrames - 1 : f % WordBits \notin words[f \div WordBits]}

\* The lowest frame with a clear bit; 0 (NULL) also when there is none.
first_frame(words) == IF FreeFrames(words) = {} THEN 0 ELSE Min(FreeFrames(words))

-----------------------------------------------------------------------------
(* Pages.  An entry counts as allocated when its frame field is not 0.      *)

NoPage   == [present |-> FALSE, frame |-> 0]
NoPages  == [x \in 0 .. Entries - 1 |-> NoPage]
MapsTo(f) == [present |-> TRUE, frame |-> f]

\* alloc_frame on the entry of page p; pages, words and entries are what get_page
\* has left of the tables, the bitset and the directory.
alloc_frame(p, pages, words, entries) ==
  IF pages[p].frame # 0
  THEN page' = pages /\ frames' = words /\ tables' = entries
  ELSE /\ set_frame(first_frame(words) * PageSize, words, entries)
       /\ page' = [pages EXCEPT ![p] = MapsTo(first_frame(words))]

TableOf(p) == p \div Entries

\* The pages, when a new table t holds what memory had left.
WithTable(t, left) ==
  [p \in DOMAIN page |-> IF TableOf(p) = t THEN left[p % Entries] ELSE page[p]]

\* The bitset, when entry t of the directory has been set to the address at.
WithPointer(t, at) ==
  [w \in DOMAIN frames |->
     IF SameWord(kernel_directory, w, t) THEN PointerBits(at) ELSE frames[w]]

\* get_page follows an entry that is no table's address: what is read and written
\* from here on, nobody can say.
GoAstray(t) ==
  /\ tables[t] = Stale
  /\ pc' = "lost"
  /\ UNCHANGED <<placement_address, frames, bitset, kernel_directory, tables,
                 page, i, chunks, clean>>

-----------------------------------------------------------------------------
(* initialise_paging                                                        *)

\* kmalloc for the bitset: as many bytes as it has words, and memset over as
\* many bytes.
AllocateBitset ==
  /\ pc = "bitset"
  /\ Kmalloc([base |-> placement_address, size |-> Words], placement_address)
  /\ bitset' = placement_address
  /\ \E left \in LeftWords :
       frames' = [w \in 0 .. Words - 1 |->
                    IF (w + 1) * WordBytes <= Words THEN {} ELSE left[w]]
  /\ clean' = (\A w \in 0 .. Words - 1 : frames'[w] = {})
  /\ pc' = "directory"
  /\ UNCHANGED <<kernel_directory, tables, page, i>>

\* An entry that is a word of the bitset holds what that word holds.
AllocateDirectory ==
  /\ pc = "directory"
  /\ LET at == Aligned(placement_address)
         shared == {t \in DOMAIN tables : \E w \in DOMAIN frames : SameWord(at, w, t)}
         taken  == {t \in DOMAIN tables :
                      \E w \in DOMAIN frames : SameWord(at, w, t) /\ frames[w] # {}}
     IN /\ Kmalloc([base |-> at, size |-> DirectorySize], at)
        /\ kernel_directory' = at
        /\ \E left \in LeftPointers :
             tables' = [t \in DOMAIN tables |->
                          IF t \in (left \ shared) \cup taken THEN Stale ELSE 0]
  /\ clean' = (clean /\ \A t \in DOMAIN tables : tables'[t] = 0)
  /\ pc' = "map"
  /\ UNCHANGED <<frames, bitset, page, i>>

\* Mutant: the bound of the loop is computed once, before it.
MapEndOnce == kernel_directory + DirectorySize

MapEnd == placement_address

\* Mutant: the loop variable is narrower than an address.
NextAddressNarrow == (i + PageSize) % (AddressSpace \div 8)

NextAddress == (i + PageSize) % AddressSpace

\* get_page(i, 1, kernel_directory), which makes the table if it has to, and
\* alloc_frame on the page it returns.
MapPage ==
  /\ pc = "map" /\ i < MapEnd
  /\ LET p  == i \div PageSize
         t  == TableOf(p)
         at == Aligned(placement_address)
     IN \/ GoAstray(t)
        \/ /\ tables[t] \notin {0, Stale}
           /\ alloc_frame(p, page, frames, tables)
           /\ i' = NextAddress
           /\ UNCHANGED <<pc, placement_address, bitset, kernel_directory, chunks, clean>>
        \/ /\ tables[t] = 0
           /\ Kmalloc([base |-> at, size |-> TableSize], at)
           /\ \E left \in LeftTables :
                /\ alloc_frame(p, WithTable(t, left), WithPointer(t, at),
                               [tables EXCEPT ![t] = at])
                /\ clean' = (clean /\ left = NoPages)
           /\ i' = NextAddress
           /\ UNCHANGED <<pc, bitset, kernel_directory>>

UsedPages == {p \in DOMAIN page : p * PageSize < placement_address}

\* The loop is over and the page fault handler registered.
RegisterPageFault ==
  /\ pc = "map" /\ i >= MapEnd
  /\ pc' = "switch"
  /\ UNCHANGED <<placement_address, frames, bitset, kernel_directory, tables,
                 page, i, chunks, clean>>

\* Paging is switched on.  With the stack not mapped the next push is a page fault,
\* which has nowhere to push to either: the processor resets.  With the stack or a
\* page in use mapped elsewhere, or an entry of tablesPhysical that get_page has
\* never written, it goes on with other code or data.
EnablePaging ==
  /\ pc = "switch"
  /\ \E stack \in Stacks :
       LET s == stack \div PageSize
           made == tables[TableOf(s)] \notin {0, Stale}
       IN pc' \in IF /\ \A p \in UsedPages : page[p] = MapsTo(p)
                    /\ page[s].present => page[s] = MapsTo(s)
                 THEN IF page[s].present THEN {"enabled"}
                      ELSE {"reset"} \cup {o \in {"lost"} : ~(clean \/ made)}
                 ELSE {"lost"}
  /\ UNCHANGED <<placement_address, frames, bitset, kernel_directory, tables,
                 page, i, chunks, clean>>

-----------------------------------------------------------------------------
(* Afterwards: pages beyond the kernel's own, in tables that exist.         *)

UserPages == {p \in DOMAIN page : tables[TableOf(p)] # 0 /\ p * PageSize >= i}

\* get_page, and alloc_frame on the page it returns.
AllocFrame(p) ==
  /\ pc = "enabled"
  /\ \/ GoAstray(TableOf(p))
     \/ /\ tables[TableOf(p)] # Stale
        /\ alloc_frame(p, page, frames, tables)
        /\ UNCHANGED <<pc, placement_address, bitset, kernel_directory, i, chunks, clean>>

\* get_page, and free_frame on the page it returns.  free_frame hands the number of
\* the frame to clear_frame, which divides it by the page size once more; present
\* stays set.
FreeFrame(p) ==
  /\ pc = "enabled"
  /\ \/ GoAstray(TableOf(p))
     \/ /\ tables[TableOf(p)] # Stale
        /\ IF page[p].frame = 0
           THEN UNCHANGED <<frames, page>>
           ELSE /\ clear_frame(page[p].frame)
                /\ page' = [page EXCEPT ![p].frame = 0]
        /\ UNCHANGED <<pc, placement_address, bitset, kernel_directory, tables, i,
                       chunks, clean>>

-----------------------------------------------------------------------------

Init ==
  /\ pc = "bitset"
  /\ placement_address \in KernelEnds
  /\ frames = [w \in 0 .. Words - 1 |-> {}]
  /\ bitset = 0 /\ kernel_directory = 0
  /\ tables = [t \in 0 .. Entries - 1 |-> 0]
  /\ page = [p \in 0 .. (Entries * Entries) - 1 |-> NoPage]
  /\ i = 0
  /\ chunks = {} /\ clean = TRUE

InitialisePaging ==
  AllocateBitset \/ AllocateDirectory \/ MapPage \/ RegisterPageFault \/ EnablePaging

Stopped == pc \in {"reset", "lost"} /\ UNCHANGED vars

Next ==
  \/ InitialisePaging
  \/ \E p \in UserPages : AllocFrame(p) \/ FreeFrame(p)
  \/ Stopped

Spec == Init /\ [][Next]_vars /\ WF_vars(InitialisePaging)

-----------------------------------------------------------------------------
(* Properties                                                              *)

\* Type invariant.
PTypeOK ==
  /\ pc \in {"bitset", "directory", "map", "switch", "enabled", "reset", "lost"}
  /\ {placement_address, bitset, kernel_directory, i} \subseteq Address
  /\ frames \in [0 .. Words - 1 -> SUBSET Bits]
  /\ tables \in [0 .. Entries - 1 -> Address \cup {Stale}]
  /\ page \in [0 .. (Entries * Entries) - 1 -> Entry]
  /\ clean \in BOOLEAN

Bytes(c) == c.base .. (c.base + c.size) - 1

\* kmalloc never hands out memory twice, and the directory and every table,
\* which the processor finds by page number, start at a page.
ChunksAreSound ==
  /\ \A c, d \in chunks : c # d => Bytes(c) \cap Bytes(d) = {}
  /\ \A t \in DOMAIN tables : tables[t] # Stale => tables[t] % PageSize = 0
  /\ kernel_directory % PageSize = 0

\* When paging is about to be switched on, everything up to the end of used memory,
\* the tables that mapping it took included, is mapped to itself (paging.c:128).
IdentityMap == pc \in {"switch", "enabled"} => \A p \in UsedPages : page[p] = MapsTo(p)

\* Provided that memory was zero, that is so.
UsedMemoryIsIdentityMapped == clean => IdentityMap

\* In memory that was zero two pages never share a frame, except frame 0, which
\* first_frame returns when nothing is left and which free_frame sets free: also
\* where words of the bitset are entries of the directory.
OnlyFrameZeroIsShared ==
  clean =>
    \A p, q \in DOMAIN page :
      p # q /\ page[p].present /\ page[q].present /\ page[p].frame = page[q].frame
        => page[p].frame = 0

\* In memory that was zero the loop that maps the used memory catches up with the
\* tables it allocates, and paging is switched on: it then goes on as before, or
\* resets if its stack is not in that memory (paging.c:160), and nothing else.
PagingIsSwitchedOn == <>(~clean \/ pc \in {"enabled", "reset"})
=============================================================================
