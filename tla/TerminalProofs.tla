---------------------------- MODULE TerminalProofs ----------------------------
(***************************************************************************)
(* For every screen size vga.h could give: the cursor stays on the screen, *)
(* an NMI in the middle of print_char does no harm, what is stored are     *)
(* cells of the screen and of one line behind it, and the driver is the    *)
(* page that Console describes.                                            *)
(***************************************************************************)
EXTENDS Crtc, TLAPS

-----------------------------------------------------------------------------
(* Offsets.                                                                *)

\* A line above the bottom, and the line after it, end on the screen.
LEMMA LineStarts ==
  ASSUME NEW r \in Nat, NEW n \in Nat, r < n, NEW w \in Nat
  PROVE  /\ r * w \in Nat /\ n * w \in Nat
         /\ (r + 1) * w = r * w + w
         /\ r * w + w <= n * w
<1>1. (r + 1) * w = r * w + w
  OBVIOUS
<1>2. (n - r - 1) \in Nat
  OBVIOUS
<1>3. n * w = (r + 1) * w + (n - r - 1) * w
  OBVIOUS
<1>4. (n - r - 1) * w \in Nat /\ r * w \in Nat
  BY <1>2
<1> QED BY <1>1, <1>3, <1>4

\* get_offset_row and get_offset_col invert get_offset on the screen.
LEMMA OffsetRoundTrip ==
  ASSUME NEW r \in Nat, NEW w \in Nat \ {0}, NEW x \in 0 .. w - 1
  PROVE  /\ (2 * (r * w + x)) \div (2 * w) = r
         /\ (2 * (r * w + x) - (r * 2 * w)) \div 2 = x
OBVIOUS

LEMMA DivBounds ==
  ASSUME NEW o \in Nat, NEW w \in Nat \ {0}
  PROVE  o \div w \in Nat /\ (o \div w) * w <= o /\ o < (o \div w) * w + w
<1>1. o \div w \in Nat
  OBVIOUS
<1>2. (o \div w) * w <= o
  OBVIOUS
<1>3. o < (o \div w) * w + w
  OBVIOUS
<1> QED BY <1>1, <1>2, <1>3

LEMMA TimesTwo ==
  ASSUME NEW q \in Int, NEW w \in Int
  PROVE  q * 2 * w = q * (2 * w) /\ 2 * q * w = 2 * (q * w)
OBVIOUS

\* What get_offset_row and get_offset_col make of a cell: natural numbers.
LEMMA CoordsOfTyped ==
  ASSUME NEW o \in Nat
  PROVE  /\ CoordsOf(o).col \in Nat /\ CoordsOf(o).row \in Nat
         /\ CoordsOf(o).col < MAX_COLS
<1> DEFINE w == 2 * MAX_COLS
           q == o \div w
<1>1. w \in Nat \ {0} /\ w = 2 * MAX_COLS /\ MAX_COLS \in Nat
  BY ScreenAssumption
<1>2. q \in Nat /\ q * w <= o /\ o < q * w + w
  BY <1>1, DivBounds
<1>3. get_offset_row(o) = q
  BY DEF get_offset_row
<1>4. get_offset_col(o) = (o - q * w) \div 2
  <2>1. q * 2 * MAX_COLS = q * w
    <3>1. \A a \in Int : a * 2 * MAX_COLS = a * (2 * MAX_COLS)
      BY <1>1, TimesTwo
    <3> QED BY <1>2, <3>1
  <2> QED BY <1>3, <2>1 DEF get_offset_col
<1>5. \A a, b \in Nat : a < b + b => a \div 2 \in Nat /\ a \div 2 < b
  OBVIOUS
<1>6. o - q * w \in Nat /\ o - q * w < MAX_COLS + MAX_COLS
  <2> HIDE DEF w, q
  <2>1. q * w \in Nat
    BY <1>1, <1>2
  <2> QED BY <1>1, <1>2, <2>1
<1>7. get_offset_col(o) \in Nat /\ get_offset_col(o) < MAX_COLS
  BY <1>1, <1>4, <1>5, <1>6
<1> QED BY <1>2, <1>3, <1>7 DEF CoordsOf

-----------------------------------------------------------------------------
(* One call of print_char.                                                 *)

OnScreen(p) == p.col \in 0 .. MAX_COLS - 1 /\ p.row \in 0 .. MAX_ROWS - 1

\* get_offset and back, for a place on the screen.
LEMMA GetOffset ==
  ASSUME NEW p, OnScreen(p)
  PROVE  /\ get_offset(p.col, p.row) = 2 * (p.row * MAX_COLS + p.col)
         /\ get_offset_row(get_offset(p.col, p.row)) = p.row
         /\ get_offset_col(get_offset(p.col, p.row)) = p.col
<1>1. p.row \in Nat /\ MAX_COLS \in Nat \ {0} /\ p.col \in 0 .. MAX_COLS - 1
  BY ScreenAssumption DEF OnScreen
<1>2. get_offset(p.col, p.row) = 2 * (p.row * MAX_COLS + p.col)
  BY DEF get_offset
<1>3. get_offset_row(get_offset(p.col, p.row)) = p.row
  BY <1>1, <1>2, OffsetRoundTrip DEF get_offset_row
<1>4. get_offset_col(get_offset(p.col, p.row)) = p.col
  BY <1>1, <1>2, <1>3, OffsetRoundTrip DEF get_offset_col
<1> QED BY <1>2, <1>3, <1>4

\* Where print_char continues before it scrolls: at most a line, less one
\* cell, below the screen.
LEMMA TargetBounds ==
  ASSUME NEW p, OnScreen(p), NEW c
  PROVE  /\ Target(c, p) \in Nat
         /\ Target(c, p) < 2 * (MAX_ROWS * MAX_COLS) + 2 * MAX_COLS
<1> DEFINE below == MAX_ROWS * MAX_COLS
           start == p.row * MAX_COLS
<1>1. /\ p.row \in Nat /\ MAX_COLS \in Nat /\ MAX_COLS >= 4 /\ p.col \in Nat
      /\ p.col <= MAX_COLS - 1
  BY ScreenAssumption DEF OnScreen
<1>2. /\ start \in Nat /\ below \in Nat /\ start + MAX_COLS <= below
      /\ (p.row + 1) * MAX_COLS = start + MAX_COLS
  BY LineStarts, ScreenAssumption DEF OnScreen
<1>3. get_offset(0, p.row + 1) = 2 * (start + MAX_COLS)
  BY <1>1, <1>2 DEF get_offset
<1>4. get_offset(p.col + 4, p.row) = 2 * (start + p.col + 4)
  BY <1>1, <1>2 DEF get_offset
<1>5. get_offset(p.col, p.row) + 2 = 2 * (start + p.col) + 2
  BY GetOffset
<1>6. Target(c, p) \in {2 * (start + MAX_COLS), 2 * (start + p.col + 4),
                        2 * (start + p.col) + 2}
  BY <1>3, <1>4, <1>5, GetOffset DEF Target
<1> HIDE DEF below, start
<1>7. /\ Target(c, p) \in Nat /\ Target(c, p) < 2 * below + 2 * MAX_COLS
  BY <1>1, <1>2, <1>6
<1> QED BY <1>7 DEF below

\* What it returns, and sets the cursor to, is the offset of a cell.
LEMMA ReturnedOnScreen ==
  ASSUME NEW p, OnScreen(p), NEW c
  PROVE  /\ Returned(c, p) \in Nat
         /\ Returned(c, p) < 2 * (MAX_ROWS * MAX_COLS)
         /\ Returned(c, p) \div 2 \in Cells
<1>1. /\ Target(c, p) \in Nat
      /\ Target(c, p) < 2 * (MAX_ROWS * MAX_COLS) + 2 * MAX_COLS
  BY TargetBounds
<1>2. ~OffScreen(p)
  BY ScreenAssumption DEF OffScreen, OnScreen
<1>3. /\ MAX_ROWS * MAX_COLS \in Nat /\ MAX_COLS <= MAX_ROWS * MAX_COLS
      /\ MAX_COLS \in Nat
      /\ 2 * MAX_ROWS * MAX_COLS = 2 * (MAX_ROWS * MAX_COLS)
  BY LineStarts, TimesTwo, ScreenAssumption
<1> DEFINE n == MAX_ROWS * MAX_COLS
           t == Target(c, p)
<1>4. Returned(c, p) = IF t < 2 * n THEN t ELSE t - 2 * MAX_COLS
  BY <1>2, <1>3 DEF Returned, Fits
<1> HIDE DEF n, t
<1>5. Returned(c, p) \in Nat /\ Returned(c, p) < 2 * n
  BY <1>1, <1>3, <1>4 DEF n, t
<1>6. \A a, b \in Nat : a < 2 * b => a \div 2 \in 0 .. b - 1
  OBVIOUS
<1>7. Returned(c, p) \div 2 \in 0 .. n - 1
  BY <1>3, <1>5, <1>6 DEF n
<1> QED BY <1>5, <1>7 DEF n, Cells

-----------------------------------------------------------------------------
(* The invariant: cursor and string position are places print_char can     *)
(* handle.                                                                 *)

CursorInv ==
  /\ cursor \in Cells
  /\ at.col \in Nat /\ at.row \in Nat

LEMMA CursorIsOnScreen ==
  ASSUME cursor \in Cells
  PROVE  OnScreen(Cursor)
<1>1. cursor \in Nat /\ cursor < MAX_ROWS * MAX_COLS
  BY LineStarts, ScreenAssumption DEF Cells
<1>2. /\ Cursor.col \in Nat /\ Cursor.row \in Nat /\ Cursor.col < MAX_COLS
  BY <1>1, CoordsOfTyped DEF Cursor
<1>3. Cursor.row < MAX_ROWS
  <2> DEFINE q == (2 * cursor) \div (2 * MAX_COLS)
  <2>1. q \in Nat /\ q * (2 * MAX_COLS) <= 2 * cursor
    BY <1>1, DivBounds, ScreenAssumption
  <2>2. Cursor.row = q
    BY DEF Cursor, CoordsOf, get_offset_row
  <2> HIDE DEF q
  <2>3. q * MAX_COLS <= cursor
    BY <1>1, <2>1, ScreenAssumption
  <2>4. ASSUME MAX_ROWS <= q PROVE MAX_ROWS * MAX_COLS <= q * MAX_COLS
    BY <2>1, <2>4, ScreenAssumption
  <2>5. MAX_ROWS * MAX_COLS \in Int /\ q * MAX_COLS \in Int
    BY <2>1, ScreenAssumption
  <2>6. MAX_ROWS \in Int
    BY ScreenAssumption
  <2> QED BY <1>1, <2>1, <2>2, <2>3, <2>4, <2>5, <2>6
<1> QED BY <1>2, <1>3, ScreenAssumption DEF OnScreen

\* Any call of print_char, on the screen or off it.
LEMMA PrintKeepsCursor ==
  ASSUME cursor \in Cells, NEW p, p.col \in Nat, p.row \in Nat, NEW c,
         print_char(c, p)
  PROVE  /\ cursor' \in Cells
         /\ Returned(c, p) \in Nat
<1>1. CASE OffScreen(p)
  <2>1. p.row * MAX_COLS \in Nat
    BY ScreenAssumption
  <2> QED BY <1>1, <2>1 DEF print_char, Returned, get_offset
<1>2. CASE ~OffScreen(p)
  <2>1. OnScreen(p)
    BY <1>2, ScreenAssumption DEF OffScreen, OnScreen
  <2> QED BY <1>2, <2>1, ReturnedOnScreen DEF print_char
<1> QED BY <1>1, <1>2

LEMMA CursorInvStep ==
  ASSUME CursorInv, [Next]_vars
  PROVE  CursorInv'
<1>1. OnScreen(Cursor) /\ Cursor.col \in Nat /\ Cursor.row \in Nat
  BY CursorIsOnScreen DEF CursorInv, OnScreen
<1>2. CASE terminal_initialize
  <2>1. cursor' = 0
    BY <1>2, ScreenAssumption DEF terminal_initialize, get_offset
  <2>2. 0 \in Cells
    BY LineStarts, ScreenAssumption DEF Cells
  <2> QED BY <1>2, <2>1, <2>2 DEF terminal_initialize, CursorInv
<1>3. CASE \E color \in Colors : terminal_setcolor(color[1], color[2])
  BY <1>3 DEF terminal_setcolor, CursorInv
<1>4. CASE \E c \in Symbols : terminal_putchar(c)
  BY <1>1, <1>4, PrintKeepsCursor DEF terminal_putchar, CursorInv
<1>5. ASSUME NEW message \in Messages, NEW col \in Coords, NEW row \in Coords,
             terminal_writestring_at(message, col, row)
      PROVE  CursorInv'
  <2>1. col \in Int /\ row \in Int
    BY CoordsAssumption
  <2>2. at'.col \in Nat /\ at'.row \in Nat
    BY <1>1, <1>5, <2>1 DEF terminal_writestring_at
  <2> QED BY <1>5, <2>2 DEF terminal_writestring_at, CursorInv
<1>6. CASE WriteNext
  <2>1. cursor' \in Cells /\ Returned(Head(str), at) \in Nat
    BY <1>6, PrintKeepsCursor DEF WriteNext, CursorInv
  <2>2. at'.col \in Nat /\ at'.row \in Nat
    BY <1>6, <2>1, CoordsOfTyped DEF WriteNext
  <2> QED BY <2>1, <2>2 DEF CursorInv
<1>7. CASE UNCHANGED vars
  BY <1>7 DEF vars, CursorInv
<1> QED BY <1>2, <1>3, <1>4, <1>5, <1>6, <1>7 DEF Next

CrtcInv == nmi \in BOOLEAN /\ (nmi \/ CursorInv)

\* Whatever is printed wherever, on any screen, the cursor stays on it until an
\* NMI cuts print_char short.
THEOREM CursorStaysOnScreen == CrtcSpec => []CursorOnScreenUntilNmi
<1>1. CrtcInit => CrtcInv
  <2>1. Init => CursorInv
    BY DEF Init, CursorInv
  <2> QED BY <2>1 DEF CrtcInit, CrtcInv
<1>2. CrtcInv /\ [CrtcNext]_crtcVars => CrtcInv'
  <2> SUFFICES ASSUME CrtcInv, [CrtcNext]_crtcVars PROVE CrtcInv'
    OBVIOUS
  <2>1. CASE ~nmi /\ Next /\ UNCHANGED nmi
    BY <2>1, CursorInvStep DEF CrtcInv
  <2>2. CASE Nmi
    BY <2>2 DEF Nmi, CrtcInv
  <2>3. CASE Handler
    BY <2>3 DEF Handler, CrtcInv
  <2>4. CASE UNCHANGED crtcVars
    <3>1. UNCHANGED vars /\ UNCHANGED nmi
      BY <2>4 DEF crtcVars
    <3> QED BY <3>1, CursorInvStep DEF CrtcInv
  <2> QED BY <2>1, <2>2, <2>3, <2>4 DEF CrtcNext
<1>3. CrtcInv => CursorOnScreenUntilNmi
  BY DEF CrtcInv, CursorInv, CursorOnScreenUntilNmi, CursorOnScreen
<1> QED BY <1>1, <1>2, <1>3, PTL DEF CrtcSpec

\* A position behind the screen is a row behind it.
LEMMA BehindIsOffScreen ==
  ASSUME cursor \in Nat, cursor \notin Cells
  PROVE  OffScreen(Cursor)
<1> DEFINE w == 2 * MAX_COLS
           q == (2 * cursor) \div w
<1>1. /\ w \in Nat \ {0} /\ w = 2 * MAX_COLS /\ MAX_COLS \in Nat /\ MAX_ROWS \in Nat
      /\ MAX_ROWS * MAX_COLS \in Nat
  BY ScreenAssumption
<1>2. cursor >= MAX_ROWS * MAX_COLS
  BY <1>1 DEF Cells
<1>3. Cursor.row = q
  BY DEF Cursor, CoordsOf, get_offset_row
<1>4. q \in Nat /\ 2 * cursor < q * w + w
  <2>1. 2 * cursor \in Nat
    OBVIOUS
  <2> QED BY <1>1, <2>1, DivBounds
<1> HIDE DEF q
<1>5. q * w = 2 * (q * MAX_COLS) /\ (q + 1) * MAX_COLS = q * MAX_COLS + MAX_COLS
      /\ q * MAX_COLS \in Nat
  BY <1>1, <1>4
<1>6. cursor < (q + 1) * MAX_COLS
  <2> HIDE DEF w
  <2> QED BY <1>1, <1>4, <1>5
<1>7. ASSUME q < MAX_ROWS PROVE q * MAX_COLS + MAX_COLS <= MAX_ROWS * MAX_COLS
  BY <1>1, <1>4, <1>7, LineStarts
<1>8. q >= MAX_ROWS
  BY <1>1, <1>2, <1>4, <1>5, <1>6, <1>7
<1> QED BY <1>1, <1>3, <1>8 DEF OffScreen

\* Two positions mixed are a position.
LEMMA TornIsNat ==
  ASSUME NEW old \in Nat, NEW new \in Nat
  PROVE  Torn(old, new) \in Nat
<1>1. \A a \in Nat, b \in Nat \ {0} : a % b \in Nat /\ a % b <= a
  <2> TAKE a \in Nat, b \in Nat \ {0}
  <2>1. a \div b \in Nat /\ a = (a \div b) * b + (a % b) /\ a % b \in 0 .. b - 1
    OBVIOUS
  <2>2. (a \div b) * b \in Nat
    BY <2>1
  <2> QED BY <2>1, <2>2
<1>2. new % LowCells \in Nat /\ new % LowCells <= new /\ old % LowCells \in Nat
  BY <1>1, LowCellsAssumption
<1> QED BY <1>2 DEF Torn

LEMMA CutPrintKeepsNat ==
  ASSUME cursor \in Cells, NEW p, p.col \in Nat, p.row \in Nat, NEW c,
         CutPrint(c, p)
  PROVE  cursor' \in Nat
<1>1. OnScreen(p)
  BY ScreenAssumption DEF CutPrint, OffScreen, OnScreen
<1>2. cursor \in Nat /\ Returned(c, p) \div 2 \in Nat
  BY <1>1, ReturnedOnScreen, ScreenAssumption DEF Cells
<1>3. Torn(cursor, Returned(c, p) \div 2) \in Nat
  BY <1>2, TornIsNat
<1>4. cursor' \in {cursor, Torn(cursor, Returned(c, p) \div 2)}
  BY DEF CutPrint
<1> QED BY <1>2, <1>3, <1>4

TornInv ==
  /\ nmi \in BOOLEAN
  /\ cursor \in Nat
  /\ nmi \/ CursorInv

LEMMA TornInvStep ==
  ASSUME TornInv, [CrtcNext]_crtcVars
  PROVE  TornInv'
<1>1. CASE Nmi
  <2>1. CursorInv /\ nmi'
    BY <1>1 DEF Nmi, TornInv
  <2>2. OnScreen(Cursor) /\ Cursor.col \in Nat /\ Cursor.row \in Nat
    BY <2>1, CursorIsOnScreen DEF CursorInv, OnScreen
  <2>3. CASE UNCHANGED <<mem, cursor>>
    BY <2>1, <2>3 DEF TornInv
  <2>4. CASE CutInitialize
    <3>1. Torn(cursor, 0) \in Nat
      BY TornIsNat DEF TornInv
    <3>2. cursor' \in {cursor, Torn(cursor, 0)}
      BY <2>4 DEF CutInitialize
    <3> QED BY <2>1, <3>1, <3>2 DEF TornInv
  <2>5. CASE \E c \in Symbols : CutPrint(c, Cursor)
    BY <2>1, <2>2, <2>5, CutPrintKeepsNat DEF TornInv, CursorInv
  <2>6. CASE CutPrint(Head(str), at)
    BY <2>1, <2>6, CutPrintKeepsNat DEF TornInv, CursorInv
  <2> QED BY <1>1, <2>3, <2>4, <2>5, <2>6 DEF Nmi
<1>2. CASE ~nmi /\ Next /\ UNCHANGED nmi
  <2>1. CursorInv'
    BY <1>2, CursorInvStep DEF TornInv
  <2>2. cursor' \in Nat
    BY <2>1, ScreenAssumption DEF CursorInv, Cells
  <2> QED BY <1>2, <2>1, <2>2 DEF TornInv
<1>3. CASE Handler
  <2>1. PICK c \in Symbols : print_char(c, Cursor)
    BY <1>3 DEF Handler, terminal_putchar
  <2>2. CASE cursor \in Cells
    <3>1. Cursor.col \in Nat /\ Cursor.row \in Nat
      BY <2>2, CursorIsOnScreen DEF OnScreen
    <3>2. cursor' \in Cells
      BY <2>1, <2>2, <3>1, PrintKeepsCursor
    <3> QED BY <1>3, <3>2, ScreenAssumption DEF Handler, TornInv, Cells
  <2>3. CASE cursor \notin Cells
    BY <1>3, <2>1, <2>3, BehindIsOffScreen DEF Handler, TornInv, print_char
  <2> QED BY <2>2, <2>3
<1>4. CASE UNCHANGED crtcVars
  <2>1. UNCHANGED vars /\ UNCHANGED nmi /\ cursor' = cursor
    BY <1>4 DEF crtcVars, vars
  <2> QED BY <2>1, CursorInvStep DEF TornInv
<1> QED BY <1>1, <1>2, <1>3, <1>4 DEF CrtcNext

\* From a torn position off the screen the NMI's handler can only mark the
\* corner, for every screen and every value of the low byte.
THEOREM TornIsContained == CrtcSpec => TornOutputIsContained
<1> DEFINE Contained ==
             nmi /\ cursor \notin Cells =>
               /\ cursor' = cursor
               /\ \A i \in DOMAIN mem : mem'[i] = mem[i] \/ i = MAX_ROWS * MAX_COLS - 1
<1>1. CrtcInit => TornInv
  <2>1. Init => CursorInv
    BY DEF Init, CursorInv
  <2>2. Init => cursor \in Nat
    BY ScreenAssumption DEF Init, Cells
  <2> QED BY <2>1, <2>2 DEF CrtcInit, TornInv
<1>2. TornInv /\ [CrtcNext]_crtcVars => TornInv'
  BY TornInvStep
<1>3. TornInv /\ [CrtcNext]_crtcVars => [Contained]_crtcVars
  <2> SUFFICES ASSUME TornInv, CrtcNext, nmi, cursor \notin Cells
               PROVE  /\ cursor' = cursor
                      /\ \A i \in DOMAIN mem :
                           mem'[i] = mem[i] \/ i = MAX_ROWS * MAX_COLS - 1
    OBVIOUS
  <2>1. Handler
    BY DEF CrtcNext, Nmi
  <2>2. PICK c \in Symbols : print_char(c, Cursor)
    BY <2>1 DEF Handler, terminal_putchar
  <2>3. OffScreen(Cursor)
    BY BehindIsOffScreen DEF TornInv
  <2>4. /\ cursor' = cursor
        /\ mem' = [mem EXCEPT ![MAX_COLS * MAX_ROWS - 1] = vga_entry(ErrorMark, WhiteOnRed)]
    BY <2>2, <2>3 DEF print_char
  <2>5. MAX_COLS * MAX_ROWS = MAX_ROWS * MAX_COLS
    BY ScreenAssumption
  <2> QED BY <2>4, <2>5
<1> QED BY <1>1, <1>2, <1>3, PTL DEF CrtcSpec, TornOutputIsContained

-----------------------------------------------------------------------------
(* Types.                                                                  *)

\* What the terminal's memory holds.
Painted(m) == m \in [Cells \cup Past -> Cell \cup {Junk}]

\* The line from which a cell is copied is there.
LEMMA CopiedFrom ==
  ASSUME NEW i \in Cells \cup Past, i < (MAX_ROWS - 1) * MAX_COLS
  PROVE  i + MAX_COLS \in Cells \cup Past
<1> DEFINE n == MAX_ROWS * MAX_COLS
<1>1. /\ n \in Nat /\ MAX_COLS \in Nat /\ (MAX_ROWS - 1) * MAX_COLS = n - MAX_COLS
      /\ (MAX_ROWS + 1) * MAX_COLS = n + MAX_COLS
  BY ScreenAssumption
<1> QED BY <1>1 DEF Cells, Past

LEMMA EntryTyped ==
  ASSUME NEW c \in Chars \cup {Space, ErrorMark}, NEW color \in 0 .. 255
  PROVE  vga_entry(c, color) \in Cell
BY DEF vga_entry, Cell

LEMMA ColorsTyped ==
  /\ WhiteOnBlue \in 0 .. 255 /\ WhiteOnRed \in 0 .. 255 /\ RedOnBlack \in 0 .. 255
  /\ \A color \in Colors : vga_entry_color(color[1], color[2]) \in 0 .. 255
<1>1. /\ WhiteOnBlue \in 0 .. 255 /\ WhiteOnRed \in 0 .. 255 /\ RedOnBlack \in 0 .. 255
  BY DEF WhiteOnBlue, WhiteOnRed, RedOnBlack, vga_entry_color
<1>2. ASSUME NEW color \in Colors PROVE vga_entry_color(color[1], color[2]) \in 0 .. 255
  <2>1. color[1] \in 0 .. 15 /\ color[2] \in 0 .. 15
    BY ColorAssumption
  <2> QED BY <2>1 DEF vga_entry_color
<1> QED BY <1>1, <1>2

LEMMA WrittenTyped ==
  ASSUME Painted(mem), T_COLOR \in 0 .. 255, NEW c \in Symbols, NEW p
  PROVE  Painted(Written(c, p))
<1>1. c \notin {Newline, Tab} => vga_entry(c, T_COLOR) \in Cell
  BY EntryTyped DEF Symbols
<1> DEFINE e == vga_entry(c, T_COLOR)
           S == Cell \cup {Junk}
           o == get_offset(p.col, p.row) \div 2
<1>2. c \notin {Newline, Tab} => e \in S
  BY <1>1
<1>3. Written(c, p) = IF c \in {Newline, Tab} THEN mem ELSE [mem EXCEPT ![o] = e]
  BY DEF Written
<1> HIDE DEF e, S, o
<1>4. mem \in [Cells \cup Past -> S]
  BY DEF Painted, S
<1>5. Written(c, p) \in [Cells \cup Past -> S]
  BY <1>2, <1>3, <1>4
<1> QED BY <1>5 DEF Painted, S

LEMMA ScrolledTyped ==
  ASSUME NEW t, Painted(t), T_COLOR \in 0 .. 255
  PROVE  Painted(ScrollUp(t))
<1> DEFINE S == Cell \cup {Junk}
           e == vga_entry(Space, T_COLOR)
           D == Cells \cup Past
           lim == (MAX_ROWS - 1) * MAX_COLS
<1>1. e \in S
  BY EntryTyped
<1>2. \A i \in D : i < lim => i + MAX_COLS \in D
  BY CopiedFrom
<1>3. t \in [D -> S]
  BY DEF Painted
<1>4. ScrollUp(t) = [i \in D |-> IF i < lim THEN t[i + MAX_COLS] ELSE e]
  BY DEF ScrollUp
<1> HIDE DEF S, e, D, lim
<1>5. ScrollUp(t) \in [D -> S]
  BY <1>1, <1>2, <1>3, <1>4
<1> QED BY <1>5 DEF Painted, S, D

\* handle_scrolling cut short: a mixture of two memories.
LEMMA MixedTyped ==
  ASSUME NEW t, NEW k, Painted(t), T_COLOR \in 0 .. 255
  PROVE  Painted(ScrollUpTo(t, k))
<1> DEFINE S == Cell \cup {Junk}
           D == Cells \cup Past
           u == ScrollUp(t)
<1>1. t \in [D -> S] /\ u \in [D -> S]
  BY ScrolledTyped DEF Painted
<1>2. ScrollUpTo(t, k) = [i \in DOMAIN t |-> IF i < k THEN u[i] ELSE t[i]]
  BY DEF ScrollUpTo
<1> HIDE DEF S, D, u
<1>3. ScrollUpTo(t, k) \in [D -> S]
  BY <1>1, <1>2
<1> QED BY <1>3 DEF Painted, S, D

LEMMA PrintTyped ==
  ASSUME Painted(mem), T_COLOR \in 0 .. 255, NEW c \in Symbols, NEW p, print_char(c, p)
  PROVE  Painted(mem')
<1>1. CASE OffScreen(p)
  <2> DEFINE e == vga_entry(ErrorMark, WhiteOnRed)
             S == Cell \cup {Junk}
             o == MAX_COLS * MAX_ROWS - 1
  <2>1. e \in S
    BY EntryTyped, ColorsTyped
  <2>2. mem' = [mem EXCEPT ![o] = e]
    BY <1>1 DEF print_char
  <2> HIDE DEF e, S, o
  <2>3. mem \in [Cells \cup Past -> S]
    BY DEF Painted, S
  <2>4. mem' \in [Cells \cup Past -> S]
    BY <2>1, <2>2, <2>3
  <2> QED BY <2>4 DEF Painted, S
<1>2. CASE ~OffScreen(p)
  <2>1. mem' = Written(c, p) \/ mem' = ScrollUp(Written(c, p))
    BY <1>2 DEF print_char
  <2>2. Painted(Written(c, p))
    BY WrittenTyped
  <2>3. Painted(ScrollUp(Written(c, p)))
    BY <2>2, ScrolledTyped
  <2> QED BY <2>1, <2>2, <2>3
<1> QED BY <1>1, <1>2

LEMMA CutPrintTyped ==
  ASSUME Painted(mem), T_COLOR \in 0 .. 255, NEW c \in Symbols, NEW p, CutPrint(c, p)
  PROVE  Painted(mem')
<1>1. \/ mem' = mem \/ mem' = Written(c, p) \/ mem' = ScrollUp(Written(c, p))
      \/ \E k : mem' = ScrollUpTo(Written(c, p), k)
  BY DEF CutPrint
<1>2. Painted(Written(c, p))
  BY WrittenTyped
<1>3. Painted(ScrollUp(Written(c, p)))
  BY <1>2, ScrolledTyped
<1>4. \A k : Painted(ScrollUpTo(Written(c, p), k))
  BY <1>2, MixedTyped
<1> QED BY <1>1, <1>2, <1>3, <1>4

LEMMA InitializeTyped ==
  ASSUME Painted(mem), terminal_initialize \/ CutInitialize
  PROVE  Painted(mem')
<1> DEFINE S == Cell \cup {Junk}
           e == vga_entry(Space, WhiteOnBlue)
           D == Cells \cup Past
<1>1. e \in S
  BY EntryTyped, ColorsTyped
<1>2. mem \in [D -> S]
  BY DEF Painted
<1>3. CASE terminal_initialize
  <2>1. mem' = [i \in D |-> IF i \in Cells THEN e ELSE mem[i]]
    BY <1>3 DEF terminal_initialize
  <2> HIDE DEF S, e, D
  <2>2. mem' \in [D -> S]
    BY <1>1, <1>2, <2>1
  <2> QED BY <2>2 DEF Painted, S, D
<1>4. CASE CutInitialize
  <2>1. PICK k : mem' = [i \in DOMAIN mem |-> IF i < k THEN e ELSE mem[i]]
    BY <1>4 DEF CutInitialize
  <2> HIDE DEF S, e, D
  <2>2. mem' \in [D -> S]
    BY <1>1, <1>2, <2>1
  <2> QED BY <2>2 DEF Painted, S, D
<1> QED BY <1>3, <1>4

\* The types, with what the cursor's needs.
TypedInv ==
  /\ TornInv
  /\ ready \in BOOLEAN
  /\ Painted(mem)
  /\ T_COLOR \in 0 .. 255
  /\ str \in Seq(Symbols)
  /\ at \in [col : Nat, row : Nat]

LEMMA CoordsTyped ==
  ASSUME NEW o \in Nat
  PROVE  CoordsOf(o) \in [col : Nat, row : Nat]
BY CoordsOfTyped DEF CoordsOf

LEMMA HeadAndTail ==
  ASSUME NEW s \in Seq(Symbols), s # <<>>
  PROVE  Head(s) \in Symbols /\ Tail(s) \in Seq(Symbols)
OBVIOUS

LEMMA TerminalTypedStep ==
  ASSUME TypedInv, ~nmi, Next
  PROVE  /\ ready' \in BOOLEAN /\ Painted(mem') /\ T_COLOR' \in 0 .. 255
         /\ str' \in Seq(Symbols) /\ at' \in [col : Nat, row : Nat]
<1>1. /\ CursorInv /\ cursor \in Nat /\ Painted(mem) /\ T_COLOR \in 0 .. 255
      /\ str \in Seq(Symbols) /\ at \in [col : Nat, row : Nat]
  BY DEF TypedInv, TornInv
<1>2. ready \in BOOLEAN
  BY Zenon DEF TypedInv
<1>3. Cursor \in [col : Nat, row : Nat]
  <2>1. 2 * cursor \in Nat
    BY <1>1
  <2> QED BY <2>1, CoordsTyped DEF Cursor
<1>4. CASE terminal_initialize
  BY <1>1, <1>4, InitializeTyped, ColorsTyped DEF terminal_initialize
<1>5. CASE \E color \in Colors : terminal_setcolor(color[1], color[2])
  <2>1. T_COLOR' \in 0 .. 255 /\ UNCHANGED <<ready, mem, str, at>>
    BY <1>5, ColorsTyped DEF terminal_setcolor
  <2> QED BY <1>1, <1>2, <2>1
<1>6. CASE \E c \in Symbols : terminal_putchar(c)
  <2>1. UNCHANGED <<ready, T_COLOR, str, at>>
    BY <1>6 DEF terminal_putchar
  <2>2. Painted(mem')
    BY <1>1, <1>6, PrintTyped DEF terminal_putchar
  <2> QED BY <1>1, <1>2, <2>1, <2>2
<1>7. ASSUME NEW message \in Messages, NEW col \in Coords, NEW row \in Coords,
             terminal_writestring_at(message, col, row)
      PROVE  /\ ready' \in BOOLEAN /\ Painted(mem') /\ T_COLOR' \in 0 .. 255
             /\ str' \in Seq(Symbols) /\ at' \in [col : Nat, row : Nat]
  <2>1. str' \in Seq(Symbols) /\ UNCHANGED <<ready, mem, T_COLOR>>
    BY <1>7, TextAssumption DEF terminal_writestring_at
  <2>2. at' \in [col : Nat, row : Nat]
    <3>1. col \in Int /\ row \in Int
      BY CoordsAssumption
    <3>2. col >= 0 /\ row >= 0 => [col |-> col, row |-> row] \in [col : Nat, row : Nat]
      BY <3>1
    <3> QED BY <1>3, <1>7, <3>2 DEF terminal_writestring_at
  <2> QED BY <1>1, <1>2, <2>1, <2>2
<1>8. CASE WriteNext
  <2>1. Head(str) \in Symbols /\ str' \in Seq(Symbols) /\ UNCHANGED <<ready, T_COLOR>>
    BY <1>1, <1>8, HeadAndTail DEF WriteNext
  <2>2. Painted(mem')
    BY <1>1, <1>8, <2>1, PrintTyped DEF WriteNext
  <2>3. at' \in [col : Nat, row : Nat]
    <3>1. Returned(Head(str), at) \in Nat
      BY <1>1, <1>8, PrintKeepsCursor DEF WriteNext, CursorInv
    <3> QED BY <1>8, <3>1, CoordsTyped DEF WriteNext
  <2> QED BY <1>1, <1>2, <2>1, <2>2, <2>3
<1> QED BY <1>4, <1>5, <1>6, <1>7, <1>8 DEF Next

LEMMA NmiTyped ==
  ASSUME TypedInv, Nmi
  PROVE  Painted(mem')
<1>1. CursorInv /\ Painted(mem) /\ T_COLOR \in 0 .. 255 /\ str \in Seq(Symbols)
  BY DEF TypedInv, TornInv, Nmi
<1>2. CASE UNCHANGED <<mem, cursor>>
  BY <1>1, <1>2
<1>3. CASE CutInitialize
  BY <1>1, <1>3, InitializeTyped
<1>4. CASE \E c \in Symbols : CutPrint(c, Cursor)
  BY <1>1, <1>4, CutPrintTyped
<1>5. CASE ~Idle /\ CutPrint(Head(str), at)
  <2>1. Head(str) \in Symbols
    BY <1>1, <1>5, HeadAndTail DEF Idle
  <2> QED BY <1>1, <1>5, <2>1, CutPrintTyped
<1> QED BY <1>2, <1>3, <1>4, <1>5 DEF Nmi

LEMMA TypedInvStep ==
  ASSUME TypedInv, [CrtcNext]_crtcVars
  PROVE  TypedInv'
<1>1. TornInv'
  BY TornInvStep DEF TypedInv
<1>2. /\ Painted(mem) /\ T_COLOR \in 0 .. 255
      /\ str \in Seq(Symbols) /\ at \in [col : Nat, row : Nat]
  BY DEF TypedInv
<1>3. ready \in BOOLEAN
  BY Zenon DEF TypedInv
<1>4. CASE ~nmi /\ Next /\ UNCHANGED nmi
  <2>1. /\ ready' \in BOOLEAN /\ Painted(mem') /\ T_COLOR' \in 0 .. 255
        /\ str' \in Seq(Symbols) /\ at' \in [col : Nat, row : Nat]
    BY <1>4, TerminalTypedStep
  <2> QED BY <1>1, <2>1 DEF TypedInv, Painted
<1>5. CASE Nmi
  <2>1. Painted(mem')
    BY <1>5, NmiTyped
  <2>2. /\ ready' = TRUE /\ T_COLOR' \in 0 .. 255 /\ str' \in Seq(Symbols)
        /\ at' \in [col : Nat, row : Nat]
    <3>1. ready' = TRUE /\ T_COLOR' = RedOnBlack /\ str' = <<>> /\ at' = at
      BY <1>5 DEF Nmi
    <3>2. <<>> \in Seq(Symbols)
      OBVIOUS
    <3> QED BY <1>2, <3>1, <3>2, ColorsTyped
  <2> QED BY <1>1, <2>1, <2>2 DEF TypedInv, Painted
<1>6. CASE Handler
  <2>1. UNCHANGED <<ready, T_COLOR, str, at>> /\ Painted(mem')
    BY <1>2, <1>6, PrintTyped DEF Handler, terminal_putchar
  <2> QED BY <1>1, <1>2, <1>3, <2>1 DEF TypedInv, Painted
<1>7. CASE UNCHANGED crtcVars
  <2>1. UNCHANGED <<ready, mem, T_COLOR, str, at>>
    BY <1>7 DEF crtcVars, vars
  <2> QED BY <1>1, <1>2, <1>3, <2>1 DEF TypedInv, Painted
<1> QED BY <1>4, <1>5, <1>6, <1>7 DEF CrtcNext

\* The types hold on every screen, an NMI in any call of the driver included: the
\* cursor may be torn, but what is stored are cells, and never past the one line
\* behind the screen.
THEOREM CrtcTypeCorrect == CrtcSpec => []CrtcTypeOK
<1>1. CrtcInit => TypedInv
  <2> SUFFICES ASSUME CrtcInit PROVE TypedInv
    OBVIOUS
  <2>1. TornInv
    <3>1. cursor \in Cells /\ at.col \in Nat /\ at.row \in Nat /\ nmi = FALSE
      BY DEF CrtcInit, Init
    <3>2. cursor \in Nat
      BY <3>1, ScreenAssumption DEF Cells
    <3> QED BY <3>1, <3>2 DEF TornInv, CursorInv
  <2>2. Painted(mem) /\ T_COLOR \in 0 .. 255 /\ str \in Seq(Symbols) /\ at \in [col : Nat, row : Nat]
    BY DEF CrtcInit, Init, Painted
  <2>3. ready \in BOOLEAN
    BY Zenon DEF CrtcInit, Init
  <2> QED BY <2>1, <2>2, <2>3 DEF TypedInv
<1>2. TypedInv /\ [CrtcNext]_crtcVars => TypedInv'
  BY TypedInvStep
<1>3. TypedInv => CrtcTypeOK
  BY DEF TypedInv, TornInv, Painted, CrtcTypeOK, TypeOK
<1> QED BY <1>1, <1>2, <1>3, PTL DEF CrtcSpec

-----------------------------------------------------------------------------
(* The terminal implements the page.                                       *)

Lines   == 0 .. MAX_ROWS - 1
Columns == 0 .. MAX_COLS - 1
Index(y, x) == y * MAX_COLS + x
TextOf(m) == [y \in Lines |-> [x \in Columns |-> m[Index(y, x)]]]
SetCell(m, i, g) == [m EXCEPT ![i] = g]
SetPlace(page, y, x, g) == [page EXCEPT ![y][x] = g]
IsMemory(m) == m = [i \in Cells \cup Past |-> m[i]]

\* print_char goes on with the memory m at offset t, and scrolls if need be.
Continues(m, t) ==
  /\ mem' = (IF Fits(t) THEN m ELSE ScrollUp(m))
  /\ cursor' = (IF Fits(t) THEN t ELSE t - 2 * MAX_COLS) \div 2

\* A place and its index.
LEMMA IndexFacts ==
  ASSUME NEW y \in Lines, NEW x \in Columns
  PROVE  /\ Index(y, x) \in Cells
         /\ y \in Nat /\ x \in Nat /\ MAX_COLS \in Nat \ {0} /\ MAX_ROWS \in Nat \ {0}
         /\ y * MAX_COLS \in Nat /\ MAX_ROWS * MAX_COLS \in Nat
<1>1. /\ y \in Nat /\ x \in Nat /\ MAX_COLS \in Nat \ {0} /\ MAX_ROWS \in Nat \ {0}
      /\ x <= MAX_COLS - 1 /\ y < MAX_ROWS
  BY ScreenAssumption DEF Lines, Columns
<1>2. /\ y * MAX_COLS \in Nat /\ MAX_ROWS * MAX_COLS \in Nat
      /\ y * MAX_COLS + MAX_COLS <= MAX_ROWS * MAX_COLS
  BY <1>1, LineStarts
<1> DEFINE a == y * MAX_COLS
           n == MAX_ROWS * MAX_COLS
<1>3. a \in Nat /\ n \in Nat /\ a + MAX_COLS <= n
  BY <1>2
<1> HIDE DEF a, n
<1>4. a + x \in 0 .. n - 1
  BY <1>1, <1>3
<1> QED BY <1>1, <1>2, <1>4 DEF a, n, Index, Cells

\* The cursor register and the position.
LEMMA PositionOf ==
  ASSUME NEW y \in Lines, NEW x \in Columns
  PROVE  CoordsOf(2 * Index(y, x)) = [col |-> x, row |-> y]
<1>1. get_offset(x, y) = 2 * Index(y, x)
  BY DEF get_offset, Index
<1>2. get_offset_row(2 * Index(y, x)) = y
  BY IndexFacts, OffsetRoundTrip DEF get_offset_row, Index, Columns
<1>3. get_offset_col(2 * Index(y, x)) = x
  BY <1>2, IndexFacts, OffsetRoundTrip DEF get_offset_col, Index, Columns
<1> QED BY <1>2, <1>3 DEF CoordsOf

LEMMA IndexIsUnique ==
  ASSUME NEW y \in Lines, NEW x \in Columns, NEW v \in Lines, NEW u \in Columns,
         Index(y, x) = Index(v, u)
  PROVE  y = v /\ x = u
<1>1. [col |-> x, row |-> y] = [col |-> u, row |-> v]
  BY PositionOf
<1> QED BY <1>1

\* A cell that is changed shows at its place.
LEMMA TextExcept ==
  ASSUME NEW m, IsMemory(m), NEW y \in Lines, NEW x \in Columns, NEW g
  PROVE  TextOf(SetCell(m, Index(y, x), g)) = SetPlace(TextOf(m), y, x, g)
<1> DEFINE M == SetCell(m, Index(y, x), g)
           T == SetPlace(TextOf(m), y, x, g)
<1>1. ASSUME NEW v \in Lines, NEW u \in Columns
      PROVE  M[Index(v, u)] = IF v = y /\ u = x THEN g ELSE m[Index(v, u)]
  <2>1. Index(v, u) \in Cells \cup Past
    BY IndexFacts
  <2>2. Index(v, u) = Index(y, x) => v = y /\ u = x
    BY IndexIsUnique
  <2> QED BY <2>1, <2>2 DEF IsMemory, SetCell
<1>2. ASSUME NEW v \in Lines, NEW u \in Columns
      PROVE  T[v][u] = IF v = y /\ u = x THEN g ELSE m[Index(v, u)]
  BY DEF TextOf, SetPlace
<1>3. T = [v \in Lines |-> [u \in Columns |-> T[v][u]]]
  BY DEF TextOf, SetPlace
<1> HIDE DEF M, T
<1>4. TextOf(M) = [v \in Lines |-> [u \in Columns |-> T[v][u]]]
  BY <1>1, <1>2 DEF TextOf
<1> QED BY <1>3, <1>4 DEF M, T

\* The page moves up with the memory.
LEMMA TextScrolls ==
  ASSUME NEW m
  PROVE  TextOf(ScrollUp(m)) = [y \in Lines |-> IF y < MAX_ROWS - 1 THEN TextOf(m)[y + 1]
                                                ELSE Page!BlankLine(T_COLOR)]
<1>1. ASSUME NEW y \in Lines, NEW x \in Columns, y < MAX_ROWS - 1
      PROVE  ScrollUp(m)[Index(y, x)] = TextOf(m)[y + 1][x]
  <2>1. y + 1 \in Lines
    BY <1>1, IndexFacts DEF Lines
  <2>2. Index(y, x) \in Cells \cup Past /\ Index(y, x) + MAX_COLS = Index(y + 1, x)
    BY <1>1, IndexFacts DEF Index
  <2>3. Index(y, x) < (MAX_ROWS - 1) * MAX_COLS
    <3>1. y * MAX_COLS + MAX_COLS <= (MAX_ROWS - 1) * MAX_COLS
          /\ (MAX_ROWS - 1) * MAX_COLS \in Nat
      <4>1. MAX_ROWS - 1 \in Nat /\ MAX_COLS \in Nat /\ y \in Nat
        BY IndexFacts
      <4> QED BY <1>1, <4>1, LineStarts
    <3>2. x < MAX_COLS /\ x \in Nat /\ MAX_COLS \in Nat /\ y * MAX_COLS \in Nat
      BY IndexFacts DEF Columns
    <3> QED BY <3>1, <3>2 DEF Index
  <2>4. ScrollUp(m)[Index(y, x)] = m[Index(y, x) + MAX_COLS]
    BY <2>2, <2>3 DEF ScrollUp
  <2> QED BY <2>1, <2>2, <2>4 DEF TextOf
<1>2. ASSUME NEW y \in Lines, NEW x \in Columns, ~(y < MAX_ROWS - 1)
      PROVE  ScrollUp(m)[Index(y, x)] = Page!BlankLine(T_COLOR)[x]
  <2>1. y = MAX_ROWS - 1 /\ x \in Nat /\ MAX_COLS \in Nat /\ Index(y, x) \in Cells \cup Past
    BY <1>2, IndexFacts DEF Lines
  <2>2. ~(Index(y, x) < (MAX_ROWS - 1) * MAX_COLS)
    <3>1. y * MAX_COLS \in Nat
      BY IndexFacts
    <3> QED BY <2>1, <3>1 DEF Index
  <2>3. ScrollUp(m)[Index(y, x)] = vga_entry(Space, T_COLOR)
    BY <2>1, <2>2 DEF ScrollUp
  <2> QED BY <2>3 DEF vga_entry, Page!BlankLine, Page!Cell, Page!Col, Columns
<1>3. ASSUME NEW y \in Lines, y < MAX_ROWS - 1
      PROVE  TextOf(m)[y + 1] = [x \in Columns |-> TextOf(m)[y + 1][x]]
  <2>1. y + 1 \in Lines
    BY <1>3, ScreenAssumption DEF Lines
  <2> QED BY <2>1 DEF TextOf
<1>4. Page!BlankLine(T_COLOR) = [x \in Columns |-> Page!BlankLine(T_COLOR)[x]]
  BY DEF Page!BlankLine, Page!Col, Columns
<1>5. TextOf(ScrollUp(m)) = [y \in Lines |-> [x \in Columns |-> ScrollUp(m)[Index(y, x)]]]
  BY DEF TextOf
<1>6. ASSUME NEW y \in Lines
      PROVE  [x \in Columns |-> ScrollUp(m)[Index(y, x)]]
               = IF y < MAX_ROWS - 1 THEN TextOf(m)[y + 1] ELSE Page!BlankLine(T_COLOR)
  <2>1. CASE y < MAX_ROWS - 1
    <3>1. [x \in Columns |-> ScrollUp(m)[Index(y, x)]] = [x \in Columns |-> TextOf(m)[y + 1][x]]
      BY <1>1, <2>1
    <3> QED BY <1>3, <2>1, <3>1
  <2>2. CASE ~(y < MAX_ROWS - 1)
    <3>1. [x \in Columns |-> ScrollUp(m)[Index(y, x)]]
            = [x \in Columns |-> Page!BlankLine(T_COLOR)[x]]
      BY <1>2, <2>2
    <3> QED BY <1>4, <2>2, <3>1
  <2> QED BY <2>1, <2>2
<1> QED BY <1>5, <1>6

\* print_char goes on at line r, which may be the one below the screen, and
\* column x.
LEMMA Moves ==
  ASSUME NEW m, NEW r \in 0 .. MAX_ROWS, NEW x \in Columns,
         Continues(m, 2 * Index(r, x))
  PROVE  Page!MoveTo(TextOf(m), r, x)
<1>1. /\ MAX_COLS \in Nat \ {0} /\ MAX_ROWS \in Nat \ {0} /\ r \in Nat /\ x \in Nat
      /\ r * MAX_COLS \in Nat /\ MAX_ROWS * MAX_COLS \in Nat /\ x < MAX_COLS
      /\ 2 * MAX_ROWS * MAX_COLS = 2 * (MAX_ROWS * MAX_COLS)
  BY ScreenAssumption DEF Columns
<1>2. ASSUME NEW y \in Lines, cursor' = Index(y, x)
      PROVE  Cursor'.row = y /\ Cursor'.col = x
  <2>1. Cursor' = CoordsOf(2 * cursor')
    BY DEF Cursor, CoordsOf, get_offset_row, get_offset_col
  <2>2. CoordsOf(2 * cursor') = CoordsOf(2 * Index(y, x))
    BY <1>2, Zenon
  <2>3. Cursor' = [col |-> x, row |-> y]
    BY <2>1, <2>2, PositionOf
  <2> QED BY <2>3
<1>3. CASE r < MAX_ROWS
  <2>1. r \in Lines
    BY <1>1, <1>3 DEF Lines
  <2>2. Fits(2 * Index(r, x)) /\ Index(r, x) \in Nat
    <3>1. Index(r, x) \in Cells
      BY <2>1, IndexFacts
    <3>2. Index(r, x) \in Nat /\ Index(r, x) < MAX_ROWS * MAX_COLS
      BY <1>1, <3>1 DEF Cells
    <3> HIDE DEF Index
    <3> QED BY <1>1, <3>2 DEF Fits
  <2>3. mem' = m /\ cursor' = Index(r, x)
    <3>1. \A k \in Nat : (2 * k) \div 2 = k
      OBVIOUS
    <3> QED BY <2>2, <3>1 DEF Continues
  <2>4. Cursor'.row = r /\ Cursor'.col = x
    BY <1>2, <2>1, <2>3
  <2> QED BY <1>3, <2>3, <2>4 DEF Page!MoveTo, TextOf, Lines, Columns, Index
<1>4. CASE ~(r < MAX_ROWS)
  <2>1. r = MAX_ROWS /\ MAX_ROWS - 1 \in Lines
    BY <1>1, <1>4 DEF Lines
  <2>2. Index(r, x) = Index(MAX_ROWS - 1, x) + MAX_COLS
    BY <1>1, <2>1 DEF Index
  <2>3. ~Fits(2 * Index(r, x)) /\ Index(MAX_ROWS - 1, x) \in Nat
    <3>1. Index(MAX_ROWS - 1, x) \in Cells
      BY <2>1, IndexFacts
    <3>2. Index(r, x) = MAX_ROWS * MAX_COLS + x
      BY <2>1 DEF Index
    <3> QED BY <1>1, <3>1, <3>2 DEF Fits, Cells
  <2>4. mem' = ScrollUp(m) /\ cursor' = Index(MAX_ROWS - 1, x)
    <3>1. \A k, w \in Nat : (2 * (k + w) - 2 * w) \div 2 = k
      OBVIOUS
    <3>2. (2 * (Index(MAX_ROWS - 1, x) + MAX_COLS) - 2 * MAX_COLS) \div 2 = Index(MAX_ROWS - 1, x)
      BY <1>1, <2>3, <3>1
    <3> QED BY <2>2, <2>3, <3>2 DEF Continues
  <2>5. Cursor'.row = MAX_ROWS - 1 /\ Cursor'.col = x
    BY <1>2, <2>1, <2>4
  <2>6. TextOf(mem') = [y \in Lines |-> IF y < MAX_ROWS - 1 THEN TextOf(m)[y + 1]
                                        ELSE Page!BlankLine(T_COLOR)]
    BY <2>4, TextScrolls
  <2> QED BY <1>4, <2>5, <2>6 DEF Page!MoveTo, Page!Row, TextOf, Lines, Columns, Index
<1> QED BY <1>3, <1>4

\* d cells to the right, at most a line.
LEMMA MovesRight ==
  ASSUME NEW m, NEW r \in Lines, NEW x \in Columns, NEW d \in Nat, d <= MAX_COLS,
         Continues(m, 2 * (Index(r, x) + d))
  PROVE  Page!MoveRight(TextOf(m), r, x, d)
<1>1. /\ MAX_COLS \in Nat /\ MAX_ROWS \in Nat /\ r \in Nat /\ x \in Nat /\ x < MAX_COLS
      /\ r * MAX_COLS \in Nat /\ r < MAX_ROWS
      /\ (r + 1) * MAX_COLS = r * MAX_COLS + MAX_COLS
  BY IndexFacts DEF Columns, Lines
<1>2. CASE x + d < MAX_COLS
  <2>1. x + d \in Columns /\ 2 * (Index(r, x) + d) = 2 * Index(r, x + d) /\ r \in 0 .. MAX_ROWS
    BY <1>1, <1>2 DEF Columns, Index
  <2>2. Page!MoveTo(TextOf(m), r, x + d)
    BY <2>1, Moves
  <2> QED BY <1>2, <2>2 DEF Page!MoveRight
<1>3. CASE ~(x + d < MAX_COLS)
  <2>1. /\ x + d - MAX_COLS \in Columns /\ r + 1 \in 0 .. MAX_ROWS
        /\ 2 * (Index(r, x) + d) = 2 * Index(r + 1, x + d - MAX_COLS)
    BY <1>1, <1>3 DEF Columns, Index
  <2>2. Page!MoveTo(TextOf(m), r + 1, x + d - MAX_COLS)
    BY <2>1, Moves
  <2> QED BY <1>3, <2>2 DEF Page!MoveRight
<1> QED BY <1>2, <1>3

\* print_char behind the screen.
LEMMA PrintIsRefuse ==
  ASSUME NEW c \in Symbols, NEW p, OffScreen(p), IsMemory(mem),
         ready = TRUE, UNCHANGED <<ready, T_COLOR>>, print_char(c, p)
  PROVE  Page!Refuse
<1> DEFINE g == vga_entry(ErrorMark, WhiteOnRed)
<1>1. PICK m : m = mem
  OBVIOUS
<1>2. /\ MAX_ROWS - 1 \in Lines /\ MAX_COLS - 1 \in Columns
      /\ MAX_COLS * MAX_ROWS - 1 = Index(MAX_ROWS - 1, MAX_COLS - 1)
  <2>1. \A a, b \in Nat : a * b - 1 = (b - 1) * a + (a - 1)
    OBVIOUS
  <2> QED BY <2>1, ScreenAssumption DEF Lines, Columns, Index
<1>3. cursor' = cursor /\ mem' = SetCell(m, Index(MAX_ROWS - 1, MAX_COLS - 1), g)
  BY <1>1, <1>2 DEF print_char, SetCell
<1>4. IsMemory(m)
  BY <1>1 DEF IsMemory
<1>5. TextOf(SetCell(m, Index(MAX_ROWS - 1, MAX_COLS - 1), g))
        = SetPlace(TextOf(m), MAX_ROWS - 1, MAX_COLS - 1, g)
  BY <1>2, <1>4, TextExcept
<1>6. TextOf(mem') = SetPlace(TextOf(mem), MAX_ROWS - 1, MAX_COLS - 1, g)
  BY <1>1, <1>3, <1>5
<1>7. Cursor' = Cursor
  BY <1>3 DEF Cursor, CoordsOf, get_offset_row, get_offset_col
<1> QED BY <1>6, <1>7 DEF Page!Refuse, Page!Cell, vga_entry, SetPlace, TextOf, Lines, Columns, Index

\* print_char on the screen.
LEMMA PrintIsPut ==
  ASSUME NEW c \in Symbols, NEW p, OnScreen(p), IsMemory(mem),
         ready = TRUE, UNCHANGED <<ready, T_COLOR>>, print_char(c, p)
  PROVE  Page!Put(c, p.row, p.col)
<1> DEFINE r == p.row
           x == p.col
<1>1. PICK m, n, k : m = mem /\ n = Written(c, p) /\ k = T_COLOR
  OBVIOUS
<1>2. r \in Lines /\ x \in Columns /\ ~OffScreen(p)
  BY ScreenAssumption DEF OffScreen, OnScreen, Lines, Columns
<1>3. Continues(n, Target(c, p)) /\ IsMemory(m)
  BY <1>1, <1>2 DEF print_char, Returned, Continues, IsMemory
<1>4. /\ r * MAX_COLS \in Nat /\ MAX_COLS \in Nat /\ MAX_COLS >= 4
      /\ (r + 1) * MAX_COLS = r * MAX_COLS + MAX_COLS
      /\ Index(r, x) \in Nat /\ r \in Nat /\ x \in Nat
  BY <1>2, IndexFacts, ScreenAssumption DEF Index
<1>5. /\ get_offset(x, r) = 2 * Index(r, x)
      /\ get_offset_row(get_offset(x, r)) = r
      /\ get_offset_col(get_offset(x, r)) = x
  BY GetOffset DEF Index
<1>6. /\ c = Newline => Target(c, p) = get_offset(0, r + 1)
      /\ c = Tab /\ c # Newline => Target(c, p) = get_offset(x + 4, r)
      /\ c \notin {Newline, Tab} => Target(c, p) = get_offset(x, r) + 2
  <2>1. Newline # Tab
    BY TextAssumption
  <2> QED BY <1>5, <2>1 DEF Target
<1>7. CASE c = Newline
  <2>1. Target(c, p) = 2 * Index(r + 1, 0)
    BY <1>4, <1>6, <1>7 DEF get_offset, Index
  <2>2. r + 1 \in 0 .. MAX_ROWS /\ 0 \in Columns
    BY <1>2, ScreenAssumption DEF Lines, Columns
  <2>3. Page!MoveTo(TextOf(n), r + 1, 0)
    BY <1>3, <2>1, <2>2, Moves
  <2>4. TextOf(n) = TextOf(mem)
    BY <1>1, <1>7 DEF Written
  <2>5. c # Tab
    BY <1>7, TextAssumption
  <2>6. c = Newline => (Page!Put(c, r, x) <=> /\ ready
                                               /\ Page!MoveTo(TextOf(mem), r + 1, 0)
                                               /\ UNCHANGED <<ready, T_COLOR>>)
    BY <2>5 DEF Page!Put, TextOf, Lines, Columns, Index
  <2>7. Page!MoveTo(TextOf(mem), r + 1, 0)
    BY <2>3, <2>4 DEF Page!MoveTo
  <2> QED BY <1>7, <2>6, <2>7
<1>8. CASE c = Tab
  <2>1. c # Newline
    BY <1>8, TextAssumption
  <2>2. Target(c, p) = 2 * (Index(r, x) + 4)
    BY <1>2, <1>4, <1>6, <1>8, <2>1 DEF get_offset, Index, Columns
  <2>3. 4 \in Nat /\ 4 <= MAX_COLS /\ Continues(n, 2 * (Index(r, x) + 4))
    BY <1>3, <1>4, <2>2
  <2>4. Page!MoveRight(TextOf(n), r, x, 4)
    BY <1>2, <2>3, MovesRight
  <2>5. TextOf(n) = TextOf(mem)
    BY <1>1, <1>8 DEF Written
  <2> QED BY <1>8, <2>1, <2>4, <2>5 DEF Page!Put, Page!MoveRight, Page!MoveTo, Page!TabWidth,
                                         TextOf, Lines, Columns, Index
<1>9. CASE c \notin {Newline, Tab}
  <2>1. Target(c, p) = 2 * (Index(r, x) + 1)
    BY <1>4, <1>5, <1>6, <1>9
  <2>2. n = SetCell(m, Index(r, x), vga_entry(c, k))
    <3>1. \A i \in Nat : (2 * i) \div 2 = i
      OBVIOUS
    <3>2. get_offset(x, r) \div 2 = Index(r, x)
      BY <1>4, <1>5, <3>1
    <3> QED BY <1>1, <1>9, <3>2 DEF Written, SetCell
  <2>3. TextOf(n) = SetPlace(TextOf(m), r, x, vga_entry(c, k))
    BY <1>2, <1>3, <2>2, TextExcept
  <2>4. 1 \in Nat /\ 1 <= MAX_COLS /\ Continues(n, 2 * (Index(r, x) + 1))
    BY <1>3, <1>4, <2>1
  <2>5. Page!MoveRight(TextOf(n), r, x, 1)
    BY <1>2, <2>4, MovesRight
  <2>6. TextOf(n) = [TextOf(mem) EXCEPT ![r][x] = Page!Cell(c, T_COLOR)]
    BY <1>1, <2>3 DEF SetPlace, Page!Cell, vga_entry
  <2> QED BY <1>9, <2>5, <2>6 DEF Page!Put, Page!MoveRight, Page!MoveTo,
                                  TextOf, Lines, Columns, Index
<1> QED BY <1>7, <1>8, <1>9

\* What the mapping needs of a state, apart from the cursor: the memory's
\* extent, and that only an initialised screen is printed on.
PageInv ==
  /\ CursorInv
  /\ IsMemory(mem)
  /\ ready \in BOOLEAN
  /\ str \in Seq(Symbols)
  /\ str # <<>> => ready

LEMMA PrintKeepsMemory ==
  ASSUME IsMemory(mem), NEW c, NEW p, print_char(c, p)
  PROVE  IsMemory(mem)'
<1>1. IsMemory(Written(c, p))
  BY DEF IsMemory, Written
<1>2. IsMemory(ScrollUp(Written(c, p)))
  BY DEF IsMemory, ScrollUp
<1>3. CASE OffScreen(p)
  BY <1>3 DEF print_char, IsMemory
<1>4. CASE ~OffScreen(p)
  <2>1. mem' = Written(c, p) \/ mem' = ScrollUp(Written(c, p))
    BY <1>4 DEF print_char
  <2> QED BY <1>1, <1>2, <2>1 DEF IsMemory
<1> QED BY <1>3, <1>4

LEMMA PageInvStep ==
  ASSUME PageInv, [Next]_vars
  PROVE  PageInv'
<1>1. CursorInv'
  BY CursorInvStep DEF PageInv
<1>2. CASE terminal_initialize
  BY <1>1, <1>2 DEF terminal_initialize, PageInv, IsMemory, Idle
<1>3. CASE \E color \in Colors : terminal_setcolor(color[1], color[2])
  BY <1>1, <1>3 DEF terminal_setcolor, PageInv, IsMemory
<1>4. CASE \E c \in Symbols : terminal_putchar(c)
  <2>1. PICK c \in Symbols : terminal_putchar(c)
    BY <1>4
  <2>2. IsMemory(mem)'
    BY <2>1, PrintKeepsMemory DEF terminal_putchar, PageInv
  <2> QED BY <1>1, <2>1, <2>2 DEF terminal_putchar, PageInv
<1>5. ASSUME NEW message \in Messages, NEW col \in Coords, NEW row \in Coords,
             terminal_writestring_at(message, col, row)
      PROVE  PageInv'
  <2>1. message \in Seq(Symbols)
    BY TextAssumption
  <2> QED BY <1>1, <1>5, <2>1 DEF terminal_writestring_at, PageInv, IsMemory
<1>6. CASE WriteNext
  <2>1. IsMemory(mem)'
    BY <1>6, PrintKeepsMemory DEF WriteNext, PageInv
  <2>2. str' \in Seq(Symbols) /\ ready' = ready /\ ready
    BY <1>6, HeadAndTail DEF WriteNext, PageInv
  <2> QED BY <1>1, <2>1, <2>2 DEF PageInv
<1>7. CASE UNCHANGED vars
  BY <1>1, <1>7 DEF vars, PageInv, IsMemory
<1> QED BY <1>2, <1>3, <1>4, <1>5, <1>6, <1>7 DEF Next

LEMMA PrintIsConsole ==
  ASSUME PageInv, ready, NEW c \in Symbols, NEW p, p.col \in Nat, p.row \in Nat,
         print_char(c, p), UNCHANGED <<ready, T_COLOR>>
  PROVE  Page!ConsoleNext
<1>1. IsMemory(mem) /\ ready = TRUE
  BY Zenon DEF PageInv
<1>2. CASE OffScreen(p)
  <2>1. Page!Refuse
    BY <1>1, <1>2, PrintIsRefuse
  <2> QED BY <2>1 DEF Page!ConsoleNext
<1>3. CASE ~OffScreen(p)
  <2>1. OnScreen(p) /\ p.row \in Lines /\ p.col \in Columns
    BY <1>3, ScreenAssumption DEF OffScreen, OnScreen, Lines, Columns
  <2>2. Page!Put(c, p.row, p.col)
    BY <1>1, <2>1, PrintIsPut
  <2> QED BY <2>1, <2>2 DEF Page!ConsoleNext, Page!Row, Page!Col, Lines, Columns, Symbols
<1> QED BY <1>2, <1>3

LEMMA StepIsConsole ==
  ASSUME PageInv, Next
  PROVE  Page!ConsoleNext \/ UNCHANGED Page!consoleVars
<1>1. OnScreen(Cursor) /\ Cursor.col \in Nat /\ Cursor.row \in Nat
  BY CursorIsOnScreen DEF PageInv, CursorInv, OnScreen
<1>2. CASE terminal_initialize
  <2>1. TextOf(mem') = [y \in Lines |-> Page!BlankLine(WhiteOnBlue)]
    <3>1. ASSUME NEW y \in Lines, NEW x \in Columns
          PROVE  mem'[Index(y, x)] = vga_entry(Space, WhiteOnBlue)
      BY <1>2, IndexFacts DEF terminal_initialize
    <3> QED BY <3>1 DEF TextOf, vga_entry, Page!BlankLine, Page!Cell, Page!Col, Columns
  <2>2. Cursor'.row = 0 /\ Cursor'.col = 0
    <3>1. cursor' = 0
      BY <1>2, ScreenAssumption DEF terminal_initialize, get_offset
    <3>2. 0 \in Lines /\ 0 \in Columns /\ 2 * Index(0, 0) = 2 * cursor'
      BY <3>1, ScreenAssumption DEF Lines, Columns, Index
    <3>3. CoordsOf(2 * Index(0, 0)) = [col |-> 0, row |-> 0]
      BY <3>2, PositionOf
    <3>4. Cursor' = CoordsOf(2 * cursor')
      BY DEF Cursor, CoordsOf, get_offset_row, get_offset_col
    <3>5. Cursor' = [col |-> 0, row |-> 0]
      BY <3>2, <3>3, <3>4
    <3> QED BY <3>5
  <2>3. Page!Clear
    BY <1>2, <2>1, <2>2 DEF terminal_initialize, Page!Clear, Page!Row, TextOf, Lines, Columns, Index
  <2> QED BY <2>3 DEF Page!ConsoleNext
<1>3. CASE \E color \in Colors : terminal_setcolor(color[1], color[2])
  <2>1. PICK color \in Colors : terminal_setcolor(color[1], color[2])
    BY <1>3
  <2>2. Cursor' = Cursor
    BY <2>1 DEF terminal_setcolor, Cursor, CoordsOf, get_offset_row, get_offset_col
  <2>3. Page!Recolor(vga_entry_color(color[1], color[2]))
    BY <2>1, <2>2 DEF terminal_setcolor, Page!Recolor
  <2> QED BY <2>3 DEF Page!ConsoleNext
<1>4. CASE \E c \in Symbols : terminal_putchar(c)
  <2>1. PICK c \in Symbols : terminal_putchar(c)
    BY <1>4
  <2>2. PICK p : p = Cursor
    OBVIOUS
  <2>3. print_char(c, p) /\ ready /\ UNCHANGED <<ready, T_COLOR>>
    BY <2>1, <2>2 DEF terminal_putchar
  <2> QED BY <1>1, <2>2, <2>3, PrintIsConsole
<1>5. CASE \E message \in Messages, col \in Coords, row \in Coords :
             terminal_writestring_at(message, col, row)
  <2>1. UNCHANGED <<ready, mem, cursor, T_COLOR>>
    BY <1>5 DEF terminal_writestring_at
  <2>2. Cursor' = Cursor
    BY <2>1 DEF Cursor, CoordsOf, get_offset_row, get_offset_col
  <2> QED BY <2>1, <2>2 DEF Page!consoleVars
<1>6. CASE WriteNext
  <2>1. PICK c, p : c = Head(str) /\ p = at
    OBVIOUS
  <2>2. c \in Symbols /\ ready /\ p.col \in Nat /\ p.row \in Nat
    BY <1>6, <2>1, HeadAndTail DEF WriteNext, PageInv, CursorInv
  <2>3. print_char(c, p) /\ UNCHANGED <<ready, T_COLOR>>
    BY <1>6, <2>1 DEF WriteNext
  <2> QED BY <2>2, <2>3, PrintIsConsole
<1> QED BY <1>2, <1>3, <1>4, <1>5, <1>6 DEF Next

CrtcPageInv == nmi \in BOOLEAN /\ (nmi \/ PageInv)

\* The driver implements the page, for every screen size, text, color and
\* coordinate, until an NMI cuts it short.
THEOREM TerminalImplementsConsole == CrtcSpec => ConsoleUntilNmi
<1>1. CrtcInit => CrtcPageInv
  <2>1. Init => CursorInv
    BY DEF Init, CursorInv
  <2>2. Init => IsMemory(mem)
    BY DEF Init, IsMemory
  <2>3. Init => str \in Seq(Symbols) /\ str = <<>>
    BY DEF Init
  <2>4. Init => ready \in BOOLEAN
    BY Zenon DEF Init
  <2> QED BY <2>1, <2>2, <2>3, <2>4 DEF CrtcInit, CrtcPageInv, PageInv
<1>2. CrtcPageInv /\ [CrtcNext]_crtcVars => CrtcPageInv'
  <2> SUFFICES ASSUME CrtcPageInv, [CrtcNext]_crtcVars PROVE CrtcPageInv'
    OBVIOUS
  <2>1. CASE ~nmi /\ Next /\ UNCHANGED nmi
    BY <2>1, PageInvStep DEF CrtcPageInv
  <2>2. CASE Nmi
    BY <2>2 DEF Nmi, CrtcPageInv
  <2>3. CASE Handler
    BY <2>3 DEF Handler, CrtcPageInv
  <2>4. CASE UNCHANGED crtcVars
    <3>1. UNCHANGED vars /\ UNCHANGED nmi
      BY <2>4 DEF crtcVars
    <3> QED BY <3>1, PageInvStep DEF CrtcPageInv
  <2> QED BY <2>1, <2>2, <2>3, <2>4 DEF CrtcNext
<1>3. CrtcInit => Page!ConsoleInit
  <2> SUFFICES ASSUME CrtcInit PROVE Page!ConsoleInit
    OBVIOUS
  <2>1. OnScreen(Cursor) /\ ready = FALSE
    BY CursorIsOnScreen DEF CrtcInit, Init
  <2> QED BY <2>1 DEF Page!ConsoleInit, Page!Row, Page!Col, OnScreen
<1>4. CrtcPageInv /\ [CrtcNext]_crtcVars => [nmi' \/ Page!ConsoleNext]_(Page!consoleVars)
  <2> SUFFICES ASSUME CrtcPageInv, [CrtcNext]_crtcVars, ~nmi'
               PROVE  Page!ConsoleNext \/ UNCHANGED Page!consoleVars
    OBVIOUS
  <2>1. CASE ~nmi /\ Next /\ UNCHANGED nmi
    BY <2>1, StepIsConsole DEF CrtcPageInv
  <2>2. CASE Nmi \/ Handler
    BY <2>2 DEF Nmi, Handler
  <2>3. CASE UNCHANGED crtcVars
    <3>1. UNCHANGED <<ready, mem, cursor, T_COLOR>>
      BY <2>3 DEF crtcVars, vars
    <3>2. Cursor' = Cursor
      BY <3>1 DEF Cursor, CoordsOf, get_offset_row, get_offset_col
    <3> QED BY <3>1, <3>2 DEF Page!consoleVars
  <2> QED BY <2>1, <2>2, <2>3 DEF CrtcNext
<1> QED BY <1>1, <1>2, <1>3, <1>4, PTL DEF CrtcSpec, ConsoleUntilNmi
=============================================================================
