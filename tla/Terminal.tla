------------------------------- MODULE Terminal -------------------------------
(***************************************************************************)
(* The text terminal of kernel/tty.c: the VGA text memory, the cursor      *)
(* register and the functions that print.  Byte offsets are two per cell.  *)
(*                                                                         *)
(* No interrupt that returns prints, so a call of print_char is one step  *)
(* and a string is printed one character per step; Crtc adds the NMI,      *)
(* which prints from the middle of a call and never returns.  uint8_t and  *)
(* uint16_t never wrap here: coordinates are int8_t, so an offset is at    *)
(* most 2 * (128 * 127 + 127).                                             *)
(***************************************************************************)
EXTENDS Integers, Sequences

CONSTANTS
  MAX_ROWS, MAX_COLS,  (* vga.h                                             *)
  Chars,               (* printable characters                              *)
  Newline, Tab, Space, ErrorMark,
  Colors,              (* foreground and background passed to setcolor      *)
  Messages,            (* strings, as sequences of characters               *)
  Coords,              (* int8_t coordinates passed to writestring_at       *)
  Junk                 (* a cell as the boot loader left it                 *)

Symbols == Chars \cup {Newline, Tab}

ASSUME ScreenAssumption ==
  /\ MAX_ROWS \in 1 .. 127
  /\ MAX_COLS \in 4 .. 127
ASSUME TextAssumption ==
  /\ {Newline, Tab} \cap (Chars \cup {Space, ErrorMark}) = {} /\ Newline # Tab
  /\ Messages \subseteq Seq(Symbols)
ASSUME ColorAssumption == Colors \subseteq (0 .. 15) \X (0 .. 15)
ASSUME CoordsAssumption == Coords \subseteq -128 .. 127

VARIABLES
  ready,    (* T_BUFF is set                                                *)
  mem,      (* the screen's cells and those of one more line behind them    *)
  cursor,   (* the CRT controller's cursor address, in cells                *)
  T_COLOR,
  str,      (* what terminal_writestring_at still has to print              *)
  at        (* its row and col                                              *)

vars == <<ready, mem, cursor, T_COLOR, str, at>>

Cells == 0 .. MAX_ROWS * MAX_COLS - 1
Past  == MAX_ROWS * MAX_COLS .. (MAX_ROWS + 1) * MAX_COLS - 1

\* Mutant: the shift of the whole entry instead of the attribute's.
ColorShift8(fg, bg) == fg + 256 * bg

vga_entry_color(fg, bg) == fg + 16 * bg
WhiteOnBlue == vga_entry_color(15, 1)
WhiteOnRed  == vga_entry_color(15, 4)

vga_entry(c, color) == [ch |-> c, attr |-> color]

-----------------------------------------------------------------------------
(* Offsets.                                                                *)

get_offset(col, row) == 2 * (row * MAX_COLS + col)

get_offset_row(offset) == offset \div (2 * MAX_COLS)

get_offset_col(offset) == (offset - (get_offset_row(offset) * 2 * MAX_COLS)) \div 2

CoordsOf(offset) == [col |-> get_offset_col(offset), row |-> get_offset_row(offset)]
Cursor == CoordsOf(2 * cursor)

\* Mutant: the check of the rows is missing.
OffScreenColumnsOnly(p) == p.col >= MAX_COLS

OffScreen(p) == p.col >= MAX_COLS \/ p.row >= MAX_ROWS

-----------------------------------------------------------------------------
(* handle_scrolling and print_char                                         *)

\* Mutant: the offset just behind the last cell is taken for a visible one.
FitsOneMore(offset) == offset <= 2 * MAX_ROWS * MAX_COLS

Fits(offset) == offset < 2 * MAX_ROWS * MAX_COLS

\* Every line is copied one up; then 2 * MAX_COLS cells, not bytes, are
\* blanked from the start of the last line.
ScrollUp(m) ==
  [i \in Cells \cup Past |-> IF i < (MAX_ROWS - 1) * MAX_COLS THEN m[i + MAX_COLS]
                             ELSE vga_entry(Space, T_COLOR)]

\* Mutant: a tab that stops at the end of the line.
TargetTabClipped(c, p) ==
  CASE c = Newline -> get_offset(0, p.row + 1)
    [] c = Tab     -> get_offset(IF p.col + 4 < MAX_COLS THEN p.col + 4 ELSE MAX_COLS - 1, p.row)
    [] OTHER       -> get_offset(p.col, p.row) + 2

\* Where print_char continues, before scrolling.
Target(c, p) ==
  CASE c = Newline -> get_offset(0, get_offset_row(get_offset(p.col, p.row)) + 1)
    [] c = Tab     -> get_offset(get_offset_col(get_offset(p.col, p.row)) + 4, p.row)
    [] OTHER       -> get_offset(p.col, p.row) + 2

Written(c, p) ==
  IF c \in {Newline, Tab} THEN mem
  ELSE [mem EXCEPT ![get_offset(p.col, p.row) \div 2] = vga_entry(c, T_COLOR)]

\* The offset print_char returns.
Returned(c, p) ==
  IF OffScreen(p) THEN get_offset(p.col, p.row)
  ELSE IF Fits(Target(c, p)) THEN Target(c, p)
  ELSE Target(c, p) - 2 * MAX_COLS

print_char(c, p) ==
  IF OffScreen(p)
  THEN /\ mem' = [mem EXCEPT ![MAX_COLS * MAX_ROWS - 1] = vga_entry(ErrorMark, WhiteOnRed)]
       /\ cursor' = cursor
  ELSE /\ mem' = IF Fits(Target(c, p)) THEN Written(c, p) ELSE ScrollUp(Written(c, p))
       /\ cursor' = Returned(c, p) \div 2

-----------------------------------------------------------------------------
(* The public functions.                                                   *)

Idle == str = <<>>

terminal_initialize ==
  /\ Idle
  /\ ready' = TRUE
  /\ T_COLOR' = WhiteOnBlue
  /\ mem' = [i \in Cells \cup Past |->
               IF i \in Cells THEN vga_entry(Space, WhiteOnBlue) ELSE mem[i]]
  /\ cursor' = get_offset(0, 0) \div 2
  /\ UNCHANGED <<str, at>>

terminal_setcolor(fg, bg) ==
  /\ Idle
  /\ T_COLOR' = vga_entry_color(fg, bg)
  /\ UNCHANGED <<ready, mem, cursor, str, at>>

terminal_putchar(c) ==
  /\ Idle /\ ready
  /\ print_char(c, Cursor)
  /\ UNCHANGED <<ready, T_COLOR, str, at>>

\* Negative coordinates stand for the cursor.
terminal_writestring_at(message, col, row) ==
  /\ Idle /\ ready
  /\ str' = message
  /\ at' = IF col >= 0 /\ row >= 0 THEN [col |-> col, row |-> row] ELSE Cursor
  /\ UNCHANGED <<ready, mem, cursor, T_COLOR>>

\* One turn of its loop.
WriteNext ==
  /\ str # <<>>
  /\ print_char(Head(str), at)
  /\ at' = CoordsOf(Returned(Head(str), at))
  /\ str' = Tail(str)
  /\ UNCHANGED <<ready, T_COLOR>>

Init ==
  /\ ready = FALSE
  /\ mem = [i \in Cells \cup Past |-> Junk]
  /\ cursor \in Cells
  /\ T_COLOR = 0
  /\ str = <<>>
  /\ at = [col |-> 0, row |-> 0]

Next ==
  \/ terminal_initialize
  \/ \E color \in Colors : terminal_setcolor(color[1], color[2])
  \/ \E c \in Symbols : terminal_putchar(c)
  \/ \E message \in Messages, col \in Coords, row \in Coords :
       terminal_writestring_at(message, col, row)
  \/ WriteNext

Spec == Init /\ [][Next]_vars

-----------------------------------------------------------------------------
(* Properties                                                              *)

Cell == [ch : Chars \cup {Space, ErrorMark}, attr : 0 .. 255]

\* Type invariant; nothing is ever stored behind the line after the screen.
TypeOK ==
  /\ ready \in BOOLEAN
  /\ mem \in [Cells \cup Past -> Cell \cup {Junk}]
  /\ cursor \in Nat
  /\ T_COLOR \in 0 .. 255
  /\ str \in Seq(Symbols)
  /\ at \in [col : Nat, row : Nat]

\* The invariant of Crtc's CursorOnScreenUntilNmi, without the NMI.
CursorOnScreen == cursor \in Cells

\* The driver as a page; Crtc states that it implements it.
Page == INSTANCE Console WITH
  Rows <- MAX_ROWS, Cols <- MAX_COLS, Colors <- {vga_entry_color(k[1], k[2]) : k \in Colors},
  InitialColor <- WhiteOnBlue, ErrorColor <- WhiteOnRed,
  on <- ready, color <- T_COLOR, row <- Cursor.row, col <- Cursor.col,
  text <- [y \in 0 .. MAX_ROWS - 1 |-> [x \in 0 .. MAX_COLS - 1 |->
             mem[y * MAX_COLS + x]]]
=============================================================================
