---------------------------------- MODULE Crtc ----------------------------------
(***************************************************************************)
(* The terminal when an NMI may strike inside it.  set_cursor_offset sends *)
(* the high byte of the position to the CRT controller and then the low    *)
(* one; handle_scrolling and terminal_initialize change the screen cell by *)
(* cell.  The NMI's handler (isr_handler) prints through terminal_putchar, *)
(* reading the position back, and never returns.                           *)
(*                                                                         *)
(* A cell is two bytes; that one of them may be moved before the other is  *)
(* left out.  The handler's output is any sequence of characters.          *)
(***************************************************************************)
EXTENDS Terminal

CONSTANT LowCells   (* positions that differ in the low byte only: 256      *)

ASSUME LowCellsAssumption == LowCells \in Nat \ {0}

VARIABLE nmi        (* an NMI has been taken                                *)

crtcVars == <<vars, nmi>>

RedOnBlack == vga_entry_color(4, 0)   \* isr_handler: red on black

-----------------------------------------------------------------------------
(* What is there when print_char or terminal_initialize is cut short.      *)

\* Between the two writes of set_cursor_offset.
Torn(old, new) == (new - (new % LowCells)) + (old % LowCells)

\* The first k cells have been moved up, or blanked.
ScrollUpTo(m, k) == [i \in DOMAIN m |-> IF i < k THEN ScrollUp(m)[i] ELSE m[i]]

\* print_char(c, p), stopped at any point.
CutPrint(c, p) ==
  /\ ~OffScreen(p)
  /\ LET new == Returned(c, p) \div 2
     IN IF Fits(Target(c, p))
        THEN \/ mem' = mem /\ cursor' = cursor
             \/ mem' = Written(c, p) /\ cursor' \in {cursor, Torn(cursor, new)}
        ELSE \/ /\ \E k \in 0 .. (MAX_ROWS + 1) * MAX_COLS : mem' = ScrollUpTo(Written(c, p), k)
                /\ cursor' = cursor
             \/ mem' = ScrollUp(Written(c, p)) /\ cursor' = Torn(cursor, new)

\* The screen is cleared for the first k cells, and at the end the cursor set.
CutInitialize ==
  \E k \in 0 .. MAX_ROWS * MAX_COLS :
    /\ mem' = [i \in DOMAIN mem |-> IF i < k THEN vga_entry(Space, WhiteOnBlue) ELSE mem[i]]
    /\ cursor' \in IF k = MAX_ROWS * MAX_COLS THEN {cursor, Torn(cursor, 0)} ELSE {cursor}

-----------------------------------------------------------------------------

\* The NMI arrives between two calls or inside one; isr_handler sets its color.
\* Before T_BUFF is set is another matter: Kernel has that.
Nmi ==
  /\ ~nmi
  /\ nmi' = TRUE
  /\ \/ ready /\ UNCHANGED <<mem, cursor>>
     \/ Idle /\ CutInitialize
     \/ ready /\ Idle /\ \E c \in Symbols : CutPrint(c, Cursor)
     \/ ~Idle /\ CutPrint(Head(str), at)
  /\ ready' = TRUE /\ T_COLOR' = RedOnBlack
  /\ str' = <<>>
  /\ UNCHANGED at

Handler == nmi /\ (\E c \in Symbols : terminal_putchar(c)) /\ UNCHANGED nmi

CrtcInit == Init /\ nmi = FALSE

CrtcNext ==
  \/ ~nmi /\ Next /\ UNCHANGED nmi
  \/ Nmi
  \/ Handler

CrtcSpec == CrtcInit /\ [][CrtcNext]_crtcVars

-----------------------------------------------------------------------------
(* Properties                                                              *)

\* Type invariant.
CrtcTypeOK == TypeOK /\ nmi \in BOOLEAN

\* Whatever is printed wherever, the cursor is left on the screen, so that the
\* next terminal_putchar does not end in the out-of-bounds branch.
CursorOnScreenUntilNmi == nmi \/ CursorOnScreen

\* The driver implements the page until an NMI cuts it short: moving lines in
\* memory, wrapping at the right edge, tabs across it and the handling of bad
\* coordinates all amount to a step of Console.
ConsoleUntilNmi ==
  Page!ConsoleInit /\ [][nmi' \/ Page!ConsoleNext]_(Page!consoleVars)

\* A torn position mixes two that are on the screen, yet may be off it.  Then
\* print_char takes every character of the NMI's message for a bad coordinate:
\* the message is lost, and all it does to the screen is the mark in the corner.
TornOutputIsContained ==
  [][nmi /\ cursor \notin Cells =>
       /\ cursor' = cursor
       /\ \A i \in DOMAIN mem : mem'[i] = mem[i] \/ i = MAX_ROWS * MAX_COLS - 1]_crtcVars
=============================================================================
