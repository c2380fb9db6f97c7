-------------------------------- MODULE Console --------------------------------
(***************************************************************************)
(* What the terminal driver promises: a page of Rows lines of Cols cells,  *)
(* a write position that is always on the page, and a page that moves up   *)
(* by one line when the position would leave it at the bottom.  There are  *)
(* no offsets, bytes or registers here; Terminal implements it.            *)
(***************************************************************************)
EXTENDS Integers

CONSTANTS Rows, Cols, Chars, Colors, Newline, Tab, Space, ErrorMark, ErrorColor,
          InitialColor

TabWidth == 4

VARIABLES on, text, row, col, color

consoleVars == <<on, text, row, col, color>>

Row == 0 .. Rows - 1
Col == 0 .. Cols - 1

Cell(c, k) == [ch |-> c, attr |-> k]
BlankLine(k) == [x \in Col |-> Cell(Space, k)]

\* Continue at line r, which may be the one below the page.
MoveTo(page, r, x) ==
  /\ col' = x
  /\ IF r < Rows
     THEN text' = page /\ row' = r
     ELSE /\ text' = [y \in Row |-> IF y < Rows - 1 THEN page[y + 1]
                                    ELSE BlankLine(color)]
          /\ row' = Rows - 1

\* The position after d cells to the right of (r, x), d at most a line.
MoveRight(page, r, x, d) ==
  IF x + d < Cols THEN MoveTo(page, r, x + d) ELSE MoveTo(page, r + 1, x + d - Cols)

Put(c, r, x) ==
  /\ on
  /\ CASE c = Newline -> MoveTo(text, r + 1, 0)
       [] c = Tab     -> MoveRight(text, r, x, TabWidth)
       [] OTHER       -> MoveRight([text EXCEPT ![r][x] = Cell(c, color)], r, x, 1)
  /\ UNCHANGED <<on, color>>

\* A character for a place that is not on the page is not written; the corner
\* of the page shows it.
Refuse ==
  /\ on
  /\ text' = [text EXCEPT ![Rows - 1][Cols - 1] = Cell(ErrorMark, ErrorColor)]
  /\ UNCHANGED <<on, row, col, color>>

Clear ==
  /\ on' = TRUE
  /\ color' = InitialColor
  /\ text' = [y \in Row |-> BlankLine(InitialColor)]
  /\ row' = 0 /\ col' = 0

Recolor(k) ==
  /\ color' = k
  /\ UNCHANGED <<on, text, row, col>>

ConsoleInit == on = FALSE /\ row \in Row /\ col \in Col

ConsoleNext ==
  \/ Clear
  \/ Refuse
  \/ \E k \in Colors : Recolor(k)
  \/ \E c \in Chars \cup {Newline, Tab}, r \in Row, x \in Col : Put(c, r, x)

ConsoleSpec == ConsoleInit /\ [][ConsoleNext]_consoleVars
=============================================================================
