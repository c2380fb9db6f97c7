SPECIFICATION CrtcSpec
CONSTANTS
  MAX_ROWS = 2
  MAX_COLS = 4
  LowCells = 3
  Chars = {"a"}
  Newline = Newline
  Tab = Tab
  Space = " "
  ErrorMark = "E"
  Colors <- MCColors
  Messages <- MCMessages
  Coords <- MCCoords
  Junk = Junk
INVARIANT CrtcTypeOK
INVARIANT CursorOnScreenUntilNmi
PROPERTY ConsoleUntilNmi
PROPERTY TornOutputIsContained
