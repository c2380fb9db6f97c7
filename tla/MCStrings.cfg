SPECIFICATION Spec
CONSTANTS
  Size = 4
  Values <- MCValues
  Fills <- MCFills
INVARIANT KeepsItsPromise
INVARIANT StaysInside
