SPECIFICATION PrintfSpec
CONSTANTS
  INT_MAX = 127
  Formats <- AllFormats
  Ints <- EdgeInts
  Strings <- SomeStrings
INVARIANT PrintfTypeOK
INVARIANT PrintsWhatItSays
