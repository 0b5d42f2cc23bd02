CONSTANTS
  Words <- MCWords
  sepChar = "-"
  Garbage = "x"
SPECIFICATION NameSpec
INVARIANT RoundTrip
CHECK_DEADLOCK FALSE
