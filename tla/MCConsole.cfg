SPECIFICATION Spec
CONSTANTS
  p1 = p1
  p2 = p2
  Printers = {p1, p2}
  Chars = {" ", "a", "b"}
  Blank = " "
  Modes <- SmallModes
  SIZE = 3
  MAX_LINES = 3
  MAX_COLS = 3
INVARIANTS OneWriter WholeText
PROPERTIES IsScreen PrintsEnd
CHECK_DEADLOCK FALSE
