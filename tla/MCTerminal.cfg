CONSTANTS
  a = a
  b = b
  NUL = NUL
  Chars <- MCChars
  LINE_WIDTH = 5
  MaxHistory = 2
  MaxBack = 3
SPECIFICATION Spec
CHECK_DEADLOCK FALSE
PROPERTIES
  EditsAsShown
