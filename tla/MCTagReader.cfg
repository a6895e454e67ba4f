SPECIFICATION Spec
CONSTANTS
  CHAR_BUFFER_SIZE = 4
  TAG_LENGTH = 3
  UartDepth = 1
  MaxLine = 4
  a = a
  b = b
  Card = {a, b}
  NUL = NUL
  NEWLINE = NEWLINE
  Char <- CharSet
SYMMETRY Symmetry
INVARIANTS
  TypeOK
  WholeLineReported
  SpliceIsTag
