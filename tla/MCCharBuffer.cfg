SPECIFICATION SpecBuffer
CONSTANTS
  CHAR_BUFFER_SIZE = 5
  a = a
  b = b
  NUL = NUL
  NEWLINE = NEWLINE
  Char = {a, b, NUL}
  MaxLine = 8
SYMMETRY Symmetry
INVARIANTS
  BufferTypeOK
  BufferIsTail
  LineReadBack
