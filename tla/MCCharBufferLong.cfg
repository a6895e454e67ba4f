SPECIFICATION SpecBuffer
CONSTANTS
  CHAR_BUFFER_SIZE = 4
  a = a
  b = b
  NUL = NUL
  NEWLINE = NEWLINE
  Char = {a, b, NUL}
  MaxLine = 6
INVARIANTS
  CompleteLine
