\* Both programs stop at their end, as AllEnd and AllProcessesEnd say.
CONSTANTS
  a = a
  A = A
  b = b
  B = B
  Swap <- MCSwap
  Space = Space
  Nul = Nul
  One = One
  EOF = EOF
  NOTHING = NOTHING
  MaxLen = 5
  maxprime = 12
  PIPE_SIZE = 2
SPECIFICATION MCSpec
INVARIANTS NothingLost CountsRight PrimesInOrder
PROPERTIES AllEnd AllProcessesEnd
CHECK_DEADLOCK FALSE
