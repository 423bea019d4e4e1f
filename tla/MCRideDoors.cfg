CONSTANTS
  Passenger = {p1, p2, p3}
  seats = 2
  Garbage <- MCGarbage
  SEM_VALUE_MAX = 2
SPECIFICATION Spec
INVARIANTS AllWantToLeave
CHECK_DEADLOCK FALSE
