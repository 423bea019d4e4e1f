CONSTANTS
  Passenger = {p1, p2, p3, p4}
  seats = 2
  Garbage = {0}
  SEM_VALUE_MAX = 2
SPECIFICATION Spec
INVARIANTS AssertHolds
CHECK_DEADLOCK FALSE
