CONSTANTS
  Passenger = {p1, p2, p3, p4}
  seats = 2
  Garbage <- MCGarbage
  SEM_VALUE_MAX = 2
SPECIFICATION FairSpec
INVARIANTS AssertFailsOnlyEarly DepartsFull RidersCounted
PROPERTY SeatedDeparts
CHECK_DEADLOCK FALSE
