CONSTANTS
  Customer = {c1, c2, c3, c4}
  max_seats = 2
SPECIFICATION Spec
INVARIANTS NobodyForgotten
