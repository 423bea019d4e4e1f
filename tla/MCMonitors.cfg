CONSTANTS
  Customer = {c1, c2, c3, c4, c5}
  max_seats = 2
  Client = {d1, d2, d3}
  seats = 2
  Spurious = TRUE
SPECIFICATION MCSpec
INVARIANTS NotOvercrowded FewForgotten OfficeInv
PROPERTIES GroupLeaves EatsUnlessForgotten OfficeServes
