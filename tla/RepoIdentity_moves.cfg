SPECIFICATION Spec
CONSTANTS
  k1 = k1
  k2 = k2
  k3 = k3
  k4 = k4
  k5 = k5
  Path = {p1, p2, p3, p4}
  Checkout = {k1, k2, k4, k5}
  Origin = {"origin", "other"}
  Remote <- Remotes
  Caller = {c1}
  Moves = TRUE
  Reuse = FALSE
SYMMETRY Interchangeable
INVARIANTS
  TypeOK
  
  
CHECK_DEADLOCK FALSE
