\* Two admins asking for the same DID at the same time.
SPECIFICATION Spec
CONSTANTS
  Did = {d1}
  Admin = {a1, a2}
  Call = {c1, c2}
  Threshold = 2
  MaxRequests = 2
  MaxRows = 1
  Idle = Idle
SYMMETRY Symmetry
INVARIANTS
  SecondAdminExecutes
CHECK_DEADLOCK FALSE
