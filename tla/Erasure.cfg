\* Three admins, two calls at a time, two requests and one vault row of one DID.
SPECIFICATION Spec
CONSTANTS
  Did = {d1}
  Admin = {a1, a2, a3}
  Call = {c1, c2}
  Threshold = 2
  MaxRequests = 2
  MaxRows = 1
  Idle = Idle
SYMMETRY Symmetry
INVARIANTS
  ExecutedRowsAreGone
  ExecutorIsSecondAdmin
PROPERTIES
  ErasureNeedsTwoAdmins
CHECK_DEADLOCK FALSE
