\* Two verifications at a time, two nonces, two DIDs and two keys on one device.
SPECIFICATION Spec
CONSTANTS
  Did = {d1, d2}
  Key = {k1, k2}
  Device = {m1}
  Nonce = {n1, n2}
  Token = {x1, x2}
  Call = {c1, c2}
  NONCE_TTL_MS = 0
  MaxTime = 1
  Absent = Absent
  Idle = Idle
SYMMETRY Symmetry
INVARIANTS
  SessionHadController
  UnflaggedLoginIsRepeated
PROPERTIES
  SpentNoncesStaySpent
CHECK_DEADLOCK FALSE
