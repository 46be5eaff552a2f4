SPECIFICATION Spec
CONSTANTS
  MaxKeys = 2
  MaxOps = 2
  Poll = {p1}
  MaxReloads = 1
  None = None
INVARIANTS
  RegisteredIsAnchored
  BellIsOfThisSession
PROPERTIES
  AnchorsOnlyHeldKeys
  KeyIsNotOverwritten
CHECK_DEADLOCK FALSE
