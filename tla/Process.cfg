CONSTANTS
  MaxAttempts = 2
  Deletable = {"receipts"}
  MaxFaults = 2
  Keys = {k1, k2}
  Calls = {x1, x2}
  Limit = 1
  CleanAt = 1
  MaxCalls = 2
  LastWindow = 2
SPECIFICATION Spec
CHECK_DEADLOCK FALSE
INVARIANTS
  ServerTypeOK
  ServesSeeded
  UnsignedOnlyAfterCut
  AdmittedWithinLimit
  RefusedOnlyOverLimit
  TrackedKeysBounded
PROPERTIES
  ComesBackUnlessHidden
