CONSTANTS
  MaxAttempts = 2
  Deletable = {"receipts"}
  MaxFaults = 1
  Keys = {k1, k2}
  Calls = {x1, x2}
  Limit = 1
  CleanAt = 1
  MaxCalls = 0
  LastWindow = 0
SPECIFICATION Spec
CHECK_DEADLOCK FALSE
PROPERTIES
  ComesBack
