CONSTANTS
  Accounts = {alice}
  Calls = {x1, x2}
  LastVersion = 2
  MaxLost = 1
  MaxElsewhere = 1
  MaxChanges = 1
  None = None
SPECIFICATION Spec
CHECK_DEADLOCK FALSE
INVARIANTS
  WorkspaceTypeOK
PROPERTIES
  AppliedAsShown
  ClosedMeansApplied
  RevokedTokensPowerless
  EventuallyFresh
