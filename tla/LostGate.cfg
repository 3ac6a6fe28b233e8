CONSTANTS
  ReservoirIds = {r1}
  GateIds = {g1}
  DirectiveIds = {d1}
  ConfirmationIds = {c1}
  Facilities = {f1}
  alice = alice
  bob = bob
  Actors = {alice, bob}
  RolesOf <- MCRolesOf
  Requests = {q1, q2}
  Operations <- LifecycleOperations
  Seeded = {r1, g1}
  SeededReservoirStates = {"normal"}
  SeededGateStates = {"closed"}
  GateTargets = {"open", "closed"}
  MaxReservoirVersion = 1
  MaxGateVersion = 5
  MaxDirectiveVersion = 5
  MaxConfirmationVersion = 2
  MaxVersion <- MCMaxVersion
  VersionLag = 0
  None = None
SPECIFICATION Spec
SYMMETRY MCSymmetry
CHECK_DEADLOCK FALSE
INVARIANTS
  AbortAvailable
