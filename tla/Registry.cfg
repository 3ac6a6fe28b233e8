CONSTANTS
  ReservoirIds = {r1}
  GateIds = {g1}
  DirectiveIds = {d1}
  ConfirmationIds = {}
  Facilities = {f1, f2}
  alice = alice
  bob = bob
  Actors = {alice, bob}
  RolesOf <- MCRolesOf
  Requests = {q1, q2}
  Operations <- RegistryOperations
  Seeded = {}
  SeededReservoirStates = {"normal"}
  SeededGateStates = {"closed"}
  GateTargets = {"open"}
  MaxReservoirVersion = 2
  MaxGateVersion = 3
  MaxDirectiveVersion = 2
  MaxConfirmationVersion = 3
  MaxVersion <- MCMaxVersion
  VersionLag = 0
  None = None
SPECIFICATION Spec
SYMMETRY MCSymmetry
CHECK_DEADLOCK FALSE
INVARIANTS
  NoStaleWrite
  RequestsSound
PROPERTIES
  EveryChangeAudited
  StatusesFollowGraphs
