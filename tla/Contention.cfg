CONSTANTS
  ReservoirIds = {r1}
  GateIds = {g1}
  DirectiveIds = {d1, d2}
  ConfirmationIds = {c1, c2}
  Facilities = {f1}
  alice = alice
  bob = bob
  Actors = {alice, bob}
  RolesOf <- SeedRolesOf
  Requests = {q1, q2}
  Operations <- ContentionOperations
  Seeded = {r1, g1, d1}
  SeededReservoirStates = {"normal"}
  SeededGateStates = {"moving"}
  GateTargets = {"open", "closed"}
  MaxReservoirVersion = 1
  MaxGateVersion = 4
  MaxDirectiveVersion = 5
  MaxConfirmationVersion = 2
  MaxVersion <- MCMaxVersion
  VersionLag = 0
  None = None
SPECIFICATION TSpec
CHECK_DEADLOCK FALSE
INVARIANTS
  ReceiptOutcome
  WrittenRowsStay
  NeverWaitInCircles
PROPERTIES
  ImplementsCommits
  ImplementsWorkflow
  EveryRequestEnds
