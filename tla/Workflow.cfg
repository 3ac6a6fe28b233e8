CONSTANTS
  ReservoirIds = {r1}
  GateIds = {g1}
  DirectiveIds = {d1}
  ConfirmationIds = {c1}
  Facilities = {f1}
  alice = alice
  bob = bob
  Actors = {alice, bob}
  RolesOf <- MCRolesOf
  Requests = {q1, q2}
  Operations <- WorkflowOperations
  Seeded = {r1, g1}
  SeededReservoirStates = {"normal"}
  SeededGateStates = {"open", "closed", "moving"}
  GateTargets = {"open", "closed", "locked"}
  MaxReservoirVersion = 1
  MaxGateVersion = 4
  MaxDirectiveVersion = 6
  MaxConfirmationVersion = 3
  MaxVersion <- MCMaxVersion
  VersionLag = 1
  None = None
SPECIFICATION Spec
SYMMETRY MCSymmetry
CHECK_DEADLOCK FALSE
INVARIANTS
  TypeOK
  RequestsSound
  EvidenceNeverBlocks
  TwoPersonRule
  ReceiptOutcome
PROPERTIES
  EveryChangeAudited
  StatusesFollowGraphs
  SubmittedPlanFrozen
  ImplementsWorkflow
