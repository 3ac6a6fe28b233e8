-------------------------- MODULE DispatchTypeProofs ------------------------
(***************************************************************************)
(* Type correctness of DispatchControl.  TypeOK is not inductive alone: a  *)
(* transaction writes what its request carries, so that it keeps the       *)
(* tables well-formed only if the request was validated.  TypeOK and       *)
(* RequestsValid together are inductive.                                   *)
(***************************************************************************)
EXTENDS DispatchControl, TLAPS

\* What every request carries passes the checks of all four services.
Valid(q) ==
  ReservoirValid(q) /\ GateValid(q) /\ DirectiveValid(q) /\ ConfirmationValid(q)

Typed == TypeOK /\ RequestsValid

-----------------------------------------------------------------------------
(* Rows. *)

\* The rows that stand for nothing belong to their tables, and are not live.
LEMMA EmptyRows ==
  /\ NoReservoir \in Reservoir /\ ~NoReservoir.live
  /\ NoGate \in GateUnit /\ ~NoGate.live
  /\ NoDirective \in OperationDirective /\ ~NoDirective.live
  /\ NoConfirmation \in ExecutionConfirmation /\ ~NoConfirmation.live
  BY DEF NoReservoir, NoGate, NoDirective, NoConfirmation,
         Reservoir, GateUnit, OperationDirective, ExecutionConfirmation

\* A live row is a row that was inserted.
LEMMA LiveRows ==
  /\ \A x \in Reservoir : x.live => x \in PresentReservoir
  /\ \A x \in GateUnit : x.live => x \in PresentGate
  /\ \A x \in OperationDirective : x.live => x \in PresentDirective
  /\ \A x \in ExecutionConfirmation : x.live => x \in PresentConfirmation
  BY EmptyRows DEF Reservoir, GateUnit, OperationDirective, ExecutionConfirmation

\* Versions are bounded by a natural number.
LEMMA BoundType == \A id \in EntityIds : MaxVersion[id] \in Nat
  BY BoundsAssumption

\* Updating, inserting and deleting a row keeps the table of reservoirs well-formed.
LEMMA ReservoirTable ==
  ASSUME reservoirs \in [ReservoirIds -> Reservoir], NEW id \in ReservoirIds,
         NEW row \in PresentReservoir, NEW v \in Nat
  PROVE  /\ Write(reservoirs, id, v, row) \in [ReservoirIds -> Reservoir]
         /\ Insert(reservoirs, id, row) \in [ReservoirIds -> Reservoir]
         /\ reservoirs[id].live => SoftDelete(reservoirs, id) \in [ReservoirIds -> Reservoir]
  <1>1. [row EXCEPT !.version = v + 1] \in PresentReservoir
    BY DEF PresentReservoir
  <1>2. ASSUME reservoirs[id].live
        PROVE  [reservoirs[id] EXCEPT !.live = FALSE] \in PresentReservoir
    <2>1. reservoirs[id] \in PresentReservoir
      BY <1>2, LiveRows
    <2> QED BY <2>1 DEF PresentReservoir
  <1> QED BY <1>1, <1>2 DEF Write, Insert, SoftDelete, Reservoir

\* Updating, inserting and deleting a row keeps the table of gates well-formed.
LEMMA GateTable ==
  ASSUME gates \in [GateIds -> GateUnit], NEW id \in GateIds,
         NEW row \in PresentGate, NEW v \in Nat
  PROVE  /\ Write(gates, id, v, row) \in [GateIds -> GateUnit]
         /\ Insert(gates, id, row) \in [GateIds -> GateUnit]
         /\ gates[id].live => SoftDelete(gates, id) \in [GateIds -> GateUnit]
  <1>1. [row EXCEPT !.version = v + 1] \in PresentGate
    BY DEF PresentGate
  <1>2. ASSUME gates[id].live
        PROVE  [gates[id] EXCEPT !.live = FALSE] \in PresentGate
    <2>1. gates[id] \in PresentGate
      BY <1>2, LiveRows
    <2> QED BY <2>1 DEF PresentGate
  <1> QED BY <1>1, <1>2 DEF Write, Insert, SoftDelete, GateUnit

\* Updating, inserting and deleting a row keeps the table of directives well-formed.
LEMMA DirectiveTable ==
  ASSUME directives \in [DirectiveIds -> OperationDirective], NEW id \in DirectiveIds,
         NEW row \in PresentDirective, NEW v \in Nat
  PROVE  /\ Write(directives, id, v, row) \in [DirectiveIds -> OperationDirective]
         /\ Insert(directives, id, row) \in [DirectiveIds -> OperationDirective]
         /\ directives[id].live => SoftDelete(directives, id) \in [DirectiveIds -> OperationDirective]
  <1>1. [row EXCEPT !.version = v + 1] \in PresentDirective
    BY DEF PresentDirective
  <1>2. ASSUME directives[id].live
        PROVE  [directives[id] EXCEPT !.live = FALSE] \in PresentDirective
    <2>1. directives[id] \in PresentDirective
      BY <1>2, LiveRows
    <2> QED BY <2>1 DEF PresentDirective
  <1> QED BY <1>1, <1>2 DEF Write, Insert, SoftDelete, OperationDirective

\* Updating, inserting and deleting a row keeps the table of confirmations well-formed.
LEMMA ConfirmationTable ==
  ASSUME confirmations \in [ConfirmationIds -> ExecutionConfirmation], NEW id \in ConfirmationIds,
         NEW row \in PresentConfirmation, NEW v \in Nat
  PROVE  /\ Write(confirmations, id, v, row) \in [ConfirmationIds -> ExecutionConfirmation]
         /\ Insert(confirmations, id, row) \in [ConfirmationIds -> ExecutionConfirmation]
         /\ confirmations[id].live => SoftDelete(confirmations, id) \in [ConfirmationIds -> ExecutionConfirmation]
  <1>1. [row EXCEPT !.version = v + 1] \in PresentConfirmation
    BY DEF PresentConfirmation
  <1>2. ASSUME confirmations[id].live
        PROVE  [confirmations[id] EXCEPT !.live = FALSE] \in PresentConfirmation
    <2>1. confirmations[id] \in PresentConfirmation
      BY <1>2, LiveRows
    <2> QED BY <2>1 DEF PresentConfirmation
  <1> QED BY <1>1, <1>2 DEF Write, Insert, SoftDelete, ExecutionConfirmation

-----------------------------------------------------------------------------
(* Requests and audit trails. *)

\* The free slot is a request that carries nothing to check.
LEMMA IdleSound == Idle \in Request /\ Valid(Idle)
  <1>1. Idle \in Request
    BY EmptyRows DEF Idle, Request, Plan, NoPlan
  <1>2. Valid(Idle)
    BY DEF Idle, Valid, ReservoirValid, GateValid, DirectiveValid, ConfirmationValid
  <1> QED BY <1>1, <1>2

\* A request that begins with valid contents keeps Typed.
LEMMA BeginSound ==
  ASSUME Typed, NEW r \in Requests, NEW F \in Request, Valid(F), Begin(r, F)
  PROVE  Typed'
  <1>1. req' = [req EXCEPT ![r] = F] /\ req \in [Requests -> Request]
    BY DEF Begin, Typed, TypeOK
  <1>2. TypeOK'
    BY <1>1 DEF Begin, Typed, TypeOK
  <1>3. \A s \in Requests : Valid(req'[s])
    BY <1>1 DEF Typed, RequestsValid, Valid
  <1> QED BY <1>2, <1>3 DEF Typed, RequestsValid, Valid

\* A request that ends keeps the requests sound.
LEMMA FinishSound ==
  ASSUME Typed, NEW r \in Requests, Finish(r)
  PROVE  req' \in [Requests -> Request] /\ RequestsValid'
  <1>1. req' = [req EXCEPT ![r] = Idle] /\ req \in [Requests -> Request]
    BY DEF Finish, Typed, TypeOK
  <1>2. \A s \in Requests : Valid(req'[s])
    BY <1>1, IdleSound DEF Typed, RequestsValid, Valid
  <1> QED BY <1>1, <1>2, IdleSound DEF RequestsValid, Valid

\* A request in flight is a well-formed request that was validated.
LEMMA InFlightSound ==
  ASSUME Typed, NEW r \in Requests
  PROVE  req[r] \in Request /\ Valid(req[r])
  BY DEF Typed, TypeOK, RequestsValid, Valid

\* One more audit entry is a trail again.
LEMMA LoggedType ==
  ASSUME NEW trail \in [EntityIds -> AuditTrail], NEW id \in EntityIds,
         NEW before \in Statuses \cup {None}, NEW after \in Statuses \cup {None, "deleted"}
  PROVE  Logged(trail, id, before, after) \in [EntityIds -> AuditTrail]
  <1>1. trail[id] \in AuditTrail
    OBVIOUS
  <1>2. trail[id].n \in Nat
    BY <1>1 DEF AuditTrail
  <1>3. trail[id].n + 1 \in Nat
    BY <1>2
  <1>4. [n |-> trail[id].n + 1, before |-> before, after |-> after] \in AuditTrail
    BY <1>3 DEF AuditTrail
  <1> QED BY <1>4 DEF Logged

\* A step that ends a request is Typed if what it does to the tables is.
LEMMA CommitSound ==
  ASSUME Typed, NEW r \in Requests, Finish(r),
         reservoirs' \in [ReservoirIds -> Reservoir],
         gates' \in [GateIds -> GateUnit],
         directives' \in [DirectiveIds -> OperationDirective],
         confirmations' \in [ConfirmationIds -> ExecutionConfirmation],
         approvals' \subseteq DirectiveApproval,
         audit' \in [EntityIds -> AuditTrail]
  PROVE  Typed'
  BY FinishSound DEF Typed, TypeOK

-----------------------------------------------------------------------------
(* The initial states. *)

LEMMA InitTyped == Init => Typed
  <1> SUFFICES ASSUME Init PROVE Typed
    OBVIOUS
  <1>1. reservoirs \in [ReservoirIds -> Reservoir]
    <2>1. SUFFICES ASSUME NEW s \in SeededReservoirStates, NEW f \in Facilities
          PROVE  [live |-> TRUE, version |-> 1, status |-> s, facility |-> f]
                   \in Reservoir
      BY EmptyRows DEF Init, SeededReservoir
    <2> QED BY SeedAssumption DEF Reservoir, PresentReservoir, ReservoirStates
  <1>2. gates \in [GateIds -> GateUnit]
    <2>1. SUFFICES ASSUME NEW s \in SeededGateStates, NEW f \in Facilities,
                          NEW res \in ReservoirIds
          PROVE  [live |-> TRUE, version |-> 1, status |-> s, facility |-> f,
                  reservoir |-> res] \in GateUnit
      BY EmptyRows DEF Init, SeededGate
    <2> QED BY SeedAssumption DEF GateUnit, PresentGate, GateStates
  <1>3. /\ directives \in [DirectiveIds -> OperationDirective]
        /\ confirmations \in [ConfirmationIds -> ExecutionConfirmation]
        /\ approvals \subseteq DirectiveApproval
    <2>1. SeededDirective \subseteq OperationDirective
      <3>1. SUFFICES ASSUME NEW s \in {"draft", "pending", "executing"},
                            NEW f \in Facilities, NEW g \in GateIds,
                            NEW t \in GateTargets,
                            NEW a \in Actors \cup {None}, NEW b \in Actors \cup {None}
            PROVE  [live |-> TRUE, version |-> 1, status |-> s, facility |-> f,
                    gate |-> g, gateState |-> t, submittedBy |-> a, approvedBy |-> b]
                     \in OperationDirective
        BY DEF SeededDirective
      <3> QED BY DEF OperationDirective, PresentDirective, DirectiveStates
    <2>2. SeededConfirmation \subseteq ExecutionConfirmation
      <3>1. SUFFICES ASSUME NEW f \in Facilities, NEW d \in DirectiveIds
            PROVE  [live |-> TRUE, version |-> 1, status |-> "pending",
                    facility |-> f, directive |-> d] \in ExecutionConfirmation
        BY DEF SeededConfirmation
      <3> QED BY DEF ExecutionConfirmation, PresentConfirmation, ConfirmationStates
    <2>3. directives \in [DirectiveIds -> OperationDirective]
      <3>1. directives \in [DirectiveIds -> SeededDirective \cup {NoDirective}]
        BY DEF Init
      <3> QED BY <3>1, <2>1, EmptyRows
    <2>4. confirmations \in [ConfirmationIds -> ExecutionConfirmation]
      <3>1. confirmations \in [ConfirmationIds -> SeededConfirmation \cup {NoConfirmation}]
        BY DEF Init
      <3> QED BY <3>1, <2>2, EmptyRows
    <2> QED
      BY <2>3, <2>4 DEF Init, SeededApprovals
  <1>4. audit \in [EntityIds -> AuditTrail]
    BY DEF Init, NoTrail, AuditTrail
  <1>5. req \in [Requests -> Request] /\ \A r \in Requests : Valid(req[r])
    BY IdleSound DEF Init
  <1> QED
    BY <1>1, <1>2, <1>3, <1>4, <1>5 DEF Typed, TypeOK, RequestsValid, Valid

-----------------------------------------------------------------------------
(* Reservoirs. *)

\* Every step of the reservoir service keeps Typed.
LEMMA ReservoirTyped ==
  ASSUME Typed, NEW r \in Requests, ReservoirNext(r)
  PROVE  Typed'
  <1>1. ASSUME NEW id \in ReservoirIds,
               NEW f \in Facilities,
               BeginCreateReservoir(r, id, f)
        PROVE  Typed'
    <2> DEFINE F == [Idle EXCEPT !.op = "CreateReservoir", !.id = id,
                        !.plan = [NoPlan EXCEPT !.facility = f]]
    <2>1. id \in EntityIds
      BY <1>1, BoundType, EmptyRows, LiveRows
      DEF EntityIds
    <2>2. F \in Request
      BY <2>1, EmptyRows DEF Idle, Request, Plan, NoPlan, AllOperations, EntityIds
    <2>3. Valid(F)
      BY <1>1, <2>1
      DEF Idle, NoPlan, 
             Valid, ReservoirValid, GateValid, DirectiveValid,
             ConfirmationValid
    <2> QED BY <2>2, <2>3, <1>1, BeginSound DEF BeginCreateReservoir
  <1>2. CASE CommitCreateReservoir(r)
    <2> DEFINE q == req[r]
    <2>1. q \in Request /\ Valid(q) /\ q.op = "CreateReservoir"
      BY <1>2, InFlightSound DEF CommitCreateReservoir, InFlight
    <2>2. q.id \in ReservoirIds /\ q.plan.facility \in Facilities
      BY <2>1, LiveRows DEF Valid, ReservoirValid, Request
    <2>3. [live |-> TRUE, version |-> 1, status |-> ReservoirInitialStatus,
           facility |-> q.plan.facility] \in PresentReservoir
      BY <2>2 DEF PresentReservoir, ReservoirStates, ReservoirInitialStatus
    <2>4. reservoirs' \in [ReservoirIds -> Reservoir]
      BY <1>2, <2>2, <2>3, ReservoirTable DEF CommitCreateReservoir, Typed, TypeOK
    <2>5. audit' \in [EntityIds -> AuditTrail]
      BY <1>2, <2>2, LoggedType
      DEF CommitCreateReservoir, EntityIds, Statuses, Typed, TypeOK, PresentReservoir, ReservoirStates, ReservoirInitialStatus
    <2> QED
      BY <1>2, <2>4, <2>5, CommitSound DEF CommitCreateReservoir, Typed, TypeOK
  <1>3. ASSUME NEW id \in ReservoirIds,
               NEW f \in Facilities,
               NEW e \in 1..MaxVersion[id],
               BeginUpdateReservoir(r, id, f, e)
        PROVE  Typed'
    <2> DEFINE F == [Idle EXCEPT !.op = "UpdateReservoir", !.id = id, !.exp = e,
                        !.plan = [NoPlan EXCEPT !.facility = f],
                        !.res = reservoirs[id]]
    <2>1. id \in EntityIds /\ e \in Nat /\ e \in 1..reservoirs[id].version
          /\ reservoirs[id] \in Reservoir /\ reservoirs[id].live
      BY <1>3, BoundType, EmptyRows, LiveRows
      DEF BeginUpdateReservoir, VersionsSent, Live, EntityIds, Typed, TypeOK
    <2>2. F \in Request
      BY <2>1, EmptyRows DEF Idle, Request, Plan, NoPlan, AllOperations, EntityIds
    <2>3. Valid(F)
      BY <1>3, <2>1
      DEF Idle, NoPlan, 
             Valid, ReservoirValid, GateValid, DirectiveValid,
             ConfirmationValid
    <2> QED BY <2>2, <2>3, <1>3, BeginSound DEF BeginUpdateReservoir
  <1>4. CASE CommitUpdateReservoir(r)
    <2> DEFINE q == req[r]
    <2>1. q \in Request /\ Valid(q) /\ q.op = "UpdateReservoir"
      BY <1>4, InFlightSound DEF CommitUpdateReservoir, InFlight
    <2>2. q.id \in ReservoirIds /\ q.plan.facility \in Facilities /\ q.exp \in Nat
          /\ q.res \in PresentReservoir
      BY <2>1, LiveRows DEF Valid, ReservoirValid, Request
    <2>3. [q.res EXCEPT !.facility = q.plan.facility] \in PresentReservoir
      BY <2>2 DEF PresentReservoir, ReservoirStates, ReservoirInitialStatus
    <2>4. reservoirs' \in [ReservoirIds -> Reservoir]
      BY <1>4, <2>2, <2>3, ReservoirTable DEF CommitUpdateReservoir, Typed, TypeOK
    <2>5. audit' \in [EntityIds -> AuditTrail]
      BY <1>4, <2>2, LoggedType
      DEF CommitUpdateReservoir, EntityIds, Statuses, Typed, TypeOK, PresentReservoir
    <2> QED
      BY <1>4, <2>4, <2>5, CommitSound DEF CommitUpdateReservoir, Typed, TypeOK
  <1>5. ASSUME NEW id \in ReservoirIds,
               NEW to \in ReservoirStates,
               NEW e \in 1..MaxVersion[id],
               BeginTransitionReservoir(r, id, to, e)
        PROVE  Typed'
    <2> DEFINE F == [Idle EXCEPT !.op = "TransitionReservoir", !.id = id, !.to = to,
                        !.exp = e, !.res = reservoirs[id]]
    <2>1. id \in EntityIds /\ e \in Nat /\ e \in 1..reservoirs[id].version
          /\ reservoirs[id] \in Reservoir /\ reservoirs[id].live
      BY <1>5, BoundType, EmptyRows, LiveRows
      DEF BeginTransitionReservoir, VersionsSent, Live, EntityIds, Typed, TypeOK
    <2>2. F \in Request
      BY <2>1, EmptyRows DEF Idle, Request, Plan, NoPlan, AllOperations, EntityIds, Statuses
    <2>3. Valid(F)
      BY <1>5, <2>1
      DEF Idle, NoPlan, BeginTransitionReservoir,
             Valid, ReservoirValid, GateValid, DirectiveValid,
             ConfirmationValid
    <2> QED BY <2>2, <2>3, <1>5, BeginSound DEF BeginTransitionReservoir
  <1>6. CASE CommitTransitionReservoir(r)
    <2> DEFINE q == req[r]
    <2>1. q \in Request /\ Valid(q) /\ q.op = "TransitionReservoir"
      BY <1>6, InFlightSound DEF CommitTransitionReservoir, InFlight
    <2>2. q.id \in ReservoirIds /\ q.to \in ReservoirStates /\ q.exp \in Nat
          /\ q.res \in PresentReservoir
      BY <2>1, LiveRows DEF Valid, ReservoirValid, Request, CanTransition, ReservoirTransitions,
          ReservoirStates
    <2>3. [q.res EXCEPT !.status = q.to] \in PresentReservoir
      BY <2>2 DEF PresentReservoir, ReservoirStates, ReservoirInitialStatus
    <2>4. reservoirs' \in [ReservoirIds -> Reservoir]
      BY <1>6, <2>2, <2>3, ReservoirTable DEF CommitTransitionReservoir, Typed, TypeOK
    <2>5. audit' \in [EntityIds -> AuditTrail]
      BY <1>6, <2>2, LoggedType
      DEF CommitTransitionReservoir, EntityIds, Statuses, Typed, TypeOK, PresentReservoir
    <2> QED
      BY <1>6, <2>4, <2>5, CommitSound DEF CommitTransitionReservoir, Typed, TypeOK
  <1>7. ASSUME NEW id \in ReservoirIds,
               BeginDeleteReservoir(r, id)
        PROVE  Typed'
    <2> DEFINE F == [Idle EXCEPT !.op = "DeleteReservoir", !.id = id,
                        !.res = reservoirs[id]]
    <2>1. id \in EntityIds /\ reservoirs[id] \in Reservoir /\ reservoirs[id].live
      BY <1>7, BoundType, EmptyRows, LiveRows
      DEF BeginDeleteReservoir, Live, EntityIds, Typed, TypeOK
    <2>2. F \in Request
      BY <2>1, EmptyRows DEF Idle, Request, Plan, NoPlan, AllOperations, EntityIds
    <2>3. Valid(F)
      BY <1>7, <2>1
      DEF Idle, NoPlan, 
             Valid, ReservoirValid, GateValid, DirectiveValid,
             ConfirmationValid
    <2> QED BY <2>2, <2>3, <1>7, BeginSound DEF BeginDeleteReservoir
  <1>8. CASE CommitDeleteReservoir(r)
    <2> DEFINE q == req[r]
    <2>1. q \in Request /\ Valid(q) /\ q.op = "DeleteReservoir"
      BY <1>8, InFlightSound DEF CommitDeleteReservoir, InFlight
    <2>2. q.id \in ReservoirIds /\ q.res \in PresentReservoir
      BY <2>1, LiveRows DEF Valid, ReservoirValid, Request
    <2>3. reservoirs' \in [ReservoirIds -> Reservoir]
      BY <1>8, <2>2, ReservoirTable DEF CommitDeleteReservoir, Live, Typed, TypeOK, PresentReservoir
    <2>4. audit' \in [EntityIds -> AuditTrail]
      BY <1>8, <2>2, LoggedType
      DEF CommitDeleteReservoir, EntityIds, Statuses, Typed, TypeOK, PresentReservoir
    <2> QED
      BY <1>8, <2>3, <2>4, CommitSound DEF CommitDeleteReservoir, Typed, TypeOK
  <1> QED
    BY <1>1, <1>2, <1>3, <1>4, <1>5, <1>6, <1>7, <1>8 DEF ReservoirNext

-----------------------------------------------------------------------------
(* Gates. *)

\* Every step of the gate service keeps Typed.
LEMMA GateTyped ==
  ASSUME Typed, NEW r \in Requests, GateNext(r)
  PROVE  Typed'
  <1>1. ASSUME NEW id \in GateIds,
               NEW res \in ReservoirIds,
               NEW f \in Facilities,
               BeginCreateGate(r, id, res, f)
        PROVE  Typed'
    <2> DEFINE F == [Idle EXCEPT !.op = "CreateGate", !.id = id,
                        !.plan = [NoPlan EXCEPT !.facility = f, !.link = res]]
    <2>1. id \in EntityIds /\ res \in EntityIds
      BY <1>1, BoundType, EmptyRows, LiveRows
      DEF EntityIds
    <2>2. F \in Request
      BY <2>1, EmptyRows DEF Idle, Request, Plan, NoPlan, AllOperations, EntityIds
    <2>3. Valid(F)
      BY <1>1, <2>1
      DEF Idle, NoPlan, 
             Valid, ReservoirValid, GateValid, DirectiveValid,
             ConfirmationValid
    <2> QED BY <2>2, <2>3, <1>1, BeginSound DEF BeginCreateGate
  <1>2. CASE CommitCreateGate(r)
    <2> DEFINE q == req[r]
    <2>1. q \in Request /\ Valid(q) /\ q.op = "CreateGate"
      BY <1>2, InFlightSound DEF CommitCreateGate, InFlight
    <2>2. q.id \in GateIds /\ q.plan.facility \in Facilities /\ q.plan.link \in ReservoirIds
      BY <2>1, LiveRows DEF Valid, GateValid, Request
    <2>3. [live |-> TRUE, version |-> 1, status |-> GateUnitInitialStatus,
           facility |-> q.plan.facility, reservoir |-> q.plan.link] \in PresentGate
      BY <2>2 DEF PresentGate, GateStates, GateUnitInitialStatus
    <2>4. gates' \in [GateIds -> GateUnit]
      BY <1>2, <2>2, <2>3, GateTable DEF CommitCreateGate, Typed, TypeOK
    <2>5. audit' \in [EntityIds -> AuditTrail]
      BY <1>2, <2>2, LoggedType
      DEF CommitCreateGate, EntityIds, Statuses, Typed, TypeOK, PresentGate, GateStates, GateUnitInitialStatus
    <2> QED
      BY <1>2, <2>4, <2>5, CommitSound DEF CommitCreateGate, Typed, TypeOK
  <1>3. ASSUME NEW id \in GateIds,
               NEW f \in Facilities,
               NEW e \in 1..MaxVersion[id],
               BeginUpdateGate(r, id, f, e)
        PROVE  Typed'
    <2> DEFINE F == [Idle EXCEPT !.op = "UpdateGate", !.id = id, !.exp = e,
                        !.plan = [NoPlan EXCEPT !.facility = f],
                        !.gate = gates[id]]
    <2>1. id \in EntityIds /\ e \in Nat /\ e \in 1..gates[id].version
          /\ gates[id] \in GateUnit /\ gates[id].live
      BY <1>3, BoundType, EmptyRows, LiveRows
      DEF BeginUpdateGate, VersionsSent, Live, EntityIds, Typed, TypeOK
    <2>2. F \in Request
      BY <2>1, EmptyRows DEF Idle, Request, Plan, NoPlan, AllOperations, EntityIds
    <2>3. Valid(F)
      BY <1>3, <2>1
      DEF Idle, NoPlan, 
             Valid, ReservoirValid, GateValid, DirectiveValid,
             ConfirmationValid
    <2> QED BY <2>2, <2>3, <1>3, BeginSound DEF BeginUpdateGate
  <1>4. CASE CommitUpdateGate(r)
    <2> DEFINE q == req[r]
    <2>1. q \in Request /\ Valid(q) /\ q.op = "UpdateGate"
      BY <1>4, InFlightSound DEF CommitUpdateGate, InFlight
    <2>2. q.id \in GateIds /\ q.plan.facility \in Facilities /\ q.exp \in Nat
          /\ q.gate \in PresentGate
      BY <2>1, LiveRows DEF Valid, GateValid, Request
    <2>3. [q.gate EXCEPT !.facility = q.plan.facility] \in PresentGate
      BY <2>2 DEF PresentGate, GateStates, GateUnitInitialStatus
    <2>4. gates' \in [GateIds -> GateUnit]
      BY <1>4, <2>2, <2>3, GateTable DEF CommitUpdateGate, Typed, TypeOK
    <2>5. audit' \in [EntityIds -> AuditTrail]
      BY <1>4, <2>2, LoggedType
      DEF CommitUpdateGate, EntityIds, Statuses, Typed, TypeOK, PresentGate
    <2> QED
      BY <1>4, <2>4, <2>5, CommitSound DEF CommitUpdateGate, Typed, TypeOK
  <1>5. ASSUME NEW id \in GateIds,
               NEW to \in GateStates,
               NEW e \in 1..MaxVersion[id],
               BeginTransitionGate(r, id, to, e)
        PROVE  Typed'
    <2> DEFINE F == [Idle EXCEPT !.op = "TransitionGate", !.id = id, !.to = to,
                        !.exp = e, !.gate = gates[id]]
    <2>1. id \in EntityIds /\ e \in Nat /\ e \in 1..gates[id].version
          /\ gates[id] \in GateUnit /\ gates[id].live
      BY <1>5, BoundType, EmptyRows, LiveRows
      DEF BeginTransitionGate, VersionsSent, Live, EntityIds, Typed, TypeOK
    <2>2. F \in Request
      BY <2>1, EmptyRows DEF Idle, Request, Plan, NoPlan, AllOperations, EntityIds, Statuses
    <2>3. Valid(F)
      BY <1>5, <2>1
      DEF Idle, NoPlan, BeginTransitionGate,
             Valid, ReservoirValid, GateValid, DirectiveValid,
             ConfirmationValid
    <2> QED BY <2>2, <2>3, <1>5, BeginSound DEF BeginTransitionGate
  <1>6. CASE CommitTransitionGate(r)
    <2> DEFINE q == req[r]
    <2>1. q \in Request /\ Valid(q) /\ q.op = "TransitionGate"
      BY <1>6, InFlightSound DEF CommitTransitionGate, InFlight
    <2>2. q.id \in GateIds /\ q.to \in GateStates /\ q.exp \in Nat
          /\ q.gate \in PresentGate
      BY <2>1, LiveRows DEF Valid, GateValid, Request, CanTransition, GateUnitTransitions,
          GateStates
    <2>3. [q.gate EXCEPT !.status = q.to] \in PresentGate
      BY <2>2 DEF PresentGate, GateStates, GateUnitInitialStatus
    <2>4. gates' \in [GateIds -> GateUnit]
      BY <1>6, <2>2, <2>3, GateTable DEF CommitTransitionGate, Typed, TypeOK
    <2>5. audit' \in [EntityIds -> AuditTrail]
      BY <1>6, <2>2, LoggedType
      DEF CommitTransitionGate, EntityIds, Statuses, Typed, TypeOK, PresentGate
    <2> QED
      BY <1>6, <2>4, <2>5, CommitSound DEF CommitTransitionGate, Typed, TypeOK
  <1>7. ASSUME NEW id \in GateIds,
               BeginDeleteGate(r, id)
        PROVE  Typed'
    <2> DEFINE F == [Idle EXCEPT !.op = "DeleteGate", !.id = id,
                        !.gate = gates[id]]
    <2>1. id \in EntityIds /\ gates[id] \in GateUnit /\ gates[id].live
      BY <1>7, BoundType, EmptyRows, LiveRows
      DEF BeginDeleteGate, Live, EntityIds, Typed, TypeOK
    <2>2. F \in Request
      BY <2>1, EmptyRows DEF Idle, Request, Plan, NoPlan, AllOperations, EntityIds
    <2>3. Valid(F)
      BY <1>7, <2>1
      DEF Idle, NoPlan, 
             Valid, ReservoirValid, GateValid, DirectiveValid,
             ConfirmationValid
    <2> QED BY <2>2, <2>3, <1>7, BeginSound DEF BeginDeleteGate
  <1>8. CASE CommitDeleteGate(r)
    <2> DEFINE q == req[r]
    <2>1. q \in Request /\ Valid(q) /\ q.op = "DeleteGate"
      BY <1>8, InFlightSound DEF CommitDeleteGate, InFlight
    <2>2. q.id \in GateIds /\ q.gate \in PresentGate
      BY <2>1, LiveRows DEF Valid, GateValid, Request
    <2>3. gates' \in [GateIds -> GateUnit]
      BY <1>8, <2>2, GateTable DEF CommitDeleteGate, Live, Typed, TypeOK, PresentGate
    <2>4. audit' \in [EntityIds -> AuditTrail]
      BY <1>8, <2>2, LoggedType
      DEF CommitDeleteGate, EntityIds, Statuses, Typed, TypeOK, PresentGate
    <2> QED
      BY <1>8, <2>3, <2>4, CommitSound DEF CommitDeleteGate, Typed, TypeOK
  <1> QED
    BY <1>1, <1>2, <1>3, <1>4, <1>5, <1>6, <1>7, <1>8 DEF GateNext

-----------------------------------------------------------------------------
(* Directives. *)

\* A directive that may change its status on request becomes a directive.
LEMMA TransitionedType ==
  ASSUME NEW q \in Request, q.dir \in PresentDirective, q.actor \in Actors,
         q.to \in DirectiveStates
  PROVE  Transitioned(q) \in PresentDirective
  <1>1. CASE q.to = "pending"
    BY <1>1 DEF Transitioned, PresentDirective
  <1>2. CASE q.to = "approved"
    BY <1>2 DEF Transitioned, PresentDirective
  <1>3. CASE q.to \notin {"pending", "approved"}
    BY <1>3 DEF Transitioned, PresentDirective
  <1> QED BY <1>1, <1>2, <1>3

\* The rows that prove a signature are approval rows.
LEMMA EvidenceType ==
  ASSUME NEW q, q.id \in DirectiveIds, q.actor \in Actors, q.role \in Roles
  PROVE  Evidence(q) \subseteq DirectiveApproval
  BY DEF Evidence, DirectiveApproval

\* A gate asked to move by a directive becomes a gate.
LEMMA GateMoved ==
  ASSUME NEW gate \in PresentGate, NEW target \in GateStates
  PROVE  [gate EXCEPT !.status = target] \in PresentGate
  BY DEF PresentGate

\* Every step of the directive service keeps Typed.
LEMMA DirectiveTyped ==
  ASSUME Typed, NEW r \in Requests, DirectiveNext(r)
  PROVE  Typed'
  <1>1. ASSUME NEW id \in DirectiveIds,
               NEW g \in GateIds,
               NEW f \in Facilities,
               NEW s \in GateTargets,
               BeginCreateDirective(r, id, g, f, s)
        PROVE  Typed'
    <2> DEFINE F == [Idle EXCEPT !.op = "CreateDirective", !.id = id,
                        !.plan = [facility |-> f, link |-> g, gateState |-> s]]
    <2>1. id \in EntityIds /\ g \in EntityIds
      BY <1>1, BoundType, EmptyRows, LiveRows
      DEF EntityIds
    <2>2. F \in Request
      BY <2>1, EmptyRows DEF Idle, Request, Plan, NoPlan, AllOperations, EntityIds
    <2>3. Valid(F)
      BY <1>1, <2>1
      DEF Idle, NoPlan, 
             Valid, ReservoirValid, GateValid, DirectiveValid,
             ConfirmationValid
    <2> QED BY <2>2, <2>3, <1>1, BeginSound DEF BeginCreateDirective
  <1>2. CASE CommitCreateDirective(r)
    <2> DEFINE q == req[r]
    <2>1. q \in Request /\ Valid(q) /\ q.op = "CreateDirective"
      BY <1>2, InFlightSound DEF CommitCreateDirective, InFlight
    <2>2. q.id \in DirectiveIds
          /\ q.plan \in [facility : Facilities, link : GateIds, gateState : GateTargets]
      BY <2>1, LiveRows DEF Valid, DirectiveValid, Request
    <2>3. [live |-> TRUE, version |-> 1, status |-> OperationDirectiveInitialStatus,
           facility |-> q.plan.facility, gate |-> q.plan.link,
           gateState |-> q.plan.gateState, submittedBy |-> None, approvedBy |-> None] \in PresentDirective
      BY <2>2 DEF PresentDirective, DirectiveStates, OperationDirectiveInitialStatus
    <2>4. directives' \in [DirectiveIds -> OperationDirective]
      BY <1>2, <2>2, <2>3, DirectiveTable DEF CommitCreateDirective, Typed, TypeOK
    <2>5. audit' \in [EntityIds -> AuditTrail]
      BY <1>2, <2>2, LoggedType
      DEF CommitCreateDirective, EntityIds, Statuses, Typed, TypeOK, PresentDirective, DirectiveStates, OperationDirectiveInitialStatus
    <2> QED
      BY <1>2, <2>4, <2>5, CommitSound DEF CommitCreateDirective, Typed, TypeOK
  <1>3. ASSUME NEW id \in DirectiveIds,
               NEW g \in GateIds,
               NEW f \in Facilities,
               NEW s \in GateTargets,
               NEW e \in 1..MaxVersion[id],
               BeginUpdateDirective(r, id, g, f, s, e)
        PROVE  Typed'
    <2> DEFINE F == [Idle EXCEPT !.op = "UpdateDirective", !.id = id, !.exp = e,
                        !.plan = [facility |-> f, link |-> g, gateState |-> s],
                        !.dir = directives[id]]
    <2>1. id \in EntityIds /\ e \in Nat /\ e \in 1..directives[id].version
          /\ directives[id] \in OperationDirective /\ directives[id].live /\ g \in EntityIds
      BY <1>3, BoundType, EmptyRows, LiveRows
      DEF BeginUpdateDirective, VersionsSent, Live, EntityIds, Typed, TypeOK
    <2>2. F \in Request
      BY <2>1, EmptyRows DEF Idle, Request, Plan, NoPlan, AllOperations, EntityIds
    <2>3. Valid(F)
      BY <1>3, <2>1
      DEF Idle, NoPlan, BeginUpdateDirective,
             Valid, ReservoirValid, GateValid, DirectiveValid,
             ConfirmationValid
    <2> QED BY <2>2, <2>3, <1>3, BeginSound DEF BeginUpdateDirective
  <1>4. CASE CommitUpdateDirective(r)
    <2> DEFINE q == req[r]
    <2>1. q \in Request /\ Valid(q) /\ q.op = "UpdateDirective"
      BY <1>4, InFlightSound DEF CommitUpdateDirective, InFlight
    <2>2. q.id \in DirectiveIds /\ q.exp \in Nat /\ q.dir \in PresentDirective
          /\ q.plan \in [facility : Facilities, link : GateIds, gateState : GateTargets]
      BY <2>1, LiveRows DEF Valid, DirectiveValid, Request
    <2>3. [q.dir EXCEPT !.facility = q.plan.facility, !.gate = q.plan.link,
                        !.gateState = q.plan.gateState] \in PresentDirective
      BY <2>2 DEF PresentDirective, DirectiveStates, OperationDirectiveInitialStatus
    <2>4. directives' \in [DirectiveIds -> OperationDirective]
      BY <1>4, <2>2, <2>3, DirectiveTable DEF CommitUpdateDirective, Typed, TypeOK
    <2>5. audit' \in [EntityIds -> AuditTrail]
      BY <1>4, <2>2, LoggedType
      DEF CommitUpdateDirective, EntityIds, Statuses, Typed, TypeOK, PresentDirective
    <2> QED
      BY <1>4, <2>4, <2>5, CommitSound DEF CommitUpdateDirective, Typed, TypeOK
  <1>5. ASSUME NEW id \in DirectiveIds, NEW to \in DirectiveStates, NEW a \in Actors,
               NEW role \in Roles, NEW e \in 1..MaxVersion[id],
               BeginTransitionDirective(r, id, to, a, role, e)
        PROVE  Typed'
    <2>1. id \in EntityIds /\ e \in Nat /\ e \in 1..directives[id].version
          /\ directives[id] \in OperationDirective /\ directives[id].live
      BY <1>5, BoundType, EmptyRows, LiveRows
      DEF BeginTransitionDirective, VersionsSent, Live, EntityIds, Typed, TypeOK
    <2>2. PICK gate \in GateUnit :
            /\ gate = IF ReadsGate(directives[id], to)
                      THEN gates[directives[id].gate] ELSE NoGate
            /\ ReadsGate(directives[id], to) => gate.live
      <3>1. CASE ReadsGate(directives[id], to)
        <4>1. Live(gates, directives[id].gate)
          BY <1>5, <3>1 DEF BeginTransitionDirective, GateAdmits
        <4> QED BY <3>1, <4>1 DEF Live, Typed, TypeOK
      <3>2. CASE ~ReadsGate(directives[id], to)
        BY <3>2, EmptyRows
      <3> QED BY <3>1, <3>2
    <2> DEFINE F == [Idle EXCEPT !.op = "TransitionDirective", !.id = id, !.to = to,
                        !.actor = a, !.role = role, !.exp = e, !.dir = directives[id],
                        !.gate = gate]
    <2>3. F \in Request
      BY <2>1, EmptyRows
      DEF Idle, Request, Plan, NoPlan, AllOperations, EntityIds, Statuses
    <2>4. MovesGate(gate, GateTarget(directives[id], gate, to)) =>
            /\ gate.live
            /\ CanTransition(GateUnitTransitions, gate.status,
                             GateTarget(directives[id], gate, to))
      <3>1. CASE ReadsGate(directives[id], to)
        BY <1>5, <2>2, <3>1 DEF BeginTransitionDirective, GateAdmits
      <3>2. CASE ~ReadsGate(directives[id], to)
        BY <3>2 DEF GateTarget, MovesGate
      <3> QED BY <3>1, <3>2
    <2>5. /\ ReadsGate(directives[id], to) => gate.live
          /\ to = "executing" => gate.status # "locked"
      BY <1>5, <2>2 DEF BeginTransitionDirective, GateAdmits, ReadsGate, Live
    <2>6. Valid(F)
      BY <1>5, <2>1, <2>4, <2>5
      DEF Idle, NoPlan, BeginTransitionDirective,
             Valid, ReservoirValid, GateValid, DirectiveValid,
             ConfirmationValid
    <2>7. Begin(r, F)
      BY <1>5, <2>2 DEF BeginTransitionDirective
    <2> QED BY <2>3, <2>6, <2>7, BeginSound
  <1>6. CASE CommitTransitionDirective(r)
    <2> DEFINE q == req[r]
               g == q.dir.gate
               target == GateTarget(q.dir, q.gate, q.to)
               trail == Logged(audit, q.id, q.dir.status, q.to)
    <2>1. q \in Request /\ Valid(q) /\ q.op = "TransitionDirective"
      BY <1>6, InFlightSound DEF CommitTransitionDirective, InFlight
    <2>2. /\ q.id \in DirectiveIds /\ q.exp \in Nat /\ q.dir \in PresentDirective
          /\ q.to \in DirectiveStates /\ q.actor \in Actors /\ q.role \in Roles
      BY <2>1, LiveRows
      DEF Valid, DirectiveValid, Request, CanTransition, OperationDirectiveTransitions,
          DirectiveStates
    <2>3. directives' \in [DirectiveIds -> OperationDirective]
      BY <1>6, <2>1, <2>2, TransitionedType, DirectiveTable
      DEF CommitTransitionDirective, Typed, TypeOK
    <2>4. approvals' \subseteq DirectiveApproval
      BY <1>6, <2>2, EvidenceType DEF CommitTransitionDirective, Typed, TypeOK
    <2>5. trail \in [EntityIds -> AuditTrail]
      BY <2>2, LoggedType DEF EntityIds, Statuses, Typed, TypeOK, PresentDirective
    <2>6. gates' \in [GateIds -> GateUnit] /\ audit' \in [EntityIds -> AuditTrail]
      <3>1. CASE ~MovesGate(q.gate, target)
        BY <1>6, <2>5, <3>1 DEF CommitTransitionDirective, Typed, TypeOK
      <3>2. CASE MovesGate(q.gate, target)
        <4>1. g \in GateIds /\ g \in EntityIds
          BY <2>2 DEF PresentDirective, EntityIds
        <4>2. q.gate \in PresentGate /\ target \in GateStates
          BY <2>1, <3>2, LiveRows
          DEF Valid, DirectiveValid, Request, CanTransition, GateUnitTransitions,
              GateStates
        <4>3. q.gate.version \in Nat /\ q.gate.status \in Statuses /\ target \in Statuses
          BY <4>2 DEF PresentGate, Statuses
        <4>4. gates' = Write(gates, g, q.gate.version, [q.gate EXCEPT !.status = target])
              /\ audit' = Logged(trail, g, q.gate.status, target)
          BY <1>6, <3>2 DEF CommitTransitionDirective
        <4>5. gates' \in [GateIds -> GateUnit]
          BY <4>1, <4>2, <4>3, <4>4, GateMoved, GateTable DEF Typed, TypeOK
        <4>6. audit' \in [EntityIds -> AuditTrail]
          BY <2>5, <4>1, <4>3, <4>4, LoggedType
        <4> QED BY <4>5, <4>6
      <3> QED BY <3>1, <3>2
    <2> QED
      BY <1>6, <2>3, <2>4, <2>6, CommitSound
      DEF CommitTransitionDirective, Typed, TypeOK
  <1>7. ASSUME NEW id \in DirectiveIds,
               BeginDeleteDirective(r, id)
        PROVE  Typed'
    <2> DEFINE F == [Idle EXCEPT !.op = "DeleteDirective", !.id = id,
                        !.dir = directives[id]]
    <2>1. id \in EntityIds /\ directives[id] \in OperationDirective /\ directives[id].live
      BY <1>7, BoundType, EmptyRows, LiveRows
      DEF BeginDeleteDirective, Live, EntityIds, Typed, TypeOK
    <2>2. F \in Request
      BY <2>1, EmptyRows DEF Idle, Request, Plan, NoPlan, AllOperations, EntityIds
    <2>3. Valid(F)
      BY <1>7, <2>1
      DEF Idle, NoPlan, BeginDeleteDirective,
             Valid, ReservoirValid, GateValid, DirectiveValid,
             ConfirmationValid
    <2> QED BY <2>2, <2>3, <1>7, BeginSound DEF BeginDeleteDirective
  <1>8. CASE CommitDeleteDirective(r)
    <2> DEFINE q == req[r]
    <2>1. q \in Request /\ Valid(q) /\ q.op = "DeleteDirective"
      BY <1>8, InFlightSound DEF CommitDeleteDirective, InFlight
    <2>2. q.id \in DirectiveIds /\ q.dir \in PresentDirective
      BY <2>1, LiveRows DEF Valid, DirectiveValid, Request
    <2>3. directives' \in [DirectiveIds -> OperationDirective]
      BY <1>8, <2>2, DirectiveTable DEF CommitDeleteDirective, Live, Typed, TypeOK, PresentDirective
    <2>4. audit' \in [EntityIds -> AuditTrail]
      BY <1>8, <2>2, LoggedType
      DEF CommitDeleteDirective, EntityIds, Statuses, Typed, TypeOK, PresentDirective
    <2> QED
      BY <1>8, <2>3, <2>4, CommitSound DEF CommitDeleteDirective, Typed, TypeOK
  <1> QED
    BY <1>1, <1>2, <1>3, <1>4, <1>5, <1>6, <1>7, <1>8 DEF DirectiveNext

-----------------------------------------------------------------------------
(* Receipts. *)

\* Every step of the receipt service keeps Typed.
LEMMA ConfirmationTyped ==
  ASSUME Typed, NEW r \in Requests, ConfirmationNext(r)
  PROVE  Typed'
  <1>1. ASSUME NEW id \in ConfirmationIds,
               NEW d \in DirectiveIds,
               BeginCreateConfirmation(r, id, d)
        PROVE  Typed'
    <2> DEFINE F == [Idle EXCEPT !.op = "CreateConfirmation", !.id = id,
                        !.plan = [NoPlan EXCEPT !.facility = directives[d].facility,
                                                !.link = d]]
    <2>1. id \in EntityIds /\ d \in EntityIds /\ directives[d].facility \in Facilities
      BY <1>1, BoundType, EmptyRows, LiveRows
      DEF BeginCreateConfirmation, Executing, Live, EntityIds, Typed, TypeOK,
          PresentDirective
    <2>2. F \in Request
      BY <2>1, EmptyRows DEF Idle, Request, Plan, NoPlan, AllOperations, EntityIds
    <2>3. Valid(F)
      BY <1>1, <2>1
      DEF Idle, NoPlan, 
             Valid, ReservoirValid, GateValid, DirectiveValid,
             ConfirmationValid
    <2> QED BY <2>2, <2>3, <1>1, BeginSound DEF BeginCreateConfirmation
  <1>2. CASE CommitCreateConfirmation(r)
    <2> DEFINE q == req[r]
    <2>1. q \in Request /\ Valid(q) /\ q.op = "CreateConfirmation"
      BY <1>2, InFlightSound DEF CommitCreateConfirmation, InFlight
    <2>2. q.id \in ConfirmationIds /\ q.plan.facility \in Facilities
          /\ q.plan.link \in DirectiveIds
      BY <2>1, LiveRows DEF Valid, ConfirmationValid, Request
    <2>3. [live |-> TRUE, version |-> 1, status |-> ExecutionConfirmationInitialStatus,
           facility |-> q.plan.facility, directive |-> q.plan.link] \in PresentConfirmation
      BY <2>2 DEF PresentConfirmation, ConfirmationStates,
          ExecutionConfirmationInitialStatus
    <2>4. confirmations' \in [ConfirmationIds -> ExecutionConfirmation]
      BY <1>2, <2>2, <2>3, ConfirmationTable DEF CommitCreateConfirmation, Typed, TypeOK
    <2>5. audit' \in [EntityIds -> AuditTrail]
      BY <1>2, <2>2, LoggedType
      DEF CommitCreateConfirmation, EntityIds, Statuses, Typed, TypeOK, PresentConfirmation, ConfirmationStates,
          ExecutionConfirmationInitialStatus
    <2> QED
      BY <1>2, <2>4, <2>5, CommitSound DEF CommitCreateConfirmation, Typed, TypeOK
  <1>3. ASSUME NEW id \in ConfirmationIds,
               NEW e \in 1..MaxVersion[id],
               BeginUpdateConfirmation(r, id, e)
        PROVE  Typed'
    <2> DEFINE F == [Idle EXCEPT !.op = "UpdateConfirmation", !.id = id, !.exp = e,
                        !.conf = confirmations[id],
                        !.plan = [NoPlan EXCEPT
                          !.facility = directives[confirmations[id].directive].facility]]
    <2>1. id \in EntityIds /\ e \in Nat /\ e \in 1..confirmations[id].version
          /\ confirmations[id] \in ExecutionConfirmation /\ confirmations[id].live
          /\ directives[confirmations[id].directive].facility \in Facilities
      BY <1>3, BoundType, EmptyRows, LiveRows
      DEF BeginUpdateConfirmation, Executing, VersionsSent, Live, EntityIds, Typed, TypeOK,
          PresentConfirmation, PresentDirective
    <2>2. F \in Request
      BY <2>1, EmptyRows DEF Idle, Request, Plan, NoPlan, AllOperations, EntityIds
    <2>3. Valid(F)
      BY <1>3, <2>1
      DEF Idle, NoPlan, BeginUpdateConfirmation,
             Valid, ReservoirValid, GateValid, DirectiveValid,
             ConfirmationValid
    <2> QED BY <2>2, <2>3, <1>3, BeginSound DEF BeginUpdateConfirmation
  <1>4. CASE CommitUpdateConfirmation(r)
    <2> DEFINE q == req[r]
    <2>1. q \in Request /\ Valid(q) /\ q.op = "UpdateConfirmation"
      BY <1>4, InFlightSound DEF CommitUpdateConfirmation, InFlight
    <2>2. q.id \in ConfirmationIds /\ q.plan.facility \in Facilities /\ q.exp \in Nat
          /\ q.conf \in PresentConfirmation
      BY <2>1, LiveRows DEF Valid, ConfirmationValid, Request
    <2>3. [q.conf EXCEPT !.facility = q.plan.facility] \in PresentConfirmation
      BY <2>2 DEF PresentConfirmation, ConfirmationStates,
          ExecutionConfirmationInitialStatus
    <2>4. confirmations' \in [ConfirmationIds -> ExecutionConfirmation]
      BY <1>4, <2>2, <2>3, ConfirmationTable DEF CommitUpdateConfirmation, Typed, TypeOK
    <2>5. audit' \in [EntityIds -> AuditTrail]
      BY <1>4, <2>2, LoggedType
      DEF CommitUpdateConfirmation, EntityIds, Statuses, Typed, TypeOK, PresentConfirmation
    <2> QED
      BY <1>4, <2>4, <2>5, CommitSound DEF CommitUpdateConfirmation, Typed, TypeOK
  <1>5. ASSUME NEW id \in ConfirmationIds, NEW to \in ConfirmationStates,
               NEW e \in 1..MaxVersion[id], BeginOutcome(r, id, to, e)
        PROVE  Typed'
    <2> DEFINE dir == directives[confirmations[id].directive]
               gate == gates[dir.gate]
               F == [Idle EXCEPT !.op = "TransitionConfirmation", !.id = id, !.to = to,
                        !.exp = e, !.conf = confirmations[id], !.dir = dir,
                        !.gate = gate]
    <2>1. id \in EntityIds /\ e \in Nat /\ e \in 1..confirmations[id].version
          /\ confirmations[id] \in ExecutionConfirmation /\ confirmations[id].live
      BY <1>5, BoundType, EmptyRows, LiveRows
      DEF BeginOutcome, VersionsSent, Live, EntityIds, Typed, TypeOK
    <2>2. dir \in OperationDirective /\ dir.live /\ dir.status = "executing"
      BY <1>5 DEF BeginOutcome, OutcomePossible, Executing, Live, Typed, TypeOK
    <2>3. gate \in GateUnit /\ gate.live
      BY <1>5 DEF BeginOutcome, OutcomePossible, Live, Typed, TypeOK
    <2>4. gate.status # GateOutcome(dir, to) =>
            CanTransition(GateUnitTransitions, gate.status, GateOutcome(dir, to))
      BY <1>5 DEF BeginOutcome, OutcomePossible
    <2>5. Begin(r, F)
      BY <1>5 DEF BeginOutcome
    <2>6. CanTransition(ExecutionConfirmationTransitions, confirmations[id].status, to)
      BY <1>5 DEF BeginOutcome
    <2> HIDE DEF dir, gate
    <2>7. F \in Request
      BY <2>1, <2>2, <2>3, EmptyRows
      DEF Idle, Request, Plan, NoPlan, AllOperations, EntityIds, Statuses
    <2>8. Valid(F)
      BY <2>1, <2>2, <2>3, <2>4, <2>6
      DEF Idle, NoPlan, Valid, ReservoirValid, GateValid, DirectiveValid,
             ConfirmationValid
    <2> QED BY <2>5, <2>7, <2>8, BeginSound
  <1>6. ASSUME NEW id \in ConfirmationIds,
               NEW to \in ConfirmationStates,
               NEW e \in 1..MaxVersion[id],
               BeginCancel(r, id, to, e)
        PROVE  Typed'
    <2> DEFINE F == [Idle EXCEPT !.op = "TransitionConfirmation", !.id = id, !.to = to,
                        !.exp = e, !.conf = confirmations[id]]
    <2>1. id \in EntityIds /\ e \in Nat /\ e \in 1..confirmations[id].version
          /\ confirmations[id] \in ExecutionConfirmation /\ confirmations[id].live
      BY <1>6, BoundType, EmptyRows, LiveRows
      DEF BeginCancel, VersionsSent, Live, EntityIds, Typed, TypeOK
    <2>2. F \in Request
      BY <2>1, EmptyRows DEF Idle, Request, Plan, NoPlan, AllOperations, EntityIds, Statuses
    <2>3. Valid(F)
      BY <1>6, <2>1
      DEF Idle, NoPlan, BeginCancel,
             Valid, ReservoirValid, GateValid, DirectiveValid,
             ConfirmationValid
    <2> QED BY <2>2, <2>3, <1>6, BeginSound DEF BeginCancel
  <1>7. CASE CommitOutcome(r)
    <2> DEFINE q == req[r]
               d == q.conf.directive
               g == q.dir.gate
               outcome == DirectiveOutcome(q.to)
               target == GateOutcome(q.dir, q.to)
               trail1 == Logged(audit, q.id, q.conf.status, q.to)
               trail == Logged(trail1, d, q.dir.status, outcome)
    <2>1. q \in Request /\ Valid(q) /\ q.op = "TransitionConfirmation"
          /\ q.conf.status = "pending"
      BY <1>7, InFlightSound DEF CommitOutcome, InFlight
    <2>2. /\ q.id \in ConfirmationIds /\ q.exp \in Nat /\ q.conf \in PresentConfirmation
          /\ q.dir \in PresentDirective /\ q.gate \in PresentGate
          /\ q.to \in ConfirmationStates
      BY <2>1, LiveRows
      DEF Valid, ConfirmationValid, Request, CanTransition,
          ExecutionConfirmationTransitions, ConfirmationStates
    <2>3. /\ d \in DirectiveIds /\ g \in GateIds
          /\ q.dir.version \in Nat /\ q.gate.version \in Nat
          /\ q.conf.status \in Statuses /\ q.dir.status \in Statuses
          /\ q.gate.status \in Statuses /\ q.to \in Statuses
      BY <2>2 DEF PresentConfirmation, PresentDirective, PresentGate, Statuses
    <2>4. outcome \in DirectiveStates /\ outcome \in Statuses
      BY DEF DirectiveOutcome, DirectiveStates, Statuses
    <2>5. target \in GateStates /\ target \in Statuses
      BY <2>2, TargetsAssumption
      DEF GateOutcome, GateStates, Statuses, PresentDirective
    <2>6. confirmations' \in [ConfirmationIds -> ExecutionConfirmation]
      <3>1. [q.conf EXCEPT !.status = q.to] \in PresentConfirmation
        BY <2>2 DEF PresentConfirmation
      <3> QED BY <1>7, <2>2, <3>1, ConfirmationTable DEF CommitOutcome, Typed, TypeOK
    <2>7. directives' \in [DirectiveIds -> OperationDirective]
      <3>1. [q.dir EXCEPT !.status = outcome] \in PresentDirective
        BY <2>2, <2>4 DEF PresentDirective
      <3> QED BY <1>7, <2>3, <3>1, DirectiveTable DEF CommitOutcome, Typed, TypeOK
    <2>8. trail \in [EntityIds -> AuditTrail]
      <3>1. trail1 \in [EntityIds -> AuditTrail]
        BY <2>2, <2>3, LoggedType DEF EntityIds, Typed, TypeOK
      <3> HIDE DEF trail1, outcome
      <3> QED BY <2>3, <2>4, <3>1, LoggedType DEF EntityIds
    <2>9. gates' \in [GateIds -> GateUnit] /\ audit' \in [EntityIds -> AuditTrail]
      <3>1. CASE q.gate.status = target
        BY <1>7, <2>8, <3>1 DEF CommitOutcome, Typed, TypeOK
      <3>2. CASE q.gate.status # target
        <4>1. gates' = Write(gates, g, q.gate.version, [q.gate EXCEPT !.status = target])
              /\ audit' = Logged(trail, g, q.gate.status, target)
          BY <1>7, <3>2 DEF CommitOutcome
        <4> HIDE DEF trail, target
        <4>2. gates' \in [GateIds -> GateUnit]
          BY <2>2, <2>3, <2>5, <4>1, GateMoved, GateTable DEF Typed, TypeOK
        <4>3. audit' \in [EntityIds -> AuditTrail]
          BY <2>3, <2>5, <2>8, <4>1, LoggedType DEF EntityIds
        <4> QED BY <4>2, <4>3
      <3> QED BY <3>1, <3>2
    <2> QED
      BY <1>7, <2>6, <2>7, <2>9, CommitSound DEF CommitOutcome, Typed, TypeOK
  <1>8. CASE CommitCancel(r)
    <2> DEFINE q == req[r]
    <2>1. q \in Request /\ Valid(q) /\ q.op = "TransitionConfirmation"
      BY <1>8, InFlightSound DEF CommitCancel, InFlight
    <2>2. q.id \in ConfirmationIds /\ q.to \in ConfirmationStates /\ q.exp \in Nat
          /\ q.conf \in PresentConfirmation
      BY <2>1, LiveRows DEF Valid, ConfirmationValid, Request, CanTransition,
          ExecutionConfirmationTransitions, ConfirmationStates
    <2>3. [q.conf EXCEPT !.status = q.to] \in PresentConfirmation
      BY <2>2 DEF PresentConfirmation, ConfirmationStates,
          ExecutionConfirmationInitialStatus
    <2>4. confirmations' \in [ConfirmationIds -> ExecutionConfirmation]
      BY <1>8, <2>2, <2>3, ConfirmationTable DEF CommitCancel, Typed, TypeOK
    <2>5. audit' \in [EntityIds -> AuditTrail]
      BY <1>8, <2>2, LoggedType
      DEF CommitCancel, EntityIds, Statuses, Typed, TypeOK, PresentConfirmation
    <2> QED
      BY <1>8, <2>4, <2>5, CommitSound DEF CommitCancel, Typed, TypeOK
  <1>9. ASSUME NEW id \in ConfirmationIds,
               BeginDeleteConfirmation(r, id)
        PROVE  Typed'
    <2> DEFINE F == [Idle EXCEPT !.op = "DeleteConfirmation", !.id = id,
                        !.conf = confirmations[id]]
    <2>1. id \in EntityIds /\ confirmations[id] \in ExecutionConfirmation /\ confirmations[id].live
      BY <1>9, BoundType, EmptyRows, LiveRows
      DEF BeginDeleteConfirmation, Live, EntityIds, Typed, TypeOK
    <2>2. F \in Request
      BY <2>1, EmptyRows DEF Idle, Request, Plan, NoPlan, AllOperations, EntityIds
    <2>3. Valid(F)
      BY <1>9, <2>1
      DEF Idle, NoPlan, BeginDeleteConfirmation,
             Valid, ReservoirValid, GateValid, DirectiveValid,
             ConfirmationValid
    <2> QED BY <2>2, <2>3, <1>9, BeginSound DEF BeginDeleteConfirmation
  <1>10. CASE CommitDeleteConfirmation(r)
    <2> DEFINE q == req[r]
    <2>1. q \in Request /\ Valid(q) /\ q.op = "DeleteConfirmation"
      BY <1>10, InFlightSound DEF CommitDeleteConfirmation, InFlight
    <2>2. q.id \in ConfirmationIds /\ q.conf \in PresentConfirmation
      BY <2>1, LiveRows DEF Valid, ConfirmationValid, Request
    <2>3. confirmations' \in [ConfirmationIds -> ExecutionConfirmation]
      BY <1>10, <2>2, ConfirmationTable DEF CommitDeleteConfirmation, Live, Typed, TypeOK, PresentConfirmation
    <2>4. audit' \in [EntityIds -> AuditTrail]
      BY <1>10, <2>2, LoggedType
      DEF CommitDeleteConfirmation, EntityIds, Statuses, Typed, TypeOK, PresentConfirmation
    <2> QED
      BY <1>10, <2>3, <2>4, CommitSound DEF CommitDeleteConfirmation, Typed, TypeOK
  <1> QED
    BY <1>1, <1>2, <1>3, <1>4, <1>5, <1>6, <1>7, <1>8, <1>9, <1>10 DEF ConfirmationNext

-----------------------------------------------------------------------------
(* The whole backend. *)

\* An abandoned request, and a crash, leave only free slots behind.
LEMMA AbandonTyped ==
  ASSUME Typed, (\E r \in Requests : Abandon(r)) \/ Crash
  PROVE  Typed'
  <1>1. ASSUME NEW r \in Requests, Abandon(r)
        PROVE  Typed'
    BY <1>1, CommitSound DEF Abandon, Typed, TypeOK
  <1>2. CASE Crash
    <2>1. req' \in [Requests -> Request] /\ RequestsValid'
      BY <1>2, IdleSound DEF Crash, RequestsValid, Valid
    <2> QED BY <1>2, <2>1 DEF Crash, Typed, TypeOK
  <1> QED BY <1>1, <1>2

\* The step lemma: whatever step is taken, tables and requests stay well-formed.
LEMMA NextTyped == Typed /\ [Next]_vars => Typed'
  <1> SUFFICES ASSUME Typed, [Next]_vars PROVE Typed'
    OBVIOUS
  <1>1. ASSUME NEW r \in Requests, ReservoirNext(r) PROVE Typed'
    BY <1>1, ReservoirTyped
  <1>2. ASSUME NEW r \in Requests, GateNext(r) PROVE Typed'
    BY <1>2, GateTyped
  <1>3. ASSUME NEW r \in Requests, DirectiveNext(r) PROVE Typed'
    BY <1>3, DirectiveTyped
  <1>4. ASSUME NEW r \in Requests, ConfirmationNext(r) PROVE Typed'
    BY <1>4, ConfirmationTyped
  <1>5. CASE (\E r \in Requests : Abandon(r)) \/ Crash
    BY <1>5, AbandonTyped
  <1>6. CASE UNCHANGED vars
    BY <1>6
    DEF vars, Typed, TypeOK, RequestsValid
  <1> QED BY <1>1, <1>2, <1>3, <1>4, <1>5, <1>6 DEF Next

\* Every reachable state has well-formed tables and requests in flight that
\* carry what their service has checked.
THEOREM TypeCorrect == Spec => []Typed
  <1> QED BY InitTyped, NextTyped, PTL DEF Spec

\* The type invariant of the backend.
THEOREM TypeInvariant == Spec => []TypeOK
  <1>1. Typed => TypeOK
    BY DEF Typed
  <1> QED BY <1>1, TypeCorrect, PTL
=============================================================================
