--------------------------- MODULE DispatchState ---------------------------
(***************************************************************************)
(* What the services of the dispatch backend share: the tables of the      *)
(* database, the requests in flight, and the primitives of the repository  *)
(* layer (backend/internal/repository/base.go) that every service uses.    *)
(*                                                                         *)
(* A request is a goroutine of the HTTP server.  It takes two steps:       *)
(*   - Begin...: the middleware lets it in, the service reads the rows it  *)
(*     needs and validates the request against them; what it read stays in *)
(*     the goroutine's memory;                                             *)
(*   - Commit...: one database transaction that writes what was computed   *)
(*     from these reads, with its audit entries.                           *)
(* Between the two any other request may commit.  A request that fails a   *)
(* check, loses a version race or is cut off leaves no trace (Abandon).    *)
(***************************************************************************)
EXTENDS Naturals, FiniteSets, Statuses

CONSTANTS
  ReservoirIds, GateIds, DirectiveIds, ConfirmationIds,
  Facilities,     \* dispatch areas, up to letter case (strings.EqualFold)
  Actors,         \* accounts, up to letter case
  RolesOf,        \* the roles an account may hold at the time of a request
  Requests,       \* requests in flight at the same time
  Operations,     \* the operations clients use in this instance
  Seeded,         \* the entities that Seed has put into the database
  SeededReservoirStates, SeededGateStates,   \* and the states it gave them
  GateTargets,    \* gate states a directive may ask for
  MaxVersion,     \* bound: no version of an entity's row grows beyond it
  VersionLag,     \* how far the version a client sends may lag behind
  None

EntityIds == ReservoirIds \cup GateIds \cup DirectiveIds \cup ConfirmationIds

ASSUME IdsAssumption ==
  /\ ReservoirIds \cap GateIds = {}
  /\ ReservoirIds \cap DirectiveIds = {}
  /\ ReservoirIds \cap ConfirmationIds = {}
  /\ GateIds \cap DirectiveIds = {}
  /\ GateIds \cap ConfirmationIds = {}
  /\ DirectiveIds \cap ConfirmationIds = {}

ASSUME NoneAssumption ==
  /\ None \notin EntityIds
  /\ None \notin Facilities
  /\ None \notin Actors
  /\ None \notin Statuses
  /\ None \notin Roles

ASSUME RolesAssumption == RolesOf \in [Actors -> SUBSET Roles]

\* UpdateOperationDirective and CreateOperationDirective: oneof=open closed locked
ASSUME TargetsAssumption == GateTargets \subseteq {"open", "closed", "locked"}

\* seedReservoir and seedGateUnit
ASSUME SeedAssumption ==
  /\ Seeded \subseteq EntityIds
  /\ SeededReservoirStates \subseteq {"normal", "warning", "critical"}
  /\ SeededGateStates \subseteq {"open", "closed", "moving"}

ASSUME BoundsAssumption == MaxVersion \in [EntityIds -> Nat] /\ VersionLag \in Nat

VARIABLES
  reservoirs, gates, directives, confirmations,   \* one table per entity
  approvals,                                      \* directive_approvals
  audit,                                          \* audit_logs, newest per entity
  req                                             \* requests in flight

vars ==
  <<reservoirs, gates, directives, confirmations, approvals, audit, req>>

-----------------------------------------------------------------------------
(* Rows.  An entity's id stands for its primary key and for its code: a    *)
(* code is unique over live and deleted rows and never updated.  A row not *)
(* inserted yet has status "absent"; a deleted row stays, no longer live.  *)

NoReservoir == [live |-> FALSE, version |-> 0, status |-> "absent", facility |-> None]
NoGate ==
  [live |-> FALSE, version |-> 0, status |-> "absent", facility |-> None,
   reservoir |-> None]
NoDirective ==
  [live |-> FALSE, version |-> 0, status |-> "absent", facility |-> None,
   gate |-> None, gateState |-> None, submittedBy |-> None, approvedBy |-> None]
NoConfirmation ==
  [live |-> FALSE, version |-> 0, status |-> "absent", facility |-> None,
   directive |-> None]

\* The rows that were inserted, live or deleted since.
PresentReservoir ==
  [live : BOOLEAN, version : Nat \ {0}, status : ReservoirStates,
   facility : Facilities]
PresentGate ==
  [live : BOOLEAN, version : Nat \ {0}, status : GateStates,
   facility : Facilities, reservoir : ReservoirIds]
PresentDirective ==
  [live : BOOLEAN, version : Nat \ {0}, status : DirectiveStates,
   facility : Facilities, gate : GateIds, gateState : GateTargets,
   submittedBy : Actors \cup {None}, approvedBy : Actors \cup {None}]
PresentConfirmation ==
  [live : BOOLEAN, version : Nat \ {0}, status : ConfirmationStates,
   facility : Facilities, directive : DirectiveIds]

Reservoir == PresentReservoir \cup {NoReservoir}
GateUnit == PresentGate \cup {NoGate}
OperationDirective == PresentDirective \cup {NoDirective}
ExecutionConfirmation == PresentConfirmation \cup {NoConfirmation}

DirectiveApproval ==
  [directive : DirectiveIds, stage : {"submitted", "approved"},
   actor : Actors, role : Roles]

\* The audit trail of an entity: how many entries it has, and the newest one;
\* before is None (the empty string of the code) on the entry of a creation.
AuditTrail ==
  [n : Nat, before : Statuses \cup {None}, after : Statuses \cup {None, "deleted"}]
NoTrail == [n |-> 0, before |-> None, after |-> None]

-----------------------------------------------------------------------------
(* Requests.  plan holds the references a create or update body carries;   *)
(* res, gate, dir and conf are the rows as the request read them.          *)

NoPlan == [facility |-> None, link |-> None, gateState |-> None]
Idle ==
  [op |-> "idle", actor |-> None, role |-> None, id |-> None, to |-> None,
   exp |-> 0, plan |-> NoPlan, res |-> NoReservoir, gate |-> NoGate,
   dir |-> NoDirective, conf |-> NoConfirmation]

AllOperations ==
  {"CreateReservoir", "UpdateReservoir", "TransitionReservoir", "DeleteReservoir",
   "CreateGate", "UpdateGate", "TransitionGate", "DeleteGate",
   "CreateDirective", "UpdateDirective", "TransitionDirective", "DeleteDirective",
   "CreateConfirmation", "UpdateConfirmation", "TransitionConfirmation",
   "DeleteConfirmation"}

ASSUME OperationsAssumption == Operations \subseteq AllOperations

Plan ==
  [facility : Facilities \cup {None}, link : EntityIds \cup {None},
   gateState : GateTargets \cup {None}]
Request ==
  [op : AllOperations \cup {"idle"}, actor : Actors \cup {None},
   role : Roles \cup {None}, id : EntityIds \cup {None},
   to : Statuses \cup {None}, exp : Nat, plan : Plan,
   res : Reservoir, gate : GateUnit, dir : OperationDirective,
   conf : ExecutionConfirmation]

\* Request r is free and the instance's clients may use the operation.
Free(r, op) == req[r].op = "idle" /\ op \in Operations

InFlight(r, op) == req[r].op = op

\* RequireRoles: some account may call a route open to these roles.
Admitted(allowed) == \E a \in Actors : RolesOf[a] \cap allowed # {}

\* The reads change no row; the request keeps in memory what it read.
Begin(r, fields) ==
  /\ req' = [req EXCEPT ![r] = fields]
  /\ UNCHANGED <<reservoirs, gates, directives, confirmations, approvals, audit>>

Finish(r) == req' = [req EXCEPT ![r] = Idle]

\* The versions a client may send when the entity's row has version v: one it
\* has been shown, hence never ahead of v.
VersionsSent(id, v) == {e \in 1..v : e + VersionLag >= v /\ e < MaxVersion[id]}

\* The bound, for a row that a request writes beside its own.
Room(table, id) == table[id].version < MaxVersion[id]

-----------------------------------------------------------------------------
(* The repository's primitives. *)

\* Store.Get and GetByCode return live rows only.
Live(table, id) == id \in DOMAIN table /\ table[id].live

\* Mutant of Current: the UPDATE's WHERE clause has lost "version = ?".
AnyVersion(table, id, v) == table[id].live

\* Store.update: UPDATE ... WHERE id = ? AND version = ? on live rows.
Current(table, id, v) == table[id].live /\ table[id].version = v

\* Mutant of Write: the service forgets to set the new version.
WriteUnversioned(table, id, v, row) == [table EXCEPT ![id] = [row EXCEPT !.version = v]]

\* The UPDATE writes the whole row, its version one above the expected one.
Write(table, id, v, row) == [table EXCEPT ![id] = [row EXCEPT !.version = v + 1]]

\* Store.Create: the unique index on the code also covers deleted rows.
Insertable(table, id) == table[id].status = "absent"

Insert(table, id, row) == [table EXCEPT ![id] = row]

\* Store.Delete: sets deleted_at on the live row, whatever its version.
SoftDelete(table, id) == [table EXCEPT ![id].live = FALSE]

\* Mutant of Logged: an entry that replaces the newest one.
Overwritten(trail, id, before, after) ==
  [trail EXCEPT ![id] = [n |-> trail[id].n, before |-> before, after |-> after]]

\* securityService.Audit inside the transaction: one more entry for the entity.
Logged(trail, id, before, after) ==
  [trail EXCEPT ![id] = [n |-> trail[id].n + 1, before |-> before, after |-> after]]
=============================================================================
