---------------------- MODULE OperationDirectiveService ----------------------
(***************************************************************************)
(* backend/internal/service/operation_directive.go: the two-person         *)
(* workflow of a gate operation.  A directive is drafted for a gate, goes  *)
(* draft, pending, approved, executing, and its start and abort move the   *)
(* gate in the same transaction.                                           *)
(***************************************************************************)
EXTENDS DispatchState

\* Checked when a directive is drafted and at every update of the draft.
GateAccepts(g, f) ==
  Live(gates, g) /\ gates[g].facility = f /\ gates[g].status # "locked"

\* An omitted gateState means closed on create, the old one on update: both
\* are members of GateTargets.
BeginCreateDirective(r, id, g, f, s) ==
  /\ Free(r, "CreateDirective") /\ Admitted(Writers)
  /\ GateAccepts(g, f)
  /\ Begin(r, [Idle EXCEPT !.op = "CreateDirective", !.id = id,
                 !.plan = [facility |-> f, link |-> g, gateState |-> s]])

CommitCreateDirective(r) ==
  LET q == req[r]
      item == [live |-> TRUE, version |-> 1,
               status |-> OperationDirectiveInitialStatus,
               facility |-> q.plan.facility, gate |-> q.plan.link,
               gateState |-> q.plan.gateState,
               submittedBy |-> None, approvedBy |-> None]
  IN  /\ InFlight(r, "CreateDirective")
      /\ Insertable(directives, q.id)
      /\ directives' = Insert(directives, q.id, item)
      /\ audit' = Logged(audit, q.id, None, item.status)
      /\ Finish(r)
      /\ UNCHANGED <<reservoirs, gates, confirmations, approvals>>

BeginUpdateDirective(r, id, g, f, s, e) ==
  /\ Free(r, "UpdateDirective") /\ Admitted(Writers)
  /\ Live(directives, id)
  /\ directives[id].status = "draft"
  /\ GateAccepts(g, f)
  /\ e \in VersionsSent(id, directives[id].version)
  /\ Begin(r, [Idle EXCEPT !.op = "UpdateDirective", !.id = id, !.exp = e,
                 !.plan = [facility |-> f, link |-> g, gateState |-> s],
                 !.dir = directives[id]])

CommitUpdateDirective(r) ==
  LET q == req[r]
      item == [q.dir EXCEPT !.facility = q.plan.facility, !.gate = q.plan.link,
                            !.gateState = q.plan.gateState]
  IN  /\ InFlight(r, "UpdateDirective")
      /\ Current(directives, q.id, q.exp)
      /\ directives' = Write(directives, q.id, q.exp, item)
      /\ audit' = Logged(audit, q.id, q.dir.status, q.dir.status)
      /\ Finish(r)
      /\ UNCHANGED <<reservoirs, gates, confirmations, approvals>>

-----------------------------------------------------------------------------
(* Transition. *)

\* The gate is read when the directive starts and when its execution is aborted.
ReadsGate(dir, to) ==
  to = "executing" \/ (to = "aborted" /\ dir.status = "executing")

\* What the transition asks of the gate: nothing when it was not read, or when
\* it already stands where a starting directive wants it.
GateTarget(dir, gate, to) ==
  IF ~ReadsGate(dir, to) THEN None
  ELSE IF to = "aborted" THEN "locked"
  ELSE IF gate.status # dir.gateState THEN "moving" ELSE None

\* Some gate must then be written: it is asked to go where it is not.
MovesGate(gate, target) == target # None /\ gate.status # target

\* The gate is found, is not locked when a directive starts, and can move.
GateAdmits(dir, to) ==
  ReadsGate(dir, to) =>
    LET gate == gates[dir.gate]
        target == GateTarget(dir, gate, to)
    IN  /\ Live(gates, dir.gate)
        /\ to = "executing" => gate.status # "locked"
        /\ MovesGate(gate, target) =>
             CanTransition(GateUnitTransitions, gate.status, target)

\* Mutant of TwoPeople: the submitter may approve.
OnePerson(dir, actor, to) == to = "approved" => dir.submittedBy # None

TwoPeople(dir, actor, to) ==
  to = "approved" => dir.submittedBy # None /\ dir.submittedBy # actor

BeginTransitionDirective(r, id, to, a, role, e) ==
  /\ Free(r, "TransitionDirective")
  /\ role \in RolesOf[a] \cap Dispatchers
  /\ Live(directives, id)
  /\ CanTransition(OperationDirectiveTransitions, directives[id].status, to)
  /\ to # "completed"
  /\ directiveRoleAllowed(to, role)
  /\ GateAdmits(directives[id], to)
  /\ TwoPeople(directives[id], a, to)
  /\ e \in VersionsSent(id, directives[id].version)
  /\ ReadsGate(directives[id], to) => Room(gates, directives[id].gate)
  /\ Begin(r, [Idle EXCEPT !.op = "TransitionDirective", !.id = id, !.to = to,
                 !.actor = a, !.role = role, !.exp = e, !.dir = directives[id],
                 !.gate = IF ReadsGate(directives[id], to)
                          THEN gates[directives[id].gate] ELSE NoGate])

\* Mutant of Transitioned: role and actor are swapped in the call.
TransitionedByRole(q) ==
  [q.dir EXCEPT !.status = q.to,
                !.submittedBy = IF q.to = "pending" THEN q.role ELSE @,
                !.approvedBy = IF q.to = "approved" THEN q.role ELSE @]

\* The directive as the transition writes it.
Transitioned(q) ==
  [q.dir EXCEPT !.status = q.to,
                !.submittedBy = IF q.to = "pending" THEN q.actor ELSE @,
                !.approvedBy = IF q.to = "approved" THEN q.actor ELSE @]

\* The approval rows of the transition.
Evidence(q) ==
  {[directive |-> q.id, stage |-> stage, actor |-> q.actor, role |-> q.role] :
     stage \in {s \in {"submitted", "approved"} :
                  q.to = IF s = "submitted" THEN "pending" ELSE "approved"}}

\* idx_directive_stage: at most one approval per directive and stage.
EvidenceInsertable(rows) ==
  \A p \in rows, o \in approvals : <<p.directive, p.stage>> # <<o.directive, o.stage>>

CommitTransitionDirective(r) ==
  LET q == req[r]
      g == q.dir.gate
      target == GateTarget(q.dir, q.gate, q.to)
      trail == Logged(audit, q.id, q.dir.status, q.to)
  IN  /\ InFlight(r, "TransitionDirective")
      /\ Current(directives, q.id, q.exp)
      /\ EvidenceInsertable(Evidence(q))
      /\ directives' = Write(directives, q.id, q.exp, Transitioned(q))
      /\ approvals' = approvals \cup Evidence(q)
      /\ \/ /\ ~MovesGate(q.gate, target)
            /\ audit' = trail
            /\ gates' = gates
         \/ /\ MovesGate(q.gate, target)
            /\ Current(gates, g, q.gate.version)
            /\ gates' = Write(gates, g, q.gate.version, [q.gate EXCEPT !.status = target])
            /\ audit' = Logged(trail, g, q.gate.status, target)
      /\ Finish(r)
      /\ UNCHANGED <<reservoirs, confirmations>>

-----------------------------------------------------------------------------
BeginDeleteDirective(r, id) ==
  /\ Free(r, "DeleteDirective") /\ Admitted(Deleters)
  /\ Live(directives, id)
  /\ directives[id].status = "draft"
  /\ Begin(r, [Idle EXCEPT !.op = "DeleteDirective", !.id = id,
                           !.dir = directives[id]])

CommitDeleteDirective(r) ==
  LET q == req[r]
  IN  /\ InFlight(r, "DeleteDirective")
      /\ Live(directives, q.id)
      /\ directives' = SoftDelete(directives, q.id)
      /\ audit' = Logged(audit, q.id, q.dir.status, "deleted")
      /\ Finish(r)
      /\ UNCHANGED <<reservoirs, gates, confirmations, approvals>>

\* What the request has checked, of what it carries and of what it has read.
DirectiveValid(q) ==
  /\ q.op \in {"CreateDirective", "UpdateDirective", "TransitionDirective",
              "DeleteDirective"} => q.id \in DirectiveIds
  /\ q.op \in {"CreateDirective", "UpdateDirective"} =>
       q.plan \in [facility : Facilities, link : GateIds, gateState : GateTargets]
  /\ q.op \in {"UpdateDirective", "TransitionDirective", "DeleteDirective"} => q.dir.live
  /\ q.op \in {"UpdateDirective", "DeleteDirective"} => q.dir.status = "draft"
  /\ q.op \in {"UpdateDirective", "TransitionDirective"} => q.exp \in 1..q.dir.version
  /\ q.op = "TransitionDirective" =>
       /\ CanTransition(OperationDirectiveTransitions, q.dir.status, q.to)
       /\ q.to # "completed"
       /\ q.actor \in Actors /\ q.role \in Roles
       /\ directiveRoleAllowed(q.to, q.role)
       /\ TwoPeople(q.dir, q.actor, q.to)
       /\ ReadsGate(q.dir, q.to) => q.gate.live
       /\ q.to = "executing" => q.gate.status # "locked"
       /\ MovesGate(q.gate, GateTarget(q.dir, q.gate, q.to)) =>
            /\ q.gate.live
            /\ CanTransition(GateUnitTransitions, q.gate.status,
                             GateTarget(q.dir, q.gate, q.to))

DirectiveNext(r) ==
  \/ \E id \in DirectiveIds, g \in GateIds, f \in Facilities, s \in GateTargets :
       BeginCreateDirective(r, id, g, f, s)
  \/ CommitCreateDirective(r)
  \/ \E id \in DirectiveIds, g \in GateIds, f \in Facilities, s \in GateTargets :
       \E e \in 1..MaxVersion[id] : BeginUpdateDirective(r, id, g, f, s, e)
  \/ CommitUpdateDirective(r)
  \/ \E id \in DirectiveIds, to \in DirectiveStates, a \in Actors, role \in Roles :
       \E e \in 1..MaxVersion[id] : BeginTransitionDirective(r, id, to, a, role, e)
  \/ CommitTransitionDirective(r)
  \/ \E id \in DirectiveIds : BeginDeleteDirective(r, id)
  \/ CommitDeleteDirective(r)
=============================================================================
