-------------------- MODULE ExecutionConfirmationService --------------------
(***************************************************************************)
(* backend/internal/service/execution_confirmation.go: the receipt of the  *)
(* execution in the field.  Confirming it completes the directive and      *)
(* settles the gate, failing it aborts the directive and locks the gate,   *)
(* in one transaction over the three rows.                                 *)
(***************************************************************************)
EXTENDS DispatchState

\* Mutant of Executing: the status of the directive is not looked at.
FoundDirective(d) == Live(directives, d)

\* requireExecutingDirective
Executing(d) == Live(directives, d) /\ directives[d].status = "executing"

\* CountByDirectiveCode = 0: deleted receipts are not counted.
NoReceiptOf(d) == \A c \in ConfirmationIds :
                    Live(confirmations, c) => confirmations[c].directive # d

BeginCreateConfirmation(r, id, d) ==
  /\ Free(r, "CreateConfirmation") /\ Admitted(Writers)
  /\ Executing(d)
  /\ NoReceiptOf(d)
  /\ Begin(r, [Idle EXCEPT !.op = "CreateConfirmation", !.id = id,
                 !.plan = [NoPlan EXCEPT !.facility = directives[d].facility,
                                         !.link = d]])

\* Mutant of LinkUnused: related_code has lost its unique index.
LinkUnindexed(d) == d \in DirectiveIds

\* The unique index on related_code: deleted receipts do occupy their directive.
LinkUnused(d) == \A c \in ConfirmationIds : confirmations[c].directive # d

CommitCreateConfirmation(r) ==
  LET q == req[r]
      item == [live |-> TRUE, version |-> 1,
               status |-> ExecutionConfirmationInitialStatus,
               facility |-> q.plan.facility, directive |-> q.plan.link]
  IN  /\ InFlight(r, "CreateConfirmation")
      /\ Insertable(confirmations, q.id)
      /\ LinkUnused(q.plan.link)
      /\ confirmations' = Insert(confirmations, q.id, item)
      /\ audit' = Logged(audit, q.id, None, item.status)
      /\ Finish(r)
      /\ UNCHANGED <<reservoirs, gates, directives, approvals>>

\* The linked directive cannot be changed by an update, and lends the receipt
\* its facility.
BeginUpdateConfirmation(r, id, e) ==
  /\ Free(r, "UpdateConfirmation") /\ Admitted(Writers)
  /\ Live(confirmations, id)
  /\ confirmations[id].status = "pending"
  /\ Executing(confirmations[id].directive)
  /\ e \in VersionsSent(id, confirmations[id].version)
  /\ Begin(r, [Idle EXCEPT !.op = "UpdateConfirmation", !.id = id, !.exp = e,
                 !.conf = confirmations[id],
                 !.plan = [NoPlan EXCEPT
                   !.facility = directives[confirmations[id].directive].facility]])

CommitUpdateConfirmation(r) ==
  LET q == req[r]
  IN  /\ InFlight(r, "UpdateConfirmation")
      /\ Current(confirmations, q.id, q.exp)
      /\ confirmations' = Write(confirmations, q.id, q.exp,
                                [q.conf EXCEPT !.facility = q.plan.facility])
      /\ audit' = Logged(audit, q.id, q.conf.status, q.conf.status)
      /\ Finish(r)
      /\ UNCHANGED <<reservoirs, gates, directives, approvals>>

-----------------------------------------------------------------------------
(* Transition.  Only the outcome of a pending receipt (confirmed, failed)  *)
(* reaches the directive and the gate; cancelling a failed one does not.   *)

DirectiveOutcome(to) == IF to = "confirmed" THEN "completed" ELSE "aborted"

\* Mutant of GateOutcome: a failed execution closes the gate.
GateOutcomeClosed(dir, to) == IF to = "confirmed" THEN dir.gateState ELSE "closed"

GateOutcome(dir, to) == IF to = "confirmed" THEN dir.gateState ELSE "locked"

\* The directive executes, its gate is found and can go where the outcome says.
OutcomePossible(conf, to) ==
  /\ Executing(conf.directive)
  /\ LET dir == directives[conf.directive]
         gate == gates[dir.gate]
     IN  /\ Live(gates, dir.gate)
         /\ gate.status # GateOutcome(dir, to) =>
              CanTransition(GateUnitTransitions, gate.status, GateOutcome(dir, to))

BeginOutcome(r, id, to, e) ==
  /\ Free(r, "TransitionConfirmation") /\ Admitted(Writers)
  /\ Live(confirmations, id)
  /\ confirmations[id].status = "pending"
  /\ CanTransition(ExecutionConfirmationTransitions, confirmations[id].status, to)
  /\ OutcomePossible(confirmations[id], to)
  /\ e \in VersionsSent(id, confirmations[id].version)
  /\ LET dir == directives[confirmations[id].directive]
     IN  /\ Room(directives, confirmations[id].directive) /\ Room(gates, dir.gate)
         /\ Begin(r, [Idle EXCEPT !.op = "TransitionConfirmation", !.id = id,
                        !.to = to, !.exp = e, !.conf = confirmations[id],
                        !.dir = dir, !.gate = gates[dir.gate]])

BeginCancel(r, id, to, e) ==
  /\ Free(r, "TransitionConfirmation") /\ Admitted(Writers)
  /\ Live(confirmations, id)
  /\ confirmations[id].status # "pending"
  /\ CanTransition(ExecutionConfirmationTransitions, confirmations[id].status, to)
  /\ e \in VersionsSent(id, confirmations[id].version)
  /\ Begin(r, [Idle EXCEPT !.op = "TransitionConfirmation", !.id = id, !.to = to,
                           !.exp = e, !.conf = confirmations[id]])

CommitOutcome(r) ==
  LET q == req[r]
      d == q.conf.directive
      g == q.dir.gate
      outcome == DirectiveOutcome(q.to)
      target == GateOutcome(q.dir, q.to)
      trail == Logged(Logged(audit, q.id, q.conf.status, q.to),
                      d, q.dir.status, outcome)
  IN  /\ InFlight(r, "TransitionConfirmation")
      /\ q.conf.status = "pending"
      /\ Current(confirmations, q.id, q.exp)
      /\ Current(directives, d, q.dir.version)
      /\ confirmations' =
           Write(confirmations, q.id, q.exp, [q.conf EXCEPT !.status = q.to])
      /\ directives' =
           Write(directives, d, q.dir.version, [q.dir EXCEPT !.status = outcome])
      /\ \/ /\ q.gate.status = target
            /\ audit' = trail
            /\ gates' = gates
         \/ /\ q.gate.status # target
            /\ Current(gates, g, q.gate.version)
            /\ gates' = Write(gates, g, q.gate.version, [q.gate EXCEPT !.status = target])
            /\ audit' = Logged(trail, g, q.gate.status, target)
      /\ Finish(r)
      /\ UNCHANGED <<reservoirs, approvals>>

CommitCancel(r) ==
  LET q == req[r]
  IN  /\ InFlight(r, "TransitionConfirmation")
      /\ q.conf.status # "pending"
      /\ Current(confirmations, q.id, q.exp)
      /\ confirmations' =
           Write(confirmations, q.id, q.exp, [q.conf EXCEPT !.status = q.to])
      /\ audit' = Logged(audit, q.id, q.conf.status, q.to)
      /\ Finish(r)
      /\ UNCHANGED <<reservoirs, gates, directives, approvals>>

-----------------------------------------------------------------------------
BeginDeleteConfirmation(r, id) ==
  /\ Free(r, "DeleteConfirmation") /\ Admitted(Deleters)
  /\ Live(confirmations, id)
  /\ confirmations[id].status = "pending"
  /\ Begin(r, [Idle EXCEPT !.op = "DeleteConfirmation", !.id = id,
                           !.conf = confirmations[id]])

CommitDeleteConfirmation(r) ==
  LET q == req[r]
  IN  /\ InFlight(r, "DeleteConfirmation")
      /\ Live(confirmations, q.id)
      /\ confirmations' = SoftDelete(confirmations, q.id)
      /\ audit' = Logged(audit, q.id, q.conf.status, "deleted")
      /\ Finish(r)
      /\ UNCHANGED <<reservoirs, gates, directives, approvals>>

\* What the request has checked, of what it carries and of what it has read.
ConfirmationValid(q) ==
  /\ q.op \in {"CreateConfirmation", "UpdateConfirmation", "TransitionConfirmation",
              "DeleteConfirmation"} => q.id \in ConfirmationIds
  /\ q.op = "CreateConfirmation" => q.plan.link \in DirectiveIds
  /\ q.op \in {"CreateConfirmation", "UpdateConfirmation"} => q.plan.facility \in Facilities
  /\ q.op \in {"UpdateConfirmation", "TransitionConfirmation", "DeleteConfirmation"} =>
       q.conf.live
  /\ q.op \in {"UpdateConfirmation", "TransitionConfirmation"} =>
       q.exp \in 1..q.conf.version
  /\ q.op = "TransitionConfirmation" =>
       /\ CanTransition(ExecutionConfirmationTransitions, q.conf.status, q.to)
       /\ q.conf.status = "pending" =>
            /\ q.dir.live /\ q.dir.status = "executing" /\ q.gate.live
            /\ q.gate.status # GateOutcome(q.dir, q.to) =>
                 CanTransition(GateUnitTransitions, q.gate.status,
                               GateOutcome(q.dir, q.to))

ConfirmationNext(r) ==
  \/ \E id \in ConfirmationIds, d \in DirectiveIds : BeginCreateConfirmation(r, id, d)
  \/ CommitCreateConfirmation(r)
  \/ \E id \in ConfirmationIds : \E e \in 1..MaxVersion[id] :
       BeginUpdateConfirmation(r, id, e)
  \/ CommitUpdateConfirmation(r)
  \/ \E id \in ConfirmationIds, to \in ConfirmationStates :
       \E e \in 1..MaxVersion[id] : BeginOutcome(r, id, to, e) \/ BeginCancel(r, id, to, e)
  \/ CommitOutcome(r)
  \/ CommitCancel(r)
  \/ \E id \in ConfirmationIds : BeginDeleteConfirmation(r, id)
  \/ CommitDeleteConfirmation(r)
=============================================================================
