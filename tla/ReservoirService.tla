-------------------------- MODULE ReservoirService --------------------------
(***************************************************************************)
(* backend/internal/service/reservoir.go.  A reservoir is the root of the  *)
(* chain reservoir, gate, directive, confirmation; its own reference       *)
(* (relatedCode) is checked by nothing and left out.                       *)
(***************************************************************************)
EXTENDS DispatchState

BeginCreateReservoir(r, id, f) ==
  /\ Free(r, "CreateReservoir") /\ Admitted(Writers)
  /\ Begin(r, [Idle EXCEPT !.op = "CreateReservoir", !.id = id,
                           !.plan = [NoPlan EXCEPT !.facility = f]])

CommitCreateReservoir(r) ==
  LET q == req[r]
      item == [live |-> TRUE, version |-> 1, status |-> ReservoirInitialStatus,
               facility |-> q.plan.facility]
  IN  /\ InFlight(r, "CreateReservoir")
      /\ Insertable(reservoirs, q.id)
      /\ reservoirs' = Insert(reservoirs, q.id, item)
      /\ audit' = Logged(audit, q.id, None, item.status)
      /\ Finish(r)
      /\ UNCHANGED <<gates, directives, confirmations, approvals>>

BeginUpdateReservoir(r, id, f, e) ==
  /\ Free(r, "UpdateReservoir") /\ Admitted(Writers)
  /\ Live(reservoirs, id)
  /\ e \in VersionsSent(id, reservoirs[id].version)
  /\ Begin(r, [Idle EXCEPT !.op = "UpdateReservoir", !.id = id, !.exp = e,
                           !.plan = [NoPlan EXCEPT !.facility = f],
                           !.res = reservoirs[id]])

CommitUpdateReservoir(r) ==
  LET q == req[r]
  IN  /\ InFlight(r, "UpdateReservoir")
      /\ Current(reservoirs, q.id, q.exp)
      /\ reservoirs' = Write(reservoirs, q.id, q.exp,
                             [q.res EXCEPT !.facility = q.plan.facility])
      /\ audit' = Logged(audit, q.id, q.res.status, q.res.status)
      /\ Finish(r)
      /\ UNCHANGED <<gates, directives, confirmations, approvals>>

BeginTransitionReservoir(r, id, to, e) ==
  /\ Free(r, "TransitionReservoir") /\ Admitted(Writers)
  /\ Live(reservoirs, id)
  /\ CanTransition(ReservoirTransitions, reservoirs[id].status, to)
  /\ e \in VersionsSent(id, reservoirs[id].version)
  /\ Begin(r, [Idle EXCEPT !.op = "TransitionReservoir", !.id = id, !.to = to,
                           !.exp = e, !.res = reservoirs[id]])

CommitTransitionReservoir(r) ==
  LET q == req[r]
  IN  /\ InFlight(r, "TransitionReservoir")
      /\ Current(reservoirs, q.id, q.exp)
      /\ reservoirs' = Write(reservoirs, q.id, q.exp, [q.res EXCEPT !.status = q.to])
      /\ audit' = Logged(audit, q.id, q.res.status, q.to)
      /\ Finish(r)
      /\ UNCHANGED <<gates, directives, confirmations, approvals>>

BeginDeleteReservoir(r, id) ==
  /\ Free(r, "DeleteReservoir") /\ Admitted(Deleters)
  /\ Live(reservoirs, id)
  /\ Begin(r, [Idle EXCEPT !.op = "DeleteReservoir", !.id = id,
                           !.res = reservoirs[id]])

CommitDeleteReservoir(r) ==
  LET q == req[r]
  IN  /\ InFlight(r, "DeleteReservoir")
      /\ Live(reservoirs, q.id)
      /\ reservoirs' = SoftDelete(reservoirs, q.id)
      /\ audit' = Logged(audit, q.id, q.res.status, "deleted")
      /\ Finish(r)
      /\ UNCHANGED <<gates, directives, confirmations, approvals>>

\* What the request has checked, of what it carries and of what it has read.
ReservoirValid(q) ==
  /\ q.op \in {"CreateReservoir", "UpdateReservoir", "TransitionReservoir",
              "DeleteReservoir"} => q.id \in ReservoirIds
  /\ q.op \in {"CreateReservoir", "UpdateReservoir"} => q.plan.facility \in Facilities
  /\ q.op \in {"UpdateReservoir", "TransitionReservoir", "DeleteReservoir"} => q.res.live
  /\ q.op \in {"UpdateReservoir", "TransitionReservoir"} => q.exp \in 1..q.res.version
  /\ q.op = "TransitionReservoir" =>
       CanTransition(ReservoirTransitions, q.res.status, q.to)

ReservoirNext(r) ==
  \/ \E id \in ReservoirIds, f \in Facilities : BeginCreateReservoir(r, id, f)
  \/ CommitCreateReservoir(r)
  \/ \E id \in ReservoirIds, f \in Facilities : \E e \in 1..MaxVersion[id] :
       BeginUpdateReservoir(r, id, f, e)
  \/ CommitUpdateReservoir(r)
  \/ \E id \in ReservoirIds, to \in ReservoirStates : \E e \in 1..MaxVersion[id] :
       BeginTransitionReservoir(r, id, to, e)
  \/ CommitTransitionReservoir(r)
  \/ \E id \in ReservoirIds : BeginDeleteReservoir(r, id)
  \/ CommitDeleteReservoir(r)
=============================================================================
