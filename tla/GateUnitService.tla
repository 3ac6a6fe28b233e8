-------------------------- MODULE GateUnitService ---------------------------
(***************************************************************************)
(* backend/internal/service/gate_unit.go.  A gate belongs to a live        *)
(* reservoir of its own facility, checked when it is created and at every  *)
(* update; the reservoir itself is not locked or versioned by the check.   *)
(***************************************************************************)
EXTENDS DispatchState

\* The reservoir is found and the facility of the request is the reservoir's.
ReservoirAccepts(res, f) == Live(reservoirs, res) /\ reservoirs[res].facility = f

BeginCreateGate(r, id, res, f) ==
  /\ Free(r, "CreateGate") /\ Admitted(Writers)
  /\ ReservoirAccepts(res, f)
  /\ Begin(r, [Idle EXCEPT !.op = "CreateGate", !.id = id,
                           !.plan = [NoPlan EXCEPT !.facility = f, !.link = res]])

CommitCreateGate(r) ==
  LET q == req[r]
      item == [live |-> TRUE, version |-> 1, status |-> GateUnitInitialStatus,
               facility |-> q.plan.facility, reservoir |-> q.plan.link]
  IN  /\ InFlight(r, "CreateGate")
      /\ Insertable(gates, q.id)
      /\ gates' = Insert(gates, q.id, item)
      /\ audit' = Logged(audit, q.id, None, item.status)
      /\ Finish(r)
      /\ UNCHANGED <<reservoirs, directives, confirmations, approvals>>

\* The linked reservoir cannot be changed by an update.
BeginUpdateGate(r, id, f, e) ==
  /\ Free(r, "UpdateGate") /\ Admitted(Writers)
  /\ Live(gates, id)
  /\ ReservoirAccepts(gates[id].reservoir, f)
  /\ e \in VersionsSent(id, gates[id].version)
  /\ Begin(r, [Idle EXCEPT !.op = "UpdateGate", !.id = id, !.exp = e,
                           !.plan = [NoPlan EXCEPT !.facility = f],
                           !.gate = gates[id]])

CommitUpdateGate(r) ==
  LET q == req[r]
  IN  /\ InFlight(r, "UpdateGate")
      /\ Current(gates, q.id, q.exp)
      /\ gates' = Write(gates, q.id, q.exp, [q.gate EXCEPT !.facility = q.plan.facility])
      /\ audit' = Logged(audit, q.id, q.gate.status, q.gate.status)
      /\ Finish(r)
      /\ UNCHANGED <<reservoirs, directives, confirmations, approvals>>

BeginTransitionGate(r, id, to, e) ==
  /\ Free(r, "TransitionGate") /\ Admitted(Writers)
  /\ Live(gates, id)
  /\ CanTransition(GateUnitTransitions, gates[id].status, to)
  /\ e \in VersionsSent(id, gates[id].version)
  /\ Begin(r, [Idle EXCEPT !.op = "TransitionGate", !.id = id, !.to = to,
                           !.exp = e, !.gate = gates[id]])

CommitTransitionGate(r) ==
  LET q == req[r]
  IN  /\ InFlight(r, "TransitionGate")
      /\ Current(gates, q.id, q.exp)
      /\ gates' = Write(gates, q.id, q.exp, [q.gate EXCEPT !.status = q.to])
      /\ audit' = Logged(audit, q.id, q.gate.status, q.to)
      /\ Finish(r)
      /\ UNCHANGED <<reservoirs, directives, confirmations, approvals>>

BeginDeleteGate(r, id) ==
  /\ Free(r, "DeleteGate") /\ Admitted(Deleters)
  /\ Live(gates, id)
  /\ Begin(r, [Idle EXCEPT !.op = "DeleteGate", !.id = id, !.gate = gates[id]])

CommitDeleteGate(r) ==
  LET q == req[r]
  IN  /\ InFlight(r, "DeleteGate")
      /\ Live(gates, q.id)
      /\ gates' = SoftDelete(gates, q.id)
      /\ audit' = Logged(audit, q.id, q.gate.status, "deleted")
      /\ Finish(r)
      /\ UNCHANGED <<reservoirs, directives, confirmations, approvals>>

\* What the request has checked, of what it carries and of what it has read.
GateValid(q) ==
  /\ q.op \in {"CreateGate", "UpdateGate", "TransitionGate", "DeleteGate"} =>
       q.id \in GateIds
  /\ q.op = "CreateGate" => q.plan.link \in ReservoirIds
  /\ q.op \in {"CreateGate", "UpdateGate"} => q.plan.facility \in Facilities
  /\ q.op \in {"UpdateGate", "TransitionGate", "DeleteGate"} => q.gate.live
  /\ q.op \in {"UpdateGate", "TransitionGate"} => q.exp \in 1..q.gate.version
  /\ q.op = "TransitionGate" => CanTransition(GateUnitTransitions, q.gate.status, q.to)

GateNext(r) ==
  \/ \E id \in GateIds, res \in ReservoirIds, f \in Facilities :
       BeginCreateGate(r, id, res, f)
  \/ CommitCreateGate(r)
  \/ \E id \in GateIds, f \in Facilities : \E e \in 1..MaxVersion[id] :
       BeginUpdateGate(r, id, f, e)
  \/ CommitUpdateGate(r)
  \/ \E id \in GateIds, to \in GateStates : \E e \in 1..MaxVersion[id] :
       BeginTransitionGate(r, id, to, e)
  \/ CommitTransitionGate(r)
  \/ \E id \in GateIds : BeginDeleteGate(r, id)
  \/ CommitDeleteGate(r)
=============================================================================
