------------------------- MODULE DispatchStepProofs -------------------------
(***************************************************************************)
(* What a step of DispatchControl does to the database.  A request         *)
(* computes what it writes from rows it has read some time ago; yet each   *)
(* row is written as if it had been read and checked in the step that      *)
(* writes it.  Nothing of the kind holds of the rows that a request checks *)
(* and does not write (a gate found at its target, the gate of a plan, the *)
(* directive of a new receipt), nor of a deletion, which checks no version.*)
(* From this follow the action properties, and later the invariants of the *)
(* workflow.                                                               *)
(***************************************************************************)
EXTENDS DispatchLockingProofs

\* What creations and updates have checked of rows they do not write, and what
\* stays of it: a gate once inserted stays inserted, a directive once started
\* never goes back.
PlanSound(q) ==
  /\ q.op \in {"CreateDirective", "UpdateDirective"} =>
       gates[q.plan.link].status # "absent"
  /\ q.op = "CreateConfirmation" =>
       directives[q.plan.link].status \in {"executing", "completed", "aborted"}

\* So much is left, for every request, of what it has checked of other rows.
AllPlansSound == \A r \in Requests : PlanSound(req[r])

\* The invariant of the steps: a row that a request holds is the table's row, or
\* another version or a deletion gives it away; and AllPlansSound.
Sound == Typed /\ AllFaithful /\ AllPlansSound

-----------------------------------------------------------------------------
(* The effects of a step. *)

\* A row goes from old to new, and the audit entry before, after tells how: it
\* is inserted, updated along its graph, or deleted.
Altered(graph, initial, id, old, new, before, after) ==
  \/ /\ old.status = "absent" /\ new.status = initial /\ new.live
     /\ before = None /\ after = initial
  \/ /\ old.live /\ new.live /\ new.version = old.version + 1
     /\ new.status = old.status \/ CanTransition(graph, old.status, new.status)
     /\ before = old.status /\ after = new.status
  \/ /\ old.live /\ ~new.live /\ new.status = old.status
     /\ before = old.status \/ ReadEarlier(id, old, before)
     /\ after = "deleted"

\* A step that reads, or fails.
Quiet == UNCHANGED <<reservoirs, gates, directives, confirmations, approvals, audit>>

\* The reservoir service writes one row.
ReservoirStep(id, row, before, after) ==
  /\ Altered(ReservoirTransitions, ReservoirInitialStatus,
             id, reservoirs[id], row, before, after)
  /\ reservoirs' = [reservoirs EXCEPT ![id] = row]
  /\ audit' = Logged(audit, id, before, after)
  /\ UNCHANGED <<gates, directives, confirmations, approvals>>

\* The gate service writes one row.
GateStep(id, row, before, after) ==
  /\ Altered(GateUnitTransitions, GateUnitInitialStatus,
             id, gates[id], row, before, after)
  /\ gates' = [gates EXCEPT ![id] = row]
  /\ audit' = Logged(audit, id, before, after)
  /\ UNCHANGED <<reservoirs, directives, confirmations, approvals>>

\* The next version of a live row.
Succeeds(old, new) == old.live /\ new.live /\ new.version = old.version + 1

\* A directive's plan stays.
SamePlan(old, new) ==
  new.gate = old.gate /\ new.gateState = old.gateState /\ new.facility = old.facility

\* The people who signed it stay.
SameSigners(old, new) ==
  new.submittedBy = old.submittedBy /\ new.approvedBy = old.approvedBy

\* Besides the rows that trail tells of, gate g goes to target or is left alone.
GateFollows(g, target, trail) ==
  \/ gates' = gates /\ audit' = trail
  \/ \E row \in PresentGate :
       /\ Succeeds(gates[g], row) /\ row.status = target
       /\ CanTransition(GateUnitTransitions, gates[g].status, target)
       /\ gates' = [gates EXCEPT ![g] = row]
       /\ audit' = Logged(trail, g, gates[g].status, target)

\* A directive is inserted for a gate that exists.
Drafts(d, row) ==
  /\ directives[d].status = "absent"
  /\ row.live /\ row.status = "draft" /\ row.submittedBy = None /\ row.approvedBy = None
  /\ gates[row.gate].status # "absent"
  /\ directives' = [directives EXCEPT ![d] = row]
  /\ audit' = Logged(audit, d, None, "draft")
  /\ UNCHANGED <<reservoirs, gates, confirmations, approvals>>

\* A draft is updated.
Revises(d, row) ==
  /\ directives[d].status = "draft" /\ row.status = "draft"
  /\ Succeeds(directives[d], row) /\ SameSigners(directives[d], row)
  /\ gates[row.gate].status # "absent"
  /\ directives' = [directives EXCEPT ![d] = row]
  /\ audit' = Logged(audit, d, "draft", "draft")
  /\ UNCHANGED <<reservoirs, gates, confirmations, approvals>>

\* The approval rows of actor a in this role.
Signature(d, to, a, role) ==
  Evidence([id |-> d, to |-> to, actor |-> a, role |-> role])

\* A directive goes to another status, signed and followed by its gate or not: a gate
\* that stood at the target when it was read is left as it is by now.
Transits(d, row, to, a, role) ==
  LET old == directives[d]
      trail == Logged(audit, d, old.status, to)
  IN  /\ CanTransition(OperationDirectiveTransitions, old.status, to)
      /\ to # "completed"
      /\ directiveRoleAllowed(to, role)
      /\ TwoPeople(old, a, to)
      /\ Succeeds(old, row) /\ SamePlan(old, row) /\ row.status = to
      /\ row.submittedBy = IF to = "pending" THEN a ELSE old.submittedBy
      /\ row.approvedBy = IF to = "approved" THEN a ELSE old.approvedBy
      /\ directives' = [directives EXCEPT ![d] = row]
      /\ approvals' = approvals \cup Signature(d, to, a, role)
      /\ \/ gates' = gates /\ audit' = trail
         \/ ReadsGate(old, to)
            /\ GateFollows(old.gate, IF to = "aborted" THEN "locked" ELSE "moving", trail)
      /\ UNCHANGED <<reservoirs, confirmations>>

\* A directive is deleted that is a draft, or was one when it was read.
Removes(d, row, before) ==
  /\ before = "draft"
  /\ directives[d].live /\ ~row.live /\ row.status = directives[d].status
  /\ SamePlan(directives[d], row) /\ SameSigners(directives[d], row)
  /\ directives' = [directives EXCEPT ![d] = row]
  /\ before = directives[d].status \/ ReadEarlier(d, directives[d], before)
  /\ audit' = Logged(audit, d, before, "deleted")
  /\ UNCHANGED <<reservoirs, gates, confirmations, approvals>>

\* A receipt is inserted for a directive that was started, and may have ended since.
Opens(c, row) ==
  /\ confirmations[c].status = "absent" /\ LinkUnused(row.directive)
  /\ row.live /\ row.status = "pending"
  /\ directives[row.directive].status \in {"executing", "completed", "aborted"}
  /\ confirmations' = [confirmations EXCEPT ![c] = row]
  /\ audit' = Logged(audit, c, None, "pending")
  /\ UNCHANGED <<reservoirs, gates, directives, approvals>>

\* An update, or the cancelling of a failed receipt.
Amends(c, row) ==
  LET old == confirmations[c]
  IN  /\ Succeeds(old, row) /\ row.directive = old.directive
      /\ row.status = old.status \/ (old.status = "failed" /\ row.status = "cancelled")
      /\ confirmations' = [confirmations EXCEPT ![c] = row]
      /\ audit' = Logged(audit, c, old.status, row.status)
      /\ UNCHANGED <<reservoirs, gates, directives, approvals>>

\* The outcome of a pending receipt, with its directive's row.
Settles(c, row, dir) ==
  LET old == confirmations[c]
      d == old.directive
      trail == Logged(Logged(audit, c, "pending", row.status), d, "executing", dir.status)
  IN  /\ old.status = "pending" /\ row.status \in {"confirmed", "failed"}
      /\ Succeeds(old, row) /\ row.directive = d
      /\ directives[d].status = "executing" /\ dir.status = DirectiveOutcome(row.status)
      /\ Succeeds(directives[d], dir)
      /\ SamePlan(directives[d], dir) /\ SameSigners(directives[d], dir)
      /\ confirmations' = [confirmations EXCEPT ![c] = row]
      /\ directives' = [directives EXCEPT ![d] = dir]
      /\ GateFollows(directives[d].gate, GateOutcome(directives[d], row.status), trail)
      /\ UNCHANGED <<reservoirs, approvals>>

\* A receipt is deleted.
Discards(c, row, before) ==
  /\ confirmations[c].live /\ ~row.live /\ row.status = confirmations[c].status
  /\ row.directive = confirmations[c].directive
  /\ confirmations' = [confirmations EXCEPT ![c] = row]
  /\ before = confirmations[c].status \/ ReadEarlier(c, confirmations[c], before)
  /\ audit' = Logged(audit, c, before, "deleted")
  /\ UNCHANGED <<reservoirs, gates, directives, approvals>>

\* What an audit entry says a row came from, or went to.
Entry == Statuses \cup {None, "deleted"}

\* A step of the reservoir or of the gate service.
RootStep ==
  \/ \E id \in ReservoirIds, row \in PresentReservoir, before, after \in Entry :
       ReservoirStep(id, row, before, after)
  \/ \E id \in GateIds, row \in PresentGate, before, after \in Entry :
       GateStep(id, row, before, after)

\* A step of the directive service.
DirectiveStep ==
  \E d \in DirectiveIds, row \in PresentDirective :
    \/ Drafts(d, row)
    \/ Revises(d, row)
    \/ \E to \in DirectiveStates, a \in Actors, role \in Roles : Transits(d, row, to, a, role)
    \/ \E before \in Entry : Removes(d, row, before)

\* A step of the confirmation service.
ReceiptStep ==
  \E c \in ConfirmationIds, row \in PresentConfirmation :
    \/ Opens(c, row)
    \/ Amends(c, row)
    \/ \E dir \in PresentDirective : Settles(c, row, dir)
    \/ \E before \in Entry : Discards(c, row, before)

\* Every step, as it looks from the database: one of the changes above of the rows as
\* they are, or none.
AtomicStep == Quiet \/ RootStep \/ DirectiveStep \/ ReceiptStep

-----------------------------------------------------------------------------
(* Rows as they are written. *)

\* What setting one field of a row of a reservoir or a gate leaves alone.
LEMMA ReservoirFields ==
  ASSUME NEW old \in PresentReservoir
  PROVE  /\ \A v \in Nat : \A new : new = [old EXCEPT !.version = v + 1] =>
              /\ new \in PresentReservoir
              /\ new.version = v + 1
              /\ new.live = old.live /\ new.status = old.status
         /\ \A f \in Facilities : \A new : new = [old EXCEPT !.facility = f] =>
              /\ new \in PresentReservoir
              /\ new.version = old.version
              /\ new.live = old.live /\ new.status = old.status
         /\ \A s \in ReservoirStates : \A new : new = [old EXCEPT !.status = s] =>
              /\ new \in PresentReservoir
              /\ new.version = old.version
              /\ new.live = old.live /\ new.status = s
         /\ \A new : new = [old EXCEPT !.live = FALSE] =>
              /\ new \in PresentReservoir
              /\ new.version = old.version
              /\ ~new.live /\ new.status = old.status
  <1>1. ASSUME NEW v \in Nat, NEW new, new = [old EXCEPT !.version = v + 1]
        PROVE  /\ new \in PresentReservoir
               /\ new.version = v + 1
               /\ new.live = old.live /\ new.status = old.status
    BY <1>1 DEF PresentReservoir
  <1>2. ASSUME NEW f \in Facilities, NEW new, new = [old EXCEPT !.facility = f]
        PROVE  /\ new \in PresentReservoir
               /\ new.version = old.version
               /\ new.live = old.live /\ new.status = old.status
    BY <1>2 DEF PresentReservoir
  <1>3. ASSUME NEW s \in ReservoirStates, NEW new, new = [old EXCEPT !.status = s]
        PROVE  /\ new \in PresentReservoir
               /\ new.version = old.version
               /\ new.live = old.live /\ new.status = s
    BY <1>3 DEF PresentReservoir
  <1>4. ASSUME NEW new, new = [old EXCEPT !.live = FALSE]
        PROVE  /\ new \in PresentReservoir
               /\ new.version = old.version
               /\ ~new.live /\ new.status = old.status
    BY <1>4 DEF PresentReservoir
  <1> QED BY <1>1, <1>2, <1>3, <1>4

\* The same of a gate.
LEMMA GateFields ==
  ASSUME NEW old \in PresentGate
  PROVE  /\ \A v \in Nat : \A new : new = [old EXCEPT !.version = v + 1] =>
              /\ new \in PresentGate
              /\ new.version = v + 1
              /\ new.live = old.live /\ new.status = old.status
         /\ \A f \in Facilities : \A new : new = [old EXCEPT !.facility = f] =>
              /\ new \in PresentGate
              /\ new.version = old.version
              /\ new.live = old.live /\ new.status = old.status
         /\ \A s \in GateStates : \A new : new = [old EXCEPT !.status = s] =>
              /\ new \in PresentGate
              /\ new.version = old.version
              /\ new.live = old.live /\ new.status = s
         /\ \A new : new = [old EXCEPT !.live = FALSE] =>
              /\ new \in PresentGate
              /\ new.version = old.version
              /\ ~new.live /\ new.status = old.status
  <1>1. ASSUME NEW v \in Nat, NEW new, new = [old EXCEPT !.version = v + 1]
        PROVE  /\ new \in PresentGate
               /\ new.version = v + 1
               /\ new.live = old.live /\ new.status = old.status
    BY <1>1 DEF PresentGate
  <1>2. ASSUME NEW f \in Facilities, NEW new, new = [old EXCEPT !.facility = f]
        PROVE  /\ new \in PresentGate
               /\ new.version = old.version
               /\ new.live = old.live /\ new.status = old.status
    BY <1>2 DEF PresentGate
  <1>3. ASSUME NEW s \in GateStates, NEW new, new = [old EXCEPT !.status = s]
        PROVE  /\ new \in PresentGate
               /\ new.version = old.version
               /\ new.live = old.live /\ new.status = s
    BY <1>3 DEF PresentGate
  <1>4. ASSUME NEW new, new = [old EXCEPT !.live = FALSE]
        PROVE  /\ new \in PresentGate
               /\ new.version = old.version
               /\ ~new.live /\ new.status = old.status
    BY <1>4 DEF PresentGate
  <1> QED BY <1>1, <1>2, <1>3, <1>4

\* The same of a directive.
LEMMA DirectiveFields ==
  ASSUME NEW old \in PresentDirective, NEW v \in Nat, NEW new,
         new = [old EXCEPT !.version = v + 1]
  PROVE  /\ new \in PresentDirective /\ new.version = v + 1
         /\ new.live = old.live /\ new.status = old.status
         /\ SamePlan(old, new) /\ SameSigners(old, new)
  BY DEF PresentDirective, SamePlan, SameSigners

\* The same of a receipt.
LEMMA ConfirmationFields ==
  ASSUME NEW old \in PresentConfirmation
  PROVE  /\ \A v \in Nat : \A new : new = [old EXCEPT !.version = v + 1] =>
              /\ new \in PresentConfirmation
              /\ new.version = v + 1
              /\ new.live = old.live /\ new.status = old.status
              /\ new.directive = old.directive
         /\ \A f \in Facilities : \A new : new = [old EXCEPT !.facility = f] =>
              /\ new \in PresentConfirmation
              /\ new.version = old.version
              /\ new.live = old.live /\ new.status = old.status
              /\ new.directive = old.directive
         /\ \A s \in ConfirmationStates : \A new : new = [old EXCEPT !.status = s] =>
              /\ new \in PresentConfirmation
              /\ new.version = old.version
              /\ new.live = old.live /\ new.status = s
              /\ new.directive = old.directive
         /\ \A new : new = [old EXCEPT !.live = FALSE] =>
              /\ new \in PresentConfirmation
              /\ new.version = old.version
              /\ ~new.live /\ new.status = old.status
              /\ new.directive = old.directive
  <1>1. ASSUME NEW v \in Nat, NEW new, new = [old EXCEPT !.version = v + 1]
        PROVE  /\ new \in PresentConfirmation
               /\ new.version = v + 1
               /\ new.live = old.live /\ new.status = old.status
               /\ new.directive = old.directive
    BY <1>1 DEF PresentConfirmation
  <1>2. ASSUME NEW f \in Facilities, NEW new, new = [old EXCEPT !.facility = f]
        PROVE  /\ new \in PresentConfirmation
               /\ new.version = old.version
               /\ new.live = old.live /\ new.status = old.status
               /\ new.directive = old.directive
    BY <1>2 DEF PresentConfirmation
  <1>3. ASSUME NEW s \in ConfirmationStates, NEW new, new = [old EXCEPT !.status = s]
        PROVE  /\ new \in PresentConfirmation
               /\ new.version = old.version
               /\ new.live = old.live /\ new.status = s
               /\ new.directive = old.directive
    BY <1>3 DEF PresentConfirmation
  <1>4. ASSUME NEW new, new = [old EXCEPT !.live = FALSE]
        PROVE  /\ new \in PresentConfirmation
               /\ new.version = old.version
               /\ ~new.live /\ new.status = old.status
               /\ new.directive = old.directive
    BY <1>4 DEF PresentConfirmation
  <1> QED BY <1>1, <1>2, <1>3, <1>4

\* A directive as its transition leaves it.
LEMMA TransitionedFields ==
  ASSUME NEW q \in Request, q.dir \in PresentDirective, q.actor \in Actors,
         q.to \in DirectiveStates, NEW new, new = Transitioned(q)
  PROVE  /\ new \in PresentDirective /\ new.version = q.dir.version
         /\ new.live = q.dir.live /\ new.status = q.to /\ SamePlan(q.dir, new)
         /\ new.submittedBy = IF q.to = "pending" THEN q.actor ELSE q.dir.submittedBy
         /\ new.approvedBy = IF q.to = "approved" THEN q.actor ELSE q.dir.approvedBy
  <1>1. CASE q.to = "pending"
    BY <1>1 DEF Transitioned, PresentDirective, SamePlan
  <1>2. CASE q.to = "approved"
    BY <1>2 DEF Transitioned, PresentDirective, SamePlan
  <1>3. CASE q.to \notin {"pending", "approved"}
    BY <1>3 DEF Transitioned, PresentDirective, SamePlan
  <1> QED BY <1>1, <1>2, <1>3

\* A row as the UPDATE writes it is in the table after the step.
LEMMA WrittenRow ==
  ASSUME NEW T, NEW id, NEW v, NEW mid, NEW row, row = [mid EXCEPT !.version = v + 1]
  PROVE  Write(T, id, v, mid) = [T EXCEPT ![id] = row]
  BY DEF Write

\* Who wins a version check has read the rows that it overwrites.
LEMMA Fresh ==
  ASSUME Typed, AllFaithful, NEW r \in Requests, NEW q, q = req[r]
  PROVE  /\ q.op \in {"UpdateReservoir", "TransitionReservoir"}
            /\ Current(reservoirs, q.id, q.exp)
              => reservoirs[q.id] = q.res
         /\ q.op \in {"UpdateGate", "TransitionGate"} /\ Current(gates, q.id, q.exp)
              => gates[q.id] = q.gate
         /\ q.op \in {"UpdateDirective", "TransitionDirective"}
            /\ Current(directives, q.id, q.exp)
              => directives[q.id] = q.dir
         /\ q.op \in {"UpdateConfirmation", "TransitionConfirmation"}
              /\ Current(confirmations, q.id, q.exp)
              => confirmations[q.id] = q.conf
         /\ q.op = "TransitionConfirmation" /\ q.conf.status = "pending"
              /\ Current(directives, q.conf.directive, q.dir.version)
              => directives[q.conf.directive] = q.dir
         /\ q.op \in {"TransitionDirective", "TransitionConfirmation"} /\ q.gate.live
              /\ Current(gates, q.dir.gate, q.gate.version)
              => gates[q.dir.gate] = q.gate
  <1>1. NoStaleWrite
    BY FaithfulSuffices
  <1> QED BY <1>1 DEF NoStaleWrite, HeldRow

\* Who deletes a live row has read the status it has, or an earlier version of it.
LEMMA EarlierRead ==
  ASSUME NEW r \in Requests, NEW T, NEW id, NEW seen, T[id].live, Held(T, id, seen),
         seen.version \in Nat, T[id].version \in Nat,
         req[r].op \in Deletions, req[r].id = id, RowRead(req[r]) = seen, req'[r] = Idle
  PROVE  seen.status = T[id].status \/ ReadEarlier(id, T[id], seen.status)
  <1>1. seen.version = T[id].version \/ seen.version < T[id].version
    BY DEF Held
  <1>2. CASE seen.version = T[id].version
    BY <1>2 DEF Held
  <1>3. CASE seen.version < T[id].version
    BY <1>3 DEF ReadEarlier
  <1> QED BY <1>1, <1>2, <1>3

\* A step that writes no row.
LEMMA BeginQuiet ==
  ASSUME NEW r, NEW F, Begin(r, F)
  PROVE  Quiet
  BY DEF Begin, Quiet

-----------------------------------------------------------------------------
(* The operations of the reservoir service. *)

\* A creation inserts a row.
LEMMA ReservoirCreated ==
  ASSUME Sound, NEW r \in Requests, CommitCreateReservoir(r)
  PROVE  RootStep
  <1>1. PICK q : q = req[r]
    OBVIOUS
  <1>2. q \in Request /\ Valid(q) /\ q.op = "CreateReservoir"
    BY <1>1, InFlightSound DEF Sound, CommitCreateReservoir, InFlight
  <1>3. q.id \in ReservoirIds /\ q.plan.facility \in Facilities
    BY <1>2 DEF Valid, ReservoirValid
  <1>4. PICK row : row = [live |-> TRUE, version |-> 1, status |-> ReservoirInitialStatus,
                          facility |-> q.plan.facility]
    OBVIOUS
  <1>5. row \in PresentReservoir /\ row.live /\ row.status = ReservoirInitialStatus
    BY <1>3, <1>4 DEF PresentReservoir, ReservoirStates, ReservoirInitialStatus
  <1>6. /\ reservoirs[q.id].status = "absent"
        /\ reservoirs' = [reservoirs EXCEPT ![q.id] = row]
        /\ audit' = Logged(audit, q.id, None, row.status)
    BY <1>1, <1>4, <1>5 DEF CommitCreateReservoir, Insertable, Insert
  <1>7. ReservoirStep(q.id, row, None, row.status)
    BY <1>5, <1>6 DEF CommitCreateReservoir, ReservoirStep, Altered
  <1>8. None \in Entry /\ row.status \in Entry
    BY <1>5 DEF Entry, Statuses, ReservoirStates, ReservoirInitialStatus
  <1> QED BY <1>3, <1>5, <1>7, <1>8 DEF RootStep

\* An update or a transition writes the row it has read.
LEMMA ReservoirUpdated ==
  ASSUME Sound, NEW r \in Requests, CommitUpdateReservoir(r) \/ CommitTransitionReservoir(r)
  PROVE  RootStep
  <1>1. PICK q : q = req[r]
    OBVIOUS
  <1>2. /\ q \in Request /\ Valid(q) /\ q.op \in {"UpdateReservoir", "TransitionReservoir"}
        /\ Current(reservoirs, q.id, q.exp)
    BY <1>1, InFlightSound
    DEF Sound, CommitUpdateReservoir, CommitTransitionReservoir, InFlight
  <1>3. q.id \in ReservoirIds /\ q.exp \in Nat /\ q.res \in PresentReservoir
    BY <1>2, LiveRows DEF Valid, ReservoirValid, Request
  <1>4. reservoirs[q.id] = q.res /\ q.res.live /\ q.res.version = q.exp
    BY <1>1, <1>2, Fresh DEF Sound, Current
  <1>5. PICK mid \in PresentReservoir, after \in ReservoirStates :
          /\ mid.live /\ mid.status = after
          /\ after = q.res.status \/ CanTransition(ReservoirTransitions, q.res.status, after)
          /\ reservoirs' = Write(reservoirs, q.id, q.exp, mid)
          /\ audit' = Logged(audit, q.id, q.res.status, after)
          /\ UNCHANGED <<gates, directives, confirmations, approvals>>
    <2>1. CASE CommitUpdateReservoir(r)
      <3>1. PICK mid : mid = [q.res EXCEPT !.facility = q.plan.facility]
        OBVIOUS
      <3>2. q.plan.facility \in Facilities
        BY <2>1, <1>1, <1>2 DEF CommitUpdateReservoir, InFlight, Valid, ReservoirValid
      <3>3. mid \in PresentReservoir /\ mid.live /\ mid.status = q.res.status
        BY <1>3, <1>4, <3>1, <3>2, ReservoirFields
      <3>4. q.res.status \in ReservoirStates
        BY <1>3 DEF PresentReservoir
      <3>5. /\ reservoirs' = Write(reservoirs, q.id, q.exp, mid)
            /\ audit' = Logged(audit, q.id, q.res.status, q.res.status)
            /\ UNCHANGED <<gates, directives, confirmations, approvals>>
        BY <2>1, <1>1, <3>1 DEF CommitUpdateReservoir
      <3> QED BY <3>3, <3>4, <3>5
    <2>2. CASE CommitTransitionReservoir(r)
      <3>1. PICK mid : mid = [q.res EXCEPT !.status = q.to]
        OBVIOUS
      <3>2. CanTransition(ReservoirTransitions, q.res.status, q.to)
        BY <2>2, <1>1, <1>2 DEF CommitTransitionReservoir, InFlight, Valid, ReservoirValid
      <3>3. q.to \in ReservoirStates
        BY <3>2 DEF CanTransition, ReservoirTransitions, ReservoirStates
      <3>4. mid \in PresentReservoir /\ mid.live /\ mid.status = q.to
        BY <1>3, <1>4, <3>1, <3>3, ReservoirFields
      <3>5. /\ reservoirs' = Write(reservoirs, q.id, q.exp, mid)
            /\ audit' = Logged(audit, q.id, q.res.status, q.to)
            /\ UNCHANGED <<gates, directives, confirmations, approvals>>
        BY <2>2, <1>1, <3>1 DEF CommitTransitionReservoir
      <3> QED BY <3>2, <3>3, <3>4, <3>5
    <2> QED BY <2>1, <2>2
  <1>6. PICK row : row = [mid EXCEPT !.version = q.exp + 1]
    OBVIOUS
  <1>7. row \in PresentReservoir /\ row.live /\ row.status = after /\ row.version = q.exp + 1
    BY <1>3, <1>5, <1>6, ReservoirFields
  <1>8. reservoirs' = [reservoirs EXCEPT ![q.id] = row]
    BY <1>5, <1>6, WrittenRow
  <1>9. ReservoirStep(q.id, row, q.res.status, after)
    BY <1>4, <1>5, <1>7, <1>8 DEF ReservoirStep, Altered
  <1>10. q.res.status \in Entry /\ after \in Entry
    BY <1>3, <1>5 DEF PresentReservoir, Entry, Statuses
  <1> QED BY <1>3, <1>7, <1>9, <1>10 DEF RootStep

\* A deletion ends the life of the row, whatever the request has read.
LEMMA ReservoirDeleted ==
  ASSUME Sound, NEW r \in Requests, CommitDeleteReservoir(r)
  PROVE  RootStep
  <1>1. PICK q : q = req[r]
    OBVIOUS
  <1>2. q \in Request /\ Valid(q) /\ q.op = "DeleteReservoir"
    BY <1>1, InFlightSound DEF Sound, CommitDeleteReservoir, InFlight
  <1>3. q.id \in ReservoirIds /\ q.res \in PresentReservoir
    BY <1>2, LiveRows DEF Valid, ReservoirValid, Request
  <1>4. reservoirs[q.id].live /\ reservoirs[q.id] \in PresentReservoir
    BY <1>1, <1>3, LiveRows DEF CommitDeleteReservoir, Live, Sound, Typed, TypeOK
  <1>5. PICK row : row = [reservoirs[q.id] EXCEPT !.live = FALSE]
    OBVIOUS
  <1>6. row \in PresentReservoir /\ ~row.live /\ row.status = reservoirs[q.id].status
    BY <1>4, <1>5, ReservoirFields
  <1>7. reservoirs' = [reservoirs EXCEPT ![q.id] = row]
    BY <1>1, <1>5 DEF CommitDeleteReservoir, SoftDelete
  <1>8. \/ q.res.status = reservoirs[q.id].status
        \/ ReadEarlier(q.id, reservoirs[q.id], q.res.status)
    <2>1. q.res.live /\ q.res.version \in Nat /\ reservoirs[q.id].version \in Nat
      BY <1>2, <1>3, <1>4 DEF Valid, ReservoirValid, PresentReservoir
    <2>2. Held(reservoirs, q.id, q.res)
      BY <1>1, <1>2, <2>1 DEF Sound, AllFaithful, Faithful
    <2>3. req[r].op \in Deletions /\ RowRead(req[r]) = q.res
      BY <1>1, <1>2 DEF Deletions, RowRead
    <2>4. req'[r] = Idle
      BY DEF CommitDeleteReservoir, Finish, Sound, Typed, TypeOK
    <2> QED BY <1>1, <1>4, <2>1, <2>2, <2>3, <2>4, EarlierRead
  <1>9. ReservoirStep(q.id, row, q.res.status, "deleted")
    BY <1>1, <1>4, <1>6, <1>7, <1>8 DEF CommitDeleteReservoir, ReservoirStep, Altered
  <1>10. q.res.status \in Entry /\ "deleted" \in Entry
    BY <1>3 DEF PresentReservoir, Entry, Statuses
  <1> QED BY <1>3, <1>6, <1>9, <1>10 DEF RootStep

\* Every step of the reservoir service is a step of one of its rows, or none.
LEMMA ReservoirSteps ==
  ASSUME Sound, NEW r \in Requests, ReservoirNext(r)
  PROVE  Quiet \/ RootStep
  <1>1. CASE \/ CommitCreateReservoir(r) \/ CommitUpdateReservoir(r)
             \/ CommitTransitionReservoir(r) \/ CommitDeleteReservoir(r)
    BY <1>1, ReservoirCreated, ReservoirUpdated, ReservoirDeleted
  <1>2. CASE ~ \/ CommitCreateReservoir(r) \/ CommitUpdateReservoir(r)
               \/ CommitTransitionReservoir(r) \/ CommitDeleteReservoir(r)
    BY <1>2, BeginQuiet DEF ReservoirNext, BeginCreateReservoir, BeginUpdateReservoir,
         BeginTransitionReservoir, BeginDeleteReservoir
  <1> QED BY <1>1, <1>2

-----------------------------------------------------------------------------
(* The operations of the gate service. *)

\* A creation inserts a row.
LEMMA GateCreated ==
  ASSUME Sound, NEW r \in Requests, CommitCreateGate(r)
  PROVE  RootStep
  <1>1. PICK q : q = req[r]
    OBVIOUS
  <1>2. q \in Request /\ Valid(q) /\ q.op = "CreateGate"
    BY <1>1, InFlightSound DEF Sound, CommitCreateGate, InFlight
  <1>3. /\ q.id \in GateIds /\ q.plan.facility \in Facilities
        /\ q.plan.link \in ReservoirIds
    BY <1>2 DEF Valid, GateValid
  <1>4. PICK row : row = [live |-> TRUE, version |-> 1, status |-> GateUnitInitialStatus,
                          facility |-> q.plan.facility, reservoir |-> q.plan.link]
    OBVIOUS
  <1>5. row \in PresentGate /\ row.live /\ row.status = GateUnitInitialStatus
    BY <1>3, <1>4 DEF PresentGate, GateStates, GateUnitInitialStatus
  <1>6. /\ gates[q.id].status = "absent"
        /\ gates' = [gates EXCEPT ![q.id] = row]
        /\ audit' = Logged(audit, q.id, None, row.status)
    BY <1>1, <1>4, <1>5 DEF CommitCreateGate, Insertable, Insert
  <1>7. GateStep(q.id, row, None, row.status)
    BY <1>5, <1>6 DEF CommitCreateGate, GateStep, Altered
  <1>8. None \in Entry /\ row.status \in Entry
    BY <1>5 DEF Entry, Statuses, GateStates, GateUnitInitialStatus
  <1> QED BY <1>3, <1>5, <1>7, <1>8 DEF RootStep

\* An update or a transition writes the row it has read.
LEMMA GateUpdated ==
  ASSUME Sound, NEW r \in Requests, CommitUpdateGate(r) \/ CommitTransitionGate(r)
  PROVE  RootStep
  <1>1. PICK q : q = req[r]
    OBVIOUS
  <1>2. /\ q \in Request /\ Valid(q) /\ q.op \in {"UpdateGate", "TransitionGate"}
        /\ Current(gates, q.id, q.exp)
    BY <1>1, InFlightSound
    DEF Sound, CommitUpdateGate, CommitTransitionGate, InFlight
  <1>3. q.id \in GateIds /\ q.exp \in Nat /\ q.gate \in PresentGate
    BY <1>2, LiveRows DEF Valid, GateValid, Request
  <1>4. gates[q.id] = q.gate /\ q.gate.live /\ q.gate.version = q.exp
    BY <1>1, <1>2, Fresh DEF Sound, Current
  <1>5. PICK mid \in PresentGate, after \in GateStates :
          /\ mid.live /\ mid.status = after
          /\ after = q.gate.status \/ CanTransition(GateUnitTransitions, q.gate.status, after)
          /\ gates' = Write(gates, q.id, q.exp, mid)
          /\ audit' = Logged(audit, q.id, q.gate.status, after)
          /\ UNCHANGED <<reservoirs, directives, confirmations, approvals>>
    <2>1. CASE CommitUpdateGate(r)
      <3>1. PICK mid : mid = [q.gate EXCEPT !.facility = q.plan.facility]
        OBVIOUS
      <3>2. q.plan.facility \in Facilities
        BY <2>1, <1>1, <1>2 DEF CommitUpdateGate, InFlight, Valid, GateValid
      <3>3. mid \in PresentGate /\ mid.live /\ mid.status = q.gate.status
        BY <1>3, <1>4, <3>1, <3>2, GateFields
      <3>4. q.gate.status \in GateStates
        BY <1>3 DEF PresentGate
      <3>5. /\ gates' = Write(gates, q.id, q.exp, mid)
            /\ audit' = Logged(audit, q.id, q.gate.status, q.gate.status)
            /\ UNCHANGED <<reservoirs, directives, confirmations, approvals>>
        BY <2>1, <1>1, <3>1 DEF CommitUpdateGate
      <3> QED BY <3>3, <3>4, <3>5
    <2>2. CASE CommitTransitionGate(r)
      <3>1. PICK mid : mid = [q.gate EXCEPT !.status = q.to]
        OBVIOUS
      <3>2. CanTransition(GateUnitTransitions, q.gate.status, q.to)
        BY <2>2, <1>1, <1>2 DEF CommitTransitionGate, InFlight, Valid, GateValid
      <3>3. q.to \in GateStates
        BY <3>2 DEF CanTransition, GateUnitTransitions, GateStates
      <3>4. mid \in PresentGate /\ mid.live /\ mid.status = q.to
        BY <1>3, <1>4, <3>1, <3>3, GateFields
      <3>5. /\ gates' = Write(gates, q.id, q.exp, mid)
            /\ audit' = Logged(audit, q.id, q.gate.status, q.to)
            /\ UNCHANGED <<reservoirs, directives, confirmations, approvals>>
        BY <2>2, <1>1, <3>1 DEF CommitTransitionGate
      <3> QED BY <3>2, <3>3, <3>4, <3>5
    <2> QED BY <2>1, <2>2
  <1>6. PICK row : row = [mid EXCEPT !.version = q.exp + 1]
    OBVIOUS
  <1>7. row \in PresentGate /\ row.live /\ row.status = after /\ row.version = q.exp + 1
    BY <1>3, <1>5, <1>6, GateFields
  <1>8. gates' = [gates EXCEPT ![q.id] = row]
    BY <1>5, <1>6, WrittenRow
  <1>9. GateStep(q.id, row, q.gate.status, after)
    BY <1>4, <1>5, <1>7, <1>8 DEF GateStep, Altered
  <1>10. q.gate.status \in Entry /\ after \in Entry
    BY <1>3, <1>5 DEF PresentGate, Entry, Statuses
  <1> QED BY <1>3, <1>7, <1>9, <1>10 DEF RootStep

\* A deletion ends the life of the row, whatever the request has read.
LEMMA GateDeleted ==
  ASSUME Sound, NEW r \in Requests, CommitDeleteGate(r)
  PROVE  RootStep
  <1>1. PICK q : q = req[r]
    OBVIOUS
  <1>2. q \in Request /\ Valid(q) /\ q.op = "DeleteGate"
    BY <1>1, InFlightSound DEF Sound, CommitDeleteGate, InFlight
  <1>3. q.id \in GateIds /\ q.gate \in PresentGate
    BY <1>2, LiveRows DEF Valid, GateValid, Request
  <1>4. gates[q.id].live /\ gates[q.id] \in PresentGate
    BY <1>1, <1>3, LiveRows DEF CommitDeleteGate, Live, Sound, Typed, TypeOK
  <1>5. PICK row : row = [gates[q.id] EXCEPT !.live = FALSE]
    OBVIOUS
  <1>6. row \in PresentGate /\ ~row.live /\ row.status = gates[q.id].status
    BY <1>4, <1>5, GateFields
  <1>7. gates' = [gates EXCEPT ![q.id] = row]
    BY <1>1, <1>5 DEF CommitDeleteGate, SoftDelete
  <1>8. \/ q.gate.status = gates[q.id].status
        \/ ReadEarlier(q.id, gates[q.id], q.gate.status)
    <2>1. q.gate.live /\ q.gate.version \in Nat /\ gates[q.id].version \in Nat
      BY <1>2, <1>3, <1>4 DEF Valid, GateValid, PresentGate
    <2>2. Held(gates, q.id, q.gate)
      BY <1>1, <1>2, <2>1 DEF Sound, AllFaithful, Faithful, HeldGate
    <2>3. req[r].op \in Deletions /\ RowRead(req[r]) = q.gate
      BY <1>1, <1>2 DEF Deletions, RowRead
    <2>4. req'[r] = Idle
      BY DEF CommitDeleteGate, Finish, Sound, Typed, TypeOK
    <2> QED BY <1>1, <1>4, <2>1, <2>2, <2>3, <2>4, EarlierRead
  <1>9. GateStep(q.id, row, q.gate.status, "deleted")
    BY <1>1, <1>4, <1>6, <1>7, <1>8 DEF CommitDeleteGate, GateStep, Altered
  <1>10. q.gate.status \in Entry /\ "deleted" \in Entry
    BY <1>3 DEF PresentGate, Entry, Statuses
  <1> QED BY <1>3, <1>6, <1>9, <1>10 DEF RootStep

\* Every step of the gate service is a step of one of its rows, or none.
LEMMA GateSteps ==
  ASSUME Sound, NEW r \in Requests, GateNext(r)
  PROVE  Quiet \/ RootStep
  <1>1. CASE \/ CommitCreateGate(r) \/ CommitUpdateGate(r)
             \/ CommitTransitionGate(r) \/ CommitDeleteGate(r)
    BY <1>1, GateCreated, GateUpdated, GateDeleted
  <1>2. CASE ~ \/ CommitCreateGate(r) \/ CommitUpdateGate(r)
               \/ CommitTransitionGate(r) \/ CommitDeleteGate(r)
    BY <1>2, BeginQuiet DEF GateNext, BeginCreateGate, BeginUpdateGate,
         BeginTransitionGate, BeginDeleteGate
  <1> QED BY <1>1, <1>2

-----------------------------------------------------------------------------
(* The operations of the directive service. *)

\* A directive is drafted for a gate that was found when it was checked.
LEMMA DirectiveDrafted ==
  ASSUME Sound, NEW r \in Requests, CommitCreateDirective(r)
  PROVE  DirectiveStep
  <1>1. PICK q : q = req[r]
    OBVIOUS
  <1>2. q \in Request /\ Valid(q) /\ PlanSound(q) /\ q.op = "CreateDirective"
    BY <1>1, InFlightSound DEF Sound, AllPlansSound, CommitCreateDirective, InFlight
  <1>3. /\ q.id \in DirectiveIds
        /\ q.plan \in [facility : Facilities, link : GateIds, gateState : GateTargets]
        /\ gates[q.plan.link].status # "absent"
    BY <1>2 DEF Valid, DirectiveValid, PlanSound
  <1>4. PICK row : row = [live |-> TRUE, version |-> 1,
                          status |-> OperationDirectiveInitialStatus,
                          facility |-> q.plan.facility, gate |-> q.plan.link,
                          gateState |-> q.plan.gateState,
                          submittedBy |-> None, approvedBy |-> None]
    OBVIOUS
  <1>5. /\ row \in PresentDirective /\ row.live /\ row.status = "draft"
        /\ row.gate = q.plan.link /\ row.submittedBy = None /\ row.approvedBy = None
    BY <1>3, <1>4 DEF PresentDirective, DirectiveStates, OperationDirectiveInitialStatus
  <1>6. /\ directives[q.id].status = "absent"
        /\ directives' = [directives EXCEPT ![q.id] = row]
        /\ audit' = Logged(audit, q.id, None, "draft")
    BY <1>1, <1>4
    DEF CommitCreateDirective, Insertable, Insert, OperationDirectiveInitialStatus
  <1>7. Drafts(q.id, row)
    BY <1>3, <1>5, <1>6 DEF CommitCreateDirective, Drafts
  <1> QED BY <1>3, <1>5, <1>7 DEF DirectiveStep

\* An update finds the directive as it was, hence still a draft.
LEMMA DirectiveRevised ==
  ASSUME Sound, NEW r \in Requests, CommitUpdateDirective(r)
  PROVE  DirectiveStep
  <1>1. PICK q : q = req[r]
    OBVIOUS
  <1>2. /\ q \in Request /\ Valid(q) /\ PlanSound(q) /\ q.op = "UpdateDirective"
        /\ Current(directives, q.id, q.exp)
    BY <1>1, InFlightSound DEF Sound, AllPlansSound, CommitUpdateDirective, InFlight
  <1>3. /\ q.id \in DirectiveIds /\ q.exp \in Nat /\ q.dir \in PresentDirective
        /\ q.plan \in [facility : Facilities, link : GateIds, gateState : GateTargets]
        /\ q.dir.status = "draft" /\ gates[q.plan.link].status # "absent"
    BY <1>2, LiveRows DEF Valid, DirectiveValid, PlanSound, Request
  <1>4. directives[q.id] = q.dir /\ q.dir.live /\ q.dir.version = q.exp
    BY <1>1, <1>2, Fresh DEF Sound, Current
  <1>5. PICK mid : mid = [q.dir EXCEPT !.facility = q.plan.facility, !.gate = q.plan.link,
                                       !.gateState = q.plan.gateState]
    OBVIOUS
  <1>6. q.plan.facility \in Facilities /\ q.plan.link \in GateIds
        /\ q.plan.gateState \in GateTargets
    BY <1>3
  <1>7. /\ mid \in PresentDirective /\ mid.live /\ mid.status = "draft"
        /\ mid.gate = q.plan.link /\ SameSigners(q.dir, mid)
    BY <1>3, <1>4, <1>5, <1>6 DEF PresentDirective, SameSigners
  <1>8. PICK row : row = [mid EXCEPT !.version = q.exp + 1]
    OBVIOUS
  <1>9. /\ row \in PresentDirective /\ row.live /\ row.status = "draft"
        /\ row.version = q.exp + 1
        /\ SamePlan(mid, row) /\ SameSigners(mid, row)
    BY <1>3, <1>7, <1>8, DirectiveFields
  <1>10. /\ directives' = [directives EXCEPT ![q.id] = row]
         /\ audit' = Logged(audit, q.id, "draft", "draft")
    <2>1. directives' = Write(directives, q.id, q.exp, mid)
      BY <1>1, <1>5 DEF CommitUpdateDirective
    <2> QED BY <1>1, <1>3, <1>8, <2>1, WrittenRow DEF CommitUpdateDirective
  <1>11. row.gate = q.plan.link /\ SameSigners(q.dir, row)
    BY <1>3, <1>7, <1>9 DEF SamePlan, SameSigners
  <1>12. Revises(q.id, row)
    <2>1. Succeeds(q.dir, row)
      BY <1>4, <1>9 DEF Succeeds
    <2>2. UNCHANGED <<reservoirs, gates, confirmations, approvals>>
      BY DEF CommitUpdateDirective
    <2> QED BY <1>3, <1>4, <1>9, <1>10, <1>11, <2>1, <2>2 DEF Revises
  <1> QED BY <1>3, <1>9, <1>12 DEF DirectiveStep

\* A gate that a transaction writes beside the directive goes where it is asked
\* to go, from where it was read.
LEMMA GateWritten ==
  ASSUME Typed, NEW g \in GateIds, NEW held \in PresentGate, NEW target, NEW trail,
         gates[g] = held, held.live, CanTransition(GateUnitTransitions, held.status, target),
         gates' = Write(gates, g, held.version, [held EXCEPT !.status = target]),
         audit' = Logged(trail, g, held.status, target)
  PROVE  GateFollows(g, target, trail)
  <1>1. target \in GateStates /\ held.version \in Nat
    BY DEF CanTransition, GateUnitTransitions, GateStates, PresentGate
  <1>2. PICK mid : mid = [held EXCEPT !.status = target]
    OBVIOUS
  <1>3. mid \in PresentGate /\ mid.live /\ mid.status = target
    BY <1>1, <1>2, GateFields
  <1>4. PICK row : row = [mid EXCEPT !.version = held.version + 1]
    OBVIOUS
  <1>5. /\ row \in PresentGate /\ row.live /\ row.status = target
        /\ row.version = held.version + 1
    BY <1>1, <1>3, <1>4, GateFields
  <1>6. gates' = [gates EXCEPT ![g] = row]
    <2>1. gates' = Write(gates, g, held.version, mid)
      BY <1>2
    <2> QED BY <1>4, <2>1, WrittenRow
  <1> QED BY <1>5, <1>6 DEF GateFollows, Succeeds

\* A transition finds its directive as it was checked, and the gate that it
\* moves as well.
LEMMA DirectiveTransited ==
  ASSUME Sound, NEW r \in Requests, CommitTransitionDirective(r)
  PROVE  DirectiveStep
  <1>1. PICK q : q = req[r]
    OBVIOUS
  <1>2. /\ q \in Request /\ Valid(q) /\ q.op = "TransitionDirective"
        /\ Current(directives, q.id, q.exp)
    BY <1>1, InFlightSound DEF Sound, CommitTransitionDirective, InFlight
  <1>3. /\ q.id \in DirectiveIds /\ q.exp \in Nat /\ q.dir \in PresentDirective
        /\ CanTransition(OperationDirectiveTransitions, q.dir.status, q.to)
        /\ q.to # "completed" /\ q.actor \in Actors /\ q.role \in Roles
        /\ directiveRoleAllowed(q.to, q.role) /\ TwoPeople(q.dir, q.actor, q.to)
    BY <1>2, LiveRows DEF Valid, DirectiveValid, Request
  <1>4. directives[q.id] = q.dir /\ q.dir.live /\ q.dir.version = q.exp
    BY <1>1, <1>2, Fresh DEF Sound, Current
  <1>5. q.to \in DirectiveStates
    BY <1>3 DEF CanTransition, OperationDirectiveTransitions, DirectiveStates
  <1>6. PICK mid : mid = Transitioned(q)
    OBVIOUS
  <1>7. /\ mid \in PresentDirective /\ mid.live /\ mid.status = q.to /\ SamePlan(q.dir, mid)
        /\ mid.submittedBy = IF q.to = "pending" THEN q.actor ELSE q.dir.submittedBy
        /\ mid.approvedBy = IF q.to = "approved" THEN q.actor ELSE q.dir.approvedBy
    BY <1>2, <1>3, <1>4, <1>5, <1>6, TransitionedFields DEF SamePlan
  <1>8. PICK row : row = [mid EXCEPT !.version = q.exp + 1]
    OBVIOUS
  <1>9. /\ row \in PresentDirective /\ row.live /\ row.status = q.to
        /\ row.version = q.exp + 1
        /\ SamePlan(mid, row) /\ SameSigners(mid, row)
    BY <1>3, <1>7, <1>8, DirectiveFields
  <1>10. /\ SamePlan(q.dir, row)
         /\ row.submittedBy = IF q.to = "pending" THEN q.actor ELSE q.dir.submittedBy
         /\ row.approvedBy = IF q.to = "approved" THEN q.actor ELSE q.dir.approvedBy
    BY <1>3, <1>7, <1>9 DEF SamePlan, SameSigners
  <1>11. directives' = [directives EXCEPT ![q.id] = row]
    BY <1>1, <1>6, <1>8, WrittenRow DEF CommitTransitionDirective
  <1>12. approvals' = approvals \cup Signature(q.id, q.to, q.actor, q.role)
    BY <1>1 DEF CommitTransitionDirective, Signature, Evidence
  <1>13. PICK trail : trail = Logged(audit, q.id, q.dir.status, q.to)
    OBVIOUS
  <1>14. \/ gates' = gates /\ audit' = trail
         \/ ReadsGate(q.dir, q.to)
            /\ GateFollows(q.dir.gate, IF q.to = "aborted" THEN "locked" ELSE "moving", trail)
    <2>1. PICK target : target = GateTarget(q.dir, q.gate, q.to)
      OBVIOUS
    <2>2. CASE ~MovesGate(q.gate, target)
      BY <1>1, <1>13, <2>1, <2>2 DEF CommitTransitionDirective
    <2>3. CASE MovesGate(q.gate, target)
      <3>1. /\ Current(gates, q.dir.gate, q.gate.version)
            /\ gates' = Write(gates, q.dir.gate, q.gate.version,
                              [q.gate EXCEPT !.status = target])
            /\ audit' = Logged(trail, q.dir.gate, q.gate.status, target)
        BY <1>1, <1>13, <2>1, <2>3 DEF CommitTransitionDirective
      <3>2. q.gate.live /\ CanTransition(GateUnitTransitions, q.gate.status, target)
        BY <1>2, <2>1, <2>3 DEF Valid, DirectiveValid
      <3>3. gates[q.dir.gate] = q.gate /\ q.gate \in PresentGate /\ q.dir.gate \in GateIds
        BY <1>1, <1>2, <1>3, <3>1, <3>2, Fresh, LiveRows DEF Sound, Request, PresentDirective
      <3>4. GateFollows(q.dir.gate, target, trail)
        BY <3>1, <3>2, <3>3, GateWritten DEF Sound
      <3>5. ReadsGate(q.dir, q.to)
            /\ target = IF q.to = "aborted" THEN "locked" ELSE "moving"
        BY <2>1, <2>3 DEF GateTarget, MovesGate, ReadsGate
      <3> QED BY <3>4, <3>5
    <2> QED BY <2>2, <2>3
  <1>15. Transits(q.id, row, q.to, q.actor, q.role)
    <2>1. Succeeds(q.dir, row)
      BY <1>4, <1>9 DEF Succeeds
    <2>2. UNCHANGED <<reservoirs, confirmations>>
      BY DEF CommitTransitionDirective
    <2> QED
      BY <1>3, <1>4, <1>9, <1>10, <1>11, <1>12, <1>13, <1>14, <2>1, <2>2 DEF Transits
  <1> QED BY <1>3, <1>5, <1>9, <1>15 DEF DirectiveStep

\* A deletion ends the life of the directive, whatever its status is by then.
LEMMA DirectiveRemoved ==
  ASSUME Sound, NEW r \in Requests, CommitDeleteDirective(r)
  PROVE  DirectiveStep
  <1>1. PICK q : q = req[r]
    OBVIOUS
  <1>2. q \in Request /\ Valid(q) /\ q.op = "DeleteDirective"
    BY <1>1, InFlightSound DEF Sound, CommitDeleteDirective, InFlight
  <1>3. q.id \in DirectiveIds /\ q.dir \in PresentDirective
    BY <1>2, LiveRows DEF Valid, DirectiveValid, Request
  <1>4. directives[q.id].live /\ directives[q.id] \in PresentDirective
    BY <1>1, <1>3, LiveRows DEF CommitDeleteDirective, Live, Sound, Typed, TypeOK
  <1>5. PICK row : row = [directives[q.id] EXCEPT !.live = FALSE]
    OBVIOUS
  <1>6. /\ row \in PresentDirective /\ ~row.live /\ row.status = directives[q.id].status
        /\ SamePlan(directives[q.id], row) /\ SameSigners(directives[q.id], row)
    BY <1>4, <1>5 DEF PresentDirective, SamePlan, SameSigners
  <1>7. directives' = [directives EXCEPT ![q.id] = row]
    BY <1>1, <1>5 DEF CommitDeleteDirective, SoftDelete
  <1>8. \/ q.dir.status = directives[q.id].status
        \/ ReadEarlier(q.id, directives[q.id], q.dir.status)
    <2>1. q.dir.live /\ q.dir.version \in Nat /\ directives[q.id].version \in Nat
      BY <1>2, <1>3, <1>4 DEF Valid, DirectiveValid, PresentDirective
    <2>2. Held(directives, q.id, q.dir)
      BY <1>1, <1>2, <2>1 DEF Sound, AllFaithful, Faithful, HeldDirective
    <2>3. req[r].op \in Deletions /\ RowRead(req[r]) = q.dir
      BY <1>1, <1>2 DEF Deletions, RowRead
    <2>4. req'[r] = Idle
      BY DEF CommitDeleteDirective, Finish, Sound, Typed, TypeOK
    <2> QED BY <1>1, <1>4, <2>1, <2>2, <2>3, <2>4, EarlierRead
  <1>9. Removes(q.id, row, q.dir.status)
    BY <1>1, <1>2, <1>4, <1>6, <1>7, <1>8
    DEF CommitDeleteDirective, Removes, Valid, DirectiveValid
  <1>10. q.dir.status \in Entry
    BY <1>3 DEF PresentDirective, Entry, Statuses
  <1> QED BY <1>3, <1>6, <1>9, <1>10 DEF DirectiveStep

\* Every step of the directive service is a step of one directive, or none.
LEMMA DirectiveSteps ==
  ASSUME Sound, NEW r \in Requests, DirectiveNext(r)
  PROVE  Quiet \/ DirectiveStep
  <1>1. CASE \/ CommitCreateDirective(r) \/ CommitUpdateDirective(r)
             \/ CommitTransitionDirective(r) \/ CommitDeleteDirective(r)
    BY <1>1, DirectiveDrafted, DirectiveRevised, DirectiveTransited, DirectiveRemoved
  <1>2. ASSUME NEW id \in DirectiveIds, NEW g \in GateIds, NEW f \in Facilities,
               NEW s \in GateTargets, BeginCreateDirective(r, id, g, f, s)
        PROVE  Quiet
    BY <1>2, BeginQuiet DEF BeginCreateDirective
  <1>3. ASSUME NEW id \in DirectiveIds, NEW g \in GateIds, NEW f \in Facilities,
               NEW s \in GateTargets, NEW e \in 1..MaxVersion[id],
               BeginUpdateDirective(r, id, g, f, s, e)
        PROVE  Quiet
    BY <1>3, BeginQuiet DEF BeginUpdateDirective
  <1>4. ASSUME NEW id \in DirectiveIds, NEW to \in DirectiveStates, NEW a \in Actors,
               NEW role \in Roles, NEW e \in 1..MaxVersion[id],
               BeginTransitionDirective(r, id, to, a, role, e)
        PROVE  Quiet
    BY <1>4, BeginQuiet DEF BeginTransitionDirective
  <1>5. ASSUME NEW id \in DirectiveIds, BeginDeleteDirective(r, id)
        PROVE  Quiet
    BY <1>5, BeginQuiet DEF BeginDeleteDirective
  <1> QED BY <1>1, <1>2, <1>3, <1>4, <1>5 DEF DirectiveNext

-----------------------------------------------------------------------------
(* The operations of the confirmation service. *)

\* A receipt is created for a directive that was executing when it was checked,
\* and that no other receipt refers to.
LEMMA ReceiptOpened ==
  ASSUME Sound, NEW r \in Requests, CommitCreateConfirmation(r)
  PROVE  ReceiptStep
  <1>1. PICK q : q = req[r]
    OBVIOUS
  <1>2. q \in Request /\ Valid(q) /\ PlanSound(q) /\ q.op = "CreateConfirmation"
    BY <1>1, InFlightSound DEF Sound, AllPlansSound, CommitCreateConfirmation, InFlight
  <1>3. /\ q.id \in ConfirmationIds /\ q.plan.facility \in Facilities
        /\ q.plan.link \in DirectiveIds
        /\ directives[q.plan.link].status \in {"executing", "completed", "aborted"}
    BY <1>2 DEF Valid, ConfirmationValid, PlanSound
  <1>4. PICK row : row = [live |-> TRUE, version |-> 1,
                          status |-> ExecutionConfirmationInitialStatus,
                          facility |-> q.plan.facility, directive |-> q.plan.link]
    OBVIOUS
  <1>5. /\ row \in PresentConfirmation /\ row.live /\ row.status = "pending"
        /\ row.directive = q.plan.link
    BY <1>3, <1>4
    DEF PresentConfirmation, ConfirmationStates, ExecutionConfirmationInitialStatus
  <1>6. /\ confirmations[q.id].status = "absent" /\ LinkUnused(q.plan.link)
        /\ confirmations' = [confirmations EXCEPT ![q.id] = row]
        /\ audit' = Logged(audit, q.id, None, "pending")
    BY <1>1, <1>4
    DEF CommitCreateConfirmation, Insertable, Insert, ExecutionConfirmationInitialStatus
  <1>7. UNCHANGED <<reservoirs, gates, directives, approvals>>
    BY DEF CommitCreateConfirmation
  <1>8. Opens(q.id, row)
    BY <1>3, <1>5, <1>6, <1>7 DEF Opens
  <1> QED BY <1>3, <1>5, <1>8 DEF ReceiptStep

\* An update, and the cancelling of a failed receipt, find the receipt as it was.
LEMMA ReceiptAmended ==
  ASSUME Sound, NEW r \in Requests, CommitUpdateConfirmation(r) \/ CommitCancel(r)
  PROVE  ReceiptStep
  <1>1. PICK q : q = req[r]
    OBVIOUS
  <1>2. /\ q \in Request /\ Valid(q)
        /\ q.op \in {"UpdateConfirmation", "TransitionConfirmation"}
        /\ Current(confirmations, q.id, q.exp)
    BY <1>1, InFlightSound DEF Sound, CommitUpdateConfirmation, CommitCancel, InFlight
  <1>3. q.id \in ConfirmationIds /\ q.exp \in Nat /\ q.conf \in PresentConfirmation
    BY <1>2, LiveRows DEF Valid, ConfirmationValid, Request
  <1>4. confirmations[q.id] = q.conf /\ q.conf.live /\ q.conf.version = q.exp
    BY <1>1, <1>2, Fresh DEF Sound, Current
  <1>5. PICK mid \in PresentConfirmation :
          /\ mid.live /\ mid.directive = q.conf.directive
          /\ mid.status = q.conf.status
             \/ (q.conf.status = "failed" /\ mid.status = "cancelled")
          /\ confirmations' = Write(confirmations, q.id, q.exp, mid)
          /\ audit' = Logged(audit, q.id, q.conf.status, mid.status)
          /\ UNCHANGED <<reservoirs, gates, directives, approvals>>
    <2>1. CASE CommitUpdateConfirmation(r)
      <3>1. PICK mid : mid = [q.conf EXCEPT !.facility = q.plan.facility]
        OBVIOUS
      <3>2. q.plan.facility \in Facilities
        BY <2>1, <1>1, <1>2 DEF CommitUpdateConfirmation, InFlight, Valid, ConfirmationValid
      <3>3. /\ mid \in PresentConfirmation /\ mid.live /\ mid.status = q.conf.status
            /\ mid.directive = q.conf.directive
        BY <1>3, <1>4, <3>1, <3>2, ConfirmationFields
      <3>4. /\ confirmations' = Write(confirmations, q.id, q.exp, mid)
            /\ audit' = Logged(audit, q.id, q.conf.status, mid.status)
            /\ UNCHANGED <<reservoirs, gates, directives, approvals>>
        BY <2>1, <1>1, <3>1, <3>3 DEF CommitUpdateConfirmation
      <3> QED BY <3>3, <3>4
    <2>2. CASE CommitCancel(r)
      <3>1. PICK mid : mid = [q.conf EXCEPT !.status = q.to]
        OBVIOUS
      <3>2. q.conf.status # "pending"
            /\ CanTransition(ExecutionConfirmationTransitions, q.conf.status, q.to)
        BY <2>2, <1>1, <1>2 DEF CommitCancel, InFlight, Valid, ConfirmationValid
      <3>3. q.conf.status = "failed" /\ q.to = "cancelled"
        BY <3>2 DEF CanTransition, ExecutionConfirmationTransitions
      <3>4. q.to \in ConfirmationStates
        BY <3>3 DEF ConfirmationStates
      <3>5. /\ mid \in PresentConfirmation /\ mid.live /\ mid.status = q.to
            /\ mid.directive = q.conf.directive
        BY <1>3, <1>4, <3>1, <3>4, ConfirmationFields
      <3>6. /\ confirmations' = Write(confirmations, q.id, q.exp, mid)
            /\ audit' = Logged(audit, q.id, q.conf.status, q.to)
            /\ UNCHANGED <<reservoirs, gates, directives, approvals>>
        BY <2>2, <1>1, <3>1 DEF CommitCancel
      <3> QED BY <3>3, <3>5, <3>6
    <2> QED BY <2>1, <2>2
  <1>6. PICK row : row = [mid EXCEPT !.version = q.exp + 1]
    OBVIOUS
  <1>7. /\ row \in PresentConfirmation /\ row.live /\ row.status = mid.status
        /\ row.version = q.exp + 1 /\ row.directive = mid.directive
    BY <1>3, <1>5, <1>6, ConfirmationFields
  <1>8. confirmations' = [confirmations EXCEPT ![q.id] = row]
    BY <1>5, <1>6, WrittenRow
  <1>9. Amends(q.id, row)
    BY <1>4, <1>5, <1>7, <1>8 DEF Amends, Succeeds
  <1> QED BY <1>3, <1>7, <1>9 DEF ReceiptStep

\* The outcome of a receipt finds receipt and directive as they were, and the
\* gate that it moves as well.
LEMMA ReceiptSettled ==
  ASSUME Sound, NEW r \in Requests, CommitOutcome(r)
  PROVE  ReceiptStep
  <1>1. PICK q : q = req[r]
    OBVIOUS
  <1>2. /\ q \in Request /\ Valid(q) /\ q.op = "TransitionConfirmation"
        /\ q.conf.status = "pending"
        /\ Current(confirmations, q.id, q.exp)
        /\ Current(directives, q.conf.directive, q.dir.version)
    BY <1>1, InFlightSound DEF Sound, CommitOutcome, InFlight
  <1>3. /\ q.id \in ConfirmationIds /\ q.exp \in Nat
        /\ CanTransition(ExecutionConfirmationTransitions, q.conf.status, q.to)
        /\ q.dir.live /\ q.dir.status = "executing" /\ q.gate.live /\ q.conf.live
    BY <1>2 DEF Valid, ConfirmationValid, Request
  <1>4. /\ q.conf \in PresentConfirmation /\ q.dir \in PresentDirective
        /\ q.gate \in PresentGate
    BY <1>2, <1>3, LiveRows DEF Request
  <1>5. PICK d, c : d = q.conf.directive /\ c = q.id
    OBVIOUS
  <1>6. d \in DirectiveIds /\ q.dir.gate \in GateIds /\ q.dir.version \in Nat
    BY <1>4, <1>5 DEF PresentConfirmation, PresentDirective
  <1>7. q.to \in {"confirmed", "failed"}
    BY <1>2, <1>3 DEF CanTransition, ExecutionConfirmationTransitions
  <1>8. confirmations[c] = q.conf /\ q.conf.version = q.exp /\ directives[d] = q.dir
    BY <1>1, <1>2, <1>5, Fresh DEF Sound, Current
  <1>9. PICK mid : mid = [q.conf EXCEPT !.status = q.to]
    OBVIOUS
  <1>10. PICK row : row = [mid EXCEPT !.version = q.exp + 1]
    OBVIOUS
  <1>11. /\ row \in PresentConfirmation /\ row.live /\ row.status = q.to
         /\ row.version = q.exp + 1 /\ row.directive = d
    <2>1. q.to \in ConfirmationStates
      BY <1>7 DEF ConfirmationStates
    <2>2. /\ mid \in PresentConfirmation /\ mid.live /\ mid.status = q.to
          /\ mid.directive = d
      BY <1>3, <1>4, <1>5, <1>9, <2>1, ConfirmationFields
    <2> QED BY <1>3, <1>10, <2>2, ConfirmationFields
  <1>12. PICK outcome : outcome = DirectiveOutcome(q.to)
    OBVIOUS
  <1>13. PICK half : half = [q.dir EXCEPT !.status = outcome]
    OBVIOUS
  <1>14. PICK dir : dir = [half EXCEPT !.version = q.dir.version + 1]
    OBVIOUS
  <1>15. /\ dir \in PresentDirective /\ dir.live /\ dir.status = outcome
         /\ dir.version = q.dir.version + 1
         /\ SamePlan(q.dir, dir) /\ SameSigners(q.dir, dir)
    <2>1. outcome \in DirectiveStates
      BY <1>12 DEF DirectiveOutcome, DirectiveStates
    <2>2. /\ half \in PresentDirective /\ half.live /\ half.status = outcome
          /\ SamePlan(q.dir, half) /\ SameSigners(q.dir, half)
      BY <1>3, <1>4, <1>13, <2>1 DEF PresentDirective, SamePlan, SameSigners
    <2>3. /\ dir \in PresentDirective /\ dir.live = half.live /\ dir.status = half.status
          /\ dir.version = q.dir.version + 1
          /\ SamePlan(half, dir) /\ SameSigners(half, dir)
      BY <1>6, <1>14, <2>2, DirectiveFields
    <2> QED BY <2>2, <2>3 DEF SamePlan, SameSigners
  <1>16. confirmations' = [confirmations EXCEPT ![c] = row]
    <2>1. confirmations' = Write(confirmations, c, q.exp, mid)
      BY <1>1, <1>5, <1>9 DEF CommitOutcome
    <2> QED BY <1>10, <2>1, WrittenRow
  <1>17. directives' = [directives EXCEPT ![d] = dir]
    <2>1. directives' = Write(directives, d, q.dir.version, half)
      BY <1>1, <1>5, <1>12, <1>13 DEF CommitOutcome
    <2> QED BY <1>14, <2>1, WrittenRow
  <1>18. PICK trail :
           trail = Logged(Logged(audit, c, "pending", q.to), d, "executing", outcome)
    OBVIOUS
  <1>19. PICK target : target = GateOutcome(q.dir, q.to)
    OBVIOUS
  <1>20. GateFollows(q.dir.gate, target, trail)
    <2>1. CASE q.gate.status = target
      <3>1. gates' = gates /\ audit' = trail
        BY <1>1, <1>2, <1>3, <1>5, <1>12, <1>18, <1>19, <2>1 DEF CommitOutcome
      <3> QED BY <3>1 DEF GateFollows
    <2>2. CASE q.gate.status # target
      <3>1. /\ Current(gates, q.dir.gate, q.gate.version)
            /\ gates' = Write(gates, q.dir.gate, q.gate.version,
                              [q.gate EXCEPT !.status = target])
            /\ audit' = Logged(trail, q.dir.gate, q.gate.status, target)
        BY <1>1, <1>2, <1>3, <1>5, <1>12, <1>18, <1>19, <2>2 DEF CommitOutcome
      <3>2. CanTransition(GateUnitTransitions, q.gate.status, target)
        BY <1>2, <1>19, <2>2 DEF Valid, ConfirmationValid
      <3>3. gates[q.dir.gate] = q.gate
        BY <1>1, <1>2, <1>3, <3>1, Fresh DEF Sound
      <3> QED BY <1>3, <1>4, <1>6, <3>1, <3>2, <3>3, GateWritten DEF Sound
    <2> QED BY <2>1, <2>2
  <1>21. Settles(c, row, dir)
    <2>1. Succeeds(q.conf, row) /\ Succeeds(q.dir, dir)
      BY <1>3, <1>8, <1>11, <1>15 DEF Succeeds
    <2>2. UNCHANGED <<reservoirs, approvals>>
      BY DEF CommitOutcome
    <2>3. confirmations[c].directive = d /\ confirmations[c].status = "pending"
      BY <1>2, <1>5, <1>8
    <2> QED
      BY <1>3, <1>7, <1>8, <1>11, <1>12, <1>15, <1>16, <1>17, <1>18, <1>19, <1>20,
         <2>1, <2>2, <2>3 DEF Settles
  <1> QED BY <1>3, <1>5, <1>11, <1>15, <1>21 DEF ReceiptStep

\* A deletion ends the life of the receipt; it keeps its status and directive.
LEMMA ReceiptDiscarded ==
  ASSUME Sound, NEW r \in Requests, CommitDeleteConfirmation(r)
  PROVE  ReceiptStep
  <1>1. PICK q : q = req[r]
    OBVIOUS
  <1>2. q \in Request /\ Valid(q) /\ q.op = "DeleteConfirmation"
    BY <1>1, InFlightSound DEF Sound, CommitDeleteConfirmation, InFlight
  <1>3. q.id \in ConfirmationIds /\ q.conf \in PresentConfirmation
    BY <1>2, LiveRows DEF Valid, ConfirmationValid, Request
  <1>4. confirmations[q.id].live /\ confirmations[q.id] \in PresentConfirmation
    BY <1>1, <1>3, LiveRows DEF CommitDeleteConfirmation, Live, Sound, Typed, TypeOK
  <1>5. PICK row : row = [confirmations[q.id] EXCEPT !.live = FALSE]
    OBVIOUS
  <1>6. /\ row \in PresentConfirmation /\ ~row.live
        /\ row.status = confirmations[q.id].status
        /\ row.directive = confirmations[q.id].directive
    BY <1>4, <1>5, ConfirmationFields
  <1>7. confirmations' = [confirmations EXCEPT ![q.id] = row]
    BY <1>1, <1>5 DEF CommitDeleteConfirmation, SoftDelete
  <1>8. \/ q.conf.status = confirmations[q.id].status
        \/ ReadEarlier(q.id, confirmations[q.id], q.conf.status)
    <2>1. q.conf.live /\ q.conf.version \in Nat /\ confirmations[q.id].version \in Nat
      BY <1>2, <1>3, <1>4 DEF Valid, ConfirmationValid, PresentConfirmation
    <2>2. Held(confirmations, q.id, q.conf)
      BY <1>1, <1>2, <2>1 DEF Sound, AllFaithful, Faithful
    <2>3. req[r].op \in Deletions /\ RowRead(req[r]) = q.conf
      BY <1>1, <1>2 DEF Deletions, RowRead
    <2>4. req'[r] = Idle
      BY DEF CommitDeleteConfirmation, Finish, Sound, Typed, TypeOK
    <2> QED BY <1>1, <1>4, <2>1, <2>2, <2>3, <2>4, EarlierRead
  <1>9. Discards(q.id, row, q.conf.status)
    BY <1>1, <1>4, <1>6, <1>7, <1>8 DEF CommitDeleteConfirmation, Discards
  <1>10. q.conf.status \in Entry
    BY <1>3 DEF PresentConfirmation, Entry, Statuses
  <1> QED BY <1>3, <1>6, <1>9, <1>10 DEF ReceiptStep

\* Every step of the confirmation service is a step of one receipt, or none.
LEMMA ConfirmationSteps ==
  ASSUME Sound, NEW r \in Requests, ConfirmationNext(r)
  PROVE  Quiet \/ ReceiptStep
  <1>1. CASE \/ CommitCreateConfirmation(r) \/ CommitUpdateConfirmation(r)
             \/ CommitOutcome(r) \/ CommitCancel(r) \/ CommitDeleteConfirmation(r)
    BY <1>1, ReceiptOpened, ReceiptAmended, ReceiptSettled, ReceiptDiscarded
  <1>2. ASSUME NEW id \in ConfirmationIds, NEW d \in DirectiveIds,
               BeginCreateConfirmation(r, id, d)
        PROVE  Quiet
    BY <1>2, BeginQuiet DEF BeginCreateConfirmation
  <1>3. ASSUME NEW id \in ConfirmationIds, NEW e \in 1..MaxVersion[id],
               BeginUpdateConfirmation(r, id, e)
        PROVE  Quiet
    BY <1>3, BeginQuiet DEF BeginUpdateConfirmation
  <1>4. ASSUME NEW id \in ConfirmationIds, NEW to \in ConfirmationStates,
               NEW e \in 1..MaxVersion[id],
               BeginOutcome(r, id, to, e) \/ BeginCancel(r, id, to, e)
        PROVE  Quiet
    <2>1. CASE BeginOutcome(r, id, to, e)
      BY <2>1, BeginQuiet DEF BeginOutcome
    <2>2. CASE BeginCancel(r, id, to, e)
      BY <2>2, BeginQuiet DEF BeginCancel
    <2> QED BY <1>4, <2>1, <2>2
  <1>5. ASSUME NEW id \in ConfirmationIds, BeginDeleteConfirmation(r, id)
        PROVE  Quiet
    BY <1>5, BeginQuiet DEF BeginDeleteConfirmation
  <1> QED BY <1>1, <1>2, <1>3, <1>4, <1>5 DEF ConfirmationNext

-----------------------------------------------------------------------------
(* The whole backend. *)

\* Concurrent requests write as if each had read in the same step what it writes.
LEMMA StepsAreAtomic ==
  ASSUME Sound, [Next]_vars
  PROVE  AtomicStep
  <1>1. ASSUME NEW r \in Requests,
               ReservoirNext(r) \/ GateNext(r) \/ DirectiveNext(r) \/ ConfirmationNext(r)
        PROVE  AtomicStep
    BY <1>1, ReservoirSteps, GateSteps, DirectiveSteps, ConfirmationSteps DEF AtomicStep
  <1>2. ASSUME NEW r \in Requests, Abandon(r)
        PROVE  AtomicStep
    BY <1>2 DEF Abandon, AtomicStep, Quiet
  <1>3. CASE Crash
    BY <1>3 DEF Crash, AtomicStep, Quiet
  <1>4. CASE UNCHANGED vars
    BY <1>4 DEF vars, AtomicStep, Quiet
  <1> QED BY <1>1, <1>2, <1>3, <1>4 DEF Next

-----------------------------------------------------------------------------
(* What every row's change looks like. *)

\* A row's change follows its graph, and its audit trail tells of it.
Told(graph, id, old, new, oldTrail, newTrail) ==
  Recorded(id, old, new, oldTrail, newTrail) /\ Follows(graph, old, new)

\* The reservoirs' rows.
ReservoirsTold ==
  \A id \in ReservoirIds :
    Told(ReservoirTransitions, id, reservoirs[id], reservoirs'[id], audit[id], audit'[id])
\* The gates' rows.
GatesTold ==
  \A id \in GateIds :
    Told(GateUnitTransitions, id, gates[id], gates'[id], audit[id], audit'[id])
\* The directives' rows.
DirectivesTold ==
  \A id \in DirectiveIds :
    Told(OperationDirectiveTransitions, id, directives[id], directives'[id],
         audit[id], audit'[id])
\* The receipts' rows.
ConfirmationsTold ==
  \A id \in ConfirmationIds :
    Told(ExecutionConfirmationTransitions, id, confirmations[id], confirmations'[id],
         audit[id], audit'[id])
\* The rows of all tables.
AllTold == ReservoirsTold /\ GatesTold /\ DirectivesTold /\ ConfirmationsTold

\* One entry more for an entity, and none for the others.
LEMMA LoggedAt ==
  ASSUME NEW trail, DOMAIN trail = EntityIds, NEW id \in EntityIds,
         NEW before, NEW after, NEW new, new = Logged(trail, id, before, after)
  PROVE  /\ DOMAIN new = EntityIds
         /\ new[id].n = trail[id].n + 1 /\ new[id].before = before /\ new[id].after = after
         /\ \A x \in EntityIds \ {id} : new[x] = trail[x]
  BY DEF Logged

\* A row that was altered and logged is told of.
LEMMA AlteredIsTold ==
  ASSUME NEW graph, NEW initial, NEW id, NEW old, NEW new, NEW before, NEW after,
         NEW oldTrail, NEW newTrail,
         Altered(graph, initial, id, old, new, before, after),
         initial # "absent", old.version \in Nat,
         newTrail.n = oldTrail.n + 1, newTrail.before = before, newTrail.after = after
  PROVE  Told(graph, id, old, new, oldTrail, newTrail)
  <1>1. new # old
    BY DEF Altered
  <1>2. Recorded(id, old, new, oldTrail, newTrail)
    BY <1>1 DEF Altered, Recorded
  <1>3. Follows(graph, old, new)
    BY DEF Altered, Follows
  <1> QED BY <1>2, <1>3 DEF Told

\* A row that stays, with its trail, is told of.
LEMMA SameIsTold ==
  ASSUME NEW graph, NEW id, NEW old, NEW trail
  PROVE  Told(graph, id, old, old, trail, trail)
  BY DEF Told, Recorded, Follows

\* The tables and trails of a sound state.
LEMMA Tables ==
  ASSUME Sound
  PROVE  /\ DOMAIN reservoirs = ReservoirIds /\ DOMAIN gates = GateIds
         /\ DOMAIN directives = DirectiveIds /\ DOMAIN confirmations = ConfirmationIds
         /\ DOMAIN audit = EntityIds
         /\ \A id \in ReservoirIds : reservoirs[id].version \in Nat
         /\ \A id \in GateIds : gates[id].version \in Nat
         /\ \A id \in DirectiveIds : directives[id].version \in Nat
         /\ \A id \in ConfirmationIds : confirmations[id].version \in Nat
  BY VersionType DEF Sound, Typed, TypeOK

\* A step of a reservoir or of a gate.
LEMMA RootStepTold ==
  ASSUME Sound, RootStep
  PROVE  AllTold
  <1>1. ASSUME NEW id \in ReservoirIds, NEW row \in PresentReservoir,
               NEW before, NEW after, ReservoirStep(id, row, before, after)
        PROVE  AllTold
    <2>1. /\ audit'[id].n = audit[id].n + 1
          /\ audit'[id].before = before /\ audit'[id].after = after
          /\ \A x \in EntityIds \ {id} : audit'[x] = audit[x]
      <3>1. id \in EntityIds
        BY DEF EntityIds
      <3>2. audit' = Logged(audit, id, before, after)
        BY <1>1 DEF ReservoirStep
      <3> QED BY <3>1, <3>2, Tables, LoggedAt
    <2>2. /\ reservoirs'[id] = row
          /\ \A x \in ReservoirIds \ {id} : reservoirs'[x] = reservoirs[x]
      BY <1>1, Tables DEF ReservoirStep
    <2>3. Told(ReservoirTransitions, id, reservoirs[id], row, audit[id], audit'[id])
      BY <1>1, <2>1, Tables, AlteredIsTold DEF ReservoirStep, ReservoirInitialStatus
    <2>4. ReservoirsTold
      BY <2>1, <2>2, <2>3, SameIsTold DEF ReservoirsTold, EntityIds
    <2>5. GatesTold /\ DirectivesTold /\ ConfirmationsTold
      BY <1>1, <2>1, SameIsTold, IdsAssumption
      DEF ReservoirStep, GatesTold, DirectivesTold, ConfirmationsTold, EntityIds
    <2> QED BY <2>4, <2>5 DEF AllTold
  <1>2. ASSUME NEW id \in GateIds, NEW row \in PresentGate,
               NEW before, NEW after, GateStep(id, row, before, after)
        PROVE  AllTold
    <2>1. /\ audit'[id].n = audit[id].n + 1
          /\ audit'[id].before = before /\ audit'[id].after = after
          /\ \A x \in EntityIds \ {id} : audit'[x] = audit[x]
      <3>1. id \in EntityIds
        BY DEF EntityIds
      <3>2. audit' = Logged(audit, id, before, after)
        BY <1>2 DEF GateStep
      <3> QED BY <3>1, <3>2, Tables, LoggedAt
    <2>2. gates'[id] = row /\ \A x \in GateIds \ {id} : gates'[x] = gates[x]
      BY <1>2, Tables DEF GateStep
    <2>3. Told(GateUnitTransitions, id, gates[id], row, audit[id], audit'[id])
      BY <1>2, <2>1, Tables, AlteredIsTold DEF GateStep, GateUnitInitialStatus
    <2>4. GatesTold
      BY <2>1, <2>2, <2>3, SameIsTold DEF GatesTold, EntityIds
    <2>5. ReservoirsTold /\ DirectivesTold /\ ConfirmationsTold
      BY <1>2, <2>1, SameIsTold, IdsAssumption
      DEF GateStep, ReservoirsTold, DirectivesTold, ConfirmationsTold, EntityIds
    <2> QED BY <2>4, <2>5 DEF AllTold
  <1> QED BY <1>1, <1>2 DEF RootStep

\* A gate that follows a directive is told of by what the trail gains, and no
\* other trail changes.
LEMMA FollowingGateTold ==
  ASSUME Sound, NEW g \in GateIds, NEW target, NEW trail, DOMAIN trail = EntityIds,
         \A x \in GateIds : trail[x] = audit[x], GateFollows(g, target, trail)
  PROVE  /\ GatesTold
         /\ \A x \in EntityIds \ GateIds : audit'[x] = trail[x]
  <1>1. CASE gates' = gates /\ audit' = trail
    BY <1>1, SameIsTold DEF GatesTold
  <1>2. ASSUME NEW row \in PresentGate, Succeeds(gates[g], row), row.status = target,
               CanTransition(GateUnitTransitions, gates[g].status, target),
               gates' = [gates EXCEPT ![g] = row],
               audit' = Logged(trail, g, gates[g].status, target)
        PROVE  /\ GatesTold
               /\ \A x \in EntityIds \ GateIds : audit'[x] = trail[x]
    <2>1. g \in EntityIds
      BY DEF EntityIds
    <2>2. /\ audit'[g].n = trail[g].n + 1
          /\ audit'[g].before = gates[g].status /\ audit'[g].after = target
          /\ \A x \in EntityIds \ {g} : audit'[x] = trail[x]
      BY <1>2, <2>1, LoggedAt
    <2>3. gates'[g] = row /\ \A x \in GateIds \ {g} : gates'[x] = gates[x]
      BY <1>2, Tables
    <2>4. Altered(GateUnitTransitions, GateUnitInitialStatus, g, gates[g], row,
                  gates[g].status, target)
      BY <1>2 DEF Altered, Succeeds
    <2>5. Told(GateUnitTransitions, g, gates[g], row, audit[g], audit'[g])
      BY <2>2, <2>4, Tables, AlteredIsTold DEF GateUnitInitialStatus
    <2>6. GatesTold
      BY <2>2, <2>3, <2>5, SameIsTold DEF GatesTold, EntityIds
    <2> QED BY <2>2, <2>6
  <1> QED BY <1>1, <1>2 DEF GateFollows

\* A directive that was altered, beside at most its gate.
LEMMA DirectiveTold ==
  ASSUME Sound, NEW d \in DirectiveIds, NEW row, NEW before, NEW after, NEW trail,
         trail = Logged(audit, d, before, after),
         Altered(OperationDirectiveTransitions, OperationDirectiveInitialStatus,
                 d, directives[d], row, before, after),
         directives' = [directives EXCEPT ![d] = row],
         UNCHANGED <<reservoirs, confirmations>>,
         \/ gates' = gates /\ audit' = trail
         \/ \E target : GateFollows(directives[d].gate, target, trail)
                        /\ directives[d].gate \in GateIds
  PROVE  AllTold
  <1>1. d \in EntityIds
    BY DEF EntityIds
  <1>2. /\ DOMAIN trail = EntityIds
        /\ trail[d].n = audit[d].n + 1 /\ trail[d].before = before /\ trail[d].after = after
        /\ \A x \in EntityIds \ {d} : trail[x] = audit[x]
    BY <1>1, Tables, LoggedAt
  <1>3. \A x \in GateIds : trail[x] = audit[x]
    BY <1>2, IdsAssumption DEF EntityIds
  <1>4. GatesTold /\ \A x \in EntityIds \ GateIds : audit'[x] = trail[x]
    <2>1. CASE gates' = gates /\ audit' = trail
      BY <2>1, <1>3, SameIsTold DEF GatesTold
    <2>2. ASSUME NEW target, GateFollows(directives[d].gate, target, trail),
                 directives[d].gate \in GateIds
          PROVE  GatesTold /\ \A x \in EntityIds \ GateIds : audit'[x] = trail[x]
      BY <2>2, <1>2, <1>3, FollowingGateTold
    <2> QED BY <2>1, <2>2
  <1>5. Told(OperationDirectiveTransitions, d, directives[d], row, audit[d], trail[d])
    BY <1>2, Tables, AlteredIsTold DEF OperationDirectiveInitialStatus
  <1>6. audit'[d] = trail[d] /\ \A x \in (EntityIds \ GateIds) \ {d} : audit'[x] = audit[x]
    BY <1>1, <1>2, <1>4, IdsAssumption DEF EntityIds
  <1>7. directives'[d] = row /\ \A x \in DirectiveIds \ {d} : directives'[x] = directives[x]
    BY Tables
  <1>8. DirectivesTold
    BY <1>5, <1>6, <1>7, SameIsTold, IdsAssumption DEF DirectivesTold, EntityIds
  <1>9. ReservoirsTold /\ ConfirmationsTold
    BY <1>6, SameIsTold, IdsAssumption DEF ReservoirsTold, ConfirmationsTold, EntityIds
  <1> QED BY <1>4, <1>8, <1>9 DEF AllTold

\* A step of a directive.
LEMMA DirectiveStepTold ==
  ASSUME Sound, DirectiveStep
  PROVE  AllTold
  <1>1. ASSUME NEW d \in DirectiveIds, NEW row \in PresentDirective, Drafts(d, row)
        PROVE  AllTold
    <2>1. Altered(OperationDirectiveTransitions, OperationDirectiveInitialStatus,
                  d, directives[d], row, None, "draft")
      BY <1>1 DEF Drafts, Altered, OperationDirectiveInitialStatus
    <2> QED BY <1>1, <2>1, DirectiveTold DEF Drafts
  <1>2. ASSUME NEW d \in DirectiveIds, NEW row \in PresentDirective, Revises(d, row)
        PROVE  AllTold
    <2>1. Altered(OperationDirectiveTransitions, OperationDirectiveInitialStatus,
                  d, directives[d], row, "draft", "draft")
      BY <1>2 DEF Revises, Altered, Succeeds
    <2> QED BY <1>2, <2>1, DirectiveTold DEF Revises
  <1>3. ASSUME NEW d \in DirectiveIds, NEW row \in PresentDirective,
               NEW to, NEW a, NEW role, Transits(d, row, to, a, role)
        PROVE  AllTold
    <2>1. Altered(OperationDirectiveTransitions, OperationDirectiveInitialStatus,
                  d, directives[d], row, directives[d].status, to)
      BY <1>3 DEF Transits, Altered, Succeeds
    <2>2. directives[d].gate \in GateIds
      BY <1>3, LiveRows DEF Transits, Succeeds, Sound, Typed, TypeOK, PresentDirective
    <2>3. PICK trail : trail = Logged(audit, d, directives[d].status, to)
      OBVIOUS
    <2>4. /\ directives' = [directives EXCEPT ![d] = row]
          /\ UNCHANGED <<reservoirs, confirmations>>
          /\ \/ gates' = gates /\ audit' = trail
             \/ \E target : GateFollows(directives[d].gate, target, trail)
      BY <1>3, <2>3 DEF Transits
    <2> QED BY <2>1, <2>2, <2>3, <2>4, DirectiveTold
  <1>4. ASSUME NEW d \in DirectiveIds, NEW row \in PresentDirective, NEW before,
               Removes(d, row, before)
        PROVE  AllTold
    <2>1. Altered(OperationDirectiveTransitions, OperationDirectiveInitialStatus,
                  d, directives[d], row, before, "deleted")
      BY <1>4 DEF Removes, Altered
    <2> QED BY <1>4, <2>1, DirectiveTold DEF Removes
  <1> QED BY <1>1, <1>2, <1>3, <1>4 DEF DirectiveStep

\* A step of a receipt that touches no other table.
LEMMA ReceiptTold ==
  ASSUME Sound, NEW c \in ConfirmationIds, NEW row, NEW before, NEW after,
         audit' = Logged(audit, c, before, after),
         Altered(ExecutionConfirmationTransitions, ExecutionConfirmationInitialStatus,
                 c, confirmations[c], row, before, after),
         confirmations' = [confirmations EXCEPT ![c] = row],
         UNCHANGED <<reservoirs, gates, directives>>
  PROVE  AllTold
  <1>1. c \in EntityIds
    BY DEF EntityIds
  <1>2. /\ audit'[c].n = audit[c].n + 1 /\ audit'[c].before = before
        /\ audit'[c].after = after
        /\ \A x \in EntityIds \ {c} : audit'[x] = audit[x]
    BY <1>1, Tables, LoggedAt
  <1>3. Told(ExecutionConfirmationTransitions, c, confirmations[c], row, audit[c], audit'[c])
    BY <1>2, Tables, AlteredIsTold DEF ExecutionConfirmationInitialStatus
  <1>4. confirmations'[c] = row
        /\ \A x \in ConfirmationIds \ {c} : confirmations'[x] = confirmations[x]
    BY Tables
  <1>5. ConfirmationsTold
    BY <1>2, <1>3, <1>4, SameIsTold DEF ConfirmationsTold, EntityIds
  <1>6. ReservoirsTold /\ GatesTold /\ DirectivesTold
    BY <1>2, SameIsTold, IdsAssumption DEF ReservoirsTold, GatesTold, DirectivesTold, EntityIds
  <1> QED BY <1>5, <1>6 DEF AllTold

\* The outcome of a receipt is told of in its directive's and its gate's trail too.
LEMMA OutcomeTold ==
  ASSUME Sound, NEW c \in ConfirmationIds, NEW row, NEW dir, Settles(c, row, dir)
  PROVE  AllTold
  <1>1. PICK d : d = confirmations[c].directive
    OBVIOUS
  <1>2. d \in DirectiveIds
    BY <1>1, LiveRows DEF Settles, Succeeds, Sound, Typed, TypeOK, PresentConfirmation
  <1>3. directives[d].gate \in GateIds
    BY <1>1, <1>2, LiveRows DEF Settles, Succeeds, Sound, Typed, TypeOK, PresentDirective
  <1>4. PICK first : first = Logged(audit, c, "pending", row.status)
    OBVIOUS
  <1>5. PICK trail : trail = Logged(first, d, "executing", dir.status)
    OBVIOUS
  <1>6. c \in EntityIds /\ d \in EntityIds /\ c # d /\ c \notin GateIds /\ d \notin GateIds
    BY <1>2, IdsAssumption DEF EntityIds
  <1>7. /\ DOMAIN first = EntityIds
        /\ first[c].n = audit[c].n + 1 /\ first[c].before = "pending"
        /\ first[c].after = row.status
        /\ \A x \in EntityIds \ {c} : first[x] = audit[x]
    BY <1>4, <1>6, Tables, LoggedAt
  <1>8. /\ DOMAIN trail = EntityIds
        /\ trail[d].n = first[d].n + 1 /\ trail[d].before = "executing"
        /\ trail[d].after = dir.status
        /\ \A x \in EntityIds \ {d} : trail[x] = first[x]
    BY <1>5, <1>6, <1>7, LoggedAt
  <1>9. \A x \in GateIds : trail[x] = audit[x]
    BY <1>6, <1>7, <1>8 DEF EntityIds
  <1>10. PICK target : GateFollows(directives[d].gate, target, trail)
    BY <1>1, <1>4, <1>5 DEF Settles
  <1>11. GatesTold /\ \A x \in EntityIds \ GateIds : audit'[x] = trail[x]
    BY <1>3, <1>8, <1>9, <1>10, FollowingGateTold
  <1>12. audit'[c] = first[c] /\ audit'[d] = trail[d] /\ first[d] = audit[d]
         /\ \A x \in (EntityIds \ GateIds) \ {c, d} : audit'[x] = audit[x]
    BY <1>6, <1>7, <1>8, <1>11
  <1>13. /\ confirmations'[c] = row
         /\ \A x \in ConfirmationIds \ {c} : confirmations'[x] = confirmations[x]
         /\ directives'[d] = dir
         /\ \A x \in DirectiveIds \ {d} : directives'[x] = directives[x]
    BY <1>1, <1>2, Tables DEF Settles
  <1>14. /\ confirmations[c].status = "pending" /\ row.status \in {"confirmed", "failed"}
         /\ Succeeds(confirmations[c], row) /\ Succeeds(directives[d], dir)
         /\ directives[d].status = "executing" /\ dir.status \in {"completed", "aborted"}
    BY <1>1 DEF Settles, DirectiveOutcome
  <1>15. Altered(ExecutionConfirmationTransitions, ExecutionConfirmationInitialStatus,
                 c, confirmations[c], row, "pending", row.status)
    BY <1>14
    DEF Altered, Succeeds, CanTransition, ExecutionConfirmationTransitions
  <1>16. Altered(OperationDirectiveTransitions, OperationDirectiveInitialStatus,
                 d, directives[d], dir, "executing", dir.status)
    BY <1>14 DEF Altered, Succeeds, CanTransition, OperationDirectiveTransitions
  <1>17. Told(ExecutionConfirmationTransitions, c, confirmations[c], row, audit[c], audit'[c])
    BY <1>7, <1>12, <1>15, Tables, AlteredIsTold DEF ExecutionConfirmationInitialStatus
  <1>18. Told(OperationDirectiveTransitions, d, directives[d], dir, audit[d], audit'[d])
    BY <1>2, <1>8, <1>12, <1>16, Tables, AlteredIsTold DEF OperationDirectiveInitialStatus
  <1>19. ConfirmationsTold
    BY <1>12, <1>13, <1>17, <1>2, SameIsTold, IdsAssumption DEF ConfirmationsTold, EntityIds
  <1>20. DirectivesTold
    BY <1>12, <1>13, <1>18, <1>2, SameIsTold, IdsAssumption DEF DirectivesTold, EntityIds
  <1>21. ReservoirsTold
    BY <1>12, <1>2, SameIsTold, IdsAssumption DEF Settles, ReservoirsTold, EntityIds
  <1> QED BY <1>11, <1>19, <1>20, <1>21 DEF AllTold

\* Whatever step is taken, every row's change follows its graph and is told of.
LEMMA EveryStepTold ==
  ASSUME Sound, AtomicStep
  PROVE  AllTold
  <1>1. CASE Quiet
    BY <1>1, SameIsTold
    DEF Quiet, AllTold, ReservoirsTold, GatesTold, DirectivesTold, ConfirmationsTold
  <1>2. ASSUME NEW c \in ConfirmationIds, NEW row \in PresentConfirmation, Opens(c, row)
        PROVE  AllTold
    <2>1. Altered(ExecutionConfirmationTransitions, ExecutionConfirmationInitialStatus,
                  c, confirmations[c], row, None, "pending")
      BY <1>2 DEF Opens, Altered, ExecutionConfirmationInitialStatus
    <2> QED BY <1>2, <2>1, ReceiptTold DEF Opens
  <1>3. ASSUME NEW c \in ConfirmationIds, NEW row \in PresentConfirmation, Amends(c, row)
        PROVE  AllTold
    <2>1. Altered(ExecutionConfirmationTransitions, ExecutionConfirmationInitialStatus,
                  c, confirmations[c], row, confirmations[c].status, row.status)
      BY <1>3
      DEF Amends, Altered, Succeeds, CanTransition, ExecutionConfirmationTransitions
    <2> QED BY <1>3, <2>1, ReceiptTold DEF Amends
  <1>4. ASSUME NEW c \in ConfirmationIds, NEW row \in PresentConfirmation, NEW before,
               Discards(c, row, before)
        PROVE  AllTold
    <2>1. Altered(ExecutionConfirmationTransitions, ExecutionConfirmationInitialStatus,
                  c, confirmations[c], row, before, "deleted")
      BY <1>4 DEF Discards, Altered
    <2> QED BY <1>4, <2>1, ReceiptTold DEF Discards
  <1> QED BY <1>1, <1>2, <1>3, <1>4, RootStepTold, DirectiveStepTold, OutcomeTold
      DEF AtomicStep, ReceiptStep

-----------------------------------------------------------------------------
(* What creations and updates have checked of other rows lasts. *)

\* An inserted gate stays inserted, a started directive stays started.
LEMMA ChecksLast ==
  ASSUME Sound, AtomicStep
  PROVE  /\ \A g \in GateIds : gates[g].status # "absent" => gates'[g].status # "absent"
         /\ \A d \in DirectiveIds :
              directives[d].status \in {"executing", "completed", "aborted"} =>
                directives'[d].status \in {"executing", "completed", "aborted"}
  <1>1. GatesTold /\ DirectivesTold
    BY EveryStepTold DEF AllTold
  <1>2. ASSUME NEW g \in GateIds, gates[g].status # "absent"
        PROVE  gates'[g].status # "absent"
    BY <1>1, <1>2 DEF GatesTold, Told, Follows, CanTransition, GateUnitTransitions
  <1>3. ASSUME NEW d \in DirectiveIds,
               directives[d].status \in {"executing", "completed", "aborted"}
        PROVE  directives'[d].status \in {"executing", "completed", "aborted"}
    BY <1>1, <1>3
    DEF DirectivesTold, Told, Follows, CanTransition, OperationDirectiveTransitions
  <1> QED BY <1>2, <1>3

\* What a request in flight has checked of rows it does not write lasts.
LEMMA PlanLasts ==
  ASSUME Sound, AtomicStep, NEW q, Valid(q), PlanSound(q)
  PROVE  PlanSound(q)'
  <1>1. ASSUME q.op \in {"CreateDirective", "UpdateDirective"}
        PROVE  gates'[q.plan.link].status # "absent"
    <2>1. q.plan.link \in GateIds
      BY <1>1 DEF Valid, DirectiveValid
    <2> QED BY <1>1, <2>1, ChecksLast DEF PlanSound
  <1>2. ASSUME q.op = "CreateConfirmation"
        PROVE  directives'[q.plan.link].status \in {"executing", "completed", "aborted"}
    <2>1. q.plan.link \in DirectiveIds
      BY <1>2 DEF Valid, ConfirmationValid
    <2> QED BY <1>2, <2>1, ChecksLast DEF PlanSound
  <1> QED BY <1>1, <1>2 DEF PlanSound

\* One request begins or ends; the others go on.
LEMMA PlansKept ==
  ASSUME Sound, AtomicStep, NEW r \in Requests, NEW F, req' = [req EXCEPT ![r] = F],
         PlanSound(F)'
  PROVE  AllPlansSound'
  <1> SUFFICES ASSUME NEW s \in Requests PROVE PlanSound(req[s])'
    BY DEF AllPlansSound
  <1>1. req \in [Requests -> Request]
    BY DEF Sound, Typed, TypeOK
  <1>2. CASE s = r
    <2>1. req'[s] = F
      BY <1>1, <1>2
    <2> QED BY <2>1 DEF PlanSound
  <1>3. CASE s # r
    <2>1. PICK q : q = req[s]
      OBVIOUS
    <2>2. Valid(q) /\ PlanSound(q)
      BY <2>1, InFlightSound DEF Sound, AllPlansSound
    <2>3. PlanSound(q)'
      BY <2>2, PlanLasts
    <2>4. req'[s] = q
      BY <1>1, <1>3, <2>1
    <2> QED BY <2>3, <2>4 DEF PlanSound
  <1> QED BY <1>2, <1>3

\* A request that ends.
LEMMA EndKeepsPlans ==
  ASSUME Sound, AtomicStep, NEW r \in Requests, Finish(r)
  PROVE  AllPlansSound'
  <1>1. PlanSound(Idle)'
    BY DEF PlanSound, Idle
  <1> QED BY <1>1, PlansKept DEF Finish

\* A request that begins, having just checked what it refers to.
LEMMA BeginKeepsPlans ==
  ASSUME Sound, NEW r \in Requests, NEW F, Begin(r, F), PlanSound(F)
  PROVE  AllPlansSound'
  <1>1. AtomicStep
    BY BeginQuiet DEF AtomicStep
  <1>2. PlanSound(F)'
    BY DEF Begin, PlanSound
  <1> QED BY <1>1, <1>2, PlansKept DEF Begin

\* A request that begins and refers to no other row.
LEMMA PlanlessBegin ==
  ASSUME Sound, NEW r \in Requests, NEW F, Begin(r, F),
         F.op \notin {"CreateDirective", "UpdateDirective", "CreateConfirmation"}
  PROVE  AllPlansSound'
  <1>1. PlanSound(F)
    BY DEF PlanSound
  <1> QED BY <1>1, BeginKeepsPlans

\* The reservoir service refers to no other row.
LEMMA ReservoirPlans ==
  ASSUME Sound, AtomicStep, NEW r \in Requests, ReservoirNext(r)
  PROVE  AllPlansSound'
  <1>1. ASSUME Finish(r) PROVE AllPlansSound'
    BY <1>1, EndKeepsPlans
  <1>2. ASSUME NEW F, Begin(r, F), F.op \in {"CreateReservoir", "UpdateReservoir",
                                         "TransitionReservoir", "DeleteReservoir"}
        PROVE  AllPlansSound'
    BY <1>2, PlanlessBegin
  <1>3. CASE \E id \in ReservoirIds, f \in Facilities : BeginCreateReservoir(r, id, f)
    BY <1>2, <1>3 DEF BeginCreateReservoir, Idle
  <1>4. CASE \E id \in ReservoirIds, f \in Facilities :
               \E e \in 1..MaxVersion[id] : BeginUpdateReservoir(r, id, f, e)
    BY <1>2, <1>4 DEF BeginUpdateReservoir, Idle
  <1>5. CASE \E id \in ReservoirIds, to \in ReservoirStates :
               \E e \in 1..MaxVersion[id] : BeginTransitionReservoir(r, id, to, e)
    BY <1>2, <1>5 DEF BeginTransitionReservoir, Idle
  <1>6. CASE \E id \in ReservoirIds : BeginDeleteReservoir(r, id)
    BY <1>2, <1>6 DEF BeginDeleteReservoir, Idle
  <1> QED BY <1>1, <1>3, <1>4, <1>5, <1>6
    DEF ReservoirNext, CommitCreateReservoir, CommitUpdateReservoir,
        CommitTransitionReservoir, CommitDeleteReservoir

\* A gate's update or transition refers to no row that could vanish from under it.
LEMMA GatePlans ==
  ASSUME Sound, AtomicStep, NEW r \in Requests, GateNext(r)
  PROVE  AllPlansSound'
  <1>1. ASSUME Finish(r) PROVE AllPlansSound'
    BY <1>1, EndKeepsPlans
  <1>2. ASSUME NEW F, Begin(r, F), F.op \in {"CreateGate", "UpdateGate",
                                             "TransitionGate", "DeleteGate"}
        PROVE  AllPlansSound'
    BY <1>2, PlanlessBegin
  <1>3. CASE \E id \in GateIds, res \in ReservoirIds, f \in Facilities :
               BeginCreateGate(r, id, res, f)
    BY <1>2, <1>3 DEF BeginCreateGate, Idle
  <1>4. CASE \E id \in GateIds, f \in Facilities :
               \E e \in 1..MaxVersion[id] : BeginUpdateGate(r, id, f, e)
    BY <1>2, <1>4 DEF BeginUpdateGate, Idle
  <1>5. CASE \E id \in GateIds, to \in GateStates :
               \E e \in 1..MaxVersion[id] : BeginTransitionGate(r, id, to, e)
    BY <1>2, <1>5 DEF BeginTransitionGate, Idle
  <1>6. CASE \E id \in GateIds : BeginDeleteGate(r, id)
    BY <1>2, <1>6 DEF BeginDeleteGate, Idle
  <1> QED BY <1>1, <1>3, <1>4, <1>5, <1>6
    DEF GateNext, CommitCreateGate, CommitUpdateGate, CommitTransitionGate,
        CommitDeleteGate

\* A directive is drafted or revised for a gate that was just found.
LEMMA DirectivePlans ==
  ASSUME Sound, AtomicStep, NEW r \in Requests, DirectiveNext(r)
  PROVE  AllPlansSound'
  <1>1. ASSUME Finish(r) PROVE AllPlansSound'
    BY <1>1, EndKeepsPlans
  <1>2. ASSUME NEW F, Begin(r, F), F.op \in {"TransitionDirective", "DeleteDirective"}
        PROVE  AllPlansSound'
    BY <1>2, PlanlessBegin
  <1>3. ASSUME NEW g \in GateIds, NEW f, GateAccepts(g, f)
        PROVE  gates[g].status # "absent"
    <2>1. gates[g].live /\ gates[g] \in GateUnit
      BY <1>3 DEF GateAccepts, Live, Sound, Typed, TypeOK
    <2> QED BY <2>1, LiveRows, PresentStatus
  <1>4. ASSUME NEW id \in DirectiveIds, NEW g \in GateIds, NEW f \in Facilities,
               NEW s \in GateTargets, BeginCreateDirective(r, id, g, f, s)
        PROVE  AllPlansSound'
    <2>1. PICK F : F = [Idle EXCEPT !.op = "CreateDirective", !.id = id,
                          !.plan = [facility |-> f, link |-> g, gateState |-> s]]
      OBVIOUS
    <2>2. Begin(r, F) /\ GateAccepts(g, f)
      BY <1>4, <2>1 DEF BeginCreateDirective
    <2>3. F.op = "CreateDirective" /\ F.plan.link = g
      BY <2>1 DEF Idle
    <2>4. PlanSound(F)
      BY <1>3, <2>2, <2>3 DEF PlanSound
    <2> QED BY <2>2, <2>4, BeginKeepsPlans
  <1>5. ASSUME NEW id \in DirectiveIds, NEW g \in GateIds, NEW f \in Facilities,
               NEW s \in GateTargets, NEW e \in 1..MaxVersion[id],
               BeginUpdateDirective(r, id, g, f, s, e)
        PROVE  AllPlansSound'
    <2>1. PICK F : F = [Idle EXCEPT !.op = "UpdateDirective", !.id = id, !.exp = e,
                          !.plan = [facility |-> f, link |-> g, gateState |-> s],
                          !.dir = directives[id]]
      OBVIOUS
    <2>2. Begin(r, F) /\ GateAccepts(g, f)
      BY <1>5, <2>1 DEF BeginUpdateDirective
    <2>3. F.op = "UpdateDirective" /\ F.plan.link = g
      BY <2>1 DEF Idle
    <2>4. PlanSound(F)
      BY <1>3, <2>2, <2>3 DEF PlanSound
    <2> QED BY <2>2, <2>4, BeginKeepsPlans
  <1>6. ASSUME NEW id \in DirectiveIds, NEW to \in DirectiveStates, NEW a \in Actors,
               NEW role \in Roles, NEW e \in 1..MaxVersion[id],
               BeginTransitionDirective(r, id, to, a, role, e)
        PROVE  AllPlansSound'
    BY <1>2, <1>6 DEF BeginTransitionDirective, Idle
  <1>7. ASSUME NEW id \in DirectiveIds, BeginDeleteDirective(r, id)
        PROVE  AllPlansSound'
    BY <1>2, <1>7 DEF BeginDeleteDirective, Idle
  <1> QED BY <1>1, <1>4, <1>5, <1>6, <1>7
    DEF DirectiveNext, CommitCreateDirective, CommitUpdateDirective,
        CommitTransitionDirective, CommitDeleteDirective

\* A receipt is created for a directive that was just found executing.
LEMMA ConfirmationPlans ==
  ASSUME Sound, AtomicStep, NEW r \in Requests, ConfirmationNext(r)
  PROVE  AllPlansSound'
  <1>1. ASSUME Finish(r) PROVE AllPlansSound'
    BY <1>1, EndKeepsPlans
  <1>2. ASSUME NEW F, Begin(r, F), F.op \in {"UpdateConfirmation", "TransitionConfirmation",
                                             "DeleteConfirmation"}
        PROVE  AllPlansSound'
    BY <1>2, PlanlessBegin
  <1>3. ASSUME NEW id \in ConfirmationIds, NEW d \in DirectiveIds,
               BeginCreateConfirmation(r, id, d)
        PROVE  AllPlansSound'
    <2>1. PICK F : F = [Idle EXCEPT !.op = "CreateConfirmation", !.id = id,
                          !.plan = [NoPlan EXCEPT !.facility = directives[d].facility,
                                                  !.link = d]]
      OBVIOUS
    <2>2. Begin(r, F) /\ directives[d].status = "executing"
      BY <1>3, <2>1 DEF BeginCreateConfirmation, Executing
    <2>3. F.op = "CreateConfirmation" /\ F.plan.link = d
      BY <2>1 DEF Idle, NoPlan
    <2>4. PlanSound(F)
      BY <2>2, <2>3 DEF PlanSound
    <2> QED BY <2>2, <2>4, BeginKeepsPlans
  <1>4. ASSUME NEW id \in ConfirmationIds, NEW e \in 1..MaxVersion[id],
               BeginUpdateConfirmation(r, id, e)
        PROVE  AllPlansSound'
    BY <1>2, <1>4 DEF BeginUpdateConfirmation, Idle
  <1>5. ASSUME NEW id \in ConfirmationIds, NEW to \in ConfirmationStates,
               NEW e \in 1..MaxVersion[id], BeginOutcome(r, id, to, e)
        PROVE  AllPlansSound'
    BY <1>2, <1>5 DEF BeginOutcome, Idle
  <1>6. ASSUME NEW id \in ConfirmationIds, NEW to \in ConfirmationStates,
               NEW e \in 1..MaxVersion[id], BeginCancel(r, id, to, e)
        PROVE  AllPlansSound'
    BY <1>2, <1>6 DEF BeginCancel, Idle
  <1>7. ASSUME NEW id \in ConfirmationIds, BeginDeleteConfirmation(r, id)
        PROVE  AllPlansSound'
    BY <1>2, <1>7 DEF BeginDeleteConfirmation, Idle
  <1> QED BY <1>1, <1>3, <1>4, <1>5, <1>6, <1>7
    DEF ConfirmationNext, CommitCreateConfirmation, CommitUpdateConfirmation,
        CommitOutcome, CommitCancel, CommitDeleteConfirmation

\* Every step keeps what the requests have checked of other rows.
LEMMA NextPlans ==
  ASSUME Sound, [Next]_vars
  PROVE  AllPlansSound'
  <1>1. AtomicStep
    BY StepsAreAtomic
  <1>2. ASSUME NEW r \in Requests,
               ReservoirNext(r) \/ GateNext(r) \/ DirectiveNext(r) \/ ConfirmationNext(r)
        PROVE  AllPlansSound'
    BY <1>1, <1>2, ReservoirPlans, GatePlans, DirectivePlans, ConfirmationPlans
  <1>3. ASSUME NEW r \in Requests, Abandon(r)
        PROVE  AllPlansSound'
    BY <1>1, <1>3, EndKeepsPlans DEF Abandon
  <1>4. CASE Crash
    <2>1. \A r \in Requests : req'[r] = Idle
      BY <1>4 DEF Crash
    <2> QED BY <2>1 DEF AllPlansSound, PlanSound, Idle
  <1>5. CASE UNCHANGED vars
    BY <1>5 DEF vars, Sound, AllPlansSound, PlanSound
  <1> QED BY <1>2, <1>3, <1>4, <1>5 DEF Next

-----------------------------------------------------------------------------
(* The theorems. *)

\* In every reachable state the rows that a request holds are the table's, or their
\* version or deletion gives them away.  Of rows that a request has only named, so
\* much is left: the gate of a plan was inserted, the directive of a receipt started.
THEOREM StepInvariant == Spec => []Sound
  <1>1. Init => AllPlansSound
    BY DEF Init, AllPlansSound, PlanSound, Idle
  <1>2. Init => Sound
    BY <1>1, InitTyped, InitFaithful DEF Sound
  <1>3. Sound /\ [Next]_vars => Sound'
    BY NextTyped, NextFaithful, NextPlans DEF Sound
  <1> QED BY <1>2, <1>3, PTL DEF Spec

\* However many requests interleave between their checks and their writes, each row is
\* written as if it had been read and checked at once: it moves along its graph, from
\* the status, plan, signers and version it has, with its audit entry and signature.
THEOREM WritesAreAtomic == Spec => [][AtomicStep]_vars
  <1>1. Sound /\ [Next]_vars => AtomicStep
    BY StepsAreAtomic
  <1> QED BY <1>1, StepInvariant, PTL DEF Spec

\* Every status moves along its graph, whoever moves it.
THEOREM StatusesKeepToGraphs == Spec => StatusesFollowGraphs
  <1>1. ASSUME Sound, [Next]_vars
        PROVE  /\ \A id \in ReservoirIds :
                    Follows(ReservoirTransitions, reservoirs[id], reservoirs'[id])
               /\ \A id \in GateIds : Follows(GateUnitTransitions, gates[id], gates'[id])
               /\ \A id \in DirectiveIds :
                    Follows(OperationDirectiveTransitions, directives[id], directives'[id])
               /\ \A id \in ConfirmationIds :
                    Follows(ExecutionConfirmationTransitions, confirmations[id],
                            confirmations'[id])
    <2>1. AllTold
      BY <1>1, StepsAreAtomic, EveryStepTold
    <2> QED BY <2>1
      DEF AllTold, ReservoirsTold, GatesTold, DirectivesTold, ConfirmationsTold, Told
  <1> QED BY <1>1, StepInvariant, PTL DEF Spec, StatusesFollowGraphs

\* No row changes without its audit entry, and no entry appears without a change.  The
\* entry names the status the row had; a deletion's may name an earlier one, and then
\* only if the row was written after the deleting request had read it.
THEOREM ChangesAreAudited == Spec => EveryChangeAudited
  <1>1. ASSUME Sound, [Next]_vars
        PROVE  /\ \A id \in ReservoirIds :
                    Recorded(id, reservoirs[id], reservoirs'[id], audit[id], audit'[id])
               /\ \A id \in GateIds :
                    Recorded(id, gates[id], gates'[id], audit[id], audit'[id])
               /\ \A id \in DirectiveIds :
                    Recorded(id, directives[id], directives'[id], audit[id], audit'[id])
               /\ \A id \in ConfirmationIds :
                    Recorded(id, confirmations[id], confirmations'[id], audit[id], audit'[id])
    <2>1. AllTold
      BY <1>1, StepsAreAtomic, EveryStepTold
    <2> QED BY <2>1
      DEF AllTold, ReservoirsTold, GatesTold, DirectivesTold, ConfirmationsTold, Told
  <1> QED BY <1>1, StepInvariant, PTL DEF Spec, EveryChangeAudited

\* A directive keeps its gate, target, facility and submitter once submitted.
LEMMA StepKeepsPlan ==
  ASSUME Sound, AtomicStep, NEW d \in DirectiveIds,
         directives[d].status \notin {"absent", "draft"}
  PROVE  /\ SamePlan(directives[d], directives'[d])
         /\ directives'[d].submittedBy = directives[d].submittedBy
  <1> DEFINE Kept == /\ SamePlan(directives[d], directives'[d])
                     /\ directives'[d].submittedBy = directives[d].submittedBy
  <1>1. CASE directives' = directives
    BY <1>1 DEF SamePlan
  <1>2. ASSUME NEW e \in DirectiveIds, NEW row, directives' = [directives EXCEPT ![e] = row],
               e = d => SamePlan(directives[d], row)
                        /\ row.submittedBy = directives[d].submittedBy
        PROVE  Kept
    <2>1. directives'[d] = IF e = d THEN row ELSE directives[d]
      BY <1>2, Tables
    <2> QED BY <1>2, <2>1 DEF SamePlan
  <1>3. ASSUME NEW e \in DirectiveIds, NEW row, Drafts(e, row) \/ Revises(e, row)
        PROVE  Kept
    BY <1>2, <1>3 DEF Drafts, Revises
  <1>4. ASSUME NEW e \in DirectiveIds, NEW row, NEW to, NEW a, NEW role,
               Transits(e, row, to, a, role)
        PROVE  Kept
    <2>1. e = d => to # "pending"
      BY <1>4 DEF Transits, CanTransition, OperationDirectiveTransitions
    <2> QED BY <1>2, <1>4, <2>1 DEF Transits
  <1>5. ASSUME NEW e \in DirectiveIds, NEW row, NEW before, Removes(e, row, before)
        PROVE  Kept
    BY <1>2, <1>5 DEF Removes, SameSigners
  <1>6. ASSUME NEW c \in ConfirmationIds, NEW row, NEW dir, Settles(c, row, dir)
        PROVE  Kept
    <2>1. PICK e : e = confirmations[c].directive
      OBVIOUS
    <2>2. e \in DirectiveIds
      BY <1>6, <2>1, LiveRows DEF Settles, Succeeds, Sound, Typed, TypeOK, PresentConfirmation
    <2> QED BY <1>2, <1>6, <2>1, <2>2 DEF Settles, SameSigners
  <1>7. CASE DirectiveStep
    BY <1>7, <1>3, <1>4, <1>5 DEF DirectiveStep
  <1>8. CASE ReceiptStep
    <2>1. ASSUME NEW c, NEW row, NEW before,
                 Opens(c, row) \/ Amends(c, row) \/ Discards(c, row, before)
          PROVE  Kept
      BY <2>1, <1>1 DEF Opens, Amends, Discards
    <2> QED BY <1>8, <2>1, <1>6 DEF ReceiptStep
  <1>9. CASE Quiet \/ RootStep
    BY <1>1, <1>9 DEF Quiet, RootStep, ReservoirStep, GateStep
  <1> QED BY <1>7, <1>8, <1>9 DEF AtomicStep

\* What was submitted is what gets approved and executed.
THEOREM PlanStaysFrozen == Spec => SubmittedPlanFrozen
  <1>1. ASSUME Sound, [Next]_vars, NEW d \in DirectiveIds,
               directives[d].status \notin {"absent", "draft"}
        PROVE  /\ directives'[d].gate = directives[d].gate
               /\ directives'[d].gateState = directives[d].gateState
               /\ directives'[d].facility = directives[d].facility
               /\ directives'[d].submittedBy = directives[d].submittedBy
    BY <1>1, StepsAreAtomic, StepKeepsPlan DEF SamePlan
  <1>2. Sound /\ [Next]_vars =>
          \A d \in DirectiveIds :
            directives[d].status \notin {"absent", "draft"} =>
              /\ directives'[d].gate = directives[d].gate
              /\ directives'[d].gateState = directives[d].gateState
              /\ directives'[d].facility = directives[d].facility
              /\ directives'[d].submittedBy = directives[d].submittedBy
    BY <1>1
  <1> QED BY <1>2, StepInvariant, PTL DEF Spec, SubmittedPlanFrozen
=============================================================================
