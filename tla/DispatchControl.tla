-------------------------- MODULE DispatchControl ---------------------------
(***************************************************************************)
(* The dispatch backend: the four services over one database, serving      *)
(* concurrent requests (backend/internal/router/router.go wires them).     *)
(***************************************************************************)
EXTENDS ReservoirService, GateUnitService, OperationDirectiveService,
        ExecutionConfirmationService

SeededReservoir ==
  {[live |-> TRUE, version |-> 1, status |-> s, facility |-> f] :
     s \in SeededReservoirStates, f \in Facilities}
SeededGate ==
  {[live |-> TRUE, version |-> 1, status |-> s, facility |-> f, reservoir |-> res] :
     s \in SeededGateStates, f \in Facilities, res \in ReservoirIds}

\* What seedOperationDirective inserts: status of the directive, of its gate, target.
SeededPlans ==
  {<<"draft", "open", "open">>, <<"pending", "closed", "closed">>,
   <<"executing", "moving", "open">>}
SeededSigners(status, by, second) ==
  CASE status = "draft" -> by = None /\ second = None
    [] status = "pending" -> by \in Actors /\ second = None
    [] OTHER -> by \in Actors /\ second \in Actors \ {by}
SeededDirective ==
  {[live |-> TRUE, version |-> 1, status |-> s, facility |-> f, gate |-> g,
    gateState |-> t, submittedBy |-> a, approvedBy |-> b] :
     s \in {"draft", "pending", "executing"}, f \in Facilities, g \in GateIds,
     t \in GateTargets, a \in Actors \cup {None}, b \in Actors \cup {None}}
SeededConfirmation ==
  {[live |-> TRUE, version |-> 1, status |-> "pending", facility |-> f,
    directive |-> d] : f \in Facilities, d \in DirectiveIds}

\* The directive operates a seeded gate of its facility.
SeededOn(d, gate) ==
  /\ gate.live /\ gate.facility = d.facility
  /\ <<d.status, gate.status, d.gateState>> \in SeededPlans

\* The signatures of the seeded directives, by an operator and a reviewer.
SeededApprovals ==
  {p \in DirectiveApproval :
     LET d == directives[p.directive]
     IN  \/ p.stage = "submitted" /\ p.actor = d.submittedBy /\ p.role = "operator"
         \/ p.stage = "approved" /\ p.actor = d.approvedBy /\ p.role = "reviewer"}

\* The database as Seed leaves it, nothing audited yet.
Init ==
  /\ reservoirs \in [ReservoirIds -> SeededReservoir \cup {NoReservoir}]
  /\ \A id \in ReservoirIds : reservoirs[id].live <=> id \in Seeded
  /\ gates \in [GateIds -> SeededGate \cup {NoGate}]
  /\ \A id \in GateIds :
       /\ gates[id].live <=> id \in Seeded
       /\ gates[id].live => ReservoirAccepts(gates[id].reservoir, gates[id].facility)
  /\ directives \in [DirectiveIds -> SeededDirective \cup {NoDirective}]
  /\ \A id \in DirectiveIds :
       /\ directives[id].live <=> id \in Seeded
       /\ directives[id].live =>
            LET d == directives[id]
            IN  /\ SeededOn(d, gates[d.gate])
                /\ SeededSigners(d.status, d.submittedBy, d.approvedBy)
                /\ \A other \in DirectiveIds \ {id} : directives[other].status # d.status
  /\ confirmations \in [ConfirmationIds -> SeededConfirmation \cup {NoConfirmation}]
  /\ \A id \in ConfirmationIds :
       /\ confirmations[id].live <=> id \in Seeded
       /\ confirmations[id].live =>
            /\ Executing(confirmations[id].directive)
            /\ confirmations[id].facility = directives[confirmations[id].directive].facility
            /\ \A c \in ConfirmationIds \ {id} :
                 confirmations[c].directive # confirmations[id].directive
  /\ approvals = SeededApprovals
  /\ audit = [id \in EntityIds |-> NoTrail]
  /\ req = [r \in Requests |-> Idle]

\* A request ends without a commit: it lost a version race, hit a unique
\* index or a deleted row, failed on a statement of its transaction, or its
\* client went away.  The transaction rolls back as a whole.
Abandon(r) ==
  /\ req[r].op # "idle"
  /\ Finish(r)
  /\ UNCHANGED <<reservoirs, gates, directives, confirmations, approvals, audit>>

\* The process stops: every request in flight is lost, the database stays.
Crash ==
  /\ \E r \in Requests : req[r].op # "idle"
  /\ req' = [r \in Requests |-> Idle]
  /\ UNCHANGED <<reservoirs, gates, directives, confirmations, approvals, audit>>

Next ==
  \/ \E r \in Requests :
       \/ ReservoirNext(r)
       \/ GateNext(r)
       \/ DirectiveNext(r)
       \/ ConfirmationNext(r)
       \/ Abandon(r)
  \/ Crash

Spec == Init /\ [][Next]_vars

-----------------------------------------------------------------------------
\* Every row, approval, audit trail and request has the shape its table gives it.
TypeOK ==
  /\ reservoirs \in [ReservoirIds -> Reservoir]
  /\ gates \in [GateIds -> GateUnit]
  /\ directives \in [DirectiveIds -> OperationDirective]
  /\ confirmations \in [ConfirmationIds -> ExecutionConfirmation]
  /\ approvals \subseteq DirectiveApproval
  /\ audit \in [EntityIds -> AuditTrail]
  /\ req \in [Requests -> Request]

-----------------------------------------------------------------------------
(* Optimistic locking. *)

\* What a request holds of a row is still the row, as long as the version
\* check would let the request write it.
HeldRow(table, id, exp, held) == Current(table, id, exp) => table[id] = held

\* No update is ever lost: a request whose version checks would all pass has
\* read the very rows it is about to overwrite (Store.update writes the whole
\* in-memory row, so a stale copy would bring old field values back).
NoStaleWrite ==
  \A r \in Requests :
    LET q == req[r]
    IN  /\ q.op \in {"UpdateReservoir", "TransitionReservoir"} =>
             HeldRow(reservoirs, q.id, q.exp, q.res)
        /\ q.op \in {"UpdateGate", "TransitionGate"} =>
             HeldRow(gates, q.id, q.exp, q.gate)
        /\ q.op \in {"UpdateDirective", "TransitionDirective"} =>
             HeldRow(directives, q.id, q.exp, q.dir)
        /\ q.op \in {"UpdateConfirmation", "TransitionConfirmation"} =>
             HeldRow(confirmations, q.id, q.exp, q.conf)
        /\ q.op = "TransitionConfirmation" /\ q.conf.status = "pending" =>
             HeldRow(directives, q.conf.directive, q.dir.version, q.dir)
        /\ q.op \in {"TransitionDirective", "TransitionConfirmation"} /\ q.gate.live =>
             HeldRow(gates, q.dir.gate, q.gate.version, q.gate)

\* The inductive form of NoStaleWrite.  A row a request has read is not absent,
\* its version has not gone back, and while it is live at that version it is
\* still what the request has read.
Held(table, id, held) ==
  /\ table[id].status # "absent"
  /\ held.version <= table[id].version
  /\ table[id].live /\ table[id].version = held.version => table[id] = held

RequestsValid ==
  \A r \in Requests :
    /\ ReservoirValid(req[r])
    /\ GateValid(req[r])
    /\ DirectiveValid(req[r])
    /\ ConfirmationValid(req[r])

\* Which gate and which directive a request has read.
HeldGate(q) ==
  IF q.op \in {"UpdateGate", "TransitionGate", "DeleteGate"} THEN q.id ELSE q.dir.gate
HeldDirective(q) ==
  IF q.op = "TransitionConfirmation" THEN q.conf.directive ELSE q.id

RequestsFaithful ==
  \A r \in Requests :
    LET q == req[r]
    IN  /\ q.res.live => Held(reservoirs, q.id, q.res)
        /\ q.gate.live => Held(gates, HeldGate(q), q.gate)
        /\ q.dir.live => Held(directives, HeldDirective(q), q.dir)
        /\ q.conf.live => Held(confirmations, q.id, q.conf)

\* Every request in flight carries what it has checked and holds rows that are
\* true unless their version gives them away: the invariant that carries the
\* optimistic locking of Store.update through every step.
RequestsSound == TypeOK /\ RequestsValid /\ RequestsFaithful

Deletions == {"DeleteReservoir", "DeleteGate", "DeleteDirective", "DeleteConfirmation"}

\* The row that a deleting request has read.
RowRead(q) ==
  CASE q.op = "DeleteReservoir" -> q.res
    [] q.op = "DeleteGate" -> q.gate
    [] q.op = "DeleteDirective" -> q.dir
    [] OTHER -> q.conf

\* The request that deletes the entity in this step has read its row in this status,
\* and somebody has written the row since.
ReadEarlier(id, row, status) ==
  \E r \in Requests :
    /\ req[r].op \in Deletions /\ req[r].id = id /\ req'[r] = Idle
    /\ RowRead(req[r]).status = status
    /\ RowRead(req[r]).version < row.version

\* One row's change against the audit entries of the same step.
Recorded(id, old, new, oldTrail, newTrail) ==
  IF new = old THEN newTrail = oldTrail
  ELSE /\ newTrail.n = oldTrail.n + 1
       /\ \/ old.status = "absent" /\ newTrail.before = None /\ newTrail.after = new.status
          \/ /\ old.live /\ ~new.live /\ newTrail.after = "deleted"
             /\ \/ newTrail.before = old.status
                \/ ReadEarlier(id, old, newTrail.before)
          \/ /\ old.live /\ new.live
             /\ newTrail.before = old.status /\ newTrail.after = new.status
             /\ new.version = old.version + 1

\* Business rows never change without evidence: the transaction that changes a
\* row appends exactly one audit entry for it, and no entry appears for a row that
\* did not change.  The entry of a creation, an update or a transition names the
\* statuses the row really had, although before was read earlier.  That of a
\* deletion, which checks no version, does so too unless the row was written after
\* the deleting request had read it; then it names the status that was read.
EveryChangeAudited ==
  [][/\ \A id \in ReservoirIds :
          Recorded(id, reservoirs[id], reservoirs'[id], audit[id], audit'[id])
     /\ \A id \in GateIds :
          Recorded(id, gates[id], gates'[id], audit[id], audit'[id])
     /\ \A id \in DirectiveIds :
          Recorded(id, directives[id], directives'[id], audit[id], audit'[id])
     /\ \A id \in ConfirmationIds :
          Recorded(id, confirmations[id], confirmations'[id], audit[id], audit'[id])
    ]_vars

\* The audit entry of a deletion names the status the row had when it was deleted.
DeletionTrue(old, new, newTrail) ==
  old.live /\ ~new.live => newTrail.before = old.status

\* The audit log agrees with the state: whatever is deleted is logged in the status
\* it had.
DeletionsAuditedTruly ==
  [][/\ \A id \in ReservoirIds : DeletionTrue(reservoirs[id], reservoirs'[id], audit'[id])
     /\ \A id \in GateIds : DeletionTrue(gates[id], gates'[id], audit'[id])
     /\ \A id \in DirectiveIds : DeletionTrue(directives[id], directives'[id], audit'[id])
     /\ \A id \in ConfirmationIds :
          DeletionTrue(confirmations[id], confirmations'[id], audit'[id])]_vars

\* The unique index on approval rows never refuses a transition that wins its
\* version check: no stage of a directive is signed twice, not even when it was
\* tried by two requests at once.
EvidenceNeverBlocks ==
  \A r \in Requests :
    req[r].op = "TransitionDirective" /\ Current(directives, req[r].id, req[r].exp) =>
      EvidenceInsertable(Evidence(req[r]))

\* One row's change against its status graph.
Follows(graph, old, new) ==
  \/ old.status = "absent"
  \/ new.status = old.status
  \/ CanTransition(graph, old.status, new.status)

\* Whoever moves an entity - its own service, the start or abort of a
\* directive, the outcome of a receipt - and however stale what it has read,
\* the entity moves along an edge of its status graph.
StatusesFollowGraphs ==
  [][/\ \A id \in ReservoirIds :
          Follows(ReservoirTransitions, reservoirs[id], reservoirs'[id])
     /\ \A id \in GateIds : Follows(GateUnitTransitions, gates[id], gates'[id])
     /\ \A id \in DirectiveIds :
          Follows(OperationDirectiveTransitions, directives[id], directives'[id])
     /\ \A id \in ConfirmationIds :
          Follows(ExecutionConfirmationTransitions, confirmations[id], confirmations'[id])
    ]_vars

-----------------------------------------------------------------------------
(* The two-person workflow. *)

\* Actor a signed stage of directive d in one of the roles allowed to.
Signed(d, stage, a, allowed) ==
  \E p \in approvals :
    p.directive = d /\ p.stage = stage /\ p.actor = a /\ p.role \in allowed

\* From approval on, a directive names two different accounts, and the
\* append-only approval rows prove both signatures, each given in a role that
\* may give it; before, no one has signed ahead of the directive's state.
TwoPersonRule ==
  \A d \in DirectiveIds :
    LET row == directives[d]
    IN  /\ row.status \in {"approved", "executing", "completed"} =>
             /\ row.approvedBy # None
             /\ row.approvedBy # row.submittedBy
             /\ Signed(d, "approved", row.approvedBy, {"reviewer", "admin"})
        /\ row.status \in {"pending", "approved", "executing", "completed", "aborted"} =>
             Signed(d, "submitted", row.submittedBy, Writers)
        /\ row.status \in {"absent", "draft"} =>
             \A p \in approvals : p.directive # d

\* What was submitted is what gets approved and executed: once a directive has
\* left draft its gate, target and facility stay, whatever update had read it
\* while it was a draft.
SubmittedPlanFrozen ==
  [][\A d \in DirectiveIds :
       directives[d].status \notin {"absent", "draft"} =>
         /\ directives'[d].gate = directives[d].gate
         /\ directives'[d].gateState = directives[d].gateState
         /\ directives'[d].facility = directives[d].facility
         /\ directives'[d].submittedBy = directives[d].submittedBy]_vars

-----------------------------------------------------------------------------
(* Receipts and outcomes. *)

\* A receipt's status and its directive's status are two rows that tell the
\* same story: completed exactly by its confirmed receipt, aborted if the
\* receipt failed; a receipt exists only for a directive that was started, and
\* at most one per directive, even if two were created at the same time.
ReceiptOutcome ==
  /\ \A c \in ConfirmationIds :
       LET row == confirmations[c]
       IN  row.status # "absent" =>
             /\ row.directive \in DirectiveIds
             /\ directives[row.directive].status \in
                  CASE row.status = "pending" -> {"executing", "aborted"}
                    [] row.status = "confirmed" -> {"completed"}
                    [] OTHER -> {"aborted"}
  /\ \A d \in DirectiveIds :
       directives[d].status = "completed" =>
         \E c \in ConfirmationIds :
           confirmations[c].directive = d /\ confirmations[c].status = "confirmed"
  /\ \A c1, c2 \in ConfirmationIds :
       confirmations[c1].directive = confirmations[c2].directive =>
         c1 = c2 \/ confirmations[c1].status = "absent"

-----------------------------------------------------------------------------
(* The workflow as its users understand it. *)

W == INSTANCE DirectiveWorkflow WITH
       phase <- [d \in DirectiveIds |-> directives[d].status],
       plan <- [d \in DirectiveIds |-> [gate |-> directives[d].gate,
                                        gateState |-> directives[d].gateState]],
       signers <- [d \in DirectiveIds |-> [submittedBy |-> directives[d].submittedBy,
                                           approvedBy |-> directives[d].approvedBy]],
       gate <- [g \in GateIds |-> gates[g].status],
       receipt <- [c \in ConfirmationIds |-> [status |-> confirmations[c].status,
                                              directive |-> confirmations[c].directive]]

\* Concurrent requests over the three tables behave as if every step of the workflow
\* were taken by one actor alone: whatever a request has checked some time ago of the
\* rows it writes still holds when it writes them.  (A gate that is not written, for it
\* stood at its target, may have moved: GateAnswers of DirectiveWorkflow says so.)
ImplementsWorkflow == W!WSpec

-----------------------------------------------------------------------------
(* The gate under a directive. *)

\* Directive d takes this step.
Steps(d, from, to) == directives[d].status = from /\ directives'[d].status = to

GateOf(d) == gates[directives[d].gate].status

\* The outcome reaches the gate: a completed directive leaves its gate at the
\* target, an execution that fails or is aborted leaves it locked.
OutcomeReachesGate ==
  [][\A d \in DirectiveIds :
       /\ Steps(d, "executing", "completed") => GateOf(d)' = directives[d].gateState
       /\ Steps(d, "executing", "aborted") => GateOf(d)' = "locked"]_vars

\* A directive does not start on a gate that is locked when it starts.
StartsUnlocked ==
  [][\A d \in DirectiveIds :
       Steps(d, "approved", "executing") => GateOf(d) # "locked"]_vars

\* Only drafts are deleted.
OnlyDraftsDeleted ==
  [][\A d \in DirectiveIds :
       directives[d].live /\ ~directives'[d].live => directives[d].status = "draft"]_vars

\* A request that ends in this step has read directive d as it is and its gate in this
\* status, and the gate has been written or deleted since.
GateReadEarlier(d, status) ==
  \E r \in Requests :
    LET q == req[r]
        g == directives[d].gate
    IN  /\ q.op \in {"TransitionDirective", "TransitionConfirmation"} /\ req'[r] = Idle
        /\ q.dir = directives[d] /\ q.gate.status = status
        /\ q.gate.version < gates[g].version \/ ~gates[g].live

\* What a step of directive d does to the three promises above.
PromiseKept(d) ==
  LET row == directives[d]
  IN  /\ Steps(d, "executing", "completed") =>
           GateOf(d)' = row.gateState \/ GateReadEarlier(d, row.gateState)
      /\ Steps(d, "executing", "aborted") =>
           GateOf(d)' = "locked" \/ GateReadEarlier(d, "locked")
      /\ Steps(d, "approved", "executing") =>
           \/ GateOf(d) # "locked"
           \/ GateReadEarlier(d, row.gateState) \/ GateReadEarlier(d, "moving")
      /\ row.live /\ ~directives'[d].live =>
           row.status = "draft" \/ ReadEarlier(d, row, "draft")

\* The promises fail in these races and in no other way: an outcome, abort or start
\* that found its gate where it wants it (a start also: moving already) and writes no
\* gate, while somebody moves or deletes the gate; and a deletion that found a draft,
\* while somebody submits it.
OnlyRacesBreakPromises == [][\A d \in DirectiveIds : PromiseKept(d)]_vars

\* A directive in an active stage can be aborted: nothing but the caller's role
\* stands against it.
AbortAvailable ==
  \A d \in DirectiveIds :
    directives[d].live /\ directives[d].status \in {"pending", "approved", "executing"} =>
      GateAdmits(directives[d], "aborted")
=============================================================================
