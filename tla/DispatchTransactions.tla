------------------------ MODULE DispatchTransactions ------------------------
(***************************************************************************)
(* The transactions of DispatchControl statement by statement, as they run *)
(* in PostgreSQL at READ COMMITTED (backend/internal/repository/base.go,   *)
(* withinTransaction).  In DispatchControl a commit is one step; here a    *)
(* transaction writes one row after the other, keeps every row it wrote    *)
(* locked until its end, and waits where another transaction got first.    *)
(* The audit entry of a row, and the approval of a directive, are inserted *)
(* right after the row and take no lock anybody waits for: they belong to  *)
(* the row's statement.                                                    *)
(*                                                                         *)
(* A statement looks at committed rows: it fails at once if the row is not *)
(* what the WHERE clause asks for, or if the unique key is taken; it waits *)
(* if it is, but another transaction has written the row meanwhile.        *)
(***************************************************************************)
EXTENDS DispatchControl, Sequences

VARIABLES
  todo,     \* the rows that each request's transaction still has to write
  made      \* and those it has written, in the order of its statements

tvars == <<vars, todo, made>>

-----------------------------------------------------------------------------
\* A row that a transaction writes, and the audit entry that goes with it.
Insertion(id, row) ==
  [kind |-> "insert", id |-> id, exp |-> 0, row |-> row,
   before |-> None, after |-> row.status]
Update(id, exp, old, row) ==
  [kind |-> "update", id |-> id, exp |-> exp, row |-> [row EXCEPT !.version = exp + 1],
   before |-> old.status, after |-> row.status]
Deletion(id, old) ==
  [kind |-> "delete", id |-> id, exp |-> 0, row |-> old,
   before |-> old.status, after |-> "deleted"]

NewReservoir(q) ==
  [live |-> TRUE, version |-> 1, status |-> ReservoirInitialStatus,
   facility |-> q.plan.facility]
NewGate(q) ==
  [live |-> TRUE, version |-> 1, status |-> GateUnitInitialStatus,
   facility |-> q.plan.facility, reservoir |-> q.plan.link]
NewDirective(q) ==
  [live |-> TRUE, version |-> 1, status |-> OperationDirectiveInitialStatus,
   facility |-> q.plan.facility, gate |-> q.plan.link,
   gateState |-> q.plan.gateState, submittedBy |-> None, approvedBy |-> None]
NewConfirmation(q) ==
  [live |-> TRUE, version |-> 1, status |-> ExecutionConfirmationInitialStatus,
   facility |-> q.plan.facility, directive |-> q.plan.link]

\* The gate is written last, and only if it is not where it should be.
GateWrite(q, target) ==
  IF MovesGate(q.gate, target)
  THEN <<Update(q.dir.gate, q.gate.version, q.gate, [q.gate EXCEPT !.status = target])>>
  ELSE <<>>

\* Mutant of OutcomeWrites: the gate is settled first.
GateFirst(q) ==
  GateWrite(q, GateOutcome(q.dir, q.to))
  \o <<Update(q.conf.directive, q.dir.version, q.dir,
              [q.dir EXCEPT !.status = DirectiveOutcome(q.to)]),
       Update(q.id, q.exp, q.conf, [q.conf EXCEPT !.status = q.to])>>

\* Mutant of OutcomeWrites: the directive is not written back.
ReceiptOnly(q) ==
  <<Update(q.id, q.exp, q.conf, [q.conf EXCEPT !.status = q.to])>>
  \o GateWrite(q, GateOutcome(q.dir, q.to))

OutcomeWrites(q) ==
  <<Update(q.id, q.exp, q.conf, [q.conf EXCEPT !.status = q.to]),
    Update(q.conf.directive, q.dir.version, q.dir,
           [q.dir EXCEPT !.status = DirectiveOutcome(q.to)])>>
  \o GateWrite(q, GateOutcome(q.dir, q.to))

\* The rows a request writes, in the order of its statements.
Writes(q) ==
  CASE q.op = "CreateReservoir" -> <<Insertion(q.id, NewReservoir(q))>>
    [] q.op = "CreateGate" -> <<Insertion(q.id, NewGate(q))>>
    [] q.op = "CreateDirective" -> <<Insertion(q.id, NewDirective(q))>>
    [] q.op = "CreateConfirmation" -> <<Insertion(q.id, NewConfirmation(q))>>
    [] q.op = "UpdateReservoir" ->
         <<Update(q.id, q.exp, q.res, [q.res EXCEPT !.facility = q.plan.facility])>>
    [] q.op = "UpdateGate" ->
         <<Update(q.id, q.exp, q.gate, [q.gate EXCEPT !.facility = q.plan.facility])>>
    [] q.op = "UpdateDirective" ->
         <<Update(q.id, q.exp, q.dir,
                  [q.dir EXCEPT !.facility = q.plan.facility, !.gate = q.plan.link,
                                !.gateState = q.plan.gateState])>>
    [] q.op = "UpdateConfirmation" ->
         <<Update(q.id, q.exp, q.conf, [q.conf EXCEPT !.facility = q.plan.facility])>>
    [] q.op = "TransitionReservoir" ->
         <<Update(q.id, q.exp, q.res, [q.res EXCEPT !.status = q.to])>>
    [] q.op = "TransitionGate" ->
         <<Update(q.id, q.exp, q.gate, [q.gate EXCEPT !.status = q.to])>>
    [] q.op = "TransitionDirective" ->
         <<Update(q.id, q.exp, q.dir, Transitioned(q))>>
         \o GateWrite(q, GateTarget(q.dir, q.gate, q.to))
    [] q.op = "TransitionConfirmation" /\ q.conf.status = "pending" -> OutcomeWrites(q)
    [] q.op = "TransitionConfirmation" /\ q.conf.status # "pending" ->
         <<Update(q.id, q.exp, q.conf, [q.conf EXCEPT !.status = q.to])>>
    [] q.op = "DeleteReservoir" -> <<Deletion(q.id, q.res)>>
    [] q.op = "DeleteGate" -> <<Deletion(q.id, q.gate)>>
    [] q.op = "DeleteDirective" -> <<Deletion(q.id, q.dir)>>
    [] q.op = "DeleteConfirmation" -> <<Deletion(q.id, q.conf)>>

-----------------------------------------------------------------------------
(* Locks. *)

Row(id) ==
  CASE id \in ReservoirIds -> reservoirs[id]
    [] id \in GateIds -> gates[id]
    [] id \in DirectiveIds -> directives[id]
    [] id \in ConfirmationIds -> confirmations[id]

\* The statement succeeds on the committed rows.
Holds(w, q) ==
  CASE w.kind = "insert" ->
         /\ Row(w.id).status = "absent"
         /\ w.id \in ConfirmationIds => LinkUnused(w.row.directive)
    [] w.kind = "update" ->
         /\ Row(w.id).live /\ Row(w.id).version = w.exp
         /\ q.op = "TransitionDirective" /\ w.id = q.id => EvidenceInsertable(Evidence(q))
    [] w.kind = "delete" -> Row(w.id).live

\* What the statement locks: its row, and the unique keys it inserts.
Locks(w) ==
  {<<"row", w.id>>} \cup
    (IF w.kind = "insert" /\ w.id \in ConfirmationIds
     THEN {<<"receipt of", w.row.directive>>} ELSE {})

LocksHeldBy(r) == UNION {Locks(made[r][i]) : i \in DOMAIN made[r]}

\* The request has read and checked, and its transaction has not ended yet.
InTransaction(r) == req[r].op # "idle"

\* Mutant of WaitsFor: rows are not locked.
NeverWaits(r, other) == FALSE

WaitsFor(r, other) ==
  /\ r # other
  /\ todo[r] # <<>> /\ made[other] # <<>>
  /\ Holds(Head(todo[r]), req[r])
  /\ Locks(Head(todo[r])) \cap LocksHeldBy(other) # {}

-----------------------------------------------------------------------------
(* Steps. *)

TInit ==
  /\ Init
  /\ todo = [r \in Requests |-> <<>>]
  /\ made = [r \in Requests |-> <<>>]

\* Mutant of End: the transaction is given up but never rolled back.
LeftOpen(r) == todo' = [todo EXCEPT ![r] = <<>>] /\ made' = made

\* The transaction of r is over, with the locks it held.
End(r) == todo' = [todo EXCEPT ![r] = <<>>] /\ made' = [made EXCEPT ![r] = <<>>]

\* The service reads, checks and prepares its rows before its transaction starts.
Read(r) ==
  /\ ~InTransaction(r)
  /\ ReservoirNext(r) \/ GateNext(r) \/ DirectiveNext(r) \/ ConfirmationNext(r)
  /\ todo' = [todo EXCEPT ![r] = Writes(req'[r])]
  /\ UNCHANGED made

\* The next statement of the transaction succeeds.
Execute(r) ==
  /\ todo[r] # <<>>
  /\ Holds(Head(todo[r]), req[r])
  /\ \A other \in Requests : ~WaitsFor(r, other)
  /\ todo' = [todo EXCEPT ![r] = Tail(@)]
  /\ made' = [made EXCEPT ![r] = Append(@, Head(todo[r]))]
  /\ UNCHANGED vars

\* No row matches or a key is taken: the transaction is rolled back.
Conflict(r) ==
  /\ todo[r] # <<>>
  /\ ~Holds(Head(todo[r]), req[r])
  /\ Abandon(r) /\ End(r)

\* The client goes away or a statement fails otherwise: rolled back as well.
Cancelled(r) == Abandon(r) /\ End(r)

\* The table with the rows written by ws.
Applied(table, ws) ==
  [id \in DOMAIN table |->
     IF \A i \in DOMAIN ws : ws[i].id # id THEN table[id]
     ELSE LET w == ws[CHOOSE i \in DOMAIN ws : ws[i].id = id]
          IN  IF w.kind = "delete" THEN [table[id] EXCEPT !.live = FALSE] ELSE w.row]

AuditApplied(ws) ==
  [id \in EntityIds |->
     IF \A i \in DOMAIN ws : ws[i].id # id THEN audit[id]
     ELSE LET w == ws[CHOOSE i \in DOMAIN ws : ws[i].id = id]
          IN  [n |-> audit[id].n + 1, before |-> w.before, after |-> w.after]]

\* Everything the transaction wrote becomes visible, and its locks are free.
Commit(r) ==
  LET q == req[r]
  IN  /\ InTransaction(r) /\ todo[r] = <<>>
      /\ reservoirs' = Applied(reservoirs, made[r])
      /\ gates' = Applied(gates, made[r])
      /\ directives' = Applied(directives, made[r])
      /\ confirmations' = Applied(confirmations, made[r])
      /\ approvals' =
           approvals \cup (IF q.op = "TransitionDirective" THEN Evidence(q) ELSE {})
      /\ audit' = AuditApplied(made[r])
      /\ Finish(r) /\ End(r)

\* The process stops; the database rolls its open transactions back.
Stop ==
  /\ Crash
  /\ todo' = [r \in Requests |-> <<>>] /\ made' = [r \in Requests |-> <<>>]

\* The transaction goes on, unless it has to wait.
Proceed(r) == Execute(r) \/ Conflict(r) \/ Commit(r)

TNext ==
  \/ \E r \in Requests : Read(r) \/ Proceed(r) \/ Cancelled(r)
  \/ Stop

\* The goroutine of a request runs on, and the database serves the waiters of a
\* row in their order: who can proceed again and again does (strong fairness; a
\* waiting request is let in between the locks of others).  Nothing makes clients
\* send requests or go away, or the process stop.
TFairness == \A r \in Requests : SF_tvars(Proceed(r))

TSpec == TInit /\ [][TNext]_tvars /\ TFairness

-----------------------------------------------------------------------------
ServiceCommit(r) ==
  \/ CommitCreateReservoir(r) \/ CommitUpdateReservoir(r)
  \/ CommitTransitionReservoir(r) \/ CommitDeleteReservoir(r)
  \/ CommitCreateGate(r) \/ CommitUpdateGate(r)
  \/ CommitTransitionGate(r) \/ CommitDeleteGate(r)
  \/ CommitCreateDirective(r) \/ CommitUpdateDirective(r)
  \/ CommitTransitionDirective(r) \/ CommitDeleteDirective(r)
  \/ CommitCreateConfirmation(r) \/ CommitUpdateConfirmation(r)
  \/ CommitOutcome(r) \/ CommitCancel(r) \/ CommitDeleteConfirmation(r)

\* Transactions are atomic although they are sequences of statements: whatever
\* the interleaving, the rows change as if one request had checked and written
\* all of its rows in one step of DispatchControl.  (Every other step is a step
\* of DispatchControl by its form, or moves only todo and made.)
ImplementsCommits ==
  [][\/ UNCHANGED <<reservoirs, gates, directives, confirmations, approvals, audit>>
     \/ \E r \in Requests : ServiceCommit(r)]_vars

\* What a transaction found when it wrote a row is so until it commits, although
\* nothing but the row's lock protects it: a statement that went through would
\* go through again.
WrittenRowsStay ==
  \A r \in Requests : \A i \in DOMAIN made[r] : Holds(made[r][i], req[r])

\* No deadlock in the database: a receipt's outcome writes receipt, directive
\* and gate, a start or abort directive and gate, and no group of transactions
\* waits for each other's rows in a circle.
NeverWaitInCircles ==
  \A S \in (SUBSET Requests) \ {{}} :
    \E r \in S : \A other \in S : ~WaitsFor(r, other)

\* Whatever others do to its rows, a request comes to an end: it commits, or it
\* is told of the conflict.
EveryRequestEnds == \A r \in Requests : InTransaction(r) ~> ~InTransaction(r)
=============================================================================
