# Verification of the hydropower gate dispatch backend

This directory holds TLA+ specifications of the dispatch backend in `src/`
(Go, Gin, GORM over PostgreSQL, with a Vue frontend), the TLC configurations
that check them on small instances, and TLAPS proofs of theorems about them.

## 1. The system

Operators keep a chain of four kinds of record, each an aggregate with its own
table, version and status graph:

    reservoir  <-  gate  <-  operation directive  <-  execution confirmation

A *directive* asks for a gate to be brought to a target state. It is drafted,
submitted by one person, approved by another, started (its gate begins to
move) and ends by a *confirmation* (called receipt below): confirmed, it completes the directive
and settles the gate, failed, it aborts the directive and locks the gate.
An active directive may also be aborted directly.

### Components

Paths are relative to `src/backend/internal` unless they say otherwise.

| Component | State | Operations | What makes it correct |
|---|---|---|---|
| Status graphs and roles: `constants/status.go`, `model/security.go`, the `Register` methods of `handler/` | none | `CanTransition`, `directiveRoleAllowed`, `RequireRoles` | every change of a status follows its graph, whoever makes it |
| Repository: `repository/base.go` and one file per aggregate | the database | `Get`, `GetByCode`, `Create`, `Update` (version check), `Delete` (soft), `TransitionWithAudit`, `TransitionWithApproval`, `CountByDirectiveCode`, transactions | no lost update; rows, approvals and audit change together |
| Reservoir service: `service/reservoir.go` | rows of reservoirs | create, update, transition, delete | locking, audit |
| Gate service: `service/gate_unit.go` | rows of gates | the same, with a facility check | locking, audit, one status column written by three services |
| Directive service: `service/operation_directive.go` | rows of directives, approvals | create, update, transition (with gate), delete | two-person rule, submitted plans do not change, starts only on usable gates |
| Confirmation service: `service/execution_confirmation.go` | rows of receipts | create, update, outcome, cancel, delete | one receipt per directive; receipt, directive and gate tell the same story |
| Audit: `service/security.go`, `repository/security.go` | audit log | append; list, summarise, history | one entry per change, true of the row as the transaction finds it; never rewritten |
| Authentication: `middleware/auth.go`, login in `service/security.go` | users, tokens | login, verify the token and reload the account per request | a role taken away no longer works |
| Rate limiter: `middleware/ratelimit.go` | Redis counters, a local map | count a request per minute and key | at most the limit per window and counter; refuses only when more than the limit were counted |
| Startup and seed: `database/database.go`, `src/backend/cmd/server/main.go` | users and sample rows | connect with retries, migrate, seed, ping Redis; graceful shutdown; restart by the container | what serves is complete; a restart repeats nothing and comes back |
| Wiring, configuration, request ids, error mapping, overview, health | none | read-only or pure | out of scope, see section 7 |
| Frontend session: `hooks/useAuth.ts`, `api/client.ts` in `src/frontend/src` | session in memory and in local storage | bootstrap, login, logout, 401 | a token without an account behind it does nothing |
| Frontend store and page: `stores/factory.ts`, `components/EntityPage.vue`, `hooks/usePolling.ts` | list, error and dialog of a page | poll, confirm a transition, create | applies only what was shown, tells failure from success, ends up fresh while in sight |

### How they interact, and what is hard

Every HTTP request is a goroutine. Its handler calls one service method. The
method reads the rows it needs **outside** any transaction, validates the
request against them in memory, computes the new rows, and then opens one
transaction that writes them with their audit entries. Services share nothing
but the database, and a service writes the tables of others: a directive
moves its gate, a receipt moves its directive and that directive's gate.

Between a request's reads and its transaction anything may commit. The code's
answer is optimistic locking (`UPDATE ... WHERE id = ? AND version = ?` on live
rows), backed by unique indexes on codes, on a receipt's directive and on the
stage of an approval. The questions worth asking are therefore: which decisions are covered by a version check
or an index, and which are made on rows that nothing protects until the
commit? And below that: are transactions of several statements, which see the commits of others
between them, really atomic, and can they wait for each other in a circle?

Around the services, three more races. The *process* may be killed between any two statements of
its start, and is restarted by its container whatever state the database is in. The *limiter* counts in
Redis and falls back to its own memory when a reply is lost, while the minute turns. The *browser* polls, confirms and
logs in asynchronously: answers overtake each other, another tab shares the token, and
the account behind the token may be revoked with requests under way. `PROJECT.json` lists the hazards, each at its line and with the
properties that would catch it.

## 2. Modules

| Module | Models |
|---|---|
| `Statuses` | status graphs as sets of edges, initial statuses, the role sets of the routes, `directiveRoleAllowed` |
| `DispatchState` | the tables, the requests in flight, the repository's primitives (`Live`, `Current`, `Write`, `Insert`, `SoftDelete`, `Logged`), constants and their assumptions |
| `ReservoirService`, `GateUnitService`, `OperationDirectiveService`, `ExecutionConfirmationService` | one `Begin...` and one `Commit...` action per operation of the service |
| `DispatchControl` | the composition: `Init` (a seeded database), `Next`, lost requests, a stop of the process; all properties |
| `DirectiveWorkflow` | the abstract specification: the workflow as atomic steps of one actor |
| `DispatchTransactions` | the same backend with every transaction as a sequence of statements that lock rows and wait (PostgreSQL, READ COMMITTED) |
| `MCDispatch`, `MCTransactions` | constants and symmetry for TLC |
| `Startup` | the life of the process: connect, migrate, count, insert, ping, serve, drain; kills, outages, the startup deadline, restarts |
| `RateLimiter` | the counters in Redis, the local map, the calls being counted |
| `ServerProcess` | `Startup` and `RateLimiter` composed: the limiter serves while the process does and forgets with it; properties |
| `ClientSession` | the session of a browser tab, in its memory and in local storage |
| `EntityStore` | a page with its list, dialog, error and the calls under way (extends `ClientSession`) |
| `Workspace` | the tab composed with the server that authenticates its requests, other users and accounts; properties |
| `DispatchTypeProofs` | proofs of type correctness |
| `DispatchLockingProofs` | proofs of the optimistic locking |
| `DispatchStepProofs` | proofs that every step is atomic as the database sees it, and of the action properties |
| `DispatchWorkflowProofs` | proofs of the two-person rule, the evidence, the receipts, and of what races break |
| `DispatchRefinementProofs` | proof that `DispatchControl` implements `DirectiveWorkflow` |
| `TransactionProofs` | proofs about the statements and locks of `DispatchTransactions`, and that it implements `DispatchControl` |
| `ServerProofs` | proofs about the startup and the limiter |
| `WorkspaceProofs` | proofs about the browser against the server |

### From code to actions

* **A table** is a function from ids to rows. An id stands for the primary key
  *and* for the code: codes are unique over live and deleted rows, and no update writes
  them (`Omit("id", "code", ...)`). A row that was never inserted has status `"absent"`;
  a deleted row keeps its columns with `live = FALSE`.
* **A request** in flight is an entry of `req`: operation, caller, target
  status, expected version, the references of the body (`plan`) and the rows as
  it read them (`res`, `gate`, `dir`, `conf`).
* **`Begin...`** is the part of a service method up to the transaction: the
  middleware's role check, all reads, all validations with their early returns.
  A request that fails one leaves the state as it was, so it is no step.
* **`Commit...`** is the transaction: version checks, unique indexes, rows,
  approvals, audit entries. A version check that fails disables it; the request
  then ends by `Abandon`.
* **`Abandon`** is every way to end without a commit: a lost version race, a
  violated index, a failed statement, a client that has gone. The transaction
  rolls back as a whole (`withinTransaction`).
* **`Crash`** stops the process: all requests vanish, the database stays.

Two merges need an argument.

*Reads in one step.* A method reads up to three rows with separate queries, and
`Begin...` reads them at one instant. A row that is later written is protected by its
version: if the request commits, the row has not changed from its read to the commit, so
it had the same value at every instant between. A row that is only checked (the
reservoir of a gate, the gate of a draft, a gate that already stands at its
target, the directive of a new receipt) is never looked at again, and the model lets
it change right after `Begin...`; an execution where it was read first and another row
later commits like one where both were read at the later instant, or like
one where the former changes directly after `Begin...`.

*The transaction in one step.* In PostgreSQL at READ COMMITTED an `UPDATE` takes the row's lock
until commit, and re-evaluates `version = ?` on the newest committed row after waiting. A
transaction that commits thus holds all the rows it has checked, and inserts
are arbitrated by the unique indexes in the same way. `DispatchTransactions` checks this argument:
there a request writes its rows one after the other (`todo`, `made`), a statement fails on committed rows
(`Holds`), waits for the rows and keys others have written (`WaitsFor`), and everything becomes visible at `Commit`. `ImplementsCommits` says that
whatever the interleaving, the tables change by one of the atomic commit actions.

### The process and the limiter

`Startup` follows `database.Open`. `phase` is where the process is, `next` the table it is about to migrate,
count or seed, and `table` what the database holds: a table is `"missing"`, `"empty"`, `"filled"`, or `"hidden"` when all its rows are
soft-deleted, so that a count shows none while their codes are taken. Every statement is one step, and any of them may be the last: by an error
(`Fail`, after which `main` exits), by a signal before the handler is installed (`Terminate`), or by a kill. An
exited process is started again (`restart: unless-stopped`), a halted one by its operator. `cut` is a history variable:
some start ended between the directives and their approvals.

The loop of `Open` has a quirk the model keeps: if the first ping fails and the second, made for its error message, succeeds, no error is
left, but the loop goes on (`Flicker`). It does no harm: the last round leaves the loop with a database that answered.

`RateLimiter` splits a call where its minute may change: `Arrive` reads the minute that names the Redis key; `Counted` is the transaction with its reply, `Unheard` the transaction
whose reply is lost, and `CountedLocally` what follows a failure, under the mutex and with the minute it is *by then*. `tally` is history: what was
decided for a key and a minute. In `ServerProcess` a step after which no process is left empties the local map and drops its calls.

### The browser

A record is its version and a session its account. `EntityStore` follows the promises of a page: a
call is sent, answered and settled, in any order among calls; a transition that succeeded goes on as
the load after it. `ClientSession` keeps both copies of the session, and `Workspace` adds the server: `Admit` is `Authenticate` with `RequireRoles`, which looks the account up
*now*, `Apply` is the version check and the update, a step later. `visible` is `document.visibilityState`, which `Turn`
changes and on which the timer of `usePolling` depends. `fate` is history: for each transition under way what its dialog showed, what
became of that dialog (open, abandoned by its user, closed), whether its account was entitled to it and whether it was applied.

Abstractions: names, free text, measurements and timestamps are left out, no
decision depends on them. Facilities and account names are values up to letter case, as
`strings.EqualFold` compares them. The audit log is kept per entity as a
count and the newest entry, which is all the properties about it need, since an entry is only ever appended.
`None` stands for an empty string or a missing reference. The body of a request
has passed the DTO's validation; the gate states a directive may ask for are the constant
`GateTargets`.

Clients send versions they have been shown (`VersionsSent`): the current one, or, with
`VersionLag`, an older one. A client that makes up a version ahead of the row's is outside the model;
the code would let it write over a change that the service has not
seen, if its guess comes true between the read and the commit.

The roles of an account may change at any time and the middleware reloads them for every
request, so `RolesOf` gives each account the set of roles it may hold at the time of
some request.

## 3. Properties

| Property | Says |
|---|---|
| `TypeOK` | the shape of every table and request |
| `NoStaleWrite` | a request whose version checks would all pass holds the very rows it is about to overwrite: no lost update |
| `RequestsSound` | `TypeOK`, `RequestsValid` and `RequestsFaithful`: the inductive form of the above |
| `EveryChangeAudited` | a row's change and exactly one audit entry for it come in the same step; the entry names the row's statuses, and that of a deletion may name an earlier one only if the row was written after it was read |
| `EvidenceNeverBlocks` | the unique index on approvals never refuses a transition that wins its version check |
| `StatusesFollowGraphs` | whoever moves an entity, it moves along an edge of its graph |
| `TwoPersonRule` | an approved directive names two accounts, both signed, each in a role that may |
| `SubmittedPlanFrozen` | gate, target, facility and submitter of a directive stay once it was submitted |
| `ReceiptOutcome` | the statuses of receipts and directives fit, one receipt per directive |
| `ImplementsWorkflow` | the concurrent services implement the atomic `DirectiveWorkflow` |
| `ImplementsCommits` | transactions are atomic although they are sequences of statements: every change of the tables is one of `DispatchControl`'s commits |
| `WrittenRowsStay` | what a transaction found when it wrote a row is still so until it ends |
| `NeverWaitInCircles` | no group of transactions waits for each other's rows: outcome, start and abort take rows in one order |
| `EveryRequestEnds` | every request commits or is refused (liveness) |
| `ServesSeeded` | whatever ended the starts before, a server that takes requests has all tables migrated and seeded |
| `UnsignedOnlyAfterCut` | seeded directives without approvals are served only after a start ended exactly between the two inserts |
| `ComesBackUnlessHidden` | after kills, outages and missed deadlines the server comes back, unless a table has lost its last row (liveness) |
| `AdmittedWithinLimit` | per key and minute, at most the limit is admitted by Redis's count and at most the limit by a process's own |
| `RefusedOnlyOverLimit` | a client is refused in a minute only if more calls than the limit were counted in it, each once, although Redis and memory may both count a call; among them are calls of the minute before that memory counts late |
| `TrackedKeysBounded` | the local map exceeds its threshold only with keys of one minute |
| `AppliedAsShown` | a transition is applied only to the record as its dialog showed it, whatever was polled or pressed meanwhile |
| `ClosedMeansApplied` | a dialog closes by itself only when a transition was applied that was confirmed in it, or in a dialog its user has abandoned since |
| `RevokedTokensPowerless` | a transition is applied only if its account was entitled to it at some time after it was sent (README.md:26) |
| `EventuallyFresh` | a tab that stays in sight with a valid session shows the record as it is in the end, although answers overtake each other (liveness) |
| `ServerTypeOK`, `WorkspaceTypeOK` | shapes of the states of the two compositions |
| `OutcomeReachesGate`, `StartsUnlocked`, `OnlyDraftsDeleted`, `DeletionsAuditedTruly`, `AbortAvailable` | what the documents say of the gate, of deletion and of the audit log; broken, see section 5 |
| `OnlyRacesBreakPromises` | the first three of these are broken only for a row that a request has checked and does not write under its version, and that somebody wrote or deleted after the request had read it |
| `ComesBack` | what the restart policy is for; broken after a deletion, see section 5 |

`DirectiveWorkflow` states the workflow as if nobody else were there: each step
reads the current state, checks it and changes directive, receipt and gate at once.
The refinement mapping forgets versions, liveness, audit and requests. The abstract
specification says plainly where the code promises less than one would like: a start, abort or outcome may leave the gate
alone (`GateAnswers`), and a receipt may be opened for a directive aborted a moment ago. What a request has checked still holds
of the rows it writes; of a gate it does not write the refinement says nothing.

## 4. Runs that pass

In the runs of the backend (`MCDispatch`, `MCTransactions`) two accounts are enough for the two-person rule: Alice holds the
operator's and the reviewer's role in turn, Bob is an admin, so every pair of role and
identity that the rules tell apart occurs. (`contention` has the accounts of the seed, an operator and a reviewer.)

| Run | Instance | Shows |
|---|---|---|
| `workflow` | one gate, directive, receipt; two requests; client versions up to one behind; targets open, closed, locked; gate seeded open, closed or moving | the whole life of a directive under concurrency, all core properties |
| `contention` | `DispatchTransactions`: two directives on one gate, one of them executing as the seed leaves it, and two receipts that are created for either; two requests, statement by statement | two creators that have both counted no receipt: the unique index lets one through; transactions are atomic, do not deadlock, and end |
| `lifecycle` | one gate, directive, receipt; two requests; gates are also moved by hand, and gates, directives and receipts are deleted | the rules survive records that vanish; three services keep one gate to its graph; the promises of section 5 fail only by the races described there |
| `registry` | reservoirs, gates and drafts of two facilities; nothing is seeded, so reservoirs and gates are created first | locking and audit of the registry |
| `process` | `ServerProcess`: two faults of any kind, two attempts to connect, receipts deletable; two keys, two calls, limit 1, three minutes | startup and limiter, through kills and restarts |
| `workspace` | `Workspace`: one account, two calls under way, two versions; one lost answer, one write of another tab, one change of an account | the browser against the server; the tab ends up fresh |

Bounds. `MaxVersion` bounds the version of each row: `Begin...` does not start what would write a
row beyond it (`VersionsSent`, `Room`). Nothing else of the backend is bounded. A directive needs five
writes for its longest life (submit, approve, start, outcome, and one update before), a
gate three per directive that uses it, a receipt three, and the bounds of the runs
admit these. Two requests suffice for a race between two of them; three-way races
are covered by the theorems, which bound neither requests nor entities. A circle of waiting needs two transactions that
lock two rows in opposite order, which two requests over one directive, its gate and its receipt would produce (the mutant that settles the gate first does).
Requests are symmetric. `contention` runs the operations that write several rows or meet in a unique key; that the statements of all others
add up to their commits as well is `TransactionsAreAtomic`.

`MaxFaults` bounds kills, outages and missed deadlines together: two allow an outage during the restart after a kill, and a kill in two starts in
a row. `MaxAttempts = 2` has a first, and a last attempt. With `Limit = 1` the second call of a minute is the first to be refused; `CleanAt = 1` lets two keys exceed the map's
threshold; `LastWindow = 2` gives a counter the minutes to be used, used late, and to expire. `MaxCalls` and `MaxFaults` are spent by the
run as a whole. In the workspace a record moved once (`LastVersion = 2`) by anyone already makes every earlier answer stale, and two calls can
overtake each other; one account logs in, is degraded and deactivated, and the safety of several accounts is covered by the theorems, while `EventuallyFresh` is checked for one; `MaxLost`, `MaxElsewhere` and `MaxChanges` are one each: the properties compare one call with one disturbance of each kind.

`CHECK_DEADLOCK FALSE`: the program is a server and really may have nothing to do; an instance whose
records have all ended, or have reached their bound, stops.

### Fairness

The properties of the services are safety: nothing obliges a client to send the next request, so the code
promises no progress of a directive. Three specifications assume fairness, each of what runs by itself:

* `TSpec`: strong fairness of `Proceed(r)` for each request. A goroutine runs on; a statement that
  waits for a row is served in its turn by PostgreSQL's lock queue, so a request that can proceed again and again does. Clients, `Cancelled` and `Stop` are under no fairness.
* `ServerProcess!Spec`: weak fairness of the steps of a start, of the restart of an exited container, of `Shutdown` (it has a deadline), and of the
  return of the database and of Redis (their containers have the same restart policy). Nothing else: `Start`, `Terminate` and all faults may happen or not. That
  faults end is the bound `MaxFaults`; a server that is killed for ever is not promised to come back.
* `Workspace!Spec`: weak fairness of `Proceed(c)`, that requests are answered (or vanish) and answers handled; strong fairness of polling, since the timer of an open page fires for ever and only the model's few
  slots for calls can disable it. This is fairness of `Interval`, which exists only while the tab is `visible`: `usePolling.ts:8` returns without a load in a hidden tab, and
  line 16 clears the timer with the page. Nothing obliges a user to show the tab again, so `EventuallyFresh` speaks of a tab that stays in sight and keeps a valid session.

## 5. Runs that find a violation

Each checks one statement of the documents and finds a counterexample: two racing requests, or, for the last two, legal calls one after the other.

| Run | Statement | What happens |
|---|---|---|
| `delete_race` | README.md:24, :46: drafts are deleted, every change of state is under the optimistic lock | `Delete` checks for a draft, then deletes by id alone; a submission in between is deleted with it |
| `audit_race` | README.md:4, :46: the audit log agrees with the state; every change of state is under the optimistic lock | the deletion is logged with the status read before the transaction; a transition in between leaves an entry that names a status the row no longer had |
| `start_race` | README.md:47: a locked object does not enter the downstream flow | when the gate already stands at the target, or moves already, `Transition` writes no gate row; a lock that commits in between goes unnoticed |
| `outcome_race` | README.md:48: outcome and gate are settled together | the same shortcut in the receipt's outcome: the directive completes while its gate has moved on |
| `lost_gate` | README.md:44: any active stage can be aborted | the gate of an executing directive is deleted; abort and outcome both need the live gate |
| `restart` | docker-compose.yml:43: a container that exits is started again; README.md:139: seeding is for the first start of an empty database | the only receipt is deleted; each later start counts no live receipts, seeds EC-001 again, meets the unique code of the deleted row, and exits |

`OnlyRacesBreakPromises` says exactly how far the first, the third and the fourth row go, and is checked in `lifecycle` and proved: a promise about a directive
fails only if the gate that the request found where it wants it, or the draft it deletes, was written or deleted between the request's reads and its commit. `EveryChangeAudited` says the same of `audit_race`.
So these three statements are not too strong: without somebody else's write in between they hold. `ComesBackUnlessHidden` holds in `process` for every other
fault, so `restart` fails for the deletion alone; its counterexample is a fair behaviour without any fault.

Behaviour the model also has and no run is spent on: a start leaves a gate alone that is at its target already, where the
document speaks of it entering `moving`; a confirmation for a closed target takes a gate that was
locked meanwhile to closed; a directive starts without its facility being compared again.

## 6. Proofs

| Theorem | Module | Says |
|---|---|---|
| `TypeInvariant` | `DispatchTypeProofs` | `Spec => []TypeOK` |
| `RequestsStaySound` | `DispatchLockingProofs` | `Spec => []RequestsSound` |
| `NoLostUpdate` | `DispatchLockingProofs` | `Spec => []NoStaleWrite` |
| `StepInvariant` | `DispatchStepProofs` | `Spec => []Sound`, the invariant the next nine rest on |
| `WritesAreAtomic` | `DispatchStepProofs` | `Spec => [][AtomicStep]_vars` |
| `StatusesKeepToGraphs` | `DispatchStepProofs` | `Spec => StatusesFollowGraphs` |
| `ChangesAreAudited` | `DispatchStepProofs` | `Spec => EveryChangeAudited` |
| `PlanStaysFrozen` | `DispatchStepProofs` | `Spec => SubmittedPlanFrozen` |
| `TwoPeopleSign` | `DispatchWorkflowProofs` | `Spec => []TwoPersonRule` |
| `EvidenceAlwaysInserts` | `DispatchWorkflowProofs` | `Spec => []EvidenceNeverBlocks` |
| `ReceiptsMatchOutcomes` | `DispatchWorkflowProofs` | `Spec => []ReceiptOutcome` |
| `RacesAloneBreakPromises` | `DispatchWorkflowProofs` | `Spec => OnlyRacesBreakPromises` |
| `BackendImplementsWorkflow` | `DispatchRefinementProofs` | `Spec => ImplementsWorkflow` |
| `TransactionsInvariant` | `TransactionProofs` | `TSpec => []TInv`, the invariant the next four rest on |
| `LocksKeepRows` | `TransactionProofs` | `TSpec => []WrittenRowsStay` |
| `NoDeadlock` | `TransactionProofs` | `TSpec => []NeverWaitInCircles` |
| `TransactionsAreAtomic` | `TransactionProofs` | `TSpec => ImplementsCommits` |
| `TransactionsImplementDispatch` | `TransactionProofs` | `TSpec => Spec` |
| `SeededBeforeServing` | `ServerProofs` | `Spec => []ServesSeeded` |
| `UnsignedMeansCut` | `ServerProofs` | `Spec => []UnsignedOnlyAfterCut` |
| `LimitHolds` | `ServerProofs` | `Spec => []AdmittedWithinLimit` |
| `RefusalsJustified` | `ServerProofs` | `Spec => []RefusedOnlyOverLimit` |
| `ServerTypes` | `ServerProofs` | `Spec => []ServerTypeOK` |
| `LocalMapBounded` | `ServerProofs` | `Spec => []TrackedKeysBounded` |
| `WorkspaceTypes` | `WorkspaceProofs` | `Spec => []WorkspaceTypeOK` |
| `OnlyShownApplied` | `WorkspaceProofs` | `Spec => AppliedAsShown` |
| `OnlyAppliedCloses` | `WorkspaceProofs` | `Spec => ClosedMeansApplied` |
| `RevocationHolds` | `WorkspaceProofs` | `Spec => RevokedTokensPowerless` |

The theorems about `DispatchControl` and `DispatchTransactions` hold for every number of entities, requests and accounts, for every assignment of roles and without regard to the
bounds of the runs. They rest on the named assumptions of `DispatchState` only: the ids of the four
kinds are disjoint and none is `None` (`IdsAssumption`, `NoneAssumption`), accounts hold roles that exist (`RolesAssumption`),
directives ask for the gate states the DTO lets through (`TargetsAssumption`), the seed inserts what `database.go` inserts (`SeedAssumption`),
bounds are natural numbers (`BoundsAssumption`), and only operations of the API run (`OperationsAssumption`). TLC evaluates all of them in every run.

**Type correctness.** `TypeOK` is not inductive: what a transaction writes comes from the request, and
a request's type alone admits a commit of a row it never read. The invariant is `Typed`, which is
`TypeOK` together with `RequestsValid`: a request in flight holds the rows its operation needs and has passed
its checks, so that the target status is a vertex of the right graph. There is one lemma per service with one step per action,
and `NextTyped` puts them together.

**Locking.** `RequestsFaithful` says of each row a request holds that the table still has that row, or has it at a
higher version, or has it no longer live. To keep it through a step of somebody else one needs a fact about tables,
`RowsAdvance`: a step leaves a row alone, raises its version, or ends its life, and never revives or rewinds it. The argument has three parts:
`Write`, `Insert` and `SoftDelete` advance rows (`WriteAdvances`, `InsertAdvances`, `DeleteAdvances`, then per table); every action advances all rows and
leaves what its own request holds faithful (`ReservoirFaithful` to `ConfirmationFaithful`); and what is held stays faithful when rows
advance (`HeldKept`, `FaithfulKept`). `NoStaleWrite` follows in `FaithfulSuffices`: the version a request expects is not above
that of the row it holds (`RequestsValid`), which is not above that of the table (`AllFaithful`). A version check that passes forces all three to be
equal, and the row held is then the row stored. Neither half is enough alone: without `RequestsValid` an
expected version might be ahead of the row held (clients send versions they were shown, section 2), without `AllFaithful` a row could have changed under its version.
The deletion by id alone (`Delete`) has no version check and is outside the theorem; `delete_race` shows what it costs.

**Steps.** A commit writes rows that its request computed from what it read some time ago, and most properties compare the new row with the row
*in the table*. `StepsAreAtomic` closes that gap once for all of them: under `Sound` every step is an `AtomicStep`, a description of what the operations do that does not
mention requests and speaks of the rows as they are. `Sound` is the locking invariant (`Typed`, `AllFaithful`) and one thing more. Rows that a request checked and does not write have no version
to protect them; `PlanSound` says what stays true of them nevertheless: a gate once inserted stays inserted, and a directive once started is executing, completed
or aborted for ever. Whether they are live, locked or of the right facility may change, and `start_race` and `outcome_race` show that it does.
`AtomicStep` is accordingly silent on them: it has no draft check of a deletion, no lock check of a gate that is not written, and opens receipts for directives that have ended.
`WritesAreAtomic` is a statement about the rows written, and nothing else.
The action properties follow from `AtomicStep` alone, one lemma per kind of step (`RootStepTold` to `OutcomeTold`, `StepKeepsPlan`).

**Workflow.** `TwoPersonRule` is not inductive: a directive that is approved must find its two signatures in place already. `PaperSound` adds `ApprovalsInOrder`, that nobody has signed an approval
of a directive that is not approved yet. The same fact gives `EvidenceNeverBlocks`: a transition that wins its version starts from the status *before* its stage, and so its key in the
unique index is free. `ReceiptOutcome` is inductive over atomic steps as it stands. It compares receipts with directives and with each other, so its proof has one part per receipt, one per completed
directive and one per pair of receipts (`ReceiptParts`).

**Promises that races break.** Section 5 refutes promises about rows a request reads and does not write under a version: the gate of a start, of an abort or of an outcome that finds it in place,
and the draft of a deletion. `RacesAloneBreakPromises` says that nothing but such a race is in their way, for any number of requests. A commit is compared with what its request
holds: `Sound` gives that the row held is the row stored, or has a lower version, or is deleted by now (`EarlierGate`). In the first case the promise holds for the check that
was made when the row was read; the others are the race. There is one lemma per kind of commit (`TransitionKeeps`, `OutcomeKeeps`, `DirectiveKeeps`), and
`ChangesAreAudited` treats the `before` of a deletion in the same way.

**Refinement.** `DispatchRefinementProofs` maps each atomic step: a draft, a revision, each target of a transition, a receipt, its update and its outcome to the workflow's step of that name, and everything
that concerns reservoirs, versions, audit or deletion to a stutter. One step needs an invariant besides: the workflow opens no receipt for a completed directive, and the services open none because a directive is only completed by its receipt (`ReceiptOutcome`), which occupies the unique index.

**Transactions.** `TInv` has four parts. `Sound` says that what requests know is right, unchanged from above, because statements change no committed row. `Progress`
says that what a transaction has made and what it has to do are the beginning and the end of the writes of its request, `LocksApart` that no row or key has two holders, and `WrittenRowsStay` that
what a statement found is still so. The last two need each other: a row stays as found because nobody else can write it before this transaction ends, and nobody else can because the statement holds its lock.
The key of a receipt's directive is a lock of its own, for two inserts of different receipts would meet in no row.
At a commit all rows are therefore as `Commit...` requires them, and there is one lemma per operation (`CreateReservoirCommits` to `OutcomeCommits`) that its statements together write what its action writes.
`NeverWaitInCircles` needs no lock invariant but an order: receipt before directive before gate before reservoir (`Rank`). All writes of a request are in this order (`WritesShape`), so one
that waits has written only to earlier tables than the one it waits for (`WaitersAreBehind`), and in a group that waits in a circle the one that has come furthest would have to wait for one that has come further (`NoCircles`).
Since `TSpec => Spec`, all theorems about `DispatchControl` hold of the statements and locks as well.

**Startup.** `ServesSeeded` speaks of a running server, and becomes inductive by saying of every phase how far it has come (`Progress`):
the tables before the one that is migrated exist, those before the one that is counted or inserted have been seeded, and all of them have when Redis is pinged. A kill
at any point keeps this, because an exited process claims nothing. `Signed` adds that directives without approvals come from a cut start, or from one
that is right there now. Besides the bounds (`AttemptsAssumption`, `FaultsAssumption`) this needs `DeletableAssumption`: the last directive is never deleted, since only drafts are
and one of the seeded ones is executing already.

**Limiter.** For each key and minute, `Admits` and `Refuses` compare the tally with the two counters it came from. What Redis has admitted is at most its counter as long as that
lives, and a call is decided before its counter expires (`Timely`, which is why expiry after two minutes is enough and after one is not). What the memory
has admitted is at most the bucket of this minute, which neither cleaning (`CleanedCounts`) nor another key disturbs.
`RefusedOnlyOverLimit` needs more. `Heard` is what a minute has counted, each call once: those of the minute itself (`counted`), and those of the minute before that memory counts late (`late`). The bucket of this minute together with the *number* of calls that Redis has counted without the process
knowing (`UnheardOf`) is at most `Heard`, for each of them may yet be counted in memory without being a new call. A call that is counted late may be counted in two minutes, and a client whose only call of a minute it precedes may be refused for it: the code does that, and the theorem does not hide it. The assumptions are `LimiterAssumption` and `LimiterBounds`; keys and calls
may be any sets, for `UnheardOf` is shown to be finite.
`ServerTypeOK` bounds every counter by the calls that came, which is not obvious when one call is counted in two places and for two minutes. `CountInv` says why: what was decided for a minute, and the calls
that may still be counted for it (`Pending`), together are at most `calls`; a call that Redis has counted unheard is no longer pending for its own minute, only for the next. (`KeysAssumption`: there is a key at all.)
`TrackedKeysBounded` follows from `MapInv`, that a map beyond its threshold has one minute: a map that reached the threshold is cleaned of all other minutes, and none is of the future (`Timely`); one that did not
has room for one key more.

**Browser.** The invariant adds `Faithful` to the types: a transition under way carries the version its dialog showed, one that is admitted
belongs to an account that was entitled to it, and one answered with success, or followed by its reload, was applied. `OneCall` reduces a step to the call it touches, and
`KeptOthers` shows that clearing the history of finished calls loses nothing. `ClosedMeansApplied` needs to know whose dialog closes: `DialogFacts` says of a call whose dialog is open
that `pending` is what that dialog shows, and of one whose dialog is closed that it can no longer be applied; `Apart`, that no two transitions were applied to one version, makes the second true of a second press
when the first closes the dialog. So what closes a dialog was confirmed in it or in an abandoned one (`Closes`). The assumptions are `SessionBounds`, `VersionAssumption`
and `ChangesAssumption`.

Only model-checked are two kinds of property. The liveness properties `EveryRequestEnds`, `ComesBackUnlessHidden` and `EventuallyFresh` are out of reach of TLAPS, which
supports neither fairness nor `ENABLED`. And `OutcomeReachesGate`, `StartsUnlocked` and `OnlyDraftsDeleted` are false in general
(section 5); what is left of them is `OnlyRacesBreakPromises`. Every other safety property of the passing runs is a theorem.
The modules avoid `RECURSIVE`, so that all of them can be proved about.

## 7. Not modelled

* Configuration, request ids, logging, error mapping, DTO shape checks, health and the read-only queries
  (lists, counts, overview, audit views): they change nothing that a decision depends on.
* Signature, issuer and expiry of tokens, and expiry of a stored session: a token stands for its account. An expired token
  acts like one of a deactivated account, and an expired stored session like a logout in another tab, both of which are in the model.
* What the database does below row locks: write-ahead logging, loss of a disk, other isolation levels, the MySQL and SQLite drivers.
* Loss of Redis's data, and two backends at once. The limiter's counters would start from zero; the startup of two backends would race for the seed. The
  compose file runs one of each.
* The client of Redis sends a transaction at most once: go-redis is external, and a repeated `Exec` would count a call twice.
* The create dialog, search and paging of the frontend; roles in the browser only decide which buttons are offered, so the page may send any transition.
* Shell scripts and images of the deployment; of `docker-compose.yml` only the restart policies.

## 8. Plan

Done, in this order: `Statuses`, `DispatchState`, the four services, `DispatchControl`, `DirectiveWorkflow` with the
refinement, type correctness and optimistic locking proved; `DispatchTransactions` with the refinement to atomic commits and the
first liveness; `Startup`, `RateLimiter` and `ServerProcess`; `ClientSession`, `EntityStore` and `Workspace`; the safety of
the last two compositions proved; then of `DispatchControl` (atomic steps, workflow, the promises that races break, refinement), of `DispatchTransactions` (locks, order, refinement of
`DispatchControl`), and what was left of `ServerProcess`.

Next:

1. `AuditSummary`: five counts over a growing log.
