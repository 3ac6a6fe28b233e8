------------------------------- MODULE Startup -------------------------------
(***************************************************************************)
(* The life of the server process: connecting, migrating and seeding the   *)
(* database, serving, draining, and being restarted by its container       *)
(* (backend/cmd/server/main.go, backend/internal/database/database.go,     *)
(* docker-compose.yml).  The process may be killed, the database and Redis *)
(* may go away, and the startup deadline may pass between any two steps.   *)
(***************************************************************************)
EXTENDS Naturals

CONSTANTS
  MaxAttempts,   \* how often Open tries to reach the database (20)
  Deletable,     \* the seeded tables that requests may delete the last row of
  MaxFaults      \* bound on kills, outages and missed deadlines of a behaviour

ASSUME AttemptsAssumption == MaxAttempts \in Nat \ {0}
ASSUME FaultsAssumption == MaxFaults \in Nat

\* The order of Seed; the approvals are those of the seeded directives.
Following ==
  [users |-> "reservoirs", reservoirs |-> "gates", gates |-> "directives",
   directives |-> "approvals", approvals |-> "receipts"]
Tables == DOMAIN Following \cup {"receipts"}

\* Users are never deleted, and of the directives only drafts may be.
ASSUME DeletableAssumption == Deletable \subseteq {"reservoirs", "gates", "receipts"}

VARIABLES
  phase,      \* what the process is doing
  attempt,    \* of connecting to the database
  next,       \* the table it migrates, counts or seeds next
  table,      \* the database: what each table holds
  dbUp, redisUp,
  late,       \* the startup deadline has passed
  cut,        \* history: a start ended between directives and their approvals
  faults      \* how many there were

svars == <<phase, attempt, next, table, dbUp, redisUp, late, cut, faults>>

Starting == {"connecting", "migrating", "counting", "inserting", "pinging"}
Running == Starting \cup {"serving", "draining"}

\* "hidden": all rows are soft-deleted, their unique codes still taken.
Contents == {"missing", "empty", "filled", "hidden"}

StartupTypeOK ==
  /\ phase \in Running \cup {"exited", "halted"}
  /\ attempt \in 1 .. MaxAttempts
  /\ next \in Tables
  /\ table \in [Tables -> Contents]
  /\ dbUp \in BOOLEAN /\ redisUp \in BOOLEAN /\ late \in BOOLEAN /\ cut \in BOOLEAN
  /\ faults \in 0 .. MaxFaults

\* A new deployment: nothing runs, the database has no tables.
StartupInit ==
  /\ phase = "halted" /\ attempt = 1 /\ next = "users"
  /\ table = [t \in Tables |-> "missing"]
  /\ dbUp = TRUE /\ redisUp = TRUE
  /\ late = FALSE /\ cut = FALSE /\ faults = 0

-----------------------------------------------------------------------------
(* The process comes and goes. *)

Halfway == phase = "inserting" /\ next = "approvals"

\* The process ends, by itself, killed, or with a kill of the container.
Over(how) == phase' = how /\ cut' = (cut \/ Halfway)

Launch ==
  /\ phase' = "connecting"
  /\ attempt' = 1 /\ next' = "users" /\ late' = FALSE
  /\ UNCHANGED <<table, dbUp, redisUp, cut, faults>>

\* docker compose up
Start == phase = "halted" /\ Launch

\* restart: unless-stopped
Restart == phase = "exited" /\ Launch

\* The first error of a start is its last: main logs it and calls os.Exit(1).
Exit == Over("exited") /\ UNCHANGED <<attempt, next, table, dbUp, redisUp, late, faults>>

\* SIGTERM: the handler is installed once the server runs.  Then Shutdown waits
\* for the requests in flight; before, the signal ends the process.
Terminate ==
  /\ phase \in Running \ {"draining"}
  /\ Over(IF phase = "serving" THEN "draining" ELSE "halted")
  /\ UNCHANGED <<attempt, next, table, dbUp, redisUp, late, faults>>

\* All requests are answered, or ShutdownTimeout cuts them off.
Shutdown ==
  /\ phase = "draining" /\ phase' = "halted"
  /\ UNCHANGED <<attempt, next, table, dbUp, redisUp, late, cut, faults>>

-----------------------------------------------------------------------------
(* Open: connect, migrate, seed, ping Redis. *)

Connected ==
  /\ phase' = "migrating" /\ next' = "users"
  /\ UNCHANGED <<attempt, table, dbUp, redisUp, late, cut, faults>>

Connect == phase = "connecting" /\ dbUp /\ ~late /\ Connected

\* Mutant of TryAgain: one round too many.
TryOnceMore ==
  /\ attempt <= MaxAttempts
  /\ attempt' = attempt + 1
  /\ UNCHANGED <<phase, next, table, dbUp, redisUp, late, cut>>

TryAgain ==
  /\ attempt < MaxAttempts
  /\ attempt' = attempt + 1
  /\ UNCHANGED <<phase, next, table, dbUp, redisUp, late, cut>>

NoDatabase ==
  /\ phase = "connecting" /\ ~dbUp /\ ~late
  /\ \/ TryAgain /\ UNCHANGED faults
     \/ attempt = MaxAttempts /\ Exit

\* The ping fails and, repeated for its error, succeeds: no error is left, but the
\* loop goes on, and ends well if this was its last round.
Flicker ==
  /\ phase = "connecting" /\ dbUp /\ ~late
  /\ faults < MaxFaults /\ faults' = faults + 1
  /\ \/ TryAgain
     \/ /\ attempt = MaxAttempts
        /\ phase' = "migrating" /\ next' = "users"
        /\ UNCHANGED <<attempt, table, dbUp, redisUp, late, cut>>

\* AutoMigrate creates the tables that are missing, one after the other and
\* without the startup's deadline.
Migrate ==
  /\ phase = "migrating" /\ dbUp
  /\ table' = [table EXCEPT ![next] = IF @ = "missing" THEN "empty" ELSE @]
  /\ IF next = "receipts"
     THEN phase' = "counting" /\ next' = "users"
     ELSE phase' = phase /\ next' = Following[next]
  /\ UNCHANGED <<attempt, dbUp, redisUp, late, cut, faults>>

\* What comes after the rows of t are there: the approvals belong to the directives
\* inserted by this start, and are not counted.
Advance(t) ==
  IF t = "receipts" THEN phase' = "pinging" /\ next' = t
  ELSE phase' = "counting"
       /\ next' = Following[IF t = "directives" THEN "approvals" ELSE t]

\* Mutant of Count: a database with users has been seeded.
CountUsers ==
  /\ phase = "counting" /\ dbUp /\ ~late
  /\ IF table["users"] = "filled"
     THEN phase' = "pinging" /\ next' = "receipts"
     ELSE phase' = "inserting" /\ next' = next
  /\ UNCHANGED <<attempt, table, dbUp, redisUp, late, cut, faults>>

\* Mutant of Count: rows are seeded at every start.
CountNothing ==
  /\ phase = "counting" /\ dbUp /\ ~late
  /\ phase' = "inserting" /\ next' = next
  /\ UNCHANGED <<attempt, table, dbUp, redisUp, late, cut, faults>>

\* Rows are seeded into a table that shows none.
Count ==
  /\ phase = "counting" /\ dbUp /\ ~late
  /\ IF table[next] = "filled" THEN Advance(next) ELSE phase' = "inserting" /\ next' = next
  /\ UNCHANGED <<attempt, table, dbUp, redisUp, late, cut, faults>>

\* Mutant of Insert: the approvals are forgotten.
InsertRowsOnly ==
  /\ phase = "inserting" /\ dbUp /\ ~late /\ table[next] = "empty"
  /\ table' = [table EXCEPT ![next] = "filled"]
  /\ Advance(next)
  /\ UNCHANGED <<attempt, dbUp, redisUp, late, cut, faults>>

\* One INSERT of all rows.
Insert ==
  /\ phase = "inserting" /\ dbUp /\ ~late /\ table[next] = "empty"
  /\ table' = [table EXCEPT ![next] = "filled"]
  /\ IF next = "directives"
     THEN phase' = phase /\ next' = "approvals"
     ELSE Advance(next)
  /\ UNCHANGED <<attempt, dbUp, redisUp, late, cut, faults>>

Ping ==
  /\ phase = "pinging" /\ redisUp /\ ~late
  /\ phase' = "serving"
  /\ UNCHANGED <<attempt, next, table, dbUp, redisUp, late, cut, faults>>

\* Whether the start has met an error: a dependency is away, the deadline has passed,
\* or a seeded code is taken, be it by a deleted row.
Failing ==
  CASE phase = "connecting" -> late
    [] phase = "migrating" -> ~dbUp
    [] phase = "counting" -> ~dbUp \/ late
    [] phase = "inserting" -> ~dbUp \/ late \/ table[next] # "empty"
    [] phase = "pinging" -> ~redisUp \/ late
    [] OTHER -> FALSE

Fail == Failing /\ Exit

-----------------------------------------------------------------------------
(* The environment. *)

\* Requests of a running server delete the last row of a table, or create one.
DeleteLast(t) ==
  /\ phase \in {"serving", "draining"} /\ dbUp
  /\ t \in Deletable /\ table[t] = "filled"
  /\ table' = [table EXCEPT ![t] = "hidden"]
  /\ UNCHANGED <<phase, attempt, next, dbUp, redisUp, late, cut, faults>>

CreateRow(t) ==
  /\ phase \in {"serving", "draining"} /\ dbUp
  /\ t \in Deletable /\ table[t] = "hidden"
  /\ table' = [table EXCEPT ![t] = "filled"]
  /\ UNCHANGED <<phase, attempt, next, dbUp, redisUp, late, cut, faults>>

Fault == faults < MaxFaults /\ faults' = faults + 1

\* Out of memory, a panic outside a handler, a taken port, a host that goes down.
\* (While draining, the operator has stopped the container already.)
Kill ==
  /\ phase \in Running \ {"draining"} /\ Fault
  /\ Over("exited")
  /\ UNCHANGED <<attempt, next, table, dbUp, redisUp, late>>

DbDown ==
  /\ dbUp /\ dbUp' = FALSE /\ Fault
  /\ UNCHANGED <<phase, attempt, next, table, redisUp, late, cut>>
DbUp ==
  /\ ~dbUp /\ dbUp' = TRUE
  /\ UNCHANGED <<phase, attempt, next, table, redisUp, late, cut, faults>>
RedisDown ==
  /\ redisUp /\ redisUp' = FALSE /\ Fault
  /\ UNCHANGED <<phase, attempt, next, table, dbUp, late, cut>>
RedisUp ==
  /\ ~redisUp /\ redisUp' = TRUE
  /\ UNCHANGED <<phase, attempt, next, table, dbUp, late, cut, faults>>

DeadlinePasses ==
  /\ phase \in Starting /\ ~late
  /\ late' = TRUE /\ Fault
  /\ UNCHANGED <<phase, attempt, next, table, dbUp, redisUp, cut>>

-----------------------------------------------------------------------------
\* What a start does next of its own.
StartStep ==
  \/ Connect \/ NoDatabase \/ Migrate \/ Count \/ Insert \/ Ping \/ Fail

Environment ==
  \/ Flicker \/ Kill
  \/ DbDown \/ DbUp \/ RedisDown \/ RedisUp \/ DeadlinePasses
  \/ \E t \in Deletable : DeleteLast(t) \/ CreateRow(t)

StartupNext ==
  \/ Start \/ Restart \/ Terminate \/ Shutdown \/ StartStep \/ Environment
=============================================================================
