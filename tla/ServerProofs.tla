---------------------------- MODULE ServerProofs ----------------------------
(***************************************************************************)
(* What ServerProcess keeps for every number of faults, attempts, keys and *)
(* calls: a server that takes requests is seeded, it lacks the seeded      *)
(* approvals only after a start was cut in the one place, the limiter      *)
(* admits no more than its limit by each of its two counters, refuses a    *)
(* client only in a minute more calls than the limit were counted in,      *)
(* counts no more than came, and keeps no more keys in memory than it      *)
(* should.                                                                 *)
(***************************************************************************)
EXTENDS ServerProcess, FiniteSetTheorems, TLAPS

\* The tables that are migrated, and those that are seeded, before each table.
MigratedBefore ==
  [users |-> {}, reservoirs |-> {"users"}, gates |-> {"users", "reservoirs"},
   directives |-> {"users", "reservoirs", "gates"},
   approvals |-> {"users", "reservoirs", "gates", "directives"},
   receipts |-> {"users", "reservoirs", "gates", "directives", "approvals"}]
SeededBefore ==
  [MigratedBefore EXCEPT !["receipts"] = {"users", "reservoirs", "gates", "directives"}]

\* The table was seeded, although its rows may be deleted by now.
Shown(t) == table[t] \in {"filled", "hidden"}

\* How far a start has come is what it finds in the tables.
Progress ==
  /\ phase = "migrating" => \A t \in MigratedBefore[next] : table[t] # "missing"
  /\ phase \in {"counting", "inserting", "pinging", "serving", "draining"} =>
       \A t \in Tables : table[t] # "missing"
  /\ phase \in {"counting", "inserting"} => \A t \in SeededBefore[next] : Shown(t)
  /\ phase = "counting" => next # "approvals"
  /\ phase \in {"pinging", "serving", "draining"} =>
       \A t \in Tables \ {"approvals"} : Shown(t)

\* Directives without approvals come from a start that was cut between them, or that
\* is right there.
Signed ==
  /\ table["directives"] # "hidden"
  /\ table["directives"] = "filled" /\ table["approvals"] # "filled" => cut \/ Halfway

\* What every step of a start relies on.
StartupInv == StartupTypeOK /\ Progress /\ Signed

-----------------------------------------------------------------------------
(* Startup. *)

\* The tables in order.
LEMMA TablesInOrder ==
  /\ Tables = {"users", "reservoirs", "gates", "directives", "approvals", "receipts"}
  /\ Following["users"] = "reservoirs" /\ Following["reservoirs"] = "gates"
  /\ Following["gates"] = "directives" /\ Following["directives"] = "approvals"
  /\ Following["approvals"] = "receipts"
  BY DEF Tables, Following

\* Where every start begins.
LEMMA Beginning == 1 \in 1 .. MaxAttempts /\ "users" \in Tables /\ 0 \in 0 .. MaxFaults
  <1>1. 1 \in 1 .. MaxAttempts
    BY AttemptsAssumption
  <1>2. 0 \in 0 .. MaxFaults
    BY FaultsAssumption
  <1> QED BY <1>1, <1>2, TablesInOrder

\* What comes before each table.
LEMMA Before ==
  /\ MigratedBefore["users"] = {} /\ SeededBefore["users"] = {}
  /\ MigratedBefore["reservoirs"] = {"users"} /\ SeededBefore["reservoirs"] = {"users"}
  /\ MigratedBefore["gates"] = {"users", "reservoirs"}
  /\ SeededBefore["gates"] = {"users", "reservoirs"}
  /\ MigratedBefore["directives"] = {"users", "reservoirs", "gates"}
  /\ SeededBefore["directives"] = {"users", "reservoirs", "gates"}
  /\ MigratedBefore["approvals"] = {"users", "reservoirs", "gates", "directives"}
  /\ SeededBefore["approvals"] = {"users", "reservoirs", "gates", "directives"}
  /\ MigratedBefore["receipts"] = {"users", "reservoirs", "gates", "directives", "approvals"}
  /\ SeededBefore["receipts"] = {"users", "reservoirs", "gates", "directives"}
  BY DEF MigratedBefore, SeededBefore

\* The database of a new deployment.
LEMMA StartupInitInv == StartupInit => StartupInv
  <1> SUFFICES ASSUME StartupInit PROVE StartupInv
    OBVIOUS
  <1>1. table \in [Tables -> Contents] /\ \A t \in Tables : table[t] = "missing"
    BY DEF StartupInit, Contents
  <1>2. StartupTypeOK
    BY <1>1, Beginning DEF StartupInit, StartupTypeOK
  <1>3. Progress
    BY DEF StartupInit, Progress
  <1>4. Signed
    BY <1>1, TablesInOrder DEF StartupInit, Signed
  <1> QED BY <1>2, <1>3, <1>4 DEF StartupInv

\* The comings and goings of the process touch no table.
LEMMA ComesAndGoes ==
  ASSUME StartupInv, Start \/ Restart \/ Terminate \/ Shutdown \/ Kill \/ Fail
  PROVE  StartupInv'
  <1>1. StartupTypeOK'
    <2>1. \A how \in {"exited", "halted", "draining"} : Over(how) => cut' \in BOOLEAN
      BY DEF Over, StartupInv, StartupTypeOK, Halfway
    <2>2. CASE Start \/ Restart
      BY <2>2, Beginning
      DEF Start, Restart, Launch, StartupInv, StartupTypeOK, Running, Starting
    <2>3. CASE Terminate \/ Fail
      BY <2>1, <2>3 DEF Terminate, Fail, Exit, Over, StartupInv, StartupTypeOK, Running
    <2>4. CASE Kill
      BY <2>1, <2>4, FaultsAssumption
      DEF Kill, Fault, Over, StartupInv, StartupTypeOK, Running
    <2>5. CASE Shutdown
      BY <2>5 DEF Shutdown, StartupInv, StartupTypeOK
    <2> QED BY <2>2, <2>3, <2>4, <2>5
  <1>2. table' = table
    BY DEF Start, Restart, Launch, Terminate, Shutdown, Kill, Fail, Exit
  <1>3. Progress'
    BY <1>2
    DEF StartupInv, Progress, Shown, Start, Restart, Launch, Terminate, Shutdown, Kill, Fail,
        Exit, Over
  <1>4. cut \/ Halfway => cut' \/ Halfway'
    BY DEF Start, Restart, Launch, Terminate, Shutdown, Kill, Fail, Exit, Over, Halfway
  <1>5. Signed'
    BY <1>2, <1>4 DEF StartupInv, Signed
  <1> QED BY <1>1, <1>3, <1>5 DEF StartupInv

\* Connecting touches no table either.
LEMMA Connects ==
  ASSUME StartupInv, Connect \/ NoDatabase \/ Flicker
  PROVE  StartupInv'
  <1>1. StartupTypeOK'
    BY TablesInOrder, AttemptsAssumption, FaultsAssumption
    DEF StartupInv, StartupTypeOK, Connect, Connected, NoDatabase, Flicker, TryAgain, Exit, Over,
        Halfway, Running, Starting
  <1>2. table' = table /\ phase = "connecting"
    BY DEF Connect, Connected, NoDatabase, Flicker, TryAgain, Exit
  <1>3. Progress'
    <2>1. \/ phase' = "connecting" \/ phase' = "exited"
          \/ phase' = "migrating" /\ next' = "users"
      BY DEF Connect, Connected, NoDatabase, Flicker, TryAgain, Exit, Over
    <2> QED BY <2>1, Before DEF Progress
  <1>4. cut \/ Halfway => cut' \/ Halfway'
    BY <1>2 DEF Connect, Connected, NoDatabase, Flicker, TryAgain, Exit, Over, Halfway
  <1>5. Signed'
    BY <1>2, <1>4 DEF StartupInv, Signed
  <1> QED BY <1>1, <1>3, <1>5 DEF StartupInv

\* Each migrated table is there from then on.
LEMMA Migrates == StartupInv /\ Migrate => StartupInv'
  <1> SUFFICES ASSUME StartupInv, Migrate PROVE StartupInv'
    OBVIOUS
  <1>1. /\ table \in [Tables -> Contents] /\ next \in Tables /\ phase = "migrating"
        /\ table' = [table EXCEPT ![next] = IF @ = "missing" THEN "empty" ELSE @]
        /\ UNCHANGED <<attempt, dbUp, redisUp, late, cut, faults>>
    BY DEF StartupInv, StartupTypeOK, Migrate
  <1>2. /\ table' \in [Tables -> Contents] /\ table'[next] # "missing"
        /\ \A t \in Tables : table[t] # "missing" => table'[t] = table[t]
    BY <1>1 DEF Contents
  <1>3. CASE next = "receipts"
    <2>1. phase' = "counting" /\ next' = "users"
      BY <1>3 DEF Migrate
    <2>2. \A t \in Tables : table'[t] # "missing"
      BY <1>1, <1>2, <1>3, TablesInOrder, Before DEF StartupInv, Progress
    <2>3. Progress'
      BY <2>1, <2>2, Before DEF Progress
    <2>4. StartupTypeOK'
      BY <1>1, <1>2, <2>1, TablesInOrder DEF StartupInv, StartupTypeOK, Running, Starting
    <2>5. Signed'
      BY <1>1, <1>2, TablesInOrder DEF StartupInv, Signed, Halfway, Contents
    <2> QED BY <2>3, <2>4, <2>5 DEF StartupInv
  <1>4. CASE next # "receipts"
    <2>1. phase' = "migrating" /\ next' = Following[next]
      BY <1>1, <1>4 DEF Migrate
    <2>2. next' \in Tables /\ MigratedBefore[next'] \subseteq MigratedBefore[next] \cup {next}
      BY <1>1, <1>4, <2>1, TablesInOrder, Before
    <2>3. MigratedBefore[next] \subseteq Tables
      BY <1>1, TablesInOrder, Before
    <2>4. Progress'
      BY <1>1, <1>2, <2>1, <2>2, <2>3 DEF StartupInv, Progress
    <2>5. StartupTypeOK'
      BY <1>1, <1>2, <2>1, <2>2 DEF StartupInv, StartupTypeOK
    <2>6. Signed'
      BY <1>1, <1>2, TablesInOrder DEF StartupInv, Signed, Halfway, Contents
    <2> QED BY <2>4, <2>5, <2>6 DEF StartupInv
  <1> QED BY <1>3, <1>4

\* Where a start goes on once table t shows its rows.
LEMMA Advances ==
  ASSUME StartupTypeOK, phase \in {"counting", "inserting"}, Progress, Advance(next),
         NEW full \in SUBSET Tables, next \in full, \A t \in full : Shown(t)',
         \A t \in SeededBefore[next] : t \in full,
         \A t \in Tables : table'[t] # "missing",
         phase = "counting" \/ next # "directives"
  PROVE  Progress' /\ next' \in Tables /\ phase' \in {"counting", "pinging"}
  <1>1. next \in {"users", "reservoirs", "gates", "directives", "approvals", "receipts"}
    BY TablesInOrder DEF StartupTypeOK
  <1>2. CASE next = "receipts"
    BY <1>2, TablesInOrder, Before DEF Advance, Progress
  <1>3. CASE next # "receipts"
    <2>1. /\ phase' = "counting"
          /\ next' = Following[IF next = "directives" THEN "approvals" ELSE next]
      BY <1>3 DEF Advance
    <2>2. /\ next' \in Tables /\ next' # "approvals"
          /\ SeededBefore[next'] \subseteq SeededBefore[next] \cup {next}
      BY <1>1, <1>3, <2>1, TablesInOrder, Before
    <2> QED BY <2>1, <2>2 DEF Progress
  <1> QED BY <1>2, <1>3

\* Counting moves on where rows are shown.
LEMMA Counts == StartupInv /\ Count => StartupInv'
  <1> SUFFICES ASSUME StartupInv, Count PROVE StartupInv'
    OBVIOUS
  <1>1. /\ UNCHANGED <<attempt, table, dbUp, redisUp, late, cut, faults>>
        /\ phase = "counting" /\ next \in Tables /\ StartupTypeOK /\ Progress
    BY DEF StartupInv, StartupTypeOK, Count
  <1>2. SeededBefore[next] \subseteq Tables
    BY <1>1, TablesInOrder, Before
  <1>3. CASE table[next] = "filled"
    <2>1. Advance(next)
      BY <1>3 DEF Count
    <2>2. /\ \A t \in SeededBefore[next] \cup {next} : Shown(t)'
          /\ \A t \in Tables : table'[t] # "missing"
      BY <1>1, <1>3 DEF Progress, Shown
    <2>3. Progress' /\ next' \in Tables /\ phase' \in {"counting", "pinging"}
      BY <1>1, <1>2, <2>1, <2>2, Advances
    <2> QED BY <1>1, <2>3
        DEF StartupInv, StartupTypeOK, Signed, Halfway, Running, Starting
  <1>4. CASE table[next] # "filled"
    <2>1. phase' = "inserting" /\ next' = next
      BY <1>4 DEF Count
    <2> QED BY <1>1, <2>1
        DEF StartupInv, StartupTypeOK, Progress, Shown, Signed, Halfway, Running, Starting
  <1> QED BY <1>3, <1>4

\* Inserting fills a table, and goes from the directives to their approvals.
LEMMA Inserts == StartupInv /\ Insert => StartupInv'
  <1> SUFFICES ASSUME StartupInv, Insert PROVE StartupInv'
    OBVIOUS
  <1>1. /\ UNCHANGED <<attempt, dbUp, redisUp, late, cut, faults>>
        /\ phase = "inserting" /\ next \in Tables /\ StartupTypeOK /\ Progress
        /\ table \in [Tables -> Contents] /\ table[next] = "empty"
        /\ table' = [table EXCEPT ![next] = "filled"]
    BY DEF StartupInv, StartupTypeOK, Insert
  <1>2. SeededBefore[next] \subseteq Tables
    BY <1>1, TablesInOrder, Before
  <1>3. /\ table' \in [Tables -> Contents] /\ table'[next] = "filled"
        /\ \A t \in Tables \ {next} : table'[t] = table[t]
    BY <1>1 DEF Contents
  <1>4. /\ \A t \in SeededBefore[next] \cup {next} : Shown(t)'
        /\ \A t \in Tables : table'[t] # "missing"
    BY <1>1, <1>2, <1>3 DEF Progress, Shown
  <1>5. CASE next = "directives"
    <2>1. phase' = "inserting" /\ next' = "approvals"
      BY <1>1, <1>5 DEF Insert
    <2>2. Progress'
      BY <1>4, <1>5, <2>1, Before DEF Progress
    <2> QED BY <1>1, <1>3, <1>5, <2>1, <2>2, TablesInOrder
        DEF StartupInv, StartupTypeOK, Signed, Halfway
  <1>6. CASE next # "directives"
    <2>1. Advance(next)
      BY <1>6 DEF Insert
    <2>2. Progress' /\ next' \in Tables /\ phase' \in {"counting", "pinging"}
      BY <1>1, <1>2, <1>4, <1>6, <2>1, Advances
    <2>3. Signed'
      BY <1>1, <1>3, <1>6, TablesInOrder DEF StartupInv, Signed, Halfway
    <2> QED BY <1>1, <1>3, <2>2, <2>3 DEF StartupInv, StartupTypeOK, Running, Starting
  <1> QED BY <1>5, <1>6

\* The last step of a start, and what the environment does to it, but for deletions.
LEMMA Surroundings ==
  ASSUME StartupInv,
         Ping \/ DbDown \/ DbUp \/ RedisDown \/ RedisUp \/ DeadlinePasses
  PROVE  StartupInv'
  <1>1. /\ UNCHANGED <<next, table, cut, attempt>>
        /\ \/ phase' = phase
           \/ phase = "pinging" /\ phase' = "serving"
    BY DEF Ping, DbDown, DbUp, RedisDown, RedisUp, DeadlinePasses
  <1>2. faults' \in 0 .. MaxFaults
    BY FaultsAssumption
    DEF Ping, DbDown, DbUp, RedisDown, RedisUp, DeadlinePasses, Fault, StartupInv, StartupTypeOK
  <1>3. dbUp' \in BOOLEAN /\ redisUp' \in BOOLEAN /\ late' \in BOOLEAN
    BY DEF Ping, DbDown, DbUp, RedisDown, RedisUp, DeadlinePasses, StartupInv, StartupTypeOK
  <1>4. StartupTypeOK'
    BY <1>1, <1>2, <1>3 DEF StartupInv, StartupTypeOK, Running
  <1>5. Progress'
    BY <1>1 DEF StartupInv, Progress, Shown
  <1>6. Signed'
    BY <1>1 DEF StartupInv, Signed, Halfway
  <1> QED BY <1>4, <1>5, <1>6 DEF StartupInv

\* Rows come and go in tables that are seeded, and never the last directive.
LEMMA RowsComeAndGo ==
  \A t \in Deletable : StartupInv /\ (DeleteLast(t) \/ CreateRow(t)) => StartupInv'
  <1> SUFFICES ASSUME NEW t \in Deletable, StartupInv, DeleteLast(t) \/ CreateRow(t)
               PROVE  StartupInv'
    OBVIOUS
  <1>1. t \in {"reservoirs", "gates", "receipts"} /\ t \in Tables
    BY DeletableAssumption, TablesInOrder
  <1>2. /\ UNCHANGED <<phase, attempt, next, dbUp, redisUp, late, cut, faults>>
        /\ phase \in {"serving", "draining"}
        /\ table \in [Tables -> Contents]
        /\ \/ table' = [table EXCEPT ![t] = "hidden"]
           \/ table' = [table EXCEPT ![t] = "filled"]
    BY DEF DeleteLast, CreateRow, StartupInv, StartupTypeOK
  <1>3. /\ table' \in [Tables -> Contents] /\ table'[t] \in {"filled", "hidden"}
        /\ \A u \in Tables \ {t} : table'[u] = table[u]
    BY <1>1, <1>2 DEF Contents
  <1>4. Progress'
    BY <1>2, <1>3 DEF StartupInv, Progress, Shown
  <1>5. Signed'
    BY <1>1, <1>2, <1>3, TablesInOrder DEF StartupInv, Signed, Halfway
  <1> QED BY <1>2, <1>3, <1>4, <1>5 DEF StartupInv, StartupTypeOK

\* Every step of the process and its surroundings.
LEMMA StartupKeeps == StartupInv /\ StartupNext => StartupInv'
  BY ComesAndGoes, Connects, Migrates, Counts, Inserts, Surroundings, RowsComeAndGo
  DEF StartupNext, StartStep, Environment

-----------------------------------------------------------------------------
(* The limiter. *)

\* A tally, its counts unbounded.
TallyRecords == [counted : Nat, late : Nat, shared : Nat, own : Nat, refused : BOOLEAN]

\* The calls that were counted in a minute, each once.
Heard(k, w) == tally[k][w].counted + tally[k][w].late

\* The shapes of the limiter's variables, its counts unbounded.
LimiterShape ==
  /\ now \in Windows
  /\ counter \in [Keys -> [Windows -> Nat]]
  /\ bucket \in [Keys -> [window : Windows, count : Nat]]
  /\ call \in [Calls -> [state : {"none", "arrived", "unheard"},
                         key : Keys \cup {NoCall.key}, window : Windows]]
  /\ tally \in [Keys -> [Windows -> TallyRecords]]

\* A call is decided in its minute or the next one, and no bucket is of the future.
Timely ==
  /\ \A c \in Calls : call[c].state # "none" =>
       /\ call[c].key \in Keys
       /\ call[c].window <= now /\ now <= call[c].window + 1
  /\ \A k \in Keys : bucket[k].window <= now

\* The calls with key k that Redis has counted in this minute, as nobody knows.
UnheardOf(k) ==
  {c \in Calls : call[c].state = "unheard" /\ call[c].key = k /\ call[c].window = now}

\* The tallies against the two counters they are made from.
Admits(k, w) ==
  /\ tally[k][w].shared <= Limit /\ tally[k][w].own <= Limit
  /\ ~Expired(w, now) => tally[k][w].shared <= counter[k][w]
  /\ tally[k][w].own > 0 => w <= now
  /\ w = now => tally[k][w].own <= SoFar(bucket[k])

\* A counter never exceeds the calls that were counted in its minute: what Redis has
\* counted unheard leaves room for being counted in memory again.
Refuses(k, w) ==
  /\ tally[k][w].refused => Heard(k, w) > Limit
  /\ ~Expired(w, now) => counter[k][w] <= Heard(k, w)
  /\ w = now =>
       SoFar(bucket[k]) + Cardinality(UnheardOf(k)) <= Heard(k, w)

\* The strengthening of both limits.
LimiterInv ==
  /\ LimiterShape /\ Timely
  /\ \A k \in Keys : IsFiniteSet(UnheardOf(k))
  /\ \A k \in Keys, w \in Windows : Admits(k, w) /\ Refuses(k, w)

\* Minutes are natural numbers.
LEMMA WindowsNat == Windows \subseteq Nat /\ 0 \in Windows
  BY LimiterBounds DEF Windows

\* No call has been counted yet.
LEMMA LimiterInitInv == LimiterInit => LimiterInv
  <1> SUFFICES ASSUME LimiterInit PROVE LimiterInv
    OBVIOUS
  <1>1. LimiterShape
    <2>1. NoCall \in [state : {"none", "arrived", "unheard"},
                      key : Keys \cup {NoCall.key}, window : Windows]
      BY WindowsNat DEF NoCall
    <2> QED BY <2>1, WindowsNat DEF LimiterInit, LimiterShape, NoBucket, NoTally, TallyRecords
  <1>2. Timely
    BY DEF LimiterInit, Timely, NoCall, NoBucket
  <1>3. \A k \in Keys : UnheardOf(k) = {}
    BY DEF LimiterInit, UnheardOf, NoCall
  <1>4. \A k \in Keys, w \in Windows : Admits(k, w) /\ Refuses(k, w)
    <2> SUFFICES ASSUME NEW k \in Keys, NEW w \in Windows PROVE Admits(k, w) /\ Refuses(k, w)
      OBVIOUS
    <2>1. tally[k][w] = NoTally /\ counter[k][w] = 0 /\ bucket[k] = NoBucket
      BY DEF LimiterInit
    <2>2. Cardinality(UnheardOf(k)) = 0
      BY <1>3, FS_EmptySet
    <2>3. SoFar(bucket[k]) = 0
      BY <2>1 DEF SoFar, NoBucket
    <2>4. Heard(k, w) = 0
      BY <2>1 DEF Heard, NoTally
    <2> QED BY <2>1, <2>2, <2>3, <2>4, LimiterAssumption DEF Admits, Refuses, NoTally
  <1> QED BY <1>1, <1>2, <1>3, <1>4, FS_EmptySet DEF LimiterInv

\* What a decision writes.
LEMMA Decided ==
  ASSUME LimiterShape, NEW k \in Keys, NEW w \in Windows, NEW count \in Nat,
         NEW by \in {"redis", "memory"}, NEW extra \in Nat, NEW overdue \in Nat,
         Decide(k, w, count, by, extra, overdue)
  PROVE  /\ tally' \in [Keys -> [Windows -> TallyRecords]]
         /\ \A l \in Keys, v \in Windows : (l # k \/ v # w) => tally'[l][v] = tally[l][v]
         /\ Heard(k, w)' = Heard(k, w) + (extra + overdue)
         /\ by = "redis" => tally'[k][w].own = tally[k][w].own
         /\ by = "memory" => tally'[k][w].shared = tally[k][w].shared
         /\ by = "redis" =>
              \/ count > Limit /\ tally'[k][w].shared = tally[k][w].shared
              \/ count <= Limit /\ tally'[k][w].shared = tally[k][w].shared + 1
         /\ by = "memory" =>
              \/ count > Limit /\ tally'[k][w].own = tally[k][w].own
              \/ count <= Limit /\ tally'[k][w].own = tally[k][w].own + 1
         /\ tally'[k][w].refused => (tally[k][w].refused \/ count > Limit)
  <1> DEFINE t == tally[k][w]
             r == [counted |-> t.counted + extra, late |-> t.late + overdue,
                   shared |-> t.shared + (IF by = "redis" /\ count <= Limit THEN 1 ELSE 0),
                   own |-> t.own + (IF by = "memory" /\ count <= Limit THEN 1 ELSE 0),
                   refused |-> t.refused \/ count > Limit]
  <1>1. t \in TallyRecords
    BY DEF LimiterShape
  <1>2. r \in TallyRecords
    BY <1>1, LimiterAssumption DEF TallyRecords
  <1>3. tally' = [tally EXCEPT ![k] = [tally[k] EXCEPT ![w] = r]]
    BY DEF Decide, LimiterShape
  <1>4. /\ r.counted + r.late = (t.counted + t.late) + (extra + overdue)
        /\ by = "redis" => r.own = t.own
        /\ by = "memory" => r.shared = t.shared
        /\ by = "redis" => \/ count > Limit /\ r.shared = t.shared
                           \/ count <= Limit /\ r.shared = t.shared + 1
        /\ by = "memory" => \/ count > Limit /\ r.own = t.own
                            \/ count <= Limit /\ r.own = t.own + 1
    BY <1>1, LimiterAssumption DEF TallyRecords
  <1>5. r.refused => (t.refused \/ count > Limit)
    OBVIOUS
  <1> HIDE DEF r
  <1>6. /\ tally' \in [Keys -> [Windows -> TallyRecords]]
        /\ \A l \in Keys, v \in Windows : (l # k \/ v # w) => tally'[l][v] = tally[l][v]
        /\ tally'[k][w] = r
    BY <1>2, <1>3 DEF LimiterShape
  <1> QED BY <1>4, <1>5, <1>6 DEF Heard

\* A key and minute whose counts a step leaves alone.
LEMMA Untouched ==
  ASSUME LimiterInv, NEW k \in Keys, NEW w \in Windows, UNCHANGED now,
         tally'[k][w] = tally[k][w], counter'[k][w] = counter[k][w],
         w = now => /\ SoFar(bucket[k])' = SoFar(bucket[k])
                    /\ UnheardOf(k)' = UnheardOf(k)
  PROVE  Admits(k, w)' /\ Refuses(k, w)'
  BY DEF LimiterInv, Admits, Refuses, Expired, Heard

\* The numbers of one key and minute.
LEMMA Numbers ==
  ASSUME LimiterInv, NEW k \in Keys, NEW w \in Windows
  PROVE  /\ now \in Nat /\ w \in Nat /\ Limit \in Nat \ {0}
         /\ counter[k][w] \in Nat /\ SoFar(bucket[k]) \in Nat
         /\ Cardinality(UnheardOf(k)) \in Nat
         /\ Heard(k, w) \in Nat /\ tally[k][w].shared \in Nat
         /\ tally[k][w].own \in Nat /\ tally[k][w].refused \in BOOLEAN
         /\ Admits(k, w) /\ Refuses(k, w)
  <1>1. Cardinality(UnheardOf(k)) \in Nat
    BY FS_CardinalityType DEF LimiterInv
  <1>2. SoFar(bucket[k]) \in Nat
    BY DEF LimiterInv, LimiterShape, SoFar
  <1>3. now \in Nat /\ w \in Nat
    BY WindowsNat DEF LimiterInv, LimiterShape
  <1> QED BY <1>1, <1>2, <1>3, LimiterAssumption
      DEF LimiterInv, LimiterShape, TallyRecords, Heard

\* What is known of a call that is being counted.
LEMMA CallNumbers ==
  ASSUME LimiterInv, NEW c \in Calls, call[c].state # "none"
  PROVE  /\ call[c].key \in Keys /\ call[c].window \in Windows
         /\ ~Expired(call[c].window, now)
         /\ call[c].window <= now /\ now <= call[c].window + 1
  <1>1. /\ call[c].key \in Keys /\ call[c].window \in Windows
        /\ call[c].window <= now /\ now <= call[c].window + 1
    BY DEF LimiterInv, LimiterShape, Timely
  <1>2. call[c].window \in Nat /\ now \in Nat
    BY <1>1, WindowsNat DEF LimiterInv, LimiterShape
  <1> QED BY <1>1, <1>2 DEF Expired

\* A call that is decided, or has not been counted.
LEMMA CallType ==
  /\ NoCall \in [state : {"none", "arrived", "unheard"},
                 key : Keys \cup {NoCall.key}, window : Windows]
  /\ NoCall.state = "none"
  BY WindowsNat DEF NoCall

\* Arrivals are not counted yet.
LEMMA Arrives ==
  \A c \in Calls, k \in Keys : LimiterInv /\ Arrive(c, k) => LimiterInv'
  <1> SUFFICES ASSUME NEW c \in Calls, NEW k \in Keys, LimiterInv, Arrive(c, k)
               PROVE  LimiterInv'
    OBVIOUS
  <1> DEFINE a == [state |-> "arrived", key |-> k, window |-> now]
  <1>1. /\ UNCHANGED <<now, counter, bucket, tally>> /\ call' = [call EXCEPT ![c] = a]
        /\ call[c].state = "none" /\ now \in Windows /\ now \in Nat
    BY WindowsNat DEF Arrive, LimiterInv, LimiterShape
  <1>2. /\ a \in [state : {"none", "arrived", "unheard"}, key : Keys \cup {NoCall.key},
                  window : Windows]
        /\ a.state = "arrived" /\ a.key = k /\ a.window = now
    BY <1>1
  <1> HIDE DEF a
  <1>3. /\ LimiterShape' /\ call'[c] = a
        /\ \A x \in Calls \ {c} : call'[x] = call[x]
    BY <1>1, <1>2 DEF LimiterInv, LimiterShape
  <1>4. Timely'
    BY <1>1, <1>2, <1>3 DEF LimiterInv, Timely
  <1>5. \A l \in Keys : UnheardOf(l)' = UnheardOf(l)
    BY <1>1, <1>2, <1>3 DEF UnheardOf
  <1>6. \A l \in Keys, v \in Windows : Admits(l, v)' /\ Refuses(l, v)'
    BY <1>1, <1>5, Untouched DEF SoFar
  <1> QED BY <1>3, <1>4, <1>5, <1>6 DEF LimiterInv

\* A call that Redis has counted is admitted by its count.
LEMMA CountedKeeps == \A c \in Calls : LimiterInv /\ Counted(c) => LimiterInv'
  <1> SUFFICES ASSUME NEW c \in Calls, LimiterInv, Counted(c) PROVE LimiterInv'
    OBVIOUS
  <1>1. call[c].key \in Keys /\ call[c].window \in Windows
    BY CallNumbers DEF Counted
  <1> PICK k \in Keys, w \in Windows : k = call[c].key /\ w = call[c].window
    BY <1>1
  <1>2. /\ UNCHANGED <<now, bucket>> /\ call' = [call EXCEPT ![c] = NoCall]
        /\ call[c].state = "arrived"
        /\ counter' = [counter EXCEPT ![k][w] = @ + 1]
        /\ Decide(k, w, counter[k][w] + 1, "redis", 1, 0)
    BY DEF Counted
  <1>3. ~Expired(w, now) /\ now' = now /\ bucket' = bucket
    BY <1>2, CallNumbers
  <1>4. /\ counter' \in [Keys -> [Windows -> Nat]]
        /\ counter'[k][w] = counter[k][w] + 1
        /\ \A l \in Keys, v \in Windows : (l # k \/ v # w) => counter'[l][v] = counter[l][v]
    BY <1>2, <1>3 DEF LimiterInv, LimiterShape
  <1>5. LimiterShape /\ counter[k][w] + 1 \in Nat
    BY <1>3, Numbers DEF LimiterInv
  <1>6. /\ tally' \in [Keys -> [Windows -> TallyRecords]]
        /\ \A l \in Keys, v \in Windows : (l # k \/ v # w) => tally'[l][v] = tally[l][v]
        /\ Heard(k, w)' = Heard(k, w) + 1
        /\ \/ counter[k][w] + 1 > Limit /\ tally'[k][w].shared = tally[k][w].shared
           \/ counter[k][w] + 1 <= Limit /\ tally'[k][w].shared = tally[k][w].shared + 1
        /\ tally'[k][w].own = tally[k][w].own
        /\ tally'[k][w].refused => (tally[k][w].refused \/ counter[k][w] + 1 > Limit)
    <2>1. PICK n \in Nat : n = counter[k][w] + 1
      BY <1>5
    <2>2. Decide(k, w, n, "redis", 1, 0)
      BY <1>2, <2>1
    <2>3. LimiterShape /\ k \in Keys /\ w \in Windows /\ 0 \in Nat /\ 1 \in Nat
      BY <1>5
    <2> QED BY SMTT(30), <2>1, <2>2, <2>3, Decided
  <1>7. /\ LimiterShape' /\ call'[c] = NoCall
        /\ \A x \in Calls \ {c} : call'[x] = call[x]
    <2>1. call' \in [Calls -> [state : {"none", "arrived", "unheard"},
                              key : Keys \cup {NoCall.key}, window : Windows]]
      BY <1>2, <1>5, CallType DEF LimiterShape
    <2>2. /\ call'[c] = NoCall
          /\ \A x \in Calls \ {c} : call'[x] = call[x]
      BY <1>2, <1>5 DEF LimiterShape
    <2> QED BY <1>3, <1>4, <1>5, <1>6, <2>1, <2>2 DEF LimiterShape
  <1>8. Timely'
    BY <1>2, <1>7, CallType DEF LimiterInv, Timely
  <1>9. \A l \in Keys : UnheardOf(l)' = UnheardOf(l)
    BY <1>2, <1>7, CallType DEF UnheardOf
  <1>10. \A l \in Keys, v \in Windows : Admits(l, v)' /\ Refuses(l, v)'
    <2> SUFFICES ASSUME NEW l \in Keys, NEW v \in Windows
                 PROVE  Admits(l, v)' /\ Refuses(l, v)'
      OBVIOUS
    <2>1. SoFar(bucket[l])' = SoFar(bucket[l]) /\ UnheardOf(l)' = UnheardOf(l)
      BY <1>2, <1>9 DEF SoFar
    <2>2. CASE l # k \/ v # w
      <3>1. /\ tally'[l][v] = tally[l][v] /\ Heard(l, v)' = Heard(l, v)
            /\ counter'[l][v] = counter[l][v] /\ UNCHANGED now
        BY <1>3, <1>4, <1>6, <2>2 DEF Heard
      <3> QED BY <2>1, <3>1, Untouched
    <2>3. CASE l = k /\ v = w
      <3>1. /\ Admits(k, w) /\ Refuses(k, w) /\ Limit \in Nat /\ now \in Nat /\ w \in Nat
            /\ Heard(k, w) \in Nat /\ tally[k][w].shared \in Nat
            /\ tally[k][w].own \in Nat
            /\ counter[k][w] \in Nat /\ SoFar(bucket[k]) \in Nat
            /\ Cardinality(UnheardOf(k)) \in Nat
        BY Numbers
      <3>2. /\ counter'[k][w] = counter[k][w] + 1
            /\ Heard(k, w)' = Heard(k, w) + 1
            /\ \/ counter[k][w] + 1 > Limit /\ tally'[k][w].shared = tally[k][w].shared
               \/ counter[k][w] + 1 <= Limit /\ tally'[k][w].shared = tally[k][w].shared + 1
            /\ tally'[k][w].own = tally[k][w].own
            /\ tally'[k][w].refused => (tally[k][w].refused \/ counter[k][w] + 1 > Limit)
        BY <1>4, <1>6
      <3>3. SoFar(bucket[k])' = SoFar(bucket[k]) /\ UnheardOf(k)' = UnheardOf(k)
        BY <2>1, <2>3
      <3>4. Admits(k, w)'
        <4>1. tally[k][w].shared <= counter[k][w] /\ tally[k][w].shared <= Limit
          BY <1>3, <3>1 DEF Admits
        <4>2. tally'[k][w].shared <= counter'[k][w] /\ tally'[k][w].shared <= Limit
          BY <3>1, <3>2, <4>1
        <4> QED BY <1>3, <3>1, <3>2, <3>3, <4>2 DEF Admits
      <3>5. Refuses(k, w)'
        <4>1. counter[k][w] <= Heard(k, w)
          BY <1>3, <3>1 DEF Refuses
        <4>2. /\ counter'[k][w] <= Heard(k, w)'
              /\ Heard(k, w) <= Heard(k, w)'
          BY <3>1, <3>2, <4>1
        <4>3. tally'[k][w].refused => Heard(k, w)' > Limit
          BY <3>1, <3>2, <4>1 DEF Refuses
        <4>4. Heard(k, w)' \in Nat
          BY <3>1, <3>2
        <4> QED BY <1>3, <3>1, <3>3, <4>2, <4>3, <4>4 DEF Refuses
      <3> QED BY <2>3, <3>4, <3>5
    <2> QED BY <2>2, <2>3
  <1> QED BY <1>7, <1>8, <1>9, <1>10 DEF LimiterInv

\* A call that Redis has counted unheard is counted for the client, once.
LEMMA UnheardKeeps == \A c \in Calls : LimiterInv /\ Unheard(c) => LimiterInv'
  <1> SUFFICES ASSUME NEW c \in Calls, LimiterInv, Unheard(c) PROVE LimiterInv'
    OBVIOUS
  <1>1. call[c].key \in Keys /\ call[c].window \in Windows
    BY CallNumbers DEF Unheard
  <1> PICK k \in Keys, w \in Windows : k = call[c].key /\ w = call[c].window
    BY <1>1
  <1> DEFINE u == [call[c] EXCEPT !.state = "unheard"]
             t == [tally[k][w] EXCEPT !.counted = @ + 1]
  <1>2. /\ UNCHANGED <<now, bucket>> /\ call' = [call EXCEPT ![c] = u]
        /\ call[c].state = "arrived"
        /\ counter' = [counter EXCEPT ![k][w] = @ + 1]
        /\ tally' = [tally EXCEPT ![k] = [tally[k] EXCEPT ![w] = t]]
    BY DEF Unheard
  <1>3. ~Expired(w, now) /\ now' = now /\ bucket' = bucket
    BY <1>2, CallNumbers
  <1>4. /\ u \in [state : {"none", "arrived", "unheard"}, key : Keys \cup {NoCall.key},
                  window : Windows]
        /\ u.state = "unheard" /\ u.key = k /\ u.window = w
    BY DEF LimiterInv, LimiterShape
  <1>5. /\ t \in TallyRecords
        /\ t.counted + t.late = Heard(k, w) + 1 /\ t.shared = tally[k][w].shared
        /\ t.own = tally[k][w].own /\ t.refused = tally[k][w].refused
    <2>1. tally[k][w] \in TallyRecords
      BY DEF LimiterInv, LimiterShape
    <2> QED BY <2>1 DEF TallyRecords, Heard
  <1> HIDE DEF u, t
  <1>6. /\ counter' \in [Keys -> [Windows -> Nat]]
        /\ counter'[k][w] = counter[k][w] + 1
        /\ \A l \in Keys, v \in Windows : (l # k \/ v # w) => counter'[l][v] = counter[l][v]
    BY <1>2, <1>3 DEF LimiterInv, LimiterShape
  <1>7. /\ tally' \in [Keys -> [Windows -> TallyRecords]]
        /\ \A l \in Keys, v \in Windows : (l # k \/ v # w) => tally'[l][v] = tally[l][v]
        /\ tally'[k][w] = t
    BY <1>2, <1>3, <1>5 DEF LimiterInv, LimiterShape
  <1>8. /\ LimiterShape' /\ call'[c] = u
        /\ \A x \in Calls \ {c} : call'[x] = call[x]
    BY <1>2, <1>4, <1>6, <1>7 DEF LimiterInv, LimiterShape
  <1>9. Timely'
    BY <1>2, <1>4, <1>8 DEF LimiterInv, Timely
  <1>10. \A l \in Keys : UnheardOf(l)' =
          IF l = k /\ w = now THEN UnheardOf(l) \cup {c} ELSE UnheardOf(l)
    BY <1>2, <1>4, <1>8 DEF UnheardOf
  <1>11. ASSUME NEW l \in Keys
         PROVE  /\ IsFiniteSet(UnheardOf(l)') /\ Cardinality(UnheardOf(l)') \in Nat
                /\ Cardinality(UnheardOf(l)') <= Cardinality(UnheardOf(l)) + 1
    <2>1. IsFiniteSet(UnheardOf(l)) /\ Cardinality(UnheardOf(l)) \in Nat
      BY FS_CardinalityType DEF LimiterInv
    <2>2. /\ IsFiniteSet(UnheardOf(l) \cup {c})
          /\ Cardinality(UnheardOf(l) \cup {c}) =
               IF c \in UnheardOf(l) THEN Cardinality(UnheardOf(l))
               ELSE Cardinality(UnheardOf(l)) + 1
      BY SMTT(30), <2>1, FS_AddElement
    <2>3. UnheardOf(l)' \in {UnheardOf(l), UnheardOf(l) \cup {c}}
      BY <1>10
    <2>4. ASSUME NEW S \in {UnheardOf(l), UnheardOf(l) \cup {c}}
          PROVE  /\ IsFiniteSet(S) /\ Cardinality(S) \in Nat
                 /\ Cardinality(S) <= Cardinality(UnheardOf(l)) + 1
      BY <2>1, <2>2
    <2> QED BY <2>3, <2>4
  <1>12. \A l \in Keys, v \in Windows : Admits(l, v)' /\ Refuses(l, v)'
    <2> SUFFICES ASSUME NEW l \in Keys, NEW v \in Windows
                 PROVE  Admits(l, v)' /\ Refuses(l, v)'
      OBVIOUS
    <2>1. SoFar(bucket[l])' = SoFar(bucket[l])
      BY <1>2 DEF SoFar
    <2>2. CASE l # k \/ v # w
      <3>1. /\ tally'[l][v] = tally[l][v] /\ Heard(l, v)' = Heard(l, v)
            /\ counter'[l][v] = counter[l][v] /\ UNCHANGED now
        BY <1>3, <1>6, <1>7, <2>2 DEF Heard
      <3>2. v = now => UnheardOf(l)' = UnheardOf(l)
        BY <1>10, <2>2
      <3> QED BY <2>1, <3>1, <3>2, Untouched
    <2>3. CASE l = k /\ v = w
      <3>1. /\ Admits(k, w) /\ Refuses(k, w) /\ Limit \in Nat /\ now \in Nat /\ w \in Nat
            /\ Heard(k, w) \in Nat /\ tally[k][w].shared \in Nat
            /\ tally[k][w].own \in Nat
            /\ counter[k][w] \in Nat /\ SoFar(bucket[k]) \in Nat
            /\ Cardinality(UnheardOf(k)) \in Nat
        BY Numbers
      <3>2. /\ counter'[k][w] = counter[k][w] + 1
            /\ Heard(k, w)' = Heard(k, w) + 1
            /\ tally'[k][w].shared = tally[k][w].shared
            /\ tally'[k][w].own = tally[k][w].own
            /\ tally'[k][w].refused = tally[k][w].refused
            /\ SoFar(bucket[k])' = SoFar(bucket[k])
        BY <1>5, <1>6, <1>7, <2>1, <2>3 DEF Heard
      <3>3. /\ Cardinality(UnheardOf(k)') \in Nat
            /\ Cardinality(UnheardOf(k)') <= Cardinality(UnheardOf(k)) + 1
        BY <1>11
      <3>4. Admits(k, w)'
        <4>1. tally[k][w].shared <= counter[k][w] /\ tally[k][w].shared <= Limit
          BY <1>3, <3>1 DEF Admits
        <4>2. tally'[k][w].shared <= counter'[k][w] /\ tally'[k][w].shared <= Limit
          BY <3>1, <3>2, <4>1
        <4> QED BY <1>3, <3>1, <3>2, <4>2 DEF Admits
      <3>5. Refuses(k, w)'
        <4>1. counter[k][w] <= Heard(k, w)
          BY <1>3, <3>1 DEF Refuses
        <4>2. counter'[k][w] <= Heard(k, w)'
          BY <3>1, <3>2, <4>1
        <4>3. tally'[k][w].refused => Heard(k, w)' > Limit
          BY <3>1, <3>2 DEF Refuses
        <4>4. w = now => SoFar(bucket[k])' + Cardinality(UnheardOf(k)') <= Heard(k, w)'
          BY <3>1, <3>2, <3>3 DEF Refuses
        <4> QED BY <1>3, <4>2, <4>3, <4>4 DEF Refuses
      <3> QED BY <2>3, <3>4, <3>5
    <2> QED BY <2>2, <2>3
  <1> QED BY <1>8, <1>9, <1>11, <1>12 DEF LimiterInv

\* Cleaning drops no bucket of this minute.
LEMMA CleanedCounts ==
  ASSUME LimiterInv
  PROVE  /\ Cleaned(bucket) \in [Keys -> [window : Windows, count : Nat]]
         /\ \A k \in Keys : /\ SoFar(Cleaned(bucket)[k]) = SoFar(bucket[k])
                            /\ Cleaned(bucket)[k].window <= now
  <1>1. NoBucket \in [window : Windows, count : Nat] /\ NoBucket.window = 0
        /\ NoBucket.count = 0
    BY WindowsNat DEF NoBucket
  <1>2. now \in Nat /\ bucket \in [Keys -> [window : Windows, count : Nat]]
    BY WindowsNat DEF LimiterInv, LimiterShape
  <1>3. Cleaned(bucket) \in [Keys -> [window : Windows, count : Nat]]
    BY <1>1, <1>2 DEF Cleaned
  <1>4. ASSUME NEW k \in Keys
        PROVE  /\ SoFar(Cleaned(bucket)[k]) = SoFar(bucket[k])
               /\ Cleaned(bucket)[k].window <= now
    <2>1. \/ Cleaned(bucket)[k] = bucket[k]
          \/ Cleaned(bucket)[k] = NoBucket /\ bucket[k].window < now
      BY DEF Cleaned
    <2>2. bucket[k].window <= now /\ bucket[k].window \in Nat
      BY <1>2, WindowsNat DEF LimiterInv, Timely
    <2> QED BY <1>1, <1>2, <2>1, <2>2 DEF SoFar
  <1> QED BY <1>3, <1>4

\* A call that is counted in memory, in the minute it is by then.
LEMMA LocalKeeps == \A c \in Calls : LimiterInv /\ CountedLocally(c) => LimiterInv'
  <1> SUFFICES ASSUME NEW c \in Calls, LimiterInv, CountedLocally(c) PROVE LimiterInv'
    OBVIOUS
  <1>1. call[c].key \in Keys /\ call[c].window \in Windows
    BY CallNumbers DEF CountedLocally
  <1> PICK k \in Keys : k = call[c].key
    BY <1>1
  <1> DEFINE count == SoFar(bucket[k]) + 1
             again == call[c].state = "unheard" /\ call[c].window = now
             extra == IF call[c].state = "arrived" /\ call[c].window = now THEN 1 ELSE 0
             overdue == IF call[c].window # now THEN 1 ELSE 0
             more == extra + overdue
             b == [window |-> now, count |-> count]
  <1>2. k \in Keys /\ call[c].state \in {"arrived", "unheard"} /\ now \in Windows
    BY CallNumbers DEF CountedLocally, LimiterInv, LimiterShape
  <1>3. SoFar(Cleaned(bucket)[k]) = SoFar(bucket[k])
    BY <1>2, CleanedCounts
  <1>4. /\ UNCHANGED <<now, counter>> /\ call' = [call EXCEPT ![c] = NoCall]
        /\ bucket' = [Cleaned(bucket) EXCEPT ![k] = b]
        /\ Decide(k, now, count, "memory", extra, overdue)
    BY <1>3 DEF CountedLocally
  <1>5. count \in Nat /\ extra \in Nat /\ overdue \in Nat /\ b \in [window : Windows, count : Nat]
        /\ b.window = now /\ b.count = count /\ count = SoFar(bucket[k]) + 1
    BY <1>2, Numbers
  <1>6. again => c \in UnheardOf(k) /\ more = 0
    BY DEF UnheardOf
  <1>7. ~again => c \notin UnheardOf(k) /\ more = 1
    BY <1>2 DEF UnheardOf
  <1>8. \A l \in Keys \ {k} : c \notin UnheardOf(l)
    BY DEF UnheardOf
  <1> HIDE DEF count, again, extra, overdue, b
  <1>9. /\ bucket' \in [Keys -> [window : Windows, count : Nat]] /\ bucket'[k] = b
        /\ \A l \in Keys : bucket'[l].window <= now
        /\ \A l \in Keys \ {k} : bucket'[l] = Cleaned(bucket)[l]
    BY <1>2, <1>4, <1>5, CleanedCounts, WindowsNat
  <1>10. SoFar(bucket[k])' = count /\ \A l \in Keys \ {k} : SoFar(bucket[l])' = SoFar(bucket[l])
    BY <1>4, <1>5, <1>9, CleanedCounts DEF SoFar
  <1>11. /\ tally' \in [Keys -> [Windows -> TallyRecords]]
         /\ \A l \in Keys, v \in Windows : (l # k \/ v # now) => tally'[l][v] = tally[l][v]
         /\ Heard(k, now)' = Heard(k, now) + more
         /\ tally'[k][now].shared = tally[k][now].shared
         /\ \/ count > Limit /\ tally'[k][now].own = tally[k][now].own
            \/ count <= Limit /\ tally'[k][now].own = tally[k][now].own + 1
         /\ tally'[k][now].refused => (tally[k][now].refused \/ count > Limit)
    <2>1. LimiterShape
      BY DEF LimiterInv
    <2> QED BY <1>2, <1>4, <1>5, <2>1, Decided
  <1>12. /\ LimiterShape' /\ call'[c] = NoCall
         /\ \A x \in Calls \ {c} : call'[x] = call[x]
    BY <1>4, <1>9, <1>11, CallType DEF LimiterInv, LimiterShape
  <1>13. Timely'
    BY <1>4, <1>9, <1>12, CallType DEF LimiterInv, Timely
  <1>14. \A l \in Keys : UnheardOf(l)' = UnheardOf(l) \ {c}
    BY <1>4, <1>12, CallType DEF UnheardOf
  <1>15. \A l \in Keys : /\ IsFiniteSet(UnheardOf(l)')
                         /\ Cardinality(UnheardOf(l)') \in Nat
                         /\ Cardinality(UnheardOf(l)') =
                              IF c \in UnheardOf(l) THEN Cardinality(UnheardOf(l)) - 1
                              ELSE Cardinality(UnheardOf(l))
    BY <1>14, FS_RemoveElement, FS_CardinalityType DEF LimiterInv
  <1>16. \A l \in Keys, v \in Windows : Admits(l, v)' /\ Refuses(l, v)'
    <2> SUFFICES ASSUME NEW l \in Keys, NEW v \in Windows
                 PROVE  Admits(l, v)' /\ Refuses(l, v)'
      OBVIOUS
    <2>1. CASE l # k
      <3>1. UnheardOf(l)' = UnheardOf(l)
        BY <1>8, <1>14, <2>1
      <3> QED BY <1>4, <1>10, <1>11, <2>1, <3>1, Untouched
    <2>2. CASE l = k /\ v # now
      BY <1>4, <1>11, <2>2, Untouched
    <2>3. CASE l = k /\ v = now
      <3>1. Cardinality(UnheardOf(k)') + 1 = Cardinality(UnheardOf(k)) + more
        BY <1>2, <1>6, <1>7, <1>15, Numbers
      <3>2. /\ Admits(k, now) /\ Refuses(k, now) /\ Limit \in Nat
            /\ Heard(k, now) \in Nat /\ tally[k][now].shared \in Nat
            /\ tally[k][now].own \in Nat
            /\ counter[k][now] \in Nat /\ SoFar(bucket[k]) \in Nat
            /\ Cardinality(UnheardOf(k)) \in Nat /\ Cardinality(UnheardOf(k)') \in Nat
        BY <1>2, <1>15, Numbers
      <3>3. now' = now /\ counter' = counter
        BY <1>4
      <3>4. /\ SoFar(bucket[k])' = SoFar(bucket[k]) + 1
            /\ Heard(k, now)' = Heard(k, now) + more
            /\ tally'[k][now].shared = tally[k][now].shared
            /\ \/ SoFar(bucket[k]) + 1 > Limit /\ tally'[k][now].own = tally[k][now].own
               \/ SoFar(bucket[k]) + 1 <= Limit
                  /\ tally'[k][now].own = tally[k][now].own + 1
            /\ tally'[k][now].refused =>
                 (tally[k][now].refused \/ SoFar(bucket[k]) + 1 > Limit)
        BY <1>5, <1>10, <1>11
      <3>5. more \in Nat /\ now \in Nat
        BY <1>2, <1>5, Numbers
      <3>6. Admits(k, now)'
        BY <3>2, <3>3, <3>4, <3>5 DEF Admits
      <3>7. Refuses(k, now)'
        BY <3>1, <3>2, <3>3, <3>4, <3>5 DEF Refuses
      <3> QED BY <2>3, <3>3, <3>6, <3>7 DEF Admits, Refuses
    <2> QED BY <2>1, <2>2, <2>3
  <1> QED BY <1>12, <1>13, <1>15, <1>16 DEF LimiterInv

\* A new minute has no calls, and forgets the counters of the last but one.
LEMMA Ticks == LimiterInv /\ Tick => LimiterInv'
  <1> SUFFICES ASSUME LimiterInv, Tick PROVE LimiterInv'
    OBVIOUS
  <1>1. /\ UNCHANGED <<bucket, call, tally>> /\ now' = now + 1
        /\ now \in Nat /\ now' \in Windows /\ now < now'
    BY LimiterBounds DEF Tick, LimiterInv, LimiterShape, Windows
  <1>2. /\ counter' \in [Keys -> [Windows -> Nat]]
        /\ \A k \in Keys, w \in Windows : ~Expired(w, now') => counter'[k][w] = counter[k][w]
    BY DEF Tick, LimiterInv, LimiterShape
  <1>3. LimiterShape'
    BY <1>1, <1>2 DEF LimiterInv, LimiterShape
  <1>4. \A c \in Calls : call[c].state # "none" => call[c].window = now
    BY DEF Tick
  <1>5. Timely'
    <2>1. \A k \in Keys : bucket[k].window \in Nat
      BY WindowsNat DEF LimiterInv, LimiterShape
    <2> QED BY <1>1, <1>4, <2>1 DEF LimiterInv, Timely
  <1>6. \A k \in Keys : UnheardOf(k)' = {}
    BY <1>1, <1>4 DEF UnheardOf
  <1>7. \A k \in Keys, w \in Windows : Admits(k, w)' /\ Refuses(k, w)'
    <2> SUFFICES ASSUME NEW k \in Keys, NEW w \in Windows
                 PROVE  Admits(k, w)' /\ Refuses(k, w)'
      OBVIOUS
    <2>1. Cardinality(UnheardOf(k)') = 0
      BY <1>6, FS_EmptySet
    <2>2. SoFar(bucket[k])' = 0
      BY <1>1 DEF SoFar, LimiterInv, Timely
    <2>3. ~Expired(w, now') => ~Expired(w, now) /\ counter'[k][w] = counter[k][w]
      BY <1>1, <1>2, Numbers DEF Expired
    <2>4. w = now' => tally[k][w].own = 0
      BY <1>1, Numbers DEF Admits
    <2>5. Heard(k, w)' = Heard(k, w)
      BY <1>1 DEF Heard
    <2> QED BY <1>1, <2>1, <2>2, <2>3, <2>4, <2>5, Numbers DEF Admits, Refuses
  <1> QED BY <1>3, <1>5, <1>6, <1>7, FS_EmptySet DEF LimiterInv

\* A new process has counted nothing itself.
LEMMA Forgets == LimiterInv /\ Forget => LimiterInv'
  <1> SUFFICES ASSUME LimiterInv, Forget PROVE LimiterInv'
    OBVIOUS
  <1>1. /\ UNCHANGED <<now, counter>> /\ bucket' = [k \in Keys |-> NoBucket]
        /\ call' = [c \in Calls |-> NoCall]
    BY DEF Forget
  <1>2. ASSUME NEW k \in Keys, NEW w \in Windows
        PROVE  /\ tally'[k][w] \in TallyRecords
               /\ Heard(k, w)' = Heard(k, w)
               /\ tally'[k][w].shared = tally[k][w].shared /\ tally'[k][w].own = 0
               /\ tally'[k][w].refused = tally[k][w].refused
    <2>1. tally'[k][w] = [tally[k][w] EXCEPT !.own = 0]
      BY DEF Forget
    <2>2. tally[k][w] \in TallyRecords
      BY DEF LimiterInv, LimiterShape
    <2> QED BY <2>1, <2>2 DEF TallyRecords, Heard
  <1>3. LimiterShape'
    <2>1. NoBucket \in [window : Windows, count : Nat]
      BY WindowsNat DEF NoBucket
    <2>2. tally' \in [Keys -> [Windows -> TallyRecords]]
      BY <1>2 DEF Forget
    <2> QED BY <1>1, <2>1, <2>2, CallType DEF LimiterInv, LimiterShape
  <1>4. Timely'
    BY <1>1, WindowsNat, CallType DEF Timely, NoBucket, LimiterInv, LimiterShape
  <1>5. \A k \in Keys : UnheardOf(k)' = {}
    BY <1>1, CallType DEF UnheardOf
  <1>6. \A k \in Keys, w \in Windows : Admits(k, w)' /\ Refuses(k, w)'
    <2> SUFFICES ASSUME NEW k \in Keys, NEW w \in Windows
                 PROVE  Admits(k, w)' /\ Refuses(k, w)'
      OBVIOUS
    <2>1. Cardinality(UnheardOf(k)') = 0
      BY <1>5, FS_EmptySet
    <2>2. SoFar(bucket[k])' = 0
      BY <1>1 DEF SoFar, NoBucket
    <2> QED BY <1>1, <1>2, <2>1, <2>2, Numbers DEF Admits, Refuses
  <1> QED BY <1>3, <1>4, <1>5, <1>6, FS_EmptySet DEF LimiterInv

-----------------------------------------------------------------------------
(* The process as a whole. *)

\* The invariant of the composition: neither part needs the other's.
Inv == StartupInv /\ LimiterInv

\* Every step of the process, its surroundings, its calls and the clock.
LEMMA NextKeeps == Inv /\ [Next]_vars => Inv'
  <1> SUFFICES ASSUME Inv, [Next]_vars PROVE Inv'
    OBVIOUS
  <1>1. UNCHANGED svars => StartupInv'
    BY DEF svars, Inv, StartupInv, StartupTypeOK, Progress, Shown, Signed, Halfway
  <1>2. UNCHANGED lvars => LimiterInv'
    <2>1. SUFFICES ASSUME UNCHANGED lvars PROVE LimiterInv'
      OBVIOUS
    <2>2. UNCHANGED <<now, counter, bucket, call, tally>>
      BY <2>1 DEF lvars
    <2>3. /\ LimiterShape' /\ Timely' /\ \A k \in Keys : UnheardOf(k)' = UnheardOf(k)
      BY <2>2 DEF Inv, LimiterInv, LimiterShape, Timely, UnheardOf
    <2>4. \A k \in Keys, w \in Windows : Admits(k, w)' /\ Refuses(k, w)'
      BY <2>2, <2>3, Untouched DEF Inv, SoFar
    <2> QED BY <2>3, <2>4 DEF Inv, LimiterInv
  <1>3. CASE Lives(StartupNext)
    <2>1. StartupInv'
      BY <1>3, StartupKeeps DEF Lives, Inv
    <2>2. LimiterInv'
      BY <1>2, <1>3, Forgets DEF Lives, Inv
    <2> QED BY <2>1, <2>2 DEF Inv
  <1>4. CASE \E c \in Calls : Serves(c)
    BY <1>1, <1>4, Arrives, CountedKeeps, UnheardKeeps, LocalKeeps DEF Serves, Inv
  <1>5. CASE TimePasses
    BY <1>1, <1>5, Ticks DEF TimePasses, Inv
  <1>6. CASE UNCHANGED vars
    BY <1>1, <1>2, <1>6 DEF vars, Inv
  <1> QED BY <1>3, <1>4, <1>5, <1>6 DEF Next

\* What the process and its limiter keep.
THEOREM ProcessInvariant == Spec => []Inv
  <1>1. Init => Inv
    BY StartupInitInv, LimiterInitInv DEF Init, Inv
  <1> QED BY <1>1, NextKeeps, PTL DEF Spec

\* A server that takes requests, whatever ended the starts before it, has all its tables
\* migrated and seeded.
THEOREM SeededBeforeServing == Spec => []ServesSeeded
  <1>1. Inv => ServesSeeded
    BY DEF Inv, StartupInv, Progress, Shown, ServesSeeded
  <1> QED BY <1>1, ProcessInvariant, PTL

\* Seeded directives lack their approvals only after a start that was cut between the
\* two statements.
THEOREM UnsignedMeansCut == Spec => []UnsignedOnlyAfterCut
  <1>1. Inv => UnsignedOnlyAfterCut
    BY TablesInOrder
    DEF Inv, StartupInv, Progress, Shown, Signed, Halfway, UnsignedOnlyAfterCut
  <1> QED BY <1>1, ProcessInvariant, PTL

\* By each of its two counters the limiter admits no more than its limit in a minute.
THEOREM LimitHolds == Spec => []AdmittedWithinLimit
  <1>1. Inv => AdmittedWithinLimit
    BY DEF Inv, LimiterInv, Admits, AdmittedWithinLimit
  <1> QED BY <1>1, ProcessInvariant, PTL

\* A client is refused in a minute only if more calls than the limit were counted in it:
\* a call that Redis and then the memory count is counted once in its minute, and once
\* more in the next one if incrementLocal counts it after its own is over.
THEOREM RefusalsJustified == Spec => []RefusedOnlyOverLimit
  <1>1. Inv => RefusedOnlyOverLimit
    BY DEF Inv, LimiterInv, Refuses, Heard, RefusedOnlyOverLimit
  <1> QED BY <1>1, ProcessInvariant, PTL

-----------------------------------------------------------------------------
(* The local map of the limiter. *)

\* The local map is finite, and is beyond its limit only with the keys of one minute.
MapInv ==
  /\ IsFiniteSet(Tracked)
  /\ Cardinality(Tracked) > CleanAt =>
       \E w \in Windows : \A k \in Tracked : bucket[k].window = w

\* A map that is cleaned keeps the keys of this minute alone; one that is not has room
\* for a key more.
LEMMA CleaningBounds == \A c \in Calls : LimiterInv /\ MapInv /\ CountedLocally(c) => MapInv'
  <1> SUFFICES ASSUME NEW c \in Calls, LimiterInv, MapInv, CountedLocally(c) PROVE MapInv'
    OBVIOUS
  <1>1. call[c].key \in Keys /\ now \in Windows /\ now \in Nat /\ now' = now
    BY CallNumbers, WindowsNat DEF CountedLocally, LimiterInv, LimiterShape
  <1> PICK k \in Keys : k = call[c].key
    BY <1>1
  <1>2. PICK n \in Nat :
          bucket' = [Cleaned(bucket) EXCEPT ![k] = [window |-> now, count |-> n]]
    <2>1. SoFar(Cleaned(bucket)[k]) + 1 \in Nat
      BY CleanedCounts, Numbers, <1>1
    <2> QED BY <2>1 DEF CountedLocally
  <1>3. /\ Cleaned(bucket) \in [Keys -> [window : Windows, count : Nat]]
        /\ bucket \in [Keys -> [window : Windows, count : Nat]]
    BY CleanedCounts DEF LimiterInv, LimiterShape
  <1>4. /\ bucket'[k].window = now
        /\ \A l \in Keys \ {k} : bucket'[l] = Cleaned(bucket)[l]
    BY <1>2, <1>3
  <1>5. ASSUME NEW l \in Keys, Cleaned(bucket)[l].count > 0
        PROVE  l \in Tracked /\ Cleaned(bucket)[l] = bucket[l]
    BY <1>5 DEF Cleaned, Tracked, NoBucket
  <1>6. Tracked' \subseteq Tracked \cup {k}
    BY <1>4, <1>5 DEF Tracked
  <1>7. /\ IsFiniteSet(Tracked) /\ Cardinality(Tracked) \in Nat
        /\ IsFiniteSet(Tracked \cup {k}) /\ Cardinality(Tracked \cup {k}) \in Nat
        /\ Cardinality(Tracked \cup {k}) <= Cardinality(Tracked) + 1
    <2>1. IsFiniteSet(Tracked) /\ Cardinality(Tracked) \in Nat
      BY FS_CardinalityType DEF MapInv
    <2>2. /\ IsFiniteSet(Tracked \cup {k})
          /\ Cardinality(Tracked \cup {k}) =
               IF k \in Tracked THEN Cardinality(Tracked) ELSE Cardinality(Tracked) + 1
      BY <2>1, FS_AddElement
    <2> QED BY <2>1, <2>2
  <1>8. /\ IsFiniteSet(Tracked') /\ Cardinality(Tracked') \in Nat
        /\ Cardinality(Tracked') <= Cardinality(Tracked) + 1
    <2>1. /\ IsFiniteSet(Tracked') /\ Cardinality(Tracked') \in Nat
          /\ Cardinality(Tracked') <= Cardinality(Tracked \cup {k})
      BY <1>6, <1>7, FS_Subset, FS_CardinalityType
    <2> QED BY <1>7, <2>1
  <1>9. CASE Cardinality(Tracked) >= CleanAt
    <2>1. ASSUME NEW l \in Tracked' PROVE bucket'[l].window = now
      <3>1. CASE l = k
        BY <1>4, <3>1
      <3>2. CASE l # k
        <4>1. l \in Keys /\ bucket'[l] = Cleaned(bucket)[l] /\ bucket'[l].count > 0
          BY <1>4, <3>2 DEF Tracked
        <4>2. bucket'[l] = bucket[l] /\ bucket[l].count > 0
          BY <1>5, <4>1
        <4>3. ~(bucket[l].window < now)
          BY <1>9, <4>1, <4>2 DEF Cleaned, NoBucket
        <4>4. bucket[l].window <= now /\ bucket[l].window \in Nat
          BY <1>3, <4>1, WindowsNat DEF LimiterInv, Timely
        <4> QED BY <1>1, <4>2, <4>3, <4>4
      <3> QED BY <3>1, <3>2
    <2> QED BY <1>1, <1>8, <2>1 DEF MapInv
  <1>10. CASE ~(Cardinality(Tracked) >= CleanAt)
    <2>1. Cardinality(Tracked) + 1 <= CleanAt
      BY <1>7, <1>10, LimiterAssumption
    <2>2. ~(Cardinality(Tracked') > CleanAt)
      BY <1>7, <1>8, <2>1, LimiterAssumption
    <2> QED BY <1>8, <2>2 DEF MapInv
  <1> QED BY <1>9, <1>10

\* Only a call that is counted in memory makes the map grow.
LEMMA MapKeeps == Inv /\ MapInv /\ [Next]_vars => MapInv'
  <1> SUFFICES ASSUME Inv, MapInv, [Next]_vars PROVE MapInv'
    OBVIOUS
  <1>1. UNCHANGED bucket => MapInv'
    BY DEF MapInv, Tracked
  <1>2. Forget => MapInv'
    <2>1. ASSUME Forget PROVE Tracked' = {}
      BY <2>1 DEF Forget, Tracked, NoBucket
    <2>2. IsFiniteSet({}) /\ Cardinality({}) = 0
      BY FS_EmptySet
    <2> QED BY <2>1, <2>2, LimiterAssumption DEF MapInv
  <1>3. CASE Lives(StartupNext)
    BY <1>1, <1>2, <1>3 DEF Lives, lvars
  <1>4. CASE \E c \in Calls : Serves(c)
    BY <1>1, <1>4, CleaningBounds DEF Serves, Arrive, Counted, Unheard, Inv
  <1>5. CASE TimePasses
    BY <1>1, <1>5 DEF TimePasses, Tick
  <1>6. CASE UNCHANGED vars
    BY <1>1, <1>6 DEF vars, lvars
  <1> QED BY <1>3, <1>4, <1>5, <1>6 DEF Next

\* The local map of the limiter grows beyond the size from which on it is cleaned only
\* with the keys of one minute.
THEOREM LocalMapBounded == Spec => []TrackedKeysBounded
  <1>1. Init => MapInv
    <2>1. ASSUME Init PROVE Tracked = {}
      BY <2>1 DEF Init, LimiterInit, Tracked, NoBucket
    <2>2. IsFiniteSet({}) /\ Cardinality({}) = 0
      BY FS_EmptySet
    <2> QED BY <2>1, <2>2, LimiterAssumption DEF MapInv
  <1>2. MapInv => TrackedKeysBounded
    <2> SUFFICES ASSUME MapInv, Cardinality(Tracked) > CleanAt
                 PROVE  Cardinality({bucket[k].window : k \in Tracked}) = 1
      BY DEF TrackedKeysBounded
    <2>1. PICK w \in Windows : \A k \in Tracked : bucket[k].window = w
      BY DEF MapInv
    <2>2. Tracked # {}
      BY FS_EmptySet, LimiterAssumption
    <2>3. {bucket[k].window : k \in Tracked} = {w}
      BY <2>1, <2>2
    <2>4. Cardinality({w}) = 1
      BY FS_Singleton
    <2> QED BY <2>3, <2>4
  <1> QED BY <1>1, <1>2, ProcessInvariant, MapKeeps, PTL DEF Spec

-----------------------------------------------------------------------------
(* The counts of the limiter. *)

\* The calls that may still be counted for this minute: one that Redis has counted
\* unheard is not counted again in its own.
Pending(w) ==
  {c \in Calls : \/ call[c].state = "arrived"
                 \/ call[c].state = "unheard" /\ call[c].window # w}

\* No counter has counted more than was decided, and what was decided for one minute
\* has come, and is no longer pending for it.
Tallies(k, w) ==
  /\ counter[k][w] <= Heard(k, w)
  /\ tally[k][w].shared <= Heard(k, w)
  /\ tally[k][w].own <= Heard(k, w)
  /\ Cardinality(Pending(w)) + Heard(k, w) <= calls

\* Every count is bounded by the calls that came.
CountInv ==
  /\ calls \in 0 .. MaxCalls
  /\ \A w \in Windows : IsFiniteSet(Pending(w))
  /\ \A k \in Keys : bucket[k].count <= Heard(k, bucket[k].window)
  /\ \A k \in Keys, w \in Windows : Tallies(k, w)

\* The numbers of one key and minute, and of the calls.
LEMMA CountNumbers ==
  ASSUME LimiterInv, CountInv, NEW k \in Keys, NEW w \in Windows
  PROVE  /\ Cardinality(Pending(w)) \in Nat /\ calls \in Nat
         /\ counter[k][w] \in Nat /\ Heard(k, w) \in Nat
         /\ tally[k][w].shared \in Nat /\ tally[k][w].own \in Nat
         /\ counter[k][w] <= Heard(k, w)
         /\ tally[k][w].shared <= Heard(k, w)
         /\ tally[k][w].own <= Heard(k, w)
         /\ Cardinality(Pending(w)) + Heard(k, w) <= calls
  <1>1. Cardinality(Pending(w)) \in Nat
    BY FS_CardinalityType DEF CountInv
  <1>2. calls \in Nat
    BY LimiterBounds DEF CountInv
  <1> QED BY <1>1, <1>2, Numbers DEF CountInv, Tallies

\* A call that is no longer pending leaves room for one that is counted.
LEMMA PendingDecided ==
  ASSUME LimiterInv, CountInv, NEW c \in Calls, NEW w \in Windows,
         Pending(w)' = Pending(w) \ {c}
  PROVE  /\ IsFiniteSet(Pending(w)') /\ Cardinality(Pending(w)') \in Nat
         /\ Cardinality(Pending(w)') <= Cardinality(Pending(w))
         /\ c \in Pending(w) => Cardinality(Pending(w)') + 1 = Cardinality(Pending(w))
  <1>1. IsFiniteSet(Pending(w)) /\ Cardinality(Pending(w)) \in Nat
    BY FS_CardinalityType DEF CountInv
  <1>2. /\ IsFiniteSet(Pending(w) \ {c})
        /\ Cardinality(Pending(w) \ {c}) =
             IF c \in Pending(w) THEN Cardinality(Pending(w)) - 1 ELSE Cardinality(Pending(w))
    BY <1>1, FS_RemoveElement
  <1>3. Cardinality(Pending(w) \ {c}) \in Nat
    BY <1>2, FS_CardinalityType
  <1> QED BY <1>1, <1>2, <1>3

\* A call that arrives is pending for every minute.
LEMMA ArrivesCounts ==
  \A c \in Calls, k \in Keys : LimiterInv /\ CountInv /\ Arrive(c, k) => CountInv'
  <1> SUFFICES ASSUME NEW c \in Calls, NEW k \in Keys, LimiterInv, CountInv, Arrive(c, k)
               PROVE  CountInv'
    OBVIOUS
  <1>1. /\ UNCHANGED <<now, counter, bucket, tally>>
        /\ calls < MaxCalls /\ calls' = calls + 1 /\ call[c].state = "none"
        /\ call'[c].state = "arrived"
        /\ \A x \in Calls \ {c} : call'[x] = call[x]
    BY DEF Arrive, LimiterInv, LimiterShape
  <1>2. calls \in Nat /\ calls' \in 0 .. MaxCalls
    BY <1>1, LimiterBounds DEF CountInv
  <1>3. ASSUME NEW w \in Windows
        PROVE  /\ IsFiniteSet(Pending(w)') /\ Cardinality(Pending(w)') \in Nat
               /\ Cardinality(Pending(w)') = Cardinality(Pending(w)) + 1
    <2>1. Pending(w)' = Pending(w) \cup {c} /\ c \notin Pending(w)
      BY <1>1 DEF Pending
    <2>2. IsFiniteSet(Pending(w)) /\ Cardinality(Pending(w)) \in Nat
      BY FS_CardinalityType DEF CountInv
    <2>3. /\ IsFiniteSet(Pending(w) \cup {c})
          /\ Cardinality(Pending(w) \cup {c}) = Cardinality(Pending(w)) + 1
      BY <2>1, <2>2, FS_AddElement
    <2> QED BY <2>1, <2>2, <2>3
  <1>4. \A l \in Keys, w \in Windows : Heard(l, w)' = Heard(l, w)
    BY <1>1 DEF Heard
  <1>5. ASSUME NEW l \in Keys, NEW w \in Windows PROVE Tallies(l, w)'
    BY <1>1, <1>2, <1>3, <1>4, CountNumbers DEF Tallies
  <1>6. ASSUME NEW l \in Keys PROVE bucket'[l].count <= Heard(l, bucket[l].window)'
    BY <1>1 DEF CountInv, Heard
  <1> QED BY <1>2, <1>3, <1>5, <1>6 DEF CountInv

\* A call that Redis has counted is no longer pending.
LEMMA CountedCounts ==
  \A c \in Calls : LimiterInv /\ CountInv /\ Counted(c) => CountInv'
  <1> SUFFICES ASSUME NEW c \in Calls, LimiterInv, CountInv, Counted(c) PROVE CountInv'
    OBVIOUS
  <1>1. call[c].key \in Keys /\ call[c].window \in Windows
    BY CallNumbers DEF Counted
  <1> PICK k \in Keys, w \in Windows : k = call[c].key /\ w = call[c].window
    BY <1>1
  <1>2. /\ UNCHANGED <<now, bucket, calls>> /\ call' = [call EXCEPT ![c] = NoCall]
        /\ call[c].state = "arrived"
        /\ counter' = [counter EXCEPT ![k][w] = @ + 1]
        /\ Decide(k, w, counter[k][w] + 1, "redis", 1, 0)
    BY DEF Counted
  <1>3. counter[k][w] \in Nat /\ LimiterShape
    BY Numbers DEF LimiterInv
  <1>4. /\ counter'[k][w] = counter[k][w] + 1
        /\ \A l \in Keys, v \in Windows : (l # k \/ v # w) => counter'[l][v] = counter[l][v]
    BY <1>2, <1>3 DEF LimiterShape
  <1>5. /\ \A l \in Keys, v \in Windows : (l # k \/ v # w) => tally'[l][v] = tally[l][v]
        /\ Heard(k, w)' = Heard(k, w) + 1
        /\ \/ tally'[k][w].shared = tally[k][w].shared
           \/ tally'[k][w].shared = tally[k][w].shared + 1
        /\ tally'[k][w].own = tally[k][w].own
    <2>1. PICK n \in Nat : n = counter[k][w] + 1
      BY <1>3
    <2>2. Decide(k, w, n, "redis", 1, 0)
      BY <1>2, <2>1
    <2>3. LimiterShape /\ k \in Keys /\ w \in Windows /\ 0 \in Nat /\ 1 \in Nat
      BY <1>3
    <2> QED BY SMTT(30), <2>1, <2>2, <2>3, Decided
  <1>6. call'[c].state = "none" /\ \A x \in Calls \ {c} : call'[x] = call[x]
    BY <1>2, <1>3, CallType DEF LimiterShape
  <1>7. \A v \in Windows : Pending(v)' = Pending(v) \ {c} /\ c \in Pending(v)
    BY <1>2, <1>6 DEF Pending
  <1>8. \A v \in Windows :
          /\ IsFiniteSet(Pending(v)') /\ Cardinality(Pending(v)') \in Nat
          /\ Cardinality(Pending(v)') + 1 = Cardinality(Pending(v))
    BY <1>7, PendingDecided
  <1>9. ASSUME NEW l \in Keys, NEW v \in Windows
        PROVE  /\ Tallies(l, v)' /\ Heard(l, v) \in Nat /\ Heard(l, v)' \in Nat
               /\ Heard(l, v) <= Heard(l, v)'
    <2>1. CASE l # k \/ v # w
      <3>1. /\ tally'[l][v] = tally[l][v] /\ Heard(l, v)' = Heard(l, v)
            /\ counter'[l][v] = counter[l][v] /\ calls' = calls
        BY <1>2, <1>4, <1>5, <2>1 DEF Heard
      <3>2. /\ Cardinality(Pending(v)') \in Nat
            /\ Cardinality(Pending(v)') <= Cardinality(Pending(v))
        BY <1>8, CountNumbers
      <3> QED BY <3>1, <3>2, CountNumbers DEF Tallies
    <2>2. CASE l = k /\ v = w
      <3>1. /\ calls' = calls /\ Cardinality(Pending(w)') \in Nat
            /\ Cardinality(Pending(w)') + 1 = Cardinality(Pending(w))
        BY <1>2, <1>8
      <3>2. Tallies(k, w)' /\ Heard(k, w) \in Nat
        BY <1>4, <1>5, <3>1, CountNumbers DEF Tallies
      <3>3. Heard(k, w) <= Heard(k, w)' /\ Heard(k, w)' \in Nat
        BY <1>5, <3>2
      <3> QED BY <2>2, <3>2, <3>3
    <2> QED BY <2>1, <2>2
  <1>10. ASSUME NEW l \in Keys PROVE bucket'[l].count <= Heard(l, bucket[l].window)'
    <2>1. bucket[l].window \in Windows /\ bucket[l].count \in Nat
      BY <1>3 DEF LimiterShape
    <2> PICK v \in Windows : v = bucket[l].window
      BY <2>1
    <2>2. bucket[l].count <= Heard(l, v)
      BY DEF CountInv
    <2>3. Heard(l, v) <= Heard(l, v)' /\ Heard(l, v) \in Nat /\ Heard(l, v)' \in Nat
      BY <1>9
    <2>4. bucket'[l] = bucket[l] /\ bucket[l].count <= Heard(l, v)'
      BY <1>2, <2>1, <2>2, <2>3
    <2> QED BY <2>4 DEF Heard
  <1> QED BY <1>2, <1>8, <1>9, <1>10 DEF CountInv

\* A call that Redis has counted unheard is pending for other minutes only.
LEMMA UnheardCounts ==
  \A c \in Calls : LimiterInv /\ CountInv /\ Unheard(c) => CountInv'
  <1> SUFFICES ASSUME NEW c \in Calls, LimiterInv, CountInv, Unheard(c) PROVE CountInv'
    OBVIOUS
  <1>1. call[c].key \in Keys /\ call[c].window \in Windows
    BY CallNumbers DEF Unheard
  <1> PICK k \in Keys, w \in Windows : k = call[c].key /\ w = call[c].window
    BY <1>1
  <1> DEFINE t == [tally[k][w] EXCEPT !.counted = @ + 1]
  <1>2. /\ UNCHANGED <<now, bucket, calls>>
        /\ call' = [call EXCEPT ![c] = [call[c] EXCEPT !.state = "unheard"]]
        /\ call[c].state = "arrived"
        /\ counter' = [counter EXCEPT ![k][w] = @ + 1]
        /\ tally' = [tally EXCEPT ![k] = [tally[k] EXCEPT ![w] = t]]
    BY DEF Unheard
  <1>3. LimiterShape
    BY DEF LimiterInv
  <1>4. /\ counter'[k][w] = counter[k][w] + 1
        /\ \A l \in Keys, v \in Windows : (l # k \/ v # w) => counter'[l][v] = counter[l][v]
    BY <1>2, <1>3 DEF LimiterShape
  <1>5. /\ t.counted + t.late = Heard(k, w) + 1 /\ t.shared = tally[k][w].shared
        /\ t.own = tally[k][w].own
    BY <1>3 DEF LimiterShape, TallyRecords, Heard
  <1> HIDE DEF t
  <1>6. /\ \A l \in Keys, v \in Windows : (l # k \/ v # w) => tally'[l][v] = tally[l][v]
        /\ tally'[k][w] = t
    BY <1>2, <1>3 DEF LimiterShape
  <1>7. /\ call'[c].state = "unheard" /\ call'[c].window = w
        /\ \A x \in Calls \ {c} : call'[x] = call[x]
    BY <1>2, <1>3 DEF LimiterShape
  <1>8. ASSUME NEW v \in Windows
        PROVE  /\ IsFiniteSet(Pending(v)') /\ Cardinality(Pending(v)') \in Nat
               /\ Cardinality(Pending(v)') <= Cardinality(Pending(v))
               /\ v = w => Cardinality(Pending(v)') + 1 = Cardinality(Pending(v))
    <2>1. CASE v = w
      <3>1. Pending(v)' = Pending(v) \ {c} /\ c \in Pending(v)
        BY <1>2, <1>7, <2>1 DEF Pending
      <3> QED BY <3>1, PendingDecided
    <2>2. CASE v # w
      <3>1. Pending(v)' = Pending(v)
        BY <1>2, <1>7, <2>2 DEF Pending
      <3>2. IsFiniteSet(Pending(v)) /\ Cardinality(Pending(v)) \in Nat
        BY FS_CardinalityType DEF CountInv
      <3> QED BY <2>2, <3>1, <3>2
    <2> QED BY <2>1, <2>2
  <1>9. ASSUME NEW l \in Keys, NEW v \in Windows
        PROVE  /\ Tallies(l, v)' /\ Heard(l, v) \in Nat
               /\ \/ Heard(l, v)' = Heard(l, v)
                  \/ Heard(l, v)' = Heard(l, v) + 1
    <2>1. CASE l # k \/ v # w
      <3>1. /\ tally'[l][v] = tally[l][v] /\ Heard(l, v)' = Heard(l, v)
            /\ counter'[l][v] = counter[l][v] /\ calls' = calls
        BY <1>2, <1>4, <1>6, <2>1 DEF Heard
      <3> QED BY <1>8, <3>1, CountNumbers DEF Tallies
    <2>2. CASE l = k /\ v = w
      <3>1. /\ calls' = calls /\ Cardinality(Pending(w)') \in Nat
            /\ Cardinality(Pending(w)') + 1 = Cardinality(Pending(w))
        BY <1>2, <1>8
      <3>2. /\ Heard(k, w)' = Heard(k, w) + 1
            /\ tally'[k][w].shared = tally[k][w].shared
            /\ tally'[k][w].own = tally[k][w].own
        BY <1>5, <1>6 DEF Heard
      <3>3. Tallies(k, w)' /\ Heard(k, w) \in Nat
        BY <1>4, <3>1, <3>2, CountNumbers DEF Tallies
      <3> QED BY <2>2, <3>2, <3>3
    <2> QED BY <2>1, <2>2
  <1>10. ASSUME NEW l \in Keys PROVE bucket'[l].count <= Heard(l, bucket[l].window)'
    <2>1. bucket[l].window \in Windows /\ bucket[l].count \in Nat
      BY <1>3 DEF LimiterShape
    <2> PICK v \in Windows : v = bucket[l].window
      BY <2>1
    <2>2. bucket[l].count <= Heard(l, v)
      BY DEF CountInv
    <2>3. bucket'[l] = bucket[l] /\ bucket[l].count <= Heard(l, v)'
      BY <1>2, <1>9, <2>1, <2>2
    <2> QED BY <2>3 DEF Heard
  <1> QED BY <1>2, <1>8, <1>9, <1>10 DEF CountInv

\* A call that is counted in memory is counted for the minute once, unless Redis has
\* counted it for that already.
LEMMA LocalCounts ==
  \A c \in Calls : LimiterInv /\ CountInv /\ CountedLocally(c) => CountInv'
  <1> SUFFICES ASSUME NEW c \in Calls, LimiterInv, CountInv, CountedLocally(c)
               PROVE  CountInv'
    OBVIOUS
  <1>1. /\ call[c].key \in Keys /\ now \in Windows /\ LimiterShape /\ LimiterInv'
        /\ call[c].state \in {"arrived", "unheard"}
    BY CallNumbers, LocalKeeps DEF CountedLocally, LimiterInv, LimiterShape
  <1> PICK k \in Keys : k = call[c].key
    BY <1>1
  <1> PICK w \in Windows : w = now
    BY <1>1
  <1> DEFINE extra == IF call[c].state = "arrived" /\ call[c].window = now THEN 1 ELSE 0
             overdue == IF call[c].window # now THEN 1 ELSE 0
             more == extra + overdue
  <1>2. PICK n \in Nat :
          /\ bucket' = [Cleaned(bucket) EXCEPT ![k] = [window |-> now, count |-> n]]
          /\ Decide(k, now, n, "memory", extra, overdue)
    <2>1. SoFar(Cleaned(bucket)[k]) + 1 \in Nat
      BY CleanedCounts, Numbers, <1>1
    <2> QED BY <2>1 DEF CountedLocally
  <1>3. UNCHANGED <<now, counter, calls>> /\ call' = [call EXCEPT ![c] = NoCall]
    BY DEF CountedLocally
  <1>4. /\ extra \in Nat /\ overdue \in Nat /\ more \in {0, 1}
        /\ c \notin Pending(w) => more = 0
    BY <1>1 DEF Pending
  <1> HIDE DEF extra, overdue
  <1>5. call'[c].state = "none" /\ \A x \in Calls \ {c} : call'[x] = call[x]
    BY <1>1, <1>3, CallType DEF LimiterShape
  <1>6. \A v \in Windows : Pending(v)' = Pending(v) \ {c}
    BY <1>5 DEF Pending
  <1>7. \A v \in Windows :
          /\ IsFiniteSet(Pending(v)') /\ Cardinality(Pending(v)') \in Nat
          /\ Cardinality(Pending(v)') <= Cardinality(Pending(v))
          /\ c \in Pending(v) => Cardinality(Pending(v)') + 1 = Cardinality(Pending(v))
    BY <1>6, PendingDecided
  <1>8. /\ \A l \in Keys, v \in Windows : (l # k \/ v # w) => tally'[l][v] = tally[l][v]
        /\ Heard(k, w)' = Heard(k, w) + more
        /\ tally'[k][w].shared = tally[k][w].shared
    BY <1>1, <1>2, <1>4, Decided
  <1>9. /\ tally'[k][w].own \in Nat /\ Heard(k, w)' \in Nat
        /\ tally'[k][w].own <= Heard(k, w)'
        /\ SoFar(bucket[k])' <= Heard(k, w)'
    <2>1. LimiterShape' /\ IsFiniteSet(UnheardOf(k)') /\ Admits(k, w)' /\ Refuses(k, w)'
      BY <1>1 DEF LimiterInv
    <2>2. tally'[k][w].own \in Nat /\ Heard(k, w)' \in Nat
      BY <2>1 DEF LimiterShape, TallyRecords, Heard
    <2>3. SoFar(bucket[k])' \in Nat
      BY <2>1 DEF LimiterShape, SoFar
    <2>4. Cardinality(UnheardOf(k)') \in Nat
      BY <2>1, FS_CardinalityType
    <2>5. tally'[k][w].own <= SoFar(bucket[k])'
      BY <1>3, <2>1 DEF Admits
    <2>6. SoFar(bucket[k])' + Cardinality(UnheardOf(k)') <= Heard(k, w)'
      BY <1>3, <2>1 DEF Refuses
    <2> QED BY <2>2, <2>3, <2>4, <2>5, <2>6
  <1>10. ASSUME NEW l \in Keys, NEW v \in Windows PROVE Tallies(l, v)'
    <2>1. CASE l # k \/ v # w
      <3>1. /\ tally'[l][v] = tally[l][v] /\ Heard(l, v)' = Heard(l, v)
            /\ counter' = counter /\ calls' = calls
        BY <1>3, <1>8, <2>1 DEF Heard
      <3> QED BY <1>7, <3>1, CountNumbers DEF Tallies
    <2>2. CASE l = k /\ v = w
      <3>1. Cardinality(Pending(w)) \in Nat /\ Cardinality(Pending(w)') \in Nat
        BY <1>7, CountNumbers
      <3>2. Cardinality(Pending(w)') + more <= Cardinality(Pending(w))
        BY <1>4, <1>7, <3>1
      <3>3. counter'[k][w] = counter[k][w] /\ calls' = calls /\ more \in Nat
        BY <1>3, <1>4
      <3>4. Tallies(k, w)'
        BY <1>8, <1>9, <3>1, <3>2, <3>3, CountNumbers DEF Tallies
      <3> QED BY <2>2, <3>4
    <2> QED BY <2>1, <2>2
  <1>11. ASSUME NEW l \in Keys PROVE bucket'[l].count <= Heard(l, bucket[l].window)'
    <2>1. Cleaned(bucket) \in [Keys -> [window : Windows, count : Nat]]
      BY CleanedCounts
    <2>2. CASE l = k
      <3>1. bucket'[k].window = w /\ now' = w
        BY <1>2, <1>3, <2>1
      <3> QED BY <1>9, <2>2, <3>1 DEF SoFar
    <2>3. CASE l # k
      <3>1. bucket'[l] = Cleaned(bucket)[l]
        BY <1>2, <2>1, <2>3
      <3>2. bucket'[l] = bucket[l] \/ bucket'[l] = NoBucket
        BY <3>1 DEF Cleaned
      <3>3. bucket'[l].window \in Windows
        BY <2>1, <3>1
      <3> PICK v \in Windows : v = bucket'[l].window
        BY <3>3
      <3>4. Heard(l, v)' = Heard(l, v) /\ Heard(l, v) \in Nat
        BY <1>8, <2>3, CountNumbers DEF Heard
      <3>5. CASE bucket'[l] = bucket[l]
        <4>1. bucket'[l].count <= Heard(l, v)'
          BY <3>4, <3>5 DEF CountInv
        <4> QED BY <4>1 DEF Heard
      <3>6. CASE bucket'[l] = NoBucket
        <4>1. bucket'[l].count <= Heard(l, v)'
          BY <3>4, <3>6 DEF NoBucket
        <4> QED BY <4>1 DEF Heard
      <3> QED BY <3>2, <3>5, <3>6
    <2> QED BY <2>2, <2>3
  <1> QED BY <1>3, <1>7, <1>10, <1>11 DEF CountInv

\* The clock forgets counters, and counts nothing.
LEMMA TickCounts == LimiterInv /\ CountInv /\ Tick => CountInv'
  <1> SUFFICES ASSUME LimiterInv, CountInv, Tick PROVE CountInv'
    OBVIOUS
  <1>1. UNCHANGED <<bucket, call, calls, tally>>
    BY DEF Tick
  <1>2. \A v \in Windows : Pending(v)' = Pending(v)
    BY <1>1 DEF Pending
  <1>3. ASSUME NEW l \in Keys, NEW v \in Windows PROVE Tallies(l, v)'
    <2>1. counter'[l][v] = counter[l][v] \/ counter'[l][v] = 0
      BY DEF Tick
    <2>2. Heard(l, v)' = Heard(l, v)
      BY <1>1 DEF Heard
    <2> QED BY <1>1, <1>2, <2>1, <2>2, CountNumbers DEF Tallies
  <1>4. ASSUME NEW l \in Keys PROVE bucket'[l].count <= Heard(l, bucket[l].window)'
    BY <1>1 DEF CountInv, Heard
  <1> QED BY <1>1, <1>2, <1>3, <1>4 DEF CountInv

\* With the process its counts and its calls are gone.
LEMMA ForgetCounts == LimiterInv /\ CountInv /\ Forget => CountInv'
  <1> SUFFICES ASSUME LimiterInv, CountInv, Forget PROVE CountInv'
    OBVIOUS
  <1>1. /\ UNCHANGED <<now, counter, calls>> /\ bucket' = [k \in Keys |-> NoBucket]
        /\ call' = [c \in Calls |-> NoCall]
    BY DEF Forget
  <1>2. ASSUME NEW k \in Keys, NEW w \in Windows
        PROVE  /\ Heard(k, w)' = Heard(k, w)
               /\ tally'[k][w].shared = tally[k][w].shared /\ tally'[k][w].own = 0
    <2>1. tally'[k][w] = [tally[k][w] EXCEPT !.own = 0] /\ tally[k][w] \in TallyRecords
      BY DEF Forget, LimiterInv, LimiterShape
    <2> QED BY <2>1 DEF TallyRecords, Heard
  <1>3. \A v \in Windows : Pending(v)' = {}
    BY <1>1, CallType DEF Pending
  <1>4. IsFiniteSet({}) /\ Cardinality({}) = 0
    BY FS_EmptySet
  <1>5. ASSUME NEW l \in Keys, NEW v \in Windows PROVE Tallies(l, v)'
    <2>1. Cardinality(Pending(v)') = 0
      BY <1>3, <1>4
    <2> QED BY <1>1, <1>2, <2>1, CountNumbers DEF Tallies
  <1>6. ASSUME NEW l \in Keys PROVE bucket'[l].count <= Heard(l, bucket[l].window)'
    <2>1. bucket'[l].window = 0 /\ bucket'[l].count = 0 /\ 0 \in Windows
      BY <1>1, WindowsNat DEF NoBucket
    <2>2. Heard(l, 0)' \in Nat
      BY <1>2, <2>1, CountNumbers
    <2> QED BY <2>1, <2>2
  <1> QED BY <1>1, <1>3, <1>4, <1>5, <1>6 DEF CountInv

\* Every step of the process and its calls.
LEMMA CountsKept == Inv /\ CountInv /\ [Next]_vars => CountInv'
  <1> SUFFICES ASSUME Inv, CountInv, [Next]_vars PROVE CountInv'
    OBVIOUS
  <1>1. LimiterInv
    BY DEF Inv
  <1>2. UNCHANGED lvars => CountInv'
    BY DEF lvars, CountInv, Tallies, Pending, Heard
  <1>3. CASE Lives(StartupNext)
    BY <1>1, <1>2, <1>3, ForgetCounts DEF Lives
  <1>4. CASE \E c \in Calls : Serves(c)
    BY <1>1, <1>4, ArrivesCounts, CountedCounts, UnheardCounts, LocalCounts DEF Serves
  <1>5. CASE TimePasses
    BY <1>1, <1>5, TickCounts DEF TimePasses
  <1>6. CASE UNCHANGED vars
    BY <1>2, <1>6 DEF vars
  <1> QED BY <1>3, <1>4, <1>5, <1>6 DEF Next

\* Nothing has come yet, and nothing is counted.
LEMMA CountInit == LimiterInit => CountInv
  <1> SUFFICES ASSUME LimiterInit PROVE CountInv
    OBVIOUS
  <1>1. \A v \in Windows : Pending(v) = {}
    BY DEF LimiterInit, Pending, NoCall
  <1>2. IsFiniteSet({}) /\ Cardinality({}) = 0
    BY FS_EmptySet
  <1>3. calls = 0 /\ calls \in 0 .. MaxCalls
    BY LimiterBounds DEF LimiterInit
  <1>4. ASSUME NEW l \in Keys, NEW v \in Windows PROVE Tallies(l, v)
    <2>1. Cardinality(Pending(v)) = 0
      BY <1>1, <1>2
    <2>2. tally[l][v] = NoTally /\ counter[l][v] = 0
      BY DEF LimiterInit
    <2> QED BY <1>3, <2>1, <2>2 DEF Tallies, Heard, NoTally
  <1>5. ASSUME NEW l \in Keys PROVE bucket[l].count <= Heard(l, bucket[l].window)
    <2>1. bucket[l] = NoBucket /\ tally[l][0] = NoTally
      BY WindowsNat DEF LimiterInit
    <2> QED BY <2>1 DEF NoBucket, NoTally, Heard
  <1> QED BY <1>1, <1>2, <1>3, <1>4, <1>5 DEF CountInv

\* The counts of the limiter are bounded by the calls that came.
LEMMA CountsFit == LimiterInv /\ CountInv => LimiterTypeOK
  <1> SUFFICES ASSUME LimiterInv, CountInv PROVE LimiterTypeOK
    OBVIOUS
  <1>1. calls \in 0 .. MaxCalls /\ MaxCalls \in Nat /\ LimiterShape
    BY LimiterBounds DEF CountInv, LimiterInv
  <1>2. ASSUME NEW k \in Keys, NEW w \in Windows
        PROVE  /\ Heard(k, w) \in 0 .. MaxCalls
               /\ tally[k][w].shared \in 0 .. MaxCalls /\ tally[k][w].own \in 0 .. MaxCalls
               /\ counter[k][w] \in 0 .. MaxCalls
    BY <1>1, CountNumbers
  <1>3. NoCall.key \in Keys
    BY KeysAssumption DEF NoCall
  <1>4. counter \in [Keys -> [Windows -> 0 .. MaxCalls]]
    <2>1. counter \in [Keys -> [Windows -> Nat]]
      BY <1>1 DEF LimiterShape
    <2>2. \A k \in Keys : counter[k] \in [Windows -> 0 .. MaxCalls]
      BY <1>2, <2>1
    <2> QED BY <2>1, <2>2
  <1>5. ASSUME NEW k \in Keys
        PROVE  bucket[k] \in [window : Windows, count : 0 .. MaxCalls]
    <2>1. bucket[k] \in [window : Windows, count : Nat]
      BY <1>1 DEF LimiterShape
    <2> PICK w \in Windows : w = bucket[k].window
      BY <2>1
    <2>2. bucket[k].count <= Heard(k, w)
      BY DEF CountInv
    <2>3. bucket[k].count \in 0 .. MaxCalls
      BY <1>1, <1>2, <2>1, <2>2
    <2> QED BY <2>1, <2>3
  <1> DEFINE Fitting == [counted : 0 .. MaxCalls, late : 0 .. MaxCalls, shared : 0 .. MaxCalls,
                         own : 0 .. MaxCalls, refused : BOOLEAN]
  <1>6. tally \in [Keys -> [Windows -> Fitting]]
    <2>1. tally \in [Keys -> [Windows -> TallyRecords]]
      BY <1>1 DEF LimiterShape
    <2>2. ASSUME NEW k \in Keys, NEW w \in Windows
          PROVE  tally[k][w] \in Fitting
      <3>1. tally[k][w] \in TallyRecords
        BY <2>1
      <3>2. tally[k][w].counted \in 0 .. MaxCalls /\ tally[k][w].late \in 0 .. MaxCalls
        BY <1>1, <1>2, <3>1 DEF TallyRecords, Heard
      <3> QED BY <1>2, <3>1, <3>2 DEF TallyRecords
    <2> QED BY <2>1, <2>2
  <1>7. call \in [Calls -> [state : {"none", "arrived", "unheard"}, key : Keys,
                            window : Windows]]
    BY <1>1, <1>3 DEF LimiterShape
  <1> QED BY <1>1, <1>4, <1>5, <1>6, <1>7 DEF LimiterTypeOK, LimiterShape

\* The variables of the process and its limiter have their types: no counter exceeds the
\* calls that came, although one call may be counted in two places.
THEOREM ServerTypes == Spec => []ServerTypeOK
  <1>1. Init => CountInv
    BY CountInit DEF Init
  <1>2. Inv /\ CountInv => ServerTypeOK
    BY CountsFit DEF Inv, StartupInv, ServerTypeOK
  <1> QED BY <1>1, <1>2, ProcessInvariant, CountsKept, PTL DEF Spec
=============================================================================
