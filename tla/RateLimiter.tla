----------------------------- MODULE RateLimiter -----------------------------
(***************************************************************************)
(* The rate limiter of the server (backend/internal/middleware/            *)
(* ratelimit.go): calls are counted per key and minute in Redis, and in    *)
(* the memory of the process when Redis does not answer.  A key stands for *)
(* a client's address and a route.  A call is decided between its arrival, *)
(* which fixes the minute it is counted for in Redis, and its handler.     *)
(***************************************************************************)
EXTENDS Naturals, FiniteSets

CONSTANTS
  Keys, Calls,   \* calls are the slots of the requests in flight
  Limit,         \* RequestLimit or LoginRequestLimit
  CleanAt,       \* size of the local map from which on it is cleaned (512)
  MaxCalls,      \* bound on the calls of a behaviour
  LastWindow     \* bound on the clock, in minutes

ASSUME LimiterAssumption == Limit \in Nat \ {0} /\ CleanAt \in Nat \ {0}
ASSUME KeysAssumption == Keys # {}
ASSUME LimiterBounds == MaxCalls \in Nat /\ LastWindow \in Nat

VARIABLES
  now,        \* the minute
  counter,    \* Redis: the counter of a key and a minute
  bucket,     \* the local map; a key that is not in it has count 0
  call,       \* the calls that are being counted
  calls,      \* history: how many came
  tally       \* history: what was decided for a key and a minute

lvars == <<now, counter, bucket, call, calls, tally>>

Windows == 0 .. LastWindow

NoBucket == [window |-> 0, count |-> 0]
NoCall == [state |-> "none", key |-> CHOOSE k \in Keys : TRUE, window |-> 0]
\* The calls of the minute counted in it, each once, those of the minute before that
\* were counted in it too late, those admitted by Redis's count and by the count of
\* the process's own memory, and whether any was refused.
NoTally == [counted |-> 0, late |-> 0, shared |-> 0, own |-> 0, refused |-> FALSE]

LimiterTypeOK ==
  /\ now \in Windows
  /\ counter \in [Keys -> [Windows -> 0 .. MaxCalls]]
  /\ bucket \in [Keys -> [window : Windows, count : 0 .. MaxCalls]]
  /\ call \in [Calls -> [state : {"none", "arrived", "unheard"}, key : Keys, window : Windows]]
  /\ calls \in 0 .. MaxCalls
  /\ tally \in [Keys -> [Windows -> [counted : 0 .. MaxCalls, late : 0 .. MaxCalls,
                                     shared : 0 .. MaxCalls, own : 0 .. MaxCalls,
                                     refused : BOOLEAN]]]

LimiterInit ==
  /\ now = 0
  /\ counter = [k \in Keys |-> [w \in Windows |-> 0]]
  /\ bucket = [k \in Keys |-> NoBucket]
  /\ call = [c \in Calls |-> NoCall]
  /\ calls = 0
  /\ tally = [k \in Keys |-> [w \in Windows |-> NoTally]]

Tracked == {k \in Keys : bucket[k].count > 0}

-----------------------------------------------------------------------------
\* A call arrives, and its minute is read from the clock.
Arrive(c, k) ==
  /\ call[c].state = "none"
  /\ calls < MaxCalls /\ calls' = calls + 1
  /\ call' = [call EXCEPT ![c] = [state |-> "arrived", key |-> k, window |-> now]]
  /\ UNCHANGED <<now, counter, bucket, tally>>

\* Mutant of Decide: the last call that the limit allows is refused.
DecideStrictly(k, w, count, by, extra, overdue) ==
  tally' = [tally EXCEPT ![k][w] =
    [counted |-> @.counted + extra, late |-> @.late + overdue,
     shared |-> @.shared + (IF by = "redis" /\ count < Limit THEN 1 ELSE 0),
     own |-> @.own + (IF by = "memory" /\ count < Limit THEN 1 ELSE 0),
     refused |-> @.refused \/ count >= Limit]]

\* A call with key k is decided on its count; by is the counter that counted it, and
\* extra and overdue are what it adds to the tally.
Decide(k, w, count, by, extra, overdue) ==
  tally' = [tally EXCEPT ![k][w] =
    [counted |-> @.counted + extra, late |-> @.late + overdue,
     shared |-> @.shared + (IF by = "redis" /\ count <= Limit THEN 1 ELSE 0),
     own |-> @.own + (IF by = "memory" /\ count <= Limit THEN 1 ELSE 0),
     refused |-> @.refused \/ count > Limit]]

\* Redis runs the transaction of a call and its reply arrives.
Counted(c) ==
  LET k == call[c].key  w == call[c].window
  IN  /\ call[c].state = "arrived"
      /\ counter' = [counter EXCEPT ![k][w] = @ + 1]
      /\ Decide(k, w, counter[k][w] + 1, "redis", 1, 0)
      /\ call' = [call EXCEPT ![c] = NoCall]
      /\ UNCHANGED <<now, bucket, calls>>

\* Redis runs the transaction, but its reply is lost, late, or nobody waits for it.
\* The client does not repeat a transaction it has sent.
Unheard(c) ==
  LET k == call[c].key  w == call[c].window
  IN  /\ call[c].state = "arrived"
      /\ counter' = [counter EXCEPT ![k][w] = @ + 1]
      /\ tally' = [tally EXCEPT ![k][w].counted = @ + 1]
      /\ call' = [call EXCEPT ![c].state = "unheard"]
      /\ UNCHANGED <<now, bucket, calls>>

\* Mutant of Cleaned: the map is allowed one key more.
CleanedLate(b) ==
  [k \in Keys |->
     IF Cardinality(Tracked) > CleanAt /\ b[k].window < now THEN NoBucket ELSE b[k]]

\* cleanupLocal
Cleaned(b) ==
  [k \in Keys |->
     IF Cardinality(Tracked) >= CleanAt /\ b[k].window < now THEN NoBucket ELSE b[k]]

\* What a bucket has counted in this minute.
SoFar(b) == IF b.window = now THEN b.count ELSE 0

\* incrementLocal, under the mutex, with the minute it is by then.
CountedLocally(c) ==
  LET k == call[c].key
      clean == Cleaned(bucket)
      count == SoFar(clean[k]) + 1
      extra == IF call[c].state = "arrived" /\ call[c].window = now THEN 1 ELSE 0
      overdue == IF call[c].window # now THEN 1 ELSE 0
  IN  /\ call[c].state # "none"
      /\ bucket' = [clean EXCEPT ![k] = [window |-> now, count |-> count]]
      /\ Decide(k, now, count, "memory", extra, overdue)
      /\ call' = [call EXCEPT ![c] = NoCall]
      /\ UNCHANGED <<now, counter, calls>>

\* Mutant of Expired: the keys live for one minute.
ExpiredEarly(w, minute) == w + 1 <= minute

\* A counter expires two minutes after it was counted last.
Expired(w, minute) == w + 2 <= minute

\* The next minute.  Redis answers or fails within seconds, so every call is decided
\* before the second minute after its arrival begins.
Tick ==
  /\ now < LastWindow /\ now' = now + 1
  /\ \A c \in Calls : call[c].state # "none" => call[c].window = now
  /\ counter' =
       [k \in Keys |-> [w \in Windows |-> IF Expired(w, now') THEN 0 ELSE counter[k][w]]]
  /\ UNCHANGED <<bucket, call, calls, tally>>

\* A new process: the local map is empty, and its calls are gone with the old one.
Forget ==
  /\ bucket' = [k \in Keys |-> NoBucket]
  /\ call' = [c \in Calls |-> NoCall]
  /\ tally' = [k \in Keys |-> [w \in Windows |-> [tally[k][w] EXCEPT !.own = 0]]]
  /\ UNCHANGED <<now, counter, calls>>
=============================================================================
