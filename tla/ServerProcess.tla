---------------------------- MODULE ServerProcess ----------------------------
(***************************************************************************)
(* The server process as a whole: while it runs, its limiter counts calls; *)
(* when it ends, the local map of the limiter and the calls in flight end  *)
(* with it, and what Redis and the database hold stays                     *)
(* (backend/cmd/server/main.go, backend/internal/router/router.go).        *)
(***************************************************************************)
EXTENDS Startup, RateLimiter

vars == <<svars, lvars>>

Init == StartupInit /\ LimiterInit

\* A step of the process or its surroundings.  It takes the limiter with it if no
\* process is left after it.
Lives(step) ==
  /\ step
  /\ IF phase' \in {"exited", "halted"} THEN Forget ELSE UNCHANGED lvars

\* The server accepts calls until it is told to stop, and answers those it has.
Serves(c) ==
  /\ \/ phase = "serving" /\ \E k \in Keys : Arrive(c, k)
     \/ /\ phase \in {"serving", "draining"}
        /\ \/ redisUp /\ (Counted(c) \/ Unheard(c))
           \/ CountedLocally(c)
  /\ UNCHANGED svars

TimePasses == Tick /\ UNCHANGED svars

Next ==
  \/ Lives(StartupNext)
  \/ \E c \in Calls : Serves(c)
  \/ TimePasses

\* A start runs on by itself; the container runtime restarts what exited, and
\* restarts the database and Redis as well; Shutdown has a deadline.
Fairness ==
  /\ WF_vars(Lives(StartStep)) /\ WF_vars(Lives(Restart)) /\ WF_vars(Lives(Shutdown))
  /\ WF_vars(Lives(DbUp)) /\ WF_vars(Lives(RedisUp))

Spec == Init /\ [][Next]_vars /\ Fairness

-----------------------------------------------------------------------------
(* Properties. *)

\* The shapes of the two parts.
ServerTypeOK == StartupTypeOK /\ LimiterTypeOK

\* However the starts before it ended, a server that takes requests finds its
\* tables migrated and seeded: none is missing, and none has never had a row.
ServesSeeded ==
  phase \in {"serving", "draining"} =>
    \A t \in Tables \ {"approvals"} : table[t] \in {"filled", "hidden"}

\* The seeded directives have been inserted signed, and their approvals follow in a
\* second statement: a server that lacks the approvals was preceded by a start that
\* ended right between the two, and by nothing else.
UnsignedOnlyAfterCut ==
  phase \in {"serving", "draining"} /\ table["approvals"] = "empty" => cut

\* Unless an operator has halted it, the server comes back whatever fails, or one
\* of its tables has lost its last row.
ComesBackUnlessHidden ==
  []<>(phase \in {"serving", "draining", "halted"} \/ \E t \in Tables : table[t] = "hidden")

\* restart: unless-stopped (docker-compose.yml:43), a container that exits is
\* started again, so that the server comes back whatever fails.
ComesBack == []<>(phase \in {"serving", "draining", "halted"})

\* In one minute the calls of a key are admitted up to the limit by the count they
\* share in Redis, and up to the limit by the memory of a process, however replies
\* are lost and whenever a call is counted after its minute is over.
AdmittedWithinLimit ==
  \A k \in Keys, w \in Windows :
    tally[k][w].shared <= Limit /\ tally[k][w].own <= Limit

\* A client is refused in a minute only if more calls than the limit were counted in
\* it, a call that Redis and then the memory counts once: those sent in that minute,
\* and those sent in the minute before that incrementLocal counts when it is over.
RefusedOnlyOverLimit ==
  \A k \in Keys, w \in Windows :
    tally[k][w].refused => tally[k][w].counted + tally[k][w].late > Limit

\* The map of the limiter grows beyond its limit only with the keys of one minute.
TrackedKeysBounded ==
  Cardinality(Tracked) > CleanAt => Cardinality({bucket[k].window : k \in Tracked}) = 1
=============================================================================
