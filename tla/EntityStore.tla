----------------------------- MODULE EntityStore -----------------------------
(***************************************************************************)
(* A page of the workspace and its store, for one record                   *)
(* (frontend/src/stores/factory.ts, frontend/src/components/EntityPage.vue, *)
(* frontend/src/hooks/usePolling.ts).  A record is its version.  Loads and *)
(* transitions are asynchronous: several are under way at once, and are    *)
(* answered in any order.                                                  *)
(***************************************************************************)
EXTENDS ClientSession

CONSTANTS
  Calls,        \* slots of the calls under way
  LastVersion   \* bound on the record's version

ASSUME VersionAssumption == LastVersion \in Nat \ {0}

VARIABLES
  item,       \* the record in the store, as it was answered last
  error,      \* whether the store shows an error
  pending,    \* the record the open dialog was opened with
  call        \* the calls under way

evars == <<item, error, pending, call>>

Versions == 1 .. LastVersion
NoVersion == 0

\* What waits for an answer: the page, only the store (the page is left), or nobody.
Waiting == {"page", "store", "nobody"}

\* After a transition its call goes on as the load that follows it.
NoCall ==
  [kind |-> "none", state |-> "idle", waits |-> "nobody", token |-> None,
   sent |-> NoVersion, answer |-> "none", version |-> NoVersion]
CallRecords ==
  [kind : {"none", "load", "move", "reload"},
   state : {"idle", "sent", "admitted", "answered"}, waits : Waiting,
   token : Accounts \cup {None}, sent : Versions \cup {NoVersion},
   answer : {"none", "ok", "refused", "unauthorized"},
   version : Versions \cup {NoVersion}]

StoreTypeOK ==
  /\ item \in Versions \cup {NoVersion} /\ error \in BOOLEAN
  /\ pending \in Versions \cup {NoVersion}
  /\ call \in [Calls -> CallRecords]

StoreInit ==
  /\ item = NoVersion /\ error = FALSE /\ pending = NoVersion
  /\ call = [c \in Calls |-> NoCall]

-----------------------------------------------------------------------------
InUse == page = "open" /\ shown # None

\* request: with the token that is stored by now, if any.
Request(kind, waits, sent) ==
  [NoCall EXCEPT !.kind = kind, !.state = "sent", !.waits = waits, !.token = stored,
                 !.sent = sent]

\* Mutant of Load: an error ends the polling.
LoadUnlessError(c) ==
  /\ InUse /\ call[c].kind = "none" /\ ~error
  /\ call' = [call EXCEPT ![c] = Request("load", "page", NoVersion)]
  /\ UNCHANGED <<item, error, pending>>

\* load: at mount, by the timer, or by a button.
Load(c) ==
  /\ InUse /\ call[c].kind = "none"
  /\ error' = FALSE
  /\ call' = [call EXCEPT ![c] = Request("load", "page", NoVersion)]
  /\ UNCHANGED <<item, pending>>

\* selectTransition: the dialog covers the table.
Select ==
  /\ InUse /\ pending = NoVersion /\ item # NoVersion
  /\ pending' = item
  /\ UNCHANGED <<item, error, call>>

Cancel ==
  /\ InUse /\ pending # NoVersion
  /\ pending' = NoVersion
  /\ UNCHANGED <<item, error, call>>

\* Mutant of ExpectedVersion: the version of the list instead of the dialog's.
ListedVersion == item

ExpectedVersion == pending

\* confirmTransition.  Nothing keeps the button from being pressed again.
Confirm(c) ==
  /\ InUse /\ pending # NoVersion /\ call[c].kind = "none"
  /\ error' = FALSE
  /\ call' = [call EXCEPT ![c] = Request("move", "page", ExpectedVersion)]
  /\ UNCHANGED <<item, pending>>

\* The alert is closed.
Dismiss ==
  /\ InUse /\ error /\ error' = FALSE
  /\ UNCHANGED <<item, pending, call>>

\* A list arrives, in whatever order they were asked for.  A confirmation whose
\* load leaves no error closes the dialog, whichever is open.
Loaded(c) ==
  /\ item' = call[c].version
  /\ pending' = IF call[c].kind = "reload" /\ call[c].waits = "page" /\ ~error
                THEN NoVersion ELSE pending
  /\ call' = [call EXCEPT ![c] = NoCall]
  /\ UNCHANGED error

\* The transition went through; the store loads again, with no error yet.
Moved(c) ==
  /\ error' = FALSE
  /\ call' = [call EXCEPT ![c] = Request("reload", @.waits, NoVersion)]
  /\ UNCHANGED <<item, pending>>

\* Mutant of Failed: the list is loaded again after an error as well.
FailedAndLoaded(c) ==
  /\ error' = FALSE
  /\ call' = [call EXCEPT ![c] = Request("reload", @.waits, NoVersion)]
  /\ UNCHANGED <<item, pending>>

\* The error is shown, and the dialog stays.
Failed(c) ==
  /\ error' = TRUE
  /\ call' = [call EXCEPT ![c] = NoCall]
  /\ UNCHANGED <<item, pending>>

\* The promise of a call is settled.
Settle(c) ==
  /\ call[c].state = "answered"
  /\ \/ call[c].answer = "ok" /\ call[c].kind = "move" /\ Moved(c)
     \/ call[c].answer = "ok" /\ call[c].kind # "move" /\ Loaded(c)
     \/ call[c].answer # "ok" /\ Failed(c)
  /\ Forget401(call[c].answer)

\* The page is left: its dialog is gone, the store still takes the answers.
LeavePage ==
  /\ pending' = NoVersion
  /\ call' = [c \in Calls |->
       IF call[c].waits = "page" THEN [call[c] EXCEPT !.waits = "store"] ELSE call[c]]
  /\ UNCHANGED <<item, error>>

\* The tab is loaded anew: nobody waits for the transitions under way, and nothing
\* comes of other calls.
Reopen ==
  /\ item' = NoVersion /\ error' = FALSE /\ pending' = NoVersion
  /\ call' = [c \in Calls |->
       IF call[c].kind = "move" /\ call[c].state # "answered"
       THEN [call[c] EXCEPT !.waits = "nobody"] ELSE NoCall]
=============================================================================
