------------------------------ MODULE Workspace ------------------------------
(***************************************************************************)
(* The workspace of a user: the tab's session and store, and the server    *)
(* that authenticates every request by its token and reloads the account   *)
(* (backend/internal/middleware/auth.go), lists the record and applies     *)
(* transitions under its version check.  Other users move the record too,  *)
(* accounts are degraded and deactivated, answers are lost and overtaken.  *)
(***************************************************************************)
EXTENDS EntityStore

\* What an account may do; viewers only look.
Standing == {"operator", "viewer", "inactive"}

CONSTANT MaxChanges   \* bound on the changes of accounts

ASSUME ChangesAssumption == MaxChanges \in Nat

VARIABLES
  row,        \* the record's version
  standing,   \* the accounts: what each may do
  changes,    \* how often that changed
  visible,    \* document.visibilityState
  fate        \* history: of the transition a call carries, what its dialog showed and
              \* what became of it, whether its account was entitled to it at any
              \* time since it was sent, and whether it was applied

wvars == <<row, standing, changes, visible, fate>>
vars == <<cvars, evars, wvars>>

\* What became of a dialog: it is open; its user cancelled it with a confirmation under
\* way, or such a confirmation closed it (abandoned); it closed otherwise.
Dialogs == {"none", "open", "abandoned", "closed"}

NoFate == [saw |-> NoVersion, dialog |-> "none", entitled |-> FALSE, applied |-> FALSE]
Fates ==
  [Calls -> [saw : Versions \cup {NoVersion}, dialog : Dialogs, entitled : BOOLEAN,
             applied : BOOLEAN]]

WorkspaceTypeOK ==
  /\ SessionTypeOK /\ StoreTypeOK
  /\ row \in Versions /\ standing \in [Accounts -> Standing] /\ changes \in 0 .. MaxChanges
  /\ visible \in BOOLEAN /\ fate \in Fates

Init ==
  /\ SessionInit /\ StoreInit
  /\ row = 1 /\ standing = [a \in Accounts |-> "operator"] /\ changes = 0
  /\ visible \in BOOLEAN
  /\ fate = [c \in Calls |-> NoFate]

-----------------------------------------------------------------------------
(* The tab. *)

\* A call that is over has no fate.
Kept(fates) ==
  fate' = [c \in Calls |-> IF call'[c].kind = "none" THEN NoFate ELSE fates[c]]

\* The open dialog is gone; how is what becomes of it for the calls confirmed in it.
Shut(how) ==
  [c \in Calls |->
     IF fate[c].dialog = "open" THEN [fate[c] EXCEPT !.dialog = how] ELSE fate[c]]

Open ==
  Bootstrap /\ Reopen /\ Kept(Shut("closed")) /\ UNCHANGED <<row, standing, changes, visible>>

BootAnswer ==
  /\ page = "booting"
  /\ \/ standing[shown] # "inactive" /\ Confirmed
     \/ standing[shown] = "inactive" /\ Rejected /\ UNCHANGED lost
     \/ Rejected /\ Lose
  /\ UNCHANGED <<evars, wvars>>

Login ==
  /\ \/ \E a \in Accounts :
          standing[a] # "inactive" /\ LoggedIn(a)
     \/ LoginRefused
  /\ UNCHANGED <<evars, wvars>>

SignOut ==
  Logout /\ LeavePage /\ fate' = Shut("closed") /\ UNCHANGED <<row, standing, changes, visible>>

\* The tab is hidden, or shown.
Turn == visible' = ~visible /\ UNCHANGED <<cvars, evars, row, standing, changes, fate>>

Poll(c) == Load(c) /\ UNCHANGED <<cvars, wvars>>

\* A confirmed transition leaves with the storage's token.  (At the bound of the
\* record's version nothing is confirmed.)
Send(c) ==
  /\ pending < LastVersion
  /\ Confirm(c)
  /\ fate' = [fate EXCEPT ![c] =
       [saw |-> pending, dialog |-> "open", applied |-> FALSE,
        entitled |-> stored # None /\ standing[stored] = "operator"]]
  /\ UNCHANGED <<cvars, row, standing, changes, visible>>

Click ==
  /\ \/ (Select \/ Dismiss) /\ fate' = fate
     \/ Cancel /\ fate' = Shut("abandoned")
  /\ UNCHANGED <<cvars, row, standing, changes, visible>>

Hear(c) ==
  /\ Settle(c)
  /\ Kept(IF pending' = pending THEN fate
          ELSE Shut(IF fate[c].dialog = "open" THEN "closed" ELSE fate[c].dialog))
  /\ UNCHANGED <<lost, row, standing, changes, visible>>

-----------------------------------------------------------------------------
(* The network and the server. *)

\* The answer is on its way, if anybody waits for it; what was sent is done with.
Answered(c, answer, version) ==
  call' = [call EXCEPT ![c] =
    IF @.waits = "nobody" THEN NoCall
    ELSE [@ EXCEPT !.state = "answered", !.answer = answer, !.version = version,
                   !.token = None, !.sent = NoVersion]]

OnCall == UNCHANGED <<cvars, item, error, pending, visible>>

\* Mutant of RoleOf: the role that the token names, of a time when it was an operator's.
ClaimedRole(token) == IF standing[token] = "inactive" THEN "inactive" ELSE "operator"

\* Authenticate: the role of the account by now, not the one the token names.
RoleOf(token) == standing[token]

\* Authenticate and RequireRoles.  A list is read at once, a transition later.
Admit(c) ==
  LET role == IF call[c].token = None THEN "inactive" ELSE RoleOf(call[c].token)
  IN  /\ call[c].state = "sent"
      /\ \/ role = "inactive" /\ Answered(c, "unauthorized", NoVersion)
         \/ /\ role # "inactive" /\ call[c].kind # "move"
            /\ Answered(c, "ok", row)
         \/ /\ role = "viewer" /\ call[c].kind = "move"
            /\ Answered(c, "refused", NoVersion)
         \/ /\ role = "operator" /\ call[c].kind = "move"
            /\ call' = [call EXCEPT ![c].state = "admitted"]
      /\ Kept(fate)
      /\ OnCall /\ UNCHANGED <<row, standing, changes>>

\* Mutant of Apply: the row is updated whatever its version.
ApplyUnchecked(c) ==
  /\ call[c].state = "admitted"
  /\ row' = row + 1
  /\ Answered(c, "ok", NoVersion)
  /\ Kept([fate EXCEPT ![c].applied = TRUE])
  /\ OnCall /\ UNCHANGED <<standing, changes>>

\* The transition is applied if its version check passes.
Apply(c) ==
  /\ call[c].state = "admitted"
  /\ \/ /\ call[c].sent = row /\ row' = row + 1
        /\ Answered(c, "ok", NoVersion)
        /\ Kept([fate EXCEPT ![c].applied = TRUE])
     \/ /\ call[c].sent # row /\ row' = row
        /\ Answered(c, "refused", NoVersion)
        /\ Kept(fate)
  /\ OnCall /\ UNCHANGED <<standing, changes>>

\* A call is lost on its way, refused for its rate, or its answer is lost.
Vanish(c) ==
  /\ call[c].state \in {"sent", "answered"} /\ call[c].answer # "refused"
  /\ call[c].waits # "nobody"
  /\ Lose /\ Answered(c, "refused", NoVersion)
  /\ UNCHANGED <<page, stored, shown, elsewhere, item, error, pending, wvars>>

\* Somebody else moves the record.
OtherUser ==
  /\ row < LastVersion /\ row' = row + 1
  /\ UNCHANGED <<cvars, evars, standing, changes, visible, fate>>

\* An account is degraded, deactivated, or given its role back.
ChangeAccount(a, s) ==
  /\ changes < MaxChanges /\ changes' = changes + 1
  /\ standing[a] # s /\ standing' = [standing EXCEPT ![a] = s]
  /\ fate' = [c \in Calls |->
       IF s = "operator" /\ call[c].kind = "move" /\ call[c].token = a
       THEN [fate[c] EXCEPT !.entitled = TRUE] ELSE fate[c]]
  /\ UNCHANGED <<cvars, evars, row, visible>>

Elsewhere ==
  /\ \E session \in Accounts \cup {None} : OtherTab(session)
  /\ UNCHANGED <<evars, wvars>>

-----------------------------------------------------------------------------
\* The server and the tab go on with a call.
Proceed(c) == Admit(c) \/ Apply(c) \/ Hear(c)

Next ==
  \/ Open \/ BootAnswer \/ Login \/ SignOut \/ Turn \/ Click
  \/ \E c \in Calls : Poll(c) \/ Send(c) \/ Proceed(c) \/ Vanish(c)
  \/ OtherUser \/ Elsewhere
  \/ \E a \in Accounts, s \in Standing : ChangeAccount(a, s)

\* The interval of usePolling: it loads only in a tab that is shown (usePolling.ts:8),
\* and is cleared with the page (usePolling.ts:16).
Interval == visible /\ \E c \in Calls : Poll(c)

\* Requests are answered, and answers handled.  The interval comes again and again; that
\* it finds a free slot then is due to the model's few slots (strong fairness), a
\* browser always has one.
Fairness == SF_vars(Interval) /\ \A c \in Calls : WF_vars(Proceed(c))

Spec == Init /\ [][Next]_vars /\ Fairness

-----------------------------------------------------------------------------
(* Properties. *)

\* A transition that the server applies was confirmed in a dialog that showed the
\* record as it is at that moment, whatever was loaded or moved meanwhile, and
\* however often the button was pressed: a second press of one dialog applies nothing.
AppliedAsShown ==
  [][\A c \in Calls :
       Apply(c) /\ row' # row => row = fate[c].saw]_vars

\* A dialog closes by itself only when a transition confirmed in that very dialog was
\* applied: a conflict, a lost answer or a missing role never look like success.  The
\* exception is a user who has cancelled an earlier dialog with its confirmation under
\* way: when that goes through, EntityPage.vue:123 closes the dialog that is open by
\* then, although its own confirmation may have met a conflict.
ClosedMeansApplied ==
  [][\A c \in Calls :
       Hear(c) /\ pending' # pending =>
         fate[c].applied /\ fate[c].dialog \in {"open", "abandoned"}]_vars

\* README.md:26: the tokens of a deactivated or degraded account are powerless from
\* the next request on.  A transition is applied only if its account was entitled to
\* it at some time after it was sent, whatever its token says.
RevokedTokensPowerless ==
  [][\A c \in Calls : Apply(c) /\ row' # row => fate[c].entitled]_vars

CanLoad ==
  page = "open" /\ visible /\ shown # None /\ stored # None /\ standing[stored] # "inactive"

\* Although answers overtake each other and some are lost, a tab that stays in sight and
\* keeps a valid session shows the record as it is in the end.  (A hidden tab loads
\* nothing, and may show what it has for as long as it is hidden.)
EventuallyFresh == <>[]CanLoad => <>[](item = row)
=============================================================================
