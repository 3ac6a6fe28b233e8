---------------------------- MODULE ClientSession ----------------------------
(***************************************************************************)
(* The session of one browser tab (frontend/src/hooks/useAuth.ts,          *)
(* frontend/src/api/client.ts).  It is kept twice: in the tab's memory,    *)
(* which decides what is shown, and in local storage, which all tabs share *)
(* and whose token every request carries.  A session is its account: the   *)
(* role it shows only decides which buttons are offered.                   *)
(***************************************************************************)
EXTENDS Naturals

CONSTANTS
  Accounts,
  MaxLost,        \* bound on the answers of a behaviour that are lost or errors
  MaxElsewhere,   \* bound on what other tabs write into the storage
  None            \* no session

ASSUME AccountsAssumption == None \notin Accounts /\ Accounts # {}
ASSUME SessionBounds == MaxLost \in Nat /\ MaxElsewhere \in Nat

VARIABLES
  page,       \* the tab: closed, waiting for bootstrapAuth, or open
  stored,     \* the session in local storage
  shown,      \* session.value of the tab
  lost,       \* how many answers were lost
  elsewhere   \* how often another tab wrote

cvars == <<page, stored, shown, lost, elsewhere>>

SessionTypeOK ==
  /\ page \in {"closed", "booting", "open"}
  /\ stored \in Accounts \cup {None} /\ shown \in Accounts \cup {None}
  /\ lost \in 0 .. MaxLost /\ elsewhere \in 0 .. MaxElsewhere

SessionInit ==
  /\ page = "closed"
  /\ stored = None /\ shown = None
  /\ lost = 0 /\ elsewhere = 0

-----------------------------------------------------------------------------
Lose == lost < MaxLost /\ lost' = lost + 1

\* Nothing is mounted before bootstrapAuth is done; without a stored session it has
\* nothing to ask.
Bootstrap ==
  /\ shown' = stored
  /\ page' = IF stored = None THEN "open" ELSE "booting"
  /\ UNCHANGED <<stored, lost, elsewhere>>

\* The answer of /session is merged into the session that was stored when it was
\* asked for, and stored again, whatever the storage holds by now.
Confirmed ==
  /\ page = "booting" /\ page' = "open"
  /\ stored' = shown
  /\ UNCHANGED <<shown, lost, elsewhere>>

\* Any error ends the session, be it a refused token or a lost answer.
Rejected ==
  /\ page = "booting" /\ page' = "open"
  /\ stored' = None /\ shown' = None
  /\ UNCHANGED elsewhere

\* The server has issued a token.
LoggedIn(account) ==
  /\ page = "open" /\ shown = None
  /\ stored' = account /\ shown' = account
  /\ UNCHANGED <<page, lost, elsewhere>>

\* A wrong password is a 401 like any other.
LoginRefused ==
  /\ page = "open" /\ shown = None
  /\ stored' = None
  /\ UNCHANGED <<page, shown, lost, elsewhere>>

Logout ==
  /\ page = "open" /\ shown # None
  /\ stored' = None /\ shown' = None
  /\ UNCHANGED <<page, lost, elsewhere>>

\* Another tab logs in or out, is answered, or finds the session expired.
OtherTab(session) ==
  /\ elsewhere < MaxElsewhere /\ elsewhere' = elsewhere + 1
  /\ stored # session /\ stored' = session
  /\ UNCHANGED <<page, shown, lost>>

\* client.ts: a 401 empties the storage, and leaves what the tab shows.
Forget401(answer) ==
  /\ stored' = IF answer = "unauthorized" THEN None ELSE stored
  /\ UNCHANGED <<page, shown, elsewhere>>
=============================================================================
