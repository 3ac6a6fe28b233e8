--------------------------- MODULE WorkspaceProofs ---------------------------
(***************************************************************************)
(* The safety properties of Workspace for any number of accounts, calls,   *)
(* versions and disturbances.  What a call carries and what its history    *)
(* says of it fit together at every step: Faithful, with the types.  What  *)
(* becomes of dialogs is Dialogues.                                        *)
(***************************************************************************)
EXTENDS Workspace, TLAPS

\* What is known of the call c, from its confirmation to its last answer.
FaithfulCall(c) ==
  LET k == call[c]
  IN  /\ k.state = "admitted" => k.kind = "move" /\ fate[c].entitled
      /\ k.kind = "move" /\ k.state \in {"sent", "admitted"} =>
           k.sent = fate[c].saw /\ k.sent < LastVersion
      /\ k.kind = "move" /\ k.state = "sent" /\ k.token # None
           /\ standing[k.token] = "operator" => fate[c].entitled
      /\ k.kind = "move" /\ k.state = "answered" /\ k.answer = "ok" => fate[c].applied
      /\ k.kind = "reload" => fate[c].applied

Faithful == \A c \in Calls : FaithfulCall(c)

Inv == WorkspaceTypeOK /\ Faithful

\* What the history of one transition says but for its dialog.
Same(f, g) == f.saw = g.saw /\ f.entitled = g.entitled /\ f.applied = g.applied

-----------------------------------------------------------------------------
\* Empty calls and new requests are well-formed.
LEMMA RequestType ==
  ASSUME stored \in Accounts \cup {None},
         NEW kind \in {"load", "move", "reload"}, NEW w \in Waiting,
         NEW sent \in Versions \cup {NoVersion}
  PROVE  /\ NoCall \in CallRecords
         /\ Request(kind, w, sent) \in CallRecords
         /\ Request(kind, w, sent).kind = kind
         /\ Request(kind, w, sent).state = "sent"
         /\ Request(kind, w, sent).token = stored
         /\ Request(kind, w, sent).sent = sent
  <1>1. NoCall \in CallRecords
    BY DEF NoCall, CallRecords, Waiting
  <1>2. Request(kind, w, sent) \in CallRecords
    BY <1>1 DEF Request, CallRecords
  <1>3. /\ Request(kind, w, sent).kind = kind
        /\ Request(kind, w, sent).state = "sent"
        /\ Request(kind, w, sent).token = stored
        /\ Request(kind, w, sent).sent = sent
    BY DEF Request, NoCall
  <1> QED BY <1>1, <1>2, <1>3

\* The first state: no call is under way.
LEMMA InitInv == Init => Inv
  <1> SUFFICES ASSUME Init PROVE Inv
    OBVIOUS
  <1>1. SessionTypeOK
    BY SessionBounds DEF Init, SessionInit, SessionTypeOK
  <1>2. StoreTypeOK
    <2>1. NoCall \in CallRecords
      BY DEF NoCall, CallRecords, Waiting
    <2> QED BY <2>1 DEF Init, StoreInit, StoreTypeOK
  <1>3. /\ row \in Versions /\ standing \in [Accounts -> Standing]
        /\ changes \in 0 .. MaxChanges
    BY VersionAssumption, ChangesAssumption DEF Init, Versions, Standing
  <1>4. visible \in BOOLEAN /\ fate \in Fates
    BY DEF Init, NoFate, Fates, Dialogs
  <1>5. Faithful
    BY DEF Init, StoreInit, NoCall, Faithful, FaithfulCall
  <1> QED BY <1>1, <1>2, <1>3, <1>4, <1>5 DEF Inv, WorkspaceTypeOK

\* A step that leaves the calls, their history and the accounts as they are, but for
\* dialogs.
LEMMA Undisturbed ==
  ASSUME Inv, UNCHANGED <<call, standing>>, \A x \in Calls : Same(fate'[x], fate[x])
  PROVE  Faithful'
  BY DEF Inv, Faithful, FaithfulCall, Same

\* Closing a dialog leaves the rest of the history alone.
LEMMA ShutSame ==
  ASSUME Inv, NEW how \in Dialogs
  PROVE  Shut(how) \in Fates /\ \A x \in Calls : Same(Shut(how)[x], fate[x])
  <1>1. fate \in Fates
    BY DEF Inv, WorkspaceTypeOK
  <1>2. ASSUME NEW x \in Calls
        PROVE  /\ Shut(how)[x] \in [saw : Versions \cup {NoVersion}, dialog : Dialogs,
                                     entitled : BOOLEAN, applied : BOOLEAN]
               /\ Same(Shut(how)[x], fate[x])
    BY <1>1 DEF Shut, Same, Fates
  <1> QED BY <1>2 DEF Shut, Fates

\* The history stays well-formed when it drops the calls that are over.
LEMMA KeptType ==
  ASSUME NEW fates \in Fates, Kept(fates)
  PROVE  fate' \in Fates
  BY DEF Kept, Fates, NoFate, Dialogs

\* What Inv says of the variables that calls and their history are made of.
LEMMA InvTypes ==
  ASSUME Inv
  PROVE  call \in [Calls -> CallRecords] /\ fate \in Fates
  BY DEF Inv, WorkspaceTypeOK, StoreTypeOK

\* A step that changes one call, and of the history only that call's or what is over,
\* leaves the other calls faithful.
LEMMA OneCall ==
  ASSUME Inv, NEW c \in Calls, NEW k \in CallRecords, UNCHANGED standing,
         call' = [call EXCEPT ![c] = k],
         \A x \in Calls \ {c} : call[x].kind = "none" \/ Same(fate'[x], fate[x])
  PROVE  /\ call' \in [Calls -> CallRecords] /\ call'[c] = k
         /\ FaithfulCall(c)' => Faithful'
  <1>1. call' \in [Calls -> CallRecords] /\ call'[c] = k
    BY InvTypes
  <1>2. ASSUME NEW x \in Calls \ {c}
        PROVE  FaithfulCall(x)'
    <2>1. call'[x] = call[x] /\ FaithfulCall(x)
      BY InvTypes DEF Inv, Faithful
    <2> QED BY <2>1 DEF FaithfulCall, Same
  <1> QED BY <1>1, <1>2 DEF Faithful

\* What Kept leaves of the other calls.
LEMMA KeptOthers ==
  ASSUME Inv, NEW c \in Calls, NEW k, call' = [call EXCEPT ![c] = k],
         NEW fates \in Fates, \A x \in Calls \ {c} : Same(fates[x], fate[x]), Kept(fates)
  PROVE  /\ \A x \in Calls \ {c} : call[x].kind = "none" \/ Same(fate'[x], fate[x])
         /\ fate' \in Fates
         /\ fate'[c] = IF k.kind = "none" THEN NoFate ELSE fates[c]
  <1>1. call'[c] = k /\ \A x \in Calls \ {c} : call'[x] = call[x]
    BY InvTypes
  <1> QED BY <1>1, KeptType DEF Kept

-----------------------------------------------------------------------------
(* The tab. *)

\* Steps of the tab that touch no call.
LEMMA TabKeeps ==
  ASSUME Inv, BootAnswer \/ Login \/ Turn \/ Click \/ OtherUser \/ Elsewhere
  PROVE  Inv'
  <1>1. UNCHANGED <<call, standing>> /\ (UNCHANGED fate \/ fate' = Shut("abandoned"))
    BY DEF BootAnswer, Login, Turn, Click, OtherUser, Elsewhere, evars, wvars, cvars,
           Select, Cancel, Dismiss
  <1>2. fate' \in Fates /\ \A x \in Calls : Same(fate'[x], fate[x])
    BY <1>1, InvTypes, ShutSame DEF Same, Dialogs
  <1>3. visible' \in BOOLEAN
    BY DEF BootAnswer, Login, Turn, Click, OtherUser, Elsewhere, wvars, Inv, WorkspaceTypeOK
  <1>4. SessionTypeOK'
    BY SessionBounds
    DEF Inv, WorkspaceTypeOK, SessionTypeOK, BootAnswer, Login, Turn, Click, OtherUser, Elsewhere,
        cvars, Confirmed, Rejected, Lose, LoggedIn, LoginRefused, OtherTab,
        Select, Cancel, Dismiss
  <1>5. StoreTypeOK'
    BY <1>1
    DEF Inv, WorkspaceTypeOK, StoreTypeOK, BootAnswer, Login, Turn, Click, OtherUser, Elsewhere,
        evars, Select, Cancel, Dismiss
  <1>6. row' \in Versions /\ changes' \in 0 .. MaxChanges
    BY VersionAssumption
    DEF Inv, WorkspaceTypeOK, Versions, BootAnswer, Login, Turn, Click, OtherUser, Elsewhere, wvars,
        Select, Cancel, Dismiss
  <1> QED BY <1>1, <1>4, <1>5, <1>6, <1>2, <1>3, Undisturbed DEF Inv, WorkspaceTypeOK

\* Opening the tab forgets its calls, but for the transitions that the server may still
\* apply.
LEMMA OpenKeeps == Inv /\ Open => Inv'
  <1> SUFFICES ASSUME Inv, Open PROVE Inv'
    OBVIOUS
  <1>1. NoCall \in CallRecords
    BY DEF NoCall, CallRecords, Waiting
  <1>2. call' \in [Calls -> CallRecords]
    <2>1. ASSUME NEW x \in Calls
          PROVE  [call[x] EXCEPT !.waits = "nobody"] \in CallRecords
      BY InvTypes DEF CallRecords, Waiting
    <2> QED BY <1>1, <2>1 DEF Open, Reopen
  <1>3. fate' \in Fates
    BY ShutSame, KeptType DEF Open, Dialogs
  <1>4. SessionTypeOK'
    BY DEF Open, Bootstrap, Inv, WorkspaceTypeOK, SessionTypeOK
  <1>5. WorkspaceTypeOK'
    BY <1>2, <1>3, <1>4 DEF Open, Reopen, Inv, WorkspaceTypeOK, StoreTypeOK
  <1>6. ASSUME NEW x \in Calls
        PROVE  FaithfulCall(x)'
    <2>1. CASE call[x].kind = "move" /\ call[x].state # "answered"
      <3>1. call'[x] = [call[x] EXCEPT !.waits = "nobody"] /\ call[x] \in CallRecords
        BY <2>1, InvTypes DEF Open, Reopen
      <3>2. /\ call'[x].kind = call[x].kind /\ call'[x].state = call[x].state
            /\ call'[x].sent = call[x].sent /\ call'[x].token = call[x].token
            /\ call'[x].answer = call[x].answer
        BY <3>1 DEF CallRecords
      <3>3. Same(fate'[x], fate[x]) /\ standing' = standing
        BY <2>1, <3>2, ShutSame DEF Open, Kept, Dialogs
      <3>4. FaithfulCall(x)
        BY DEF Inv, Faithful
      <3> QED BY <3>2, <3>3, <3>4 DEF FaithfulCall, Same
    <2>2. CASE ~(call[x].kind = "move" /\ call[x].state # "answered")
      <3>1. call'[x] = NoCall
        BY <2>2 DEF Open, Reopen
      <3> QED BY <3>1 DEF FaithfulCall, NoCall
    <2> QED BY <2>1, <2>2
  <1> QED BY <1>5, <1>6 DEF Inv, Faithful

\* Signing out leaves the calls to the store.
LEMMA SignOutKeeps == Inv /\ SignOut => Inv'
  <1> SUFFICES ASSUME Inv, SignOut PROVE Inv'
    OBVIOUS
  <1>1. ASSUME NEW x \in Calls
        PROVE  /\ call'[x] \in CallRecords
               /\ call'[x].kind = call[x].kind /\ call'[x].state = call[x].state
               /\ call'[x].sent = call[x].sent /\ call'[x].token = call[x].token
               /\ call'[x].answer = call[x].answer
    <2>1. call[x] \in CallRecords
      BY InvTypes
    <2>2. call'[x] = IF call[x].waits = "page" THEN [call[x] EXCEPT !.waits = "store"]
                                               ELSE call[x]
      BY DEF SignOut, LeavePage
    <2> QED BY <2>1, <2>2 DEF CallRecords, Waiting
  <1>2. call' \in [Calls -> CallRecords]
    BY <1>1 DEF SignOut, LeavePage
  <1>3. WorkspaceTypeOK'
    BY <1>2, ShutSame
    DEF SignOut, Logout, LeavePage, Dialogs, Inv, WorkspaceTypeOK, SessionTypeOK, StoreTypeOK
  <1>4. Faithful'
    <2>1. UNCHANGED standing /\ \A x \in Calls : Same(fate'[x], fate[x])
      BY ShutSame DEF SignOut, Dialogs
    <2> QED BY <1>1, <2>1 DEF Inv, Faithful, FaithfulCall, Same
  <1> QED BY <1>3, <1>4 DEF Inv

\* A poll carries nothing.
LEMMA PollKeeps == \A c \in Calls : Inv /\ Poll(c) => Inv'
  <1> SUFFICES ASSUME NEW c \in Calls, Inv, Poll(c) PROVE Inv'
    OBVIOUS
  <1> DEFINE k == Request("load", "page", NoVersion)
  <1>1. stored \in Accounts \cup {None} /\ "page" \in Waiting
    BY DEF Inv, WorkspaceTypeOK, SessionTypeOK, Waiting
  <1>2. k \in CallRecords /\ k.kind = "load" /\ k.state = "sent"
    BY <1>1, RequestType
  <1>3. UNCHANGED <<fate, standing>> /\ call' = [call EXCEPT ![c] = k]
    BY DEF Poll, Load, wvars
  <1> HIDE DEF k
  <1>4. call' \in [Calls -> CallRecords] /\ call'[c] = k /\ (FaithfulCall(c)' => Faithful')
    BY <1>2, <1>3, OneCall DEF Same
  <1>5. FaithfulCall(c)'
    BY <1>2, <1>4 DEF FaithfulCall
  <1>6. WorkspaceTypeOK'
    BY <1>4 DEF Poll, Load, cvars, wvars, Inv, WorkspaceTypeOK, SessionTypeOK, StoreTypeOK
  <1> QED BY <1>4, <1>5, <1>6 DEF Inv

\* A transition is sent as its dialog shows it.
LEMMA SendKeeps == \A c \in Calls : Inv /\ Send(c) => Inv'
  <1> SUFFICES ASSUME NEW c \in Calls, Inv, Send(c) PROVE Inv'
    OBVIOUS
  <1> DEFINE k == Request("move", "page", pending)
             entitled == stored # None /\ standing[stored] = "operator"
             f(e) == [saw |-> pending, dialog |-> "open", applied |-> FALSE, entitled |-> e]
  <1>1. /\ stored \in Accounts \cup {None} /\ "page" \in Waiting
        /\ pending \in Versions \cup {NoVersion} /\ pending < LastVersion
    BY DEF Inv, WorkspaceTypeOK, SessionTypeOK, StoreTypeOK, Waiting, Send
  <1>2. k \in CallRecords /\ k.kind = "move" /\ k.state = "sent" /\ k.sent = pending
        /\ k.token = stored
    BY <1>1, RequestType
  <1>3. UNCHANGED standing /\ call' = [call EXCEPT ![c] = k]
    BY DEF Send, Confirm, ExpectedVersion
  <1>4. /\ fate' \in Fates /\ fate'[c].saw = pending
        /\ entitled => fate'[c].entitled
        /\ \A x \in Calls \ {c} : fate'[x] = fate[x]
    <2>1. \A e \in BOOLEAN :
            f(e) \in [saw : Versions \cup {NoVersion}, dialog : Dialogs, entitled : BOOLEAN,
                     applied : BOOLEAN]
      BY <1>1 DEF Dialogs
    <2>2. fate' = [fate EXCEPT ![c] = f(entitled)]
      BY DEF Send
    <2>3. PICK e \in BOOLEAN : e = entitled
      OBVIOUS
    <2>4. fate' = [fate EXCEPT ![c] = f(e)]
      BY <2>2, <2>3, Zenon
    <2>5. fate' = [fate EXCEPT ![c] = f(e)] /\ f(e).saw = pending /\ f(e).entitled = e
      BY <2>4
    <2> HIDE DEF f
    <2> QED BY <2>1, <2>3, <2>5, InvTypes DEF Fates
  <1> HIDE DEF k
  <1>5. call' \in [Calls -> CallRecords] /\ call'[c] = k /\ (FaithfulCall(c)' => Faithful')
    BY <1>2, <1>3, <1>4, OneCall DEF Same
  <1>6. FaithfulCall(c)'
    BY <1>1, <1>2, <1>3, <1>4, <1>5 DEF FaithfulCall
  <1>7. WorkspaceTypeOK'
    BY <1>4, <1>5
    DEF Send, Confirm, cvars, Inv, WorkspaceTypeOK, SessionTypeOK, StoreTypeOK
  <1> QED BY <1>5, <1>6, <1>7 DEF Inv

-----------------------------------------------------------------------------
(* The server and the network. *)

\* An answered call is well-formed, and carries no version or token any more.
LEMMA AnsweredType ==
  ASSUME Inv, NEW c \in Calls, NEW answer \in {"ok", "refused", "unauthorized"},
         NEW version \in Versions \cup {NoVersion}, Answered(c, answer, version)
  PROVE  \E k \in CallRecords :
           /\ call' = [call EXCEPT ![c] = k]
           /\ \/ k = NoCall
              \/ k.kind = call[c].kind /\ k.state = "answered" /\ k.answer = answer
  <1> DEFINE a == [call[c] EXCEPT !.state = "answered", !.answer = answer,
                                  !.version = version, !.token = None,
                                  !.sent = NoVersion]
  <1>1. call[c] \in CallRecords
    BY InvTypes
  <1>2. NoCall \in CallRecords
    BY DEF NoCall, CallRecords, Waiting
  <1>3. a \in CallRecords /\ a.kind = call[c].kind /\ a.state = "answered"
        /\ a.answer = answer
    BY <1>1 DEF CallRecords
  <1>4. call' = [call EXCEPT ![c] = IF call[c].waits = "nobody" THEN NoCall ELSE a]
    BY DEF Answered
  <1> HIDE DEF a
  <1> QED BY <1>2, <1>3, <1>4

\* A call that is answered, and whose history says it was applied if the answer says so,
\* is faithful.
LEMMA AnsweredFaithful ==
  ASSUME Inv, NEW c \in Calls, NEW answer \in {"ok", "refused", "unauthorized"},
         NEW version \in Versions \cup {NoVersion}, Answered(c, answer, version),
         UNCHANGED standing,
         NEW fates \in Fates, \A x \in Calls \ {c} : Same(fates[x], fate[x]), Kept(fates),
         call[c].kind = "reload" => fates[c].applied,
         call[c].kind = "move" /\ answer = "ok" => fates[c].applied
  PROVE  call' \in [Calls -> CallRecords] /\ fate' \in Fates /\ Faithful'
  <1>1. PICK k \in CallRecords :
          /\ call' = [call EXCEPT ![c] = k]
          /\ \/ k = NoCall
             \/ k.kind = call[c].kind /\ k.state = "answered" /\ k.answer = answer
    BY AnsweredType
  <1>2. /\ \A x \in Calls \ {c} : call[x].kind = "none" \/ Same(fate'[x], fate[x])
        /\ fate' \in Fates
        /\ fate'[c] = IF k.kind = "none" THEN NoFate ELSE fates[c]
    BY <1>1, KeptOthers
  <1>3. call' \in [Calls -> CallRecords] /\ call'[c] = k /\ (FaithfulCall(c)' => Faithful')
    BY <1>1, <1>2, OneCall
  <1>4. FaithfulCall(c)'
    BY <1>1, <1>2, <1>3 DEF FaithfulCall, NoCall
  <1> QED BY <1>2, <1>3, <1>4

\* The rest of the types, when the tab has only been sent something.
LEMMA RestTyped ==
  ASSUME Inv, OnCall, UNCHANGED <<standing, changes>>, row' \in Versions,
         call' \in [Calls -> CallRecords], fate' \in Fates
  PROVE  WorkspaceTypeOK'
  BY DEF OnCall, cvars, Inv, WorkspaceTypeOK, SessionTypeOK, StoreTypeOK

\* A transition is admitted for the role its account has by now.
LEMMA AdmitKeeps == \A c \in Calls : Inv /\ Admit(c) => Inv'
  <1> SUFFICES ASSUME NEW c \in Calls, Inv, Admit(c) PROVE Inv'
    OBVIOUS
  <1>1. /\ call[c].state = "sent" /\ Kept(fate) /\ OnCall
        /\ UNCHANGED <<row, standing, changes>>
        /\ call[c] \in CallRecords /\ fate \in Fates /\ row \in Versions
        /\ FaithfulCall(c)
    BY InvTypes DEF Admit, Inv, WorkspaceTypeOK, Faithful
  <1>2. CASE Answered(c, "unauthorized", NoVersion) \/ Answered(c, "refused", NoVersion)
    <2>1. call' \in [Calls -> CallRecords] /\ fate' \in Fates /\ Faithful'
      BY <1>1, <1>2, AnsweredFaithful DEF FaithfulCall, Same
    <2> QED BY <1>1, <2>1, RestTyped DEF Inv
  <1>3. CASE call[c].kind # "move" /\ Answered(c, "ok", row)
    <2>1. call' \in [Calls -> CallRecords] /\ fate' \in Fates /\ Faithful'
      BY <1>1, <1>3, AnsweredFaithful DEF FaithfulCall, Same
    <2> QED BY <1>1, <2>1, RestTyped DEF Inv
  <1>4. CASE /\ call[c].token # None /\ standing[call[c].token] = "operator"
             /\ call[c].kind = "move" /\ call' = [call EXCEPT ![c].state = "admitted"]
    <2> DEFINE k == [call[c] EXCEPT !.state = "admitted"]
    <2>1. /\ k \in CallRecords /\ k.kind = "move" /\ k.state = "admitted"
          /\ k.sent = call[c].sent
      BY <1>1, <1>4 DEF CallRecords
    <2>2. call' = [call EXCEPT ![c] = k]
      BY <1>4
    <2> HIDE DEF k
    <2>3. /\ \A x \in Calls \ {c} : call[x].kind = "none" \/ Same(fate'[x], fate[x])
          /\ fate' \in Fates /\ fate'[c] = fate[c]
      BY <1>1, <2>1, <2>2, KeptOthers DEF Same
    <2>4. call' \in [Calls -> CallRecords] /\ call'[c] = k
          /\ (FaithfulCall(c)' => Faithful')
      BY <1>1, <2>1, <2>2, <2>3, OneCall
    <2>5. FaithfulCall(c)'
      BY <1>1, <1>4, <2>1, <2>3, <2>4 DEF FaithfulCall
    <2> QED BY <1>1, <2>3, <2>4, <2>5, RestTyped DEF Inv
  <1> QED BY <1>2, <1>3, <1>4 DEF Admit, RoleOf

\* A transition is applied at the version it carries.
LEMMA ApplyKeeps == \A c \in Calls : Inv /\ Apply(c) => Inv'
  <1> SUFFICES ASSUME NEW c \in Calls, Inv, Apply(c) PROVE Inv'
    OBVIOUS
  <1>1. /\ call[c].state = "admitted" /\ OnCall /\ UNCHANGED <<standing, changes>>
        /\ call[c] \in CallRecords /\ fate \in Fates /\ row \in Versions
        /\ FaithfulCall(c)
    BY InvTypes DEF Apply, Inv, WorkspaceTypeOK, Faithful
  <1>2. CASE /\ call[c].sent = row /\ row' = row + 1
             /\ Answered(c, "ok", NoVersion)
             /\ Kept([fate EXCEPT ![c].applied = TRUE])
    <2> DEFINE g == [fate EXCEPT ![c].applied = TRUE]
    <2>1. /\ g \in Fates /\ g[c].applied
          /\ \A x \in Calls \ {c} : Same(g[x], fate[x])
      BY <1>1 DEF Fates, Same
    <2>2. Kept(g)
      BY <1>2
    <2> HIDE DEF g
    <2>3. call' \in [Calls -> CallRecords] /\ fate' \in Fates /\ Faithful'
      BY <1>1, <1>2, <2>1, <2>2, AnsweredFaithful
    <2>4. row' \in Versions
      BY <1>1, <1>2, VersionAssumption DEF FaithfulCall, Versions
    <2> QED BY <1>1, <2>3, <2>4, RestTyped DEF Inv
  <1>3. CASE /\ row' = row /\ Answered(c, "refused", NoVersion) /\ Kept(fate)
    <2>1. call' \in [Calls -> CallRecords] /\ fate' \in Fates /\ Faithful'
      BY <1>1, <1>3, AnsweredFaithful DEF FaithfulCall, Same
    <2> QED BY <1>1, <1>3, <2>1, RestTyped DEF Inv
  <1> QED BY <1>2, <1>3 DEF Apply

\* A lost call, or a lost answer, is an error for whoever waits for it.
LEMMA VanishKeeps == \A c \in Calls : Inv /\ Vanish(c) => Inv'
  <1> SUFFICES ASSUME NEW c \in Calls, Inv, Vanish(c) PROVE Inv'
    OBVIOUS
  <1> DEFINE k == [call[c] EXCEPT !.state = "answered", !.answer = "refused",
                                  !.version = NoVersion, !.token = None,
                                  !.sent = NoVersion]
  <1>1. UNCHANGED <<fate, standing, row, changes, visible>>
    BY DEF Vanish, wvars
  <1>2. call' = [call EXCEPT ![c] = k]
    BY DEF Vanish, Answered
  <1>3. /\ k \in CallRecords /\ k.kind = call[c].kind /\ k.state = "answered"
        /\ k.answer = "refused"
    <2>1. call[c] \in CallRecords
      BY InvTypes
    <2> QED BY <2>1 DEF CallRecords
  <1> HIDE DEF k
  <1>4. call' \in [Calls -> CallRecords] /\ call'[c] = k /\ (FaithfulCall(c)' => Faithful')
    BY <1>1, <1>2, <1>3, OneCall DEF Same
  <1>5. FaithfulCall(c)
    BY DEF Inv, Faithful
  <1>6. FaithfulCall(c)'
    BY <1>1, <1>3, <1>4, <1>5 DEF FaithfulCall
  <1>7. WorkspaceTypeOK'
    BY <1>1, <1>4, SessionBounds
    DEF Vanish, Lose, Inv, WorkspaceTypeOK, SessionTypeOK, StoreTypeOK
  <1> QED BY <1>4, <1>6, <1>7 DEF Inv

\* An account that becomes an operator's entitles the transitions it has sent.
LEMMA ChangeKeeps ==
  \A a \in Accounts, s \in Standing : Inv /\ ChangeAccount(a, s) => Inv'
  <1> SUFFICES ASSUME NEW a \in Accounts, NEW s \in Standing, Inv, ChangeAccount(a, s)
               PROVE  Inv'
    OBVIOUS
  <1>1. /\ UNCHANGED <<cvars, evars, row>> /\ standing' = [standing EXCEPT ![a] = s]
        /\ changes' \in 0 .. MaxChanges
    BY ChangesAssumption DEF ChangeAccount, Inv, WorkspaceTypeOK
  <1>2. ASSUME NEW x \in Calls
        PROVE  /\ fate'[x] \in [saw : Versions \cup {NoVersion}, dialog : Dialogs,
                                entitled : BOOLEAN, applied : BOOLEAN]
               /\ fate'[x].saw = fate[x].saw /\ fate'[x].applied = fate[x].applied
               /\ fate[x].entitled => fate'[x].entitled
               /\ s = "operator" /\ call[x].kind = "move" /\ call[x].token = a =>
                    fate'[x].entitled
    <2>1. fate'[x] = IF s = "operator" /\ call[x].kind = "move" /\ call[x].token = a
                     THEN [fate[x] EXCEPT !.entitled = TRUE] ELSE fate[x]
      BY DEF ChangeAccount
    <2>2. fate[x] \in [saw : Versions \cup {NoVersion}, dialog : Dialogs,
                       entitled : BOOLEAN, applied : BOOLEAN]
      BY InvTypes DEF Fates
    <2> QED BY <2>1, <2>2
  <1>3. fate' \in Fates
    BY <1>2 DEF ChangeAccount, Fates
  <1>4. WorkspaceTypeOK'
    BY <1>1, <1>3
    DEF ChangeAccount, cvars, evars, Inv, WorkspaceTypeOK, SessionTypeOK, StoreTypeOK
  <1>5. ASSUME NEW x \in Calls
        PROVE  FaithfulCall(x)'
    <2>1. FaithfulCall(x) /\ call'[x] = call[x] /\ call[x] \in CallRecords
      BY <1>1, InvTypes DEF evars, Inv, Faithful
    <2>2. ASSUME call[x].token # None, standing'[call[x].token] = "operator"
          PROVE  standing[call[x].token] = "operator" \/ (s = "operator" /\ call[x].token = a)
      BY <1>1, <2>1, <2>2 DEF Inv, WorkspaceTypeOK, CallRecords
    <2> QED BY <1>2, <2>1, <2>2 DEF FaithfulCall
  <1> QED BY <1>4, <1>5 DEF Inv, Faithful

\* An answer is settled: a transition that went through becomes a load.
LEMMA HearKeeps == \A c \in Calls : Inv /\ Hear(c) => Inv'
  <1> SUFFICES ASSUME NEW c \in Calls, Inv, Hear(c) PROVE Inv'
    OBVIOUS
  <1> DEFINE again == Request("reload", call[c].waits, NoVersion)
             how == IF fate[c].dialog = "open" THEN "closed" ELSE fate[c].dialog
  <1>1. /\ call[c] \in CallRecords /\ call[c].waits \in Waiting /\ fate \in Fates
        /\ call[c].version \in Versions \cup {NoVersion}
        /\ stored \in Accounts \cup {None} /\ FaithfulCall(c)
        /\ UNCHANGED <<lost, row, standing, changes, visible>>
    BY InvTypes DEF Hear, Inv, WorkspaceTypeOK, SessionTypeOK, Faithful, CallRecords
  <1>2. again \in CallRecords /\ again.kind = "reload" /\ again.state = "sent"
    BY <1>1, RequestType
  <1>3. NoCall \in CallRecords
    BY DEF NoCall, CallRecords, Waiting
  <1>4. \/ call' = [call EXCEPT ![c] = NoCall]
        \/ call' = [call EXCEPT ![c] = again] /\ fate[c].applied
    BY <1>1 DEF Hear, Settle, Moved, Loaded, Failed, FaithfulCall
  <1> HIDE DEF again
  <1>5. PICK k \in CallRecords :
          /\ call' = [call EXCEPT ![c] = k]
          /\ k = NoCall \/ (k = again /\ fate[c].applied)
    BY <1>2, <1>3, <1>4
  <1>6. PICK fates \in Fates : Kept(fates) /\ \A x \in Calls : Same(fates[x], fate[x])
    <2>1. how \in Dialogs
      BY <1>1 DEF Fates, Dialogs
    <2>2. Kept(fate) \/ Kept(Shut(how))
      BY DEF Hear
    <2> QED BY <1>1, <2>1, <2>2, ShutSame DEF Same
  <1>7. /\ \A x \in Calls \ {c} : call[x].kind = "none" \/ Same(fate'[x], fate[x])
        /\ fate' \in Fates
        /\ fate'[c] = IF k.kind = "none" THEN NoFate ELSE fates[c]
    BY <1>1, <1>5, <1>6, KeptOthers
  <1>8. call' \in [Calls -> CallRecords] /\ call'[c] = k /\ (FaithfulCall(c)' => Faithful')
    BY <1>1, <1>5, <1>7, OneCall
  <1>9. FaithfulCall(c)'
    BY <1>2, <1>5, <1>7, <1>8, <1>6 DEF FaithfulCall, NoCall, Same
  <1>10. SessionTypeOK'
    BY <1>1 DEF Hear, Settle, Forget401, Inv, WorkspaceTypeOK, SessionTypeOK
  <1>11. StoreTypeOK'
    BY <1>1, <1>8
    DEF Hear, Settle, Moved, Loaded, Failed, Inv, WorkspaceTypeOK, StoreTypeOK
  <1> QED BY <1>1, <1>7, <1>8, <1>9, <1>10, <1>11 DEF Inv, WorkspaceTypeOK

-----------------------------------------------------------------------------
(* The properties. *)

\* Every step keeps what is known of the calls.
LEMMA NextKeeps == Inv /\ [Next]_vars => Inv'
  <1> SUFFICES ASSUME Inv, [Next]_vars PROVE Inv'
    OBVIOUS
  <1>1. CASE BootAnswer \/ Login \/ Turn \/ Click \/ OtherUser \/ Elsewhere
    BY <1>1, TabKeeps
  <1>2. CASE Open
    BY <1>2, OpenKeeps
  <1>3. CASE SignOut
    BY <1>3, SignOutKeeps
  <1>4. CASE \E c \in Calls : Poll(c) \/ Send(c) \/ Vanish(c)
    BY <1>4, PollKeeps, SendKeeps, VanishKeeps
  <1>5. CASE \E c \in Calls : Proceed(c)
    BY <1>5, AdmitKeeps, ApplyKeeps, HearKeeps DEF Proceed
  <1>6. CASE \E a \in Accounts, s \in Standing : ChangeAccount(a, s)
    BY <1>6, ChangeKeeps
  <1>7. CASE UNCHANGED vars
    BY <1>7 DEF vars, cvars, evars, wvars, Inv, WorkspaceTypeOK, SessionTypeOK, StoreTypeOK,
                Faithful, FaithfulCall
  <1> QED BY <1>1, <1>2, <1>3, <1>4, <1>5, <1>6, <1>7 DEF Next

\* Every reachable state has well-formed variables and faithful calls.
THEOREM WorkspaceInvariant == Spec => []Inv
  <1> QED BY InitInv, NextKeeps, PTL DEF Spec

\* The types of the workspace.
THEOREM WorkspaceTypes == Spec => []WorkspaceTypeOK
  <1>1. Inv => WorkspaceTypeOK
    BY DEF Inv
  <1> QED BY <1>1, WorkspaceInvariant, PTL

\* A transition is applied only to the record as its dialog showed it: the version check
\* of Store.update compares the row with what the dialog was opened with.
THEOREM OnlyShownApplied == Spec => AppliedAsShown
  <1>1. Inv => \A c \in Calls : Apply(c) /\ row' # row => row = fate[c].saw
    BY DEF Inv, Faithful, FaithfulCall, Apply
  <1> QED BY <1>1, WorkspaceInvariant, PTL DEF AppliedAsShown

\* The token of a revoked account applies nothing: Authenticate asks for the account of
\* the moment, whatever the token says.
THEOREM RevocationHolds == Spec => RevokedTokensPowerless
  <1>1. Inv => \A c \in Calls : Apply(c) /\ row' # row => fate[c].entitled
    BY DEF Inv, Faithful, FaithfulCall, Apply
  <1> QED BY <1>1, WorkspaceInvariant, PTL DEF RevokedTokensPowerless

-----------------------------------------------------------------------------
(* Dialogs. *)

\* What is known of the dialog that the transition of a call was confirmed in.  A dialog
\* that closed on another call leaves behind what can no longer be applied.
DialogFacts(c) ==
  LET k == call[c]  f == fate[c]
  IN  /\ f.dialog = "open" =>
           k.kind \in {"move", "reload"} /\ k.waits = "page"
             /\ pending = f.saw /\ pending # NoVersion
      /\ k.kind \in {"move", "reload"} /\ k.waits = "page" =>
           f.dialog # "none" /\ (f.dialog = "closed" => f.saw < row /\ ~f.applied)
      /\ f.applied => f.saw < row

\* No two transitions were applied to the same version.
Apart ==
  \A c, d \in Calls : c # d /\ fate[c].applied /\ fate[d].applied => fate[c].saw # fate[d].saw

Dialogues == Apart /\ \A c \in Calls : DialogFacts(c)

\* A call whose history says nothing.
Blank(c) ==
  fate'[c].dialog = "none" /\ ~fate'[c].applied /\ call'[c].kind \in {"none", "load"}

\* A call that keeps what it is and what its history says but for the dialog.
Steady(c) ==
  /\ call'[c].kind = call[c].kind /\ call'[c].waits = call[c].waits
  /\ Same(fate'[c], fate[c])

\* The dialog of a call stays as it is, or the user abandons it.
Untouched(c) ==
  \/ fate'[c].dialog = fate[c].dialog /\ (fate[c].dialog = "open" => pending' = pending)
  \/ fate[c].dialog = "open" /\ fate'[c].dialog = "abandoned"

\* Versions are numbers.
LEMMA SawNumbers ==
  ASSUME Inv, Inv', NEW c \in Calls
  PROVE  /\ row \in Nat /\ row' \in Nat /\ fate[c].saw \in Nat /\ fate'[c].saw \in Nat
         /\ fate[c].applied \in BOOLEAN /\ fate'[c].applied \in BOOLEAN
         /\ fate[c] \in [saw : Versions \cup {NoVersion}, dialog : Dialogs,
                         entitled : BOOLEAN, applied : BOOLEAN]
  <1>1. Versions \cup {NoVersion} \subseteq Nat
    BY VersionAssumption DEF Versions, NoVersion
  <1> QED BY <1>1 DEF Inv, WorkspaceTypeOK, Fates

\* What a step leaves of a call, if the record does not lose versions.
LEMMA SteadyConfirmed ==
  ASSUME Inv, Inv', Dialogues, NEW c \in Calls, row <= row',
         Blank(c) \/ (Steady(c) /\ Untouched(c))
  PROVE  DialogFacts(c)'
  <1>1. /\ row \in Nat /\ row' \in Nat /\ fate[c].saw \in Nat
        /\ DialogFacts(c)
    BY SawNumbers DEF Dialogues
  <1>2. CASE Blank(c)
    BY <1>2 DEF Blank, DialogFacts
  <1>3. CASE Steady(c) /\ Untouched(c)
    BY <1>1, <1>3 DEF Steady, Untouched, Same, DialogFacts
  <1> QED BY <1>2, <1>3

\* A step that applies nothing.
LEMMA SteadyApart ==
  ASSUME Dialogues, \A c \in Calls : Same(fate'[c], fate[c]) \/ ~fate'[c].applied
  PROVE  Apart'
  BY DEF Dialogues, Apart, Same

\* Steps that leave every call alone but for its dialog.
LEMMA SteadyDialogues ==
  ASSUME Inv, Inv', Dialogues, row <= row',
         \A c \in Calls : Blank(c) \/ (Steady(c) /\ Untouched(c))
  PROVE  Dialogues'
  <1>1. \A c \in Calls : DialogFacts(c)'
    BY SteadyConfirmed
  <1>2. Apart'
    BY SteadyApart DEF Blank, Steady
  <1> QED BY <1>1, <1>2 DEF Dialogues

\* The dialog is opened by a click, when none is open, and abandoned by another.
LEMMA ClickDialogues == Inv /\ Inv' /\ Dialogues /\ Click => Dialogues'
  <1> SUFFICES ASSUME Inv, Inv', Dialogues, Click PROVE Dialogues'
    OBVIOUS
  <1>1. UNCHANGED <<call, row>>
    BY DEF Click, Select, Dismiss, Cancel
  <1>2. row <= row'
    BY <1>1, VersionAssumption DEF Inv, WorkspaceTypeOK, Versions
  <1>3. ASSUME NEW c \in Calls PROVE Steady(c) /\ Untouched(c)
    <2>1. fate[c] \in [saw : Versions \cup {NoVersion}, dialog : Dialogs,
                       entitled : BOOLEAN, applied : BOOLEAN]
      BY SawNumbers
    <2>2. CASE (Select \/ Dismiss) /\ fate' = fate
      <3>1. pending' = pending \/ pending = NoVersion
        BY <2>2 DEF Select, Dismiss
      <3>2. fate[c].dialog = "open" => pending # NoVersion
        BY DEF Dialogues, DialogFacts
      <3> QED BY <1>1, <2>2, <3>1, <3>2 DEF Steady, Untouched, Same
    <2>3. CASE fate' = Shut("abandoned")
      BY <1>1, <2>1, <2>3 DEF Shut, Steady, Untouched, Same
    <2> QED BY <2>2, <2>3 DEF Click
  <1> QED BY <1>2, <1>3, SteadyDialogues

\* When the page is gone no call waits in it any more.
LEMMA GoneDialogues == Inv /\ Inv' /\ Dialogues /\ (Open \/ SignOut) => Dialogues'
  <1> SUFFICES ASSUME Inv, Inv', Dialogues, Open \/ SignOut PROVE Dialogues'
    OBVIOUS
  <1>1. row' = row
    BY DEF Open, SignOut
  <1>2. ASSUME NEW c \in Calls
        PROVE  /\ call'[c].waits # "page" /\ fate'[c].dialog # "open"
               /\ Same(fate'[c], fate[c]) \/ ~fate'[c].applied
    <2>1. /\ fate[c] \in [saw : Versions \cup {NoVersion}, dialog : Dialogs,
                          entitled : BOOLEAN, applied : BOOLEAN]
          /\ call[c] \in CallRecords
      BY SawNumbers, InvTypes
    <2>2. fate'[c] = NoFate \/ fate'[c] = Shut("closed")[c]
      BY DEF Open, SignOut, Kept
    <2>3. Shut("closed")[c].dialog # "open" /\ Same(Shut("closed")[c], fate[c])
      BY <2>1 DEF Shut, Same
    <2>4. call'[c].waits # "page"
      <3>1. CASE Open
        BY <2>1, <3>1 DEF Open, Reopen, NoCall, CallRecords
      <3>2. CASE SignOut
        BY <2>1, <3>2 DEF SignOut, LeavePage, CallRecords
      <3> QED BY <3>1, <3>2
    <2> QED BY <2>2, <2>3, <2>4 DEF NoFate
  <1>3. ASSUME NEW c \in Calls PROVE DialogFacts(c)'
    BY <1>1, <1>2 DEF DialogFacts, Same, Dialogues
  <1>4. Apart'
    BY <1>2, SteadyApart
  <1> QED BY <1>3, <1>4 DEF Dialogues

\* A new request: a poll, or a transition that is confirmed in the open dialog.
LEMMA SentDialogues ==
  \A c \in Calls : Inv /\ Inv' /\ Dialogues /\ (Poll(c) \/ Send(c)) => Dialogues'
  <1> SUFFICES ASSUME NEW c \in Calls, Inv, Inv', Dialogues, Poll(c) \/ Send(c)
               PROVE  Dialogues'
    OBVIOUS
  <1>1. UNCHANGED <<row, pending>> /\ call[c].kind = "none" /\ row \in Nat
    BY SawNumbers DEF Poll, Send, Load, Confirm, wvars
  <1>2. row <= row'
    BY <1>1
  <1>3. fate[c].dialog # "open"
    BY <1>1 DEF Dialogues, DialogFacts
  <1>4. ASSUME NEW x \in Calls \ {c} PROVE Steady(x) /\ Untouched(x) /\ Same(fate'[x], fate[x])
    <2>1. call'[x] = call[x] /\ fate'[x] = fate[x]
      BY InvTypes DEF Poll, Load, wvars, Send, Confirm, Fates
    <2> QED BY <1>1, <2>1 DEF Steady, Untouched, Same
  <1>5. DialogFacts(c)' /\ (Same(fate'[c], fate[c]) \/ ~fate'[c].applied)
    <2>1. CASE Poll(c)
      <3>1. fate' = fate /\ call'[c].kind = "load"
        BY <2>1, InvTypes DEF Poll, Load, wvars, Request, NoCall
      <3>2. fate[c].applied => fate[c].saw < row
        BY DEF Dialogues, DialogFacts
      <3> QED BY <1>1, <1>3, <3>1, <3>2 DEF DialogFacts, Same
    <2>2. CASE Send(c)
      <3>1. fate'[c].dialog = "open" /\ fate'[c].saw = pending /\ ~fate'[c].applied
        BY <2>2, InvTypes DEF Send, Fates
      <3>2. call'[c].kind = "move" /\ call'[c].waits = "page" /\ pending # NoVersion
        BY <2>2, InvTypes DEF Send, Confirm, Request, NoCall
      <3> QED BY <1>1, <3>1, <3>2 DEF DialogFacts
    <2> QED BY <2>1, <2>2
  <1>6. \A x \in Calls : DialogFacts(x)'
    BY <1>2, <1>4, <1>5, SteadyConfirmed
  <1>7. Apart'
    BY <1>4, <1>5, SteadyApart
  <1> QED BY <1>6, <1>7 DEF Dialogues

\* A call that is answered keeps its kind and who waits for it, or is over.
LEMMA AnsweredSteady ==
  ASSUME Inv, NEW c \in Calls, NEW answer \in {"ok", "refused", "unauthorized"},
         NEW version \in Versions \cup {NoVersion}, Answered(c, answer, version)
  PROVE  \/ call'[c].kind = "none"
         \/ call'[c].kind = call[c].kind /\ call'[c].waits = call[c].waits
  <1>1. call[c] \in CallRecords
    BY InvTypes
  <1> QED BY <1>1, InvTypes DEF Answered, NoCall, CallRecords

\* What the server and the network do to a call, and to others nothing.
LEMMA ServedDialogues ==
  \A c \in Calls : Inv /\ Inv' /\ Dialogues /\ (Admit(c) \/ Vanish(c)) => Dialogues'
  <1> SUFFICES ASSUME NEW c \in Calls, Inv, Inv', Dialogues, Admit(c) \/ Vanish(c)
               PROVE  Dialogues'
    OBVIOUS
  <1>1. UNCHANGED <<row, pending>> /\ row \in Nat
    BY SawNumbers DEF Admit, Vanish, OnCall, wvars
  <1>2. row <= row'
    BY <1>1
  <1>3. \/ call'[c].kind = "none"
        \/ call'[c].kind = call[c].kind /\ call'[c].waits = call[c].waits
    <2>1. CASE Vanish(c)
      BY <2>1, AnsweredSteady DEF Vanish
    <2>2. CASE Admit(c)
      <3>1. CASE call' = [call EXCEPT ![c].state = "admitted"]
        BY <3>1, InvTypes DEF CallRecords
      <3>2. row \in Versions
        BY DEF Inv, WorkspaceTypeOK
      <3>3. CASE \/ Answered(c, "unauthorized", NoVersion) \/ Answered(c, "ok", row)
                 \/ Answered(c, "refused", NoVersion)
        BY <3>2, <3>3, AnsweredSteady
      <3> QED BY <2>2, <3>1, <3>3 DEF Admit
    <2> QED BY <2>1, <2>2
  <1>4. \A x \in Calls \ {c} : call'[x] = call[x]
    BY InvTypes DEF Admit, Vanish, Answered
  <1>5. ASSUME NEW x \in Calls PROVE Blank(x) \/ (Steady(x) /\ Untouched(x))
    <2>1. fate'[x] = fate[x] \/ (call'[x].kind = "none" /\ fate'[x] = NoFate)
      BY DEF Admit, Vanish, wvars, Kept
    <2>2. CASE call'[x].kind = "none" /\ fate'[x] = NoFate
      BY <2>2 DEF Blank, NoFate
    <2>3. CASE fate'[x] = fate[x] /\ call'[x].kind = call[x].kind /\ call'[x].waits = call[x].waits
      BY <1>1, <2>3 DEF Steady, Untouched, Same
    <2>4. CASE fate'[x] = fate[x] /\ x = c /\ call'[c].kind = "none"
      <3>1. CASE Admit(c)
        BY <2>4, <3>1 DEF Admit, Kept, Blank, NoFate
      <3>2. CASE Vanish(c)
        <4>1. call'[c].kind = call[c].kind /\ call'[c].waits = call[c].waits
          BY <3>2, InvTypes DEF Vanish, Answered, CallRecords
        <4> QED BY <2>3, <2>4, <4>1
      <3> QED BY <3>1, <3>2
    <2> QED BY <1>3, <1>4, <2>1, <2>2, <2>3, <2>4
  <1> QED BY <1>2, <1>5, SteadyDialogues

\* A transition is applied at the version its dialog showed, and no other was applied to
\* that.
LEMMA ApplyDialogues == \A c \in Calls : Inv /\ Inv' /\ Dialogues /\ Apply(c) => Dialogues'
  <1> SUFFICES ASSUME NEW c \in Calls, Inv, Inv', Dialogues, Apply(c) PROVE Dialogues'
    OBVIOUS
  <1>1. UNCHANGED pending /\ row \in Nat /\ row <= row'
    BY SawNumbers DEF Apply, OnCall
  <1>2. \/ call'[c].kind = "none"
        \/ call'[c].kind = call[c].kind /\ call'[c].waits = call[c].waits
    BY AnsweredSteady DEF Apply
  <1>3. \A x \in Calls \ {c} : call'[x] = call[x]
    BY InvTypes DEF Apply, Answered
  <1>4. ASSUME NEW x \in Calls \ {c} PROVE Blank(x) \/ (Steady(x) /\ Untouched(x))
    <2>1. fate'[x] = fate[x] \/ (call'[x].kind = "none" /\ fate'[x] = NoFate)
      BY DEF Apply, Kept
    <2> QED BY <1>1, <1>3, <2>1 DEF Steady, Untouched, Same, Blank, NoFate
  <1>5. CASE row' = row /\ Kept(fate)
    <2>1. Blank(c) \/ (Steady(c) /\ Untouched(c))
      BY <1>1, <1>2, <1>5 DEF Kept, Steady, Untouched, Same, Blank, NoFate
    <2> QED BY <1>1, <1>4, <2>1, SteadyDialogues
  <1>6. CASE call[c].sent = row /\ row' = row + 1 /\ Kept([fate EXCEPT ![c].applied = TRUE])
    <2>1. /\ fate[c].saw = row
          /\ fate[c] \in [saw : Versions \cup {NoVersion}, dialog : Dialogs,
                          entitled : BOOLEAN, applied : BOOLEAN]
      BY <1>6, SawNumbers DEF Inv, Faithful, FaithfulCall, Apply
    <2>2. \/ call'[c].kind = "none" /\ fate'[c] = NoFate
          \/ /\ fate'[c].saw = row /\ fate'[c].applied /\ fate'[c].dialog = fate[c].dialog
             /\ call'[c].kind = call[c].kind /\ call'[c].waits = call[c].waits
      BY <1>2, <1>6, <2>1, InvTypes DEF Kept, Fates
    <2>3. DialogFacts(c)
      BY DEF Dialogues
    <2>4. DialogFacts(c)'
      <3>1. CASE call'[c].kind = "none" /\ fate'[c] = NoFate
        BY <3>1 DEF DialogFacts, NoFate
      <3>2. CASE /\ fate'[c].saw = row /\ fate'[c].applied /\ fate'[c].dialog = fate[c].dialog
                 /\ call'[c].kind = call[c].kind /\ call'[c].waits = call[c].waits
        BY <1>1, <1>6, <2>1, <2>3, <3>2 DEF DialogFacts
      <3> QED BY <2>2, <3>1, <3>2
    <2>5. ASSUME NEW x \in Calls \ {c}, fate'[x].applied
          PROVE  fate[x].applied /\ fate'[x].saw = fate[x].saw /\ fate[x].saw # row
      <3>1. Steady(x)
        BY <1>4, <2>5 DEF Blank
      <3>2. fate[x].applied /\ fate'[x].saw = fate[x].saw
        BY <2>5, <3>1 DEF Steady, Same
      <3>3. fate[x].saw < row /\ fate[x].saw \in Nat
        BY <3>2, SawNumbers DEF Dialogues, DialogFacts
      <3> QED BY <1>1, <3>2, <3>3
    <2>6. fate'[c].applied => fate'[c].saw = row
      BY <2>2 DEF NoFate
    <2>7. Apart'
      BY <2>5, <2>6 DEF Apart, Dialogues
    <2>8. \A x \in Calls : DialogFacts(x)'
      BY <1>1, <1>4, <2>4, SteadyConfirmed
    <2> QED BY <2>7, <2>8 DEF Dialogues
  <1> QED BY <1>5, <1>6 DEF Apply

\* What closes the dialog was applied, and confirmed in it or in an abandoned one.
LEMMA Closes ==
  ASSUME Inv, Dialogues, NEW c \in Calls, Hear(c), pending' # pending
  PROVE  /\ pending' = NoVersion /\ call'[c] = NoCall /\ UNCHANGED row
         /\ fate[c].applied /\ fate[c].dialog \in {"open", "abandoned"}
  <1>1. call[c].kind = "reload" /\ call[c].waits = "page" /\ pending' = NoVersion
    BY DEF Hear, Settle, Moved, Loaded, Failed
  <1>2. fate[c].applied
    BY <1>1 DEF Inv, Faithful, FaithfulCall
  <1>3. fate[c].dialog \in Dialogs \ {"none", "closed"}
    BY <1>1, <1>2, InvTypes DEF Dialogues, DialogFacts, Fates
  <1>4. call'[c] = NoCall /\ UNCHANGED row
    BY <1>1, InvTypes DEF Hear, Settle, Moved, Loaded, Failed
  <1> QED BY <1>1, <1>2, <1>3, <1>4 DEF Dialogs

\* An answer is settled.  The other calls that were confirmed in the dialog it closes
\* carry the version that was applied, and are refused.
LEMMA HearDialogues == \A c \in Calls : Inv /\ Inv' /\ Dialogues /\ Hear(c) => Dialogues'
  <1> SUFFICES ASSUME NEW c \in Calls, Inv, Inv', Dialogues, Hear(c) PROVE Dialogues'
    OBVIOUS
  <1>1. row' = row /\ row \in Nat
    BY SawNumbers DEF Hear
  <1>2. row <= row'
    BY <1>1
  <1>3. \A x \in Calls \ {c} : call'[x] = call[x]
    BY InvTypes DEF Hear, Settle, Moved, Loaded, Failed
  <1>4. CASE pending' = pending
    <2>1. Kept(fate)
      BY <1>4 DEF Hear
    <2>2. call'[c].kind = "none" \/ (call[c].kind = "move" /\ call'[c].kind = "reload"
                                     /\ call'[c].waits = call[c].waits)
      <3>1. CASE call' = [call EXCEPT ![c] = NoCall]
        BY <3>1, InvTypes DEF NoCall
      <3>2. CASE /\ call[c].kind = "move"
                 /\ call' = [call EXCEPT ![c] = Request("reload", call[c].waits, NoVersion)]
        BY <3>2, InvTypes DEF Request, NoCall
      <3> QED BY <3>1, <3>2 DEF Hear, Settle, Moved, Loaded, Failed
    <2>3. ASSUME NEW x \in Calls \ {c} PROVE Blank(x) \/ (Steady(x) /\ Untouched(x))
      BY <1>3, <1>4, <2>1 DEF Kept, Steady, Untouched, Same, Blank, NoFate
    <2>4. DialogFacts(c)' /\ (Same(fate'[c], fate[c]) \/ ~fate'[c].applied)
      <3>1. CASE call'[c].kind = "none"
        BY <2>1, <3>1 DEF Kept, NoFate, DialogFacts
      <3>2. CASE /\ call[c].kind = "move" /\ call'[c].kind = "reload"
                 /\ call'[c].waits = call[c].waits
        <4>1. fate'[c] = fate[c] /\ DialogFacts(c)
          BY <2>1, <3>2 DEF Kept, Dialogues
        <4> QED BY <1>1, <1>4, <3>2, <4>1 DEF DialogFacts, Same
      <3> QED BY <2>2, <3>1, <3>2
    <2>5. Apart'
      BY <2>3, <2>4, SteadyApart DEF Blank, Steady
    <2> QED BY <1>2, <2>3, <2>4, <2>5, SteadyConfirmed DEF Dialogues
  <1>5. CASE pending' # pending
    <2>1. /\ pending' = NoVersion /\ call'[c] = NoCall
          /\ fate[c].applied /\ fate[c].dialog \in {"open", "abandoned"}
      BY <1>5, Closes
    <2> PICK how \in {"abandoned", "closed"} :
          how = IF fate[c].dialog = "open" THEN "closed" ELSE fate[c].dialog
      BY <2>1
    <2>2. Kept(Shut(how))
      BY <1>5 DEF Hear
    <2>3. Blank(c)
      BY <2>1, <2>2 DEF Kept, Blank, NoFate, NoCall
    <2>4. ASSUME NEW x \in Calls \ {c} PROVE DialogFacts(x)' /\ (Blank(x) \/ Steady(x))
      <3>1. /\ fate[x] \in [saw : Versions \cup {NoVersion}, dialog : Dialogs,
                            entitled : BOOLEAN, applied : BOOLEAN]
            /\ DialogFacts(x) /\ DialogFacts(c) /\ call'[x] = call[x]
        BY <1>3, SawNumbers DEF Dialogues
      <3>2. CASE call'[x].kind = "none"
        <4>1. Blank(x)
          BY <2>2, <3>2 DEF Kept, Blank, NoFate
        <4> QED BY <1>2, <4>1, SteadyConfirmed
      <3>3. CASE call'[x].kind # "none" /\ (fate[x].dialog # "open" \/ how = "abandoned")
        <4>1. fate'[x] = Shut(how)[x]
          BY <2>2, <3>3 DEF Kept
        <4>2. Steady(x) /\ Untouched(x)
          BY <3>1, <3>3, <4>1 DEF Shut, Steady, Untouched, Same
        <4> QED BY <1>2, <4>2, SteadyConfirmed
      <3>4. CASE call'[x].kind # "none" /\ fate[x].dialog = "open" /\ how = "closed"
        <4>1. fate'[x] = [fate[x] EXCEPT !.dialog = "closed"]
          BY <2>2, <3>4 DEF Kept, Shut
        <4>2. fate[c].dialog = "open"
          BY <2>1, <3>4
        <4>3. fate[x].saw = fate[c].saw /\ fate[c].saw < row
          BY <2>1, <3>1, <3>4, <4>2 DEF DialogFacts
        <4>4. ~fate[x].applied
          BY <2>1, <4>3 DEF Dialogues, Apart
        <4>5. /\ fate'[x].dialog = "closed" /\ fate'[x].saw = fate[x].saw
              /\ ~fate'[x].applied /\ Same(fate'[x], fate[x])
          BY <3>1, <4>1, <4>4 DEF Same
        <4> QED BY <1>1, <3>1, <4>3, <4>5 DEF DialogFacts, Steady
      <3> QED BY <2>1, <3>2, <3>3, <3>4
    <2>5. DialogFacts(c)'
      BY <1>2, <2>3, SteadyConfirmed
    <2>6. Apart'
      BY <2>3, <2>4, SteadyApart DEF Blank, Steady
    <2> QED BY <2>4, <2>5, <2>6 DEF Dialogues
  <1> QED BY <1>4, <1>5

\* Every step keeps what is known of the dialogs.
LEMMA DialoguesKept == Inv /\ Inv' /\ Dialogues /\ [Next]_vars => Dialogues'
  <1> SUFFICES ASSUME Inv, Inv', Dialogues, [Next]_vars PROVE Dialogues'
    OBVIOUS
  <1>1. row \in Nat /\ row' \in Nat
    BY VersionAssumption DEF Inv, WorkspaceTypeOK, Versions
  <1>2. ASSUME UNCHANGED <<call, pending>>, row' \in {row, row + 1},
               \A x \in Calls : Same(fate'[x], fate[x]) /\ fate'[x].dialog = fate[x].dialog
        PROVE  Dialogues'
    <2>1. row <= row'
      BY <1>1, <1>2
    <2>2. \A x \in Calls : Steady(x) /\ Untouched(x)
      BY <1>2 DEF Steady, Untouched
    <2> QED BY <2>1, <2>2, SteadyDialogues
  <1>3. CASE BootAnswer \/ Login \/ Turn \/ OtherUser \/ Elsewhere \/ UNCHANGED vars
    <2>1. UNCHANGED <<call, pending, fate>> /\ row' \in {row, row + 1}
      BY <1>3 DEF BootAnswer, Login, Turn, OtherUser, Elsewhere, vars, evars, wvars
    <2> QED BY <1>2, <2>1 DEF Same
  <1>4. CASE Click \/ Open \/ SignOut
    BY <1>4, ClickDialogues, GoneDialogues
  <1>5. CASE \E c \in Calls : Poll(c) \/ Send(c) \/ Proceed(c) \/ Vanish(c)
    BY <1>5, SentDialogues, ServedDialogues, ApplyDialogues, HearDialogues DEF Proceed
  <1>6. CASE \E a \in Accounts, s \in Standing : ChangeAccount(a, s)
    <2>1. UNCHANGED <<call, pending, row>>
      BY <1>6 DEF ChangeAccount, evars
    <2>2. ASSUME NEW x \in Calls
          PROVE  /\ fate'[x].saw = fate[x].saw /\ fate'[x].applied = fate[x].applied
                 /\ fate'[x].dialog = fate[x].dialog
                 /\ call'[x] = call[x]
      <3>1. fate[x] \in [saw : Versions \cup {NoVersion}, dialog : Dialogs,
                         entitled : BOOLEAN, applied : BOOLEAN]
        BY SawNumbers
      <3>2. fate'[x] = fate[x] \/ fate'[x] = [fate[x] EXCEPT !.entitled = TRUE]
        BY <1>6 DEF ChangeAccount
      <3> QED BY <2>1, <3>1, <3>2
    <2>3. \A x \in Calls : DialogFacts(x)'
      BY <2>1, <2>2 DEF DialogFacts, Dialogues
    <2>4. Apart'
      BY <2>2 DEF Apart, Dialogues
    <2> QED BY <2>3, <2>4 DEF Dialogues
  <1> QED BY <1>3, <1>4, <1>5, <1>6 DEF Next

\* Whatever closes a dialog but its user was applied, and was confirmed in that dialog or
\* in one that the user had left with the confirmation under way.
THEOREM OnlyAppliedCloses == Spec => ClosedMeansApplied
  <1>1. Init => Dialogues
    BY DEF Init, StoreInit, NoFate, NoCall, Dialogues, Apart, DialogFacts
  <1>2. Inv /\ Dialogues =>
          \A c \in Calls : Hear(c) /\ pending' # pending =>
            fate[c].applied /\ fate[c].dialog \in {"open", "abandoned"}
    BY Closes
  <1> QED BY <1>1, <1>2, WorkspaceInvariant, DialoguesKept, PTL DEF ClosedMeansApplied, Spec
=============================================================================
