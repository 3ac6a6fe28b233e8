------------------------ MODULE DispatchWorkflowProofs ----------------------
(***************************************************************************)
(* The two-person workflow and the receipts of DispatchControl, proved.    *)
(* Every step being atomic (DispatchStepProofs), the invariants are shown  *)
(* inductive step by step of the database, whatever the requests hold.     *)
(***************************************************************************)
EXTENDS DispatchStepProofs

-----------------------------------------------------------------------------
(* The two-person rule. *)

\* A directive is not approved on paper before it is approved.
ApprovalsInOrder ==
  \A p \in approvals :
    p.stage = "approved" =>
      directives[p.directive].status \in {"approved", "executing", "completed", "aborted"}

\* The invariant of the signatures.
PaperSound == TwoPersonRule /\ ApprovalsInOrder

\* What a step does to a directive and its signatures: nothing, or a change of
\* status that nobody signs, or a transition.
Unsigned(d) ==
  /\ approvals \subseteq approvals'
  /\ \A p \in approvals' : p \in approvals \/ p.directive # d
  /\ \/ /\ SameSigners(directives[d], directives'[d])
        /\ \/ directives'[d].status = directives[d].status
           \/ /\ directives[d].status = "executing"
              /\ directives'[d].status \in {"completed", "aborted"}
     \/ directives[d].status = "absent" /\ directives'[d].status = "draft"

\* Somebody's transition.
TransitsBySomeone(d) ==
  \E to \in DirectiveStates, a \in Actors, role \in Roles :
    Transits(d, directives'[d], to, a, role)

\* No step does more to a directive's signatures.
LEMMA PaperSteps ==
  ASSUME Sound, AtomicStep, NEW d \in DirectiveIds
  PROVE  Unsigned(d) \/ TransitsBySomeone(d)
  <1>1. CASE directives' = directives /\ approvals' = approvals
    BY <1>1 DEF Unsigned, SameSigners
  <1>2. ASSUME NEW e \in DirectiveIds, NEW row,
               directives' = [directives EXCEPT ![e] = row],
               approvals' = approvals,
               \/ /\ SameSigners(directives[e], row)
                  /\ \/ row.status = directives[e].status
                     \/ /\ directives[e].status = "executing"
                        /\ row.status \in {"completed", "aborted"}
               \/ directives[e].status = "absent" /\ row.status = "draft"
        PROVE  Unsigned(d)
    <2>1. directives'[d] = IF e = d THEN row ELSE directives[d]
      BY <1>2, Tables
    <2> QED BY <1>2, <2>1 DEF Unsigned, SameSigners
  <1>3. ASSUME NEW e \in DirectiveIds, NEW row, Drafts(e, row) \/ Revises(e, row)
        PROVE  Unsigned(d)
    BY <1>2, <1>3 DEF Drafts, Revises
  <1>4. ASSUME NEW e \in DirectiveIds, NEW row, NEW before, Removes(e, row, before)
        PROVE  Unsigned(d)
    BY <1>2, <1>4 DEF Removes
  <1>5. ASSUME NEW c \in ConfirmationIds, NEW row, NEW dir, Settles(c, row, dir)
        PROVE  Unsigned(d)
    <2>1. PICK e : e = confirmations[c].directive
      OBVIOUS
    <2>2. e \in DirectiveIds
      BY <1>5, <2>1, LiveRows DEF Settles, Succeeds, Sound, Typed, TypeOK, PresentConfirmation
    <2>3. /\ directives' = [directives EXCEPT ![e] = dir] /\ approvals' = approvals
          /\ SameSigners(directives[e], dir)
          /\ directives[e].status = "executing"
          /\ dir.status \in {"completed", "aborted"}
      BY <1>5, <2>1 DEF Settles, DirectiveOutcome
    <2> QED BY <1>2, <2>2, <2>3
  <1>6. ASSUME NEW e \in DirectiveIds, NEW row, NEW to \in DirectiveStates,
               NEW a \in Actors, NEW role \in Roles, Transits(e, row, to, a, role)
        PROVE  Unsigned(d) \/ TransitsBySomeone(d)
    <2>1. CASE e = d
      <3>1. directives'[d] = row
        BY <1>6, <2>1, Tables DEF Transits
      <3> QED BY <1>6, <2>1, <3>1 DEF TransitsBySomeone
    <2>2. CASE e # d
      <3>1. directives'[d] = directives[d]
        BY <1>6, <2>2, Tables DEF Transits
      <3>2. approvals' = approvals \cup Signature(e, to, a, role)
        BY <1>6 DEF Transits
      <3>3. \A p \in Signature(e, to, a, role) : p.directive = e
        BY DEF Signature, Evidence
      <3> QED BY <2>2, <3>1, <3>2, <3>3 DEF Unsigned, SameSigners
    <2> QED BY <2>1, <2>2
  <1>7. CASE DirectiveStep
    BY <1>7, <1>3, <1>4, <1>6 DEF DirectiveStep
  <1>8. CASE ReceiptStep
    <2>1. ASSUME NEW c, NEW row, NEW before,
                 Opens(c, row) \/ Amends(c, row) \/ Discards(c, row, before)
          PROVE  Unsigned(d)
      <3>1. UNCHANGED <<directives, approvals>>
        BY <2>1 DEF Opens, Amends, Discards
      <3> QED BY <3>1 DEF Unsigned, SameSigners
    <2> QED BY <1>8, <2>1, <1>5 DEF ReceiptStep
  <1>9. CASE Quiet \/ RootStep
    BY <1>1, <1>9 DEF Quiet, RootStep, ReservoirStep, GateStep
  <1> QED BY <1>7, <1>8, <1>9 DEF AtomicStep

\* The signature a transition leaves: one row at most, of its own stage.
LEMMA SignatureRows ==
  ASSUME NEW d, NEW to, NEW a, NEW role
  PROVE  /\ to = "pending" =>
              Signature(d, to, a, role) =
                {[directive |-> d, stage |-> "submitted", actor |-> a, role |-> role]}
         /\ to = "approved" =>
              Signature(d, to, a, role) =
                {[directive |-> d, stage |-> "approved", actor |-> a, role |-> role]}
         /\ to \notin {"pending", "approved"} => Signature(d, to, a, role) = {}
  BY DEF Signature, Evidence

\* The part of PaperSound that is about one directive.
PaperOf(d) ==
  LET row == directives[d]
  IN  /\ row.status \in {"approved", "executing", "completed"} =>
           /\ row.approvedBy # None
           /\ row.approvedBy # row.submittedBy
           /\ Signed(d, "approved", row.approvedBy, {"reviewer", "admin"})
      /\ row.status \in {"pending", "approved", "executing", "completed", "aborted"} =>
           Signed(d, "submitted", row.submittedBy, Writers)
      /\ row.status \in {"absent", "draft"} => \A p \in approvals : p.directive # d
      /\ \A p \in approvals :
           p.directive = d /\ p.stage = "approved" =>
             row.status \in {"approved", "executing", "completed", "aborted"}

\* PaperSound is PaperOf of every directive.
LEMMA PaperByDirective ==
  ASSUME approvals \subseteq DirectiveApproval
  PROVE  PaperSound <=> \A d \in DirectiveIds : PaperOf(d)
  BY DEF PaperSound, PaperOf, TwoPersonRule, ApprovalsInOrder, DirectiveApproval

\* A signature, once given, stays.
LEMMA SignedStays ==
  ASSUME NEW d, NEW stage, NEW a, NEW allowed,
         approvals \subseteq approvals', Signed(d, stage, a, allowed)
  PROVE  Signed(d, stage, a, allowed)'
  BY DEF Signed

\* A step that nobody signs keeps the rule.
LEMMA UnsignedKeepsPaper ==
  ASSUME NEW d \in DirectiveIds, PaperOf(d), Unsigned(d)
  PROVE  PaperOf(d)'
  <1>1. /\ approvals \subseteq approvals'
        /\ \A p \in approvals' : p \in approvals \/ p.directive # d
    BY DEF Unsigned
  <1>2. ASSUME SameSigners(directives[d], directives'[d]),
               \/ directives'[d].status = directives[d].status
               \/ /\ directives[d].status = "executing"
                  /\ directives'[d].status \in {"completed", "aborted"}
        PROVE  PaperOf(d)'
    <2>1. directives'[d].status \in {"approved", "executing", "completed"} =>
            /\ directives'[d].approvedBy # None
            /\ directives'[d].approvedBy # directives'[d].submittedBy
            /\ Signed(d, "approved", directives[d].approvedBy, {"reviewer", "admin"})
      BY <1>2 DEF PaperOf, SameSigners
    <2>2. directives'[d].status \in
            {"pending", "approved", "executing", "completed", "aborted"} =>
              Signed(d, "submitted", directives[d].submittedBy, Writers)
      BY <1>2 DEF PaperOf
    <2>3. directives'[d].status \in {"absent", "draft"} => \A p \in approvals' : p.directive # d
      BY <1>1, <1>2 DEF PaperOf
    <2>4. \A p \in approvals' :
            p.directive = d /\ p.stage = "approved" =>
              directives'[d].status \in {"approved", "executing", "completed", "aborted"}
      BY <1>1, <1>2 DEF PaperOf
    <2> QED BY <1>1, <1>2, <2>1, <2>2, <2>3, <2>4, SignedStays
            DEF PaperOf, SameSigners, Signed
  <1>3. ASSUME directives[d].status = "absent", directives'[d].status = "draft"
        PROVE  PaperOf(d)'
    BY <1>1, <1>3 DEF PaperOf
  <1> QED BY <1>2, <1>3 DEF Unsigned

\* A transition keeps the rule: an approval is given to a directive that someone
\* else submitted, in a role that may give it.
LEMMA TransitKeepsPaper ==
  ASSUME NEW d \in DirectiveIds, PaperOf(d), NEW row, row = directives'[d],
         NEW to \in DirectiveStates, NEW a \in Actors, NEW role \in Roles,
         Transits(d, row, to, a, role)
  PROVE  PaperOf(d)'
  <1>1. /\ CanTransition(OperationDirectiveTransitions, directives[d].status, to)
        /\ directiveRoleAllowed(to, role) /\ TwoPeople(directives[d], a, to)
        /\ row.status = to /\ to # "completed"
        /\ approvals' = approvals \cup Signature(d, to, a, role)
    BY DEF Transits
  <1>2. /\ row.submittedBy = IF to = "pending" THEN a ELSE directives[d].submittedBy
        /\ row.approvedBy = IF to = "approved" THEN a ELSE directives[d].approvedBy
    BY DEF Transits
  <1>3. approvals \subseteq approvals'
    BY <1>1
  <1>4. CASE to = "pending"
    <2>1. directives[d].status = "draft" /\ row.submittedBy = a /\ role \in Writers
      BY <1>1, <1>2, <1>4
      DEF CanTransition, OperationDirectiveTransitions, directiveRoleAllowed
    <2>2. PICK p : p = [directive |-> d, stage |-> "submitted", actor |-> a, role |-> role]
      OBVIOUS
    <2>3. approvals' = approvals \cup {p}
      BY <1>1, <1>4, <2>2, SignatureRows
    <2>4. Signed(d, "submitted", a, Writers)'
      BY <2>1, <2>2, <2>3 DEF Signed
    <2>5. \A x \in approvals' : x.directive = d => x.stage # "approved"
      BY <2>1, <2>2, <2>3 DEF PaperOf
    <2> QED BY <1>1, <1>4, <2>1, <2>4, <2>5 DEF PaperOf, Signed
  <1>5. CASE to = "approved"
    <2>1. /\ directives[d].status = "pending" /\ row.approvedBy = a
          /\ row.submittedBy = directives[d].submittedBy
          /\ role \in {"reviewer", "admin"} /\ directives[d].submittedBy # a /\ a # None
      BY <1>1, <1>2, <1>5, NoneAssumption
      DEF CanTransition, OperationDirectiveTransitions, directiveRoleAllowed, TwoPeople
    <2>2. PICK p : p = [directive |-> d, stage |-> "approved", actor |-> a, role |-> role]
      OBVIOUS
    <2>3. approvals' = approvals \cup {p}
      BY <1>1, <1>5, <2>2, SignatureRows
    <2>4. Signed(d, "approved", a, {"reviewer", "admin"})'
      BY <2>1, <2>2, <2>3 DEF Signed
    <2>5. Signed(d, "submitted", row.submittedBy, Writers)
      BY <2>1 DEF PaperOf
    <2>6. Signed(d, "submitted", row.submittedBy, Writers)'
      BY <1>3, <2>5 DEF Signed
    <2> QED BY <1>1, <1>5, <2>1, <2>4, <2>6 DEF PaperOf, Signed
  <1>6. CASE to \notin {"pending", "approved"}
    <2>1. approvals' = approvals
      BY <1>1, <1>6, SignatureRows
    <2>2. row.submittedBy = directives[d].submittedBy
          /\ row.approvedBy = directives[d].approvedBy
      BY <1>2, <1>6
    <2>3. \/ directives[d].status = "approved" /\ to = "executing"
          \/ directives[d].status \in {"pending", "approved", "executing"} /\ to = "aborted"
      BY <1>1, <1>6 DEF CanTransition, OperationDirectiveTransitions
    <2> QED BY <1>1, <2>1, <2>2, <2>3 DEF PaperOf, Signed
  <1> QED BY <1>4, <1>5, <1>6

\* At first the seeded directives are signed as their status says.
LEMMA InitPaper == Init => PaperSound
  <1> SUFFICES ASSUME Init PROVE PaperSound
    OBVIOUS
  <1>1. approvals = SeededApprovals /\ approvals \subseteq DirectiveApproval
    BY DEF Init, SeededApprovals
  <1> SUFFICES ASSUME NEW d \in DirectiveIds PROVE PaperOf(d)
    BY <1>1, PaperByDirective
  <1>2. \A p \in approvals :
          p.directive = d => \/ p.stage = "submitted" /\ p.actor = directives[d].submittedBy
                             \/ p.stage = "approved" /\ p.actor = directives[d].approvedBy
    BY <1>1 DEF SeededApprovals
  <1>3. \A p \in approvals : p.actor # None
    BY <1>1, NoneAssumption DEF DirectiveApproval
  <1>4. CASE directives[d] = NoDirective
    <2>1. \A p \in approvals : p.directive # d
      BY <1>2, <1>3, <1>4 DEF NoDirective
    <2> QED BY <1>4, <2>1 DEF PaperOf, NoDirective
  <1>5. CASE directives[d] \in SeededDirective
    <2>1. PICK row : row = directives[d]
      OBVIOUS
    <2>2. row.live /\ row.status \in {"draft", "pending", "executing"}
      BY <1>5, <2>1 DEF SeededDirective
    <2>3. SeededSigners(row.status, row.submittedBy, row.approvedBy)
      BY <2>1, <2>2 DEF Init
    <2>4. CASE row.status = "draft"
      <3>1. row.submittedBy = None /\ row.approvedBy = None
        BY <2>3, <2>4 DEF SeededSigners
      <3>2. \A p \in approvals : p.directive # d
        BY <1>2, <1>3, <2>1, <3>1
      <3> QED BY <2>1, <2>4, <3>2 DEF PaperOf
    <2>5. ASSUME row.submittedBy \in Actors
          PROVE  Signed(d, "submitted", row.submittedBy, Writers)
      <3>1. PICK p : p = [directive |-> d, stage |-> "submitted",
                          actor |-> row.submittedBy, role |-> "operator"]
        OBVIOUS
      <3>2. p \in approvals
        BY <1>1, <2>1, <2>5, <3>1 DEF SeededApprovals, DirectiveApproval, Roles
      <3> QED BY <3>1, <3>2 DEF Signed, Writers
    <2>6. ASSUME row.approvedBy \in Actors
          PROVE  Signed(d, "approved", row.approvedBy, {"reviewer", "admin"})
      <3>1. PICK p : p = [directive |-> d, stage |-> "approved",
                          actor |-> row.approvedBy, role |-> "reviewer"]
        OBVIOUS
      <3>2. p \in approvals
        BY <1>1, <2>1, <2>6, <3>1 DEF SeededApprovals, DirectiveApproval, Roles
      <3> QED BY <3>1, <3>2 DEF Signed
    <2>7. CASE row.status = "pending"
      <3>1. row.submittedBy \in Actors /\ row.approvedBy = None
        BY <2>3, <2>7 DEF SeededSigners
      <3>2. \A p \in approvals : p.directive = d => p.stage # "approved"
        BY <1>2, <1>3, <2>1, <3>1
      <3> QED BY <2>1, <2>5, <2>7, <3>1, <3>2 DEF PaperOf
    <2>8. CASE row.status = "executing"
      <3>1. row.submittedBy \in Actors /\ row.approvedBy \in Actors \ {row.submittedBy}
        BY <2>3, <2>8 DEF SeededSigners
      <3> QED BY <2>1, <2>5, <2>6, <2>8, <3>1, NoneAssumption DEF PaperOf
    <2> QED BY <2>2, <2>4, <2>7, <2>8
  <1> QED BY <1>4, <1>5 DEF Init

\* Every step keeps the rule.
LEMMA NextPaper ==
  ASSUME Sound, Sound', PaperSound, [Next]_vars
  PROVE  PaperSound'
  <1>1. /\ approvals \subseteq DirectiveApproval
        /\ approvals' \subseteq DirectiveApproval
    BY DEF Sound, Typed, TypeOK
  <1>2. ASSUME NEW d \in DirectiveIds PROVE PaperOf(d)'
    <2>1. PaperOf(d)
      BY <1>1, PaperByDirective
    <2>2. Unsigned(d) \/ TransitsBySomeone(d)
      BY StepsAreAtomic, PaperSteps
    <2> QED BY <2>1, <2>2, UnsignedKeepsPaper, TransitKeepsPaper DEF TransitsBySomeone
  <1> QED BY <1>1, <1>2
          DEF PaperSound, PaperOf, TwoPersonRule, ApprovalsInOrder, DirectiveApproval

\* From approval on a directive has two signatures of different accounts, each
\* given in a role that may give it.
THEOREM TwoPeopleSign == Spec => []TwoPersonRule
  <1>1. Sound /\ Sound' /\ PaperSound /\ [Next]_vars => PaperSound'
    BY NextPaper
  <1>2. PaperSound => TwoPersonRule
    BY DEF PaperSound
  <1> QED BY <1>1, <1>2, InitPaper, StepInvariant, PTL DEF Spec

\* What is signed of a directive a request has read is signed of its row.
LEMMA EvidenceInsertableThen ==
  ASSUME Sound, PaperSound
  PROVE  EvidenceNeverBlocks
  <1> SUFFICES ASSUME NEW r \in Requests, NEW q, q = req[r], q.op = "TransitionDirective",
                      Current(directives, q.id, q.exp)
               PROVE  EvidenceInsertable(Evidence(q))
    BY DEF EvidenceNeverBlocks
  <1>1. Valid(q) /\ directives[q.id] = q.dir
    BY InFlightSound, Fresh DEF Sound
  <1>2. /\ q.id \in DirectiveIds
        /\ CanTransition(OperationDirectiveTransitions, directives[q.id].status, q.to)
    BY <1>1 DEF Valid, DirectiveValid
  <1>3. PaperOf(q.id)
    BY <1>2, PaperByDirective DEF Sound, Typed, TypeOK
  <1>4. ASSUME NEW p \in Evidence(q), NEW o \in approvals
        PROVE  <<p.directive, p.stage>> # <<o.directive, o.stage>>
    <2>1. CASE q.to = "pending"
      <3>1. directives[q.id].status = "draft"
        BY <1>2, <2>1 DEF CanTransition, OperationDirectiveTransitions
      <3>2. p.directive = q.id /\ o.directive # q.id
        BY <1>3, <1>4, <3>1 DEF PaperOf, Evidence
      <3> QED BY <3>2
    <2>2. CASE q.to = "approved"
      <3>1. directives[q.id].status = "pending"
        BY <1>2, <2>2 DEF CanTransition, OperationDirectiveTransitions
      <3>2. p.directive = q.id /\ p.stage = "approved"
        BY <1>4, <2>2 DEF Evidence
      <3>3. o.directive # q.id \/ o.stage # "approved"
        BY <1>3, <3>1 DEF PaperOf
      <3> QED BY <3>2, <3>3
    <2>3. CASE q.to \notin {"pending", "approved"}
      BY <1>4, <2>3 DEF Evidence
    <2> QED BY <2>1, <2>2, <2>3
  <1> QED BY <1>4 DEF EvidenceInsertable

\* The unique index on approvals refuses no transition that wins its version.
THEOREM EvidenceAlwaysInserts == Spec => []EvidenceNeverBlocks
  <1>1. Sound /\ Sound' /\ PaperSound /\ [Next]_vars => PaperSound'
    BY NextPaper
  <1>2. Sound /\ PaperSound => EvidenceNeverBlocks
    BY EvidenceInsertableThen
  <1> QED BY <1>1, <1>2, InitPaper, StepInvariant, PTL DEF Spec

-----------------------------------------------------------------------------
(* Receipts and their directives. *)

\* The steps a directive takes without its receipt, by status.
UnreceiptedSteps ==
  {<<"absent", "draft">>, <<"draft", "pending">>, <<"pending", "approved">>,
   <<"pending", "aborted">>, <<"approved", "executing">>, <<"approved", "aborted">>,
   <<"executing", "aborted">>}

\* The directive moves, if at all, without its receipt.
Unreceipted(d) ==
  \/ directives'[d].status = directives[d].status
  \/ <<directives[d].status, directives'[d].status>> \in UnreceiptedSteps

\* A step of the directive service completes no directive.
LEMMA DirectiveStepCompletesNone ==
  ASSUME Sound, DirectiveStep, NEW d \in DirectiveIds
  PROVE  Unreceipted(d) /\ confirmations' = confirmations
  <1>1. ASSUME NEW e \in DirectiveIds, NEW row,
               directives' = [directives EXCEPT ![e] = row],
               \/ row.status = directives[e].status
               \/ <<directives[e].status, row.status>> \in UnreceiptedSteps
        PROVE  Unreceipted(d)
    <2>1. directives'[d] = IF e = d THEN row ELSE directives[d]
      BY <1>1, Tables
    <2> QED BY <1>1, <2>1 DEF Unreceipted
  <1>2. ASSUME NEW e \in DirectiveIds, NEW row, Drafts(e, row) \/ Revises(e, row)
        PROVE  Unreceipted(d) /\ confirmations' = confirmations
    BY <1>1, <1>2 DEF Drafts, Revises, UnreceiptedSteps
  <1>3. ASSUME NEW e \in DirectiveIds, NEW row, NEW before, Removes(e, row, before)
        PROVE  Unreceipted(d) /\ confirmations' = confirmations
    BY <1>1, <1>3 DEF Removes
  <1>4. ASSUME NEW e \in DirectiveIds, NEW row, NEW to, NEW a, NEW role,
               Transits(e, row, to, a, role)
        PROVE  Unreceipted(d) /\ confirmations' = confirmations
    <2>1. /\ directives' = [directives EXCEPT ![e] = row] /\ row.status = to
          /\ CanTransition(OperationDirectiveTransitions, directives[e].status, to)
          /\ to # "completed" /\ confirmations' = confirmations
      BY <1>4 DEF Transits
    <2>2. <<directives[e].status, to>> \in UnreceiptedSteps
      BY <2>1 DEF CanTransition, OperationDirectiveTransitions, UnreceiptedSteps
    <2> QED BY <1>1, <2>1, <2>2
  <1> QED BY <1>2, <1>3, <1>4 DEF DirectiveStep

\* The three parts of ReceiptOutcome: where a receipt's directive is,
ReceiptOf(c) ==
  LET row == confirmations[c]
  IN  row.status # "absent" =>
        /\ row.directive \in DirectiveIds
        /\ directives[row.directive].status \in
             CASE row.status = "pending" -> {"executing", "aborted"}
               [] row.status = "confirmed" -> {"completed"}
               [] OTHER -> {"aborted"}
\* which receipt completed a directive,
CompletionOf(d) ==
  directives[d].status = "completed" =>
    \E c \in ConfirmationIds :
      confirmations[c].directive = d /\ confirmations[c].status = "confirmed"
\* and that no two receipts share a directive.
OneReceipt(c1, c2) ==
  confirmations[c1].directive = confirmations[c2].directive =>
    c1 = c2 \/ confirmations[c1].status = "absent"

\* These parts are all of it.
LEMMA ReceiptParts ==
  ReceiptOutcome <=> /\ \A c \in ConfirmationIds : ReceiptOf(c)
                     /\ \A d \in DirectiveIds : CompletionOf(d)
                     /\ \A c1, c2 \in ConfirmationIds : OneReceipt(c1, c2)
  BY DEF ReceiptOutcome, ReceiptOf, CompletionOf, OneReceipt

\* Directives that move without their receipts are none that a receipt decided.
LEMMA UnreceiptedKeeps ==
  ASSUME ReceiptOutcome, confirmations' = confirmations,
         \A d \in DirectiveIds : Unreceipted(d)
  PROVE  ReceiptOutcome'
  <1>1. ASSUME NEW c \in ConfirmationIds PROVE ReceiptOf(c)'
    <2> SUFFICES ASSUME confirmations[c].status # "absent" PROVE ReceiptOf(c)'
      BY DEF ReceiptOf
    <2>1. PICK d : d = confirmations[c].directive
      OBVIOUS
    <2>2. ReceiptOf(c)
      BY ReceiptParts
    <2>3. /\ d \in DirectiveIds
          /\ confirmations[c].status = "pending" =>
               directives[d].status \in {"executing", "aborted"}
          /\ confirmations[c].status = "confirmed" => directives[d].status = "completed"
          /\ confirmations[c].status \notin {"pending", "confirmed"} =>
               directives[d].status = "aborted"
      BY <2>1, <2>2 DEF ReceiptOf
    <2>4. /\ confirmations[c].status = "pending" =>
               directives'[d].status \in {"executing", "aborted"}
          /\ confirmations[c].status = "confirmed" => directives'[d].status = "completed"
          /\ confirmations[c].status \notin {"pending", "confirmed"} =>
               directives'[d].status = "aborted"
      BY <2>3 DEF Unreceipted, UnreceiptedSteps
    <2> QED BY <2>1, <2>3, <2>4 DEF ReceiptOf
  <1>2. ASSUME NEW d \in DirectiveIds PROVE CompletionOf(d)'
    BY ReceiptParts DEF CompletionOf, Unreceipted, UnreceiptedSteps
  <1>3. ASSUME NEW c1 \in ConfirmationIds, NEW c2 \in ConfirmationIds
        PROVE  OneReceipt(c1, c2)'
    BY ReceiptParts DEF OneReceipt
  <1> QED BY <1>1, <1>2, <1>3 DEF ReceiptOutcome, ReceiptOf, CompletionOf, OneReceipt

\* A new receipt is the only one of its directive, which cannot be completed: a
\* completed directive has its receipt.
LEMMA OpensKeeps ==
  ASSUME Sound, ReceiptOutcome, NEW c \in ConfirmationIds,
         NEW row \in PresentConfirmation, Opens(c, row)
  PROVE  ReceiptOutcome'
  <1>1. PICK d : d = row.directive
    OBVIOUS
  <1>2. /\ confirmations' = [confirmations EXCEPT ![c] = row] /\ directives' = directives
        /\ row.status = "pending" /\ confirmations[c].status = "absent"
        /\ \A x \in ConfirmationIds : confirmations[x].directive # d
        /\ directives[d].status \in {"executing", "completed", "aborted"}
        /\ d \in DirectiveIds
    BY <1>1 DEF Opens, LinkUnused, PresentConfirmation
  <1>3. confirmations'[c] = row
        /\ \A x \in ConfirmationIds \ {c} : confirmations'[x] = confirmations[x]
    BY <1>2, Tables
  <1>4. directives[d].status \in {"executing", "aborted"}
    BY <1>2, ReceiptParts DEF CompletionOf
  <1>5. ASSUME NEW x \in ConfirmationIds PROVE ReceiptOf(x)'
    <2>1. CASE x = c
      BY <1>1, <1>2, <1>3, <1>4, <2>1 DEF ReceiptOf
    <2>2. CASE x # c
      <3>1. confirmations'[x] = confirmations[x] /\ ReceiptOf(x)
        BY <1>3, <2>2, ReceiptParts
      <3> QED BY <1>2, <3>1 DEF ReceiptOf
    <2> QED BY <2>1, <2>2
  <1>6. ASSUME NEW e \in DirectiveIds PROVE CompletionOf(e)'
    BY <1>2, <1>3, ReceiptParts DEF CompletionOf
  <1>7. ASSUME NEW c1 \in ConfirmationIds, NEW c2 \in ConfirmationIds
        PROVE  OneReceipt(c1, c2)'
    BY <1>1, <1>2, <1>3, ReceiptParts DEF OneReceipt
  <1> QED BY <1>5, <1>6, <1>7 DEF ReceiptOutcome, ReceiptOf, CompletionOf, OneReceipt

\* A receipt that stays what it says, or turns from failed to cancelled.
LEMMA AmendsKeeps ==
  ASSUME Sound, ReceiptOutcome, NEW c \in ConfirmationIds, NEW row, directives' = directives,
         confirmations' = [confirmations EXCEPT ![c] = row],
         row.directive = confirmations[c].directive,
         \/ row.status = confirmations[c].status
         \/ confirmations[c].status = "failed" /\ row.status = "cancelled"
  PROVE  ReceiptOutcome'
  <1>1. confirmations'[c] = row
        /\ \A x \in ConfirmationIds \ {c} : confirmations'[x] = confirmations[x]
    BY Tables
  <1>2. ASSUME NEW x \in ConfirmationIds PROVE ReceiptOf(x)'
    <2>1. ReceiptOf(x)
      BY ReceiptParts
    <2> QED BY <1>1, <2>1 DEF ReceiptOf
  <1>3. ASSUME NEW e \in DirectiveIds PROVE CompletionOf(e)'
    BY <1>1, ReceiptParts DEF CompletionOf
  <1>4. ASSUME NEW c1 \in ConfirmationIds, NEW c2 \in ConfirmationIds
        PROVE  OneReceipt(c1, c2)'
    BY <1>1, ReceiptParts DEF OneReceipt
  <1> QED BY <1>2, <1>3, <1>4 DEF ReceiptOutcome, ReceiptOf, CompletionOf, OneReceipt

\* The outcome is written to the receipt and to its directive in one step; no
\* other receipt refers to that directive.
LEMMA SettlesKeeps ==
  ASSUME Sound, ReceiptOutcome, NEW c \in ConfirmationIds, NEW row, NEW dir,
         Settles(c, row, dir)
  PROVE  ReceiptOutcome'
  <1>1. PICK d : d = confirmations[c].directive
    OBVIOUS
  <1>2. /\ confirmations' = [confirmations EXCEPT ![c] = row]
        /\ directives' = [directives EXCEPT ![d] = dir]
        /\ confirmations[c].status = "pending" /\ row.directive = d
        /\ directives[d].status = "executing"
        /\ \/ row.status = "confirmed" /\ dir.status = "completed"
           \/ row.status = "failed" /\ dir.status = "aborted"
    BY <1>1 DEF Settles, DirectiveOutcome
  <1>3. d \in DirectiveIds /\ \A x \in ConfirmationIds \ {c} :
          confirmations[x].status # "absent" => confirmations[x].directive # d
    <2>1. ReceiptOf(c) /\ \A x \in ConfirmationIds : OneReceipt(x, c)
      BY ReceiptParts
    <2> QED BY <1>1, <1>2, <2>1 DEF ReceiptOf, OneReceipt
  <1>4. /\ confirmations'[c] = row
        /\ \A x \in ConfirmationIds \ {c} : confirmations'[x] = confirmations[x]
        /\ directives'[d] = dir
        /\ \A e \in DirectiveIds \ {d} : directives'[e] = directives[e]
    BY <1>2, <1>3, Tables
  <1>5. ASSUME NEW x \in ConfirmationIds PROVE ReceiptOf(x)'
    <2>1. CASE x = c
      BY <1>2, <1>3, <1>4, <2>1 DEF ReceiptOf
    <2>2. CASE x # c
      <3>1. confirmations'[x] = confirmations[x] /\ ReceiptOf(x)
        BY <1>4, <2>2, ReceiptParts
      <3>2. confirmations[x].status # "absent" =>
              confirmations[x].directive \in DirectiveIds \ {d}
        BY <1>3, <2>2, <3>1 DEF ReceiptOf
      <3> QED BY <1>4, <3>1, <3>2 DEF ReceiptOf
    <2> QED BY <2>1, <2>2
  <1>6. ASSUME NEW e \in DirectiveIds PROVE CompletionOf(e)'
    <2>1. CASE e = d
      BY <1>2, <1>4, <2>1 DEF CompletionOf
    <2>2. CASE e # d
      <3>1. CompletionOf(e) /\ directives'[e] = directives[e]
        BY <1>4, <2>2, ReceiptParts
      <3>2. \A x \in ConfirmationIds :
              confirmations[x].status = "confirmed" => confirmations'[x] = confirmations[x]
        BY <1>2, <1>4
      <3> QED BY <3>1, <3>2 DEF CompletionOf
    <2> QED BY <2>1, <2>2
  <1>7. ASSUME NEW c1 \in ConfirmationIds, NEW c2 \in ConfirmationIds
        PROVE  OneReceipt(c1, c2)'
    <2>1. /\ confirmations'[c1].directive = confirmations[c1].directive
          /\ confirmations'[c2].directive = confirmations[c2].directive
          /\ confirmations[c1].status = "absent" => confirmations'[c1].status = "absent"
      BY <1>1, <1>2, <1>4
    <2>2. OneReceipt(c1, c2)
      BY ReceiptParts
    <2> QED BY <2>1, <2>2 DEF OneReceipt
  <1> QED BY <1>5, <1>6, <1>7 DEF ReceiptOutcome, ReceiptOf, CompletionOf, OneReceipt

\* Every step keeps receipts and directives in agreement.
LEMMA NextReceipts ==
  ASSUME Sound, ReceiptOutcome, [Next]_vars
  PROVE  ReceiptOutcome'
  <1>1. AtomicStep
    BY StepsAreAtomic
  <1>2. CASE DirectiveStep
    <2>1. \A d \in DirectiveIds : Unreceipted(d) /\ confirmations' = confirmations
      BY <1>2, DirectiveStepCompletesNone
    <2>2. DirectiveIds # {}
      BY <1>2 DEF DirectiveStep
    <2> QED BY <2>1, <2>2, UnreceiptedKeeps
  <1>3. CASE Quiet \/ RootStep
    <2>1. UNCHANGED <<directives, confirmations>>
      BY <1>3 DEF Quiet, RootStep, ReservoirStep, GateStep
    <2> QED BY <2>1 DEF ReceiptOutcome
  <1>4. ASSUME NEW c \in ConfirmationIds, NEW row, NEW before,
               Amends(c, row) \/ Discards(c, row, before)
        PROVE  ReceiptOutcome'
    BY <1>4, AmendsKeeps DEF Amends, Discards
  <1>5. CASE ReceiptStep
    BY <1>5, <1>4, OpensKeeps, SettlesKeeps DEF ReceiptStep
  <1> QED BY <1>1, <1>2, <1>3, <1>5 DEF AtomicStep

\* Seed creates at most one receipt per executing directive, and no outcome.
LEMMA InitReceipts == Init => ReceiptOutcome
  <1> SUFFICES ASSUME Init PROVE ReceiptOutcome
    OBVIOUS
  <1>1. ASSUME NEW c \in ConfirmationIds, confirmations[c].status # "absent"
        PROVE  /\ confirmations[c].status = "pending"
               /\ confirmations[c].directive \in DirectiveIds
               /\ directives[confirmations[c].directive].status = "executing"
               /\ \A x \in ConfirmationIds \ {c} :
                    confirmations[x].directive # confirmations[c].directive
    <2>1. confirmations[c] \in SeededConfirmation
      BY <1>1 DEF Init, NoConfirmation
    <2>2. /\ confirmations[c].live /\ confirmations[c].status = "pending"
          /\ confirmations[c].directive \in DirectiveIds
      BY <2>1 DEF SeededConfirmation
    <2>3. Executing(confirmations[c].directive)
          /\ \A x \in ConfirmationIds \ {c} :
               confirmations[x].directive # confirmations[c].directive
      BY <2>2 DEF Init
    <2> QED BY <2>2, <2>3 DEF Executing
  <1>2. ASSUME NEW d \in DirectiveIds PROVE directives[d].status # "completed"
    BY DEF Init, SeededDirective, NoDirective
  <1>3. ASSUME NEW c \in ConfirmationIds PROVE ReceiptOf(c)
    BY <1>1 DEF ReceiptOf
  <1>4. ASSUME NEW d \in DirectiveIds PROVE CompletionOf(d)
    BY <1>2 DEF CompletionOf
  <1>5. ASSUME NEW c1 \in ConfirmationIds, NEW c2 \in ConfirmationIds
        PROVE  OneReceipt(c1, c2)
    BY <1>1 DEF OneReceipt
  <1> QED BY <1>3, <1>4, <1>5, ReceiptParts

\* A receipt and its directive tell the same story, and no directive has two.
THEOREM ReceiptsMatchOutcomes == Spec => []ReceiptOutcome
  <1>1. Sound /\ ReceiptOutcome /\ [Next]_vars => ReceiptOutcome'
    BY NextReceipts
  <1> QED BY <1>1, InitReceipts, StepInvariant, PTL DEF Spec

-----------------------------------------------------------------------------
(* The promises that races break. *)

\* The gate is as the request has read it, or was written or deleted since.
LEMMA EarlierGate ==
  ASSUME Sound, NEW d \in DirectiveIds, NEW r \in Requests, NEW q, q = req[r],
         q.op \in {"TransitionDirective", "TransitionConfirmation"}, q.gate.live,
         q.dir = directives[d], req'[r] = Idle
  PROVE  /\ q.dir.gate \in GateIds
         /\ gates[q.dir.gate] = q.gate \/ GateReadEarlier(d, q.gate.status)
  <1>1. q.dir.gate \in GateIds /\ Held(gates, q.dir.gate, q.gate)
    BY DEF Sound, AllFaithful, Faithful, HeldGate
  <1>2. q.gate.version \in Nat /\ gates[q.dir.gate].version \in Nat
    BY <1>1, InFlightSound, Tables, VersionType DEF Sound, Request
  <1>3. CASE gates[q.dir.gate].live /\ gates[q.dir.gate].version = q.gate.version
    BY <1>1, <1>3 DEF Held
  <1>4. CASE q.gate.version < gates[q.dir.gate].version \/ ~gates[q.dir.gate].live
    BY <1>1, <1>4 DEF GateReadEarlier
  <1> QED BY <1>1, <1>2, <1>3, <1>4 DEF Held

\* A step that leaves the directives alone breaks no promise.
LEMMA NothingToKeep ==
  ASSUME NEW d \in DirectiveIds, directives' = directives
  PROVE  PromiseKept(d)
  BY DEF PromiseKept, Steps

\* A start, an abort or another transition: the gate is as it was read.
LEMMA TransitionKeeps ==
  ASSUME Sound, NEW d \in DirectiveIds, NEW r \in Requests,
         CommitTransitionDirective(r)
  PROVE  PromiseKept(d)
  <1>1. PICK q : q = req[r]
    OBVIOUS
  <1>2. /\ q \in Request /\ Valid(q) /\ q.op = "TransitionDirective" /\ req'[r] = Idle
        /\ Current(directives, q.id, q.exp)
    BY <1>1, InFlightSound
    DEF Sound, Typed, TypeOK, CommitTransitionDirective, InFlight, Finish
  <1>3. /\ q.id \in DirectiveIds /\ q.exp \in Nat /\ q.dir \in PresentDirective
        /\ CanTransition(OperationDirectiveTransitions, q.dir.status, q.to)
        /\ q.to # "completed" /\ q.actor \in Actors /\ q.dir.live
    BY <1>2, LiveRows DEF Valid, DirectiveValid, Request
  <1>4. directives[q.id] = q.dir
    BY <1>1, <1>2, Fresh DEF Sound
  <1>5. q.to \in DirectiveStates
    BY <1>3 DEF CanTransition, OperationDirectiveTransitions, DirectiveStates
  <1>6. PICK mid : mid = Transitioned(q)
    OBVIOUS
  <1>7. mid \in PresentDirective /\ mid.live /\ mid.status = q.to /\ SamePlan(q.dir, mid)
    BY <1>2, <1>3, <1>5, <1>6, TransitionedFields
  <1>8. PICK row : row = [mid EXCEPT !.version = q.exp + 1]
    OBVIOUS
  <1>9. row.live /\ row.status = q.to /\ row.gate = q.dir.gate
    BY <1>3, <1>7, <1>8, DirectiveFields DEF SamePlan
  <1>10. directives' = [directives EXCEPT ![q.id] = row]
    BY <1>1, <1>6, <1>8, WrittenRow DEF CommitTransitionDirective
  <1>11. CASE d # q.id
    <2>1. directives'[d] = directives[d]
      BY <1>10, <1>11, Tables
    <2> QED BY <2>1 DEF PromiseKept, Steps
  <1>12. CASE d = q.id
    <2>1. directives[d] = q.dir /\ directives'[d] = row
      BY <1>4, <1>10, <1>12, Tables
    <2>2. ASSUME ReadsGate(q.dir, q.to)
          PROVE  /\ q.gate.live /\ q.dir.gate \in GateIds
                 /\ gates[q.dir.gate] = q.gate \/ GateReadEarlier(d, q.gate.status)
      BY <1>1, <1>2, <2>1, <2>2, EarlierGate DEF Valid, DirectiveValid
    <2>3. ASSUME MovesGate(q.gate, GateTarget(q.dir, q.gate, q.to)), ReadsGate(q.dir, q.to)
          PROVE  gates[q.dir.gate] = q.gate
      BY <1>1, <1>2, <2>2, <2>3, Fresh DEF Sound, CommitTransitionDirective
    <2>4. ASSUME q.dir.status = "approved", q.to = "executing"
          PROVE  \/ GateOf(d) # "locked"
                 \/ GateReadEarlier(d, q.dir.gateState) \/ GateReadEarlier(d, "moving")
      <3>1. ReadsGate(q.dir, q.to) /\ q.gate.status # "locked"
        BY <1>2, <2>4 DEF Valid, DirectiveValid, ReadsGate
      <3>2. CASE gates[q.dir.gate] = q.gate
        BY <2>1, <3>1, <3>2 DEF GateOf
      <3>3. CASE GateReadEarlier(d, q.gate.status) /\ gates[q.dir.gate] # q.gate
        <4>1. ~MovesGate(q.gate, GateTarget(q.dir, q.gate, q.to))
          BY <2>3, <3>1, <3>3
        <4>2. q.gate.status = q.dir.gateState \/ q.gate.status = "moving"
          BY <2>4, <3>1, <4>1, NoneAssumption
          DEF MovesGate, GateTarget, Statuses, GateStates
        <4> QED BY <3>3, <4>2
      <3> QED BY <2>2, <3>1, <3>2, <3>3
    <2>5. ASSUME q.dir.status = "executing", q.to = "aborted"
          PROVE  GateOf(d)' = "locked" \/ GateReadEarlier(d, "locked")
      <3>1. /\ GateTarget(q.dir, q.gate, q.to) = "locked" /\ ReadsGate(q.dir, q.to)
            /\ "locked" # None
        BY <2>5, NoneAssumption DEF GateTarget, ReadsGate, Statuses, GateStates
      <3>2. GateOf(d)' = gates'[q.dir.gate].status
        BY <1>9, <2>1 DEF GateOf
      <3>3. CASE ~MovesGate(q.gate, "locked")
        <4>1. gates' = gates /\ q.gate.status = "locked"
          BY <1>1, <3>1, <3>3 DEF CommitTransitionDirective, MovesGate
        <4> QED BY <2>2, <3>1, <3>2, <4>1
      <3>4. CASE MovesGate(q.gate, "locked")
        <4>1. gates' = Write(gates, q.dir.gate, q.gate.version,
                             [q.gate EXCEPT !.status = "locked"])
          BY <1>1, <3>1, <3>4 DEF CommitTransitionDirective
        <4>2. q.gate \in PresentGate /\ q.dir.gate \in GateIds
          BY <1>2, <2>2, <3>1, LiveRows DEF Request
        <4>3. gates'[q.dir.gate].status = "locked"
          BY <4>1, <4>2, Tables DEF Write, PresentGate
        <4> QED BY <3>2, <4>3
      <3> QED BY <3>3, <3>4
    <2> QED BY <1>3, <1>9, <2>1, <2>4, <2>5 DEF PromiseKept, Steps
  <1> QED BY <1>11, <1>12

\* An outcome: the gate is as it was read, or is written.
LEMMA OutcomeKeeps ==
  ASSUME Sound, NEW d \in DirectiveIds, NEW r \in Requests,
         CommitOutcome(r)
  PROVE  PromiseKept(d)
  <1>1. PICK q : q = req[r]
    OBVIOUS
  <1>2. /\ q \in Request /\ Valid(q) /\ q.op = "TransitionConfirmation"
        /\ q.conf.status = "pending" /\ req'[r] = Idle
        /\ Current(directives, q.conf.directive, q.dir.version)
    BY <1>1, InFlightSound DEF Sound, Typed, TypeOK, CommitOutcome, InFlight, Finish
  <1>3. /\ CanTransition(ExecutionConfirmationTransitions, q.conf.status, q.to)
        /\ q.dir.live /\ q.dir.status = "executing" /\ q.gate.live /\ q.conf.live
    BY <1>2 DEF Valid, ConfirmationValid, Request
  <1>4. /\ q.conf \in PresentConfirmation /\ q.dir \in PresentDirective
        /\ q.gate \in PresentGate
    BY <1>2, <1>3, LiveRows DEF Request
  <1>5. PICK e : e = q.conf.directive
    OBVIOUS
  <1>6. e \in DirectiveIds /\ q.dir.gate \in GateIds /\ q.dir.version \in Nat
    BY <1>4, <1>5 DEF PresentConfirmation, PresentDirective
  <1>7. q.to \in {"confirmed", "failed"}
    BY <1>2, <1>3 DEF CanTransition, ExecutionConfirmationTransitions
  <1>8. directives[e] = q.dir
    BY <1>1, <1>2, <1>5, Fresh DEF Sound
  <1>9. PICK mid : mid = [q.dir EXCEPT !.status = DirectiveOutcome(q.to)]
    OBVIOUS
  <1>10. PICK row : row = [mid EXCEPT !.version = q.dir.version + 1]
    OBVIOUS
  <1>11. row.live /\ row.status = DirectiveOutcome(q.to) /\ row.gate = q.dir.gate
    <2>1. PICK to : to = DirectiveOutcome(q.to)
      OBVIOUS
    <2>2. to \in DirectiveStates
      BY <2>1 DEF DirectiveOutcome, DirectiveStates
    <2>3. /\ mid \in PresentDirective /\ mid.live
          /\ mid.status = to /\ mid.gate = q.dir.gate
      BY <1>3, <1>4, <1>9, <2>1, <2>2 DEF PresentDirective
    <2>4. /\ row.live = mid.live /\ row.status = mid.status
          /\ SamePlan(mid, row)
      BY <1>6, <1>10, <2>3, DirectiveFields
    <2> QED BY <2>1, <2>3, <2>4 DEF SamePlan
  <1>12. directives' = [directives EXCEPT ![e] = row]
    <2>1. directives' = Write(directives, e, q.dir.version, mid)
      BY <1>1, <1>5, <1>9 DEF CommitOutcome
    <2> QED BY <1>6, <1>10, <2>1, WrittenRow
  <1>13. ASSUME directives[d] = q.dir
         PROVE  \/ gates'[q.dir.gate].status = GateOutcome(q.dir, q.to)
                \/ GateReadEarlier(d, GateOutcome(q.dir, q.to))
    <2>1. CASE gates' = gates /\ q.gate.status = GateOutcome(q.dir, q.to)
      BY <1>1, <1>2, <1>3, <1>13, <2>1, EarlierGate
    <2>2. CASE gates' = Write(gates, q.dir.gate, q.gate.version,
                              [q.gate EXCEPT !.status = GateOutcome(q.dir, q.to)])
      BY <1>4, <1>6, <2>2, Tables DEF Write, PresentGate
    <2> QED BY <1>1, <2>1, <2>2 DEF CommitOutcome
  <1>14. CASE d # e
    <2>1. directives'[d] = directives[d]
      BY <1>12, <1>14, Tables
    <2> QED BY <2>1 DEF PromiseKept, Steps
  <1>15. CASE d = e
    <2>1. directives[d] = q.dir /\ directives'[d] = row
      BY <1>8, <1>12, <1>15, Tables
    <2>2. \/ GateOf(d)' = GateOutcome(q.dir, q.to)
          \/ GateReadEarlier(d, GateOutcome(q.dir, q.to))
      BY <1>11, <1>13, <2>1 DEF GateOf
    <2> QED BY <1>3, <1>7, <1>11, <2>1, <2>2
        DEF PromiseKept, Steps, DirectiveOutcome, GateOutcome
  <1> QED BY <1>14, <1>15

\* The other operations on directives.
LEMMA DirectiveKeeps ==
  ASSUME Sound, NEW d \in DirectiveIds, NEW r \in Requests,
         \/ CommitCreateDirective(r) \/ CommitUpdateDirective(r)
         \/ CommitDeleteDirective(r)
  PROVE  PromiseKept(d)
  <1>1. PICK q : q = req[r]
    OBVIOUS
  <1>2. q \in Request /\ Valid(q) /\ Faithful(q)
    BY <1>1, InFlightSound DEF Sound, AllFaithful
  <1>3. ASSUME NEW row, q.id \in DirectiveIds, directives' = [directives EXCEPT ![q.id] = row],
               row.live, directives[q.id].status \notin {"approved", "executing"}
        PROVE  PromiseKept(d)
    <2>1. directives'[d] = IF d = q.id THEN row ELSE directives[d]
      BY <1>3, Tables
    <2> QED BY <1>3, <2>1 DEF PromiseKept, Steps
  <1>4. CASE CommitCreateDirective(r)
    <2>1. PICK row : /\ row.live
                     /\ directives' = Insert(directives, q.id, row)
      BY <1>1, <1>4 DEF CommitCreateDirective
    <2>2. directives[q.id].status = "absent" /\ q.id \in DirectiveIds
      BY <1>1, <1>2, <1>4 DEF CommitCreateDirective, Insertable, InFlight, Valid, DirectiveValid
    <2> QED BY <1>3, <2>1, <2>2 DEF Insert
  <1>5. CASE CommitUpdateDirective(r)
    <2>1. /\ q.op = "UpdateDirective" /\ q.id \in DirectiveIds
          /\ q.dir.live /\ q.dir.status = "draft"
          /\ Current(directives, q.id, q.exp)
      BY <1>1, <1>2, <1>5 DEF CommitUpdateDirective, InFlight, Valid, DirectiveValid
    <2>2. directives[q.id] = q.dir /\ q.dir \in PresentDirective
      BY <1>1, <1>2, <2>1, Fresh, LiveRows DEF Sound, Request
    <2>3. PICK mid : mid = [q.dir EXCEPT !.facility = q.plan.facility,
                                         !.gate = q.plan.link,
                                         !.gateState = q.plan.gateState]
      OBVIOUS
    <2>4. PICK row : row = [mid EXCEPT !.version = q.exp + 1]
      OBVIOUS
    <2>5. row.live
      <3>1. q.plan.facility \in Facilities /\ q.plan.link \in GateIds
            /\ q.plan.gateState \in GateTargets
        BY <1>2, <2>1 DEF Valid, DirectiveValid
      <3>2. mid \in PresentDirective /\ mid.live
        BY <2>1, <2>2, <2>3, <3>1 DEF PresentDirective
      <3>3. q.exp \in Nat
        BY <1>2 DEF Request
      <3>4. row.live = mid.live
        BY <2>4, <3>2, <3>3, DirectiveFields
      <3> QED BY <3>2, <3>4
    <2>6. directives' = [directives EXCEPT ![q.id] = row]
      <3>1. directives' = Write(directives, q.id, q.exp, mid)
        BY <1>1, <1>5, <2>3 DEF CommitUpdateDirective
      <3> QED BY <2>1, <2>4, <3>1, WrittenRow
    <2> QED BY <1>3, <2>1, <2>2, <2>5, <2>6
  <1>6. CASE CommitDeleteDirective(r)
    <2>1. /\ q.op = "DeleteDirective" /\ q.id \in DirectiveIds
          /\ q.dir.live /\ q.dir.status = "draft" /\ directives[q.id].live
          /\ Held(directives, q.id, q.dir) /\ req'[r] = Idle
      BY <1>1, <1>2, <1>6
      DEF CommitDeleteDirective, InFlight, Live, Finish, Valid, DirectiveValid,
          Faithful, HeldDirective, Sound, Typed, TypeOK
    <2>2. q.dir.version \in Nat /\ directives[q.id].version \in Nat
      BY <1>2, <2>1, Tables, VersionType DEF Request
    <2>3. directives[q.id].status = "draft" \/ ReadEarlier(q.id, directives[q.id], "draft")
      BY <1>1, <2>1, <2>2, EarlierRead DEF Deletions, RowRead
    <2>4. PICK row : row = [directives[q.id] EXCEPT !.live = FALSE]
      OBVIOUS
    <2>5. row.status = directives[q.id].status
      BY <2>1, <2>4, LiveRows DEF Sound, Typed, TypeOK, PresentDirective
    <2>6. directives' = [directives EXCEPT ![q.id] = row]
      BY <1>1, <1>6, <2>4 DEF CommitDeleteDirective, SoftDelete
    <2>7. directives'[d] = IF d = q.id THEN row ELSE directives[d]
      BY <2>1, <2>6, Tables
    <2> QED BY <2>3, <2>5, <2>7 DEF PromiseKept, Steps
  <1> QED BY <1>4, <1>5, <1>6

\* Every step keeps the promises that the documents make.
LEMMA StepsKeepPromises ==
  ASSUME Sound, [Next]_vars, NEW d \in DirectiveIds
  PROVE  PromiseKept(d)
  <1>1. Quiet => directives' = directives
    BY DEF Quiet
  <1>2. RootStep => directives' = directives
    BY DEF RootStep, ReservoirStep, GateStep
  <1>3. ASSUME NEW r \in Requests, ReservoirNext(r) \/ GateNext(r)
        PROVE  PromiseKept(d)
    BY <1>1, <1>2, <1>3, ReservoirSteps, GateSteps, NothingToKeep
  <1>4. ASSUME NEW r \in Requests, DirectiveNext(r)
        PROVE  PromiseKept(d)
    <2>1. ASSUME NEW F, Begin(r, F) PROVE PromiseKept(d)
      BY <2>1, NothingToKeep DEF Begin
    <2>2. CASE \/ CommitCreateDirective(r) \/ CommitUpdateDirective(r)
               \/ CommitTransitionDirective(r) \/ CommitDeleteDirective(r)
      BY <2>2, TransitionKeeps, DirectiveKeeps
    <2>3. ASSUME NEW id \in DirectiveIds, NEW g \in GateIds, NEW f \in Facilities,
                 NEW s \in GateTargets, BeginCreateDirective(r, id, g, f, s)
          PROVE  PromiseKept(d)
      BY <2>1, <2>3 DEF BeginCreateDirective
    <2>4. ASSUME NEW id \in DirectiveIds, NEW g \in GateIds, NEW f \in Facilities,
                 NEW s \in GateTargets, NEW e \in 1..MaxVersion[id],
                 BeginUpdateDirective(r, id, g, f, s, e)
          PROVE  PromiseKept(d)
      BY <2>1, <2>4 DEF BeginUpdateDirective
    <2>5. ASSUME NEW id \in DirectiveIds, NEW to \in DirectiveStates, NEW a \in Actors,
                 NEW role \in Roles, NEW e \in 1..MaxVersion[id],
                 BeginTransitionDirective(r, id, to, a, role, e)
          PROVE  PromiseKept(d)
      BY <2>1, <2>5 DEF BeginTransitionDirective
    <2>6. ASSUME NEW id \in DirectiveIds, BeginDeleteDirective(r, id)
          PROVE  PromiseKept(d)
      BY <2>1, <2>6 DEF BeginDeleteDirective
    <2> QED BY <1>4, <2>2, <2>3, <2>4, <2>5, <2>6 DEF DirectiveNext
  <1>5. ASSUME NEW r \in Requests, ConfirmationNext(r)
        PROVE  PromiseKept(d)
    <2>1. ASSUME NEW F, Begin(r, F) PROVE directives' = directives
      BY <2>1 DEF Begin
    <2>2. CommitOutcome(r) \/ directives' = directives
      BY <1>5, <2>1
      DEF ConfirmationNext, BeginCreateConfirmation, BeginUpdateConfirmation, BeginOutcome,
          BeginCancel, BeginDeleteConfirmation, CommitCreateConfirmation,
          CommitUpdateConfirmation, CommitCancel, CommitDeleteConfirmation
    <2> QED BY <2>2, OutcomeKeeps, NothingToKeep
  <1>6. ASSUME NEW r \in Requests, Abandon(r) PROVE PromiseKept(d)
    BY <1>6, NothingToKeep DEF Abandon
  <1>7. CASE Crash \/ UNCHANGED vars
    BY <1>7, NothingToKeep DEF Crash, vars
  <1> QED BY <1>3, <1>4, <1>5, <1>6, <1>7 DEF Next

\* A promise about a directive, its gate and its deletion fails only when the row that
\* was checked and not written is changed between the check and the commit.
THEOREM RacesAloneBreakPromises == Spec => OnlyRacesBreakPromises
  <1>1. Sound /\ [Next]_vars => [\A d \in DirectiveIds : PromiseKept(d)]_vars
    BY StepsKeepPromises
  <1> QED BY <1>1, StepInvariant, PTL DEF Spec, OnlyRacesBreakPromises
=============================================================================
