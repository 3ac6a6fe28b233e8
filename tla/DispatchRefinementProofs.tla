----------------------- MODULE DispatchRefinementProofs ---------------------
(***************************************************************************)
(* DispatchControl implements DirectiveWorkflow, proved: initial states    *)
(* map to initial states, and every step maps to one step of the workflow  *)
(* or to none.                                                             *)
(***************************************************************************)
EXTENDS DispatchWorkflowProofs

-----------------------------------------------------------------------------
(* The state of the workflow, as W maps it. *)

\* A directive's phase is its status.
PhaseMap == [d \in DirectiveIds |-> directives[d].status]
\* Its plan is the gate and the gate's position.
PlanMap ==
  [d \in DirectiveIds |-> [gate |-> directives[d].gate, gateState |-> directives[d].gateState]]
\* Its signers are in its row.
SignersMap ==
  [d \in DirectiveIds |-> [submittedBy |-> directives[d].submittedBy,
                           approvedBy |-> directives[d].approvedBy]]
\* A gate is its status.
GateMap == [g \in GateIds |-> gates[g].status]
\* A receipt is its status and its directive.
ReceiptMap ==
  [c \in ConfirmationIds |-> [status |-> confirmations[c].status,
                              directive |-> confirmations[c].directive]]

\* One directive's row is written.
LEMMA DirectiveMapped ==
  ASSUME Sound, NEW d \in DirectiveIds, NEW row, directives' = [directives EXCEPT ![d] = row]
  PROVE  /\ PhaseMap' = [PhaseMap EXCEPT ![d] = row.status]
         /\ PlanMap' = [PlanMap EXCEPT ![d] = [gate |-> row.gate, gateState |-> row.gateState]]
         /\ SignersMap' = [SignersMap EXCEPT ![d] = [submittedBy |-> row.submittedBy,
                                                     approvedBy |-> row.approvedBy]]
  <1>1. \A e \in DirectiveIds : directives'[e] = IF e = d THEN row ELSE directives[e]
    BY Tables
  <1>2. PhaseMap' = [PhaseMap EXCEPT ![d] = row.status]
    <2>1. \A e \in DirectiveIds :
            directives'[e].status = IF e = d THEN row.status ELSE directives[e].status
      BY <1>1
    <2> QED BY <2>1 DEF PhaseMap
  <1>3. PlanMap' = [PlanMap EXCEPT ![d] = [gate |-> row.gate, gateState |-> row.gateState]]
    BY <1>1 DEF PlanMap
  <1>4. SignersMap' = [SignersMap EXCEPT ![d] = [submittedBy |-> row.submittedBy,
                                                 approvedBy |-> row.approvedBy]]
    BY <1>1 DEF SignersMap
  <1> QED BY <1>2, <1>3, <1>4

\* A directive's row is written and keeps its plan, or its signers.
LEMMA DirectiveMapKept ==
  ASSUME Sound, NEW d \in DirectiveIds, NEW row, directives' = [directives EXCEPT ![d] = row]
  PROVE  /\ row.status = directives[d].status => PhaseMap' = PhaseMap
         /\ SamePlan(directives[d], row) => PlanMap' = PlanMap
         /\ SameSigners(directives[d], row) => SignersMap' = SignersMap
  <1>1. \A e \in DirectiveIds : directives'[e] = IF e = d THEN row ELSE directives[e]
    BY Tables
  <1>2. ASSUME row.status = directives[d].status PROVE PhaseMap' = PhaseMap
    BY <1>1, <1>2 DEF PhaseMap
  <1>3. ASSUME SamePlan(directives[d], row) PROVE PlanMap' = PlanMap
    <2>1. \A e \in DirectiveIds : directives'[e].gate = directives[e].gate
                                  /\ directives'[e].gateState = directives[e].gateState
      BY <1>1, <1>3 DEF SamePlan
    <2> QED BY <2>1 DEF PlanMap
  <1>4. ASSUME SameSigners(directives[d], row) PROVE SignersMap' = SignersMap
    <2>1. \A e \in DirectiveIds : directives'[e].submittedBy = directives[e].submittedBy
                                  /\ directives'[e].approvedBy = directives[e].approvedBy
      BY <1>1, <1>4 DEF SameSigners
    <2> QED BY <2>1 DEF SignersMap
  <1> QED BY <1>2, <1>3, <1>4

\* One gate's row is written.
LEMMA GateMapped ==
  ASSUME Sound, NEW g \in GateIds, NEW row, gates' = [gates EXCEPT ![g] = row]
  PROVE  /\ GateMap' = [GateMap EXCEPT ![g] = row.status]
         /\ row.status = gates[g].status => GateMap' = GateMap
  <1>1. \A e \in GateIds : gates'[e] = IF e = g THEN row ELSE gates[e]
    BY Tables
  <1>2. \A e \in GateIds : gates'[e].status = IF e = g THEN row.status ELSE gates[e].status
    BY <1>1
  <1>3. GateMap' = [GateMap EXCEPT ![g] = row.status]
    BY <1>2 DEF GateMap
  <1>4. ASSUME row.status = gates[g].status PROVE GateMap' = GateMap
    <2>1. \A e \in GateIds : gates'[e].status = gates[e].status
      BY <1>2, <1>4
    <2> QED BY <2>1 DEF GateMap
  <1> QED BY <1>3, <1>4

\* One receipt's row is written.
LEMMA ReceiptMapped ==
  ASSUME Sound, NEW c \in ConfirmationIds, NEW row,
         confirmations' = [confirmations EXCEPT ![c] = row]
  PROVE  /\ ReceiptMap' = [ReceiptMap EXCEPT ![c] = [status |-> row.status,
                                                     directive |-> row.directive]]
         /\ row.directive = confirmations[c].directive =>
              ReceiptMap' = [ReceiptMap EXCEPT ![c].status = row.status]
         /\ row.directive = confirmations[c].directive
            /\ row.status = confirmations[c].status => ReceiptMap' = ReceiptMap
  <1>1. \A e \in ConfirmationIds :
          confirmations'[e] = IF e = c THEN row ELSE confirmations[e]
    BY Tables
  <1>2. ReceiptMap' = [ReceiptMap EXCEPT ![c] = [status |-> row.status,
                                                 directive |-> row.directive]]
    BY <1>1 DEF ReceiptMap
  <1>3. ASSUME row.directive = confirmations[c].directive
        PROVE  ReceiptMap' = [ReceiptMap EXCEPT ![c].status = row.status]
    <2>1. [ReceiptMap[c] EXCEPT !.status = row.status] =
            [status |-> row.status, directive |-> row.directive]
      BY <1>3 DEF ReceiptMap
    <2> QED BY <1>2, <2>1
  <1>4. ASSUME row.directive = confirmations[c].directive, row.status = confirmations[c].status
        PROVE  ReceiptMap' = ReceiptMap
    <2>1. \A e \in ConfirmationIds : confirmations'[e].status = confirmations[e].status
                                     /\ confirmations'[e].directive = confirmations[e].directive
      BY <1>1, <1>4
    <2> QED BY <2>1 DEF ReceiptMap
  <1> QED BY <1>2, <1>3, <1>4

\* The maps of tables that stay.
LEMMA MapsKept ==
  /\ directives' = directives => /\ PhaseMap' = PhaseMap /\ PlanMap' = PlanMap
                                 /\ SignersMap' = SignersMap
  /\ gates' = gates => GateMap' = GateMap
  /\ confirmations' = confirmations => ReceiptMap' = ReceiptMap
  BY DEF PhaseMap, PlanMap, SignersMap, GateMap, ReceiptMap

\* The workflow's graphs are the services' graphs.
LEMMA SameGraphs ==
  /\ W!GateUnitTransitions = GateUnitTransitions
  /\ W!GateUnitInitialStatus = GateUnitInitialStatus
  /\ W!GateStates = GateStates
  /\ \A graph, from, to : W!CanTransition(graph, from, to) <=> CanTransition(graph, from, to)
  BY DEF W!GateUnitTransitions, GateUnitTransitions, W!GateUnitInitialStatus,
         GateUnitInitialStatus, W!GateStates, GateStates, W!CanTransition, CanTransition

-----------------------------------------------------------------------------
(* Steps of the workflow, told with the maps. *)

\* Nothing of the workflow changes.
Stutter ==
  /\ PhaseMap' = PhaseMap /\ PlanMap' = PlanMap /\ SignersMap' = SignersMap
  /\ GateMap' = GateMap /\ ReceiptMap' = ReceiptMap

\* That is a stutter of the workflow.
LEMMA StutterIsStutter == Stutter => UNCHANGED W!wvars
  BY DEF Stutter, W!wvars, PhaseMap, PlanMap, SignersMap, GateMap, ReceiptMap

\* What a gate does while its directive moves.
LEMMA GateAnswers ==
  ASSUME Sound, NEW g \in GateIds, NEW target, NEW trail, GateFollows(g, target, trail)
  PROVE  W!GateAnswers(g, target)
  <1>1. CASE gates' = gates
    BY <1>1 DEF W!GateAnswers
  <1>2. ASSUME NEW row, row.status = target, gates' = [gates EXCEPT ![g] = row],
               CanTransition(GateUnitTransitions, gates[g].status, target)
        PROVE  W!GateAnswers(g, target)
    <2>1. GateMap' = [GateMap EXCEPT ![g] = target]
      BY <1>2, GateMapped
    <2>2. W!CanTransition(W!GateUnitTransitions, GateMap[g], target)
      BY <1>2, SameGraphs DEF GateMap
    <2> QED BY <2>1, <2>2 DEF W!GateAnswers, GateMap
  <1> QED BY <1>1, <1>2 DEF GateFollows

\* A directive enters a status.
LEMMA Enters ==
  ASSUME NEW d \in DirectiveIds, NEW to, PhaseMap' = [PhaseMap EXCEPT ![d] = to]
  PROVE  W!Enter(d, directives[d].status, to)
  BY DEF W!Enter, PhaseMap

-----------------------------------------------------------------------------
(* Every step of the database is a step of the workflow. *)

\* Reservoirs are not part of the workflow; a gate is installed or operated.
LEMMA RootStepMaps ==
  ASSUME Sound, RootStep
  PROVE  W!WNext \/ Stutter
  <1>1. ASSUME NEW id, NEW row, NEW before, NEW after, ReservoirStep(id, row, before, after)
        PROVE  Stutter
    BY <1>1, MapsKept DEF ReservoirStep, Stutter
  <1>2. ASSUME NEW g \in GateIds, NEW row \in PresentGate, NEW before, NEW after,
               GateStep(g, row, before, after)
        PROVE  W!WNext \/ Stutter
    <2>1. /\ GateMap' = [GateMap EXCEPT ![g] = row.status]
          /\ row.status = gates[g].status => GateMap' = GateMap
      BY <1>2, GateMapped DEF GateStep
    <2>2. /\ PhaseMap' = PhaseMap /\ PlanMap' = PlanMap
          /\ SignersMap' = SignersMap /\ ReceiptMap' = ReceiptMap
      BY <1>2, MapsKept DEF GateStep
    <2>3. CASE row.status = gates[g].status
      BY <2>1, <2>2, <2>3 DEF Stutter
    <2>4. CASE gates[g].status = "absent" /\ row.status = GateUnitInitialStatus
      <3>1. W!InstallGate(g)
        BY <2>1, <2>2, <2>4, SameGraphs
        DEF W!InstallGate, PhaseMap, PlanMap, SignersMap, ReceiptMap, GateMap
      <3> QED BY <3>1 DEF W!WNext
    <2>5. CASE CanTransition(GateUnitTransitions, gates[g].status, row.status)
      <3>1. W!CanTransition(W!GateUnitTransitions, GateMap[g], row.status)
        BY <2>5, SameGraphs DEF GateMap
      <3>2. W!OperateGate(g, row.status)
        BY <2>1, <2>2, <3>1
        DEF W!OperateGate, PhaseMap, PlanMap, SignersMap, ReceiptMap, GateMap
      <3>3. row.status \in W!GateStates
        BY SameGraphs DEF PresentGate
      <3> QED BY <3>2, <3>3 DEF W!WNext
    <2> QED BY <1>2, <2>3, <2>4, <2>5 DEF GateStep, Altered
  <1> QED BY <1>1, <1>2 DEF RootStep

\* A directive that was not inserted yet is the empty row.
LEMMA AbsentDirective ==
  ASSUME Sound, NEW d \in DirectiveIds, directives[d].status = "absent"
  PROVE  directives[d].submittedBy = None /\ directives[d].approvedBy = None
  BY PresentStatus DEF Sound, Typed, TypeOK, OperationDirective, NoDirective

\* A transition of a directive is submission, approval, start or abort.
LEMMA TransitMaps ==
  ASSUME Sound, NEW d \in DirectiveIds, NEW row \in PresentDirective,
         NEW to \in DirectiveStates, NEW a \in Actors, NEW role, Transits(d, row, to, a, role)
  PROVE  W!WNext
  <1>1. PICK old : old = directives[d]
    OBVIOUS
  <1>2. /\ CanTransition(OperationDirectiveTransitions, old.status, to)
        /\ to # "completed" /\ TwoPeople(old, a, to) /\ SamePlan(old, row)
        /\ row.status = to /\ directives' = [directives EXCEPT ![d] = row]
        /\ confirmations' = confirmations
    BY <1>1 DEF Transits
  <1>3. /\ row.submittedBy = IF to = "pending" THEN a ELSE old.submittedBy
        /\ row.approvedBy = IF to = "approved" THEN a ELSE old.approvedBy
    BY <1>1 DEF Transits
  <1>4. \/ old.status = "draft" /\ to = "pending"
        \/ old.status = "pending" /\ to = "approved"
        \/ old.status = "approved" /\ to = "executing"
        \/ old.status \in {"pending", "approved"} /\ to = "aborted"
        \/ old.status = "executing" /\ to = "aborted"
    BY <1>2 DEF CanTransition, OperationDirectiveTransitions
  <1>5. W!Enter(d, old.status, to)
    <2>1. PhaseMap' = [PhaseMap EXCEPT ![d] = to]
      BY <1>1, <1>2, DirectiveMapped
    <2> QED BY <1>1, <1>2, <2>1, Enters
  <1>6. PlanMap' = PlanMap /\ ReceiptMap' = ReceiptMap
    BY <1>1, <1>2, DirectiveMapKept, MapsKept
  <1>7. /\ SignersMap' = [SignersMap EXCEPT ![d] = [submittedBy |-> row.submittedBy,
                                                     approvedBy |-> row.approvedBy]]
        /\ SameSigners(old, row) => SignersMap' = SignersMap
    BY <1>1, <1>2, DirectiveMapped, DirectiveMapKept
  <1>8. old \in PresentDirective
    BY <1>1, LiveRows DEF Transits, Succeeds, Sound, Typed, TypeOK
  <1>9. old.gate = PlanMap[d].gate /\ old.gate \in GateIds
    BY <1>1, <1>8 DEF PlanMap, PresentDirective
  <1>10. ~ReadsGate(old, to) => GateMap' = GateMap
    BY <1>1, MapsKept DEF Transits
  <1>11. W!GateAnswers(old.gate, IF to = "aborted" THEN "locked" ELSE "moving")
    <2>1. CASE gates' = gates
      BY <2>1 DEF W!GateAnswers
    <2>2. PICK target, trail : target = (IF to = "aborted" THEN "locked" ELSE "moving")
                               /\ trail = Logged(audit, d, old.status, to)
      OBVIOUS
    <2>3. CASE GateFollows(old.gate, target, trail)
      BY <1>9, <2>2, <2>3, GateAnswers
    <2> QED BY <1>1, <2>1, <2>2, <2>3 DEF Transits
  <1>12. CASE old.status = "draft" /\ to = "pending"
    <2>1. SignersMap' = [SignersMap EXCEPT ![d].submittedBy = a]
      <3>1. [SignersMap[d] EXCEPT !.submittedBy = a] =
              [submittedBy |-> row.submittedBy, approvedBy |-> row.approvedBy]
        BY <1>1, <1>3, <1>12 DEF SignersMap
      <3> QED BY <1>7, <3>1
    <2>2. GateMap' = GateMap
      BY <1>10, <1>12 DEF ReadsGate
    <2>3. W!Submit(d, a)
      BY <1>5, <1>6, <1>12, <2>1, <2>2 DEF W!Submit, PlanMap, SignersMap, GateMap, ReceiptMap
    <2> QED BY <2>3 DEF W!WNext
  <1>13. CASE old.status = "pending" /\ to = "approved"
    <2>1. SignersMap' = [SignersMap EXCEPT ![d].approvedBy = a]
      <3>1. [SignersMap[d] EXCEPT !.approvedBy = a] =
              [submittedBy |-> row.submittedBy, approvedBy |-> row.approvedBy]
        BY <1>1, <1>3, <1>13 DEF SignersMap
      <3> QED BY <1>7, <3>1
    <2>2. GateMap' = GateMap
      BY <1>10, <1>13 DEF ReadsGate
    <2>3. SignersMap[d].submittedBy \in Actors \ {a}
      BY <1>1, <1>2, <1>8, <1>13 DEF TwoPeople, SignersMap, PresentDirective
    <2>4. W!Approve(d, a)
      BY <1>5, <1>6, <1>13, <2>1, <2>2, <2>3
      DEF W!Approve, PlanMap, SignersMap, GateMap, ReceiptMap
    <2> QED BY <2>4 DEF W!WNext
  <1>14. ASSUME to \in {"executing", "aborted"} PROVE SignersMap' = SignersMap
    BY <1>3, <1>7, <1>14 DEF SameSigners
  <1>15. CASE old.status = "approved" /\ to = "executing"
    <2>1. W!Start(d)
      BY <1>5, <1>6, <1>9, <1>11, <1>14, <1>15 DEF W!Start, PlanMap, SignersMap, ReceiptMap
    <2> QED BY <2>1 DEF W!WNext
  <1>16. CASE old.status \in {"pending", "approved"} /\ to = "aborted"
    <2>1. GateMap' = GateMap
      BY <1>10, <1>16 DEF ReadsGate
    <2>2. W!CallOff(d)
      BY <1>5, <1>6, <1>14, <1>16, <2>1 DEF W!CallOff, PlanMap, SignersMap, GateMap, ReceiptMap
    <2> QED BY <2>2 DEF W!WNext
  <1>17. CASE old.status = "executing" /\ to = "aborted"
    <2>1. W!Abort(d)
      BY <1>5, <1>6, <1>9, <1>11, <1>14, <1>17 DEF W!Abort, PlanMap, SignersMap, ReceiptMap
    <2> QED BY <2>1 DEF W!WNext
  <1> QED BY <1>4, <1>12, <1>13, <1>15, <1>16, <1>17

\* A step of the directive service.
LEMMA DirectiveStepMaps ==
  ASSUME Sound, DirectiveStep
  PROVE  W!WNext \/ Stutter
  <1>1. ASSUME NEW d \in DirectiveIds, NEW row \in PresentDirective, Drafts(d, row)
        PROVE  W!WNext
    <2>1. PICK g, s : g = row.gate /\ s = row.gateState
      OBVIOUS
    <2>2. /\ directives[d].status = "absent" /\ row.status = "draft"
          /\ row.submittedBy = None /\ row.approvedBy = None
          /\ directives' = [directives EXCEPT ![d] = row]
          /\ gates[g].status # "absent" /\ UNCHANGED <<gates, confirmations>>
      BY <1>1, <2>1 DEF Drafts
    <2>3. g \in GateIds /\ s \in GateTargets
      BY <2>1 DEF PresentDirective
    <2>4. SignersMap' = SignersMap
      BY <2>2, AbsentDirective, DirectiveMapKept DEF SameSigners
    <2>5. PlanMap' = [PlanMap EXCEPT ![d] = [gate |-> g, gateState |-> s]]
      BY <2>1, <2>2, DirectiveMapped
    <2>6. W!Enter(d, "absent", "draft")
      <3>1. PhaseMap' = [PhaseMap EXCEPT ![d] = row.status]
        BY <2>2, DirectiveMapped
      <3>2. PhaseMap' = [PhaseMap EXCEPT ![d] = "draft"]
        BY <2>2, <3>1
      <3> QED BY <2>2, <3>2, Enters
    <2>7. GateMap' = GateMap /\ ReceiptMap' = ReceiptMap /\ GateMap[g] # "absent"
      BY <2>2, <2>3, MapsKept DEF GateMap
    <2>8. W!Draft(d, g, s)
      BY <2>4, <2>5, <2>6, <2>7 DEF W!Draft, PlanMap, SignersMap, GateMap, ReceiptMap
    <2> QED BY <2>3, <2>8 DEF W!WNext
  <1>2. ASSUME NEW d \in DirectiveIds, NEW row \in PresentDirective, Revises(d, row)
        PROVE  W!WNext
    <2>1. PICK g, s : g = row.gate /\ s = row.gateState
      OBVIOUS
    <2>2. /\ directives[d].status = "draft" /\ row.status = "draft"
          /\ SameSigners(directives[d], row)
          /\ directives' = [directives EXCEPT ![d] = row]
          /\ gates[g].status # "absent" /\ UNCHANGED <<gates, confirmations>>
      BY <1>2, <2>1 DEF Revises
    <2>3. g \in GateIds /\ s \in GateTargets
      BY <2>1 DEF PresentDirective
    <2>4. SignersMap' = SignersMap /\ PhaseMap' = PhaseMap
      BY <2>2, DirectiveMapKept
    <2>5. PlanMap' = [PlanMap EXCEPT ![d] = [gate |-> g, gateState |-> s]]
      BY <2>1, <2>2, DirectiveMapped
    <2>6. /\ GateMap' = GateMap /\ ReceiptMap' = ReceiptMap /\ GateMap[g] # "absent"
          /\ PhaseMap[d] = "draft"
      BY <2>2, <2>3, MapsKept DEF GateMap, PhaseMap
    <2>7. W!Revise(d, g, s)
      BY <2>4, <2>5, <2>6 DEF W!Revise, PhaseMap, PlanMap, SignersMap, GateMap, ReceiptMap
    <2> QED BY <2>3, <2>7 DEF W!WNext
  <1>3. ASSUME NEW d \in DirectiveIds, NEW row, NEW before, Removes(d, row, before)
        PROVE  Stutter
    BY <1>3, DirectiveMapKept, MapsKept DEF Removes, Stutter
  <1> QED BY <1>1, <1>2, <1>3, TransitMaps DEF DirectiveStep

\* A receipt is opened for a directive that executes or was aborted meanwhile:
\* one that was completed has its receipt already.
LEMMA OpensMaps ==
  ASSUME Sound, ReceiptOutcome, NEW c \in ConfirmationIds,
         NEW row \in PresentConfirmation, Opens(c, row)
  PROVE  W!WNext
  <1>1. PICK d : d = row.directive
    OBVIOUS
  <1>2. /\ confirmations[c].status = "absent" /\ row.status = "pending"
        /\ confirmations' = [confirmations EXCEPT ![c] = row]
        /\ UNCHANGED <<gates, directives>>
        /\ \A x \in ConfirmationIds : confirmations[x].directive # d
        /\ directives[d].status \in {"executing", "completed", "aborted"}
    BY <1>1 DEF Opens, LinkUnused
  <1>3. d \in DirectiveIds
    BY <1>1 DEF PresentConfirmation
  <1>4. directives[d].status \in {"executing", "aborted"}
    BY <1>2, <1>3, ReceiptParts DEF CompletionOf
  <1>5. ReceiptMap' = [ReceiptMap EXCEPT ![c] = [status |-> "pending", directive |-> d]]
    <2>1. ReceiptMap' = [ReceiptMap EXCEPT ![c] = [status |-> row.status,
                                                   directive |-> row.directive]]
      BY <1>2, ReceiptMapped
    <2> QED BY <1>1, <1>2, <2>1
  <1>6. /\ PhaseMap' = PhaseMap /\ PlanMap' = PlanMap /\ SignersMap' = SignersMap
        /\ GateMap' = GateMap
    BY <1>2, MapsKept
  <1>7. /\ ReceiptMap[c].status = "absent"
        /\ \A x \in ConfirmationIds : ReceiptMap[x].directive # d
        /\ PhaseMap[d] \in {"executing", "aborted"}
    BY <1>2, <1>3, <1>4 DEF ReceiptMap, PhaseMap
  <1>8. W!OpenReceipt(c, d)
    BY <1>5, <1>6, <1>7
    DEF W!OpenReceipt, PhaseMap, PlanMap, SignersMap, GateMap, ReceiptMap
  <1> QED BY <1>3, <1>8 DEF W!WNext

\* A receipt is decided.
LEMMA Decides ==
  ASSUME NEW c \in ConfirmationIds, NEW to,
         ReceiptMap' = [ReceiptMap EXCEPT ![c].status = to]
  PROVE  W!Decide(c, confirmations[c].status, to)
  BY DEF W!Decide, ReceiptMap

\* An update of a receipt is no step of the workflow; cancelling it is one.
LEMMA AmendsMaps ==
  ASSUME Sound, NEW c \in ConfirmationIds, NEW row, Amends(c, row)
  PROVE  W!WNext \/ Stutter
  <1>1. /\ confirmations' = [confirmations EXCEPT ![c] = row]
        /\ row.directive = confirmations[c].directive
        /\ UNCHANGED <<gates, directives>>
        /\ \/ row.status = confirmations[c].status
           \/ confirmations[c].status = "failed" /\ row.status = "cancelled"
    BY DEF Amends
  <1>2. /\ PhaseMap' = PhaseMap /\ PlanMap' = PlanMap /\ SignersMap' = SignersMap
        /\ GateMap' = GateMap
    BY <1>1, MapsKept
  <1>3. CASE row.status = confirmations[c].status
    BY <1>1, <1>2, <1>3, ReceiptMapped DEF Stutter
  <1>4. CASE confirmations[c].status = "failed" /\ row.status = "cancelled"
    <2>1. W!Decide(c, "failed", "cancelled")
      BY <1>1, <1>4, ReceiptMapped, Decides
    <2>2. W!Cancel(c)
      BY <1>2, <2>1 DEF W!Cancel, PhaseMap, PlanMap, SignersMap, GateMap
    <2> QED BY <2>2 DEF W!WNext
  <1> QED BY <1>1, <1>3, <1>4

\* The outcome of a receipt moves directive, receipt and gate at once.
LEMMA SettlesMaps ==
  ASSUME Sound, NEW c \in ConfirmationIds, NEW row, NEW dir, Settles(c, row, dir)
  PROVE  W!WNext
  <1>1. PICK d, g : d = confirmations[c].directive /\ g = directives[d].gate
    OBVIOUS
  <1>2. d \in DirectiveIds
    BY <1>1, LiveRows DEF Settles, Succeeds, Sound, Typed, TypeOK, PresentConfirmation
  <1>3. g \in GateIds
    BY <1>1, <1>2, LiveRows DEF Settles, Succeeds, Sound, Typed, TypeOK, PresentDirective
  <1>4. /\ confirmations[c].status = "pending" /\ row.status \in {"confirmed", "failed"}
        /\ row.directive = confirmations[c].directive
        /\ directives[d].status = "executing" /\ dir.status = DirectiveOutcome(row.status)
        /\ SamePlan(directives[d], dir) /\ SameSigners(directives[d], dir)
        /\ confirmations' = [confirmations EXCEPT ![c] = row]
        /\ directives' = [directives EXCEPT ![d] = dir]
    BY <1>1 DEF Settles
  <1>5. PICK target, trail : GateFollows(g, target, trail)
                             /\ target = GateOutcome(directives[d], row.status)
    BY <1>1 DEF Settles
  <1>6. W!GateAnswers(g, target)
    BY <1>3, <1>5, GateAnswers
  <1>7. W!Enter(d, "executing", dir.status)
    <2>1. PhaseMap' = [PhaseMap EXCEPT ![d] = dir.status]
      BY <1>2, <1>4, DirectiveMapped
    <2> QED BY <1>2, <1>4, <2>1, Enters
  <1>8. PlanMap' = PlanMap /\ SignersMap' = SignersMap
    BY <1>2, <1>4, DirectiveMapKept
  <1>9. W!Decide(c, "pending", row.status)
    BY <1>4, ReceiptMapped, Decides
  <1>10. /\ ReceiptMap[c].directive = d
         /\ PlanMap[d].gate = g /\ PlanMap[d].gateState = directives[d].gateState
    BY <1>1, <1>2 DEF ReceiptMap, PlanMap
  <1>11. CASE row.status = "confirmed"
    <2>1. dir.status = "completed" /\ target = PlanMap[d].gateState
      BY <1>4, <1>5, <1>10, <1>11 DEF DirectiveOutcome, GateOutcome
    <2>2. /\ W!GateAnswers(PlanMap[ReceiptMap[c].directive].gate,
                           PlanMap[ReceiptMap[c].directive].gateState)
          /\ W!Enter(ReceiptMap[c].directive, "executing", "completed")
          /\ W!Decide(c, "pending", "confirmed")
      <3>1. W!GateAnswers(PlanMap[ReceiptMap[c].directive].gate,
                          PlanMap[ReceiptMap[c].directive].gateState)
        BY <1>6, <1>10, <2>1 DEF W!GateAnswers
      <3>2. W!Enter(ReceiptMap[c].directive, "executing", "completed")
        BY <1>7, <1>10, <2>1
      <3>3. W!Decide(c, "pending", "confirmed")
        BY <1>9, <1>11
      <3> QED BY <3>1, <3>2, <3>3
    <2>3. W!Confirm(c)
      BY <1>8, <2>2 DEF W!Confirm, PlanMap, SignersMap, ReceiptMap
    <2> QED BY <2>3 DEF W!WNext
  <1>12. CASE row.status = "failed"
    <2>1. dir.status = "aborted" /\ target = "locked"
      BY <1>4, <1>5, <1>12 DEF DirectiveOutcome, GateOutcome
    <2>2. W!Fail(c)
      BY <1>6, <1>7, <1>8, <1>9, <1>10, <1>12, <2>1
      DEF W!Fail, PlanMap, SignersMap, ReceiptMap
    <2> QED BY <2>2 DEF W!WNext
  <1> QED BY <1>4, <1>11, <1>12

\* Every step of the backend is a step of the workflow, or none.
LEMMA NextMaps ==
  ASSUME Sound, ReceiptOutcome, [Next]_vars
  PROVE  [W!WNext]_(W!wvars)
  <1> SUFFICES W!WNext \/ Stutter
    BY StutterIsStutter
  <1>1. AtomicStep
    BY StepsAreAtomic
  <1>2. CASE Quiet
    BY <1>2, MapsKept DEF Quiet, Stutter
  <1>3. ASSUME NEW c \in ConfirmationIds, NEW row, NEW before, Discards(c, row, before)
        PROVE  Stutter
    BY <1>3, ReceiptMapped, MapsKept DEF Discards, Stutter
  <1>4. CASE ReceiptStep
    BY <1>4, <1>3, OpensMaps, AmendsMaps, SettlesMaps DEF ReceiptStep
  <1> QED BY <1>1, <1>2, <1>4, RootStepMaps, DirectiveStepMaps DEF AtomicStep

\* The seeded database is an initial state of the workflow.
LEMMA InitMaps == Init => W!WInit
  <1> SUFFICES ASSUME Init PROVE W!WInit
    OBVIOUS
  <1>1. ASSUME NEW d \in DirectiveIds
        PROVE  /\ PhaseMap[d] \in {"absent", "draft", "pending", "executing"}
               /\ PlanMap[d] \in [gate : GateIds \cup {None},
                                  gateState : GateTargets \cup {None}]
               /\ SignersMap[d] \in [submittedBy : Actors \cup {None},
                                     approvedBy : Actors \cup {None}]
               /\ PlanMap[d].gate = None <=> PhaseMap[d] = "absent"
               /\ SignersMap[d].submittedBy = None <=> PhaseMap[d] \in {"absent", "draft"}
               /\ SignersMap[d].approvedBy = None <=> PhaseMap[d] # "executing"
               /\ PhaseMap[d] = "executing" =>
                    SignersMap[d].submittedBy # SignersMap[d].approvedBy
    <2>1. PICK row : row = directives[d]
      OBVIOUS
    <2>2. /\ PhaseMap[d] = row.status
          /\ PlanMap[d] = [gate |-> row.gate, gateState |-> row.gateState]
          /\ SignersMap[d] = [submittedBy |-> row.submittedBy,
                              approvedBy |-> row.approvedBy]
      BY <2>1 DEF PhaseMap, PlanMap, SignersMap
    <2>3. CASE row = NoDirective
      BY <2>2, <2>3 DEF NoDirective
    <2>4. CASE row \in SeededDirective
      <3>1. /\ row.live /\ row.status \in {"draft", "pending", "executing"}
            /\ row.gate \in GateIds /\ row.gateState \in GateTargets
            /\ row.submittedBy \in Actors \cup {None}
            /\ row.approvedBy \in Actors \cup {None}
        BY <2>4 DEF SeededDirective
      <3>2. SeededSigners(row.status, row.submittedBy, row.approvedBy)
        BY <2>1, <3>1 DEF Init
      <3>3. row.gate # None
        BY <3>1, NoneAssumption DEF EntityIds
      <3> QED BY <2>2, <3>1, <3>2, <3>3, NoneAssumption DEF SeededSigners
    <2> QED BY <2>1, <2>3, <2>4 DEF Init
  <1>2. ASSUME NEW g \in GateIds PROVE GateMap[g] \in {"absent", "open", "closed", "moving"}
    <2>1. gates[g] \in SeededGate \cup {NoGate}
      BY DEF Init
    <2> QED BY <2>1, SeedAssumption DEF SeededGate, NoGate, GateMap
  <1>3. ASSUME NEW c \in ConfirmationIds
        PROVE  /\ ReceiptMap[c] \in [status : {"absent", "pending"},
                                     directive : DirectiveIds \cup {None}]
               /\ ReceiptMap[c].directive = None <=> ReceiptMap[c].status = "absent"
               /\ ReceiptMap[c].status = "pending" =>
                    /\ PhaseMap[ReceiptMap[c].directive] = "executing"
                    /\ \A x \in ConfirmationIds \ {c} :
                         ReceiptMap[x].directive # ReceiptMap[c].directive
    <2>1. PICK row : row = confirmations[c]
      OBVIOUS
    <2>2. ReceiptMap[c] = [status |-> row.status, directive |-> row.directive]
      BY <2>1 DEF ReceiptMap
    <2>3. CASE row = NoConfirmation
      BY <2>2, <2>3 DEF NoConfirmation
    <2>4. CASE row \in SeededConfirmation
      <3>1. row.live /\ row.status = "pending" /\ row.directive \in DirectiveIds
        BY <2>4 DEF SeededConfirmation
      <3>2. /\ Executing(row.directive)
            /\ \A x \in ConfirmationIds \ {c} : confirmations[x].directive # row.directive
        BY <2>1, <3>1 DEF Init
      <3>3. row.directive # None
        BY <3>1, NoneAssumption DEF EntityIds
      <3>4. /\ PhaseMap[row.directive] = "executing"
            /\ \A x \in ConfirmationIds \ {c} : ReceiptMap[x].directive # row.directive
        BY <3>1, <3>2 DEF PhaseMap, ReceiptMap, Executing
      <3> QED BY <2>2, <3>1, <3>3, <3>4
    <2> QED BY <2>1, <2>3, <2>4 DEF Init
  <1>4. /\ PhaseMap \in [DirectiveIds -> {"absent", "draft", "pending", "executing"}]
        /\ PlanMap \in [DirectiveIds -> [gate : GateIds \cup {None},
                                         gateState : GateTargets \cup {None}]]
        /\ SignersMap \in [DirectiveIds -> [submittedBy : Actors \cup {None},
                                            approvedBy : Actors \cup {None}]]
        /\ GateMap \in [GateIds -> {"absent", "open", "closed", "moving"}]
        /\ ReceiptMap \in [ConfirmationIds -> [status : {"absent", "pending"},
                                               directive : DirectiveIds \cup {None}]]
    BY <1>1, <1>2, <1>3 DEF PhaseMap, PlanMap, SignersMap, GateMap, ReceiptMap
  <1> QED BY <1>1, <1>3, <1>4
      DEF W!WInit, PhaseMap, PlanMap, SignersMap, GateMap, ReceiptMap

\* Concurrent requests over the tables implement the workflow in which every
\* step reads, checks and changes directive, receipt and gate at once.
THEOREM BackendImplementsWorkflow == Spec => ImplementsWorkflow
  <1>1. Sound /\ ReceiptOutcome /\ [Next]_vars => [W!WNext]_(W!wvars)
    BY NextMaps
  <1> QED BY <1>1, InitMaps, StepInvariant, ReceiptsMatchOutcomes, PTL
      DEF Spec, ImplementsWorkflow, W!WSpec
=============================================================================
