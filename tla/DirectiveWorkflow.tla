-------------------------- MODULE DirectiveWorkflow -------------------------
(***************************************************************************)
(* What the dispatch backend promises of directives, receipts and gates,   *)
(* as if nobody else were there: every step of the workflow reads the      *)
(* current state, checks it and changes directive, receipt and gate at     *)
(* once.  DispatchControl, where a request checks rows that other requests *)
(* may change before it writes, is shown to implement it.                  *)
(*                                                                         *)
(* One thing is weaker than one would wish, because the code promises no   *)
(* more: a step that found its gate already where it wants it leaves the   *)
(* gate alone, and does not notice when it moves away at that moment.      *)
(***************************************************************************)
EXTENDS Statuses

CONSTANTS DirectiveIds, GateIds, ConfirmationIds, Actors, GateTargets, None

VARIABLES
  phase,      \* status of every directive
  plan,       \* the gate it operates and the state it wants it in
  signers,    \* who submitted and who approved it
  gate,       \* status of every gate
  receipt     \* status and directive of every receipt

wvars == <<phase, plan, signers, gate, receipt>>

\* No directive yet, or the seeded ones: a draft, a submitted and an executing
\* directive, the last perhaps with its receipt.
WInit ==
  /\ phase \in [DirectiveIds -> {"absent", "draft", "pending", "executing"}]
  /\ plan \in [DirectiveIds -> [gate : GateIds \cup {None},
                               gateState : GateTargets \cup {None}]]
  /\ signers \in [DirectiveIds -> [submittedBy : Actors \cup {None},
                                  approvedBy : Actors \cup {None}]]
  /\ \A d \in DirectiveIds :
       /\ plan[d].gate = None <=> phase[d] = "absent"
       /\ signers[d].submittedBy = None <=> phase[d] \in {"absent", "draft"}
       /\ signers[d].approvedBy = None <=> phase[d] # "executing"
       /\ phase[d] = "executing" => signers[d].submittedBy # signers[d].approvedBy
  /\ gate \in [GateIds -> {"absent", "open", "closed", "moving"}]
  /\ receipt \in [ConfirmationIds -> [status : {"absent", "pending"},
                                     directive : DirectiveIds \cup {None}]]
  /\ \A c \in ConfirmationIds :
       /\ receipt[c].directive = None <=> receipt[c].status = "absent"
       /\ receipt[c].status = "pending" =>
            /\ phase[receipt[c].directive] = "executing"
            /\ \A other \in ConfirmationIds \ {c} :
                 receipt[other].directive # receipt[c].directive

Enter(d, from, to) ==
  /\ phase[d] = from
  /\ phase' = [phase EXCEPT ![d] = to]

\* The gate goes to s along its graph, or stays.
GateAnswers(g, s) ==
  \/ gate' = gate
  \/ /\ CanTransition(GateUnitTransitions, gate[g], s)
     /\ gate' = [gate EXCEPT ![g] = s]

Draft(d, g, s) ==
  /\ Enter(d, "absent", "draft")
  /\ gate[g] # "absent"
  /\ plan' = [plan EXCEPT ![d] = [gate |-> g, gateState |-> s]]
  /\ UNCHANGED <<signers, gate, receipt>>

Revise(d, g, s) ==
  /\ phase[d] = "draft"
  /\ gate[g] # "absent"
  /\ plan' = [plan EXCEPT ![d] = [gate |-> g, gateState |-> s]]
  /\ UNCHANGED <<phase, signers, gate, receipt>>

Submit(d, a) ==
  /\ Enter(d, "draft", "pending")
  /\ signers' = [signers EXCEPT ![d].submittedBy = a]
  /\ UNCHANGED <<plan, gate, receipt>>

Approve(d, a) ==
  /\ Enter(d, "pending", "approved")
  /\ signers[d].submittedBy \in Actors \ {a}
  /\ signers' = [signers EXCEPT ![d].approvedBy = a]
  /\ UNCHANGED <<plan, gate, receipt>>

Start(d) ==
  /\ Enter(d, "approved", "executing")
  /\ GateAnswers(plan[d].gate, "moving")
  /\ UNCHANGED <<plan, signers, receipt>>

CallOff(d) ==
  /\ Enter(d, "pending", "aborted") \/ Enter(d, "approved", "aborted")
  /\ UNCHANGED <<plan, signers, gate, receipt>>

Abort(d) ==
  /\ Enter(d, "executing", "aborted")
  /\ GateAnswers(plan[d].gate, "locked")
  /\ UNCHANGED <<plan, signers, receipt>>

\* A receipt may come late: its directive was executing, and may have been
\* aborted since.
OpenReceipt(c, d) ==
  /\ receipt[c].status = "absent"
  /\ \A other \in ConfirmationIds : receipt[other].directive # d
  /\ phase[d] \in {"executing", "aborted"}
  /\ receipt' = [receipt EXCEPT ![c] = [status |-> "pending", directive |-> d]]
  /\ UNCHANGED <<phase, plan, signers, gate>>

Decide(c, from, to) ==
  /\ receipt[c].status = from
  /\ receipt' = [receipt EXCEPT ![c].status = to]

Confirm(c) ==
  LET d == receipt[c].directive
  IN  /\ Decide(c, "pending", "confirmed")
      /\ Enter(d, "executing", "completed")
      /\ GateAnswers(plan[d].gate, plan[d].gateState)
      /\ UNCHANGED <<plan, signers>>

Fail(c) ==
  LET d == receipt[c].directive
  IN  /\ Decide(c, "pending", "failed")
      /\ Enter(d, "executing", "aborted")
      /\ GateAnswers(plan[d].gate, "locked")
      /\ UNCHANGED <<plan, signers>>

Cancel(c) ==
  /\ Decide(c, "failed", "cancelled")
  /\ UNCHANGED <<phase, plan, signers, gate>>

InstallGate(g) ==
  /\ gate[g] = "absent"
  /\ gate' = [gate EXCEPT ![g] = GateUnitInitialStatus]
  /\ UNCHANGED <<phase, plan, signers, receipt>>

OperateGate(g, s) ==
  /\ CanTransition(GateUnitTransitions, gate[g], s)
  /\ gate' = [gate EXCEPT ![g] = s]
  /\ UNCHANGED <<phase, plan, signers, receipt>>

WNext ==
  \/ \E d \in DirectiveIds :
       \/ \E g \in GateIds, s \in GateTargets : Draft(d, g, s) \/ Revise(d, g, s)
       \/ \E a \in Actors : Submit(d, a) \/ Approve(d, a)
       \/ Start(d) \/ CallOff(d) \/ Abort(d)
  \/ \E c \in ConfirmationIds :
       \/ \E d \in DirectiveIds : OpenReceipt(c, d)
       \/ Confirm(c) \/ Fail(c) \/ Cancel(c)
  \/ \E g \in GateIds :
       \/ InstallGate(g)
       \/ \E s \in GateStates : OperateGate(g, s)

WSpec == WInit /\ [][WNext]_wvars
=============================================================================
