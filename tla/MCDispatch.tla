----------------------------- MODULE MCDispatch -----------------------------
(***************************************************************************)
(* Constants of the model-checking runs of DispatchControl.                *)
(***************************************************************************)
EXTENDS DispatchControl, TLC

CONSTANTS
  alice, bob,             \* accounts
  MaxReservoirVersion, MaxGateVersion, MaxDirectiveVersion, MaxConfirmationVersion

\* Alice was moved from operator to reviewer, or back; Bob is an admin, who may
\* both submit and approve.
MCRolesOf == (alice :> {"operator", "reviewer"}) @@ (bob :> {"admin"})

MCMaxVersion ==
  [id \in EntityIds |->
     IF id \in ReservoirIds THEN MaxReservoirVersion
     ELSE IF id \in GateIds THEN MaxGateVersion
     ELSE IF id \in DirectiveIds THEN MaxDirectiveVersion
     ELSE MaxConfirmationVersion]

\* Requests are interchangeable.
MCSymmetry == Permutations(Requests)

\* Two directives compete for one gate, and two receipts for the directives: one
\* executes and waits for its receipt's outcome, the other is drafted, submitted,
\* approved, started or aborted.
ContentionOperations ==
  {"CreateDirective", "TransitionDirective", "CreateConfirmation",
   "TransitionConfirmation"}

\* The operations of the dispatch workflow itself.
WorkflowOperations ==
  {"CreateDirective", "UpdateDirective", "TransitionDirective",
   "CreateConfirmation", "UpdateConfirmation", "TransitionConfirmation"}

\* With deletions, and gates that their operators move while a directive runs.
LifecycleOperations ==
  {"TransitionGate", "DeleteGate",
   "CreateDirective", "TransitionDirective", "DeleteDirective",
   "CreateConfirmation", "TransitionConfirmation", "DeleteConfirmation"}

\* The registry of reservoirs and gates, and the drafts that refer to it.
RegistryOperations ==
  {"CreateReservoir", "UpdateReservoir", "TransitionReservoir", "DeleteReservoir",
   "CreateGate", "UpdateGate", "TransitionGate", "DeleteGate",
   "CreateDirective", "UpdateDirective", "DeleteDirective"}
=============================================================================
