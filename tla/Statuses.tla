------------------------------ MODULE Statuses ------------------------------
(***************************************************************************)
(* The status graphs of the four dispatch entities and the roles that may  *)
(* take their edges: backend/internal/constants/status.go, the initial     *)
(* statuses of backend/internal/model, and the role tables of the handlers *)
(* and of the directive service.  A graph is the set of its edges.         *)
(***************************************************************************)

ReservoirStates == {"normal", "warning", "critical", "restricted"}
GateStates == {"open", "closed", "moving", "locked"}
DirectiveStates ==
  {"draft", "pending", "approved", "executing", "completed", "aborted"}
ConfirmationStates == {"pending", "confirmed", "failed", "cancelled"}
Statuses ==
  ReservoirStates \cup GateStates \cup DirectiveStates \cup ConfirmationStates

ReservoirInitialStatus == "normal"
GateUnitInitialStatus == "open"
OperationDirectiveInitialStatus == "draft"
ExecutionConfirmationInitialStatus == "pending"

ReservoirTransitions ==
  {<<"normal", "warning">>, <<"normal", "critical">>,
   <<"warning", "critical">>, <<"warning", "restricted">>, <<"warning", "normal">>,
   <<"critical", "restricted">>, <<"critical", "warning">>,
   <<"restricted", "critical">>}

GateUnitTransitions ==
  {<<"open", "moving">>, <<"open", "locked">>,
   <<"closed", "moving">>, <<"closed", "locked">>,
   <<"moving", "open">>, <<"moving", "closed">>, <<"moving", "locked">>,
   <<"locked", "closed">>}

OperationDirectiveTransitions ==
  {<<"draft", "pending">>,
   <<"pending", "approved">>, <<"pending", "aborted">>,
   <<"approved", "executing">>, <<"approved", "aborted">>,
   <<"executing", "completed">>, <<"executing", "aborted">>}

ExecutionConfirmationTransitions ==
  {<<"pending", "confirmed">>, <<"pending", "failed">>, <<"failed", "cancelled">>}

CanTransition(graph, from, to) == <<from, to>> \in graph

-----------------------------------------------------------------------------
Roles == {"viewer", "operator", "reviewer", "admin"}

\* RequireRoles on the routes of every entity: POST and PUT, DELETE.
Writers == {"operator", "admin"}
Deleters == {"admin"}

\* POST /directives/:id/transition is open to the reviewer as well; the
\* service then asks which of them may ask for this target.
Dispatchers == {"operator", "reviewer", "admin"}

\* Mutant of directiveRoleAllowed: whoever the route admits may do everything.
directiveRoleOpen(target, role) == role \in Dispatchers

directiveRoleAllowed(target, role) ==
  \/ target \in {"pending", "executing"} /\ role \in Writers
  \/ target = "approved" /\ role \in {"reviewer", "admin"}
  \/ target = "aborted" /\ role \in Dispatchers
=============================================================================
