--------------------------- MODULE MCTransactions ---------------------------
(***************************************************************************)
(* Constants of the model-checking runs of DispatchTransactions; MCDispatch *)
(* has those of the backend itself.                                        *)
(***************************************************************************)
EXTENDS MCDispatch, DispatchTransactions

\* The accounts of Seed: an operator and a reviewer.
SeedRolesOf == (alice :> {"operator"}) @@ (bob :> {"reviewer"})
=============================================================================
