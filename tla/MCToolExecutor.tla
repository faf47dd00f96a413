----------------------------- MODULE MCToolExecutor -----------------------------
(***************************************************************************)
(* Instances of ToolExecutor for TLC.                                      *)
(***************************************************************************)
EXTENDS ToolExecutor, TLC

CONSTANTS write, deploy, granted

\* deploy and granted are one request under two policies; write is another one
\* that needs an approval.
Mode == (write :> "interactive") @@ (deploy :> "interactive") @@ (granted :> "preapproved")

Hash == (write :> 1) @@ (deploy :> 2) @@ (granted :> 2)

Symmetry == Permutations(Callers)
=================================================================================
