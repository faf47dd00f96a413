------------------------------- MODULE MCAgentRun -------------------------------
(***************************************************************************)
(* Instances of AgentRun for TLC.                                          *)
(***************************************************************************)
EXTENDS AgentRun, TLC

CONSTANTS read, write

\* One response asks for a tool that needs no approval and one that does, one
\* only for the first, one for nothing.
Calls == ("both" :> <<read, write>>) @@ ("read" :> <<read>>) @@ ("write" :> <<write>>) @@ ("answer" :> <<>>)
           @@ ("essay" :> <<>>)

Policy == (read :> "automatic") @@ (write :> "interactive")

Symmetry == Permutations(Workers)
=================================================================================
