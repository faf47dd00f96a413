------------------------------- MODULE MCPolicy -------------------------------
(* Two versions of one policy: a lenient one with a scope, and a strict one. *)
EXTENDS Policy, TLC

CONSTANTS v1, v2, k1, k2, k3

KeySymmetry == Permutations(Keys)

MCPolicyOf == [ref \in Refs |-> "p"]

MCPack ==
  (v1 :> [mode |-> "automatic", requireFor |-> {"delete"}, rules |-> {"structure"},
          limit |-> [change |-> 2, validation |-> 3], reindex |-> FALSE])
  @@ (v2 :> [mode |-> "required", requireFor |-> {}, rules |-> {},
             limit |-> [change |-> 1, validation |-> 3], reindex |-> TRUE])

\* A deletion, a larger change that asks for automatic approval under the default.
MCChangeAsks ==
  {[policy |-> v1, mode |-> "automatic", types |-> {"delete"}, budget |-> 0, size |-> 1, validators |-> {}],
   [policy |-> None, mode |-> "automatic", types |-> {"create"}, budget |-> 2, size |-> 2, validators |-> {}]}

\* The default plan, and one that names its policy and wants one validator more.
MCValidationAsks ==
  {[policy |-> None, mode |-> "", types |-> {}, budget |-> 0, validators |-> {}],
   [policy |-> v1, mode |-> "", types |-> {}, budget |-> 3, validators |-> {"sql"}]}
==============================================================================
