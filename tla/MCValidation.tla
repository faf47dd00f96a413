------------------------------ MODULE MCValidation ------------------------------
(* One path, which the packet touched; a second content for an edit. *)
EXTENDS Validation, TLC

CONSTANTS f, g, k1

MCSymbols == (f :> {"F"}) @@ (g :> {"G"})
MCExpected == <<f>>
Applied == {<<f>>}
AppliedOrEdited == {<<f>>, <<g>>}

Reindexing(cause, task) ==
  [fence |-> 1, task |-> task, cause |-> cause, checks |-> {"tree", "reindex"}, handsOff |-> TRUE]

\* The default plan for a task, without one, and twice for different causes.
OfTask == {Reindexing("", TRUE)}
Untasked == {Reindexing("", FALSE)}
OfTaskOrNot == OfTask \cup Untasked
Caused == {Reindexing("agent", TRUE), Reindexing("", TRUE)}

\* What handoffs ask for, and an operator.
OperatorRequest == [fence |-> 0, extract |-> FALSE, cause |-> ""]
HandoffRequests ==
  {[fence |-> n, extract |-> FALSE, cause |-> r] : n \in {0, 1}, r \in Runs} \cup {OperatorRequest}
==============================================================================
