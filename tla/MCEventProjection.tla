---------------------------- MODULE MCEventProjection ----------------------------
(***************************************************************************)
(* Instances of EventProjection for TLC.                                   *)
(***************************************************************************)
EXTENDS EventProjection, TLC

CONSTANTS r1, r2, r3, o1, o2, c1, c2

\* Two processes run the same consumer.
OneConsumer == [r \in Runners |-> c1]
TwoOwners == [r \in Runners |-> IF r = r1 THEN o1 ELSE o2]

\* A third call, of the first process, works for another consumer of the view.
SecondConsumer == [r \in Runners |-> IF r = r3 THEN c2 ELSE c1]
ThirdOwner == [r \in Runners |-> IF r = r2 THEN o2 ELSE o1]

\* Three events and two grants, or two events and three grants; with a second
\* consumer at work, one call of each, one grant each and two events.
Bounds ==
  /\ lease[c1].fence > 2 => Len(log) <= 2
  /\ lease[c2].fence > 0 =>
       /\ lease[c1].fence <= 1 /\ lease[c2].fence <= 1
       /\ Len(log) <= 2
       /\ runner[r2] = Idle

\* Every call works for a consumer of its own.
TwoConsumers == [r \in Runners |-> IF r = r1 THEN c1 ELSE c2]

Symmetry == Permutations(Tasks)
=================================================================================
