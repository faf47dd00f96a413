---------------------------- MODULE MCTaskStore ----------------------------
(***************************************************************************)
(* Instances of TaskStore for TLC.                                         *)
(***************************************************************************)
EXTENDS TaskStore, FiniteSets, TLC

CONSTANTS s1, s2

\* Every session offers the capabilities of every task.
MCCapable == [s \in Sessions |-> Tasks]

\* Only s1 offers those of the first task.
MCSpecialised == [s \in Sessions |-> IF s = s1 THEN Tasks ELSE Tasks \ {1}]

\* While a key is in use, one session and first attempts are enough.
KeysAlone ==
  (\E k \in Keys : idem[k] # NoRequest) =>
    /\ Cardinality({s \in Sessions : session[s].status # "unregistered"}) <= 1
    /\ \A t \in Tasks : task[t].attempts <= 1

\* Sessions are interchangeable where MCCapable is used and all are slow.
Symmetry == Permutations(Sessions)
============================================================================
