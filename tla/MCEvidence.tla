------------------------------ MODULE MCEvidence ------------------------------
(* An output that is still inline, two contents that are put without authority *)
(* and three records: the second supersedes the first; the third contradicts   *)
(* the second and is large, its payload being one of these contents.           *)
EXTENDS Evidence, TLC

CONSTANTS v, w, x, y, z, a1, a2

Brief == [retain |-> 0, archive |-> 0, delete |-> 1, allow |-> TRUE]
Late == [retain |-> 1, archive |-> 1, delete |-> 1, allow |-> TRUE]
ByHand == [retain |-> Never, archive |-> Never, delete |-> 1, allow |-> TRUE]

Input(content, label, key, source, authoritative, retention) ==
  [content |-> content, label |-> label, key |-> key, source |-> source,
   authoritative |-> authoritative, retention |-> retention]

MCInputs == {Input(y, "b", 1, "s1", FALSE, Late), Input(z, "b", 2, "s2", FALSE, ByHand)}
MCItems == <<Input(x, "a", 5, "o1", TRUE, Brief)>>

Large == Input(z, "b", 7, "e3", TRUE, Brief)

Record(identity, hash, raw, supersedes, contradicts) ==
  [identity |-> identity, hash |-> hash, raw |-> raw, supersedes |-> supersedes,
   contradicts |-> contradicts, body |-> identity,
   size |-> [raw |-> IF raw = None THEN 1 ELSE 3, gist |-> 1, detail |-> 1]]

MCRecords ==
  {Record("e1", v, None, None, {}), Record("e2", w, None, 1, {}), Record("e3", z, Large, None, {2})}

\* With what e2 brings, both together would be a cycle.
MCWanted == a1 :> Link(1, 3, "supersedes") @@ a2 :> Link(3, 2, "supersedes")

\* Two records with the same bytes, and one edge that two clients add.
Twins == {Record("e1", v, None, None, {}), Record("e2", v, None, None, {})}
Successor == a1 :> Link(2, 1, "supersedes") @@ a2 :> Link(2, 1, "supersedes")

Ask(level, depth, nodes, bytes) == [level |-> level, depth |-> depth, nodes |-> nodes, bytes |-> bytes]

MCRequests == {Ask("gist", 2, 4, 1), Ask("detail", 1, 2, 1), Ask("raw", 1, 4, 3), Ask("raw", 2, 2, 5)}
NoInputs == {}
NoItems == <<>>
==============================================================================
