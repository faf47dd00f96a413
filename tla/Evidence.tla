------------------------------- MODULE Evidence -------------------------------
(***************************************************************************)
(* internal/store/evidence.go: source records and the typed provenance     *)
(* edges between them, on top of the artifacts that hold large raw         *)
(* payloads.                                                               *)
(*                                                                         *)
(* A record is put with its edges in one transaction.  An edge of its own  *)
(* is added in several statements: two requests interleave, and only the   *)
(* workspace's advisory lock keeps two supersessions from closing a cycle. *)
(***************************************************************************)
EXTENDS Artifact

CONSTANTS Records,      \* what is put as evidence
          Adders,       \* clients that add an edge, at the same time
          Wanted,       \* the edge each of them adds
          Requests      \* what is asked of a record

VARIABLES evidence,  \* fornix.evidence_records by id
          edges,     \* fornix.provenance_edges
          adder      \* how far each client's request is

evidenceVars == <<evidence, edges, adder>>

\* Alphabetical: the order rows of edges are read in.
Relations == <<"caused_by", "contradicts", "derived_from", "refines", "supersedes", "supports">>

Edge == [from : Nat \ {0}, to : Nat \ {0}, relation : {Relations[n] : n \in 1..Len(Relations)}]

\* As normalized: nothing is unlimited.
DisclosureRequest ==
  [level : {"gist", "detail", "raw"}, depth : Nat \ {0}, nodes : Nat \ {0}, bytes : Nat \ {0}]

\* An identity is source reference and deduplication key; a body is kind, media
\* type, gist and detail; raw is the artifact of a payload that does not fit.
\* Sizes are those of gist, detail and raw, in the unit of a request's bytes.
Normalized(input) ==
  /\ DOMAIN input = {"identity", "body", "hash", "size", "raw", "supersedes", "contradicts"}
  /\ input.size \in [gist : Nat \ {0}, detail : Nat, raw : Nat \ {0}]
  /\ input.raw # None =>
       /\ ValidInput(input.raw) /\ input.raw.authoritative
       /\ input.raw.content = input.hash /\ input.raw.source = input.identity

ASSUME EvidenceAssumption ==
  /\ \A input \in Records : Normalized(input)
  /\ \A a \in Adders : Wanted[a] \in Edge /\ Wanted[a].from # Wanted[a].to
  /\ Requests \subseteq DisclosureRequest

EvidenceInit ==
  /\ Init
  /\ evidence = <<>>
  /\ edges = {}
  /\ adder = [a \in Adders |-> "idle"]

------------------------------------------------------------------------------
(* Reading *)

Ids == DOMAIN evidence

\* getEvidenceTx: the row is there, and so are the bytes its hash is of.
Readable(id) ==
  id \in Ids /\ (evidence[id].artifact # None => artifact[evidence[id].artifact].chunks = "whole")

Successors(id) == {newer \in Ids : evidence[newer].supersedes = id}

Contradictions(id) == {e \in edges : e.relation = "contradicts" /\ id \in {e.from, e.to}}

\* ResolveEvidenceHashes: whether a gold reference counts as evidence.
Resolves(hash) ==
  LET found == {id \in Ids : evidence[id].hash = hash}
  IN /\ found # {}
     /\ \A id \in found : Readable(id) /\ Successors(id) = {} /\ Contradictions(id) = {}

Place(relation) == CHOOSE n \in 1..Len(Relations) : Relations[n] = relation

Before(e, other) ==
  \/ Place(e.relation) < Place(other.relation)
  \/ e.relation = other.relation /\ e.from < other.from
  \/ e.relation = other.relation /\ e.from = other.from /\ e.to < other.to

Ends(some) == {e.from : e \in some} \cup {e.to : e \in some}

\* One hop of traverseTx: a query of at most limit + 1 rows, read until limit
\* edges are known; a node is new unless limit nodes are.
Hop(walk, limit) ==
  LET incident == {e \in edges : e.from \in walk.frontier \/ e.to \in walk.frontier}
      rows == {e \in incident : Cardinality({o \in incident : Before(o, e)}) <= limit}
      Above(e, some) == {o \in some : Before(o, e)}
      read == {e \in rows : Above(e, rows) = {} \/ Cardinality(walk.edges \cup Above(e, rows)) < limit}
      new == read \ walk.edges
      next == Ends({e \in new : Cardinality(walk.nodes \cup Ends(Above(e, new))) < limit}) \ walk.nodes
  IN [edges |-> walk.edges \cup new, nodes |-> walk.nodes \cup next, frontier |-> next,
      truncated |-> \/ walk.truncated
                    \/ Cardinality(walk.edges \cup read) >= limit
                    \/ Cardinality(rows) > limit]

EndedQuietly(walk) == walk.truncated

\* What the depth budget leaves unexplored is reported.
Ended(walk) == walk.truncated \/ walk.frontier # {}

Traversed(root, depth, limit) ==
  LET walk[d \in 0..depth] ==
        IF d = 0 THEN [edges |-> {}, nodes |-> {root}, frontier |-> {root}, truncated |-> FALSE]
        ELSE IF walk[d - 1].frontier = {} THEN walk[d - 1]
        ELSE Hop(walk[d - 1], limit)
  IN [edges |-> walk[depth].edges, truncated |-> Ended(walk[depth])]

Fitted(size, left) == IF size <= left THEN size ELSE left

\* Disclose: as much of the text as fits the budget, raw bytes whole or not at
\* all, and the first of its successors and contradictions.
Disclosed(id, request) ==
  LET size == evidence[id].size
      walk == Traversed(id, request.depth, request.nodes)
      gist == Fitted(size.gist, request.bytes)
      detail == IF request.level = "gist" THEN 0 ELSE Fitted(size.detail, request.bytes - gist)
      raw == IF request.level = "raw" /\ size.raw <= request.bytes - gist - detail THEN size.raw ELSE 0
  IN [gist |-> gist, detail |-> detail, raw |-> raw, edges |-> walk.edges,
      successors |-> {n \in Successors(id) : Cardinality({o \in Successors(id) : o < n}) < request.nodes},
      truncated |-> \/ walk.truncated
                    \/ Cardinality(Successors(id)) > request.nodes
                    \/ Cardinality(Contradictions(id)) > request.nodes
                    \/ gist < size.gist
                    \/ request.level # "gist" /\ detail < size.detail
                    \/ request.level = "raw" /\ raw < size.raw]

------------------------------------------------------------------------------
(* Records *)

LockFree == \A a \in Adders : adder[a] # "locked"

Link(from, to, relation) == [from |-> from, to |-> to, relation |-> relation]

\* PutTx of a new identity: a large payload becomes an artifact that the record
\* refers to, and the edges to its predecessor and to what it contradicts come
\* with it.  An exact repeat is answered with the row, anything else under the
\* identity is a conflict: neither changes a table.
PutEvidence(input) ==
  LET new == Len(evidence) + 1
      db == IF input.raw = None THEN Database ELSE Stored(Database, input.raw)
      raw == IF input.raw = None THEN None ELSE IdIn(artifact, input.raw)
      predecessor == IF input.supersedes = None THEN {} ELSE {input.supersedes}
  IN /\ \A id \in Ids : evidence[id].identity # input.identity
     /\ \A id \in predecessor \cup input.contradicts : Readable(id)
     /\ db # None /\ (raw # None => db.rows[raw].chunks = "whole")
     /\ predecessor # {} => LockFree
     /\ Become(db)
     /\ evidence' = Append(evidence, [identity |-> input.identity, body |-> input.body, hash |-> input.hash, size |-> input.size,
                                      artifact |-> raw, supersedes |-> input.supersedes])
     /\ edges' = edges \cup {Link(new, id, "supersedes") : id \in predecessor}
                       \cup {Link(new, id, "contradicts") : id \in input.contradicts}
     /\ UNCHANGED <<inline, sweep, now, damages, adder>>

------------------------------------------------------------------------------
(* Edges *)

\* AddEdge finds both ends and no such edge; one that is there is returned.
FindEdge(a) ==
  /\ adder[a] = "idle"
  /\ Readable(Wanted[a].from) /\ Readable(Wanted[a].to)
  /\ Wanted[a] \notin edges
  /\ adder' = [adder EXCEPT ![a] = "found"]
  /\ UNCHANGED <<evidence, edges, vars>>

\* supersessionCycleTx: the newer record is what the older one supersedes.
Cycle(e) ==
  LET older[n \in 0..Len(evidence)] ==
        IF n = 0 THEN {e.to}
        ELSE older[n - 1] \cup {o.to : o \in {p \in edges : p.relation = "supersedes" /\ p.from \in older[n - 1]}}
  IN e.from \in older[Len(evidence)]

CheckedUnlocked == TRUE

\* The cycle is looked for by whoever has the workspace's lock.
MayCheck == LockFree

Supersedes(a) == Wanted[a].relation = "supersedes"

CheckCycle(a) ==
  /\ adder[a] = "found" /\ Supersedes(a)
  /\ MayCheck
  /\ adder' = [adder EXCEPT ![a] = IF Cycle(Wanted[a]) THEN "idle" ELSE "locked"]
  /\ UNCHANGED <<evidence, edges, vars>>

\* Of two that insert the same edge the later one violates its key and fails.
InsertEdge(a) ==
  /\ adder[a] = IF Supersedes(a) THEN "locked" ELSE "found"
  /\ edges' = edges \cup {Wanted[a]}
  /\ adder' = [adder EXCEPT ![a] = "idle"]
  /\ UNCHANGED <<evidence, vars>>

\* The request's ten seconds are over, or its client is gone.
Abandon(a) ==
  /\ adder[a] # "idle"
  /\ adder' = [adder EXCEPT ![a] = "idle"]
  /\ UNCHANGED <<evidence, edges, vars>>

EvidenceNext ==
  \/ Next /\ UNCHANGED evidenceVars
  \/ \E input \in Records : PutEvidence(input)
  \/ \E a \in Adders : FindEdge(a) \/ CheckCycle(a) \/ InsertEdge(a) \/ Abandon(a)

EvidenceSpec == EvidenceInit /\ [][EvidenceNext]_<<vars, evidenceVars>>

\* An operator sweeps by the clock while records and edges are added.
EvidenceLiveSpec ==
  /\ EvidenceSpec
  /\ WF_vars(Tick /\ UNCHANGED evidenceVars)
  /\ WF_vars(SweepDelete /\ UNCHANGED evidenceVars)
  /\ SF_vars(OwnSweep /\ UNCHANGED evidenceVars)

------------------------------------------------------------------------------
(* Properties *)

EvidenceTypeOK ==
  /\ \A id \in Ids : evidence[id].artifact \in Rows \cup {None}
  /\ edges \subseteq Edge /\ Ends(edges) \subseteq Ids
  /\ adder \in [Adders -> {"idle", "found", "locked"}]

\* Everything a record superseded, directly or not, is older: no record
\* supersedes itself.
Acyclic == \A e \in edges : e.relation = "supersedes" => ~Cycle(e)

\* What is disclosed keeps to its budget; unless it is marked as truncated, it
\* has everything asked for: the texts, the raw bytes, all successors and every
\* edge that leads to or from what the record is connected to.
DisclosureHonest ==
  \A id \in {i \in Ids : Readable(i)}, request \in Requests :
    LET shown == Disclosed(id, request)
        nodes == {id} \cup Ends(shown.edges)
        size == evidence[id].size
    IN /\ shown.gist + shown.detail + shown.raw <= request.bytes
       /\ ~shown.truncated =>
            /\ shown.gist = size.gist
            /\ request.level # "gist" => shown.detail = size.detail
            /\ request.level = "raw" => shown.raw = size.raw
            /\ shown.successors = Successors(id)
            /\ \A e \in edges : e.from \in nodes \/ e.to \in nodes => e \in shown.edges

\* The history of evidence stays whole: supersessions never form a cycle although
\* requests check for one at the same time, a record that names its predecessor
\* has the edge to it, an identity has one record, a record's payload is the
\* content of an artifact that is kept for it, and a disclosure tells what it leaves
\* out.
LineageHolds ==
  /\ EvidenceTypeOK
  /\ Acyclic
  /\ \A id \in Ids : evidence[id].supersedes # None => Link(id, evidence[id].supersedes, "supersedes") \in edges
  /\ \A id, other \in Ids : evidence[id].identity = evidence[other].identity => id = other
  /\ \A id \in Ids : evidence[id].artifact # None =>
       /\ artifact[evidence[id].artifact].content = evidence[id].hash
       /\ WithAuthorityOnly(evidence[id].artifact) => artifact[evidence[id].artifact].chunks # "none"
       /\ \E ref \in refs : ref.artifact = evidence[id].artifact /\ ref.source = evidence[id].identity
  /\ DisclosureHonest

\* "Missing, stale, duplicate-conflicting, superseded, or contradicted records
\* fail closed" (docs/44).
ResolvedIsCurrent ==
  \A id \in Ids : Resolves(evidence[id].hash) => ~\E e \in edges : e.relation = "supersedes" /\ e.to = id

\* "A hash must resolve to exactly one integrity-verified authoritative evidence
\* record" (docs/44).
ResolvedIsUnique ==
  \A id, other \in Ids : evidence[id].hash = evidence[other].hash /\ Resolves(evidence[id].hash) => id = other

\* "Duplicate edges use ON CONFLICT DO NOTHING" (docs/26): none fails for it.
DuplicateEdgeReturned == \A a \in Adders : adder[a] # "idle" => Wanted[a] \notin edges
==============================================================================
