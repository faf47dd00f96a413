--------------------------- MODULE Evidence_proofs ---------------------------
(***************************************************************************)
(* Proofs about Artifact and Evidence, for every set of contents, inputs,  *)
(* records and clients that add edges.                                     *)
(*                                                                         *)
(* A put leaves every row as it is, so what is referenced can only be lost *)
(* by a deletion.  A sweep decides on references that are older than its   *)
(* locks; but every row has a reference from when it is put, and if all of *)
(* them have authority now, those that the sweep saw had it too.           *)
(*                                                                         *)
(* What an edge supersedes, directly or not, is the least set that holds   *)
(* its older end and is closed under supersession: it is reached within as *)
(* many hops as there are records, because every hop that adds nothing is  *)
(* the last.                                                               *)
(*                                                                         *)
(* A traversal that stays below its limit has read every row of each hop,  *)
(* and has a node for every edge at most, so no node was left out either.  *)
(***************************************************************************)
EXTENDS Evidence, FiniteSetTheorems, FunctionTheorems, SequenceTheorems, NaturalsInduction,
        WellFoundedInduction, TLAPS

\* The tables, after any put: contents are unique, references fit their rows, a
\* key and a source have one reference, and deadlines are in order.
Ordered(retention) == retention.archive # Never /\ retention.delete # Never => retention.delete >= retention.archive

DbSound(db) ==
  /\ db.rows \in Seq(Row)
  /\ \A id, other \in DOMAIN db.rows : db.rows[id].content = db.rows[other].content => id = other
  /\ \A id \in DOMAIN db.rows : Ordered(db.rows[id].retention) /\ (db.rows[id].chunks = "none" <=> db.rows[id].status = "deleted")
  /\ \A ref \in db.refs : ref.artifact \in DOMAIN db.rows /\ db.rows[ref.artifact].label = ref.label
  /\ \A ref, other \in db.refs : ref.key = other.key \/ ref.source = other.source => ref = other

HasRef(db, input) ==
  \E ref \in db.refs : ref.source = input.source /\ db.rows[ref.artifact].content = input.content

\* Nothing of a is lost or changed in b.
Grows(a, b) ==
  /\ DOMAIN a.rows \subseteq DOMAIN b.rows
  /\ \A id \in DOMAIN a.rows : b.rows[id] = a.rows[id]
  /\ a.refs \subseteq b.refs

ArtifactsInv ==
  /\ TypeOK
  /\ DbSound(Database)
  /\ \A n \in (1..Len(Items)) \ inline : HasRef(Database, Items[n])

\* Everything that is put as an artifact.
Puts == Inputs \cup {Items[n] : n \in 1..Len(Items)} \cup {record.raw : record \in {r \in Records : r.raw # None}}

AuthorityOnly(db, id) == \A ref \in db.refs : ref.artifact = id => ref.authoritative

\* Every row has a reference; with authority only, it has its bytes.
AuthoritySound(db) ==
  \A id \in DOMAIN db.rows :
    /\ \E ref \in db.refs : ref.artifact = id
    /\ AuthorityOnly(db, id) => db.rows[id].chunks # "none"

\* What a sweep found due and has only references with authority, it found
\* referenced.
SweepSound ==
  sweep # None => \A id \in sweep.due \cap Rows : WithAuthorityOnly(id) => id \in sweep.referenced

AuthorityInv == AuthoritySound(Database) /\ SweepSound

\* The row of a record, and the rows there can be.
RecordOf(input, raw) ==
  [identity |-> input.identity, body |-> input.body, hash |-> input.hash, size |-> input.size,
   artifact |-> raw, supersedes |-> input.supersedes]

Recorded == {RecordOf(input, raw) : input \in Records, raw \in Nat \cup {None}}

\* The payload of a record is kept for it.
PayloadSound(record) ==
  record.artifact # None =>
    /\ record.artifact \in Rows /\ artifact[record.artifact].content = record.hash
    /\ \E ref \in refs : ref.artifact = record.artifact /\ ref.source = record.identity

RecordsSound ==
  /\ evidence \in Seq(Recorded)
  /\ \A id \in Ids : PayloadSound(evidence[id])
  /\ \A id \in Ids : evidence[id].supersedes # None => Link(id, evidence[id].supersedes, "supersedes") \in edges
  /\ \A id, other \in Ids : evidence[id].identity = evidence[other].identity => id = other

\* A set that holds whatever its members supersede.
Closed(some) == \A e \in edges : e.relation = "supersedes" /\ e.from \in some => e.to \in some

\* The older end of e is in such a set, the newer one is not.
Apart(e) == \E some \in SUBSET Ids : e.to \in some /\ e.from \notin some /\ Closed(some)

EdgesSound ==
  /\ edges \subseteq Edge /\ IsFiniteSet(edges)
  /\ \A e \in edges : e.from \in Ids /\ e.to \in Ids
  /\ adder \in [Adders -> {"idle", "found", "locked"}]
  /\ \A a \in Adders : adder[a] # "idle" => Wanted[a].from \in Ids /\ Wanted[a].to \in Ids
  /\ \A a, b \in Adders : adder[a] = "locked" /\ adder[b] = "locked" => a = b
  /\ \A a \in Adders : adder[a] = "locked" => Supersedes(a) /\ Apart(Wanted[a])
  /\ \A e \in edges : e.relation = "supersedes" => Apart(e)

EvidenceInv == ArtifactsInv /\ RecordsSound /\ EdgesSound

------------------------------------------------------------------------------
(* Lemmas about numbers, sequences and rows *)

\* Every set of numbers that is not empty has a least element.
NatLess == {ss \in Nat \X Nat : ss[1] < ss[2]}

LEMMA LeastElement ==
  ASSUME NEW S, S \subseteq Nat, S # {}
  PROVE  \E x \in S : \A y \in S : x <= y
<1>1. IsWellFoundedOn(NatLess, Nat)
  BY NatLessThanWellFounded DEF OpToRel, NatLess
<1>2. PICK x \in S : \A y \in S : ~(<<y, x>> \in NatLess)
  BY <1>1, WFMin
<1>3. \A y \in S : x \in Nat /\ y \in Nat /\ ~(y < x)
  BY <1>2 DEF NatLess
<1>4. \A y \in S : x <= y
  BY <1>3
<1> QED BY <1>4

\* A set of numbers that holds 0 and every successor holds them all.
LEMMA FromZero ==
  ASSUME NEW S, 0 \in S, \A n \in Nat : n \in S => n + 1 \in S
  PROVE  Nat \subseteq S
<1> DEFINE T == Nat \ S
<1> SUFFICES ASSUME T # {} PROVE FALSE
  OBVIOUS
<1>1. PICK x \in T : \A y \in T : x <= y
  <2> HIDE DEF T
  <2> QED BY LeastElement, T \subseteq Nat DEF T
<1>2. x # 0 /\ x - 1 \in Nat
  OBVIOUS
<1>3. x - 1 \in S
  BY <1>1, <1>2
<1> QED BY <1>2, <1>3

LEMMA FunctionIsSeq ==
  ASSUME NEW S, NEW n \in Nat, NEW f, f \in [1..n -> S]
  PROVE  f \in Seq(S) /\ Len(f) = n
OBVIOUS

LEMMA ConstantFacts ==
  /\ Batch \in Nat \ {0} /\ MaxTime \in Nat /\ MaxDamage \in Nat /\ Never \in Nat /\ Never = MaxTime + 1
  /\ Len(Items) \in Nat
  /\ Named \subseteq Nat
  /\ \A input \in Puts : ValidInput(input)
BY ArtifactAssumption, EvidenceAssumption DEF Puts, Normalized, Never

\* What the operations make of a row.
LEMMA RowFacts ==
  ASSUME NEW row \in Row
  PROVE  /\ Archived(row) \in Row /\ Archived(row).status = "archived" /\ Archived(row).content = row.content
         /\ Archived(row).label = row.label /\ Archived(row).retention = row.retention /\ Archived(row).chunks = row.chunks
         /\ Tombstone(row) \in Row /\ Tombstone(row).status = "deleted" /\ Tombstone(row).chunks = "none" /\ Tombstone(row).content = row.content
         /\ Tombstone(row).label = row.label /\ Tombstone(row).retention = row.retention
         /\ Checked(row) \in Row /\ Checked(row).status = row.status /\ Checked(row).content = row.content
         /\ Checked(row).label = row.label /\ Checked(row).retention = row.retention /\ Checked(row).chunks = row.chunks
         /\ row.status = "deleted" => Checked(row) = row
<1>1. /\ Archived(row) \in Row /\ Archived(row).status = "archived" /\ Archived(row).content = row.content
      /\ Archived(row).label = row.label /\ Archived(row).retention = row.retention /\ Archived(row).chunks = row.chunks
  BY DEF Archived, Row
<1>2. /\ Tombstone(row) \in Row /\ Tombstone(row).status = "deleted" /\ Tombstone(row).chunks = "none" /\ Tombstone(row).content = row.content
      /\ Tombstone(row).label = row.label /\ Tombstone(row).retention = row.retention
  BY DEF Tombstone, Row
<1>3. ASSUME NEW i \in {"valid", "corrupt"}
      PROVE  LET new == [row EXCEPT !.integrity = i]
             IN new \in Row /\ new.status = row.status /\ new.content = row.content /\ new.label = row.label
                /\ new.retention = row.retention /\ new.chunks = row.chunks
  BY DEF Row
<1>4. /\ Checked(row) \in Row /\ Checked(row).status = row.status /\ Checked(row).content = row.content
      /\ Checked(row).label = row.label /\ Checked(row).retention = row.retention /\ Checked(row).chunks = row.chunks
      /\ row.status = "deleted" => Checked(row) = row
  <2>1. PICK i \in {"valid", "corrupt"} : i = IF row.chunks = "whole" THEN "valid" ELSE "corrupt"
    OBVIOUS
  <2> QED BY <1>3, <2>1 DEF Checked
<1> QED BY <1>1, <1>2, <1>4

LEMMA RowsTyped ==
  ASSUME NEW rows, rows \in Seq(Row)
  PROVE  /\ Len(rows) \in Nat /\ DOMAIN rows = 1..Len(rows)
         /\ \A id \in DOMAIN rows : rows[id] \in Row
BY LenProperties, ElementOfSeq

------------------------------------------------------------------------------
(* Putting *)

\* A put adds at most one row and one reference, and the reference it answers.
LEMMA StoredFacts ==
  ASSUME NEW db, DbSound(db), NEW input, ValidInput(input), Stored(db, input) # None
  PROVE  LET after == Stored(db, input)
             id == IdIn(db.rows, input)
         IN /\ DbSound(after) /\ Grows(db, after) /\ HasRef(after, input)
            /\ id \in DOMAIN after.rows /\ after.rows[id].content = input.content
            /\ \E ref \in after.refs : ref.artifact = id /\ ref.source = input.source
            /\ \A other \in DOMAIN after.rows : other \in DOMAIN db.rows \/ (other = id /\ after.rows[id].chunks = "whole")
            /\ \A ref \in after.refs : ref \in db.refs \/ ref = Reference(id, input)
            /\ after.rows[id].chunks # "none"
<1> DEFINE known == {id \in DOMAIN db.rows : db.rows[id].content = input.content}
<1>1. db.rows \in Seq(Row) /\ Len(db.rows) \in Nat /\ DOMAIN db.rows = 1..Len(db.rows)
      /\ \A id \in DOMAIN db.rows : db.rows[id] \in Row
  BY RowsTyped DEF DbSound
<1>2. PICK id : id = IdIn(db.rows, input)
  OBVIOUS
<1>3. (id = Len(db.rows) + 1 /\ known = {}) \/ (id \in known /\ id # Len(db.rows) + 1)
  <2>1. CASE known = {}
    BY <1>2, <2>1 DEF IdIn
  <2>2. CASE known # {}
    <3>1. id \in known
      BY <1>2, <2>2 DEF IdIn
    <3> QED BY <1>1, <3>1
  <2> QED BY <2>1, <2>2
<1>4. PICK ref : ref = Reference(id, input)
  OBVIOUS
<1>5. ref.artifact = id /\ ref.key = input.key /\ ref.source = input.source /\ ref.label = input.label
  BY <1>4 DEF Reference
<1>6. PICK rows : rows = IF id = Len(db.rows) + 1 THEN Append(db.rows, NewArtifact(input)) ELSE db.rows
  OBVIOUS
<1>7. PICK new : new = IF \E other \in db.refs : other.key = ref.key THEN db.refs ELSE db.refs \cup {ref}
  OBVIOUS
<1>8. /\ id # Len(db.rows) + 1 => Reusable(db.rows[id], input)
      /\ RefAllowed(db.refs, ref)
      /\ Stored(db, input).rows = rows /\ Stored(db, input).refs = new
  BY <1>2, <1>4, <1>5, <1>6, <1>7 DEF Stored
<1>9. PICK row : row = NewArtifact(input)
  OBVIOUS
<1>10. /\ row \in Row /\ row.content = input.content /\ row.label = input.label /\ row.chunks = "whole" /\ row.status = "active"
       /\ Ordered(row.retention)
  BY <1>9 DEF NewArtifact, Row, ValidInput, Ordered
<1>11. /\ rows \in Seq(Row) /\ DOMAIN db.rows \subseteq DOMAIN rows /\ id \in DOMAIN rows
       /\ \A i \in DOMAIN db.rows : rows[i] = db.rows[i]
       /\ \A i \in DOMAIN rows : i \in DOMAIN db.rows \/ (i = id /\ rows[i] = row)
  <2>1. CASE id = Len(db.rows) + 1
    <3>1. rows = Append(db.rows, row)
      BY <1>6, <1>9, <2>1
    <3>2. /\ rows \in Seq(Row) /\ Len(rows) = Len(db.rows) + 1 /\ rows[Len(db.rows) + 1] = row
          /\ \A i \in 1..Len(db.rows) : rows[i] = db.rows[i]
      BY <1>1, <1>10, <3>1, AppendProperties
    <3>3. DOMAIN rows = 1..Len(db.rows) + 1
      BY <3>2, LenProperties
    <3> QED BY <1>1, <2>1, <3>2, <3>3
  <2>2. CASE id # Len(db.rows) + 1
    BY <1>1, <1>3, <1>6, <2>2
  <2> QED BY <2>1, <2>2
<1>12. rows[id].content = input.content /\ rows[id].label = input.label /\ rows[id].chunks # "none"
  <2>1. CASE id = Len(db.rows) + 1
    BY <1>1, <1>10, <1>11, <2>1
  <2>2. CASE id # Len(db.rows) + 1
    BY <1>3, <1>8, <1>11, <2>2 DEF Reusable, DbSound
  <2> QED BY <2>1, <2>2
<1>13. /\ db.refs \subseteq new /\ \A r \in new : r \in db.refs \/ r = ref
       /\ \E r \in new : r.artifact = id /\ r.source = input.source
       /\ \A r, s \in new : r.key = s.key \/ r.source = s.source => r = s
  <2>1. CASE \E other \in db.refs : other.key = ref.key
    BY <1>5, <1>7, <1>8, <2>1 DEF RefAllowed, DbSound
  <2>2. CASE ~\E other \in db.refs : other.key = ref.key
    BY <1>5, <1>7, <1>8, <2>2 DEF RefAllowed, DbSound
  <2> QED BY <2>1, <2>2
<1>14. PICK after : after = Stored(db, input) /\ after.rows = rows /\ after.refs = new
  BY <1>8
<1>15. \A i, j \in DOMAIN rows : rows[i].content = rows[j].content => i = j
  <2>1. \A i \in DOMAIN db.rows : i = id \/ rows[i].content # input.content
    BY <1>3, <1>11 DEF DbSound
  <2> QED BY <1>11, <1>12, <2>1 DEF DbSound
<1>16. DbSound(after)
  <2>1. \A i \in DOMAIN rows : Ordered(rows[i].retention) /\ (rows[i].chunks = "none" <=> rows[i].status = "deleted")
    BY <1>10, <1>11, <1>12 DEF DbSound
  <2>2. \A r \in new : r.artifact \in DOMAIN rows /\ rows[r.artifact].label = r.label
    BY <1>5, <1>11, <1>12, <1>13 DEF DbSound
  <2> QED BY <1>11, <1>13, <1>14, <1>15, <2>1, <2>2 DEF DbSound
<1>17. Grows(db, after) /\ HasRef(after, input)
  BY <1>11, <1>12, <1>13, <1>14 DEF Grows, HasRef
<1> QED BY <1>2, <1>4, <1>10, <1>11, <1>12, <1>13, <1>14, <1>16, <1>17

\* The tables before and after every item of a page.
Tables(db, page) ==
  db = [n \in 0..Len(Items) |-> IF n = 0 THEN Database
                                ELSE IF db[n - 1] = None \/ n \notin page THEN db[n - 1]
                                ELSE Stored(db[n - 1], Items[n])]

LEMMA TablesExist ==
  ASSUME NEW page
  PROVE  /\ \E db : Tables(db, page)
         /\ \E db : Tables(db, page) /\ AllStored(page) = db[Len(Items)]
<1> DEFINE After(d, n) == IF d = None \/ n \notin page THEN d ELSE Stored(d, Items[n])
           UpTo(f, k) == f = [n \in 0..k |-> IF n = 0 THEN Database ELSE After(f[n - 1], n)]
           G == {k \in Nat : \E f : UpTo(f, k)}
<1>1. 0 \in G
  <2> DEFINE f == [n \in 0..0 |-> Database]
  <2>1. UpTo(f, 0)
    <3> HIDE DEF After
    <3> QED OBVIOUS
  <2> QED BY <2>1
<1>2. ASSUME NEW k \in Nat, k \in G
      PROVE  k + 1 \in G
  <2>1. PICK f : UpTo(f, k)
    BY <1>2
  <2> DEFINE g == [n \in 0..k + 1 |-> IF n = k + 1 THEN After(f[k], k + 1) ELSE f[n]]
  <2> HIDE DEF After
  <2>2. \A n \in 0..k + 1 : g[n] = IF n = 0 THEN Database ELSE After(g[n - 1], n)
    <3> SUFFICES ASSUME NEW n \in 0..k + 1
                 PROVE  g[n] = IF n = 0 THEN Database ELSE After(g[n - 1], n)
      OBVIOUS
    <3>1. CASE n = k + 1
      <4>1. n # 0 /\ n - 1 = k /\ k \in 0..k + 1 /\ k # k + 1
        BY <3>1
      <4>2. g[n - 1] = f[k]
        BY <4>1
      <4> QED BY <3>1, <4>1, <4>2
    <3>2. CASE n # k + 1 /\ n # 0
      <4>1. n \in 0..k /\ n - 1 \in 0..k + 1 /\ n - 1 # k + 1 /\ n - 1 \in 0..k
        BY <3>2
      <4>2. g[n] = f[n] /\ g[n - 1] = f[n - 1]
        BY <3>2, <4>1
      <4>3. f[n] = After(f[n - 1], n)
        BY <2>1, <3>2, <4>1
      <4> QED BY <3>2, <4>2, <4>3
    <3>3. CASE n = 0
      <4>1. 0 # k + 1 /\ 0 \in 0..k + 1 /\ 0 \in 0..k
        OBVIOUS
      <4>2. g[0] = f[0] /\ f[0] = Database
        BY <2>1, <4>1
      <4> QED BY <3>3, <4>2
    <3> QED BY <3>1, <3>2, <3>3
  <2>3. UpTo(g, k + 1)
    BY <2>2
  <2> HIDE DEF g, UpTo
  <2> QED BY <2>3
<1>3. Len(Items) \in G
  <2> HIDE DEF G
  <2> QED BY <1>1, <1>2, FromZero, ConstantFacts
<1>4. \E db : Tables(db, page)
  BY <1>3 DEF Tables
<1>5. \E db : Tables(db, page) /\ AllStored(page) = db[Len(Items)]
  <2> DEFINE db == CHOOSE f : Tables(f, page)
  <2>1. Tables(db, page)
    BY <1>4
  <2>2. AllStored(page) = db[Len(Items)]
    BY DEF AllStored, Tables
  <2> HIDE DEF db
  <2> QED BY <2>1, <2>2
<1> QED BY <1>4, <1>5

\* A put adds a reference, and with a new row its bytes.
LEMMA AuthorityStored ==
  ASSUME NEW db, DbSound(db), AuthoritySound(db), NEW input, ValidInput(input), Stored(db, input) # None
  PROVE  AuthoritySound(Stored(db, input))
<1>1. PICK after, id : after = Stored(db, input) /\ id = IdIn(db.rows, input)
  OBVIOUS
<1>2. /\ Grows(db, after) /\ \E ref \in after.refs : ref.artifact = id
      /\ \A i \in DOMAIN after.rows : i \in DOMAIN db.rows \/ i = id
      /\ after.rows[id].chunks # "none"
  BY <1>1, StoredFacts
<1>3. \A i \in DOMAIN after.rows :
        /\ \E ref \in after.refs : ref.artifact = i
        /\ AuthorityOnly(after, i) => after.rows[i].chunks # "none"
  <2> SUFFICES ASSUME NEW i \in DOMAIN after.rows
               PROVE  /\ \E ref \in after.refs : ref.artifact = i
                      /\ AuthorityOnly(after, i) => after.rows[i].chunks # "none"
    OBVIOUS
  <2>1. CASE i = id
    BY <1>2, <2>1
  <2>2. CASE i \in DOMAIN db.rows
    BY <1>2, <2>2 DEF AuthoritySound, AuthorityOnly, Grows
  <2> QED BY <1>2, <2>1, <2>2
<1> QED BY <1>1, <1>3 DEF AuthoritySound

\* A page that is stored as a whole leaves the tables sound, and its items referred to.
LEMMA AllStoredFacts ==
  ASSUME DbSound(Database), NEW page, page \subseteq 1..Len(Items), AllStored(page) # None,
         NEW after, after = AllStored(page)
  PROVE  /\ DbSound(after) /\ Grows(Database, after)
         /\ \A n \in page : HasRef(after, Items[n])
         /\ AuthoritySound(Database) => AuthoritySound(after)
<1>1. PICK db : Tables(db, page) /\ after = db[Len(Items)]
  BY TablesExist
<1> DEFINE Sound(n) ==
      db[n] # None =>
        /\ DbSound(db[n]) /\ Grows(Database, db[n])
        /\ \A i \in page : i <= n => HasRef(db[n], Items[i])
        /\ AuthoritySound(Database) => AuthoritySound(db[n])
      G == {n \in Nat : n <= Len(Items) => Sound(n)}
<1>2. 0 \in G
  <2>1. db[0] = Database
    BY <1>1, ConstantFacts DEF Tables
  <2>2. Grows(Database, Database)
    BY DEF Grows
  <2>3. \A i \in page : ~(i <= 0)
    BY ConstantFacts
  <2> QED BY <2>1, <2>2, <2>3
<1>3. ASSUME NEW k \in Nat, k \in G
      PROVE  k + 1 \in G
  <2> SUFFICES ASSUME k + 1 <= Len(Items), db[k + 1] # None
               PROVE  Sound(k + 1)
    BY DEF Sound
  <2>1. Sound(k) /\ k + 1 \in 1..Len(Items) /\ k + 1 \in 0..Len(Items) /\ k + 1 # 0 /\ (k + 1) - 1 = k
    BY <1>3, ConstantFacts
  <2>2. db[k + 1] = IF db[k] = None \/ k + 1 \notin page THEN db[k] ELSE Stored(db[k], Items[k + 1])
    BY <1>1, <2>1 DEF Tables
  <2>3. \A i \in page : i \in Nat /\ (i <= k + 1 => i <= k \/ i = k + 1)
    BY ConstantFacts
  <2>4. CASE db[k] = None \/ k + 1 \notin page
    BY <2>1, <2>2, <2>3, <2>4
  <2>5. CASE ~(db[k] = None \/ k + 1 \notin page)
    <3>1. PICK d, e, input : d = db[k] /\ e = db[k + 1] /\ input = Items[k + 1]
      OBVIOUS
    <3>2. input \in Puts /\ ValidInput(input)
      BY <2>1, <3>1, ConstantFacts DEF Puts
    <3>3. e = Stored(d, input) /\ e # None /\ DbSound(d) /\ Grows(Database, d)
      BY <2>1, <2>2, <2>5, <3>1
    <3>4. DbSound(e) /\ Grows(d, e) /\ HasRef(e, input)
      BY <3>2, <3>3, StoredFacts
    <3>5. Grows(Database, e)
      BY <3>3, <3>4 DEF Grows
    <3>6. \A i \in page : i <= k => HasRef(e, Items[i])
      <4> SUFFICES ASSUME NEW i \in page, i <= k PROVE HasRef(e, Items[i])
        OBVIOUS
      <4>1. HasRef(d, Items[i])
        BY <2>1, <2>5, <3>1
      <4> QED BY <3>3, <3>4, <4>1 DEF HasRef, Grows, DbSound
    <3>7. AuthoritySound(Database) => AuthoritySound(e)
      BY <2>1, <2>5, <3>1, <3>2, <3>3, AuthorityStored
    <3> QED BY <2>3, <3>1, <3>3, <3>4, <3>5, <3>6, <3>7
  <2> QED BY <2>4, <2>5
<1>4. Len(Items) \in G
  <2> HIDE DEF G
  <2> QED BY <1>2, <1>3, FromZero, ConstantFacts
<1>5. Sound(Len(Items)) /\ \A i \in page : i <= Len(Items)
  BY <1>4, ConstantFacts
<1> QED BY <1>1, <1>5

------------------------------------------------------------------------------
(* The steps of artifacts *)

\* What an operation may make of a row.
RowMove(row, new) ==
  /\ new \in Row
  /\ new.content = row.content /\ new.label = row.label /\ new.retention = row.retention
  /\ new.chunks = "none" <=> new.status = "deleted"

Earned(id, after) ==
  LET row == artifact[id]
  IN /\ row.status = "deleted" => after = row
     /\ row.status # "deleted" /\ after.status = "deleted" =>
          /\ row.status = "archived" /\ row.retention.allow
          /\ row.retention.delete <= StepTime
          /\ row.retention.archive # Never => row.retention.archive <= StepTime
          /\ id \in Referenced => BySweep /\ id \in sweep.due \ sweep.referenced
          /\ BySweep => Released(row, sweep.time) /\ row.integrity # "corrupt"
     /\ after.chunks # row.chunks => after.status = "deleted" \/ damages' # damages
     /\ row.status = "archived" => after.status # "active"

\* A row keeps its bytes if its references all have authority.
KeptMove(id, after) == WithAuthorityOnly(id) /\ artifact[id].chunks # "none" => after.chunks # "none"

LEMMA InvFacts ==
  ASSUME ArtifactsInv
  PROVE  /\ artifact \in Seq(Row) /\ Len(artifact) \in Nat /\ Rows = 1..Len(artifact)
         /\ \A id \in Rows : /\ artifact[id] \in Row /\ Ordered(artifact[id].retention)
                             /\ artifact[id].chunks = "none" <=> artifact[id].status = "deleted"
         /\ \A ref \in refs : ref.artifact \in Rows
         /\ now \in Nat /\ now < Never
BY RowsTyped, ConstantFacts DEF ArtifactsInv, TypeOK, DbSound, Database, Rows

\* The shape of every operation but puts: rows move, references stay.
LEMMA RowsStep ==
  ASSUME ArtifactsInv, artifact' = [id \in Rows |-> artifact'[id]], \A id \in Rows : RowMove(artifact[id], artifact'[id]),
         UNCHANGED <<refs, inline>>, now' \in 0..MaxTime, damages' \in 0..MaxDamage,
         sweep' # None => sweep'.due \cup sweep'.referenced \subseteq Rows /\ sweep'.time \in Nat
  PROVE  /\ ArtifactsInv'
         /\ /\ AuthorityInv /\ \A id \in Rows : KeptMove(id, artifact'[id])
            /\ sweep' # None => \A id \in sweep'.due \cap Rows : WithAuthorityOnly(id) => id \in sweep'.referenced
            => AuthorityInv'
<1>1. Rows' = Rows /\ artifact' \in Seq(Row)
  <2>1. artifact' \in [1..Len(artifact) -> Row]
    BY InvFacts DEF RowMove
  <2> QED BY <2>1, InvFacts, FunctionIsSeq DEF Rows
<1>2. TypeOK'
  BY <1>1 DEF ArtifactsInv, TypeOK
<1>3. \A id \in Rows : artifact'[id].content = artifact[id].content /\ artifact'[id].label = artifact[id].label
                       /\ artifact'[id].retention = artifact[id].retention
  BY DEF RowMove
<1>4. DbSound(Database)'
  <2>1. \A id, other \in Rows : artifact'[id].content = artifact'[other].content => id = other
    BY <1>3 DEF ArtifactsInv, DbSound, Database, Rows
  <2>2. \A id \in Rows : Ordered(artifact'[id].retention) /\ (artifact'[id].chunks = "none" <=> artifact'[id].status = "deleted")
    BY <1>3, InvFacts DEF RowMove
  <2>3. \A ref \in refs : ref.artifact \in Rows /\ artifact'[ref.artifact].label = ref.label
    BY <1>3 DEF ArtifactsInv, DbSound, Database, Rows
  <2>4. \A ref, other \in refs : ref.key = other.key \/ ref.source = other.source => ref = other
    BY DEF ArtifactsInv, DbSound, Database
  <2> QED BY <1>1, <2>1, <2>2, <2>3, <2>4 DEF DbSound, Database, Rows, Ordered
<1>5. \A n \in (1..Len(Items)) \ inline : HasRef(Database, Items[n])'
  BY <1>3, InvFacts DEF ArtifactsInv, HasRef, Database
<1>6. ASSUME AuthorityInv, \A id \in Rows : KeptMove(id, artifact'[id]),
             sweep' # None => \A id \in sweep'.due \cap Rows : WithAuthorityOnly(id) => id \in sweep'.referenced
      PROVE  AuthorityInv'
  <2>1. \A id \in Rows : /\ \E ref \in refs : ref.artifact = id
                         /\ WithAuthorityOnly(id) => artifact'[id].chunks # "none"
    BY <1>6 DEF AuthorityInv, AuthoritySound, AuthorityOnly, WithAuthorityOnly, Database, KeptMove, Rows
  <2>2. AuthoritySound(Database)'
    BY <1>1, <2>1 DEF AuthoritySound, AuthorityOnly, WithAuthorityOnly, Database, Rows
  <2>3. SweepSound'
    BY <1>1, <1>6 DEF SweepSound, WithAuthorityOnly
  <2> QED BY <2>2, <2>3 DEF AuthorityInv
<1> QED BY <1>2, <1>4, <1>5, <1>6 DEF ArtifactsInv

\* The shape of puts: the tables grow.
LEMMA GrowStep ==
  ASSUME ArtifactsInv, NEW db, Become(db), DbSound(db), Grows(Database, db),
         NEW page, inline' = inline \ page, \A n \in page : HasRef(db, Items[n]), UNCHANGED <<sweep, now, damages>>
  PROVE  /\ ArtifactsInv' /\ Rows \subseteq Rows' /\ refs \subseteq refs'
         /\ \A id \in Rows : artifact'[id] = artifact[id]
         /\ AuthorityInv /\ AuthoritySound(db) => AuthorityInv'
<1>1. artifact' = db.rows /\ refs' = db.refs
  BY DEF Become
<1>2. Rows \subseteq Rows' /\ refs \subseteq refs' /\ \A id \in Rows : artifact'[id] = artifact[id]
  BY <1>1 DEF Grows, Database, Rows
<1>3. TypeOK'
  BY <1>1, <1>2 DEF ArtifactsInv, TypeOK, DbSound
<1>4. DbSound(Database)'
  BY <1>1 DEF DbSound, Database, Ordered
<1>5. \A n \in (1..Len(Items)) \ inline' : HasRef(Database, Items[n])'
  <2> SUFFICES ASSUME NEW n \in (1..Len(Items)) \ inline' PROVE HasRef(Database, Items[n])'
    OBVIOUS
  <2>1. HasRef(db, Items[n])
    <3>1. CASE n \in page
      BY <3>1
    <3>2. CASE n \notin inline
      <4>1. HasRef(Database, Items[n])
        BY <3>2 DEF ArtifactsInv
      <4> QED BY <1>1, <1>2, <4>1, InvFacts DEF HasRef, Grows, Database
    <3> QED BY <3>1, <3>2
  <2> QED BY <1>1, <2>1 DEF HasRef, Database
<1>6. ASSUME AuthorityInv, AuthoritySound(db)
      PROVE  AuthorityInv'
  <2>1. AuthoritySound(Database)'
    BY <1>1, <1>6 DEF AuthoritySound, AuthorityOnly, Database
  <2>2. SweepSound'
    BY <1>2, <1>6 DEF AuthorityInv, SweepSound, WithAuthorityOnly, ArtifactsInv, TypeOK
  <2> QED BY <2>1, <2>2 DEF AuthorityInv
<1> QED BY <1>2, <1>3, <1>4, <1>5, <1>6 DEF ArtifactsInv

\* What every step does to rows, and to what is kept.
RowsMove ==
  /\ ArtifactsInv'
  /\ Rows \subseteq Rows' /\ refs \subseteq refs'
  /\ \A id \in Rows : RowMove(artifact[id], artifact'[id]) /\ Earned(id, artifact'[id])
  /\ AuthorityInv => AuthorityInv'

LEMMA StayFacts ==
  ASSUME ArtifactsInv, NEW id \in Rows
  PROVE  RowMove(artifact[id], artifact[id]) /\ Earned(id, artifact[id]) /\ KeptMove(id, artifact[id])
BY InvFacts DEF RowMove, Earned, KeptMove

LEMMA PutStep ==
  ASSUME ArtifactsInv, NEW input \in Inputs, Put(input)
  PROVE  RowsMove
<1>1. PICK db : db = Stored(Database, input) /\ db # None /\ Become(db)
  BY DEF Put
<1>2. input \in Puts /\ ValidInput(input)
  BY ConstantFacts DEF Puts
<1>3. DbSound(db) /\ Grows(Database, db)
  BY <1>1, <1>2, StoredFacts DEF ArtifactsInv
<1>4. AuthorityInv => AuthoritySound(db)
  BY <1>1, <1>2, AuthorityStored DEF ArtifactsInv, AuthorityInv
<1>5. PICK page : page = {} /\ UNCHANGED <<sweep, now, damages>> /\ inline' = inline \ page
  BY DEF Put
<1>6. /\ ArtifactsInv' /\ Rows \subseteq Rows' /\ refs \subseteq refs' /\ \A id \in Rows : artifact'[id] = artifact[id]
      /\ AuthorityInv /\ AuthoritySound(db) => AuthorityInv'
  BY <1>1, <1>3, <1>5, GrowStep
<1> QED BY <1>4, <1>6, StayFacts DEF RowsMove

LEMMA BackfillStep ==
  ASSUME ArtifactsInv, NEW cursor, Backfill(cursor)
  PROVE  RowsMove
<1>1. PICK page : page = First({n \in inline : n > cursor})
  OBVIOUS
<1>2. PICK db : db = AllStored(page) /\ db # None /\ Become(db) /\ inline' = inline \ page
  BY <1>1 DEF Backfill
<1>3. page \subseteq 1..Len(Items)
  BY <1>1 DEF First, ArtifactsInv, TypeOK
<1>4. /\ DbSound(db) /\ Grows(Database, db) /\ \A n \in page : HasRef(db, Items[n])
      /\ AuthoritySound(Database) => AuthoritySound(db)
  BY <1>2, <1>3, AllStoredFacts DEF ArtifactsInv
<1>5. UNCHANGED <<sweep, now, damages>>
  BY DEF Backfill
<1>6. /\ ArtifactsInv' /\ Rows \subseteq Rows' /\ refs \subseteq refs' /\ \A id \in Rows : artifact'[id] = artifact[id]
      /\ AuthorityInv /\ AuthoritySound(db) => AuthorityInv'
  BY <1>2, <1>4, <1>5, GrowStep
<1> QED BY <1>4, <1>6, StayFacts DEF RowsMove, AuthorityInv

\* Operations on some rows at once.
LEMMA UpdateStep ==
  ASSUME ArtifactsInv, NEW ids, ids \subseteq Rows, NEW new, DOMAIN new = ids, Update(new),
         \A id \in ids : RowMove(artifact[id], new[id]) /\ Earned(id, new[id]),
         AuthorityInv => \A id \in ids : KeptMove(id, new[id]),
         UNCHANGED <<refs, inline, now, damages>>, sweep' \in {sweep, None}
  PROVE  RowsMove
<1>1. artifact' = [id \in Rows |-> artifact'[id]] /\ Rows' = Rows
      /\ \A id \in Rows : artifact'[id] = IF id \in ids THEN new[id] ELSE artifact[id]
  BY DEF Update, Rows
<1>2. \A id \in Rows : RowMove(artifact[id], artifact'[id]) /\ Earned(id, artifact'[id])
  BY <1>1, StayFacts
<1>3. sweep' # None => sweep' = sweep
  OBVIOUS
<1>4. sweep' # None => sweep'.due \cup sweep'.referenced \subseteq Rows /\ sweep'.time \in Nat
  BY <1>3 DEF ArtifactsInv, TypeOK
<1>5. AuthorityInv =>
        /\ \A id \in Rows : KeptMove(id, artifact'[id])
        /\ sweep' # None => \A id \in sweep'.due \cap Rows : WithAuthorityOnly(id) => id \in sweep'.referenced
  <2>1. ASSUME AuthorityInv, NEW id \in Rows
        PROVE  KeptMove(id, artifact'[id])
    BY <1>1, <2>1, StayFacts
  <2>2. AuthorityInv /\ sweep' # None => \A id \in sweep'.due \cap Rows : WithAuthorityOnly(id) => id \in sweep'.referenced
    BY <1>3 DEF AuthorityInv, SweepSound
  <2> QED BY <2>1, <2>2
<1>6. now' \in 0..MaxTime /\ damages' \in 0..MaxDamage
  BY DEF ArtifactsInv, TypeOK
<1>7. ArtifactsInv' /\ (AuthorityInv => AuthorityInv')
  BY <1>1, <1>2, <1>4, <1>5, <1>6, RowsStep
<1> QED BY <1>1, <1>2, <1>7 DEF RowsMove

LEMMA ArchiveStep ==
  ASSUME ArtifactsInv, \/ \E id \in Rows : Archive(id)
                       \/ \E time : SweepArchive(time)
  PROVE  RowsMove
<1>1. PICK ids \in SUBSET Rows :
        /\ Update([id \in ids |-> Archived(artifact[id])]) /\ \A id \in ids : artifact[id].status = "active"
        /\ UNCHANGED <<refs, inline, sweep, now, damages>>
  <2>1. CASE \E id \in Rows : Archive(id)
    BY <2>1 DEF Archive
  <2>2. CASE \E time : SweepArchive(time)
    BY <2>2 DEF SweepArchive, Healthy, First, ArchiveDue
  <2> QED BY <2>1, <2>2
<1> DEFINE new == [id \in ids |-> Archived(artifact[id])]
<1>2. DOMAIN new = ids /\ Update(new)
  BY <1>1
<1>3. \A id \in ids : RowMove(artifact[id], new[id]) /\ Earned(id, new[id]) /\ KeptMove(id, new[id])
  <2> SUFFICES ASSUME NEW id \in ids, NEW row, row = artifact[id], NEW after, after = Archived(row)
               PROVE  RowMove(row, after) /\ Earned(id, after) /\ KeptMove(id, after)
    OBVIOUS
  <2>1. row \in Row /\ row.status = "active" /\ (row.chunks = "none" <=> row.status = "deleted")
    BY <1>1, InvFacts
  <2> QED BY <2>1, RowFacts DEF RowMove, Earned, KeptMove
<1> HIDE DEF new
<1> QED BY <1>1, <1>2, <1>3, UpdateStep

LEMMA DeleteStep ==
  ASSUME ArtifactsInv, \/ \E id \in Rows : Delete(id)
                       \/ SweepDelete
  PROVE  RowsMove
<1>1. PICK ids \in SUBSET Rows, time \in Nat :
        /\ Update([id \in ids |-> Tombstone(artifact[id])])
        /\ \A id \in ids : /\ artifact[id].status = "archived" /\ artifact[id].retention.allow
                           /\ Due(artifact[id].retention.delete, time)
        /\ \/ /\ \A id \in ids : id \notin Referenced
              /\ sweep' = sweep /\ time = now
           \/ /\ \A id \in ids : /\ id \in sweep.due \ sweep.referenced
                                 /\ Released(artifact[id], time) /\ artifact[id].integrity # "corrupt"
              /\ sweep # None /\ sweep' = None /\ time = sweep.time
        /\ UNCHANGED <<refs, inline, now, damages>>
  <2>1. CASE \E id \in Rows : Delete(id)
    <3>1. PICK id \in Rows : Delete(id)
      BY <2>1
    <3>2. PICK ids, time : ids = {id} /\ time = now
      OBVIOUS
    <3>3. /\ Update([i \in ids |-> Tombstone(artifact[i])]) /\ ids \in SUBSET Rows /\ time \in Nat
          /\ UNCHANGED <<refs, inline, now, damages>> /\ sweep' = sweep
      BY <3>1, <3>2, InvFacts DEF Delete
    <3>4. \A i \in ids : /\ artifact[i].status = "archived" /\ artifact[i].retention.allow
                         /\ Due(artifact[i].retention.delete, time) /\ i \notin Referenced
      BY <3>1, <3>2 DEF Delete
    <3> QED BY <3>2, <3>3, <3>4
  <2>2. CASE SweepDelete
    <3>1. PICK time, ids : /\ time = sweep.time
                           /\ ids = Healthy(First(sweep.due \cap DeleteDue(time)) \ sweep.referenced)
      OBVIOUS
    <3>2. /\ Update([id \in ids |-> Tombstone(artifact[id])]) /\ sweep # None
          /\ UNCHANGED <<refs, inline, now, damages>> /\ sweep' = None
      BY <2>2, <3>1 DEF SweepDelete
    <3>3. ids \subseteq DeleteDue(time) /\ \A id \in ids : id \in sweep.due \ sweep.referenced /\ artifact[id].integrity # "corrupt"
      BY <3>1 DEF Healthy, First
    <3>4. time \in Nat
      BY <3>1, <3>2 DEF ArtifactsInv, TypeOK
    <3> QED BY <3>1, <3>2, <3>3, <3>4 DEF DeleteDue
  <2> QED BY <2>1, <2>2
<1> DEFINE new == [id \in ids |-> Tombstone(artifact[id])]
<1>2. DOMAIN new = ids /\ Update(new)
  BY <1>1
<1>3. \A id \in ids : RowMove(artifact[id], new[id]) /\ Earned(id, new[id])
  <2> SUFFICES ASSUME NEW id \in ids, NEW row, row = artifact[id], NEW after, after = Tombstone(row)
               PROVE  RowMove(row, after) /\ Earned(id, after)
    OBVIOUS
  <2>1. row \in Row /\ row.status = "archived" /\ row.retention.allow /\ Due(row.retention.delete, time) /\ Ordered(row.retention)
    BY <1>1, InvFacts
  <2>2. row.retention.delete <= time /\ (row.retention.archive # Never => row.retention.archive <= time)
    BY <2>1, ConstantFacts DEF Due, Ordered, Row, Times
  <2>3. /\ time = StepTime
        /\ id \in Referenced => BySweep /\ id \in sweep.due \ sweep.referenced
        /\ BySweep => Released(row, sweep.time) /\ row.integrity # "corrupt"
    BY <1>1 DEF BySweep, StepTime
  <2> QED BY <2>1, <2>2, <2>3, RowFacts DEF RowMove, Earned
<1>4. ASSUME AuthorityInv, NEW id \in ids
      PROVE  ~WithAuthorityOnly(id)
  <2> SUFFICES ASSUME WithAuthorityOnly(id) PROVE FALSE
    OBVIOUS
  <2>1. \E ref \in refs : ref.artifact = id /\ ref.authoritative
    BY <1>4 DEF AuthorityInv, AuthoritySound, WithAuthorityOnly, Database, Rows
  <2>2. id \in Referenced
    BY <2>1 DEF Referenced
  <2> QED BY <1>1, <1>4, <2>2 DEF AuthorityInv, SweepSound
<1>5. AuthorityInv => \A id \in ids : KeptMove(id, new[id])
  BY <1>4 DEF KeptMove
<1> HIDE DEF new
<1>6. sweep' \in {sweep, None}
  BY <1>1
<1> QED BY <1>1, <1>2, <1>3, <1>5, <1>6, UpdateStep

LEMMA VerifyStep ==
  ASSUME ArtifactsInv, \/ \E id \in Rows : Verify(id)
                       \/ \E cursor : VerifyBatch(cursor)
  PROVE  RowsMove
<1>1. PICK ids \in SUBSET Rows :
        /\ Update([id \in ids |-> Checked(artifact[id])])
        /\ UNCHANGED <<refs, inline, sweep, now, damages>>
  BY DEF Verify, VerifyBatch, First
<1> DEFINE new == [id \in ids |-> Checked(artifact[id])]
<1>2. DOMAIN new = ids /\ Update(new)
  BY <1>1
<1>3. \A id \in ids : RowMove(artifact[id], new[id]) /\ Earned(id, new[id]) /\ KeptMove(id, new[id])
  <2> SUFFICES ASSUME NEW id \in ids, NEW row, row = artifact[id], NEW after, after = Checked(row)
               PROVE  RowMove(row, after) /\ Earned(id, after) /\ KeptMove(id, after)
    OBVIOUS
  <2>1. row \in Row /\ (row.chunks = "none" <=> row.status = "deleted")
    BY InvFacts
  <2> QED BY <2>1, RowFacts DEF RowMove, Earned, KeptMove
<1> HIDE DEF new
<1> QED BY <1>1, <1>2, <1>3, UpdateStep

LEMMA DamageStep ==
  ASSUME ArtifactsInv, NEW id \in Rows, Damage(id)
  PROVE  RowsMove
<1>1. PICK row, new : row = artifact[id] /\ new = [row EXCEPT !.chunks = "damaged"]
  OBVIOUS
<1>2. /\ artifact' = [artifact EXCEPT ![id] = new] /\ row.chunks = "whole"
      /\ UNCHANGED <<refs, inline, sweep, now>> /\ damages' = damages + 1 /\ damages < MaxDamage
  BY <1>1 DEF Damage
<1>3. RowMove(row, new) /\ new.status = row.status /\ new.chunks = "damaged" /\ row.chunks # "none"
  <2>1. row \in Row /\ (row.chunks = "none" <=> row.status = "deleted")
    BY <1>1, InvFacts
  <2> QED BY <1>1, <1>2, <2>1 DEF RowMove, Row
<1>4. Earned(id, new) /\ KeptMove(id, new)
  BY <1>1, <1>2, <1>3, InvFacts, ConstantFacts DEF Earned, KeptMove, ArtifactsInv, TypeOK
<1>5. Rows' = Rows /\ artifact' = [i \in Rows |-> artifact'[i]]
      /\ \A i \in Rows : artifact'[i] = IF i = id THEN new ELSE artifact[i]
  BY <1>2, InvFacts DEF Rows
<1>6. \A i \in Rows : RowMove(artifact[i], artifact'[i]) /\ Earned(i, artifact'[i]) /\ KeptMove(i, artifact'[i])
  BY <1>1, <1>3, <1>4, <1>5, StayFacts
<1>7. now' \in 0..MaxTime /\ damages' \in 0..MaxDamage
      /\ (sweep' # None => sweep'.due \cup sweep'.referenced \subseteq Rows /\ sweep'.time \in Nat)
  BY <1>2, ConstantFacts DEF ArtifactsInv, TypeOK
<1>8. AuthorityInv => (sweep' # None => \A i \in sweep'.due \cap Rows : WithAuthorityOnly(i) => i \in sweep'.referenced)
  BY <1>2 DEF AuthorityInv, SweepSound
<1>9. ArtifactsInv' /\ (AuthorityInv => AuthorityInv')
  BY <1>2, <1>5, <1>6, <1>7, <1>8, RowsStep
<1> QED BY <1>2, <1>5, <1>6, <1>9 DEF RowsMove

\* The clock, and what a sweep selects.
LEMMA SelectStep ==
  ASSUME ArtifactsInv, (\E time \in Named \cup {now} : SweepSelect(time)) \/ Tick \/ UNCHANGED vars
  PROVE  RowsMove
<1>1. artifact' = artifact /\ refs' = refs /\ inline' = inline /\ damages' = damages /\ Rows' = Rows
  BY DEF SweepSelect, Tick, vars, Rows
<1>2. artifact' = [i \in Rows |-> artifact'[i]]
  BY <1>1, InvFacts
<1>3. \A i \in Rows : RowMove(artifact[i], artifact'[i]) /\ Earned(i, artifact'[i]) /\ KeptMove(i, artifact'[i])
  BY <1>1, StayFacts
<1>4. \/ sweep' = sweep
      \/ \E time \in Nat : sweep' = [due |-> DeleteDue(time), referenced |-> Referenced, time |-> time]
  BY InvFacts, ConstantFacts DEF SweepSelect, Tick, vars
<1>5. \A time \in Nat : DeleteDue(time) \cup Referenced \subseteq Rows
  BY InvFacts DEF DeleteDue, Referenced
<1>6. now' \in 0..MaxTime /\ damages' \in 0..MaxDamage
  BY <1>1, ConstantFacts DEF ArtifactsInv, TypeOK, SweepSelect, Tick, vars
<1>7. sweep' # None => sweep'.due \cup sweep'.referenced \subseteq Rows /\ sweep'.time \in Nat
  BY <1>4, <1>5 DEF ArtifactsInv, TypeOK
<1>8. AuthorityInv => (sweep' # None => \A i \in sweep'.due \cap Rows : WithAuthorityOnly(i) => i \in sweep'.referenced)
  <2>1. AuthorityInv => \A i \in Rows : WithAuthorityOnly(i) => i \in Referenced
    BY DEF AuthorityInv, AuthoritySound, WithAuthorityOnly, Database, Rows, Referenced
  <2> QED BY <1>4, <2>1 DEF AuthorityInv, SweepSound
<1>9. ArtifactsInv' /\ (AuthorityInv => AuthorityInv')
  BY <1>1, <1>2, <1>3, <1>6, <1>7, <1>8, RowsStep
<1> QED BY <1>1, <1>3, <1>9 DEF RowsMove

LEMMA ArtifactStep ==
  ASSUME ArtifactsInv, [Next]_vars
  PROVE  RowsMove
BY PutStep, BackfillStep, ArchiveStep, DeleteStep, VerifyStep, DamageStep, SelectStep DEF Next

LEMMA ArtifactsInit ==
  ASSUME Init
  PROVE  ArtifactsInv /\ AuthorityInv
<1>1. Rows = {} /\ refs = {} /\ artifact = <<>> /\ artifact \in Seq(Row)
  BY DEF Init, Rows
<1>2. TypeOK /\ DbSound(Database) /\ AuthorityInv
  BY <1>1, ConstantFacts DEF Init, TypeOK, DbSound, Database, AuthorityInv, AuthoritySound, SweepSound, Rows
<1>3. (1..Len(Items)) \ inline = {}
  BY DEF Init
<1> QED BY <1>2, <1>3 DEF ArtifactsInv

LEMMA KeptFromInv ==
  ASSUME ArtifactsInv, AuthorityInv
  PROVE  ReferencedKept
<1>1. \A id \in Rows : WithAuthorityOnly(id) => artifact[id].chunks # "none"
  BY DEF WithAuthorityOnly, AuthorityInv, AuthoritySound, AuthorityOnly, Database, Rows
<1> QED BY <1>1 DEF ReferencedKept, ArtifactsInv, DbSound, Database, HasRef, Rows

------------------------------------------------------------------------------
(* Supersession *)

LEMMA IdFacts ==
  ASSUME RecordsSound
  PROVE  /\ Len(evidence) \in Nat /\ Ids = 1..Len(evidence) /\ IsFiniteSet(Ids) /\ Cardinality(Ids) = Len(evidence)
         /\ \A id \in Ids : evidence[id] \in Recorded
<1>1. Len(evidence) \in Nat /\ Ids = 1..Len(evidence) /\ \A id \in Ids : evidence[id] \in Recorded
  BY LenProperties, ElementOfSeq DEF RecordsSound, Ids
<1>2. PICK n \in Nat : n = Len(evidence)
  BY <1>1
<1>3. IsFiniteSet(1..n) /\ Cardinality(1..n) = n
  BY FS_Interval
<1> QED BY <1>1, <1>2, <1>3

\* The hops of a search for a cycle.
Hops(older, e) ==
  older = [n \in 0..Len(evidence) |->
             IF n = 0 THEN {e.to}
             ELSE older[n - 1] \cup {o.to : o \in {p \in edges : p.relation = "supersedes" /\ p.from \in older[n - 1]}}]

LEMMA HopsExist ==
  ASSUME RecordsSound, NEW e
  PROVE  \E older : Hops(older, e) /\ (Cycle(e) <=> e.from \in older[Len(evidence)])
<1> DEFINE After(s) == s \cup {o.to : o \in {p \in edges : p.relation = "supersedes" /\ p.from \in s}}
           UpTo(f, k) == f = [n \in 0..k |-> IF n = 0 THEN {e.to} ELSE After(f[n - 1])]
           G == {k \in Nat : \E f : UpTo(f, k)}
<1>1. 0 \in G
  <2> DEFINE f == [n \in 0..0 |-> {e.to}]
  <2>1. UpTo(f, 0)
    <3> HIDE DEF After
    <3> QED OBVIOUS
  <2> QED BY <2>1
<1>2. ASSUME NEW k \in Nat, k \in G
      PROVE  k + 1 \in G
  <2>1. PICK f : UpTo(f, k)
    BY <1>2
  <2> DEFINE g == [n \in 0..k + 1 |-> IF n = k + 1 THEN After(f[k]) ELSE f[n]]
  <2> HIDE DEF After
  <2>2. \A n \in 0..k + 1 : g[n] = IF n = 0 THEN {e.to} ELSE After(g[n - 1])
    <3> SUFFICES ASSUME NEW n \in 0..k + 1
                 PROVE  g[n] = IF n = 0 THEN {e.to} ELSE After(g[n - 1])
      OBVIOUS
    <3>1. CASE n = k + 1
      <4>1. n # 0 /\ n - 1 = k /\ k \in 0..k + 1 /\ k # k + 1
        BY <3>1
      <4>2. g[n - 1] = f[k]
        BY <4>1
      <4> QED BY <3>1, <4>1, <4>2
    <3>2. CASE n # k + 1 /\ n # 0
      <4>1. n \in 0..k /\ n - 1 \in 0..k + 1 /\ n - 1 # k + 1 /\ n - 1 \in 0..k
        BY <3>2
      <4>2. g[n] = f[n] /\ g[n - 1] = f[n - 1]
        BY <3>2, <4>1
      <4>3. f[n] = After(f[n - 1])
        BY <2>1, <3>2, <4>1
      <4> QED BY <3>2, <4>2, <4>3
    <3>3. CASE n = 0
      <4>1. 0 # k + 1 /\ 0 \in 0..k + 1 /\ 0 \in 0..k
        OBVIOUS
      <4>2. g[0] = f[0] /\ f[0] = {e.to}
        BY <2>1, <4>1
      <4> QED BY <3>3, <4>2
    <3> QED BY <3>1, <3>2, <3>3
  <2>3. UpTo(g, k + 1)
    BY <2>2
  <2> HIDE DEF g, UpTo
  <2> QED BY <2>3
<1>3. Len(evidence) \in G
  <2> HIDE DEF G
  <2> QED BY <1>1, <1>2, FromZero, IdFacts
<1>4. \E older : Hops(older, e)
  BY <1>3 DEF Hops
<1> DEFINE older == CHOOSE f : Hops(f, e)
<1>5. Hops(older, e)
  BY <1>4
<1>6. Cycle(e) <=> e.from \in older[Len(evidence)]
  BY DEF Cycle, Hops
<1> HIDE DEF older
<1> QED BY <1>5, <1>6

\* A set closed under supersession that holds the older end holds every hop.
LEMMA HopsWithin ==
  ASSUME RecordsSound, NEW e, NEW older, Hops(older, e), NEW some, e.to \in some, Closed(some)
  PROVE  \A n \in 0..Len(evidence) : older[n] \subseteq some
<1> DEFINE G == {n \in Nat : n <= Len(evidence) => older[n] \subseteq some}
<1>1. 0 \in G
  BY IdFacts DEF Hops
<1>2. ASSUME NEW n \in Nat, n \in G
      PROVE  n + 1 \in G
  <2> SUFFICES ASSUME n + 1 <= Len(evidence) PROVE older[n + 1] \subseteq some
    OBVIOUS
  <2>1. n + 1 \in 0..Len(evidence) /\ n + 1 # 0 /\ (n + 1) - 1 = n /\ older[n] \subseteq some
    BY <1>2, IdFacts
  <2>2. older[n + 1] = older[n] \cup {o.to : o \in {p \in edges : p.relation = "supersedes" /\ p.from \in older[n]}}
    BY <2>1 DEF Hops
  <2> QED BY <2>1, <2>2 DEF Closed
<1>3. \A n \in 0..Len(evidence) : n \in Nat /\ n <= Len(evidence)
  BY IdFacts
<1> HIDE DEF G
<1>4. Nat \subseteq G
  BY <1>1, <1>2, FromZero
<1> QED BY <1>3, <1>4 DEF G

\* Within as many hops as there are records nothing is left to find.
LEMMA HopsEnd ==
  ASSUME RecordsSound, EdgesSound, NEW e, e.to \in Ids, NEW older, Hops(older, e)
  PROVE  older[Len(evidence)] \in SUBSET Ids /\ e.to \in older[Len(evidence)] /\ Closed(older[Len(evidence)])
<1> DEFINE Found(n) ==
      /\ older[n] \in SUBSET Ids /\ e.to \in older[n]
      /\ Closed(older[n]) \/ n + 1 <= Cardinality(older[n])
      G == {n \in Nat : n <= Len(evidence) => Found(n)}
<1>1. 0 \in G
  <2>1. older[0] = {e.to}
    BY IdFacts DEF Hops
  <2>2. Cardinality(older[0]) = 1
    BY <2>1, FS_Singleton
  <2>3. older[0] \in SUBSET Ids /\ e.to \in older[0]
    BY <2>1
  <2>4. 0 + 1 <= Cardinality(older[0])
    BY <2>2
  <2>5. Found(0)
    BY <2>3, <2>4
  <2> HIDE DEF Found
  <2> QED BY <2>5
<1>2. ASSUME NEW n \in Nat, n \in G
      PROVE  n + 1 \in G
  <2> SUFFICES ASSUME n + 1 <= Len(evidence) PROVE Found(n + 1)
    OBVIOUS
  <2>1. n + 1 \in 0..Len(evidence) /\ n + 1 # 0 /\ (n + 1) - 1 = n /\ Found(n)
    BY <1>2, IdFacts
  <2> DEFINE more == {o.to : o \in {p \in edges : p.relation = "supersedes" /\ p.from \in older[n]}}
  <2>2. older[n + 1] = older[n] \cup more
    BY <2>1 DEF Hops
  <2>3. more \subseteq Ids
    BY DEF EdgesSound
  <2>4. CASE Closed(older[n])
    <3>1. more \subseteq older[n]
      BY <2>4 DEF Closed
    <3>2. older[n + 1] = older[n]
      BY <2>2, <3>1
    <3> QED BY <2>1, <2>4, <3>2
  <2>5. CASE ~Closed(older[n])
    <3>1. PICK x \in more : x \notin older[n]
      BY <2>5 DEF Closed
    <3>2. older[n + 1] \in SUBSET Ids
      BY <2>1, <2>2, <2>3
    <3>3. IsFiniteSet(older[n + 1]) /\ IsFiniteSet(older[n])
      BY <2>1, <3>2, IdFacts, FS_Subset
    <3>4. Cardinality(older[n] \cup {x}) = Cardinality(older[n]) + 1 /\ IsFiniteSet(older[n] \cup {x})
      BY <3>1, <3>3, FS_AddElement
    <3>5. Cardinality(older[n] \cup {x}) <= Cardinality(older[n + 1])
      BY <2>2, <3>1, <3>3, FS_Subset
    <3>6. Cardinality(older[n]) \in Nat /\ Cardinality(older[n + 1]) \in Nat
      BY <3>3, FS_CardinalityType
    <3>7. n + 1 <= Cardinality(older[n])
      BY <2>1, <2>5
    <3>8. (n + 1) + 1 <= Cardinality(older[n + 1])
      BY <3>4, <3>5, <3>6, <3>7
    <3> QED BY <2>1, <2>2, <3>2, <3>8
  <2> QED BY <2>4, <2>5
<1>3. Len(evidence) \in G
  <2> HIDE DEF G
  <2> QED BY <1>1, <1>2, FromZero, IdFacts
<1>4. Found(Len(evidence))
  BY <1>3, IdFacts
<1>5. Cardinality(older[Len(evidence)]) \in Nat /\ Cardinality(older[Len(evidence)]) <= Len(evidence)
  BY <1>4, IdFacts, FS_Subset, FS_CardinalityType
<1>6. ~(Len(evidence) + 1 <= Cardinality(older[Len(evidence)]))
  BY <1>5, IdFacts
<1> QED BY <1>4, <1>6

\* The search finds a cycle if and only if the ends are not apart.
LEMMA CycleApart ==
  ASSUME RecordsSound, EdgesSound, NEW e, e.to \in Ids
  PROVE  ~Cycle(e) <=> Apart(e)
<1>1. PICK older : Hops(older, e) /\ (Cycle(e) <=> e.from \in older[Len(evidence)])
  BY HopsExist
<1>2. ~Cycle(e) => Apart(e)
  BY <1>1, HopsEnd DEF Apart
<1>3. Apart(e) => ~Cycle(e)
  <2>1. Len(evidence) \in 0..Len(evidence)
    BY IdFacts
  <2> QED BY <1>1, <2>1, HopsWithin DEF Apart
<1> QED BY <1>2, <1>3

\* The least closed set that holds x.
LEMMA LeastClosed ==
  ASSUME EdgesSound, NEW x \in Ids
  PROVE  \E some \in SUBSET Ids : /\ x \in some /\ Closed(some)
                                  /\ \A other : x \in other /\ Closed(other) => some \subseteq other
<1> DEFINE Least == {y \in Ids : \A other \in SUBSET Ids : x \in other /\ Closed(other) => y \in other}
<1>1. x \in Least
  OBVIOUS
<1>2. Closed(Least)
  <2> SUFFICES ASSUME NEW e \in edges, e.relation = "supersedes", e.from \in Least
               PROVE  e.to \in Least
    BY DEF Closed
  <2>1. \A other \in SUBSET Ids : x \in other /\ Closed(other) => e.to \in other
    BY DEF Closed
  <2> QED BY <2>1 DEF EdgesSound
<1>3. ASSUME NEW other, x \in other, Closed(other)
      PROVE  Least \subseteq other
  <2>1. Closed(other \cap Ids)
    BY <1>3 DEF Closed, EdgesSound
  <2>2. other \cap Ids \in SUBSET Ids /\ x \in other \cap Ids
    BY <1>3
  <2> QED BY <2>1, <2>2
<1>4. Least \in SUBSET Ids
  OBVIOUS
<1> HIDE DEF Least
<1> QED BY <1>1, <1>2, <1>3, <1>4

\* Ends stay apart when edges are added that do not supersede, or lead from new records.
LEMMA ApartStays ==
  ASSUME EdgesSound, NEW e, Apart(e), Ids \subseteq Ids',
         \A o \in edges' : o \in edges \/ o.relation # "supersedes" \/ o.from \notin Ids
  PROVE  Apart(e)'
<1>1. PICK some \in SUBSET Ids : e.to \in some /\ e.from \notin some /\ Closed(some)
  BY DEF Apart
<1>2. Closed(some)' /\ some \in SUBSET Ids'
  BY <1>1 DEF Closed
<1> QED BY <1>1, <1>2 DEF Apart

\* An edge whose ends are apart closes no cycle with the edges there are.
LEMMA ApartInsert ==
  ASSUME EdgesSound, NEW w, w \in Edge, w.from \in Ids, w.to \in Ids, Apart(w), Ids' = Ids,
         edges' = edges \cup {w}, NEW e, e \in edges \cup {w}, e.relation = "supersedes"
  PROVE  Apart(e)'
<1>1. PICK above \in SUBSET Ids : w.to \in above /\ w.from \notin above /\ Closed(above)
  BY DEF Apart
<1>2. Closed(above)'
  BY <1>1 DEF Closed
<1>3. CASE e = w
  BY <1>1, <1>2, <1>3 DEF Apart
<1>4. CASE e \in edges
  <2>1. e.to \in Ids /\ Apart(e)
    BY <1>4 DEF EdgesSound
  <2>2. PICK some \in SUBSET Ids : /\ e.to \in some /\ Closed(some)
                                   /\ \A other : e.to \in other /\ Closed(other) => some \subseteq other
    BY <2>1, LeastClosed
  <2>3. e.from \notin some
    BY <2>1, <2>2 DEF Apart
  <2>4. CASE w.from \notin some
    <3>1. Closed(some)'
      BY <2>2, <2>4 DEF Closed
    <3> QED BY <2>2, <2>3, <3>1 DEF Apart
  <2>5. CASE w.from \in some
    <3>1. Closed(some \cup above)'
      BY <1>1, <2>2 DEF Closed
    <3>2. e.from \notin above
      <4> SUFFICES ASSUME e.from \in above PROVE FALSE
        OBVIOUS
      <4>1. e.to \in above
        BY <1>1, <1>4 DEF Closed
      <4> QED BY <1>1, <2>2, <2>5, <4>1
    <3>3. some \cup above \in SUBSET Ids' /\ e.to \in some \cup above /\ e.from \notin some \cup above
      BY <2>2, <2>3, <3>2
    <3> QED BY <3>1, <3>3 DEF Apart
  <2> QED BY <2>4, <2>5
<1> QED BY <1>3, <1>4

------------------------------------------------------------------------------
(* The steps of evidence *)

LEMMA EvidenceStarts ==
  ASSUME EvidenceInit
  PROVE  EvidenceInv /\ AuthorityInv
<1>1. ArtifactsInv /\ AuthorityInv
  BY ArtifactsInit DEF EvidenceInit
<1>2. evidence = <<>> /\ edges = {} /\ evidence \in Seq(Recorded) /\ Ids = {}
  BY DEF EvidenceInit, Ids
<1>3. RecordsSound
  BY <1>2 DEF RecordsSound
<1>4. IsFiniteSet(edges)
  BY <1>2, FS_EmptySet
<1>5. EdgesSound
  BY <1>2, <1>4 DEF EdgesSound, EvidenceInit
<1> QED BY <1>1, <1>3, <1>5 DEF EvidenceInv

\* What the artifacts do to a payload of a record.
LEMMA PayloadStays ==
  ASSUME ArtifactsInv, RowsMove, NEW record, PayloadSound(record)
  PROVE  PayloadSound(record)'
<1> SUFFICES ASSUME record.artifact # None
             PROVE  /\ record.artifact \in Rows' /\ artifact'[record.artifact].content = record.hash
                    /\ \E ref \in refs' : ref.artifact = record.artifact /\ ref.source = record.identity
  BY DEF PayloadSound
<1>1. /\ record.artifact \in Rows /\ artifact[record.artifact].content = record.hash
      /\ \E ref \in refs : ref.artifact = record.artifact /\ ref.source = record.identity
  BY DEF PayloadSound
<1> QED BY <1>1 DEF RowsMove, RowMove

LEMMA RecordsStep ==
  ASSUME ArtifactsInv, RecordsSound, RowsMove, evidence' = evidence, edges \subseteq edges'
  PROVE  RecordsSound'
<1>1. Ids' = Ids
  BY DEF Ids
<1>2. ASSUME NEW id \in Ids
      PROVE  PayloadSound(evidence[id])'
  <2>1. PICK record : record = evidence[id] /\ PayloadSound(record)
    BY DEF RecordsSound
  <2>2. PayloadSound(record)'
    BY <2>1, PayloadStays
  <2> QED BY <2>1, <2>2 DEF PayloadSound
<1>3. \A id \in Ids : evidence[id].supersedes # None => Link(id, evidence[id].supersedes, "supersedes") \in edges'
  BY DEF RecordsSound
<1> QED BY <1>1, <1>2, <1>3 DEF RecordsSound, Link

LEMMA ArtifactsOnly ==
  ASSUME EvidenceInv, [Next]_vars, UNCHANGED evidenceVars
  PROVE  EvidenceInv' /\ RowsMove
<1>1. RowsMove
  BY ArtifactStep DEF EvidenceInv
<1>2. evidence' = evidence /\ edges' = edges /\ adder' = adder /\ Ids' = Ids
  BY DEF evidenceVars, Ids
<1>3. RecordsSound'
  BY <1>1, <1>2, RecordsStep DEF EvidenceInv
<1>4. EdgesSound'
  BY <1>2 DEF EvidenceInv, EdgesSound, Apart, Closed
<1> QED BY <1>1, <1>3, <1>4 DEF EvidenceInv, RowsMove

\* What a client's request does between its statements.
LEMMA RequestStep ==
  ASSUME EvidenceInv, NEW a \in Adders, FindEdge(a) \/ CheckCycle(a) \/ Abandon(a)
  PROVE  EvidenceInv' /\ RowsMove
<1>1. UNCHANGED vars /\ evidence' = evidence /\ edges' = edges /\ Ids' = Ids
  BY DEF FindEdge, CheckCycle, Abandon, Ids
<1>2. RowsMove
  BY <1>1, SelectStep DEF EvidenceInv
<1>3. RecordsSound'
  BY <1>1, <1>2, RecordsStep DEF EvidenceInv
<1>4. \A e : Apart(e) => Apart(e)'
  BY <1>1 DEF Apart, Closed
<1>5. PICK now2 \in {"idle", "found", "locked"} : adder' = [adder EXCEPT ![a] = now2]
                 /\ (now2 # "idle" => Wanted[a].from \in Ids /\ Wanted[a].to \in Ids)
                 /\ (now2 = "locked" => LockFree /\ Supersedes(a) /\ Apart(Wanted[a]))
  <2>1. CASE FindEdge(a)
    BY <2>1 DEF FindEdge, Readable
  <2>2. CASE Abandon(a)
    BY <2>2 DEF Abandon
  <2>3. CASE CheckCycle(a)
    <3>1. Wanted[a].from \in Ids /\ Wanted[a].to \in Ids
      BY <2>3 DEF CheckCycle, EvidenceInv, EdgesSound
    <3>2. ~Cycle(Wanted[a]) <=> Apart(Wanted[a])
      BY <3>1, CycleApart DEF EvidenceInv
    <3> QED BY <2>3, <3>1, <3>2 DEF CheckCycle, MayCheck
  <2> QED BY <2>1, <2>2, <2>3
<1>6. adder' \in [Adders -> {"idle", "found", "locked"}]
      /\ \A b \in Adders : adder'[b] = IF b = a THEN now2 ELSE adder[b]
  BY <1>5 DEF EvidenceInv, EdgesSound
<1>7. EdgesSound'
  <2>1. /\ edges' \subseteq Edge /\ IsFiniteSet(edges')
        /\ \A e \in edges' : e.from \in Ids' /\ e.to \in Ids'
    BY <1>1 DEF EvidenceInv, EdgesSound
  <2>2. \A b \in Adders : adder'[b] # "idle" => Wanted[b].from \in Ids' /\ Wanted[b].to \in Ids'
    BY <1>1, <1>5, <1>6 DEF EvidenceInv, EdgesSound
  <2>3. \A b, c \in Adders : adder'[b] = "locked" /\ adder'[c] = "locked" => b = c
    BY <1>5, <1>6 DEF EvidenceInv, EdgesSound, LockFree
  <2>4. \A b \in Adders : adder'[b] = "locked" => Supersedes(b) /\ Apart(Wanted[b])'
    BY <1>4, <1>5, <1>6 DEF EvidenceInv, EdgesSound
  <2>5. \A e \in edges' : e.relation = "supersedes" => Apart(e)'
    BY <1>1, <1>4 DEF EvidenceInv, EdgesSound
  <2> QED BY <1>6, <2>1, <2>2, <2>3, <2>4, <2>5 DEF EdgesSound, Supersedes
<1> QED BY <1>2, <1>3, <1>7 DEF EvidenceInv, RowsMove

LEMMA InsertStep ==
  ASSUME EvidenceInv, NEW a \in Adders, InsertEdge(a)
  PROVE  EvidenceInv' /\ RowsMove
<1>1. PICK w : w = Wanted[a]
  OBVIOUS
<1>2. UNCHANGED vars /\ evidence' = evidence /\ edges' = edges \cup {w} /\ Ids' = Ids
      /\ adder' = [adder EXCEPT ![a] = "idle"]
      /\ adder[a] = IF w.relation = "supersedes" THEN "locked" ELSE "found"
  BY <1>1 DEF InsertEdge, Ids, Supersedes
<1>3. RowsMove
  BY <1>2, SelectStep DEF EvidenceInv
<1>4. RecordsSound'
  BY <1>2, <1>3, RecordsStep DEF EvidenceInv
<1>5. w \in Edge /\ w.from \in Ids /\ w.to \in Ids
  <2>1. adder[a] # "idle"
    BY <1>2
  <2> QED BY <1>1, <2>1, EvidenceAssumption DEF EvidenceInv, EdgesSound
<1>6. \A b \in Adders : adder'[b] = IF b = a THEN "idle" ELSE adder[b]
  BY <1>2 DEF EvidenceInv, EdgesSound
<1>7. \A e \in edges \cup {w} : e.relation = "supersedes" => Apart(e)'
  <2> SUFFICES ASSUME NEW e \in edges \cup {w}, e.relation = "supersedes" PROVE Apart(e)'
    OBVIOUS
  <2>1. CASE w.relation = "supersedes"
    <3>1. Apart(w)
      BY <1>1, <1>2, <2>1 DEF EvidenceInv, EdgesSound
    <3> QED BY <1>2, <1>5, <3>1, ApartInsert DEF EvidenceInv
  <2>2. CASE w.relation # "supersedes"
    <3>1. e \in edges /\ Apart(e)
      BY <2>2 DEF EvidenceInv, EdgesSound
    <3>2. \A o \in edges' : o \in edges \/ o.relation # "supersedes" \/ o.from \notin Ids
      BY <1>2, <2>2
    <3> QED BY <1>2, <3>1, <3>2, ApartStays DEF EvidenceInv
  <2> QED BY <2>1, <2>2
<1>8. \A b \in Adders : adder'[b] = "locked" => Supersedes(b) /\ Apart(Wanted[b])'
  <2> SUFFICES ASSUME NEW b \in Adders, adder'[b] = "locked" PROVE Supersedes(b) /\ Apart(Wanted[b])'
    OBVIOUS
  <2>1. b # a /\ adder[b] = "locked" /\ Supersedes(b) /\ Apart(Wanted[b])
    BY <1>6 DEF EvidenceInv, EdgesSound
  <2>2. w.relation # "supersedes"
    BY <1>2, <2>1 DEF EvidenceInv, EdgesSound
  <2>3. \A o \in edges' : o \in edges \/ o.relation # "supersedes" \/ o.from \notin Ids
    BY <1>2, <2>2
  <2>4. PICK v : v = Wanted[b] /\ Apart(v)
    BY <2>1
  <2>5. Apart(v)'
    BY <1>2, <2>3, <2>4, ApartStays DEF EvidenceInv
  <2> QED BY <2>1, <2>4, <2>5
<1>9. EdgesSound'
  <2>1. IsFiniteSet(edges \cup {w})
    BY FS_AddElement DEF EvidenceInv, EdgesSound
  <2>2. edges' \subseteq Edge /\ \A e \in edges' : e.from \in Ids' /\ e.to \in Ids'
    BY <1>2, <1>5 DEF EvidenceInv, EdgesSound
  <2>3. adder' \in [Adders -> {"idle", "found", "locked"}]
    BY <1>2 DEF EvidenceInv, EdgesSound
  <2>4. /\ \A b \in Adders : adder'[b] # "idle" => Wanted[b].from \in Ids' /\ Wanted[b].to \in Ids'
        /\ \A b, c \in Adders : adder'[b] = "locked" /\ adder'[c] = "locked" => b = c
    BY <1>2, <1>6 DEF EvidenceInv, EdgesSound
  <2> QED BY <1>2, <1>7, <1>8, <2>1, <2>2, <2>3, <2>4 DEF EdgesSound, Supersedes
<1> QED BY <1>3, <1>4, <1>9 DEF EvidenceInv, RowsMove

\* An image of a finite set: links from one record to others.
LEMMA LinksFinite ==
  ASSUME NEW from, NEW relation, NEW ids, IsFiniteSet(ids)
  PROVE  IsFiniteSet({Link(from, id, relation) : id \in ids})
<1> DEFINE links == {Link(from, id, relation) : id \in ids}
           f == [id \in ids |-> Link(from, id, relation)]
<1>1. f \in [ids -> links]
  OBVIOUS
<1>2. \A link \in links : \E id \in ids : f[id] = link
  OBVIOUS
<1>3. f \in Surjection(ids, links)
  BY <1>1, <1>2 DEF Surjection
<1> HIDE DEF f, links
<1>4. IsFiniteSet(links)
  BY <1>3, FS_Surjection
<1> QED BY <1>4 DEF links

\* A record is put with its payload and its edges.
LEMMA RecordStep ==
  ASSUME EvidenceInv, NEW input \in Records, PutEvidence(input)
  PROVE  EvidenceInv' /\ RowsMove
<1>1. PICK new, db, raw, predecessor :
        /\ new = Len(evidence) + 1
        /\ db = IF input.raw = None THEN Database ELSE Stored(Database, input.raw)
        /\ raw = IF input.raw = None THEN None ELSE IdIn(artifact, input.raw)
        /\ predecessor = IF input.supersedes = None THEN {} ELSE {input.supersedes}
  OBVIOUS
<1>2. /\ \A id \in Ids : evidence[id].identity # input.identity
      /\ \A id \in predecessor \cup input.contradicts : Readable(id)
      /\ db # None
      /\ predecessor # {} => LockFree
      /\ Become(db)
      /\ evidence' = Append(evidence, RecordOf(input, raw))
      /\ edges' = edges \cup {Link(new, id, "supersedes") : id \in predecessor}
                        \cup {Link(new, id, "contradicts") : id \in input.contradicts}
      /\ UNCHANGED <<inline, sweep, now, damages, adder>>
  BY <1>1 DEF PutEvidence, RecordOf
<1>3. /\ Len(evidence) \in Nat /\ Ids = 1..Len(evidence) /\ IsFiniteSet(Ids)
      /\ \A id \in Ids : evidence[id] \in Recorded
      /\ ArtifactsInv
  BY IdFacts DEF EvidenceInv
<1>4. /\ DbSound(db) /\ Grows(Database, db)
      /\ AuthoritySound(Database) => AuthoritySound(db)
      /\ input.raw # None =>
           /\ raw \in DOMAIN db.rows /\ db.rows[raw].content = input.hash
           /\ \E ref \in db.refs : ref.artifact = raw /\ ref.source = input.identity
  <2>1. CASE input.raw = None
    <3>1. db = Database
      BY <1>1, <2>1
    <3> QED BY <1>3, <2>1, <3>1 DEF ArtifactsInv, Grows
  <2>2. CASE input.raw # None
    <3>1. PICK i : i = input.raw
      OBVIOUS
    <3>2. db = Stored(Database, i) /\ raw = IdIn(artifact, i) /\ db # None
      BY <1>1, <1>2, <2>2, <3>1
    <3>3. i \in Puts /\ ValidInput(i) /\ i.authoritative /\ i.content = input.hash /\ i.source = input.identity
      BY <2>2, <3>1, EvidenceAssumption DEF Puts, Normalized
    <3>4. DbSound(Database) /\ raw = IdIn(Database.rows, i)
      BY <1>3, <3>2 DEF ArtifactsInv, Database
    <3>5. /\ DbSound(db) /\ Grows(Database, db) /\ raw \in DOMAIN db.rows /\ db.rows[raw].content = input.hash
          /\ \E ref \in db.refs : ref.artifact = raw /\ ref.source = input.identity
      BY <3>2, <3>3, <3>4, StoredFacts
    <3>6. AuthoritySound(Database) => AuthoritySound(db)
      BY <3>2, <3>3, <3>4, AuthorityStored
    <3> QED BY <3>5, <3>6
  <2> QED BY <2>1, <2>2
<1>5. RowsMove
  <2>1. PICK page : page = {} /\ inline' = inline \ page
    BY <1>2
  <2>2. /\ ArtifactsInv' /\ Rows \subseteq Rows' /\ refs \subseteq refs'
        /\ \A id \in Rows : artifact'[id] = artifact[id]
        /\ AuthorityInv /\ AuthoritySound(db) => AuthorityInv'
    BY <1>2, <1>3, <1>4, <2>1, GrowStep
  <2> QED BY <1>3, <1>4, <2>2, StayFacts DEF RowsMove, AuthorityInv
<1>6. RecordOf(input, raw) \in Recorded
  <2>1. raw \in Nat \cup {None}
    <3>1. CASE input.raw = None
      BY <1>1, <3>1
    <3>2. CASE input.raw # None
      BY <1>4, <3>2, RowsTyped DEF DbSound
    <3> QED BY <3>1, <3>2
  <2> QED BY <2>1 DEF Recorded
<1>7. PICK record : record = RecordOf(input, raw)
  OBVIOUS
<1>8. /\ record.identity = input.identity /\ record.hash = input.hash /\ record.artifact = raw
      /\ record.supersedes = input.supersedes
  BY <1>7 DEF RecordOf
<1>9. /\ evidence' \in Seq(Recorded) /\ Ids' = Ids \cup {new} /\ new \notin Ids /\ new \in Nat \ {0}
      /\ evidence'[new] = record /\ \A id \in Ids : evidence'[id] = evidence[id]
  <2>1. evidence' = Append(evidence, record) /\ record \in Recorded /\ evidence \in Seq(Recorded)
    BY <1>2, <1>6, <1>7 DEF EvidenceInv, RecordsSound
  <2>2. /\ evidence' \in Seq(Recorded) /\ Len(evidence') = Len(evidence) + 1 /\ evidence'[Len(evidence) + 1] = record
        /\ \A id \in 1..Len(evidence) : evidence'[id] = evidence[id]
    BY <2>1, AppendProperties
  <2>3. DOMAIN evidence' = 1..Len(evidence')
    BY <2>2, LenProperties
  <2> QED BY <1>1, <1>3, <2>2, <2>3 DEF Ids
<1>10. PayloadSound(record)'
  <2> SUFFICES ASSUME raw # None
               PROVE  /\ raw \in Rows' /\ artifact'[raw].content = input.hash
                      /\ \E ref \in refs' : ref.artifact = raw /\ ref.source = input.identity
    BY <1>8 DEF PayloadSound
  <2>1. input.raw # None
    BY <1>1
  <2> QED BY <1>2, <1>4, <2>1 DEF Become, Rows
<1>11. /\ predecessor \cup input.contradicts \subseteq Ids
       /\ \A e \in edges' : e \in edges \/ (e.from = new /\ e.to \in Ids /\ e \in Edge)
  <2>1. predecessor \cup input.contradicts \subseteq Ids
    BY <1>2 DEF Readable
  <2>2. ASSUME NEW id \in Ids, NEW relation \in {"supersedes", "contradicts"}, NEW e, e = Link(new, id, relation)
        PROVE  e.from = new /\ e.to \in Ids /\ e \in Edge
    <3>1. relation \in {Relations[n] : n \in 1..Len(Relations)}
      <4>1. Len(Relations) = 6 /\ Relations[2] = "contradicts" /\ Relations[5] = "supersedes"
        BY DEF Relations
      <4>2. 2 \in 1..6 /\ 5 \in 1..6
        OBVIOUS
      <4> QED BY <4>1, <4>2
    <3> QED BY <1>3, <1>9, <2>2, <3>1 DEF Link, Edge
  <2> QED BY <1>2, <2>1, <2>2
<1>12. RecordsSound'
  <2>1. ASSUME NEW id \in Ids'
        PROVE  PayloadSound(evidence[id])'
    <3>1. CASE id = new
      BY <1>9, <1>10, <3>1 DEF PayloadSound
    <3>2. CASE id \in Ids
      <4>1. PICK old : old = evidence[id] /\ PayloadSound(old)
        BY <3>2 DEF EvidenceInv, RecordsSound
      <4>2. PayloadSound(old)' /\ evidence'[id] = old
        BY <1>3, <1>5, <1>9, <3>2, <4>1, PayloadStays
      <4> QED BY <4>2 DEF PayloadSound
    <3> QED BY <1>9, <3>1, <3>2
  <2>2. \A id \in Ids' : evidence'[id].supersedes # None => Link(id, evidence'[id].supersedes, "supersedes") \in edges'
    <3> SUFFICES ASSUME NEW id \in Ids', evidence'[id].supersedes # None
                 PROVE  Link(id, evidence'[id].supersedes, "supersedes") \in edges'
      OBVIOUS
    <3>1. CASE id = new
      <4>1. evidence'[id].supersedes = input.supersedes /\ predecessor = {input.supersedes}
        BY <1>1, <1>8, <1>9, <3>1
      <4> QED BY <1>2, <3>1, <4>1
    <3>2. CASE id \in Ids
      BY <1>2, <1>9, <3>2 DEF EvidenceInv, RecordsSound
    <3> QED BY <1>9, <3>1, <3>2
  <2>3. \A id, other \in Ids' : evidence'[id].identity = evidence'[other].identity => id = other
    <3>1. \A id \in Ids : evidence'[id].identity # evidence'[new].identity
      <4>1. evidence'[new].identity = input.identity
        BY <1>8, <1>9
      <4> QED BY <1>2, <1>9, <4>1
    <3>2. \A id, other \in Ids : evidence'[id].identity = evidence'[other].identity => id = other
      BY <1>9 DEF EvidenceInv, RecordsSound
    <3> QED BY <1>9, <3>1, <3>2
  <2> QED BY <1>9, <2>1, <2>2, <2>3 DEF RecordsSound, Link
<1>13. \A e : Apart(e) => Apart(e)'
  <2>1. Ids \subseteq Ids' /\ \A o \in edges' : o \in edges \/ o.relation # "supersedes" \/ o.from \notin Ids
    BY <1>9, <1>11
  <2> QED BY <2>1, ApartStays DEF EvidenceInv
<1>14. \A e \in edges' : e.relation = "supersedes" => Apart(e)'
  <2> SUFFICES ASSUME NEW e \in edges', e.relation = "supersedes" PROVE Apart(e)'
    OBVIOUS
  <2>1. CASE e \in edges
    <3>1. Apart(e)
      BY <2>1 DEF EvidenceInv, EdgesSound
    <3> QED BY <1>13, <3>1
  <2>2. CASE e.from = new /\ e.to \in Ids
    <3>1. e.to \in Ids /\ e.from \notin Ids
      BY <1>9, <2>2
    <3>2. PICK some : some = Ids
      OBVIOUS
    <3>3. \A o \in edges' : o.to \in some
      BY <1>11, <3>2 DEF EvidenceInv, EdgesSound
    <3>4. Closed(some)'
      BY <3>3 DEF Closed
    <3> QED BY <1>9, <3>1, <3>2, <3>4 DEF Apart
  <2> QED BY <1>11, <2>1, <2>2
<1>15. EdgesSound'
  <2>1. IsFiniteSet(edges')
    <3>1. PICK more, other : /\ more = {Link(new, id, "supersedes") : id \in predecessor}
                             /\ other = {Link(new, id, "contradicts") : id \in input.contradicts}
      OBVIOUS
    <3>2. IsFiniteSet(predecessor) /\ IsFiniteSet(input.contradicts)
      BY <1>3, <1>11, FS_Subset
    <3>3. IsFiniteSet(more) /\ IsFiniteSet(other)
      BY <3>1, <3>2, LinksFinite
    <3>4. IsFiniteSet(edges \cup more)
      BY <3>3, FS_Union DEF EvidenceInv, EdgesSound
    <3>5. IsFiniteSet((edges \cup more) \cup other)
      BY <3>3, <3>4, FS_Union
    <3> QED BY <1>2, <3>1, <3>5
  <2>2. edges' \subseteq Edge /\ \A e \in edges' : e.from \in Ids' /\ e.to \in Ids'
    BY <1>9, <1>11 DEF EvidenceInv, EdgesSound
  <2>3. \A a \in Adders : adder[a] = "locked" => Supersedes(a) /\ Apart(Wanted[a])'
    <3> SUFFICES ASSUME NEW a \in Adders, adder[a] = "locked" PROVE Supersedes(a) /\ Apart(Wanted[a])'
      OBVIOUS
    <3>1. PICK w : w = Wanted[a] /\ Apart(w) /\ Supersedes(a)
      BY DEF EvidenceInv, EdgesSound
    <3> QED BY <1>13, <3>1
  <2> QED BY <1>2, <1>9, <1>14, <2>1, <2>2, <2>3 DEF EvidenceInv, EdgesSound, Supersedes
<1> QED BY <1>5, <1>12, <1>15 DEF EvidenceInv, RowsMove

LEMMA EvidenceStep ==
  ASSUME EvidenceInv, [EvidenceNext]_<<vars, evidenceVars>>
  PROVE  EvidenceInv' /\ RowsMove
<1>1. CASE Next /\ UNCHANGED evidenceVars
  BY <1>1, ArtifactsOnly
<1>2. CASE \E input \in Records : PutEvidence(input)
  BY <1>2, RecordStep
<1>3. CASE \E a \in Adders : FindEdge(a) \/ CheckCycle(a) \/ InsertEdge(a) \/ Abandon(a)
  BY <1>3, RequestStep, InsertStep
<1>4. CASE UNCHANGED <<vars, evidenceVars>>
  BY <1>4, ArtifactsOnly
<1> QED BY <1>1, <1>2, <1>3, <1>4 DEF EvidenceNext

------------------------------------------------------------------------------
(* Disclosure *)

\* Edges are read in an order in which every set of them has a first one.
LEMMA FirstEdge ==
  ASSUME NEW some, some \subseteq Edge, some # {}
  PROVE  \E e \in some : \A o \in some : ~Before(o, e)
<1> DEFINE places == {Place(e.relation) : e \in some}
<1>1. \A e \in some : Place(e.relation) \in Nat /\ e.from \in Nat /\ e.to \in Nat
  <2> SUFFICES ASSUME NEW e \in some PROVE Place(e.relation) \in Nat /\ e.from \in Nat /\ e.to \in Nat
    OBVIOUS
  <2>1. e.relation \in {Relations[n] : n \in 1..Len(Relations)} /\ e.from \in Nat /\ e.to \in Nat
    BY DEF Edge
  <2>2. Place(e.relation) \in 1..Len(Relations)
    BY <2>1 DEF Place
  <2>3. Len(Relations) = 6
    BY DEF Relations
  <2> QED BY <2>1, <2>2, <2>3
<1>2. PICK p \in places : \A q \in places : p <= q
  <2>1. places \subseteq Nat /\ places # {}
    BY <1>1
  <2> HIDE DEF places
  <2> QED BY <2>1, LeastElement
<1> DEFINE lowest == {e \in some : Place(e.relation) = p}
           froms == {e.from : e \in lowest}
<1>3. PICK f \in froms : \A g \in froms : f <= g
  <2>1. froms \subseteq Nat /\ froms # {}
    BY <1>1, <1>2
  <2> HIDE DEF froms
  <2> QED BY <2>1, LeastElement
<1> DEFINE tos == {e.to : e \in {o \in lowest : o.from = f}}
<1>4. PICK t \in tos : \A u \in tos : t <= u
  <2>1. tos \subseteq Nat /\ tos # {}
    BY <1>1, <1>3
  <2> HIDE DEF tos
  <2> QED BY <2>1, LeastElement
<1>5. PICK e \in some : Place(e.relation) = p /\ e.from = f /\ e.to = t
  BY <1>4
<1>6. ASSUME NEW o \in some, Before(o, e)
      PROVE  FALSE
  <2>1. /\ Place(o.relation) \in Nat /\ o.from \in Nat /\ o.to \in Nat
        /\ p \in Nat /\ f \in Nat /\ t \in Nat /\ p <= Place(o.relation)
    BY <1>1, <1>2, <1>5
  <2>2. ~(Place(o.relation) < p)
    BY <2>1
  <2>3. o.relation = e.relation => o \in lowest /\ f <= o.from
    BY <1>3, <1>5
  <2>4. o.relation = e.relation /\ o.from = f => t <= o.to
    BY <1>4, <2>3
  <2> QED BY <1>5, <1>6, <2>1, <2>2, <2>3, <2>4 DEF Before
<1> QED BY <1>5, <1>6

LEMMA BeforeStrict ==
  ASSUME NEW e \in Edge
  PROVE  ~Before(e, e)
<1>1. PICK p : p = Place(e.relation)
  OBVIOUS
<1>2. p \in Nat
  <2>1. e.relation \in {Relations[n] : n \in 1..Len(Relations)}
    BY DEF Edge
  <2>2. Place(e.relation) \in 1..Len(Relations)
    BY <2>1 DEF Place
  <2>3. Len(Relations) = 6
    BY DEF Relations
  <2> QED BY <1>1, <2>2, <2>3
<1>3. e.from \in Nat /\ e.to \in Nat
  BY DEF Edge
<1> QED BY <1>1, <1>2, <1>3 DEF Before

\* A query that returns no more than its limit returns every row.
LEMMA RowsWhole ==
  ASSUME NEW incident, incident \subseteq Edge, IsFiniteSet(incident), NEW limit \in Nat,
         NEW rows, rows = {e \in incident : Cardinality({o \in incident : Before(o, e)}) <= limit},
         Cardinality(rows) <= limit
  PROVE  rows = incident
<1> SUFFICES ASSUME incident \ rows # {} PROVE FALSE
  OBVIOUS
<1>1. PICK e \in incident \ rows : \A o \in incident \ rows : ~Before(o, e)
  <2>1. PICK left : left = incident \ rows /\ left \subseteq Edge /\ left # {}
    OBVIOUS
  <2> QED BY <2>1, FirstEdge
<1>2. PICK above : above = {o \in incident : Before(o, e)}
  OBVIOUS
<1>3. above \subseteq rows /\ ~(Cardinality(above) <= limit)
  BY <1>1, <1>2
<1>4. rows \subseteq incident
  OBVIOUS
<1>5. IsFiniteSet(rows)
  BY <1>4, FS_Subset
<1>6. Cardinality(above) <= Cardinality(rows) /\ Cardinality(above) \in Nat /\ Cardinality(rows) \in Nat
  BY <1>3, <1>5, FS_Subset, FS_CardinalityType
<1> QED BY <1>3, <1>6

\* A reader that stops at limit known edges, and knows fewer, has read every row.
LEMMA ReadWhole ==
  ASSUME NEW rows, rows \subseteq Edge, IsFiniteSet(rows), NEW known, IsFiniteSet(known), NEW limit \in Nat,
         NEW read, read = {e \in rows : {o \in rows : Before(o, e)} = {} \/ Cardinality(known \cup {o \in rows : Before(o, e)}) < limit},
         Cardinality(known \cup read) < limit
  PROVE  read = rows
<1> SUFFICES ASSUME rows \ read # {} PROVE FALSE
  OBVIOUS
<1>1. PICK e \in rows \ read : \A o \in rows \ read : ~Before(o, e)
  <2>1. PICK left : left = rows \ read /\ left \subseteq Edge /\ left # {}
    OBVIOUS
  <2> QED BY <2>1, FirstEdge
<1>2. PICK above : above = {o \in rows : Before(o, e)}
  OBVIOUS
<1>3. above \subseteq read /\ ~(Cardinality(known \cup above) < limit)
  BY <1>1, <1>2
<1>4. read \subseteq rows /\ known \cup above \subseteq known \cup read
  BY <1>3
<1>5. IsFiniteSet(read)
  BY <1>4, FS_Subset
<1>6. IsFiniteSet(known \cup read)
  BY <1>5, FS_Union
<1>7. /\ Cardinality(known \cup above) <= Cardinality(known \cup read)
      /\ Cardinality(known \cup above) \in Nat /\ Cardinality(known \cup read) \in Nat
  BY <1>4, <1>6, FS_Subset, FS_CardinalityType
<1> QED BY <1>3, <1>7

\* Every edge with an end among nodes brings at most one node.
LEMMA NodesBound ==
  ASSUME NEW nodes, IsFiniteSet(nodes), NEW some, IsFiniteSet(some),
         \A e \in some : e.from \in nodes \/ e.to \in nodes
  PROVE  /\ IsFiniteSet(nodes \cup Ends(some))
         /\ Cardinality(nodes \cup Ends(some)) <= Cardinality(nodes) + Cardinality(some)
<1> DEFINE other == [e \in some |-> IF e.from \in nodes THEN e.to ELSE e.from]
           outward == {e \in some : other[e] \notin nodes}
           fresh == Ends(some) \ nodes
           f == [e \in outward |-> other[e]]
<1>1. f \in [outward -> fresh]
  BY DEF Ends
<1>2. \A n \in fresh : \E e \in outward : f[e] = n
  BY DEF Ends
<1>3. f \in Surjection(outward, fresh)
  BY <1>1, <1>2 DEF Surjection
<1>4. outward \subseteq some
  OBVIOUS
<1>5. nodes \cup Ends(some) = nodes \cup fresh /\ nodes \cap fresh = {}
  OBVIOUS
<1> HIDE DEF f, outward, other, fresh
<1>6. IsFiniteSet(outward) /\ Cardinality(outward) <= Cardinality(some)
  BY <1>4, FS_Subset
<1>7. IsFiniteSet(fresh) /\ Cardinality(fresh) <= Cardinality(outward)
  BY <1>3, <1>6, FS_Surjection
<1>8. IsFiniteSet(nodes \cup fresh) /\ Cardinality(nodes \cup fresh) = Cardinality(nodes) + Cardinality(fresh) - Cardinality(nodes \cap fresh)
  BY <1>7, FS_Union
<1>9. Cardinality({}) = 0
  BY FS_EmptySet
<1>10. Cardinality(nodes) \in Nat /\ Cardinality(some) \in Nat /\ Cardinality(fresh) \in Nat /\ Cardinality(outward) \in Nat
  BY <1>6, <1>7, FS_CardinalityType
<1>11. Cardinality(nodes \cup fresh) = Cardinality(nodes) + Cardinality(fresh)
  <2>1. Cardinality(nodes \cap fresh) = 0
    BY <1>5, <1>9, Zenon
  <2> QED BY <1>8, <1>10, <2>1
<1>12. Cardinality(nodes) + Cardinality(fresh) <= Cardinality(nodes) + Cardinality(some)
  BY <1>6, <1>7, <1>10
<1> QED BY <1>5, <1>8, <1>11, <1>12

\* What a traversal that is not truncated knows: every edge of the nodes it has
\* looked at, and a node for every edge at most, besides its root.
Walked(walk, root) ==
  /\ walk.edges \subseteq edges
  /\ ~walk.truncated =>
       /\ walk.nodes = {root} \cup Ends(walk.edges) /\ walk.frontier \subseteq walk.nodes
       /\ Cardinality(walk.nodes) <= Cardinality(walk.edges) + 1
       /\ \A e \in edges : {e.from, e.to} \cap (walk.nodes \ walk.frontier) # {} => e \in walk.edges

LEMMA EndsFinite ==
  ASSUME NEW some, IsFiniteSet(some), NEW root
  PROVE  IsFiniteSet({root} \cup Ends(some))
<1> DEFINE froms == {e.from : e \in some}
           tos == {e.to : e \in some}
           f == [e \in some |-> e.from]
           g == [e \in some |-> e.to]
<1>1. f \in Surjection(some, froms) /\ g \in Surjection(some, tos)
  BY DEF Surjection
<1>2. {root} \cup Ends(some) = ({root} \cup froms) \cup tos
  BY DEF Ends
<1> HIDE DEF f, g, froms, tos
<1>3. IsFiniteSet(froms) /\ IsFiniteSet(tos)
  BY <1>1, FS_Surjection
<1>4. IsFiniteSet({root})
  BY FS_Singleton
<1>5. IsFiniteSet({root} \cup froms)
  BY <1>3, <1>4, FS_Union
<1>6. IsFiniteSet(({root} \cup froms) \cup tos)
  BY <1>3, <1>5, FS_Union
<1> QED BY <1>2, <1>6

LEMMA HopStep ==
  ASSUME EdgesSound, NEW root, NEW limit \in Nat, NEW walk, Walked(walk, root), NEW after, after = Hop(walk, limit)
  PROVE  Walked(after, root)
<1> DEFINE incident == {e \in edges : e.from \in walk.frontier \/ e.to \in walk.frontier}
           rows == {e \in incident : Cardinality({o \in incident : Before(o, e)}) <= limit}
           Above(e, some) == {o \in some : Before(o, e)}
           read == {e \in rows : Above(e, rows) = {} \/ Cardinality(walk.edges \cup Above(e, rows)) < limit}
           new == read \ walk.edges
           next == Ends({e \in new : Cardinality(walk.nodes \cup Ends(Above(e, new))) < limit}) \ walk.nodes
<1>1. after = [edges |-> walk.edges \cup new, nodes |-> walk.nodes \cup next, frontier |-> next,
               truncated |-> \/ walk.truncated
                             \/ Cardinality(walk.edges \cup read) >= limit
                             \/ Cardinality(rows) > limit]
  BY Zenon DEF Hop
<1>2. incident \subseteq edges /\ rows \subseteq incident /\ read \subseteq rows /\ new \subseteq read
  OBVIOUS
<1>3. walk.edges \subseteq edges
  BY DEF Walked
<1>4. rows = {e \in incident : Cardinality({o \in incident : Before(o, e)}) <= limit}
  OBVIOUS
<1>5. read = {e \in rows : {o \in rows : Before(o, e)} = {} \/ Cardinality(walk.edges \cup {o \in rows : Before(o, e)}) < limit}
  OBVIOUS
<1>6. next = Ends({e \in new : Cardinality(walk.nodes \cup Ends({o \in new : Before(o, e)})) < limit}) \ walk.nodes
  OBVIOUS
<1>7. incident = {e \in edges : e.from \in walk.frontier \/ e.to \in walk.frontier} /\ new = read \ walk.edges
  OBVIOUS
<1> HIDE DEF incident, rows, read, new, next, Above
<1>8. after.edges = walk.edges \cup new /\ after.nodes = walk.nodes \cup next /\ after.frontier = next
  BY <1>1
<1>9. ~after.truncated => ~walk.truncated /\ ~(Cardinality(walk.edges \cup read) >= limit) /\ ~(Cardinality(rows) > limit)
  <2>1. after.truncated = (\/ walk.truncated
                           \/ Cardinality(walk.edges \cup read) >= limit
                           \/ Cardinality(rows) > limit)
    BY <1>1
  <2> QED BY <2>1, Zenon
<1>10. after.edges \subseteq edges
  BY <1>2, <1>3, <1>8
<1>11. ASSUME ~after.truncated
       PROVE  /\ after.nodes = {root} \cup Ends(after.edges) /\ after.frontier \subseteq after.nodes
              /\ Cardinality(after.nodes) <= Cardinality(after.edges) + 1
              /\ \A e \in edges : {e.from, e.to} \cap (after.nodes \ after.frontier) # {} => e \in after.edges
  <2>1. ~walk.truncated /\ ~(Cardinality(walk.edges \cup read) >= limit) /\ ~(Cardinality(rows) > limit)
    BY <1>9, <1>11, Zenon
  <2>2. /\ walk.nodes = {root} \cup Ends(walk.edges) /\ walk.frontier \subseteq walk.nodes
        /\ Cardinality(walk.nodes) <= Cardinality(walk.edges) + 1
        /\ \A e \in edges : {e.from, e.to} \cap (walk.nodes \ walk.frontier) # {} => e \in walk.edges
    BY <2>1, Zenon DEF Walked
  <2>3. edges \subseteq Edge /\ IsFiniteSet(edges)
    BY DEF EdgesSound
  <2>4. /\ IsFiniteSet(incident) /\ IsFiniteSet(rows) /\ IsFiniteSet(read) /\ IsFiniteSet(new) /\ IsFiniteSet(walk.edges)
        /\ IsFiniteSet(walk.edges \cup read) /\ walk.edges \cup read \subseteq edges
    <3>1. \A some \in SUBSET edges : IsFiniteSet(some)
      BY <2>3, FS_Subset
    <3>2. incident \in SUBSET edges /\ rows \in SUBSET edges /\ read \in SUBSET edges /\ new \in SUBSET edges
          /\ walk.edges \in SUBSET edges /\ walk.edges \cup read \in SUBSET edges
      BY <1>2, <1>3
    <3> QED BY <3>1, <3>2
  <2>5. Cardinality(rows) \in Nat /\ Cardinality(walk.edges \cup read) \in Nat /\ Cardinality(walk.edges) \in Nat
    BY <2>4, FS_CardinalityType
  <2>6. Cardinality(walk.edges \cup read) < limit /\ Cardinality(rows) <= limit
    BY <2>1, <2>5
  <2>7. rows = incident
    BY <1>2, <1>4, <2>3, <2>4, <2>6, RowsWhole
  <2>8. read = rows
    <3>1. rows \subseteq Edge
      BY <1>2, <2>3
    <3>2. PICK known : known = walk.edges
      OBVIOUS
    <3> QED BY <1>5, <2>4, <2>6, <3>1, <3>2, ReadWhole
  <2>9. new = incident \ walk.edges
    BY <1>7, <2>7, <2>8
  <2>10. IsFiniteSet(walk.nodes)
    BY <2>2, <2>4, EndsFinite
  <2>11. Cardinality(walk.nodes) \in Nat
    BY <2>10, FS_CardinalityType
  <2>12. ASSUME NEW some, some \subseteq new
         PROVE  /\ Cardinality(walk.edges \cup some) = Cardinality(walk.edges) + Cardinality(some)
                /\ Cardinality(walk.nodes \cup Ends(some)) <= Cardinality(walk.edges \cup some) + 1
                /\ IsFiniteSet(walk.edges \cup some) /\ Cardinality(walk.edges \cup some) \in Nat
                /\ Cardinality(walk.nodes \cup Ends(some)) \in Nat
    <3>1. IsFiniteSet(some)
      BY <2>4, <2>12, FS_Subset
    <3>2. walk.edges \cap some = {}
      BY <2>9, <2>12
    <3>3. /\ IsFiniteSet(walk.edges \cup some)
          /\ Cardinality(walk.edges \cup some) = Cardinality(walk.edges) + Cardinality(some) - Cardinality(walk.edges \cap some)
      BY <2>4, <3>1, FS_Union
    <3>4. Cardinality(some) \in Nat /\ Cardinality({}) = 0 /\ Cardinality(walk.edges \cup some) \in Nat
      BY <3>1, <3>3, FS_EmptySet, FS_CardinalityType
    <3>5. Cardinality(walk.edges \cup some) = Cardinality(walk.edges) + Cardinality(some)
      BY <2>5, <3>2, <3>3, <3>4
    <3>6. \A e \in some : e.from \in walk.nodes \/ e.to \in walk.nodes
      BY <1>7, <2>2, <2>9, <2>12
    <3>7. /\ IsFiniteSet(walk.nodes \cup Ends(some))
          /\ Cardinality(walk.nodes \cup Ends(some)) <= Cardinality(walk.nodes) + Cardinality(some)
      BY <2>10, <3>1, <3>6, NodesBound
    <3>8. Cardinality(walk.nodes \cup Ends(some)) \in Nat
      BY <3>7, FS_CardinalityType
    <3>9. Cardinality(walk.nodes \cup Ends(some)) <= Cardinality(walk.edges \cup some) + 1
      BY <2>2, <2>5, <2>11, <3>4, <3>5, <3>7, <3>8
    <3> QED BY <3>3, <3>4, <3>5, <3>8, <3>9
  <2>13. \A e \in new : Cardinality(walk.nodes \cup Ends({o \in new : Before(o, e)})) < limit
    <3> SUFFICES ASSUME NEW e \in new PROVE Cardinality(walk.nodes \cup Ends({o \in new : Before(o, e)})) < limit
      OBVIOUS
    <3>1. PICK above : above = {o \in new : Before(o, e)}
      OBVIOUS
    <3>2. above \subseteq new /\ e \notin above /\ e \notin walk.edges
      BY <1>2, <2>3, <2>9, <3>1, BeforeStrict
    <3>3. /\ Cardinality(walk.nodes \cup Ends(above)) <= Cardinality(walk.edges \cup above) + 1
          /\ IsFiniteSet(walk.edges \cup above) /\ Cardinality(walk.edges \cup above) \in Nat
          /\ Cardinality(walk.nodes \cup Ends(above)) \in Nat
      BY <2>12, <3>2
    <3>4. Cardinality((walk.edges \cup above) \cup {e}) = Cardinality(walk.edges \cup above) + 1
      BY <3>2, <3>3, FS_AddElement
    <3>5. (walk.edges \cup above) \cup {e} \subseteq walk.edges \cup read
      BY <1>2, <3>2
    <3>6. Cardinality((walk.edges \cup above) \cup {e}) <= Cardinality(walk.edges \cup read)
      BY <2>4, <3>5, FS_Subset
    <3>7. Cardinality(walk.nodes \cup Ends(above)) < limit
      BY <2>5, <2>6, <3>3, <3>4, <3>6
    <3> QED BY <3>1, <3>7
  <2>14. next = Ends(new) \ walk.nodes
    <3>1. {e \in new : Cardinality(walk.nodes \cup Ends({o \in new : Before(o, e)})) < limit} = new
      BY <2>13
    <3> QED BY <1>6, <3>1
  <2>15. after.nodes = walk.nodes \cup Ends(new) /\ after.nodes = {root} \cup Ends(after.edges)
    <3>1. Ends(walk.edges \cup new) = Ends(walk.edges) \cup Ends(new)
      BY DEF Ends
    <3> QED BY <1>8, <2>2, <2>14, <3>1
  <2>16. Cardinality(after.nodes) <= Cardinality(after.edges) + 1
    BY <1>8, <2>12, <2>15
  <2>17. after.nodes \ after.frontier = walk.nodes
    BY <1>8, <2>14
  <2>18. \A e \in edges : {e.from, e.to} \cap walk.nodes # {} => e \in after.edges
    BY <1>7, <1>8, <2>2, <2>9
  <2> QED BY <1>8, <2>15, <2>16, <2>17, <2>18
<1> QED BY <1>10, <1>11, Zenon DEF Walked

\* The hops of a traversal.
Walks(walk, root, depth, limit) ==
  walk = [d \in 0..depth |->
            IF d = 0 THEN [edges |-> {}, nodes |-> {root}, frontier |-> {root}, truncated |-> FALSE]
            ELSE IF walk[d - 1].frontier = {} THEN walk[d - 1]
            ELSE Hop(walk[d - 1], limit)]

LEMMA WalksExist ==
  ASSUME NEW root, NEW depth \in Nat, NEW limit
  PROVE  \E walk : /\ Walks(walk, root, depth, limit)
                   /\ Traversed(root, depth, limit) = [edges |-> walk[depth].edges, truncated |-> Ended(walk[depth])]
<1> DEFINE First0 == [edges |-> {}, nodes |-> {root}, frontier |-> {root}, truncated |-> FALSE]
           After(w) == IF w.frontier = {} THEN w ELSE Hop(w, limit)
           UpTo(f, k) == f = [d \in 0..k |-> IF d = 0 THEN First0 ELSE After(f[d - 1])]
           G == {k \in Nat : \E f : UpTo(f, k)}
<1>1. 0 \in G
  <2> DEFINE f == [d \in 0..0 |-> First0]
  <2>1. UpTo(f, 0)
    <3> HIDE DEF After, First0
    <3> QED OBVIOUS
  <2> QED BY <2>1
<1>2. ASSUME NEW k \in Nat, k \in G
      PROVE  k + 1 \in G
  <2>1. PICK f : UpTo(f, k)
    BY <1>2
  <2> DEFINE g == [d \in 0..k + 1 |-> IF d = k + 1 THEN After(f[k]) ELSE f[d]]
  <2> HIDE DEF After, First0
  <2>2. \A d \in 0..k + 1 : g[d] = IF d = 0 THEN First0 ELSE After(g[d - 1])
    <3> SUFFICES ASSUME NEW d \in 0..k + 1
                 PROVE  g[d] = IF d = 0 THEN First0 ELSE After(g[d - 1])
      OBVIOUS
    <3>1. CASE d = k + 1
      <4>1. d # 0 /\ d - 1 = k /\ k \in 0..k + 1 /\ k # k + 1
        BY <3>1
      <4>2. g[d - 1] = f[k]
        BY <4>1
      <4> QED BY <3>1, <4>1, <4>2
    <3>2. CASE d # k + 1 /\ d # 0
      <4>1. d \in 0..k /\ d - 1 \in 0..k + 1 /\ d - 1 # k + 1 /\ d - 1 \in 0..k
        BY <3>2
      <4>2. g[d] = f[d] /\ g[d - 1] = f[d - 1]
        BY <3>2, <4>1
      <4>3. f[d] = After(f[d - 1])
        BY <2>1, <3>2, <4>1
      <4> QED BY <3>2, <4>2, <4>3
    <3>3. CASE d = 0
      <4>1. 0 # k + 1 /\ 0 \in 0..k + 1 /\ 0 \in 0..k
        OBVIOUS
      <4>2. g[0] = f[0] /\ f[0] = First0
        BY <2>1, <4>1
      <4> QED BY <3>3, <4>2
    <3> QED BY <3>1, <3>2, <3>3
  <2>3. UpTo(g, k + 1)
    BY <2>2
  <2> HIDE DEF g, UpTo
  <2> QED BY <2>3
<1>3. depth \in G
  <2> HIDE DEF G
  <2> QED BY <1>1, <1>2, FromZero
<1>4. \E walk : Walks(walk, root, depth, limit)
  BY <1>3, Zenon DEF Walks
<1> DEFINE walk == CHOOSE f : Walks(f, root, depth, limit)
<1>5. Walks(walk, root, depth, limit)
  BY <1>4, Zenon
<1>6. Traversed(root, depth, limit) = [edges |-> walk[depth].edges, truncated |-> Ended(walk[depth])]
  BY Zenon DEF Traversed, Walks
<1> HIDE DEF walk
<1> QED BY <1>5, <1>6, Zenon

\* What a traversal returns: unless it is truncated, every edge of its nodes.
LEMMA TraversalWhole ==
  ASSUME EdgesSound, NEW root, NEW depth \in Nat, NEW limit \in Nat, NEW shown, shown = Traversed(root, depth, limit),
         ~shown.truncated
  PROVE  \A e \in edges : {e.from, e.to} \cap ({root} \cup Ends(shown.edges)) # {} => e \in shown.edges
<1>1. PICK walk : /\ Walks(walk, root, depth, limit)
                  /\ shown = [edges |-> walk[depth].edges, truncated |-> Ended(walk[depth])]
  BY WalksExist
<1> DEFINE G == {d \in Nat : d <= depth => Walked(walk[d], root)}
<1>2. 0 \in G
  <2>1. PICK w : w = walk[0]
    OBVIOUS
  <2>2. w.edges = {} /\ w.nodes = {root} /\ w.frontier = {root}
    BY <1>1, <2>1 DEF Walks
  <2>3. Cardinality({root}) = 1 /\ Cardinality({}) = 0
    BY FS_Singleton, FS_EmptySet
  <2>4. /\ w.edges \subseteq edges
        /\ w.nodes = {root} \cup Ends(w.edges) /\ w.frontier \subseteq w.nodes
        /\ \A e \in edges : {e.from, e.to} \cap (w.nodes \ w.frontier) # {} => e \in w.edges
    BY <2>2 DEF Ends
  <2>5. Cardinality(w.nodes) <= Cardinality(w.edges) + 1
    BY <2>2, <2>3
  <2>6. Walked(w, root)
    BY <2>4, <2>5, Zenon DEF Walked
  <2> QED BY <2>1, <2>6
<1>3. ASSUME NEW d \in Nat, d \in G
      PROVE  d + 1 \in G
  <2> SUFFICES ASSUME d + 1 <= depth PROVE Walked(walk[d + 1], root)
    OBVIOUS
  <2>1. d + 1 \in 0..depth /\ d + 1 # 0 /\ (d + 1) - 1 = d /\ Walked(walk[d], root)
    BY <1>3
  <2>2. PICK w, after : w = walk[d] /\ after = walk[d + 1]
    OBVIOUS
  <2>3. after = IF w.frontier = {} THEN w ELSE Hop(w, limit)
    BY <1>1, <2>1, <2>2 DEF Walks
  <2>4. Walked(after, root)
    <3>1. CASE w.frontier = {}
      BY <2>1, <2>2, <2>3, <3>1
    <3>2. CASE w.frontier # {}
      BY <2>1, <2>2, <2>3, <3>2, HopStep
    <3> QED BY <3>1, <3>2
  <2> QED BY <2>2, <2>4
<1>4. depth \in G
  <2> HIDE DEF G
  <2> QED BY <1>2, <1>3, FromZero
<1>5. PICK w : w = walk[depth] /\ Walked(w, root)
  BY <1>4
<1>6. shown.edges = w.edges /\ shown.truncated = Ended(w)
  BY <1>1, <1>5
<1>7. ~w.truncated /\ w.frontier = {}
  BY <1>6, Zenon DEF Ended
<1>8. /\ w.nodes = {root} \cup Ends(w.edges)
      /\ \A e \in edges : {e.from, e.to} \cap (w.nodes \ w.frontier) # {} => e \in w.edges
  BY <1>5, <1>7, Zenon DEF Walked
<1> QED BY <1>6, <1>7, <1>8

\* A disclosure keeps to its budget, and says so when it leaves something out.
LEMMA DisclosureSound ==
  ASSUME RecordsSound, EdgesSound
  PROVE  DisclosureHonest
<1> SUFFICES ASSUME NEW id \in Ids, NEW request \in Requests, NEW shown, shown = Disclosed(id, request)
             PROVE  LET nodes == {id} \cup Ends(shown.edges)
                        size == evidence[id].size
                    IN /\ shown.gist + shown.detail + shown.raw <= request.bytes
                       /\ ~shown.truncated =>
                            /\ shown.gist = size.gist
                            /\ request.level # "gist" => shown.detail = size.detail
                            /\ request.level = "raw" => shown.raw = size.raw
                            /\ shown.successors = Successors(id)
                            /\ \A e \in edges : e.from \in nodes \/ e.to \in nodes => e \in shown.edges
  BY Zenon DEF DisclosureHonest
<1>1. PICK size : size = evidence[id].size
  OBVIOUS
<1>2. size.gist \in Nat /\ size.detail \in Nat /\ size.raw \in Nat
  <2>1. PICK input \in Records : \E raw : evidence[id] = RecordOf(input, raw)
    BY IdFacts DEF Recorded
  <2>2. size = input.size
    BY <1>1, <2>1 DEF RecordOf
  <2>3. input.size \in [gist : Nat \ {0}, detail : Nat, raw : Nat \ {0}]
    BY EvidenceAssumption DEF Normalized
  <2> QED BY <2>2, <2>3
<1>3. request.depth \in Nat /\ request.nodes \in Nat /\ request.bytes \in Nat
  BY EvidenceAssumption DEF DisclosureRequest
<1> DEFINE walk == Traversed(id, request.depth, request.nodes)
           gist == Fitted(size.gist, request.bytes)
           detail == IF request.level = "gist" THEN 0 ELSE Fitted(size.detail, request.bytes - gist)
           raw == IF request.level = "raw" /\ size.raw <= request.bytes - gist - detail THEN size.raw ELSE 0
           some == {n \in Successors(id) : Cardinality({o \in Successors(id) : o < n}) < request.nodes}
<1>4. shown = [gist |-> gist, detail |-> detail, raw |-> raw, edges |-> walk.edges, successors |-> some,
               truncated |-> \/ walk.truncated
                             \/ Cardinality(Successors(id)) > request.nodes
                             \/ Cardinality(Contradictions(id)) > request.nodes
                             \/ gist < size.gist
                             \/ request.level # "gist" /\ detail < size.detail
                             \/ request.level = "raw" /\ raw < size.raw]
  BY <1>1, Zenon DEF Disclosed
<1>5. /\ gist \in Nat /\ gist <= request.bytes /\ gist <= size.gist
  BY <1>2, <1>3 DEF Fitted
<1>6. /\ detail \in Nat /\ detail <= request.bytes - gist /\ (request.level # "gist" => detail <= size.detail)
  BY <1>2, <1>3, <1>5 DEF Fitted
<1>7. raw \in Nat /\ raw <= request.bytes - gist - detail /\ (request.level = "raw" => raw <= size.raw)
  BY <1>2, <1>3, <1>5, <1>6
<1>8. gist + detail + raw <= request.bytes
  BY <1>3, <1>5, <1>6, <1>7
<1>9. Cardinality(Successors(id)) <= request.nodes => some = Successors(id)
  <2> SUFFICES ASSUME Cardinality(Successors(id)) <= request.nodes, NEW n \in Successors(id)
               PROVE  Cardinality({o \in Successors(id) : o < n}) < request.nodes
    BY Zenon
  <2>1. PICK all, lower : all = Successors(id) /\ lower = {o \in all : o < n}
    OBVIOUS
  <2>2. IsFiniteSet(all) /\ n \in Nat /\ n \in all
    <3>1. all \subseteq Ids /\ Ids \subseteq Nat
      BY <2>1, IdFacts DEF Successors
    <3> QED BY <2>1, <3>1, IdFacts, FS_Subset
  <2>3. lower \subseteq all /\ n \notin lower
    BY <2>1, <2>2
  <2>4. Cardinality(lower) <= Cardinality(all) /\ (Cardinality(lower) = Cardinality(all) => lower = all) /\ IsFiniteSet(lower)
    BY <2>2, <2>3, FS_Subset
  <2>5. Cardinality(lower) \in Nat /\ Cardinality(all) \in Nat
    BY <2>2, <2>4, FS_CardinalityType
  <2>6. Cardinality(lower) < Cardinality(all) /\ Cardinality(all) <= request.nodes
    BY <2>1, <2>2, <2>3, <2>4, <2>5
  <2>7. Cardinality(lower) < request.nodes
    BY <1>3, <2>5, <2>6
  <2> QED BY <2>1, <2>7, Zenon
<1>10. Cardinality(Successors(id)) \in Nat
  <2>1. Successors(id) \subseteq Ids
    BY DEF Successors
  <2> QED BY <2>1, IdFacts, FS_Subset, FS_CardinalityType
<1>11. PICK traversed : traversed = walk
  OBVIOUS
<1>12. ~traversed.truncated =>
         \A e \in edges : {e.from, e.to} \cap ({id} \cup Ends(traversed.edges)) # {} => e \in traversed.edges
  BY <1>3, <1>11, TraversalWhole
<1> HIDE DEF walk, gist, detail, raw, some
<1>13. /\ shown.gist = gist /\ shown.detail = detail /\ shown.raw = raw /\ shown.edges = traversed.edges
       /\ shown.successors = some
  BY <1>4, <1>11
<1>14. ~shown.truncated =>
         /\ ~traversed.truncated /\ ~(Cardinality(Successors(id)) > request.nodes) /\ ~(gist < size.gist)
         /\ request.level # "gist" => ~(detail < size.detail)
         /\ request.level = "raw" => ~(raw < size.raw)
  <2>1. shown.truncated = (\/ walk.truncated
                           \/ Cardinality(Successors(id)) > request.nodes
                           \/ Cardinality(Contradictions(id)) > request.nodes
                           \/ gist < size.gist
                           \/ request.level # "gist" /\ detail < size.detail
                           \/ request.level = "raw" /\ raw < size.raw)
    BY <1>4
  <2> QED BY <1>11, <2>1, Zenon
<1>15. ASSUME ~shown.truncated
       PROVE  /\ shown.gist = size.gist
              /\ request.level # "gist" => shown.detail = size.detail
              /\ request.level = "raw" => shown.raw = size.raw
              /\ shown.successors = Successors(id)
              /\ \A e \in edges : e.from \in {id} \cup Ends(shown.edges) \/ e.to \in {id} \cup Ends(shown.edges) => e \in shown.edges
  <2>1. /\ ~traversed.truncated /\ ~(Cardinality(Successors(id)) > request.nodes) /\ ~(gist < size.gist)
        /\ request.level # "gist" => ~(detail < size.detail)
        /\ request.level = "raw" => ~(raw < size.raw)
    BY <1>14, <1>15, Zenon
  <2>2. shown.gist = size.gist
    BY <1>2, <1>5, <1>13, <2>1
  <2>3. request.level # "gist" => shown.detail = size.detail
    BY <1>2, <1>6, <1>13, <2>1
  <2>4. request.level = "raw" => shown.raw = size.raw
    BY <1>2, <1>7, <1>13, <2>1
  <2>5. shown.successors = Successors(id)
    BY <1>3, <1>9, <1>10, <1>13, <2>1
  <2>6. \A e \in edges : {e.from, e.to} \cap ({id} \cup Ends(shown.edges)) # {} => e \in shown.edges
    BY <1>12, <1>13, <2>1, Zenon
  <2>7. \A e \in edges : e.from \in {id} \cup Ends(shown.edges) \/ e.to \in {id} \cup Ends(shown.edges) => e \in shown.edges
    BY <2>6
  <2> QED BY <2>2, <2>3, <2>4, <2>5, <2>7
<1>16. shown.gist + shown.detail + shown.raw <= request.bytes
  BY <1>8, <1>13
<1> QED BY <1>1, <1>15, <1>16, Zenon

LEMMA LineageFromInv ==
  ASSUME EvidenceInv, AuthorityInv
  PROVE  LineageHolds
<1>1. EvidenceTypeOK
  <2>1. \A id \in Ids : evidence[id].artifact \in Rows \cup {None}
    BY DEF EvidenceInv, RecordsSound, PayloadSound
  <2> QED BY <2>1 DEF EvidenceTypeOK, Ends, EvidenceInv, EdgesSound
<1>2. Acyclic
  <2> SUFFICES ASSUME NEW e \in edges, e.relation = "supersedes" PROVE ~Cycle(e)
    BY DEF Acyclic
  <2>1. e.to \in Ids /\ Apart(e)
    BY DEF EvidenceInv, EdgesSound
  <2> QED BY <2>1, CycleApart DEF EvidenceInv
<1>3. \A id \in Ids : evidence[id].artifact # None =>
        /\ artifact[evidence[id].artifact].content = evidence[id].hash
        /\ WithAuthorityOnly(evidence[id].artifact) => artifact[evidence[id].artifact].chunks # "none"
        /\ \E ref \in refs : ref.artifact = evidence[id].artifact /\ ref.source = evidence[id].identity
  <2> SUFFICES ASSUME NEW id \in Ids, NEW record, record = evidence[id], record.artifact # None
               PROVE  /\ artifact[record.artifact].content = record.hash
                      /\ WithAuthorityOnly(record.artifact) => artifact[record.artifact].chunks # "none"
                      /\ \E ref \in refs : ref.artifact = record.artifact /\ ref.source = record.identity
    OBVIOUS
  <2>1. /\ record.artifact \in Rows /\ artifact[record.artifact].content = record.hash
        /\ \E ref \in refs : ref.artifact = record.artifact /\ ref.source = record.identity
    BY DEF EvidenceInv, RecordsSound, PayloadSound
  <2>2. WithAuthorityOnly(record.artifact) => artifact[record.artifact].chunks # "none"
    BY <2>1 DEF AuthorityInv, AuthoritySound, AuthorityOnly, WithAuthorityOnly, Database, Rows
  <2> QED BY <2>1, <2>2
<1>4. DisclosureHonest
  BY DisclosureSound DEF EvidenceInv
<1> QED BY <1>1, <1>2, <1>3, <1>4 DEF LineageHolds, EvidenceInv, RecordsSound

\* Sweeps that name no time begin by the clock.
LEMMA SweepsBegin ==
  ASSUME Named = {}, ArtifactsInv, sweep # None => sweep.time <= now, [EvidenceNext]_<<vars, evidenceVars>>
  PROVE  sweep' # None => sweep'.time <= now'
<1>1. now \in Nat /\ (sweep # None => sweep.time \in Nat)
  BY InvFacts DEF ArtifactsInv, TypeOK
<1>2. CASE [Next]_vars
  <2>1. CASE \E time \in Named \cup {now} : SweepSelect(time)
    BY <1>1, <2>1 DEF SweepSelect
  <2>2. CASE Tick
    BY <1>1, <2>2 DEF Tick
  <2>3. CASE SweepDelete
    BY <2>3 DEF SweepDelete
  <2>4. CASE UNCHANGED <<sweep, now>>
    BY <2>4
  <2> QED BY <1>2, <2>1, <2>2, <2>3, <2>4
          DEF Next, vars, Put, Backfill, Archive, Delete, Verify, Damage, VerifyBatch, SweepArchive
<1>3. CASE UNCHANGED <<sweep, now>>
  BY <1>3
<1> QED BY <1>2, <1>3 DEF EvidenceNext, PutEvidence, FindEdge, CheckCycle, InsertEdge, Abandon, vars

------------------------------------------------------------------------------
(* Theorems *)

\* The inductive invariant of evidence and its artifacts: the tables are sound, a
\* record's payload and its edge to its predecessor are there, and the ends of
\* every supersession, and of one about to be inserted, are apart.
THEOREM EvidenceInvariance == EvidenceSpec => []EvidenceInv
<1>1. EvidenceInit => EvidenceInv
  BY EvidenceStarts
<1>2. EvidenceInv /\ [EvidenceNext]_<<vars, evidenceVars>> => EvidenceInv'
  BY EvidenceStep
<1> QED BY <1>1, <1>2, PTL DEF EvidenceSpec

\* No record supersedes itself, directly or not, although two requests look for
\* cycles and insert their edges at the same time (AddEdge, supersessionCycleTx).
THEOREM SupersessionAcyclic == EvidenceSpec => []Acyclic
<1>1. EvidenceInv => Acyclic
  <2> SUFFICES ASSUME EvidenceInv, NEW e \in edges, e.relation = "supersedes" PROVE ~Cycle(e)
    BY DEF Acyclic
  <2>1. e.to \in Ids /\ Apart(e)
    BY DEF EvidenceInv, EdgesSound
  <2> QED BY <2>1, CycleApart DEF EvidenceInv
<1> QED BY <1>1, EvidenceInvariance, PTL

\* Every artifact has a reference; while all it has are with authority it has its
\* bytes, and a sweep that found it due found it referenced.
THEOREM AuthorityInvariance == EvidenceSpec => []AuthorityInv
<1>1. EvidenceInit => AuthorityInv
  BY EvidenceStarts
<1>2. EvidenceInv /\ AuthorityInv /\ [EvidenceNext]_<<vars, evidenceVars>> => AuthorityInv'
  BY EvidenceStep DEF RowsMove
<1> QED BY <1>1, <1>2, EvidenceInvariance, PTL DEF EvidenceSpec

\* "Authoritative references block deletion" (docs/40): sweeps by any time,
\* deletions, puts and backfills in any order lose nothing that is referenced with
\* authority only, and key and source identify a reference.
THEOREM ReferencesKept == EvidenceSpec => []ReferencedKept
<1>1. EvidenceInv /\ AuthorityInv => ReferencedKept
  BY KeptFromInv DEF EvidenceInv
<1> QED BY <1>1, EvidenceInvariance, AuthorityInvariance, PTL

\* An artifact is deleted only after it was archived and its deadlines passed at
\* the time that the request names, or by the clock; a reference with authority is
\* lost only to a sweep that selected before it came; and a tombstone stays
\* (Delete, RetentionSweep).
THEOREM DeletionEarned == EvidenceSpec => DeletionIsEarned
<1>1. ASSUME EvidenceInv, [EvidenceNext]_<<vars, evidenceVars>>, NEW id \in Rows
      PROVE  Earned(id, artifact'[id])
  BY <1>1, EvidenceStep DEF RowsMove
<1>2. EvidenceInv /\ [EvidenceNext]_<<vars, evidenceVars>> => \A id \in Rows : Earned(id, artifact'[id])
  BY <1>1
<1> QED BY <1>2, EvidenceInvariance, PTL DEF EvidenceSpec, DeletionIsEarned, Earned

\* "Deletion is allowed only after its deadline" (docs/40) by the clock too, as long
\* as no request names a time of its own (RetentionSweep's request.Now).
THEOREM DeletedByTheClock == ASSUME Named = {} PROVE EvidenceSpec => DeletedInTime
<1> DEFINE Begun == sweep # None => sweep.time <= now
<1>1. EvidenceInit => Begun
  BY DEF EvidenceInit, Init
<1>2. EvidenceInv /\ Begun /\ [EvidenceNext]_<<vars, evidenceVars>> => Begun'
  BY SweepsBegin DEF EvidenceInv
<1>3. EvidenceInv /\ Begun /\ [EvidenceNext]_<<vars, evidenceVars>> =>
        \A id \in Rows : artifact[id].status # "deleted" /\ artifact'[id].status = "deleted" =>
                         artifact[id].retention.delete <= now
  <2> SUFFICES ASSUME EvidenceInv, Begun, [EvidenceNext]_<<vars, evidenceVars>>, NEW id \in Rows,
                      artifact[id].status # "deleted", artifact'[id].status = "deleted"
               PROVE  artifact[id].retention.delete <= now
    OBVIOUS
  <2>1. Earned(id, artifact'[id])
    BY EvidenceStep DEF RowsMove
  <2>2. PICK deadline, time : deadline = artifact[id].retention.delete /\ time = StepTime /\ deadline <= time
    BY <2>1 DEF Earned
  <2>3. deadline \in Nat /\ now \in Nat
    BY <2>2, InvFacts, ConstantFacts DEF EvidenceInv, Row, Times
  <2>4. time \in Nat /\ time <= now
    BY <2>2, <2>3 DEF StepTime, BySweep, EvidenceInv, ArtifactsInv, TypeOK
  <2> QED BY <2>2, <2>3, <2>4
<1> HIDE DEF Begun
<1> QED BY <1>1, <1>2, <1>3, EvidenceInvariance, PTL DEF EvidenceSpec, DeletedInTime

\* The history of evidence stays whole: supersessions form no cycle, a record keeps
\* the edge to its predecessor and, while it is referred to with authority only,
\* its payload, an identity has one record, and a disclosure that is not marked as
\* truncated leaves nothing out (PutTx, AddEdge, Disclose).
THEOREM LineageKept == EvidenceSpec => []LineageHolds
<1>1. EvidenceInv /\ AuthorityInv => LineageHolds
  BY LineageFromInv
<1> QED BY <1>1, EvidenceInvariance, AuthorityInvariance, PTL
==============================================================================
