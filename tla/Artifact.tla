------------------------------- MODULE Artifact -------------------------------
(***************************************************************************)
(* internal/store/artifacts.go and artifact_ops.go: content-addressed      *)
(* artifacts, the references to them, their retention and integrity, and   *)
(* the backfill of outputs that are still inline.                          *)
(*                                                                         *)
(* Every operation is one transaction that locks the artifacts it writes,  *)
(* except that a retention sweep reads which artifacts are referenced      *)
(* before it has their locks: under READ COMMITTED the subquery of its     *)
(* select keeps the snapshot of the statement.  A sweep compares deadlines *)
(* with the time its request names, if that names one, and with the clock  *)
(* otherwise.                                                              *)
(***************************************************************************)
EXTENDS Naturals, Sequences, SequencesExt

CONSTANTS Contents,   \* bytes, each with its hash
          Labels,     \* kind, media type and manifest
          Inputs,     \* what is put
          Items,      \* outputs still inline, in cursor order: a sequence of inputs
          Batch,      \* rows per sweep, verification and backfill
          Named,      \* times that requests to sweep name
          MaxTime,    \* bound on the clock
          MaxDamage,  \* bound on the chunks that are lost
          None

VARIABLES artifact,  \* fornix.artifacts by id, with the state of its chunks
          refs,      \* fornix.artifact_refs
          inline,    \* positions of the items not yet linked to an artifact
          sweep,     \* what a waiting sweep found due and referenced, and its time
          now,       \* the clock
          damages    \* chunks lost so far

vars == <<artifact, refs, inline, sweep, now, damages>>

Never == MaxTime + 1
Times == 0..Never
Rows == DOMAIN artifact

\* What is put, as normalized; a source is kind, id and role.  Normalize refuses
\* deadlines out of order, but compares them pairwise.
ValidInput(i) ==
  /\ DOMAIN i = {"content", "label", "key", "source", "authoritative", "retention"}
  /\ i.content \in Contents /\ i.label \in Labels /\ i.authoritative \in BOOLEAN
  /\ i.retention \in [retain : Times, archive : Times, delete : Times, allow : BOOLEAN]
  /\ i.retention.retain # Never /\ i.retention.archive # Never => i.retention.archive >= i.retention.retain
  /\ i.retention.archive # Never /\ i.retention.delete # Never => i.retention.delete >= i.retention.archive

ASSUME ArtifactAssumption ==
  /\ Batch \in Nat \ {0} /\ MaxTime \in Nat /\ MaxDamage \in Nat /\ Named \subseteq Nat
  /\ \A i \in Inputs : ValidInput(i)
  /\ Len(Items) \in Nat
  /\ \A n \in 1..Len(Items) : ValidInput(Items[n]) /\ Items[n].authoritative

Init ==
  /\ artifact = <<>>
  /\ refs = {}
  /\ inline = 1..Len(Items)
  /\ sweep = None
  /\ now = 0
  /\ damages = 0

------------------------------------------------------------------------------
(* Putting content *)

NewArtifact(input) ==
  [content |-> input.content, label |-> input.label, retention |-> input.retention,
   status |-> "active", integrity |-> "valid", chunks |-> "whole"]

\* The reference's request hash covers the label; not the key, nor authority.
Reference(id, input) ==
  [artifact |-> id, key |-> input.key, source |-> input.source, label |-> input.label,
   authoritative |-> input.authoritative]

\* A content hash that is known must not be a tombstone, nor labelled otherwise.
Reusable(row, input) == row.status # "deleted" /\ row.label = input.label

\* The id input gets among rows.
IdIn(rows, input) ==
  LET known == {id \in DOMAIN rows : rows[id].content = input.content}
  IN IF known = {} THEN Len(rows) + 1 ELSE CHOOSE id \in known : TRUE

\* A key is answered with its reference if it asked for the same; a source has
\* one reference for a role.
RefAllowed(known, ref) ==
  \/ \E other \in known : /\ other.key = ref.key /\ other.artifact = ref.artifact
                          /\ other.source = ref.source /\ other.label = ref.label
  \/ \A other \in known : other.key # ref.key /\ other.source # ref.source

\* ArtifactStore.PutTx on tables db: the tables after it, None if it fails.
Stored(db, input) ==
  LET id == IdIn(db.rows, input)
      isNew == id = Len(db.rows) + 1
      ref == Reference(id, input)
      repeated == \E other \in db.refs : other.key = ref.key
  IN IF (isNew \/ Reusable(db.rows[id], input)) /\ RefAllowed(db.refs, ref)
     THEN [rows |-> IF isNew THEN Append(db.rows, NewArtifact(input)) ELSE db.rows,
           refs |-> IF repeated THEN db.refs ELSE db.refs \cup {ref}]
     ELSE None

Database == [rows |-> artifact, refs |-> refs]

Become(db) == artifact' = db.rows /\ refs' = db.refs

Put(input) ==
  /\ LET after == Stored(Database, input) IN after # None /\ Become(after)
  /\ UNCHANGED <<inline, sweep, now, damages>>

First(ids) == {id \in ids : Cardinality({other \in ids : other < id}) < Batch}

\* The tables after the items of page are put in order, None if one fails.
AllStored(page) ==
  LET db[n \in 0..Len(Items)] ==
        IF n = 0 THEN Database
        ELSE IF db[n - 1] = None \/ n \notin page THEN db[n - 1]
        ELSE Stored(db[n - 1], Items[n])
  IN db[Len(Items)]

\* ArtifactStore.Backfill: a page of inline outputs is put and linked, or none.
Backfill(cursor) ==
  /\ LET page == First({n \in inline : n > cursor})
         after == AllStored(page)
     IN /\ page # {} /\ after # None
        /\ Become(after)
        /\ inline' = inline \ page
  /\ UNCHANGED <<sweep, now, damages>>

------------------------------------------------------------------------------
(* Retention *)

Due(deadline, time) == deadline # Never /\ deadline <= time

\* No deadline to keep it until, or one that has passed.
Released(row, time) == row.retention.retain = Never \/ row.retention.retain <= time

Archived(row) == [row EXCEPT !.status = "archived"]
Tombstone(row) == [row EXCEPT !.status = "deleted", !.chunks = "none", !.integrity = "unknown"]

Update(new) == artifact' = [id \in Rows |-> IF id \in DOMAIN new THEN new[id] ELSE artifact[id]]

Archive(id) ==
  /\ id \in Rows /\ artifact[id].status = "active"
  /\ Update([i \in {id} |-> Archived(artifact[i])])
  /\ UNCHANGED <<refs, inline, sweep, now, damages>>

AllUnreferenced == {}

Referenced == {ref.artifact : ref \in {r \in refs : r.authoritative}}

\* ArtifactStore.Delete: it looks at neither retain_until nor the integrity.
Delete(id) ==
  /\ id \in Rows /\ artifact[id].status = "archived"
  /\ artifact[id].retention.allow /\ Due(artifact[id].retention.delete, now)
  /\ id \notin Referenced
  /\ Update([i \in {id} |-> Tombstone(artifact[i])])
  /\ UNCHANGED <<refs, inline, sweep, now, damages>>

Healthy(ids) == {id \in ids : artifact[id].integrity # "corrupt"}

ArchiveDueAnyStatus(time) ==
  {id \in Rows : /\ artifact[id].status # "deleted"
                 /\ Due(artifact[id].retention.archive, time) /\ Released(artifact[id], time)}

ArchiveDue(time) ==
  {id \in Rows : /\ artifact[id].status = "active"
                 /\ Due(artifact[id].retention.archive, time) /\ Released(artifact[id], time)}

DeleteDueUnarchived(time) ==
  {id \in Rows : /\ artifact[id].status # "deleted"
                 /\ artifact[id].retention.allow /\ Due(artifact[id].retention.delete, time)
                 /\ Released(artifact[id], time)}

DeleteDue(time) ==
  {id \in Rows : /\ artifact[id].status = "archived"
                 /\ artifact[id].retention.allow /\ Due(artifact[id].retention.delete, time)
                 /\ Released(artifact[id], time)}

\* RetentionSweep: the first due artifacts are archived, corrupt ones excepted.
SweepArchive(time) ==
  /\ sweep = None
  /\ ArchiveDue(time) # {}
  /\ Update([id \in Healthy(First(ArchiveDue(time))) |-> Archived(artifact[id])])
  /\ UNCHANGED <<refs, inline, sweep, now, damages>>

\* With none due the same sweep selects what to delete ...
SweepSelect(time) ==
  /\ sweep = None
  /\ ArchiveDue(time) = {}
  /\ DeleteDue(time) # {}
  /\ sweep' = [due |-> DeleteDue(time), referenced |-> Referenced, time |-> time]
  /\ UNCHANGED <<artifact, refs, inline, now, damages>>

\* ... and has their locks: a row that was selected is checked again as it is
\* now, the references are as they were.
SweepDelete ==
  /\ sweep # None
  /\ Update([id \in Healthy(First(sweep.due \cap DeleteDue(sweep.time)) \ sweep.referenced) |->
              Tombstone(artifact[id])])
  /\ sweep' = None
  /\ UNCHANGED <<refs, inline, now, damages>>

------------------------------------------------------------------------------
(* Integrity *)

Checked(row) ==
  IF row.status = "deleted" THEN row
  ELSE [row EXCEPT !.integrity = IF row.chunks = "whole" THEN "valid" ELSE "corrupt"]

Verify(id) ==
  /\ id \in Rows
  /\ Update([i \in {id} |-> Checked(artifact[i])])
  /\ UNCHANGED <<refs, inline, sweep, now, damages>>

VerifyBatch(cursor) ==
  /\ Update([id \in First({i \in Rows : i > cursor}) |-> Checked(artifact[id])])
  /\ UNCHANGED <<refs, inline, sweep, now, damages>>

\* Storage loses or damages a chunk.
Damage(id) ==
  /\ id \in Rows /\ artifact[id].chunks = "whole"
  /\ damages < MaxDamage
  /\ damages' = damages + 1
  /\ artifact' = [artifact EXCEPT ![id].chunks = "damaged"]
  /\ UNCHANGED <<refs, inline, sweep, now>>

Tick ==
  /\ now < MaxTime
  /\ now' = now + 1
  /\ UNCHANGED <<artifact, refs, inline, sweep, damages>>

Next ==
  \/ \E input \in Inputs : Put(input)
  \/ \E cursor \in 0..Len(Items) : Backfill(cursor)
  \/ \E id \in Rows : Archive(id) \/ Delete(id) \/ Verify(id) \/ Damage(id)
  \/ \E cursor \in 0..Len(artifact) : VerifyBatch(cursor)
  \/ \E time \in Named \cup {now} : SweepArchive(time) \/ SweepSelect(time)
  \/ SweepDelete
  \/ Tick

Spec == Init /\ [][Next]_vars

\* A sweep by the clock.
OwnSweep == SweepArchive(now) \/ SweepSelect(now)

\* Time passes, sweeps end, and an operator keeps sweeping by the clock, whatever
\* times others name.
LiveSpec == Spec /\ WF_vars(Tick) /\ WF_vars(SweepDelete) /\ SF_vars(OwnSweep)

------------------------------------------------------------------------------
(* Properties *)

Row == [content : Contents, label : Labels,
        retention : [retain : Times, archive : Times, delete : Times, allow : BOOLEAN],
        status : {"active", "archived", "deleted"}, integrity : {"unknown", "valid", "corrupt"},
        chunks : {"whole", "damaged", "none"}]

TypeOK ==
  /\ artifact \in Seq(Row)
  /\ inline \subseteq 1..Len(Items)
  /\ sweep # None => sweep.due \cup sweep.referenced \subseteq Rows /\ sweep.time \in Nat
  /\ now \in 0..MaxTime /\ damages \in 0..MaxDamage

\* Content that nothing refers to without authority.
WithAuthorityOnly(id) == \A ref \in refs : ref.artifact = id => ref.authoritative

\* Content that is only referred to with authority is never deleted, and every
\* output that the backfill took out of its row is an artifact with that content,
\* whatever the sweeps, deletions and puts around it; keys and sources have one
\* reference.
ReferencedKept ==
  /\ TypeOK
  /\ \A id \in Rows : WithAuthorityOnly(id) => artifact[id].chunks # "none"
  /\ \A n \in 1..Len(Items) \ inline : \E ref \in refs :
       ref.source = Items[n].source /\ artifact[ref.artifact].content = Items[n].content
  /\ \A id, other \in Rows : artifact[id].content = artifact[other].content => id = other
  /\ \A ref, other \in refs : ref.key = other.key \/ ref.source = other.source => ref = other
  /\ \A ref \in refs : artifact[ref.artifact].label = ref.label

\* What ends in this step is a sweep, and not Delete.
BySweep == sweep # None /\ sweep' = None

\* The time that this step compares deadlines with.
StepTime == IF BySweep THEN sweep.time ELSE now

\* An artifact is deleted only when it was archived before and its deadlines have
\* passed at the time that the request names, or by the clock; a reference with
\* authority is lost only to a sweep whose select did not see one; a tombstone is
\* for good, and nothing but damage makes content unreadable before that.
DeletionIsEarned ==
  [][\A id \in Rows :
       LET row == artifact[id]
           after == artifact'[id]
       IN /\ row.status = "deleted" => after = row
          /\ row.status # "deleted" /\ after.status = "deleted" =>
               /\ row.status = "archived" /\ row.retention.allow
               /\ row.retention.delete <= StepTime
               /\ row.retention.archive # Never => row.retention.archive <= StepTime
               /\ id \in Referenced => BySweep /\ id \in sweep.due \ sweep.referenced
               /\ BySweep => Released(row, sweep.time) /\ row.integrity # "corrupt"
          /\ after.chunks # row.chunks => after.status = "deleted" \/ damages' # damages
          /\ row.status = "archived" => after.status # "active"]_vars

\* Sweeps archive everything that is due and delete what may go, unless corrupt
\* artifacts that are due fill the page, or referenced ones the page of deletions.
SweepsFinish ==
  \A id \in 1..Cardinality(Contents) :
    /\ (id \in ArchiveDue(now) /\ artifact[id].integrity # "corrupt") ~>
         (id \notin ArchiveDue(now) \/ \E other \in ArchiveDue(now) : artifact[other].integrity = "corrupt")
    /\ id \in DeleteDue(now) ~>
         \/ id \notin DeleteDue(now)
         \/ artifact[id].integrity = "corrupt"
         \/ \E other \in ArchiveDue(now) : artifact[other].integrity = "corrupt"
         \/ \E other \in DeleteDue(now) : other \in Referenced \/ artifact[other].integrity = "corrupt"

\* "a duplicate content hash returns the existing artifact and does not overwrite
\* chunks or the manifest" (docs/38): content that is stored can be put again.
DuplicateAccepted ==
  \A input \in Inputs :
    (/\ \E id \in Rows : artifact[id].content = input.content /\ artifact[id].status # "deleted"
     /\ \A ref \in refs : ref.key # input.key /\ ref.source # input.source)
    => Stored(Database, input) # None

\* "Authoritative references block deletion" (docs/40).
NeverLost == \A ref \in refs : ref.authoritative => artifact[ref.artifact].chunks # "none"

\* "corruption is surfaced in the report and blocks destructive lifecycle action"
\* (docs/40).
CorruptionBlocksDeletion ==
  [][\A id \in Rows :
       artifact[id].integrity = "corrupt" /\ artifact[id].status # "deleted" =>
         artifact'[id].status # "deleted"]_vars

\* "its retention deadline has passed" (docs/38), retain_until included.
RetainedUntilDeadline ==
  [][\A id \in Rows :
       artifact[id].status # "deleted" /\ artifact'[id].status = "deleted" => Released(artifact[id], now)]_vars

\* "Deletion is allowed only after its deadline" (docs/40), by the clock.
DeletedInTime ==
  [][\A id \in Rows :
       artifact[id].status # "deleted" /\ artifact'[id].status = "deleted" =>
         artifact[id].retention.delete <= now]_vars

\* A corrupt artifact is examined, counted and left: what is due after it is
\* still archived.
CorruptionHoldsUpNothing ==
  \A id \in 1..2 :
    (id \in ArchiveDue(now) /\ artifact[id].integrity # "corrupt") ~>
      (id \notin ArchiveDue(now) \/ artifact[id].integrity = "corrupt")
==============================================================================
