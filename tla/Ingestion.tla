------------------------------ MODULE Ingestion ------------------------------
(***************************************************************************)
(* internal/ingest over internal/store/ingestion.go: a repository tree is  *)
(* discovered, submitted as a job with an immutable manifest, and indexed  *)
(* in batches.  A batch is read outside of the transaction that commits    *)
(* its index rows together with the checkpoint; anybody may edit the tree, *)
(* cancel the job or commit the same batch in between.                     *)
(*                                                                         *)
(* One workspace and one repository.  A job is named by its manifest, as   *)
(* its id is (stableIngestID).  A file's content stands for its bytes, its *)
(* size and its mode; Paths are numbered in the order of discovery.        *)
(***************************************************************************)
EXTENDS Naturals, Sequences, FiniteSets, SequencesExt

CONSTANTS NumPaths,       \* number of paths that can hold a file
          Contents,       \* what a file may hold
          SymbolsOf,      \* the symbols that ingest.Symbols finds in a content
          Keys,           \* idempotency keys
          Requests,       \* what the request hash covers
          Clients,        \* concurrent submissions
          Workers,        \* concurrent calls of ProcessBatch
          InitialTrees,   \* bound: what the repository holds at first
          Reliable,       \* workers that finish what they began
          BatchSize,      \* bound: files in a batch
          MaxEdits,       \* bound: edits of the tree
          MaxFence,       \* bound: grants of the task lease
          NoFile, None

VARIABLES tree,        \* the files below the source root
          job,         \* fornix.ingest_jobs with checkpoint and files
          symbols,     \* fornix.symbols that are not deleted, by path
          chunks,      \* contents that have rows in fornix.chunks
          completed,   \* succeeded jobs by completed_at
          client,      \* the progress of each submission
          worker,      \* the progress of each ProcessBatch
          lease,       \* the task's execution lease
          edits,
          writes       \* history: the ordinals that batches of a job committed

jobVars == <<job, symbols, chunks, completed, writes>>
vars == <<tree, jobVars, client, worker, lease, edits>>

Paths == 1..NumPaths
Trees == [Paths -> Contents \cup {NoFile}]
Names == UNION {SymbolsOf[c] : c \in Contents}
Active == {"queued", "running"}

\* As normalized; fence 0 is a request without a task.
JobRequest == [fence : 0..MaxFence, extract : BOOLEAN, cause : STRING]

ASSUME IngestionAssumption ==
  /\ NumPaths \in Nat /\ BatchSize \in Nat \ {0} /\ MaxEdits \in Nat /\ MaxFence \in Nat \ {0}
  /\ InitialTrees \subseteq Trees /\ NoFile \notin Contents /\ None \notin Trees \cup Keys
  /\ Requests \subseteq JobRequest
  /\ DOMAIN SymbolsOf = Contents /\ Reliable \subseteq Workers

\* A file of a manifest: present with the content the manifest gives it, or removed.
Files == [path : Paths, removed : BOOLEAN]

\* status is never "failed"; mirror is the row in repository_ingests.
JobRow == [key : Keys, request : Requests, status : Active \cup {"succeeded", "cancelled"},
           mirror : {"pending", "succeeded"}, files : Seq(Files),
           next : Nat, processed : Nat, removed : Nat]

Jobs == {m \in Trees : job[m] # None}
Idle == [pc |-> "idle"]

ASSUME NoRowAssumption == None \notin JobRow

Submission == [pc : {"walk"}, key : Keys, request : Requests, at : 1..NumPaths + 1, seen : Trees]
BatchCall == [pc : {"read"}, job : Trees, from : Nat, size : 0..BatchSize, read : 0..BatchSize]

Init ==
  /\ tree \in InitialTrees
  /\ job = [m \in Trees |-> None]
  /\ symbols = [p \in Paths |-> {}]
  /\ chunks = {}
  /\ completed = <<>>
  /\ client = [c \in Clients |-> Idle]
  /\ worker = [w \in Workers |-> Idle]
  /\ lease = [fence |-> 1, live |-> TRUE]
  /\ edits = 0
  /\ writes = [m \in Trees |-> <<>>]

TypeOK ==
  /\ tree \in Trees
  /\ job \in [Trees -> JobRow \cup {None}]
  /\ symbols \in [Paths -> SUBSET Names]
  /\ chunks \subseteq Contents
  /\ completed \in Seq(Jobs)
  /\ client \in [Clients -> Submission \cup {Idle}]
  /\ worker \in [Workers -> BatchCall \cup {Idle}]
  /\ lease \in [fence : 1..MaxFence, live : BOOLEAN]
  /\ edits \in 0..MaxEdits
  /\ writes \in [Trees -> Seq(Nat)]

------------------------------------------------------------------------------
(* Submission *)

\* authorizeIngestTaskTx: a task-bound request needs the live lease it names.
Admits(request) == request.fence # 0 => lease = [fence |-> request.fence, live |-> TRUE]

\* The job that a submission is answered with: the key is looked up first.
Known(key, m) ==
  LET named == {j \in Jobs : job[j].key = key}
  IN IF named # {} THEN CHOOSE j \in named : TRUE ELSE IF m \in Jobs THEN m ELSE None

\* The partial unique index: one queued or running job per repository.
NoneActive == \A m \in Jobs : job[m].status \notin Active

\* previousIngestFilesTx: every file of the job that completed last, removed ones too.
Previous == IF completed = <<>> THEN {} ELSE {f.path : f \in Range(job[Last(completed)].files)}

\* In the order of discovery.
Sorted(paths) ==
  CHOOSE s \in [1..Cardinality(paths) -> paths] : \A i, j \in DOMAIN s : i < j => s[i] < s[j]

\* The discovered files, then a removed record for every other previous path.
Manifest(m) ==
  LET present == {p \in Paths : m[p] # NoFile}
      Record(paths, gone) == [i \in 1..Cardinality(paths) |-> [path |-> Sorted(paths)[i], removed |-> gone]]
  IN Record(present, FALSE) \o Record(Previous \ present, TRUE)

NewJob(key, request, m) ==
  [key |-> key, request |-> request, status |-> "queued", mirror |-> "pending",
   files |-> Manifest(m), next |-> 0, processed |-> 0, removed |-> 0]

\* What Submit returns: a job, or None for a conflict, a stale fence or an active job.
Answer(key, request, m) ==
  LET j == Known(key, m)
  IN IF j # None THEN (IF job[j].request = request THEN j ELSE None)
     ELSE IF Admits(request) /\ NoneActive THEN m ELSE None

\* Submit, one transaction under the advisory lock of the repository.
SubmitJob(key, request, m) ==
  /\ job' = IF Known(key, m) = None /\ Answer(key, request, m) = m
            THEN [job EXCEPT ![m] = NewJob(key, request, m)] ELSE job
  /\ UNCHANGED <<symbols, chunks, completed, writes>>

\* handleIngestJobs: Discover walks the tree, then Submit.
Discover(c, key, request) ==
  /\ client[c] = Idle
  /\ client' = [client EXCEPT ![c] =
       [pc |-> "walk", key |-> key, request |-> request, at |-> 1, seen |-> [p \in Paths |-> NoFile]]]
  /\ UNCHANGED <<tree, jobVars, worker, lease, edits>>

Visit(c) ==
  /\ client[c] # Idle /\ client[c].at \in Paths
  /\ client' = [client EXCEPT ![c].at = @ + 1, ![c].seen[client[c].at] = tree[client[c].at]]
  /\ UNCHANGED <<tree, jobVars, worker, lease, edits>>

Submit(c) ==
  /\ client[c] # Idle /\ client[c].at \notin Paths
  /\ SubmitJob(client[c].key, client[c].request, client[c].seen)
  /\ client' = [client EXCEPT ![c] = Idle]
  /\ UNCHANGED <<tree, worker, lease, edits>>

------------------------------------------------------------------------------
(* Batches *)

Left(m) == Len(job[m].files) - job[m].next

\* ProcessBatch reads job, checkpoint and the files of the next ordinals.
Take(w, m) ==
  /\ worker[w] = Idle
  /\ m \in Jobs /\ job[m].status \in Active
  /\ \E size \in IF Left(m) = 0 THEN {0} ELSE 1..BatchSize :
       /\ size <= Left(m)
       /\ worker' = [worker EXCEPT ![w] = [pc |-> "read", job |-> m, from |-> job[m].next, size |-> size, read |-> 0]]
  /\ UNCHANGED <<tree, jobVars, client, lease, edits>>

File(w, i) == job[worker[w].job].files[worker[w].from + i]
Batch(w) == {File(w, i) : i \in 1..worker[w].size}

\* ReadAndVerify: the file still is what the manifest says.
Unchanged(m, file) == file.removed \/ tree[file.path] = m[file.path]

\* prepareFiles reads one file after the other; a changed one ends the call.
Read(w) ==
  /\ worker[w] # Idle /\ worker[w].read < worker[w].size
  /\ worker' = IF Unchanged(worker[w].job, File(w, worker[w].read + 1))
               THEN [worker EXCEPT ![w].read = @ + 1] ELSE [worker EXCEPT ![w] = Idle]
  /\ UNCHANGED <<tree, jobVars, client, lease, edits>>

StillNextQueued(w) ==
  LET row == job[worker[w].job]
  IN row.next = worker[w].from /\ row.status = "queued" /\ Admits(row.request)

StillNextUnlocked(w) == job[worker[w].job].status # "cancelled" /\ Admits(job[worker[w].job].request)

StillNextUnauthorized(w) == job[worker[w].job].next = worker[w].from

\* Checked again once job and checkpoint are locked.
StillNext(w) ==
  LET row == job[worker[w].job]
  IN row.next = worker[w].from /\ row.status # "cancelled" /\ Admits(row.request)

\* writePreparedFileTx: a removed file loses its symbols, an indexed one has
\* them replaced if the new content has any.
Reindexed(m, batch) ==
  [p \in Paths |->
     IF [path |-> p, removed |-> TRUE] \in batch THEN {}
     ELSE IF [path |-> p, removed |-> FALSE] \in batch /\ job[m].request.extract /\ SymbolsOf[m[p]] # {}
     THEN SymbolsOf[m[p]] ELSE symbols[p]]

Counted(w, removed) == Cardinality({i \in 1..worker[w].size : File(w, i).removed = removed})

\* The row after a batch; the last one completes the job and its mirror.
Advanced(w) ==
  LET row == job[worker[w].job]
      last == row.next + worker[w].size >= Len(row.files)
  IN [row EXCEPT !.next = @ + worker[w].size,
                 !.processed = @ + Counted(w, FALSE), !.removed = @ + Counted(w, TRUE),
                 !.status = IF last THEN "succeeded" ELSE "running",
                 !.mirror = IF last THEN "succeeded" ELSE @]

\* The transaction of a batch: index, checkpoint and status together.
CommitBatch(w) ==
  /\ worker[w] # Idle /\ worker[w].size > 0 /\ worker[w].read = worker[w].size
  /\ LET m == worker[w].job
         row == Advanced(w)
     IN IF StillNext(w)
        THEN /\ job' = [job EXCEPT ![m] = row]
             /\ symbols' = Reindexed(m, Batch(w))
             /\ chunks' = chunks \cup {m[f.path] : f \in {g \in Batch(w) : ~g.removed}}
             /\ completed' = IF row.status = "succeeded" THEN Append(completed, m) ELSE completed
             /\ writes' = [writes EXCEPT ![m] = @ \o [i \in 1..worker[w].size |-> worker[w].from + i]]
        ELSE UNCHANGED jobVars
  /\ worker' = [worker EXCEPT ![w] = Idle]
  /\ UNCHANGED <<tree, client, lease, edits>>

\* finalizeEmpty: nothing is left to index.  Only a succeeded job is left
\* alone; the lease is not asked for and the mirror not written.
FinalizeEmpty(w) ==
  /\ worker[w] # Idle /\ worker[w].size = 0
  /\ LET m == worker[w].job
     IN IF job[m].status = "succeeded" THEN UNCHANGED <<job, completed>>
        ELSE /\ job' = [job EXCEPT ![m].status = "succeeded"]
             /\ completed' = Append(completed, m)
  /\ worker' = [worker EXCEPT ![w] = Idle]
  /\ UNCHANGED <<tree, symbols, chunks, writes, client, lease, edits>>

\* The process dies, or its caller goes away, before the commit.
Abandon(w) ==
  /\ worker[w] # Idle /\ w \notin Reliable
  /\ worker' = [worker EXCEPT ![w] = Idle]
  /\ UNCHANGED <<tree, jobVars, client, lease, edits>>

Cancel(m) ==
  /\ m \in Jobs /\ job[m].status \in Active
  /\ job' = [job EXCEPT ![m].status = "cancelled"]
  /\ UNCHANGED <<tree, symbols, chunks, completed, writes, client, worker, lease, edits>>

------------------------------------------------------------------------------
(* Environment *)

\* Somebody writes or removes a file of the repository.
Edit(p, content) ==
  /\ edits < MaxEdits /\ tree[p] # content
  /\ tree' = [tree EXCEPT ![p] = content]
  /\ edits' = edits + 1
  /\ UNCHANGED <<jobVars, client, worker, lease>>

LoseLease ==
  /\ lease.live
  /\ lease' = [lease EXCEPT !.live = FALSE]
  /\ UNCHANGED <<tree, jobVars, client, worker, edits>>

GrantLease ==
  /\ ~lease.live /\ lease.fence < MaxFence
  /\ lease' = [fence |-> lease.fence + 1, live |-> TRUE]
  /\ UNCHANGED <<tree, jobVars, client, worker, edits>>

------------------------------------------------------------------------------

Process(w) == (\E m \in Trees : Take(w, m)) \/ Read(w) \/ CommitBatch(w) \/ FinalizeEmpty(w)

Next ==
  \/ \E c \in Clients, k \in Keys, r \in Requests : Discover(c, k, r)
  \/ \E c \in Clients : Visit(c) \/ Submit(c)
  \/ \E w \in Workers : Process(w) \/ Abandon(w)
  \/ \E m \in Trees : Cancel(m)
  \/ \E p \in Paths, content \in Contents \cup {NoFile} : Edit(p, content)
  \/ LoseLease
  \/ GrantLease

Spec == Init /\ [][Next]_vars

\* Nothing in the server calls ProcessBatch by itself: somebody resumes the job
\* again and again (the reference workflow and the command line do).
LiveSpec == Spec /\ \A w \in Reliable : WF_vars(Process(w))

------------------------------------------------------------------------------
(* Properties *)

\* Checkpoint and batches agree: whatever workers read and lose, a job's
\* ordinals are committed once each and in order, its counters count them, and
\* a succeeded job has none left.
BatchesInOrder ==
  /\ TypeOK
  /\ \A m \in Jobs :
       LET row == job[m]
       IN /\ writes[m] = [i \in 1..row.next |-> i]
          /\ row.processed = Cardinality({i \in 1..row.next : ~row.files[i].removed})
          /\ row.removed = Cardinality({i \in 1..row.next : row.files[i].removed})
          /\ row.status = "succeeded" => row.next = Len(row.files)

\* The index follows the repository: while every job has files and succeeds,
\* after the last one no path it does not have keeps a symbol, and every file that it has is
\* found by content and, if symbols were asked for and it has some, by them.
IndexOfLastJob ==
  (completed # <<>> /\ \A j \in Jobs : job[j].status = "succeeded" /\ job[j].files # <<>>) =>
    LET m == Last(completed)
    IN \A p \in Paths :
         IF m[p] = NoFile THEN symbols[p] = {}
         ELSE /\ m[p] \in chunks
              /\ job[m].request.extract /\ SymbolsOf[m[p]] # {} => symbols[p] = SymbolsOf[m[p]]

\* Checkpoints, batches and the index agree.
IndexFollowsJobs ==
  /\ BatchesInOrder
  /\ IndexOfLastJob

\* A submitted job keeps its identity and manifest; its checkpoint moves forward,
\* only while it is active and its lease is held; an ended job with files stays.
JobsAdvance ==
  [][\A m \in Jobs :
       LET row == job[m]
           new == job'[m]
       IN /\ new # None
          /\ <<new.key, new.request, new.files>> = <<row.key, row.request, row.files>>
          /\ new.next >= row.next
          /\ new.next > row.next => row.status \in Active /\ Admits(row.request)
          /\ row.files # <<>> /\ row.status \notin Active => new = row]_vars

\* The active job, when it is resumed, ends, unless a file that it has still to
\* read changed or its lease was lost: it never stops the next submission for
\* good by itself.
JobsFinish ==
  ~NoneActive ~> \/ NoneActive
                 \/ \E m \in Jobs : job[m].status \in Active /\ (~Admits(job[m].request) \/ tree # m)

\* A job succeeds while it is active and its lease is held: "stale task fences
\* cannot process or finalize a job" and cancelling "durably" ends it (docs/50).
FinishedByHolder ==
  [][\A m \in Jobs : job[m].status # "succeeded" /\ job'[m].status = "succeeded" =>
       job[m].status \in Active /\ Admits(job[m].request)]_vars

\* "supersession/stale derived-index updates" (docs/50): after the last job a
\* path has no symbol that its file does not have.
NoStaleSymbols ==
  (completed # <<>> /\ \A j \in Jobs : job[j].status \notin Active) =>
    LET m == Last(completed)
    IN \A p \in Paths : job[m].request.extract =>
         symbols[p] = (IF m[p] = NoFile THEN {} ELSE SymbolsOf[m[p]])
==============================================================================
