# Fornix in TLA+

Fornix keeps the durable state of agent work in PostgreSQL: tasks and their
execution leases, an event log with projections, agent runs with their model
and tool calls, repository changes, validations, artifacts. Several server and
worker processes share that database and crash, are suspended, retry and
overlap. This directory models those protocols, checks them with TLC on small
instances and proves the central ones for every instance with TLAPS.

    tlc -workers 2 -config TaskStore.cfg MCTaskStore     # one run
    tlapm TaskStore_proofs.tla                           # one proof module

`PROJECT.json` lists the runs with their properties, the source lines each
definition stands for (`map`), the hazards with the properties that cover them,
and the findings.

## The system

| component | state | operations | behaviour that is hard |
|---|---|---|---|
| task store (`store/tasks.go`, session handlers and reaper of `server/server.go`) | tasks, dependencies, execution leases, sessions, idempotency keys, lifecycle events | Create, ClaimNext, Renew, Complete, Fail, Cancel; register, heartbeat, reap | takeovers, late outcomes, SKIP LOCKED on a stale snapshot, attempt budget, sessions and tasks that must agree |
| event log (`store/events.go`) | control events, their sequence | AppendTx, ReadAfter, ReadAggregate | sequence order is not commit order |
| consumer leases and checkpoints (`store/leases.go`, `store/events.go`) | one lease and one cursor per consumer | Acquire, Renew, Validate, Release, Advance, Reset | suspended holders, expiry between two transactions |
| projection runner (`projection/runtime.go`, `projection/task.go`) | view rows, their last event | RunBatch, RunBatchWithLease, Rebuild, Apply, Reset | concurrent batches, interrupted rebuilds, redelivery |
| agent runs (`agentloop/loop.go`, `store/agent_runs.go`, `store/agent_run_scheduler.go`, `scheduler/worker.go`) | run rows with version, turn and phase, worker leases, transitions | Create, Advance/Run, Claim, Renew, Release, Cancel, WaitExternal, CompleteExternal | a step reads, calls out and commits by compare-and-set; crash between call and commit; two drivers of one run |
| model gateway (`model/gateway.go`, `store/model_calls.go`) | model-call ledger | Begin, Complete, Finish, replay | duplicate calls in flight, retries, crash between call and record |
| tool executor (`tool/executor.go`, `store/tool_runs.go`) | tool runs, approvals, the started and finished events | Reserve, CreateApproval, Decide, MarkStarted, Finish, replay | double execution, approvals that expire, stale task fences |
| repository changes (`change/service.go`, `change/planner.go`, `store/repository_changes.go`) | proposals, approvals, applications, the working tree | Propose, Approve, BeginApplication, the operations on files, FinalizeApplication | file operations between two transactions, somebody else's edits, a crash in between, two callers of one application |
| validation (`validation/service.go`, `store/validations.go`) | runs, results, re-index handoffs | Start, Commit, Cancel, Resume, SubmitHandoff, MarkHandoff | a verdict on a tree read long before; a handoff written in two places |
| policies (`policy/resolver.go`, `store/policies.go`) | versions, the default, transitions | Create, Activate, SetDefault, Retire, Resolve | resolution and admission are apart |
| ingestion (`store/ingestion.go`, `ingest/`) | jobs with manifest and checkpoint, chunks, symbols, lineage | Submit, ProcessBatch, Cancel | batches read outside of their transaction, one active job per repository |
| artifacts (`store/artifacts.go`, `store/artifact_ops.go`) | rows, chunks, references, deadlines, integrity | Put, Archive, Delete, Verify, Backfill, RetentionSweep | references that are made while a sweep selects |
| evidence (`store/evidence.go`) | records, provenance edges | Put, AddEdge, Resolve, Traverse, Disclose | supersession cycles of concurrent writers, honest truncation |
| receipts, observability, evaluation, retrieval, operator view, identity, migrations, local runtime, command line | see `PROJECT.json` | | mostly sequential code over the stores above |

How they meet: every store operation is one PostgreSQL transaction; operations
that act for a task check the task's lease (`authorizeTaskLeaseTx`) in that
transaction; every mutation appends to the event log in that transaction, and
projections read the log later. The agent loop is a client of the gateway and
the executor: both record a durable row before they call out and another after,
and the loop commits what they returned. The loop's worker holds a lease of its
own on the run, beside the fence of the task.

A change goes through three components: it is proposed under a policy, applied
to the tree, validated against the tree, and a passed validation hands the tree
over to ingestion, which indexes it as a job. Each of them commits its own
transaction and looks at the same files outside of any. Evidence and the outputs
of tools, validations and changes live in artifacts once they are large.

What makes them correct, in a line each:

* task store: one owner per task and fence; rows, leases, sessions and log agree;
  attempts are bounded; terminal is final; tasks settle while a worker lives.
* event projection: the view is the replay of what was delivered; delivered once;
  stale holders write nothing; rebuilds are complete; the cursor catches up.
* agent runs: a run has one history whatever drives it; effects carry one durable
  key each; terminal is final; runs settle or wait for someone who can act.
* tools: nothing runs that policy or a decision did not admit; once per admission.
* changes: the recorded outcome is what happened to the files; nobody touches
  them without an approval; an application that is asked for again ends.
* policies: at most one active version of each; work is admitted under a version active at that
  moment, never under less than it asks for.
* validation and ingestion: the verdict is of the tree that was seen, the job of
  the handoff is of the tree that was validated; every batch counts once; the
  index holds what the jobs indexed.
* artifacts and evidence: what is referenced keeps its bytes; nothing is deleted
  that was not archived and due when the request says; supersessions are acyclic; a disclosure says
  what it leaves out.

## Modules

| module | what it is | state |
|---|---|---|
| `FencedLease` | the abstract contract of a fenced lease; task leases, consumer leases and run leases each implement it | `fence`, `owner`, `state` |
| `TaskStore` | tasks, leases, sessions, keys, reaper | below |
| `EventProjection` | event log, consumer leases, checkpoints, the projection runner and the task view | below |
| `ModelGateway` | `Gateway.Complete` over the model-call ledger | `call`, `gate` |
| `ToolExecutor` | `Executor.Execute` over tool runs and approvals | `toolRun`, `approval`, `exec`, `taskLive` |
| `AgentRun` | the loop, its checkpoints, worker leases and workers; instantiates `ModelGateway`, `ToolExecutor`, `FencedLease` | `run`, `lease`, `loop`, `late` and theirs |
| `RepositoryChange` | proposals, approvals, applications and the working tree | `proposal`, `approval`, `application`, `receipt`, `tree`, `drive`, `lease` |
| `Ingestion` | jobs of one repository and their index | `tree`, `job`, `symbols`, `chunks`, `completed`, `client`, `worker`, `lease` |
| `Validation` | validation runs and handoffs; extends `Ingestion`, whose tree, jobs and lease it shares | `run`, `handoff`, `caller` and those of `Ingestion` |
| `Policy` | versions of policies, the resolver, admission under them | `version`, `default`, `used`, `logged`, `admitter`, `change`, `validation` |
| `Artifact` | artifacts, references, retention, integrity | `artifact`, `refs`, `inline`, `sweep`, `now` |
| `Evidence` | records and edges; extends `Artifact`, which keeps their large payloads | `evidence`, `edges`, `adder` and those of `Artifact` |
| `MC...` | the values of constants for TLC, one for each of these but `FencedLease` and `ModelGateway` | |
| `TaskStore_proofs`, `ToolExecutor_proofs`, `AgentRun_proofs`, `EventProjection_proofs`, `RepositoryChange_proofs`, `Policy_proofs` | theorems about these modules | |
| `Validation_proofs` | theorems about `Ingestion`, alone and under `Validation`, and about `Validation` | |
| `Evidence_proofs` | theorems about `Artifact` and `Evidence` | |

`INSTANCE` is used where the code composes: the loop calls the gateway and the
executor through their interfaces, so `AgentRun` has them with its drivers as
their callers, and `EffectStep` lets a call proceed while other drivers move.
`EXTENDS` is used where two components share tables: a validation hands over to
the jobs of `Ingestion` and reads the same tree, a record of `Evidence` is put with
its artifact in one transaction.

### TaskStore

One transaction is one action: every mutation locks the task row first
(`SELECT ... FOR UPDATE`) and reads the rest under that lock, and an error rolls
it back. `ClaimNext` is the exception, and it is where the risk is: its candidate
query runs on the statement's snapshot, `FOR UPDATE SKIP LOCKED` then locks and
re-reads only the task row, while the lease sub-query and the dependency
sub-query keep their snapshot. It is two actions: `ClaimBegin` (session row
locked, snapshot taken) and `ClaimTask`/`ClaimEmpty` (row locked, re-read,
granted or dead-lettered, committed). The repeated SELECTs of one claim that
skips exhausted candidates use one snapshot in the model.

| model | code |
|---|---|
| `task`, `lease`, `session`, `idem` | the tables of migrations 007 and 008 |
| `event[t]` | the deltas of the task's events, folded in order |
| `claim[s]` | the open ClaimNext transaction of a session |
| `working` | tasks whose claimant is still executing (process memory) |
| `Create` .. `Cancel`, `Fail` with its three outcomes | the operations of `TaskStore` |
| `Register`, `Heartbeat`, `Reap` | the session handlers and `sessionsReaper` |
| `ExpireLease`, `BecomeDue` | the database clock passing `lease_until`, `next_attempt_at` |
| `Crash` | a worker process dies with its open transaction |

Calls come from any session with any fence the task may have had, so late and
duplicated deliveries are covered by the choice of parameters. `FencedLease` is
the abstract contract of a lease row; `LeaseContract` states that every task
lease implements it.

### EventProjection

The log is a sequence of appends in the order in which sequence numbers are
drawn, each `open`, `committed` or `aborted`: a reader sees the committed ones
only, so a later number may become visible first. A batch holds the lease row
of its consumer from validation to commit; `Acquire`, `BeginBatch`, `Apply` (one
event), `CommitBatch`, `BeginReset`, `CommitReset` are separate actions, `Abandon`
ends a call anywhere (an error, a lost connection, a crash). A view row is
reduced to the sequence numbers its fields come from. `delivered` and `promised`
are history variables that only properties read.

### ModelGateway

`Begin` is `Start` of the ledger (reserve, replay, or in flight), `Attempt` the
write before each provider call, `RetryAttempt` another try within the retry
policy, `Finish` the record of the outcome, `Unrecorded` a call that ends without
one (its context is over, or the ledger cannot be written). A failure is reduced
to whether it is retryable; a response is a model value.

### ToolExecutor

The steps of `Execute` are the actions `Execute` (policy and Reserve), `LookUp` (the
approval of a run that waits), `CreateApproval`, `CheckGrant`, `CheckFence`,
`MarkStarted`, `Finish`, `Deny` and `Interrupted`; what happens beside them is
`DecideApproval`, `ExpireApproval` and `TaskLost`. The caller passes any approval id
it knows, since the HTTP request may. `HashOf` says which requests differ in their
identity only; an approval admits a request with the same hash. The process is an
outcome: success, a failure that may be retried (a timeout), one that may not. The
status `cancelled` is left out: the `Finish` that would record it has the same
cancelled context and fails, which is `Interrupted`.

`GetApproval` is given the id of an approval and reads by `run_id` (finding 21): it
finds the approval only for a request that names the id of the run instead. A
grant `a` of the model is whatever such a request names, and `LookUp` and
`CheckGrant` may find it or not, whichever it says. So the safety properties hold
for the query as it is and for one that reads by id.

### AgentRun

A driver is a worker, which holds a fenced lease on the run, or a client, an
HTTP request that calls the same loop without one. A step of the loop is `Load`
(read the row, choose), perhaps `CallModel` or `CallTool`, and `Commit` by
compare-and-set on the version that was read, or `Refused`. The row that was
read is `loop[d].snap`; everything a step decides, it decides from that.

| model | code |
|---|---|
| `run` | `fornix.agent_runs`; `history` is the transcript for the provider, `pending` the tool calls without an answer |
| `lease`, `Claim`, `Leave`, `Expire` | `agent_run_worker_leases`, ClaimNextAgentRun, release, the clock |
| `loop[d]` | the stack of one call of `Run`, `Advance`, `Cancel`, `WaitExternal` or `CompleteExternal` |
| `IntentsOf` | the order of checks in `Advance` and its siblings |
| `AfterModel`, `AfterTool`, `Transition` | the rows these functions build |
| `Accepted` | version, task fence, worker lease and observation checks of `commit` |
| `Abort` | a cancelled context or a failed statement |
| `Crash` | a process that dies; a client's request that ends |

Renewals do not change the lease row of the model: a lease of a process that
renews in time is one that does not expire. Token, cost and byte budgets are
abstract: a response is too costly or not, a step may find its budget spent. The
limits on turns, model steps, tool calls and attempts are numbers. Provider call
ids may come back in a later response, as nothing in the code prevents it.

`Lookups` says what the loop finds with the id of an approval: nothing in the code
as it is (`{FALSE}`, in AgentRunWorkers, AgentRunWaits and AgentRunFindings), where a
run that waits for an approval ends by its wall clock or is cancelled; either in
AgentRun (`{TRUE, FALSE}`), so that what follows an approval or a denial is examined,
too, and in the proofs.

`Observed` says whether an observability store is attached. The server attaches
it, and then waiting states cannot be committed (finding 6);
AgentRunWaits has it. The other runs have `Observed = FALSE`, the configuration
of a store without it, since with it approvals, retries and external waits would
never be reached and most of the loop would go unexamined.

### RepositoryChange

A drive is one call of `Service.Apply` in one process: `BeginApplication` (or
`ApplyAgain` for an application that exists), then for each operation
`CheckPrecondition` and `ApplyOne`, then `Verify`, `FinalizeApplication` and
`AttachReceipt`. Only the store calls are transactions; between any two steps
somebody else edits a file (`Edit`), the task's lease moves (`LoseLease`), another
drive of the same application goes on, or the process dies (`Crash`). A file is
its content (old or new) and whether it is executable, and each operation type
has the effect it has in `Executor`. A path that cannot be resolved, examined or read
is a conflict, as in `checkPrecondition`. `effects` and `shared` are history.

| model | code |
|---|---|
| `Propose`, `Approve`, `Expire` | the planner and Propose, Approve, the clock passing `expires_at` |
| `Expected`, `Possible`, `Written` | checkPrecondition, the executor's own checks, applyOne |
| `Predicted`, `Observed`, `Verified` | predictedTreeHash, observedTreeHashFull and their comparison |
| `OutcomeOfError` | how `Service.Apply` classifies an error |
| `Record`, `Discard` | what FinalizeApplication writes, and its rollback for a stale fence |

### Ingestion

A job is named by its manifest, as `stableIngestID` does. `Discover` and `Visit`
read the tree file by file, `Submit` inserts the job or answers with the one of
the key or the manifest. `Process(w)` has two steps of a worker: the files of the
next batch are read again and compared with the manifest, then the transaction
checks status, lease and checkpoint again (`StillNext`) and writes chunks,
symbols and the new checkpoint. `Cancel`, `Edit`, `LoseLease` and `GrantLease` come
in between. `writes` is history: the ordinals each batch committed.

### Validation

`Start` or `Resume`, `Observe` (the packet's paths), `Walk` (the discovery, file by
file), `Commit`, then `Walk` again, `SubmitHandoff` and `Mark`: each is one
transaction or one read of the tree. Several callers drive one run; the client
of any but a `Steady` one may go away after each step. `Commit` is results, run,
handoff and receipt in one transaction; `ReceiptAdmitted` is the condition the
receipt adds for a run that names its task (finding 13). The applied change is a
constant, as `StaleOrEndedStays` of `RepositoryChange` allows.

### Policy

`Lifecycle` is create, activate, default and retire with their idempotency
records; a key in use is answered without an effect. `Resolved` is
`PolicyStore.Resolve` with `resolver.go` (`UnderPack`, `Unpoliced`): approval mode,
validators and budgets. An admission resolves first and is inserted in a later
transaction that locks the version (`LockActive`); a validation resolves twice.

### Artifact and Evidence

An artifact is a row, its label (kind, media type, manifest), its deadlines, its
integrity and the state of its chunks: whole, damaged or none. `Stored` is
`PutTx`: the content is known or new, the reference is known by key or source or
new. Every operation is one action, except the delete phase of a sweep:
`SweepSelect` is the statement's snapshot, `SweepDelete` the rows under their locks
with the references as they were in the snapshot. `Backfill` moves inline outputs
into artifacts; `Damage` loses a chunk.

A sweep compares deadlines with a time of its request: the field `now` of the HTTP
body, or the clock if that is missing. `Named` are the times that requests name,
each of which a sweep may have at any moment, and `sweep.time` is the one of the
sweep that waits; `Delete` goes by the clock.

`PutEvidence` is one transaction with its artifact and its edges; an edge of its
own is `FindEdge`, `CheckCycle` under the workspace's advisory lock, `InsertEdge`.
Resolution, traversal and disclosure are operators over the tables (`Resolves`,
`Hop`, `Traversed`, `Disclosed`), with sizes for the byte budgets and the rows in
the order of the query, since where a traversal stops depends on it.

## Runs

| run | instance | properties | what it shows |
|---|---|---|---|
| TaskStore | 2 tasks (one that clients also finish without a claim), 2 sessions, 2 attempts, 1 key | TypeOK, OwnershipAgrees, AttemptsBudget, ClaimedAfterDependencies, TablesAgree, WorkerMutationsFenced, TerminalForever, LeaseContract | rows, leases, sessions, log and keys agree in every order of claims, takeovers, outcomes, reaping and crashes; a repeated key makes no second task |
| TaskStoreLiveness | 2 tasks, one reliable worker, one that may crash | TasksSettle | tasks whose dependencies succeed end |
| EventProjection | 2 consumers, 2 processes of the first, 3 appends, 3 grants | ViewIsReplay, DeliveredOnce, RebuildComplete, LeaseContract | view, cursor and lease belong together through takeovers and rebuilds, and two consumers count nothing twice |
| EventProjectionLiveness | 1 poller, 1 process that may crash | CatchesUp | the cursor passes every committed event |
| ToolExecutor | 2 callers, 3 requests: interactive, interactive and pre-approved with one hash | TypeOK, AdmittedBeforeRun, UndecidedRunsOnce, ToldWhatIsRecorded, TerminalRowsStay | nothing runs unadmitted, nothing finished changes |
| AgentRun | 1 worker and 1 client, an interactive tool, 2 turns, waits up to version 4 | LedgersAgree, OneCallAhead, TerminalForever | two drivers of one run never disorder, repeat or overspend it |
| AgentRunWorkers | 2 workers, one reliable; two tool calls, retries, 4 grants | LeaseContract, RunsSettle | the run lease is fenced, and the run ends |
| RepositoryChange | 2 paths, 1 proposal out of four packets with every operation type, 2 applications, 2 drives, 1 edit, 1 crash | EffectsAccounted, StaleOrEndedStays, ApplicationsFinish | the record is what happened to the files, and there is one in the end |
| Ingestion | 2 paths, 2 contents with symbols, 2 keys, 2 workers, a task's request, 1 edit, 2 grants | IndexFollowsJobs, JobsAdvance, JobsFinish | batches count once, under the lease, and jobs end |
| Validation | 1 path, 1 run with or without a task, 2 callers, 1 operator job, 1 edit | HandoffFollowsRun, JudgedByHolder, HandoffSettles | verdict, handoff and job belong together, and handoffs arrive |
| Policy | 2 versions of one policy, 3 keys, 1 change, 2 admitters | OneActiveVersion, NeverWeaker, AdmittedWhileActive | work is admitted under an active version and nothing weaker |
| Evidence | 3 contents, one put with authority (an inline output), one without, one both ways; 3 records, 2 adders that would close a cycle together, 1 damage, 2 instants, a request that names the later one | ReferencedKept, LineageHolds, DeletionIsEarned, SweepsFinish | what only authority refers to keeps its bytes, and a late reference loses them only to a sweep that did not see it; nothing is deleted that was not archived and due at the time of the request; lineage stays acyclic, disclosures tell what they leave out, sweeps end |

Some properties are conjunctions of named parts. `TablesAgree` has the log, the
keys and the sessions of the task store; `LedgersAgree` has `TypeOK`,
`TranscriptInOrder`, `TranscriptFromLedgers`, `ToolsAfterCheckpoint` and
`BudgetsHold`; `ViewIsReplay` has the types and that nothing is counted twice;
`EffectsAccounted` has `OutcomeTellsEffects` and `OnlyApprovedTouch`; `LineageHolds`
has `Acyclic` and `DisclosureHonest`.

The other configurations reproduce the findings below, each with the name of its
component; those with several properties are run with `-continue`, to see each of
them violated:

    tlc -workers 2 -continue -config PolicyFindings.cfg MCPolicy

Why the bounds are enough. Two tasks are the least with a dependency, two
sessions the least with a takeover, and a limit of two attempts has a first
attempt, a last attempt and an exhausted budget; fences are bounded by attempts,
not by a cap. `KeysAlone` keeps the key apart from the rest: while it is in use,
one session and first attempts are enough, as no operation with a key looks at
another session. In EventProjection three appends and two tasks give two events
of one task around one of the other, batches of one event make every rebuild
span several transactions, and three grants of a lease give a stale holder, a
takeover and a takeover back; `Bounds` trades grants and appends for the second
consumer. `MaxSequence`, `MaxFence` bound counters that only grow; the last
grant goes to a process that keeps it, so that the bound itself never stops the
system. The liveness runs do not use symmetry.

In AgentRun one worker and one client are the least that can overtake each
other in a call, and the two differ: only the worker has a lease. One
interactive call gives the approval states; two turns give a transcript that a
replayed step could disorder. AgentRunWorkers trades the client for a second
worker, a second call in one response, a retry of each kind and a response over
the budget. `MaxVersion` bounds only how often a client may ask for an external
wait.

In RepositoryChange two operations are the least that can be interrupted in the
middle; the other packets have one operation of each remaining type. One edit
may come before or after any of them, two drives overtake each other with one
key or two. In Ingestion one edit leads to a second manifest, so that a second
job supersedes files of the first; two grants give a stale holder and a return.
`JobsFinish` is also for a tree without files, which has a path of its own in
the code. Validation has the least tree that can differ from the applied one; the
operator's key and the handoff's compete for the one active job, and a second
caller is enough to judge or mark what the first is at. A second run is the
business of ValidationConflict. In Policy two versions are the least that replace each other, and
packs differ in everything the resolver looks at. In Evidence the edges are
chosen so that each is acyclic and both together are not; the requests cut off
in every place where a disclosure may stop. Two instants are the least
with a deadline that is due for archiving before it is due for deletion, and a
request that names the second one in the first is a sweep ahead of the clock; pages
of one row make a corrupt or referenced artifact fill one. `MaxEdits`,
`MaxCrashes`, `MaxDamage`, `MaxTime` and `MaxFence` bound what the environment
does; `Batch` and `BatchSize` are limits of the code at small values.

Deadlock is checked in the task store, the projection and the executor. The
other systems stop for good once their runs, jobs or applications have ended
and the bounded environment has done what it may.

### Fairness

* `TaskStore!LiveSpec`: the clock advances (leases expire, retries become due);
  a claim transaction ends, because its request has a deadline; a `Reliable`
  worker polls, finishes or fails what it holds and is not passed over for ever
  by SKIP LOCKED; every other worker finishes or crashes. Claims use strong
  fairness because other workers' transactions lock rows again and again.
* `EventProjection!LiveSpec`: a `Poller` keeps calling RunBatch; every call ends
  by commit, error or crash; mutations end; nobody rebuilds for ever.
* `AgentRun!LiveSpec`: the clocks advance (`Expire`, `Due`, `Late`). A `Reliable`
  worker is one process that polls for ever (`Worker.Run`), renews in time, is not
  killed and loses no statement; its `Claim` has strong fairness, because the run
  is locked and leased by others again and again, and its steps weak fairness,
  because the gateway and the process runner have timeouts. Nothing is assumed
  about the other worker or about people. `ReservedGrants` keeps one grant for it:
  without that, `MaxFence` grants spent by the crashing worker would stop the
  system, which no bound of the code does.

* `RepositoryChange!LiveSpec`: a call of Apply goes on until it ends or its
  process dies, and the client of an application that is left `applying` calls
  again. Nothing in the server does: an application nobody asks for again stays.
* `Ingestion!LiveSpec`: a `Reliable` worker resumes the job. Jobs are resumed by
  requests, not by a loop of the server, so this is a client, too.
* `Validation!ValidationLiveSpec`: a `Steady` caller finishes what it began and
  submits a handoff again that is not submitted. Its resubmission has strong
  fairness, because a handoff is busy, marked and free again.
* `Evidence!EvidenceLiveSpec`, `Artifact!LiveSpec`: time passes, sweeps end, and an operator keeps calling the
  sweep without naming a time (`OwnSweep`), whatever times others name. Its fairness
  is strong, because another sweep may hold the rows again and again.

The reason why RunsSettle holds is the wall clock: a tool run or a model call
that was left behind by a crash is never finished, the loop finds it in progress
again and again, and `checkWallClock` ends the run.

## Findings

Quoted with their lines in `PROJECT.json`.

1. **A live task is dead-lettered** (`tasks.go:404`). ClaimNext tests the attempt
   budget before the lease, on a row re-read after the candidate query chose it
   from an older snapshot. TaskStoreFindings: LiveLeaseNotDeadLettered.
2. **A session stays busy** (`tasks.go:1011`). A terminal transition frees the
   assigned session only, not one whose lease expired earlier.
   TaskStoreFindings: TerminalFreesSessions.
3. **A projection misses events** (`runtime.go:188`). Sequence numbers are drawn
   at insert and become visible at commit; the cursor passes a lower number that
   commits later. EventProjectionOrder.
4. **A reset with two consumers loses counts** (`task.go:177`). The view is shared
   by the workspace, the cursor is not. EventProjectionReset.
5. **An approved tool runs twice** (`tool_runs.go:204`). MarkStarted returns a
   terminal run without an error, and Execute goes on. ToolExecutorTwice.
6. **Waiting states cannot be committed with observability attached**
   (`agent_runs.go:433`). The state is written as an outcome and is not a valid
   one. AgentRunWaits.
7. **A duplicate of a model call fails the run** (`loop.go:355`). The in-flight
   error is taken for the failure of the call. AgentRunFindings:
   NotFailedMidCall.
8. **A partial effect is recorded as a conflict** (`change/service.go:118`). The
   conflict is tested before the number of applied operations.
   RepositoryChangeFindings: ConflictedLeavesNothing.
9. **Deletes and renames always need recovery** (`change/planner.go:626`). The
   predicted hash leaves absent paths out, the observed one lists them.
   RepositoryChangeFindings: ExecutedIsApplied.
10. **An expired approval admits** (`repository_changes.go:459`).
    RepositoryChangeFindings: ExpiredAdmitsNothing.
11. **A job without files is finished by anyone** (`ingestion.go:633`), cancelled
    or not. IngestionEmpty.
12. **Symbols outlive their file's content** (`ingestion.go:571`). IngestionSymbols.
13. **A passed validation of a task is never recorded** (`validations.go:567`). The
    run wants the task's lease, its receipt a task that is done.
    ValidationFenced: HolderRecords.
14. **Two validations of one tree, one handoff** (`contracts/ingest.go:371`). The
    hash of a job's request has the run that caused it. ValidationConflict.
15. **A verdict without a task's fence** (`validations.go:361`). ValidationFenced:
    TaskChangeJudgedByHolder.
16. **A run with a causation cannot be resumed** (`validation/service.go:203`).
    ValidationCaused.
17. **Four about policies**: the default may be retired, a version retired by an
    activation has no transition, a rollback repeats the key of the first
    activation, and a change without a policy cannot be validated once there is
    a default. PolicyFindings.
18. **Five about artifacts**: a sweep may delete what was just referenced; a sweep
    whose request names a later time archives and deletes before the deadlines
    (`artifact_ops.go:274`: DeletedInTime); the same output of two tools is refused;
    and Delete looks at neither the retention nor the integrity. ArtifactFindings.
19. **A damaged artifact stops all deletions** (`artifact_ops.go:285`).
    ArtifactFindings: CorruptionHoldsUpNothing.
20. **Three about evidence**: an added supersession is not seen by resolution, a
    hash may have two records, and the later of two equal edges fails.
    EvidenceFindings.
21. **An approval is not found by its id** (`tool_runs.go:624`). GetApproval reads
    by the run of the approval: a run of the loop waits on after the decision, and
    an approved tool is in progress or denied, unless the request names the run.
    AgentRunFindings: ApprovedIsResumed.

Smaller things met while modelling: a traversal may return more edges than its
limit when edges are parallel, and `Traverse` drops the truncated flag that
`Disclose` reports; a put over a damaged artifact succeeds; a tree that goes back
to an earlier state is answered with the job it had then; the status `failed` of
an ingest job, and `running` and `abstained` of a validation, are never written; a
repeated proposal or validation fails once its policy is retired instead of
returning the original.

Where a property that should hold is one of these, the neighbouring properties
are stated so that they say what does hold: `LeaseContract` and
`TerminalForever` although tasks can be dead-lettered early, `ViewIsReplay`
although counts may be too low, `UndecidedRunsOnce` for tools that need no
decision.

## Proofs

Each proof module extends the module it is about and proves its theorems from the
assumptions on the constants that the module states; TLC evaluates them on every
run. The induction is over steps: a lemma for each operation says that it
preserves the inductive invariant (`IInv` where nothing else is said), which was
model-checked first. With these proofs every safety invariant and every action
property of the runs holds for all values of the constants, the bounds on
counters (`MaxFence`, `MaxEdits`, ...) included; those that need more than the
assumptions of their module say so below.

### The task store

`TaskStore_proofs` proves, for any sets of tasks, sessions and keys, any
capabilities and any attempt limits up to `MaxTaskAttempts`, from
`TaskStoreAssumption` alone (the sets are disjoint where the code's ids are, and
limits are within what `NormalizeTaskCreate` accepts):

| theorem | statement |
|---|---|
| `Invariance` | `Spec => []IInv`, the inductive invariant |
| `TypeCorrect` | `Spec => []TypeOK` |
| `OwnershipAgreement` | `Spec => []OwnershipAgrees` |
| `AttemptsBounded` | `Spec => []AttemptsBudget` |
| `DependenciesRespected` | `Spec => []ClaimedAfterDependencies` |
| `TerminalStays` | `Spec => TerminalForever` |
| `LeasesRefine` | `Spec => LeaseContract`: every task lease implements `FencedLease` |
| `TablesTellOneStory` | `Spec => []TablesAgree` |
| `MutationsFenced` | `Spec => WorkerMutationsFenced` |

The inductive invariant is `IInv`. None of the properties is inductive alone:
`OwnershipAgrees` survives a claim only if the claimed row was not live, which a
claim concludes from its snapshot; so `SnapshotsSound` says what a snapshot
still tells about the present (a task that was expired in it is expired now, or
its lease or status has moved on), `RowsBorn` and `LeasesBorn` say that rows that
do not exist yet carry nothing, and `ClaimedAfterDependencies` needs that `done`
is never left (`OwnershipAgrees`: a terminal task has no live lease). Each
operation has a lemma that it preserves every conjunct it can disturb; `StepNext`
describes what one step can do to one lease (`LeaseStep`) and one terminal row
(`Frozen`), and `TerminalStays` and `LeasesRefine` follow from it. `TablesInv` adds
that the create key of a task is recorded for it, since two tasks can share a key
only if the second `Create` found it free; with each step that preserves it goes
`Fenced`, what the step may do to a row that somebody holds.

### The tool executor

`ToolExecutor_proofs` proves, for any callers and requests, any policy modes and
any hashes (`ToolExecutorAssumption`: a mode is one of the four, and there is a
value that is no key):

| theorem | statement |
|---|---|
| `ToolInvariance` | `Spec => []IInv` |
| `ToolTypes` | `Spec => []TypeOK` |
| `Admission` | `Spec => []AdmittedBeforeRun` |
| `UndecidedOnce` | `Spec => []UndecidedRunsOnce` |
| `ToldTruly` | `Spec => []ToldWhatIsRecorded` |
| `OutcomesStay` | `Spec => TerminalRowsStay` |

`AdmittedBeforeRun` needs to know why a call is past its checks: `AdmissionsKept`
says that such a call is admitted, and stays so because an approval that was
given is never taken back. `UndecidedRunsOnce` needs to know that nobody else is
there: `UndecidedOwned` says that a request without a decision has one working
caller, the one that reserved it, and that its row is pending until the process
runs. `Reservations` is the same for an interactive request, up to the moment its
approval exists; from then on any number of callers may work on it, which is why
the theorem stops there and finding 5 begins.

### The agent run

`AgentRun_proofs` proves, for any workers, clients, responses, tool calls and
budgets (`AgentRunAssumption`: workers are not clients, a response is not a
failure and asks for a sequence of calls, limits are naturals and a retry policy
allows at least one attempt, as `RetryPolicy.Validate` demands;
`ModesAssumption`: the mode of a rule is one of the four):

| theorem | statement |
|---|---|
| `RunInvariance` | `Spec => []IInv` |
| `RunLeaseRefines` | `Spec => LeaseContract`: the lease of the run implements `FencedLease` |
| `RunTerminalStays` | `Spec => TerminalForever` |
| `NoCallSkipsCheckpoint` | `Spec => []OneCallAhead` |
| `LedgerInvariance` | `Spec => []LedgerInv` |
| `LedgersTellOneStory` | `Spec => []LedgersAgree` |

The first argument is that of compare-and-set. `Fresh` says what the copy a driver read
still tells about the row: its version and attempts are not above those of the
row, it was not terminal, and as long as the versions are equal the states and
attempts are. `Follows` says what every transition does to a copy (the lemmas
`AfterModelFollows`, `AfterToolFollows`, `TransitionFollows`): the version is left
to the store and the attempts never go down. So a commit that the store accepts
starts from the present row, which is not terminal; and a call to the gateway,
made from any copy however old, is under a key that is at most one past the
attempts of the row.

`LedgersAgree` needs more: a commit writes into the transcript what a call
returned some steps ago, perhaps to a driver that has been overtaken. `LedgerInv`
adds to `IInv`:

* `GatewayInv` and `ToolsInv`, the invariants of the two ledgers under the agent
  loop: one caller at a time works on a model call; one at most is about to make the
  approval of an interactive tool run, which is pending until then. `CallsKept` and `RunsKept` say that a finished call
  keeps its outcome, so what a caller was told remains what the ledger has, however
  late the caller uses it.
* `Story(r, call, toolRun)`, of a row: its transcript is in order, its messages are
  numbered as the ledgers number attempts and carry their outcomes, what is pending
  is what the transcript leaves open, turns and asked calls are counted, and the
  earlier attempts of what is waited for have ended.
* `Driven(d)`, of a driver: its copy keeps to the bounds; while its version is that
  of the row it is the row (`SameRow`: all but `due`); it is as `Advance` checked it
  (`Ready`) before it called, under the key that it called; and the tool it calls
  was asked for.
* `Requested`: a reserved tool run was asked for in the transcript, and its earlier
  attempts have ended.

`TransitionTells` is the center of the proof: from a row that tells its story, and the
outcome a driver was told, every transition makes a row that tells one. The store
accepts it only from a copy with the version of the present row, which therefore is
that row; all other copies are stale from then on, and of a stale copy nothing is
claimed about the row. The bounds of `TypeOK` are part of a story (`Bounded`,
`Counted`).

### Event projection

`EventProjection_proofs`, for any tasks, consumers, calls, batch sizes and bounds:

| theorem | statement |
|---|---|
| `ProjectionInvariance` | `Spec => []IInv` |
| `ViewReplays` | `Spec => []ViewIsReplay` |
| `DeliveryOnce` | `Spec => DeliveredOnce` |
| `RebuildDelivers` | `Spec => RebuildComplete` |
| `ConsumerLeasesRefine` | `Spec => LeaseContract` |

`Exclusive` says that a transaction has the newest grant of its consumer, because
it keeps the lease row locked, and is alone with it. `BatchesSound` says that a
batch is what follows the cursor and is applied in order, `CursorSound` that what
was delivered lies behind the cursor, `PromisesSound` that nothing a rebuild
promised lies behind it unread. `AloneReplays` then holds of a consumer that works
alone: what its transaction sees is the replay of what was delivered and of the
part of the batch that it has applied. Finding 3 is why the view is compared with
what was delivered and not with the log.

### Repository changes

`RepositoryChange_proofs`, for any paths, files, packets, proposals and calls:

| theorem | statement |
|---|---|
| `Accounting` | `Spec => []IInv` |
| `ChangesAccounted` | `Spec => []EffectsAccounted` |
| `StaleFenceChangesNothing` | `Spec => StaleOrEndedStays` |

The outcome of an application is written by a call that may not have made the
effects: it found them. The invariant therefore has `EffectsInOrder` (operations
take effect in the order of an admitted packet), `DriveSound` (what a call counts
as done was done) and, for files that nobody else edits and that one application
at a time touches (`Undisturbed`), `NewContent` and `FirstShown`: the files show
the first operation, so that a second execution of it would conflict. Hence
`FailuresClean`: a call that fails at the first operation has found all undone,
and `failed` and `conflicted` mean what they say. That a packet names no path
twice (`PacketSound`) is what the planner ensures.

### Policies

`Policy_proofs`, for any versions, packs, requests and admissions:

| theorem | statement |
|---|---|
| `PolicyInvariance` | `Spec => []IInv` |
| `ActiveUnique` | `Spec => []OneActiveVersion` |
| `AdmissionStrict` | `Spec => []NeverWeaker` |
| `PinnedWhileActive` | `Spec => AdmittedWhileActive` |

Resolution and admission are apart, so `AdmittersSound` says what an admission
knows in between, whatever became of the version: its decision is one that the
pack of the version allows for the request. `PinsSound` is the same for the rows.
`OneActiveVersion` says of a default that its version is active, or was when it was
bound and has been retired since: an activation retires it and leaves the binding
(finding 17, DefaultActive), and `AdmittedWhileActive` holds nevertheless.

### Ingestion and validation

`Validation_proofs`, for any trees, contents, clients, workers, runs and callers:

| theorem | statement |
|---|---|
| `JobsInvariance` | `Spec => []JobsInv` |
| `IndexCorrect` | `Spec => []IndexFollowsJobs` |
| `JobsOnlyAdvance` | `Spec => JobsAdvance` |
| `RunsInvariance` | `ValidationSpec => [](JobsInv /\ RunsInv)` |
| `HandoffsFollow` | `ValidationSpec => []HandoffFollowsRun` |
| `HandoffsKeepIndex` | `ValidationSpec => []IndexFollowsJobs` |
| `JudgedOnlyByHolder` | `ValidationSpec => JudgedByHolder` |

A batch was read outside of its transaction, so `BatchSound` says that it lies
within its manifest and `CheckpointSound` that the ordinals committed so far are
one after the other up to the checkpoint, which is where a batch must start to be
committed. One job is active at a time (`OneActive`); `IndexSound` says that the
index is then that of the last job, except for the files the active one has
reached. A validation shares these tables: its steps are steps of ingestion or
leave the jobs alone, so the invariant of ingestion holds under both
specifications. `CallerSound` says that a caller drives a run with the request of
the run; `CausesSound` that a job which a run caused has the run's key, so that
the job a caller marks is the one of its own handoff.

### Artifacts and evidence

`Evidence_proofs`, for any contents, inputs, records, clients and requests:

| theorem | statement |
|---|---|
| `EvidenceInvariance` | `EvidenceSpec => []EvidenceInv` |
| `SupersessionAcyclic` | `EvidenceSpec => []Acyclic` |
| `DeletionEarned` | `EvidenceSpec => DeletionIsEarned` |
| `DeletedByTheClock` | `Named = {}` implies `EvidenceSpec => DeletedInTime` |
| `ReferencesKept` | `EvidenceSpec => []ReferencedKept` |
| `LineageKept` | `EvidenceSpec => []LineageHolds` |

`EvidenceInv` has the tables of artifacts (`ArtifactsInv`: contents are unique,
references fit their rows, a key and a source identify one), of records
(`RecordsSound`) and of edges. Acyclicity is not inductive as it stands: what a
new edge closes depends on all edges. `EdgesSound` says it with sets. The ends of
every supersession are `Apart`: some set that is closed under supersession holds
the older end and not the newer one. The search for a cycle computes the least
such set, in as many hops as there are records, since a hop that adds nothing is
the last; and the advisory lock keeps its answer true until the edge is inserted.

`DeletionEarned` says of a deletion that its deadlines have passed at the time
that the request goes by, which a caller may name. That they have passed by the
clock needs that no request names a time: `DeletedByTheClock` is about that case,
and ArtifactFindings shows a deletion ahead of its deadline in the other.

A sweep decides on the references of its snapshot, so an artifact that had none with
authority may be deleted although one was made in the meantime (finding 18).
`AuthorityInv` is what holds of every artifact in spite of it: one that all its
references have authority over (`WithAuthorityOnly`) had such a reference since its
first put, so no sweep that selects it fails to see one. It is about each artifact
by itself; others may have references of both kinds, in any order, and of those
`DeletionIsEarned` says that a reference is lost only in this one way.

The hops of a search and of a traversal are recursive functions over numbers. The
library states induction with an operator as a parameter, so the proofs take the
least number for which a statement fails (`LeastElement`, from the
well-foundedness of `<`), and the defining equation of such a function is proved
once (`Hops`, `Walks`).

### What is model-checked only

* Liveness (`TasksSettle`, `CatchesUp`, `RunsSettle`, `ApplicationsFinish`,
  `JobsFinish`, `HandoffSettles`, `SweepsFinish`): the prover has no ENABLED.

Model-checking went with the proofs: an invariant was a run's invariant before it
was proved, on the instances above (489 388 distinct states of RepositoryChange,
2 486 242 of EventProjection, 337 872 of Ingestion, 982 448 of Validation, 110 478
of Evidence, 509 314 of ToolExecutor, 2 431 734 of AgentRun).

## Conventions

Definitions keep the names of the functions they stand for. Next to some of them
stands a variant with a suffix (`ExhaustedNever`, `TokenOfAnyone`, ...): the
same definition with a mistake that could be made in the code. They are used
nowhere in a specification; `mutants` in `PROJECT.json` says which property
fails when a variant takes the place of its original, which shows that the
property depends on that line.

## Not modelled

* The mail and federation endpoints of the server (`server.go:1278-1310`,
  `2120-2183`, `2389-2495`): peers poll each other with a high-water mark, at most
  once and in the order of ids. A module of its own, planned below.
* Identity, observability, evaluation, retrieval, operator view, migrations, local
  runtime, command line, file watcher: sequential code over the stores, or I/O;
  `PROJECT.json` gives the reason for each.
* Work receipts but for those of changes and validations.
* Inside modelled components: `Stream` and fallback providers of the gateway
  (the loop uses neither), `AdvanceCheckpoint` and `RenewConsumerLease` (the
  runner calls neither), replay of a run's events, the phase counter that bounds
  the steps of one `Run` call (it is larger than what the other budgets allow),
  embeddings of chunks, provenance links between artifacts, disclosures of
  everything but evidence, redaction and hashing.
* Steps that are put together because what lies between them changes nothing: the
  two reads of the default policy and its version (the admission checks the version
  again under its lock), a record of evidence with its edges (its transaction has
  the advisory lock from the first supersession to the commit, and the model's step
  needs the lock to be free), a claim's candidate whose lease is renewed after the
  snapshot (it is seen from the step that locks the row).
* Errors of the database are steps that do nothing (`Abandon`, `Interrupted`,
  `Abort`); a commit whose acknowledgement is lost is a commit followed by one
  of these.

## Plan

Done: every module above, and the proofs of all safety and action properties of
the runs.

1. `Federation`: mail, the peers' high-water marks, lost and repeated pulls.
