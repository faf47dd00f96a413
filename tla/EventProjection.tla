---------------------------- MODULE EventProjection ----------------------------
(***************************************************************************)
(* The control-event log and its projection: EventStore.AppendTx, the      *)
(* consumer leases and the checkpoints of internal/store (events.go,       *)
(* leases.go), and the projection runner and the task view of              *)
(* internal/projection.                                                    *)
(*                                                                         *)
(* The sequence number of an event comes from a database sequence when its *)
(* row is inserted, its transaction commits later: appends of different    *)
(* tasks overlap, and those of one task do not, because every mutation     *)
(* locks the task row first.  A batch and a reset are transactions that    *)
(* keep the lease row of their consumer locked from validation to commit.  *)
(* Rows of the view are locked one at a time, which matters when two       *)
(* consumers write the same view.                                          *)
(*                                                                         *)
(* A view row is abstracted to the sequence numbers its fields come from:  *)
(* last stands for status, assigned session and event id.                  *)
(***************************************************************************)
EXTENDS Integers, Sequences, FiniteSets, FiniteSetsExt

CONSTANTS Tasks,        \* tasks that events are about
          Consumers,    \* consumer ids, each with its lease and checkpoint
          Runners,      \* concurrent calls of RunBatch, RunBatchWithLease, Rebuild
          ConsumerOf,   \* the consumer a call works for
          OwnerOf,      \* the owner id of the process that makes the call
          Owners,       \* owner ids
          NoOwner,      \* the owner of a lease that was never acquired
          BatchSize,    \* subscriber.BatchSize()
          MaxSequence,  \* bound on the number of appends
          MaxFence,     \* bound on the number of lease grants
          Pollers       \* runners that keep calling RunBatch

ASSUME EventProjectionAssumption ==
  /\ ConsumerOf \in [Runners -> Consumers]
  /\ OwnerOf \in [Runners -> Owners]
  /\ NoOwner \notin Owners
  /\ BatchSize \in Nat \ {0}
  /\ MaxSequence \in Nat
  /\ MaxFence \in Nat
  /\ Pollers \subseteq Runners

VARIABLES log,         \* fornix.control_events, with the fate of each append
          view,        \* fornix.task_state_projections
          checkpoint,  \* fornix.control_checkpoints
          lease,       \* fornix.consumer_leases
          runner,      \* the calls in progress and their open transactions
          delivered,   \* history: events each consumer committed since its reset
          promised     \* history: events that were committed when a Rebuild reset

vars == <<log, view, checkpoint, lease, runner, delivered, promised>>

\* "status" events carry no result (created, claimed), "outcome" events do, and
\* "other" ones (renewals, events of other components) leave the view alone.
Kinds == {"status", "outcome", "other"}

Entry == [task : Tasks, kind : Kinds, state : {"open", "committed", "aborted"}]

ViewRow == [last : Nat, result : Nat, count : Nat]

NoRow == [last |-> 0, result |-> 0, count |-> 0]

LeaseRow == [fence : Nat, owner : Owners \cup {NoOwner},
             state : {"none", "active", "expired", "released"}]

\* holding: a lease token in memory and no transaction; applying, deleting: in
\* the transaction of a batch, of a reset.  touched: the rows it has locked.
RunnerRow == [pc : {"idle", "holding", "applying", "deleting"}, fence : Nat,
              rebuild : {"no", "reset", "replay"}, batch : SUBSET Nat,
              todo : SUBSET Nat, more : BOOLEAN, touched : SUBSET Tasks,
              rows : [Tasks -> ViewRow], doomed : SUBSET Tasks]

Idle == [pc |-> "idle", fence |-> 0, rebuild |-> "no", batch |-> {}, todo |-> {},
         more |-> FALSE, touched |-> {}, rows |-> [t \in Tasks |-> NoRow], doomed |-> {}]

Init ==
  /\ log = <<>>
  /\ view = [t \in Tasks |-> NoRow]
  /\ checkpoint = [c \in Consumers |-> 0]
  /\ lease = [c \in Consumers |-> [fence |-> 0, owner |-> NoOwner, state |-> "none"]]
  /\ runner = [r \in Runners |-> Idle]
  /\ delivered = [c \in Consumers |-> {}]
  /\ promised = [r \in Runners |-> {}]

------------------------------------------------------------------------------
\* Appending events

Committed == {e \in DOMAIN log : log[e].state = "committed"}

EventsOf(t) == {e \in DOMAIN log : log[e].task = t /\ log[e].kind # "other"}

\* AppendTx draws the next sequence number inside the transaction of a mutation
\* of t, which has the row of t locked.  The first event of a task creates it.
AppendTx(t, kind) ==
  /\ Len(log) < MaxSequence
  /\ \A e \in DOMAIN log : ~(log[e].task = t /\ log[e].state = "open")
  /\ kind = "outcome" => EventsOf(t) \cap Committed # {}
  /\ log' = Append(log, [task |-> t, kind |-> kind, state |-> "open"])
  /\ UNCHANGED <<view, checkpoint, lease, runner, delivered, promised>>

\* The mutation commits, or its rollback leaves a gap in the sequence.
EndAppend(e, fate) ==
  /\ log[e].state = "open"
  /\ log' = [log EXCEPT ![e] = [@ EXCEPT !.state = fate]]
  /\ UNCHANGED <<view, checkpoint, lease, runner, delivered, promised>>

------------------------------------------------------------------------------
\* Consumer leases

InTransaction(r) == runner[r].pc \in {"applying", "deleting"}

LeaseLocked(c) == \E r \in Runners : ConsumerOf[r] = c /\ InTransaction(r)

\* The last grant that MaxFence allows goes to a Poller and is kept (see Release
\* and Expire): the bound never leaves a consumer without a lease.
GrantBound(r) == IF r \in Pollers THEN MaxFence ELSE MaxFence - 1

FenceKept(c) == IF lease[c].fence = 0 THEN 1 ELSE lease[c].fence

\* The insert of a lease starts at fence 1, a takeover adds one.
NextFence(c) == lease[c].fence + 1

\* AcquireConsumerLease at the start of RunBatch or Rebuild: the owner of a live
\* lease gets it again, anybody gets one that is expired or released.
Acquire(r, rebuild) ==
  LET c == ConsumerOf[r]
      o == OwnerOf[r]
  IN  /\ runner[r].pc = "idle"
      /\ ~LeaseLocked(c)
      /\ \/ /\ lease[c].state = "active" /\ lease[c].owner = o
            /\ UNCHANGED lease
         \/ /\ lease[c].state # "active" /\ lease[c].fence < GrantBound(r)
            /\ lease' = [lease EXCEPT ![c] = [fence |-> NextFence(c), owner |-> o, state |-> "active"]]
      /\ runner' = [runner EXCEPT ![r] =
           [Idle EXCEPT !.pc = "holding", !.fence = lease'[c].fence, !.rebuild = rebuild]]
      /\ UNCHANGED <<log, view, checkpoint, delivered, promised>>

TokenOfAnyone(r) == lease[ConsumerOf[r]].state = "active"

\* ValidateConsumerLeaseTx on the token that r has in memory.
TokenValid(r) ==
  LET l == lease[ConsumerOf[r]] IN
    /\ l.fence = runner[r].fence
    /\ l.owner = OwnerOf[r]
    /\ l.state = "active"

\* ReleaseConsumerLease.
Release(r) ==
  /\ runner[r].pc = "holding"
  /\ ~LeaseLocked(ConsumerOf[r])
  /\ TokenValid(r)
  /\ runner[r].fence < MaxFence
  /\ lease' = [lease EXCEPT ![ConsumerOf[r]] = [@ EXCEPT !.state = "released"]]
  /\ runner' = [runner EXCEPT ![r] = Idle]
  /\ UNCHANGED <<log, view, checkpoint, delivered, promised>>

\* The database clock passes lease_until.
Expire(c) ==
  /\ lease[c].state = "active"
  /\ lease[c].fence < MaxFence
  /\ lease' = [lease EXCEPT ![c] = [@ EXCEPT !.state = "expired"]]
  /\ UNCHANGED <<log, view, checkpoint, runner, delivered, promised>>

------------------------------------------------------------------------------
\* A batch

UnreadFromCursor(c) == {e \in Committed : e >= checkpoint[c]}

\* readAfter: committed events beyond the cursor, in sequence order.
Unread(c) == {e \in Committed : e > checkpoint[c]}

FirstOf(S, n) == {e \in S : Cardinality({d \in S : d <= e}) <= n}

HasMoreNever(c) == FALSE

\* One event more than a batch is asked for.
HasMore(c) == Cardinality(Unread(c)) > BatchSize

\* runBatchWithLease up to its first Apply: lease and checkpoint rows are locked,
\* the token is validated, the events are read.
BeginBatch(r) ==
  LET c == ConsumerOf[r]
      B == FirstOf(Unread(c), BatchSize)
  IN  /\ runner[r].pc = "holding"
      /\ runner[r].rebuild # "reset"
      /\ ~LeaseLocked(c)
      /\ TokenValid(r)
      /\ runner' = [runner EXCEPT ![r] =
           [@ EXCEPT !.pc = "applying", !.batch = B, !.todo = B, !.more = HasMore(c)]]
      /\ UNCHANGED <<log, view, checkpoint, lease, delivered, promised>>

\* The row of t as the transaction of r sees it.
RowSeen(r, t) == IF t \in runner[r].touched THEN runner[r].rows[t] ELSE view[t]

AppliedResultReset(row, e) ==
  IF row.last >= e THEN row
  ELSE [last |-> e, result |-> IF log[e].kind = "outcome" THEN e ELSE 0,
        count |-> row.count + 1]

\* TaskProjection.Apply: an event that the row has seen is a duplicate, and one
\* without a result delta keeps the result.
Applied(row, e) ==
  IF row.last >= e THEN row
  ELSE [last |-> e, result |-> IF log[e].kind = "outcome" THEN e ELSE row.result,
        count |-> row.count + 1]

\* The next event of the batch.  A row that another transaction has touched makes
\* this one wait.
Apply(r) ==
  /\ runner[r].pc = "applying"
  /\ runner[r].todo # {}
  /\ LET e == Min(runner[r].todo)
         t == log[e].task
     IN  \/ /\ log[e].kind = "other"
            /\ runner' = [runner EXCEPT ![r].todo = @ \ {e}]
         \/ /\ log[e].kind # "other"
            /\ \A q \in Runners \ {r} : t \notin runner[q].touched
            /\ runner' = [runner EXCEPT ![r].todo = @ \ {e}, ![r].touched = @ \cup {t},
                                        ![r].rows[t] = Applied(RowSeen(r, t), e)]
  /\ UNCHANGED <<log, view, checkpoint, lease, delivered, promised>>

\* What is left of a call when its transaction has committed.  A caller of
\* RunBatchWithLease keeps its token for another batch.
AfterBatch(r) ==
  IF runner[r].rebuild = "replay"
  THEN {IF runner[r].more
        THEN [Idle EXCEPT !.pc = "holding", !.fence = runner[r].fence, !.rebuild = "replay"]
        ELSE Idle}
  ELSE {Idle, [Idle EXCEPT !.pc = "holding", !.fence = runner[r].fence]}

CheckpointAfter(r) ==
  IF runner[r].batch = {} THEN checkpoint[ConsumerOf[r]] ELSE Max(runner[r].batch)

\* AdvanceCheckpointAtTxWithLease validates the token once more, then view and
\* checkpoint commit together.
CommitBatch(r) ==
  LET c == ConsumerOf[r] IN
  /\ runner[r].pc = "applying"
  /\ runner[r].todo = {}
  /\ runner[r].batch # {} => TokenValid(r)
  /\ view' = [t \in Tasks |-> RowSeen(r, t)]
  /\ checkpoint' = [checkpoint EXCEPT ![c] = CheckpointAfter(r)]
  /\ delivered' = [delivered EXCEPT ![c] = @ \cup runner[r].batch]
  /\ \E row \in AfterBatch(r) : runner' = [runner EXCEPT ![r] = row]
  /\ UNCHANGED <<log, lease, promised>>

------------------------------------------------------------------------------
\* A rebuild

\* The reset transaction of Rebuild: rows locked, token validated, and the DELETE
\* has chosen its rows.
BeginReset(r) ==
  /\ runner[r].pc = "holding"
  /\ runner[r].rebuild = "reset"
  /\ ~LeaseLocked(ConsumerOf[r])
  /\ TokenValid(r)
  /\ runner' = [runner EXCEPT ![r] =
       [@ EXCEPT !.pc = "deleting", !.doomed = {t \in Tasks : view[t] # NoRow}]]
  /\ promised' = [promised EXCEPT ![r] = Committed]
  /\ UNCHANGED <<log, view, checkpoint, lease, delivered>>

\* ResetCheckpointTx.
ResetCheckpoint(c) == [checkpoint EXCEPT ![c] = 0]

\* The DELETE has waited for the transactions that touched its rows; rows and
\* cursor are reset together.
CommitReset(r) ==
  LET c == ConsumerOf[r] IN
  /\ runner[r].pc = "deleting"
  /\ \A q \in Runners \ {r} : runner[q].touched \cap runner[r].doomed = {}
  /\ view' = [t \in Tasks |-> IF t \in runner[r].doomed THEN NoRow ELSE view[t]]
  /\ checkpoint' = ResetCheckpoint(c)
  /\ delivered' = [delivered EXCEPT ![c] = {}]
  /\ runner' = [runner EXCEPT ![r] =
       [Idle EXCEPT !.pc = "holding", !.fence = runner[r].fence, !.rebuild = "replay"]]
  /\ UNCHANGED <<log, lease, promised>>

\* A call ends early and its transaction is rolled back: an error, a stale token,
\* a deadlock victim, a lost connection, a crash of the process.
Abandon(r) ==
  /\ runner[r].pc # "idle"
  /\ runner' = [runner EXCEPT ![r] = Idle]
  /\ UNCHANGED <<log, view, checkpoint, lease, delivered, promised>>

------------------------------------------------------------------------------
LogStep ==
  \/ \E t \in Tasks, kind \in Kinds : AppendTx(t, kind)
  \/ \E e \in DOMAIN log, fate \in {"committed", "aborted"} : EndAppend(e, fate)

RunnerStep(r) ==
  \/ \E rebuild \in {"no", "reset"} : Acquire(r, rebuild)
  \/ Release(r)
  \/ BeginBatch(r)
  \/ Apply(r)
  \/ CommitBatch(r)
  \/ BeginReset(r)
  \/ CommitReset(r)
  \/ Abandon(r)

Next ==
  \/ LogStep
  \/ \E c \in Consumers : Expire(c)
  \/ \E r \in Runners : RunnerStep(r)

Spec == Init /\ [][Next]_vars

------------------------------------------------------------------------------
\* What a deployment provides: a Poller keeps calling RunBatch and is not
\* interrupted at the same place for ever, calls of the others and rebuilds end
\* one way or another, mutations end, leases that nobody renews run out, and
\* nobody rebuilds for ever.
Ends(r) ==
  \/ CommitBatch(r)
  \/ CommitReset(r)
  \/ Abandon(r)

Fairness ==
  /\ \A e \in 1..MaxSequence : WF_vars(e \in DOMAIN log /\ EndAppend(e, "committed"))
  /\ \A c \in Consumers : WF_vars(Expire(c))
  /\ \A r \in Runners : WF_vars(Ends(r))
  /\ <>[][\A r \in Runners : ~BeginReset(r)]_vars
  /\ \A r \in Pollers :
       /\ SF_vars(Acquire(r, "no")) /\ SF_vars(BeginBatch(r)) /\ SF_vars(CommitBatch(r))
       /\ \A e \in 1..MaxSequence : SF_vars(e \in runner[r].todo /\ e = Min(runner[r].todo) /\ Apply(r))

LiveSpec == Spec /\ Fairness

------------------------------------------------------------------------------
\* Properties

\* Every table and every call in progress has the shape its schema allows.
TypeOK ==
  /\ log \in Seq(Entry)
  /\ view \in [Tasks -> ViewRow]
  /\ checkpoint \in [Consumers -> Nat]
  /\ lease \in [Consumers -> LeaseRow]
  /\ runner \in [Runners -> RunnerRow]
  /\ delivered \in [Consumers -> SUBSET Nat]
  /\ promised \in [Runners -> SUBSET Nat]

\* The row of t after the events S have been applied to an empty view.
Replay(t, S) ==
  LET E == EventsOf(t) \cap S
      R == {e \in E : log[e].kind = "outcome"}
  IN  IF E = {} THEN NoRow
      ELSE [last |-> Max(E), result |-> IF R = {} THEN 0 ELSE Max(R), count |-> Cardinality(E)]

\* No other consumer has ever had a lease on its cursor.
Alone(c) == \A other \in Consumers \ {c} : lease[other].fence = 0

\* While one consumer works, the view is always what replaying the delivered
\* events gives: whatever crashes, takeovers and resets come between, no event is
\* counted twice and no batch is visible without its checkpoint.  Redelivery by a
\* second consumer of the same view never counts an event twice, and a row never
\* shows an event that did not commit.
ViewIsReplay ==
  /\ TypeOK
  /\ \A c \in Consumers, t \in Tasks : Alone(c) => view[t] = Replay(t, delivered[c])
  /\ \A t \in Tasks :
       LET E == {e \in EventsOf(t) \cap Committed : e <= view[t].last} IN
         /\ view[t].count <= Cardinality(E)
         /\ view[t].last \in E \cup {0}

\* Between two resets a consumer commits every event at most once, although its
\* processes take over from each other, crash and retry: the guards of the view
\* rows are not what makes it so.  Whoever changes the view or a cursor is the
\* owner of the newest grant: a call that lost its lease while it was running
\* writes nothing.
DeliveredOnce ==
  [][/\ \A r \in Runners : CommitBatch(r) => runner[r].batch \cap delivered[ConsumerOf[r]] = {}
     /\ <<view', checkpoint'>> # <<view, checkpoint>> =>
          \E r \in Runners :
            /\ runner'[r] # runner[r]
            /\ runner[r].fence = lease[ConsumerOf[r]].fence
            /\ OwnerOf[r] = lease[ConsumerOf[r]].owner]_vars

\* A Rebuild that reports success has delivered every event that was committed
\* when it reset the view, although it works in several transactions.
RebuildComplete ==
  [][\A r \in Runners :
       CommitBatch(r) /\ runner[r].rebuild = "replay" /\ runner'[r].pc = "idle" =>
         promised[r] \subseteq delivered'[ConsumerOf[r]]]_vars

\* Every consumer lease keeps the contract of FencedLease.
ConsumerLease(c) == INSTANCE FencedLease WITH
  fence <- lease[c].fence, owner <- lease[c].owner, state <- lease[c].state

LeaseContract ==
  /\ \A c \in Consumers : ConsumerLease(c)!Init
  /\ [][\A c \in Consumers : [ConsumerLease(c)!Next]_(ConsumerLease(c)!vars)]_vars

\* While Pollers poll, the cursor passes every committed event.
CatchesUp ==
  \A c \in Consumers, e \in 1..MaxSequence :
    (e \in DOMAIN log /\ log[e].state = "committed") ~> (checkpoint[c] >= e)

\* "Incremental processing and rebuild-from-zero produce the same task projection
\* rows" (docs/18-projection-subscription-foundation.md): the view is what a
\* rebuild up to its cursor would give.
IncrementalEqualsRebuild ==
  \A c \in Consumers, t \in Tasks :
    Alone(c) => view[t] = Replay(t, {e \in Committed : e <= checkpoint[c]})

\* "Runs with different consumer IDs may receive the same event, but projection
\* sequence guards make that duplicate delivery idempotent"
\* (docs/18-projection-subscription-foundation.md): once every consumer has
\* delivered every event the view is what one of them alone would give.
ConsumersAgree ==
  (\A c \in Consumers : delivered[c] = DOMAIN log /\ Committed = DOMAIN log)
    => \A t \in Tasks : view[t] = Replay(t, Committed)
================================================================================
