------------------------------ MODULE TaskStore ------------------------------
(***************************************************************************)
(* The authoritative task state machine of internal/store/tasks.go: tasks, *)
(* their execution leases, the worker sessions, idempotency keys and the   *)
(* lifecycle events, together with the session handlers and the session    *)
(* reaper of internal/server/server.go that write the same rows.           *)
(*                                                                         *)
(* Every operation is one PostgreSQL transaction that locks the task row   *)
(* first, so it is one action here; an error return rolls the transaction  *)
(* back and is a stuttering step.  The exception is ClaimNext, which picks *)
(* its task with FOR UPDATE SKIP LOCKED: the candidates come from the      *)
(* snapshot of the SELECT, and a candidate that another transaction        *)
(* changed in the meantime is checked again with its new task row but with *)
(* the old rows of every other table.  It is therefore two actions,        *)
(* ClaimBegin (session locked, snapshot taken) and ClaimTask or ClaimEmpty *)
(* (row locked, rechecked, written, committed).                            *)
(*                                                                         *)
(* Times are abstracted: a lease is active until ExpireLease, a retry is   *)
(* not due until BecomeDue.                                                *)
(***************************************************************************)
EXTENDS Naturals

CONSTANTS Tasks,          \* task ids that may be allocated, in creation order
          Sessions,       \* worker session ids
          Keys,           \* idempotency keys
          AttemptLimits,  \* values of max_attempts a client may choose
          Capable,        \* Capable[s]: tasks whose capabilities s offers
          SlowWorkers,    \* sessions that may miss a renewal while working
          Reliable,       \* sessions whose process never crashes
          LegacyTasks,    \* tasks that clients also finish without claiming
          NoSession,      \* a NULL session, and the owner of an unclaimed call
          NoKey,          \* a call without an idempotency key
          System          \* the actor of a dead-letter done by a claim

MaxTaskAttempts == 20

ASSUME TaskStoreAssumption ==
  /\ Tasks \subseteq Nat \ {0}
  /\ AttemptLimits \subseteq 1..MaxTaskAttempts
  /\ Capable \in [Sessions -> SUBSET Tasks]
  /\ SlowWorkers \subseteq Sessions
  /\ Reliable \subseteq Sessions
  /\ LegacyTasks \subseteq Tasks
  /\ NoSession \notin Sessions
  /\ System \notin Sessions
  /\ System # NoSession
  /\ NoKey \notin Keys

VARIABLES task,      \* fornix.tasks and fornix.task_dependencies
          lease,     \* fornix.task_execution_leases
          session,   \* fornix.sessions
          idem,      \* fornix.idempotency_records
          event,     \* what the events of a task say about it, folded in order
          claim,     \* the ClaimNext transaction a session has open
          working    \* tasks whose current claimant is still executing

vars == <<task, lease, session, idem, event, claim, working>>

NoTask == 0

Held == {"claimed", "in_progress"}

\* contracts.IsTaskTerminal
Terminal == {"done", "failed", "cancelled", "deadletter"}

Statuses == {"absent", "pending"} \cup Held \cup Terminal

EventTypes == {"none", "task.created", "task.claimed", "task.lease_renewed",
  "task.progressed", "task.retry_scheduled", "task.completed", "task.failed",
  "task.deadlettered", "task.cancelled"}

Owners == Sessions \cup {NoSession}

Fences == 0..MaxTaskAttempts

Operations == {"create", "progress", "complete", "fail", "fail_retryable", "cancel"}

\* What contracts.RequestHash distinguishes in a mutation request.
Request == [op : Operations, task : Tasks, owner : Owners, fence : Fences]

TaskRow == [status : Statuses, assigned : Owners, attempts : Fences,
            max : Fences, fence : Fences, due : BOOLEAN,
            deps : SUBSET Tasks, createKey : Keys \cup {NoKey}]

LeaseStates == {"none", "active", "expired", "released"}

LeaseRow == [fence : Fences, owner : Owners, state : LeaseStates]

SessionRow == [status : {"unregistered", "idle", "busy", "offline"},
               current : Tasks \cup {NoTask}]

EventRow == [type : EventTypes, actor : Owners \cup {System},
             status : Statuses, assigned : Owners]

ClaimRow == [open : BOOLEAN, cand : SUBSET Tasks, expired : SUBSET Tasks]

NoRequest == [op |-> "none", task |-> NoTask, owner |-> NoSession, fence |-> 0]

NoClaim == [open |-> FALSE, cand |-> {}, expired |-> {}]

Init ==
  /\ task = [t \in Tasks |-> [status |-> "absent", assigned |-> NoSession,
               attempts |-> 0, max |-> 0, fence |-> 0, due |-> FALSE,
               deps |-> {}, createKey |-> NoKey]]
  /\ lease = [t \in Tasks |-> [fence |-> 0, owner |-> NoSession, state |-> "none"]]
  /\ session = [s \in Sessions |-> [status |-> "unregistered", current |-> NoTask]]
  /\ idem = [k \in Keys |-> NoRequest]
  /\ event = [t \in Tasks |-> [type |-> "none", actor |-> NoSession,
                status |-> "absent", assigned |-> NoSession]]
  /\ claim = [s \in Sessions |-> NoClaim]
  /\ working = {}

------------------------------------------------------------------------------
\* Idempotency and events

FreshKeyUnchecked(k) == TRUE

\* resolveExistingIdempotencyTx and EventStore.AppendTx: a key that is already
\* recorded either returns the original event or is a conflict.
FreshKey(k) == k # NoKey => idem[k] = NoRequest

RecordKey(k, op, t, o, f) ==
  idem' = IF k = NoKey THEN idem
          ELSE [idem EXCEPT ![k] = [op |-> op, task |-> t, owner |-> o, fence |-> f]]

LifecycleSwapped(type, actor, st, assigned) ==
  [type |-> type, actor |-> assigned, status |-> st, assigned |-> actor]

\* A lifecycle event of t with deltas for its status and assigned session.
Lifecycle(type, actor, st, assigned) ==
  [type |-> type, actor |-> actor, status |-> st, assigned |-> assigned]

------------------------------------------------------------------------------
\* Authorization

HoldsLeaseAnyFence(t, o, f) ==
  /\ o \in Sessions
  /\ f # 0
  /\ task[t].assigned = o
  /\ lease[t].state # "released"

\* authorizeTaskLeaseTx
HoldsLease(t, o, f) ==
  /\ o \in Sessions
  /\ f # 0
  /\ lease[t].fence = f
  /\ lease[t].owner = o
  /\ task[t].assigned = o
  /\ lease[t].state = "active"

\* The legacy path of authorizeTaskMutation: nobody claimed the task.
Unclaimed(t, o, f) ==
  /\ t \in LegacyTasks
  /\ task[t].status = "pending"
  /\ task[t].assigned = NoSession
  /\ o = NoSession
  /\ f = 0

MayMutate(t, o, f) == Unclaimed(t, o, f) \/ HoldsLease(t, o, f)

------------------------------------------------------------------------------
\* Releasing execution ownership

ReleasedLeaseForgotten(t, o) == lease[t]

\* The lease UPDATE of releaseTaskLeaseAndSessionTx.
ReleasedLease(t, o) ==
  IF /\ lease[t].state \in {"active", "expired"}
     /\ lease[t].owner = o
     /\ lease[t].fence = task[t].fence
  THEN [lease[t] EXCEPT !.state = "released"]
  ELSE lease[t]

IdledSessionForgotten(s, T) == session[s]

\* The session UPDATE of releaseTaskLeaseAndSessionTx and transitionDeadLetterTx
\* for the tasks T that end: only the assigned session, only if it points there.
IdledSession(s, T) ==
  IF \E t \in T : task[t].assigned = s /\ session[s].current = t
  THEN [status |-> "idle", current |-> NoTask]
  ELSE session[s]

\* Task t ends its current attempt by call of o, with the status, due flag and
\* event given: the task row is updated and execution ownership is released.
EndAttempt(t, o, st, due, ev) ==
  /\ task' = [task EXCEPT ![t] = [@ EXCEPT !.status = st, !.assigned = NoSession, !.due = due]]
  /\ event' = [event EXCEPT ![t] = ev]
  /\ lease' = [lease EXCEPT ![t] = ReleasedLease(t, o)]
  /\ session' = [s \in Sessions |-> IdledSession(s, {t})]
  /\ working' = working \ {t}
  /\ UNCHANGED claim

------------------------------------------------------------------------------
\* Operations of TaskStore

\* Ids come from a sequence, so a new task is younger than every other one, and
\* its dependencies must already exist.
Create(t, deps, max, k) ==
  /\ task[t].status = "absent"
  /\ \A u \in Tasks : u >= t => task[u].status = "absent"
  /\ \A d \in deps : task[d].status # "absent" /\ d # t
  /\ FreshKey(k)
  /\ task' = [task EXCEPT ![t] = [status |-> "pending", assigned |-> NoSession,
                attempts |-> 0, max |-> max, fence |-> 0, due |-> TRUE,
                deps |-> deps, createKey |-> k]]
  /\ event' = [event EXCEPT ![t] = Lifecycle("task.created", NoSession, "pending", NoSession)]
  /\ RecordKey(k, "create", t, NoSession, 0)
  /\ UNCHANGED <<lease, session, claim, working>>

DependenciesMet(t) == \A d \in task[t].deps : task[d].status = "done"

ClaimableOnceDependenciesEnd(s) ==
  {t \in Tasks : /\ t \in Capable[s]
                 /\ \/ task[t].status = "pending" /\ task[t].due
                    \/ task[t].status \in Held /\ lease[t].state = "expired"
                 /\ \A d \in task[t].deps : task[d].status \in Terminal}

\* selectClaimableTaskTx, evaluated on the snapshot of the statement.
Claimable(s) ==
  {t \in Tasks : /\ t \in Capable[s]
                 /\ \/ task[t].status = "pending" /\ task[t].due
                    \/ task[t].status \in Held /\ lease[t].state = "expired"
                 /\ DependenciesMet(t)}

\* ClaimNext up to its candidate query: the session row is locked, a session
\* that is busy with a task is turned away.  An optional target task narrows
\* the query.
ClaimBegin(s, targets) ==
  /\ ~claim[s].open
  /\ session[s].status # "unregistered"
  /\ ~(session[s].current # NoTask /\ session[s].status = "busy")
  /\ claim' = [claim EXCEPT ![s] =
       [open |-> TRUE, cand |-> Claimable(s) \cap targets,
        expired |-> {t \in Tasks : lease[t].state = "expired"}]]
  /\ UNCHANGED <<task, lease, session, idem, event, working>>

RecheckedTrusting(s, t) == t \in claim[s].cand

\* The candidate query locks t: its row is read again, its lease is not.
Rechecked(s, t) ==
  /\ t \in claim[s].cand
  /\ \/ task[t].status = "pending" /\ task[t].due
     \/ task[t].status \in Held /\ t \in claim[s].expired

ExhaustedNever(t) == FALSE

Exhausted(t) == task[t].attempts >= task[t].max

SameFence(t) == IF lease[t].fence = 0 THEN 1 ELSE lease[t].fence

\* The first grant inserts fence 1, every takeover adds one.
NextFence(t) == lease[t].fence + 1

\* transitionDeadLetterTx for the tasks T that ClaimNext found exhausted.
DeadLetteredTask(t) ==
  [task[t] EXCEPT !.status = "deadletter", !.assigned = NoSession, !.due = TRUE]

DeadLetteredLease(t) ==
  IF lease[t].state \in {"active", "expired"}
  THEN [lease[t] EXCEPT !.state = "released"]
  ELSE lease[t]

DeadLetterEvent == Lifecycle("task.deadlettered", System, "deadletter", NoSession)

DeadLetters(s) == {t \in Tasks : Rechecked(s, t) /\ Exhausted(t)}

\* ClaimNext finds t, dead-letters the exhausted tasks D on the way and grants t
\* to s.  A candidate may be passed over: another transaction has it locked.
ClaimTask(s, t, D) ==
  /\ claim[s].open
  /\ Rechecked(s, t)
  /\ ~Exhausted(t)
  /\ lease[t].state # "active"
  /\ D \subseteq DeadLetters(s)
  /\ LET f == NextFence(t) IN
       /\ task' = [x \in Tasks |->
            CASE x \in D -> DeadLetteredTask(x)
              [] x = t -> [task[x] EXCEPT !.status = "claimed", !.assigned = s,
                             !.attempts = @ + 1, !.fence = f, !.due = TRUE]
              [] OTHER -> task[x]]
       /\ lease' = [x \in Tasks |->
            CASE x \in D -> DeadLetteredLease(x)
              [] x = t -> [fence |-> f, owner |-> s, state |-> "active"]
              [] OTHER -> lease[x]]
  /\ session' = [x \in Sessions |->
       IF x = s THEN [status |-> "busy", current |-> t] ELSE IdledSession(x, D)]
  /\ event' = [x \in Tasks |->
       CASE x \in D -> DeadLetterEvent
         [] x = t -> Lifecycle("task.claimed", s, "claimed", s)
         [] OTHER -> event[x]]
  /\ claim' = [claim EXCEPT ![s] = NoClaim]
  /\ working' = (working \ D) \cup {t}
  /\ UNCHANGED idem

\* ClaimNext ends without a grant: nothing (more) is ready and the dead-letters
\* D commit, or with D = {} the transaction rolled back (ErrTaskLeaseHeld, lost
\* connection).
ClaimEmpty(s, D) ==
  /\ claim[s].open
  /\ D \subseteq DeadLetters(s)
  /\ task' = [x \in Tasks |-> IF x \in D THEN DeadLetteredTask(x) ELSE task[x]]
  /\ lease' = [x \in Tasks |-> IF x \in D THEN DeadLetteredLease(x) ELSE lease[x]]
  /\ session' = [x \in Sessions |-> IdledSession(x, D)]
  /\ event' = [x \in Tasks |-> IF x \in D THEN DeadLetterEvent ELSE event[x]]
  /\ claim' = [claim EXCEPT ![s] = NoClaim]
  /\ working' = working \ D
  /\ UNCHANGED idem

\* Renew: the lease stays active for longer and the log says so.
Renew(t, o, f) ==
  /\ HoldsLease(t, o, f)
  /\ event' = [event EXCEPT ![t] = [@ EXCEPT !.type = "task.lease_renewed", !.actor = o]]
  /\ UNCHANGED <<task, lease, session, idem, claim, working>>

\* Complete with status in_progress: there is no check for a terminal task, the
\* released lease has to stop it.
Progress(t, o, f, k) ==
  /\ FreshKey(k)
  /\ HoldsLease(t, o, f)
  /\ task' = [task EXCEPT ![t] =
       [@ EXCEPT !.status = "in_progress", !.assigned = o, !.due = TRUE]]
  /\ event' = [event EXCEPT ![t] = Lifecycle("task.progressed", o, "in_progress", o)]
  /\ RecordKey(k, "progress", t, o, f)
  /\ UNCHANGED <<lease, session, claim, working>>

\* Complete with status done.
Complete(t, o, f, k) ==
  /\ FreshKey(k)
  /\ task[t].status \notin Terminal
  /\ MayMutate(t, o, f)
  /\ EndAttempt(t, o, "done", TRUE, Lifecycle("task.completed", o, "done", NoSession))
  /\ RecordKey(k, "complete", t, o, f)

\* A failed attempt is repeated while the attempt budget lasts.
WillRetry(t, retryable) == retryable /\ task[t].attempts < task[t].max

Fail(t, o, f, k, retryable) ==
  /\ FreshKey(k)
  /\ task[t].status \notin Terminal
  /\ MayMutate(t, o, f)
  /\ \/ /\ WillRetry(t, retryable)
        /\ EndAttempt(t, o, "pending", FALSE,
             Lifecycle("task.retry_scheduled", o, "pending", NoSession))
     \/ /\ retryable /\ ~WillRetry(t, retryable)
        /\ EndAttempt(t, o, "deadletter", TRUE,
             Lifecycle("task.deadlettered", o, "deadletter", NoSession))
     \/ /\ ~retryable
        /\ EndAttempt(t, o, "failed", TRUE,
             Lifecycle("task.failed", o, "failed", NoSession))
  /\ RecordKey(k, IF retryable THEN "fail_retryable" ELSE "fail", t, o, f)

Cancel(t, o, f, k) ==
  /\ FreshKey(k)
  /\ task[t].status \notin Terminal
  /\ MayMutate(t, o, f)
  /\ EndAttempt(t, o, "cancelled", TRUE,
       Lifecycle("task.cancelled", o, "cancelled", NoSession))
  /\ RecordKey(k, "cancel", t, o, f)

------------------------------------------------------------------------------
\* Session handlers and the reaper.  A session row that a ClaimNext transaction
\* has locked waits for it.

Register(s) ==
  /\ ~claim[s].open
  /\ \/ /\ session[s].status = "unregistered"
        /\ session' = [session EXCEPT ![s] = [status |-> "idle", current |-> NoTask]]
     \/ /\ session[s].status = "offline"
        /\ session' = [session EXCEPT ![s] = [@ EXCEPT !.status = "idle"]]
  /\ UNCHANGED <<task, lease, idem, event, claim, working>>

Heartbeat(s) ==
  /\ ~claim[s].open
  /\ session[s].status = "offline"
  /\ session' = [session EXCEPT ![s] = [@ EXCEPT !.status = "idle"]]
  /\ UNCHANGED <<task, lease, idem, event, claim, working>>

\* sessionsReaper: s sent no heartbeat for 90 seconds.  Renew does not count as
\* one, so a session that works for long may be reaped too.
Reap(s) ==
  /\ ~claim[s].open
  /\ session[s].status \notin {"unregistered", "offline"}
  /\ session' = [session EXCEPT ![s] = [status |-> "offline", current |-> NoTask]]
  /\ UNCHANGED <<task, lease, idem, event, claim, working>>

------------------------------------------------------------------------------
\* Time and the worker processes

\* lease_until passes: its holder stopped, or is too slow to renew it.
ExpireLease(t) ==
  /\ lease[t].state = "active"
  /\ t \notin working \/ lease[t].owner \in SlowWorkers
  /\ lease' = [lease EXCEPT ![t] = [@ EXCEPT !.state = "expired"]]
  /\ UNCHANGED <<task, session, idem, event, claim, working>>

\* next_attempt_at passes.
BecomeDue(t) ==
  /\ task[t].status = "pending"
  /\ ~task[t].due
  /\ task' = [task EXCEPT ![t] = [@ EXCEPT !.due = TRUE]]
  /\ UNCHANGED <<lease, session, idem, event, claim, working>>

\* The worker process of s dies: it forgets its tasks, and the database rolls
\* back the transaction it had open.
Crash(s) ==
  /\ s \notin Reliable
  /\ \E t \in working : task[t].assigned = s
  /\ working' = {t \in working : task[t].assigned # s}
  /\ claim' = [claim EXCEPT ![s] = NoClaim]
  /\ UNCHANGED <<task, lease, session, idem, event>>

------------------------------------------------------------------------------
\* A call may come from anybody, carry any fence that t may have had and be
\* delivered again.
OutcomeCall(t, o, f, k) ==
  \/ Progress(t, o, f, k)
  \/ Complete(t, o, f, k)
  \/ \E retryable \in BOOLEAN : Fail(t, o, f, k, retryable)
  \/ Cancel(t, o, f, k)

TaskCall(t) ==
  \/ \E deps \in SUBSET {u \in Tasks : u < t}, max \in AttemptLimits, k \in Keys \cup {NoKey} :
       Create(t, deps, max, k)
  \/ \E o \in Owners, f \in 0..task[t].max :
       \/ Renew(t, o, f)
       \/ \E k \in Keys \cup {NoKey} : OutcomeCall(t, o, f, k)

ClaimEnd(s) ==
  \/ \E t \in Tasks, D \in SUBSET DeadLetters(s) : ClaimTask(s, t, D)
  \/ \E D \in SUBSET DeadLetters(s) : ClaimEmpty(s, D)

ClaimStep(s) ==
  \/ \E targets \in {Tasks} \cup {{t} : t \in Tasks} : ClaimBegin(s, targets)
  \/ ClaimEnd(s)

Next ==
  \/ \E t \in Tasks : TaskCall(t) \/ ExpireLease(t) \/ BecomeDue(t)
  \/ \E s \in Sessions : ClaimStep(s) \/ Register(s) \/ Heartbeat(s) \/ Reap(s) \/ Crash(s)

Spec == Init /\ [][Next]_vars

\* What a deployment provides: a Reliable worker that can claim keeps polling,
\* SKIP LOCKED does not pass over the same ready task for ever, a Reliable worker
\* finishes or fails the task it holds, any other one does so or crashes, every
\* claim transaction ends (its request has a deadline), and the clock advances.
ClaimTakes(s, t) ==
  \/ \E D \in SUBSET DeadLetters(s), u \in Tasks : (u = t \/ t \in D) /\ ClaimTask(s, u, D)
  \/ \E D \in SUBSET DeadLetters(s) : t \in D /\ ClaimEmpty(s, D)

Finish(s, t) ==
  \/ Complete(t, s, task[t].fence, NoKey)
  \/ \E retryable \in BOOLEAN : Fail(t, s, task[t].fence, NoKey, retryable)

Fairness ==
  /\ \A t \in Tasks : WF_vars(ExpireLease(t)) /\ WF_vars(BecomeDue(t))
  /\ \A s \in Sessions : WF_vars(ClaimEnd(s))
  /\ \A s \in Reliable :
       /\ WF_vars(Register(s))
       /\ SF_vars(ClaimBegin(s, Tasks))
       /\ \A t \in Tasks : SF_vars(ClaimTakes(s, t)) /\ WF_vars(Finish(s, t))
  /\ \A s \in Sessions \ Reliable, t \in Tasks : WF_vars(Finish(s, t) \/ Crash(s))

LiveSpec == Spec /\ Fairness

------------------------------------------------------------------------------
\* Properties

\* Every table holds rows of the shape its schema and the Go structs allow.
TypeOK ==
  /\ task \in [Tasks -> TaskRow]
  /\ lease \in [Tasks -> LeaseRow]
  /\ session \in [Sessions -> SessionRow]
  /\ idem \in [Keys -> Request \cup {NoRequest}]
  /\ event \in [Tasks -> EventRow]
  /\ claim \in [Sessions -> ClaimRow]
  /\ working \subseteq Tasks

\* The task row and the lease row, written by different statements of different
\* operations, tell the same story: a task is claimed or in progress exactly
\* when its lease is unreleased, and then both name the same owner and fence.
OwnershipAgrees ==
  \A t \in Tasks :
    /\ task[t].fence = lease[t].fence
    /\ task[t].status \in Held <=> lease[t].state \in {"active", "expired"}
    /\ task[t].status \in Held => task[t].assigned = lease[t].owner
    /\ task[t].status \notin Held => task[t].assigned = NoSession

\* Every grant spends one attempt and one fence, however claims, takeovers,
\* retries and dead-letters interleave, so the fence stays within max_attempts
\* and ErrTaskFenceExhausted is out of reach.
AttemptsBudget ==
  \A t \in Tasks : task[t].attempts = lease[t].fence /\ task[t].attempts <= task[t].max

\* Nobody works on a task one of whose dependencies is not done, although the
\* dependencies are only read in the snapshot of the claim.
ClaimedAfterDependencies ==
  \A t \in Tasks : task[t].status \in Held => DependenciesMet(t)

\* The tables tell one story.  Replaying the deltas of a task's events gives its
\* row: no operation changes status or owner without saying so in the log.  A
\* create key that is delivered twice, or reused by another operation, makes at
\* most one task.  And only a busy session points at a task, the reason why the
\* test at the head of ClaimNext stops a session from taking a second one unnoticed.
TablesAgree ==
  /\ \A t \in Tasks : event[t].status = task[t].status /\ event[t].assigned = task[t].assigned
  /\ \A t, u \in Tasks :
       task[t].createKey # NoKey /\ task[t].createKey = task[u].createKey => t = u
  /\ \A s \in Sessions : session[s].status # "busy" => session[s].current = NoTask

\* Once a task is terminal no late outcome, progress report, takeover or
\* dead-letter touches its row or its lease again.
TerminalForever ==
  [][\A t \in Tasks : task[t].status \in Terminal =>
       task'[t] = task[t] /\ lease'[t] = lease[t]]_vars

\* The row of a task that somebody holds is changed by a worker only under a
\* live lease it owns, or by a claim that takes over an expired one.
WorkerMutationsFenced ==
  [][\A t \in Tasks :
       task[t].status \in Held /\ task'[t] # task[t] /\ event'[t].actor # System =>
         \/ lease[t].state = "active" /\ event'[t].actor = lease[t].owner
         \/ lease[t].state = "expired" /\ event'[t].type = "task.claimed"]_vars

\* Every task lease keeps the contract of FencedLease.
TaskLease(t) == INSTANCE FencedLease WITH
  Owners <- Sessions, NoOwner <- NoSession,
  fence <- lease[t].fence, owner <- lease[t].owner, state <- lease[t].state

LeaseContract ==
  /\ \A t \in Tasks : TaskLease(t)!Init
  /\ [][\A t \in Tasks : [TaskLease(t)!Next]_(TaskLease(t)!vars)]_vars

\* While one worker neither crashes nor misses a renewal, every task whose
\* dependencies succeed reaches a terminal state, whatever the others do.
TasksSettle ==
  \A t \in Tasks :
    (task[t].status # "absent" /\ DependenciesMet(t)) ~> (task[t].status \in Terminal)

\* Terminal transitions make "the worker session idle when it still points at
\* the task" (docs/22-task-execution-foundation.md): no session keeps pointing
\* at a task that has ended.
TerminalFreesSessions ==
  \A s \in Sessions :
    session[s].current # NoTask => task[session[s].current].status \notin Terminal

\* "Every mutation of a claimed task checks ... owner, exact fence, unreleased
\* state, and database-clock expiry" (docs/22-task-execution-foundation.md): a
\* claim does not dead-letter a task whose lease is live.
LiveLeaseNotDeadLettered ==
  [][\A t \in Tasks : lease[t].state = "active" /\ task[t].status # "deadletter"
        /\ task'[t].status = "deadletter" => event'[t].actor = lease[t].owner]_vars
==============================================================================
