--------------------------- MODULE TaskStore_proofs ---------------------------
(***************************************************************************)
(* Proofs about TaskStore for every set of tasks, sessions and keys.  The  *)
(* inductive invariant couples the task row with its lease row and with    *)
(* the snapshots of the claims that are in flight.                         *)
(***************************************************************************)
EXTENDS TaskStore, TLAPS

\* A row is absent only before anything happened to it; max_attempts is fixed
\* by the creation.
RowsBorn ==
  \A t \in Tasks :
    IF task[t].status = "absent"
    THEN task[t].attempts = 0 /\ task[t].assigned = NoSession
    ELSE task[t].max \in AttemptLimits

\* Whatever happened since the snapshot, a candidate exists and its
\* dependencies are still done: done is terminal.
SnapshotsSound ==
  \A s \in Sessions : \A t \in claim[s].cand :
    task[t].status # "absent" /\ DependenciesMet(t)

\* The lease of a task that was never claimed has no row.
LeasesBorn ==
  \A t \in Tasks :
    IF lease[t].state = "none"
    THEN lease[t].fence = 0 /\ lease[t].owner = NoSession
    ELSE lease[t].fence # 0 /\ lease[t].owner \in Sessions

\* The inductive invariant.
IInv ==
  /\ TypeOK
  /\ OwnershipAgrees
  /\ AttemptsBudget
  /\ RowsBorn
  /\ LeasesBorn
  /\ SnapshotsSound
  /\ ClaimedAfterDependencies

------------------------------------------------------------------------------
\* Type correctness

\* The values that appear in rows besides those given by the caller.
LEMMA Constants ==
  /\ NoSession \in Owners /\ Sessions \subseteq Owners
  /\ 0 \in Fences /\ AttemptLimits \subseteq Fences
  /\ Held \subseteq Statuses /\ Terminal \subseteq Statuses
  /\ {"absent", "pending", "claimed", "in_progress", "done", "failed",
      "cancelled", "deadletter"} \subseteq Statuses
  /\ Held \cap Terminal = {}
BY TaskStoreAssumption DEF Owners, Fences, MaxTaskAttempts, Statuses, Held, Terminal

\* Recording a key keeps the idempotency table well-typed.
LEMMA RecordKeyType ==
  ASSUME idem \in [Keys -> Request \cup {NoRequest}],
         NEW k \in Keys \cup {NoKey}, NEW op \in Operations, NEW t \in Tasks,
         NEW o \in Owners, NEW f \in Fences, RecordKey(k, op, t, o, f)
  PROVE  idem' \in [Keys -> Request \cup {NoRequest}]
BY DEF RecordKey, Request

\* The end of an attempt keeps task, lease, session and event rows well-typed.
LEMMA EndAttemptType ==
  ASSUME TypeOK, NEW t \in Tasks, NEW o \in Owners,
         NEW st \in Statuses, NEW due \in BOOLEAN,
         NEW type \in EventTypes,
         EndAttempt(t, o, st, due, Lifecycle(type, o, st, NoSession)),
         idem' \in [Keys -> Request \cup {NoRequest}]
  PROVE  TypeOK'
<1>1. task' \in [Tasks -> TaskRow]
  BY Constants, ZenonT(60) DEF TypeOK, EndAttempt, TaskRow
<1>2. lease' \in [Tasks -> LeaseRow]
  BY DEF TypeOK, EndAttempt, ReleasedLease, LeaseRow, LeaseStates
<1>3. session' \in [Sessions -> SessionRow]
  BY DEF TypeOK, EndAttempt, IdledSession, SessionRow
<1>4. event' \in [Tasks -> EventRow]
  BY Constants DEF TypeOK, EndAttempt, Lifecycle, EventRow
<1> QED BY <1>1, <1>2, <1>3, <1>4 DEF TypeOK, EndAttempt

------------------------------------------------------------------------------
\* The invariant is inductive: one lemma for each kind of step

\* The empty database satisfies the invariant.
LEMMA InvInit == Init => IInv
<1> SUFFICES ASSUME Init PROVE IInv
  OBVIOUS
<1>1. TypeOK
  BY Constants DEF Init, TypeOK, TaskRow, LeaseRow, LeaseStates, SessionRow,
     EventRow, ClaimRow, EventTypes, NoClaim
<1>2. OwnershipAgrees /\ AttemptsBudget /\ RowsBorn /\ LeasesBorn
  BY Constants DEF Init, OwnershipAgrees, AttemptsBudget, RowsBorn, LeasesBorn, Held
<1>3. SnapshotsSound /\ ClaimedAfterDependencies
  BY DEF Init, SnapshotsSound, ClaimedAfterDependencies, NoClaim, Held
<1> QED BY <1>1, <1>2, <1>3 DEF IInv

\* A step that leaves done tasks done and dependencies alone keeps every
\* snapshot sound.
LEMMA DependenciesKept ==
  ASSUME NEW t \in Tasks, task[t].deps \subseteq Tasks, DependenciesMet(t),
         task'[t].deps = task[t].deps,
         \A u \in Tasks : task[u].status = "done" => task'[u].status = "done"
  PROVE  DependenciesMet(t)'
BY DEF DependenciesMet

\* Complete, Fail and Cancel end the attempt of a task that is not terminal.
LEMMA InvEndAttempt ==
  ASSUME IInv, NEW t \in Tasks, NEW o \in Owners, NEW f,
         NEW st \in {"pending"} \cup Terminal, NEW due \in BOOLEAN,
         NEW type \in EventTypes,
         task[t].status \in {"pending"} \cup Held, MayMutate(t, o, f),
         EndAttempt(t, o, st, due, Lifecycle(type, o, st, NoSession)),
         idem' \in [Keys -> Request \cup {NoRequest}]
  PROVE  IInv'
<1>1. TypeOK'
  <2>1. st \in Statuses
    BY Constants
  <2> QED BY <2>1, EndAttemptType DEF IInv
<1>2. /\ task'[t].status = st /\ task'[t].assigned = NoSession
      /\ task'[t].attempts = task[t].attempts /\ task'[t].max = task[t].max
      /\ task'[t].fence = task[t].fence /\ task'[t].deps = task[t].deps
      /\ \A u \in Tasks : u # t => task'[u] = task[u]
  BY DEF IInv, TypeOK, EndAttempt, TaskRow
<1>3. \A u \in Tasks : u # t => lease'[u] = lease[u]
  BY DEF IInv, TypeOK, EndAttempt
<1>4. /\ lease'[t].fence = lease[t].fence /\ lease'[t].owner = lease[t].owner
      /\ lease'[t].state \notin {"active", "expired"}
      /\ lease'[t].state = "none" <=> lease[t].state = "none"
  <2>1. lease'[t] = ReleasedLease(t, o)
    BY DEF IInv, TypeOK, EndAttempt
  <2>2. lease[t] \in LeaseRow
    BY DEF IInv, TypeOK
  <2>3. CASE Unclaimed(t, o, f)
    <3>1. lease[t].state \notin {"active", "expired"}
      BY <2>3 DEF Unclaimed, IInv, OwnershipAgrees, Held
    <3> QED BY <2>1, <3>1 DEF ReleasedLease
  <2>4. CASE HoldsLease(t, o, f)
    <3>1. lease[t].state = "active" /\ lease[t].owner = o
      BY <2>4 DEF HoldsLease
    <3>2. lease[t].fence = task[t].fence
      BY DEF IInv, OwnershipAgrees
    <3>3. lease'[t] = [lease[t] EXCEPT !.state = "released"]
      BY <2>1, <3>1, <3>2 DEF ReleasedLease
    <3> QED BY <2>2, <3>1, <3>3 DEF LeaseRow
  <2> QED BY <2>3, <2>4 DEF MayMutate
<1>5. st \notin Held /\ st # "absent"
  BY DEF Held, Terminal
<1>6. task[t].status \notin {"absent", "done"}
  BY DEF Held
<1>7. OwnershipAgrees'
  BY <1>2, <1>3, <1>4, <1>5 DEF IInv, OwnershipAgrees
<1>8. AttemptsBudget'
  BY <1>2, <1>3, <1>4 DEF IInv, AttemptsBudget
<1>9. RowsBorn' /\ LeasesBorn'
  BY <1>2, <1>3, <1>4, <1>5, <1>6 DEF IInv, RowsBorn, LeasesBorn
<1>10. \A u \in Tasks : DependenciesMet(u) => DependenciesMet(u)'
  <2>1. \A u \in Tasks : task[u].status = "done" => task'[u].status = "done"
    BY <1>2, <1>6
  <2>2. \A u \in Tasks : task'[u].deps = task[u].deps /\ task[u].deps \subseteq Tasks
    BY <1>2 DEF IInv, TypeOK, TaskRow
  <2> QED BY <2>1, <2>2, DependenciesKept
<1>11. SnapshotsSound'
  <2>1. claim' = claim /\ \A s \in Sessions : claim[s].cand \subseteq Tasks
    BY DEF EndAttempt, IInv, TypeOK, ClaimRow
  <2> QED BY <1>2, <1>5, <1>10, <2>1 DEF IInv, SnapshotsSound
<1>12. ClaimedAfterDependencies'
  BY <1>2, <1>5, <1>10 DEF IInv, ClaimedAfterDependencies
<1> QED BY <1>1, <1>7, <1>8, <1>9, <1>11, <1>12 DEF IInv

\* What ClaimTask and ClaimEmpty do to the exhausted tasks they dead-letter.
LEMMA DeadLetterRows ==
  ASSUME IInv, NEW s \in Sessions, NEW D \in SUBSET DeadLetters(s), NEW x \in D
  PROVE  /\ x \in Tasks /\ task[x].status \in {"pending"} \cup Held
         /\ task[x].attempts >= task[x].max
         /\ DeadLetteredTask(x) \in TaskRow
         /\ DeadLetteredTask(x).status = "deadletter"
         /\ DeadLetteredTask(x).assigned = NoSession
         /\ DeadLetteredTask(x).attempts = task[x].attempts
         /\ DeadLetteredTask(x).max = task[x].max
         /\ DeadLetteredTask(x).fence = task[x].fence
         /\ DeadLetteredTask(x).deps = task[x].deps
         /\ DeadLetteredLease(x) \in LeaseRow
         /\ DeadLetteredLease(x).fence = lease[x].fence
         /\ DeadLetteredLease(x).owner = lease[x].owner
         /\ DeadLetteredLease(x).state \notin {"active", "expired"}
         /\ DeadLetteredLease(x).state = "none" <=> lease[x].state = "none"
<1>1. x \in Tasks /\ task[x].status \in {"pending"} \cup Held /\ task[x].attempts >= task[x].max
  BY DEF DeadLetters, Rechecked, Exhausted
<1>2. task[x] \in TaskRow /\ lease[x] \in LeaseRow
  BY <1>1 DEF IInv, TypeOK
<1>3. "deadletter" \in Statuses /\ NoSession \in Owners
  BY Constants
<1>4. DeadLetteredTask(x) \in TaskRow
  BY <1>2, <1>3 DEF DeadLetteredTask, TaskRow
<1>5. /\ DeadLetteredTask(x).status = "deadletter"
      /\ DeadLetteredTask(x).assigned = NoSession
      /\ DeadLetteredTask(x).attempts = task[x].attempts
      /\ DeadLetteredTask(x).max = task[x].max
      /\ DeadLetteredTask(x).fence = task[x].fence
      /\ DeadLetteredTask(x).deps = task[x].deps
  BY <1>2 DEF DeadLetteredTask, TaskRow
<1>6. /\ DeadLetteredLease(x) \in LeaseRow
      /\ DeadLetteredLease(x).fence = lease[x].fence
      /\ DeadLetteredLease(x).owner = lease[x].owner
      /\ DeadLetteredLease(x).state \notin {"active", "expired"}
      /\ DeadLetteredLease(x).state = "none" <=> lease[x].state = "none"
  BY <1>2 DEF DeadLetteredLease, LeaseRow, LeaseStates
<1> QED BY <1>1, <1>4, <1>5, <1>6

\* Sessions stay well-typed when some of them are idled.
LEMMA IdledSessionType ==
  ASSUME TypeOK, NEW s \in Sessions, NEW T
  PROVE  IdledSession(s, T) \in SessionRow
BY DEF TypeOK, IdledSession, SessionRow

\* A claim that ends without a grant.
LEMMA InvClaimEmpty ==
  ASSUME IInv, NEW s \in Sessions, NEW D \in SUBSET DeadLetters(s), ClaimEmpty(s, D)
  PROVE  IInv'
<1>1. D \subseteq Tasks
  BY DeadLetterRows
<1>2. \A x \in Tasks : /\ x \in D => task'[x] = DeadLetteredTask(x) /\ lease'[x] = DeadLetteredLease(x)
                       /\ x \notin D => task'[x] = task[x] /\ lease'[x] = lease[x]
  BY DEF ClaimEmpty
<1>3. TypeOK'
  <2>1. task' \in [Tasks -> TaskRow] /\ lease' \in [Tasks -> LeaseRow]
    BY DeadLetterRows DEF ClaimEmpty, IInv, TypeOK
  <2>2. session' \in [Sessions -> SessionRow]
    BY IdledSessionType DEF ClaimEmpty, IInv
  <2>3. DeadLetterEvent \in EventRow
    BY Constants DEF DeadLetterEvent, Lifecycle, EventRow, EventTypes
  <2>4. event' \in [Tasks -> EventRow]
    BY <2>3 DEF ClaimEmpty, IInv, TypeOK
  <2>5. claim' \in [Sessions -> ClaimRow]
    BY DEF ClaimEmpty, IInv, TypeOK, ClaimRow, NoClaim
  <2> QED BY <2>1, <2>2, <2>4, <2>5 DEF ClaimEmpty, IInv, TypeOK
<1>4. \A x \in Tasks : task'[x].deps = task[x].deps /\ task[x].deps \subseteq Tasks
  <2>1. \A x \in Tasks : task[x].deps \subseteq Tasks
    BY DEF IInv, TypeOK, TaskRow
  <2>2. \A x \in D : task'[x].deps = task[x].deps
    BY <1>1, <1>2, DeadLetterRows
  <2> QED BY <1>2, <2>1, <2>2
<1>5. \A x \in Tasks : task[x].status = "done" => task'[x].status = "done"
  BY <1>2, DeadLetterRows DEF Held
<1>6. \A x \in Tasks : DependenciesMet(x) => DependenciesMet(x)'
  BY <1>4, <1>5, DependenciesKept
<1>7. OwnershipAgrees' /\ AttemptsBudget'
  BY <1>2, DeadLetterRows DEF IInv, OwnershipAgrees, AttemptsBudget, Held
<1>8. RowsBorn' /\ LeasesBorn'
  BY <1>2, DeadLetterRows DEF IInv, RowsBorn, LeasesBorn, Held
<1>9. SnapshotsSound'
  <2>1. \A r \in Sessions : claim'[r].cand \subseteq claim[r].cand /\ claim[r].cand \subseteq Tasks
    BY DEF ClaimEmpty, NoClaim, IInv, TypeOK, ClaimRow
  <2>2. \A x \in Tasks : task[x].status # "absent" => task'[x].status # "absent"
    BY <1>2, DeadLetterRows
  <2> QED BY <1>6, <2>1, <2>2 DEF IInv, SnapshotsSound
<1>10. ClaimedAfterDependencies'
  BY <1>2, <1>6, DeadLetterRows DEF IInv, ClaimedAfterDependencies, Held
<1> QED BY <1>3, <1>7, <1>8, <1>9, <1>10 DEF IInv

\* A claim that grants t to s.
LEMMA InvClaimTask ==
  ASSUME IInv, NEW s \in Sessions, NEW t \in Tasks, NEW D \in SUBSET DeadLetters(s),
         ClaimTask(s, t, D)
  PROVE  IInv'
<1>1. t \notin D /\ D \subseteq Tasks
  BY DEF ClaimTask, DeadLetters
<1>2. /\ task[t].status \in {"pending"} \cup Held
      /\ t \in claim[s].cand
  BY DEF ClaimTask, Rechecked
<1>3. task[t] \in TaskRow /\ lease[t] \in LeaseRow
  BY DEF IInv, TypeOK
<1>4. /\ task[t].attempts \in Nat /\ task[t].max \in Nat /\ task[t].attempts < task[t].max
      /\ task[t].max <= 20 /\ lease[t].fence = task[t].attempts
  <2>1. task[t].attempts \in Nat /\ task[t].max \in Nat /\ task[t].max <= 20
    BY <1>3 DEF TaskRow, Fences, MaxTaskAttempts
  <2>2. ~(task[t].attempts >= task[t].max)
    BY DEF ClaimTask, Exhausted
  <2> QED BY <2>1, <2>2 DEF IInv, AttemptsBudget
<1>5. NextFence(t) = task[t].attempts + 1 /\ NextFence(t) \in Fences /\ NextFence(t) # 0
  BY <1>4 DEF NextFence, Fences, MaxTaskAttempts
<1>6. \A x \in Tasks : /\ x \in D => task'[x] = DeadLetteredTask(x) /\ lease'[x] = DeadLetteredLease(x)
                       /\ x \notin D /\ x # t => task'[x] = task[x] /\ lease'[x] = lease[x]
  BY <1>1 DEF ClaimTask
<1>7. /\ task'[t] = [task[t] EXCEPT !.status = "claimed", !.assigned = s,
                        !.attempts = @ + 1, !.fence = NextFence(t), !.due = TRUE]
      /\ lease'[t] = [fence |-> NextFence(t), owner |-> s, state |-> "active"]
  BY <1>1 DEF ClaimTask
<1>8. /\ task'[t] \in TaskRow
      /\ task'[t].status = "claimed" /\ task'[t].assigned = s
      /\ task'[t].attempts = NextFence(t) /\ task'[t].max = task[t].max
      /\ task'[t].fence = NextFence(t) /\ task'[t].deps = task[t].deps
  <2>1. "claimed" \in Statuses /\ s \in Owners
    BY Constants
  <2>2. task'[t] = [task[t] EXCEPT !.status = "claimed", !.assigned = s,
                      !.attempts = NextFence(t), !.fence = NextFence(t), !.due = TRUE]
    BY <1>3, <1>5, <1>7 DEF TaskRow
  <2>3. task'[t] \in TaskRow
    BY <1>3, <1>5, <2>1, <2>2 DEF TaskRow
  <2> QED BY <1>3, <2>2, <2>3 DEF TaskRow
<1>9. /\ lease'[t] \in LeaseRow /\ lease'[t].fence = NextFence(t)
      /\ lease'[t].owner = s /\ lease'[t].state = "active"
  BY <1>5, <1>7, Constants DEF LeaseRow, LeaseStates
<1>10. TypeOK'
  <2>1. \A x \in Tasks : task'[x] \in TaskRow /\ lease'[x] \in LeaseRow
    BY <1>1, <1>6, <1>8, <1>9, DeadLetterRows DEF IInv, TypeOK
  <2>2. task' \in [Tasks -> TaskRow] /\ lease' \in [Tasks -> LeaseRow]
    BY <2>1 DEF ClaimTask
  <2>3. session' \in [Sessions -> SessionRow]
    BY IdledSessionType DEF ClaimTask, IInv, SessionRow
  <2>4. DeadLetterEvent \in EventRow /\ Lifecycle("task.claimed", s, "claimed", s) \in EventRow
    BY Constants DEF DeadLetterEvent, Lifecycle, EventRow, EventTypes
  <2>5. event' \in [Tasks -> EventRow]
    BY <2>4 DEF ClaimTask, IInv, TypeOK
  <2>6. claim' \in [Sessions -> ClaimRow]
    BY DEF ClaimTask, IInv, TypeOK, ClaimRow, NoClaim
  <2> QED BY <2>2, <2>3, <2>5, <2>6 DEF ClaimTask, IInv, TypeOK
<1>11. \A x \in Tasks : task'[x].deps = task[x].deps /\ task[x].deps \subseteq Tasks
  <2>1. \A x \in Tasks : task[x].deps \subseteq Tasks
    BY DEF IInv, TypeOK, TaskRow
  <2>2. \A x \in D : task'[x].deps = task[x].deps
    BY <1>1, <1>6, DeadLetterRows
  <2> QED BY <1>6, <1>8, <2>1, <2>2
<1>12. \A x \in Tasks : task[x].status = "done" => task'[x].status = "done"
  BY <1>2, <1>6, DeadLetterRows DEF Held
<1>13. \A x \in Tasks : DependenciesMet(x) => DependenciesMet(x)'
  BY <1>11, <1>12, DependenciesKept
<1>14. OwnershipAgrees'
  <2>1. \A x \in D : /\ task'[x].fence = lease'[x].fence
                     /\ task'[x].status \notin Held /\ lease'[x].state \notin {"active", "expired"}
                     /\ task'[x].assigned = NoSession
    BY <1>1, <1>6, DeadLetterRows DEF IInv, OwnershipAgrees, Held
  <2>2. \A x \in Tasks : x \notin D /\ x # t => task'[x] = task[x] /\ lease'[x] = lease[x]
    BY <1>6
  <2> QED BY <1>8, <1>9, <2>1, <2>2 DEF IInv, OwnershipAgrees, Held
<1>15. AttemptsBudget'
  <2>1. \A x \in D : task'[x].attempts = lease'[x].fence /\ task'[x].attempts <= task'[x].max
    BY <1>1, <1>6, DeadLetterRows DEF IInv, AttemptsBudget
  <2>2. task'[t].attempts = lease'[t].fence /\ task'[t].attempts <= task'[t].max
    BY <1>4, <1>5, <1>8, <1>9
  <2> QED BY <1>6, <2>1, <2>2 DEF IInv, AttemptsBudget
<1>16. RowsBorn'
  <2>1. \A x \in D : task'[x].status # "absent" /\ task'[x].max \in AttemptLimits
    BY <1>1, <1>6, DeadLetterRows DEF IInv, RowsBorn, Held
  <2>2. task'[t].status # "absent" /\ task'[t].max \in AttemptLimits
    BY <1>2, <1>8 DEF IInv, RowsBorn, Held
  <2> QED BY <1>6, <2>1, <2>2 DEF IInv, RowsBorn
<1>17. LeasesBorn'
  <2>1. \A x \in D : IF lease'[x].state = "none" THEN lease'[x].fence = 0 /\ lease'[x].owner = NoSession
                     ELSE lease'[x].fence # 0 /\ lease'[x].owner \in Sessions
    BY <1>1, <1>6, DeadLetterRows DEF IInv, LeasesBorn
  <2> QED BY <1>5, <1>6, <1>9, <2>1 DEF IInv, LeasesBorn
<1>18. SnapshotsSound'
  <2>1. \A r \in Sessions : claim'[r].cand \subseteq claim[r].cand /\ claim[r].cand \subseteq Tasks
    BY DEF ClaimTask, NoClaim, IInv, TypeOK, ClaimRow
  <2>2. \A x \in Tasks : task[x].status # "absent" => task'[x].status # "absent"
    BY <1>6, <1>8, DeadLetterRows
  <2> QED BY <1>13, <2>1, <2>2 DEF IInv, SnapshotsSound
<1>19. ClaimedAfterDependencies'
  <2>1. DependenciesMet(t)
    BY <1>2 DEF IInv, SnapshotsSound
  <2>2. \A x \in D : task'[x].status \notin Held
    BY <1>1, <1>6, DeadLetterRows DEF Held
  <2> QED BY <1>6, <1>13, <2>1, <2>2 DEF IInv, ClaimedAfterDependencies
<1> QED BY <1>10, <1>14, <1>15, <1>16, <1>17, <1>18, <1>19 DEF IInv

\* A new task is pending, was never claimed, and depends on existing tasks only.
LEMMA InvCreate ==
  ASSUME IInv, NEW t \in Tasks, NEW deps \in SUBSET {u \in Tasks : u < t},
         NEW max \in AttemptLimits, NEW k \in Keys \cup {NoKey}, Create(t, deps, max, k)
  PROVE  IInv'
<1>1. /\ task[t].status = "absent" /\ task[t].attempts = 0 /\ lease[t].fence = 0
      /\ lease' = lease /\ claim' = claim
  BY DEF Create, IInv, RowsBorn, AttemptsBudget
<1>2. /\ task'[t].status = "pending" /\ task'[t].assigned = NoSession
      /\ task'[t].attempts = 0 /\ task'[t].max = max /\ task'[t].fence = 0
      /\ \A u \in Tasks : u # t => task'[u] = task[u]
  BY DEF Create, IInv, TypeOK
<1>3. max \in Fences /\ max \in Nat
  BY Constants, TaskStoreAssumption DEF Fences
<1>4. TypeOK'
  <2>1. task' \in [Tasks -> TaskRow]
    BY <1>3, Constants DEF Create, IInv, TypeOK, TaskRow
  <2>2. event' \in [Tasks -> EventRow]
    BY Constants DEF Create, IInv, TypeOK, Lifecycle, EventRow, EventTypes
  <2>3. idem' \in [Keys -> Request \cup {NoRequest}]
    BY RecordKeyType, Constants DEF Create, IInv, TypeOK, Operations
  <2> QED BY <2>1, <2>2, <2>3 DEF Create, IInv, TypeOK
<1>5. OwnershipAgrees' /\ AttemptsBudget'
  BY <1>1, <1>2, <1>3 DEF IInv, OwnershipAgrees, AttemptsBudget, Held
<1>6. RowsBorn' /\ LeasesBorn'
  BY <1>1, <1>2 DEF IInv, RowsBorn, LeasesBorn
<1>7. \A u \in Tasks : u # t /\ DependenciesMet(u) => DependenciesMet(u)'
  <2>1. \A u \in Tasks : task[u].status = "done" => task'[u].status = "done"
    BY <1>1, <1>2
  <2>2. \A u \in Tasks : u # t => task'[u].deps = task[u].deps /\ task[u].deps \subseteq Tasks
    BY <1>2 DEF IInv, TypeOK, TaskRow
  <2> QED BY <2>1, <2>2, DependenciesKept
<1>8. SnapshotsSound'
  <2>1. \A s \in Sessions : claim[s].cand \subseteq Tasks /\ t \notin claim[s].cand
    BY <1>1 DEF IInv, TypeOK, ClaimRow, SnapshotsSound
  <2> QED BY <1>1, <1>2, <1>7, <2>1 DEF IInv, SnapshotsSound
<1>9. ClaimedAfterDependencies'
  BY <1>2, <1>7 DEF IInv, ClaimedAfterDependencies, Held
<1> QED BY <1>4, <1>5, <1>6, <1>8, <1>9 DEF IInv

\* A progress report moves a held task from one held status to another.
LEMMA InvProgress ==
  ASSUME IInv, NEW t \in Tasks, NEW o \in Owners, NEW f \in Fences,
         NEW k \in Keys \cup {NoKey}, Progress(t, o, f, k)
  PROVE  IInv'
<1>1. /\ lease[t].state = "active" /\ lease[t].owner = o /\ o \in Sessions
      /\ lease' = lease /\ claim' = claim
  BY DEF Progress, HoldsLease
<1>2. /\ task'[t].status = "in_progress" /\ task'[t].assigned = o
      /\ task'[t].attempts = task[t].attempts /\ task'[t].max = task[t].max
      /\ task'[t].fence = task[t].fence /\ task'[t].deps = task[t].deps
      /\ \A u \in Tasks : u # t => task'[u] = task[u]
  BY DEF Progress, IInv, TypeOK, TaskRow
<1>3. task[t].status \in Held
  BY <1>1 DEF IInv, OwnershipAgrees
<1>4. TypeOK'
  <2>1. task' \in [Tasks -> TaskRow]
    <3>1. task[t] \in TaskRow /\ "in_progress" \in Statuses
      BY Constants DEF IInv, TypeOK
    <3>2. [task[t] EXCEPT !.status = "in_progress", !.assigned = o, !.due = TRUE] \in TaskRow
      BY <3>1 DEF TaskRow
    <3> QED BY <3>2 DEF Progress, IInv, TypeOK
  <2>2. event' \in [Tasks -> EventRow]
    BY Constants DEF Progress, IInv, TypeOK, Lifecycle, EventRow, EventTypes
  <2>3. idem' \in [Keys -> Request \cup {NoRequest}]
    BY RecordKeyType DEF Progress, IInv, TypeOK, Operations
  <2> QED BY <2>1, <2>2, <2>3 DEF Progress, IInv, TypeOK
<1>5. OwnershipAgrees' /\ AttemptsBudget'
  BY <1>1, <1>2 DEF IInv, OwnershipAgrees, AttemptsBudget, Held
<1>6. RowsBorn' /\ LeasesBorn'
  BY <1>1, <1>2, <1>3 DEF IInv, RowsBorn, LeasesBorn, Held
<1>7. \A u \in Tasks : DependenciesMet(u) => DependenciesMet(u)'
  <2>1. \A u \in Tasks : task[u].status = "done" => task'[u].status = "done"
    BY <1>2, <1>3 DEF Held
  <2>2. \A u \in Tasks : task'[u].deps = task[u].deps /\ task[u].deps \subseteq Tasks
    BY <1>2 DEF IInv, TypeOK, TaskRow
  <2> QED BY <2>1, <2>2, DependenciesKept
<1>8. SnapshotsSound'
  <2>1. \A s \in Sessions : claim[s].cand \subseteq Tasks
    BY DEF IInv, TypeOK, ClaimRow
  <2> QED BY <1>1, <1>2, <1>7, <2>1 DEF IInv, SnapshotsSound
<1>9. ClaimedAfterDependencies'
  BY <1>2, <1>3, <1>7 DEF IInv, ClaimedAfterDependencies
<1> QED BY <1>4, <1>5, <1>6, <1>8, <1>9 DEF IInv

\* A claim takes its snapshot: whatever it finds is ready at this moment.
LEMMA InvClaimBegin ==
  ASSUME IInv, NEW s \in Sessions, NEW targets \in SUBSET Tasks, ClaimBegin(s, targets)
  PROVE  IInv'
<1>1. TypeOK'
  <2>1. claim' \in [Sessions -> ClaimRow]
    BY DEF ClaimBegin, IInv, TypeOK, ClaimRow, Claimable
  <2> QED BY <2>1 DEF ClaimBegin, IInv, TypeOK
<1>2. SnapshotsSound'
  <2>1. task' = task
    BY DEF ClaimBegin
  <2>2. \A t \in Claimable(s) : task[t].status # "absent" /\ DependenciesMet(t)
    BY DEF Claimable, Held
  <2>3. claim'[s].cand \subseteq Claimable(s)
    BY DEF ClaimBegin, IInv, TypeOK
  <2>4. \A r \in Sessions : r # s => claim'[r] = claim[r]
    BY DEF ClaimBegin, IInv, TypeOK
  <2> QED BY <2>1, <2>2, <2>3, <2>4 DEF IInv, SnapshotsSound, DependenciesMet
<1> QED BY <1>1, <1>2 DEF ClaimBegin, IInv, OwnershipAgrees, AttemptsBudget, RowsBorn,
           LeasesBorn, ClaimedAfterDependencies, DependenciesMet

\* A step that leaves tasks, leases and keys alone and opens no claim.
LEMMA InvElsewhere ==
  ASSUME IInv, UNCHANGED <<task, lease, idem>>,
         \A s \in Sessions : claim'[s].cand \subseteq claim[s].cand,
         session' \in [Sessions -> SessionRow], event' \in [Tasks -> EventRow],
         claim' \in [Sessions -> ClaimRow], working' \subseteq Tasks
  PROVE  IInv'
BY DEF IInv, TypeOK, OwnershipAgrees, AttemptsBudget, RowsBorn, LeasesBorn,
       SnapshotsSound, ClaimedAfterDependencies, DependenciesMet

\* The session handlers, the reaper and a crash are such steps.
LEMMA InvSessionStep ==
  ASSUME IInv, NEW s \in Sessions, Register(s) \/ Heartbeat(s) \/ Reap(s) \/ Crash(s)
  PROVE  IInv'
<1>1. session' \in [Sessions -> SessionRow]
  BY DEF Register, Heartbeat, Reap, Crash, IInv, TypeOK, SessionRow
<1>2. claim' \in [Sessions -> ClaimRow] /\ \A r \in Sessions : claim'[r].cand \subseteq claim[r].cand
  <2>1. CASE claim' = claim
    BY <2>1 DEF IInv, TypeOK
  <2>2. CASE claim' = [claim EXCEPT ![s] = NoClaim]
    BY <2>2 DEF IInv, TypeOK, ClaimRow, NoClaim
  <2> QED BY <2>1, <2>2 DEF Register, Heartbeat, Reap, Crash
<1>3. working' \subseteq Tasks /\ event' \in [Tasks -> EventRow]
  BY DEF Register, Heartbeat, Reap, Crash, IInv, TypeOK
<1> QED BY <1>1, <1>2, <1>3, InvElsewhere DEF Register, Heartbeat, Reap, Crash

\* So is a renewal.
LEMMA InvRenew ==
  ASSUME IInv, NEW t \in Tasks, NEW o \in Owners, NEW f, Renew(t, o, f)
  PROVE  IInv'
<1>1. event' \in [Tasks -> EventRow]
  BY DEF Renew, IInv, TypeOK, EventRow, EventTypes
<1> QED BY <1>1, InvElsewhere DEF Renew, IInv, TypeOK

\* Time ends a lease or a retry delay, and changes no status and no owner.
LEMMA InvClock ==
  ASSUME IInv, NEW t \in Tasks, ExpireLease(t) \/ BecomeDue(t)
  PROVE  IInv'
<1>1. CASE ExpireLease(t)
  <2>1. /\ lease'[t].state = "expired" /\ lease'[t].fence = lease[t].fence
        /\ lease'[t].owner = lease[t].owner /\ lease[t].state = "active"
        /\ \A u \in Tasks : u # t => lease'[u] = lease[u]
    BY <1>1 DEF ExpireLease, IInv, TypeOK, LeaseRow
  <2>2. lease' \in [Tasks -> LeaseRow]
    BY <1>1 DEF ExpireLease, IInv, TypeOK, LeaseRow, LeaseStates
  <2> QED BY <1>1, <2>1, <2>2 DEF ExpireLease, IInv, TypeOK, OwnershipAgrees, AttemptsBudget,
             RowsBorn, LeasesBorn, SnapshotsSound, ClaimedAfterDependencies, DependenciesMet
<1>2. CASE BecomeDue(t)
  <2>1. /\ task'[t].status = task[t].status /\ task'[t].assigned = task[t].assigned
        /\ task'[t].attempts = task[t].attempts /\ task'[t].max = task[t].max
        /\ task'[t].fence = task[t].fence /\ task'[t].deps = task[t].deps
        /\ \A u \in Tasks : u # t => task'[u] = task[u]
    BY <1>2 DEF BecomeDue, IInv, TypeOK, TaskRow
  <2>2. task' \in [Tasks -> TaskRow]
    BY <1>2, ZenonT(60) DEF BecomeDue, IInv, TypeOK, TaskRow
  <2>3. TypeOK' /\ lease' = lease /\ claim' = claim
    BY <1>2, <2>2 DEF BecomeDue, IInv, TypeOK
  <2>4. OwnershipAgrees' /\ AttemptsBudget' /\ RowsBorn' /\ LeasesBorn'
    <3>1. OwnershipAgrees'
      BY <2>1, <2>3 DEF IInv, OwnershipAgrees
    <3>2. AttemptsBudget'
      BY <2>1, <2>3 DEF IInv, AttemptsBudget
    <3>3. RowsBorn' /\ LeasesBorn'
      BY <2>1, <2>3 DEF IInv, RowsBorn, LeasesBorn
    <3> QED BY <3>1, <3>2, <3>3
  <2>5. \A u \in Tasks : DependenciesMet(u) => DependenciesMet(u)'
    <3>1. \A u \in Tasks : task'[u].deps = task[u].deps /\ task[u].deps \subseteq Tasks
                           /\ (task[u].status = "done" => task'[u].status = "done")
      BY <2>1 DEF IInv, TypeOK, TaskRow
    <3> QED BY <3>1, DependenciesKept
  <2>6. \A s \in Sessions : claim[s].cand \subseteq Tasks
    BY DEF IInv, TypeOK, ClaimRow
  <2> QED BY <2>1, <2>3, <2>4, <2>5, <2>6 DEF IInv, SnapshotsSound, ClaimedAfterDependencies
<1> QED BY <1>1, <1>2

\* A call that ends an attempt, by the three operations that can.
LEMMA InvOutcome ==
  ASSUME IInv, NEW t \in Tasks, NEW o \in Owners, NEW f \in Fences,
         NEW k \in Keys \cup {NoKey}, OutcomeCall(t, o, f, k)
  PROVE  IInv'
<1>1. CASE Progress(t, o, f, k)
  BY <1>1, InvProgress
<1>2. CASE Complete(t, o, f, k)
  <2>1. idem' \in [Keys -> Request \cup {NoRequest}]
    BY <1>2, RecordKeyType DEF Complete, IInv, TypeOK, Operations
  <2>2. task[t].status \in {"pending"} \cup Held /\ MayMutate(t, o, f)
    BY <1>2 DEF Complete, MayMutate, Unclaimed, HoldsLease, IInv, OwnershipAgrees
  <2>3. EndAttempt(t, o, "done", TRUE, Lifecycle("task.completed", o, "done", NoSession))
    BY <1>2 DEF Complete
  <2> QED BY <2>1, <2>2, <2>3, InvEndAttempt DEF Terminal, EventTypes
<1>3. ASSUME NEW retryable \in BOOLEAN, Fail(t, o, f, k, retryable) PROVE IInv'
  <2>1. idem' \in [Keys -> Request \cup {NoRequest}]
    BY <1>3, RecordKeyType DEF Fail, IInv, TypeOK, Operations
  <2>2. task[t].status \in {"pending"} \cup Held /\ MayMutate(t, o, f)
    BY <1>3 DEF Fail, MayMutate, Unclaimed, HoldsLease, IInv, OwnershipAgrees
  <2>3. CASE EndAttempt(t, o, "pending", FALSE,
               Lifecycle("task.retry_scheduled", o, "pending", NoSession))
    BY <2>1, <2>2, <2>3, InvEndAttempt DEF EventTypes
  <2>4. CASE EndAttempt(t, o, "deadletter", TRUE,
               Lifecycle("task.deadlettered", o, "deadletter", NoSession))
    BY <2>1, <2>2, <2>4, InvEndAttempt DEF Terminal, EventTypes
  <2>5. CASE EndAttempt(t, o, "failed", TRUE,
               Lifecycle("task.failed", o, "failed", NoSession))
    BY <2>1, <2>2, <2>5, InvEndAttempt DEF Terminal, EventTypes
  <2> QED BY <1>3, <2>3, <2>4, <2>5 DEF Fail
<1>4. CASE Cancel(t, o, f, k)
  <2>1. idem' \in [Keys -> Request \cup {NoRequest}]
    BY <1>4, RecordKeyType DEF Cancel, IInv, TypeOK, Operations
  <2>2. task[t].status \in {"pending"} \cup Held /\ MayMutate(t, o, f)
    BY <1>4 DEF Cancel, MayMutate, Unclaimed, HoldsLease, IInv, OwnershipAgrees
  <2>3. EndAttempt(t, o, "cancelled", TRUE,
          Lifecycle("task.cancelled", o, "cancelled", NoSession))
    BY <1>4 DEF Cancel
  <2> QED BY <2>1, <2>2, <2>3, InvEndAttempt DEF Terminal, EventTypes
<1> QED BY <1>1, <1>2, <1>3, <1>4 DEF OutcomeCall

\* Every step keeps the invariant.
LEMMA InvNext == IInv /\ [Next]_vars => IInv'
<1> SUFFICES ASSUME IInv, [Next]_vars PROVE IInv'
  OBVIOUS
<1>1. CASE UNCHANGED vars
  <2>1. \A s \in Sessions : claim'[s].cand \subseteq claim[s].cand
    BY <1>1 DEF vars
  <2> QED BY <1>1, <2>1, InvElsewhere DEF vars, IInv, TypeOK
<1>2. ASSUME NEW t \in Tasks, TaskCall(t) PROVE IInv'
  <2>1. ASSUME NEW deps \in SUBSET {u \in Tasks : u < t}, NEW max \in AttemptLimits,
               NEW k \in Keys \cup {NoKey}, Create(t, deps, max, k)
        PROVE  IInv'
    BY <2>1, InvCreate
  <2>2. ASSUME NEW o \in Owners, NEW f \in 0..task[t].max,
               \/ Renew(t, o, f)
               \/ \E k \in Keys \cup {NoKey} : OutcomeCall(t, o, f, k)
        PROVE  IInv'
    <3>1. f \in Fences
      BY DEF IInv, TypeOK, TaskRow, Fences, MaxTaskAttempts
    <3> QED BY <2>2, <3>1, InvRenew, InvOutcome
  <2> QED BY <1>2, <2>1, <2>2 DEF TaskCall
<1>3. ASSUME NEW t \in Tasks, ExpireLease(t) \/ BecomeDue(t) PROVE IInv'
  BY <1>3, InvClock
<1>4. ASSUME NEW s \in Sessions, ClaimStep(s) PROVE IInv'
  <2>1. ASSUME NEW targets \in {Tasks} \cup {{t} : t \in Tasks}, ClaimBegin(s, targets)
        PROVE  IInv'
    BY <2>1, InvClaimBegin
  <2> QED BY <1>4, <2>1, InvClaimTask, InvClaimEmpty DEF ClaimStep, ClaimEnd
<1>5. ASSUME NEW s \in Sessions, Register(s) \/ Heartbeat(s) \/ Reap(s) \/ Crash(s) PROVE IInv'
  BY <1>5, InvSessionStep
<1> QED BY <1>1, <1>2, <1>3, <1>4, <1>5 DEF Next

\* The invariant holds in every reachable state.
THEOREM Invariance == Spec => []IInv
BY InvInit, InvNext, PTL DEF Spec

------------------------------------------------------------------------------
\* Theorems about the properties that the runs check

\* Type correctness of every table and of the open claims.
THEOREM TypeCorrect == Spec => []TypeOK
BY Invariance, PTL DEF IInv

\* A task row and its lease row agree on owner and fence, however the
\* operations of the two tables interleave.
THEOREM OwnershipAgreement == Spec => []OwnershipAgrees
BY Invariance, PTL DEF IInv

\* Attempts and fences advance together and stay within max_attempts.
THEOREM AttemptsBounded == Spec => []AttemptsBudget
BY Invariance, PTL DEF IInv

\* Claims only start, and executions only continue, on done dependencies.
THEOREM DependenciesRespected == Spec => []ClaimedAfterDependencies
BY Invariance, PTL DEF IInv

------------------------------------------------------------------------------
\* What one step may do to the rows of one task

\* The row changes that the lease contract allows.
LeaseStep(x) ==
  \/ lease'[x] = lease[x]
  \/ /\ lease[x].state # "active"
     /\ \E s \in Sessions :
          lease'[x] = [fence |-> lease[x].fence + 1, owner |-> s, state |-> "active"]
  \/ /\ lease[x].state = "active"
     /\ lease'[x] = [lease[x] EXCEPT !.state = "expired"]
  \/ /\ lease[x].state \in {"active", "expired"}
     /\ lease'[x] = [lease[x] EXCEPT !.state = "released"]

\* A terminal task is left alone.
Frozen(x) == task[x].status \in Terminal => task'[x] = task[x] /\ lease'[x] = lease[x]

\* The end of an attempt.
LEMMA StepEndAttempt ==
  ASSUME IInv, NEW t \in Tasks, task[t].status \notin Terminal, NEW o, NEW st, NEW due, NEW ev,
         EndAttempt(t, o, st, due, ev), NEW x \in Tasks
  PROVE  LeaseStep(x) /\ Frozen(x)
<1>1. CASE x = t
  <2>1. lease'[t] = ReleasedLease(t, o)
    BY DEF EndAttempt, IInv, TypeOK
  <2> QED BY <1>1, <2>1 DEF ReleasedLease, LeaseStep, Frozen
<1>2. CASE x # t
  <2>1. task'[x] = task[x] /\ lease'[x] = lease[x]
    BY <1>2 DEF EndAttempt, IInv, TypeOK
  <2> QED BY <2>1 DEF LeaseStep, Frozen
<1> QED BY <1>1, <1>2

\* The dead-letters D of a claim by s and, when it finds one, its grant.
LEMMA StepClaimEnd ==
  ASSUME IInv, NEW s \in Sessions, ClaimEnd(s), NEW x \in Tasks
  PROVE  LeaseStep(x) /\ Frozen(x)
<1>1. Rechecked(s, x) => task[x].status \notin Terminal
  BY Constants DEF Rechecked, Terminal
<1>2. ASSUME task'[x] = task[x], lease'[x] = lease[x] PROVE LeaseStep(x) /\ Frozen(x)
  BY <1>2 DEF LeaseStep, Frozen
<1>3. ASSUME Rechecked(s, x), lease'[x] = DeadLetteredLease(x) PROVE LeaseStep(x) /\ Frozen(x)
  BY <1>1, <1>3 DEF LeaseStep, Frozen, DeadLetteredLease
<1>4. ASSUME NEW D \in SUBSET DeadLetters(s), ClaimEmpty(s, D) PROVE LeaseStep(x) /\ Frozen(x)
  BY <1>2, <1>3, <1>4 DEF ClaimEmpty, DeadLetters
<1>5. ASSUME NEW t \in Tasks, NEW D \in SUBSET DeadLetters(s), ClaimTask(s, t, D)
      PROVE  LeaseStep(x) /\ Frozen(x)
  <2>1. CASE x \in D
    <3>1. lease'[x] = DeadLetteredLease(x) /\ Rechecked(s, x)
      BY <1>5, <2>1 DEF ClaimTask, DeadLetters
    <3> QED BY <1>3, <3>1
  <2>2. CASE x = t /\ x \notin D
    <3>1. /\ lease[x].state # "active" /\ Rechecked(s, x)
          /\ lease'[x] = [fence |-> lease[x].fence + 1, owner |-> s, state |-> "active"]
      BY <1>5, <2>2 DEF ClaimTask, NextFence
    <3> QED BY <1>1, <3>1 DEF LeaseStep, Frozen
  <2>3. CASE x # t /\ x \notin D
    <3>1. task'[x] = task[x] /\ lease'[x] = lease[x]
      BY <1>5, <2>3 DEF ClaimTask
    <3> QED BY <1>2, <3>1
  <2> QED BY <2>1, <2>2, <2>3
<1> QED BY <1>4, <1>5 DEF ClaimEnd

\* Calls about a task and the clock.
LEMMA StepTask ==
  ASSUME IInv, NEW t \in Tasks, TaskCall(t) \/ ExpireLease(t) \/ BecomeDue(t), NEW x \in Tasks
  PROVE  LeaseStep(x) /\ Frozen(x)
<1>1. CASE UNCHANGED <<task, lease>>
  BY <1>1 DEF LeaseStep, Frozen
<1>2. ASSUME task[t].status \notin Terminal, lease' = lease,
             \A u \in Tasks : u # t => task'[u] = task[u]
      PROVE  LeaseStep(x) /\ Frozen(x)
  BY <1>2 DEF LeaseStep, Frozen
<1>3. ASSUME NEW deps, NEW max, NEW k, Create(t, deps, max, k)
      PROVE  LeaseStep(x) /\ Frozen(x)
  BY <1>2, <1>3 DEF Create, Terminal, IInv, TypeOK
<1>4. ASSUME NEW o \in Owners, NEW f, NEW k, OutcomeCall(t, o, f, k)
      PROVE  LeaseStep(x) /\ Frozen(x)
  <2>1. CASE Progress(t, o, f, k)
    <3>1. task[t].status \notin Terminal
      BY <2>1, Constants DEF Progress, HoldsLease, IInv, OwnershipAgrees
    <3> QED BY <1>2, <2>1, <3>1 DEF Progress, IInv, TypeOK
  <2>2. CASE Complete(t, o, f, k)
    BY <2>2, StepEndAttempt DEF Complete
  <2>3. ASSUME NEW retryable \in BOOLEAN, Fail(t, o, f, k, retryable)
        PROVE  LeaseStep(x) /\ Frozen(x)
    BY <2>3, StepEndAttempt DEF Fail
  <2>4. CASE Cancel(t, o, f, k)
    BY <2>4, StepEndAttempt DEF Cancel
  <2> QED BY <1>4, <2>1, <2>2, <2>3, <2>4 DEF OutcomeCall
<1>5. CASE TaskCall(t)
  BY <1>1, <1>3, <1>4, <1>5 DEF TaskCall, Renew
<1>6. CASE ExpireLease(t)
  <2>1. task[t].status \in Held /\ task' = task
    BY <1>6 DEF ExpireLease, IInv, OwnershipAgrees
  <2>2. x # t => lease'[x] = lease[x]
    BY <1>6 DEF ExpireLease, IInv, TypeOK
  <2>3. lease[t].state = "active" /\ lease'[t] = [lease[t] EXCEPT !.state = "expired"]
    BY <1>6 DEF ExpireLease, IInv, TypeOK
  <2> QED BY <2>1, <2>2, <2>3, Constants DEF LeaseStep, Frozen
<1>7. CASE BecomeDue(t)
  BY <1>2, <1>7 DEF BecomeDue, Terminal, IInv, TypeOK
<1> QED BY <1>5, <1>6, <1>7

\* Every step of the specification.
LEMMA StepNext ==
  ASSUME IInv, [Next]_vars, NEW x \in Tasks
  PROVE  LeaseStep(x) /\ Frozen(x)
<1>1. CASE UNCHANGED <<task, lease>>
  BY <1>1 DEF LeaseStep, Frozen
<1>2. ASSUME NEW s \in Sessions, ClaimStep(s) PROVE LeaseStep(x) /\ Frozen(x)
  BY <1>1, <1>2, StepClaimEnd DEF ClaimStep, ClaimBegin
<1>3. ASSUME NEW s \in Sessions, Register(s) \/ Heartbeat(s) \/ Reap(s) \/ Crash(s)
      PROVE  LeaseStep(x) /\ Frozen(x)
  BY <1>1, <1>3 DEF Register, Heartbeat, Reap, Crash
<1> QED BY <1>1, <1>2, <1>3, StepTask DEF Next, vars

\* No late outcome, progress report, takeover or dead-letter ever touches a
\* task that has ended: done, failed, cancelled and deadletter are final.
THEOREM TerminalStays == Spec => TerminalForever
<1>1. IInv /\ [Next]_vars =>
        \A t \in Tasks : task[t].status \in Terminal => task'[t] = task[t] /\ lease'[t] = lease[t]
  BY StepNext DEF Frozen
<1> QED BY <1>1, Invariance, PTL DEF Spec, TerminalForever

\* Every task lease implements the abstract fenced lease: it is never handed
\* over while it is live, each grant has the next fence, and an ended epoch
\* stays ended.
THEOREM LeasesRefine == Spec => LeaseContract
<1>1. Init => \A t \in Tasks : TaskLease(t)!Init
  <2> SUFFICES ASSUME Init, NEW t \in Tasks PROVE TaskLease(t)!Init
    OBVIOUS
  <2>1. lease[t].fence = 0 /\ lease[t].owner = NoSession /\ lease[t].state = "none"
    BY DEF Init
  <2> QED BY <2>1 DEF TaskLease!Init
<1>2. IInv /\ [Next]_vars => \A t \in Tasks : [TaskLease(t)!Next]_(TaskLease(t)!vars)
  <2> SUFFICES ASSUME IInv, [Next]_vars, NEW t \in Tasks
               PROVE  TaskLease(t)!Next \/ UNCHANGED TaskLease(t)!vars
    OBVIOUS
  <2>1. lease[t] \in LeaseRow /\ LeaseStep(t)
    BY StepNext DEF IInv, TypeOK
  <2>2. CASE lease'[t] = lease[t]
    BY <2>2 DEF TaskLease!vars
  <2>3. ASSUME NEW s \in Sessions, lease[t].state # "active",
               lease'[t] = [fence |-> lease[t].fence + 1, owner |-> s, state |-> "active"]
        PROVE  TaskLease(t)!Next
    BY <2>3 DEF TaskLease!Next, TaskLease!Grant
  <2>4. CASE lease[t].state = "active" /\ lease'[t] = [lease[t] EXCEPT !.state = "expired"]
    BY <2>1, <2>4 DEF TaskLease!Next, TaskLease!Expire, LeaseRow
  <2>5. CASE lease[t].state \in {"active", "expired"} /\ lease'[t] = [lease[t] EXCEPT !.state = "released"]
    BY <2>1, <2>5 DEF TaskLease!Next, TaskLease!Release, LeaseRow
  <2> QED BY <2>1, <2>2, <2>3, <2>4, <2>5 DEF LeaseStep
<1> QED BY <1>1, <1>2, Invariance, PTL DEF Spec, LeaseContract

------------------------------------------------------------------------------
\* The log, the create keys and the sessions

\* The events of x tell its row.
Logged(x) == event[x].status = task[x].status /\ event[x].assigned = task[x].assigned

\* The create key of a task is recorded for it.
KeyKnown(x) ==
  task[x].createKey \in Keys =>
    idem[task[x].createKey].op = "create" /\ idem[task[x].createKey].task = x

OnlyBusyPoint == \A s \in Sessions : session[s].status # "busy" => session[s].current = NoTask

\* With the invariant above, the inductive invariant of TablesAgree.
TablesInv == (\A x \in Tasks : Logged(x) /\ KeyKnown(x)) /\ OnlyBusyPoint

\* What the step of an operation may do to the row of one task, besides the grants
\* and dead-letters of a claim and its creation.
Fenced(x) ==
  task[x].status \in Held /\ task'[x] # task[x] /\ event'[x].actor # System =>
    \/ lease[x].state = "active" /\ event'[x].actor = lease[x].owner
    \/ lease[x].state = "expired" /\ event'[x].type = "task.claimed"


\* Recorded keys stay, and the key of a new request was free.
LEMMA KeysStay ==
  ASSUME IInv, NEW k \in Keys \cup {NoKey}, NEW op, NEW t, NEW o, NEW f, FreshKey(k), RecordKey(k, op, t, o, f)
  PROVE  /\ \A j \in Keys : idem[j].op = "create" => idem'[j] = idem[j]
         /\ k \in Keys => idem'[k].op = op /\ idem'[k].task = t
<1>1. \A j \in Keys : idem[j].op = "create" => idem[j] # NoRequest
  BY DEF NoRequest
<1> QED BY <1>1, TaskStoreAssumption DEF FreshKey, RecordKey, IInv, TypeOK

\* The end of an attempt writes row and log together.
LEMMA TablesEndAttempt ==
  ASSUME IInv, TablesInv, NEW t \in Tasks, NEW o \in Owners, NEW f, NEW k \in Keys \cup {NoKey}, NEW op,
         NEW st \in Statuses, NEW due \in BOOLEAN, NEW type \in EventTypes,
         MayMutate(t, o, f), FreshKey(k), RecordKey(k, op, t, o, f),
         EndAttempt(t, o, st, due, Lifecycle(type, o, st, NoSession))
  PROVE  TablesInv' /\ \A x \in Tasks : Fenced(x)
<1>1. /\ task'[t].status = st /\ task'[t].assigned = NoSession /\ task'[t].createKey = task[t].createKey
      /\ event'[t].status = st /\ event'[t].assigned = NoSession /\ event'[t].actor = o
      /\ \A u \in Tasks : u # t => task'[u] = task[u] /\ event'[u] = event[u]
  BY DEF IInv, TypeOK, EndAttempt, TaskRow, Lifecycle
<1>2. \A x \in Tasks : Logged(x)'
  BY <1>1 DEF TablesInv, Logged
<1>3. \A x \in Tasks : KeyKnown(x)'
  BY <1>1, KeysStay DEF TablesInv, KeyKnown
<1>4. OnlyBusyPoint'
  BY DEF EndAttempt, IdledSession, TablesInv, OnlyBusyPoint
<1>5. task[t].status \in Held => lease[t].state = "active" /\ o = lease[t].owner
  BY DEF MayMutate, Unclaimed, HoldsLease, Held
<1>6. \A x \in Tasks : Fenced(x)
  BY <1>1, <1>5 DEF Fenced
<1> QED BY <1>2, <1>3, <1>4, <1>6 DEF TablesInv

\* Calls that report an outcome or progress.
LEMMA TablesOutcome ==
  ASSUME IInv, TablesInv, NEW t \in Tasks, NEW o \in Owners, NEW f, NEW k \in Keys \cup {NoKey},
         OutcomeCall(t, o, f, k)
  PROVE  TablesInv' /\ \A x \in Tasks : Fenced(x)
<1>1. {"pending", "deadletter", "failed", "done", "cancelled"} \subseteq Statuses
      /\ {"task.completed", "task.retry_scheduled", "task.deadlettered", "task.failed", "task.cancelled"} \subseteq EventTypes
  BY DEF Statuses, Terminal, EventTypes
<1>2. CASE Complete(t, o, f, k)
  BY <1>1, <1>2, TablesEndAttempt DEF Complete
<1>3. CASE Cancel(t, o, f, k)
  BY <1>1, <1>3, TablesEndAttempt DEF Cancel
<1>4. ASSUME NEW retryable \in BOOLEAN, Fail(t, o, f, k, retryable)
      PROVE  TablesInv' /\ \A x \in Tasks : Fenced(x)
  <2>1. PICK op : op = IF retryable THEN "fail_retryable" ELSE "fail"
    OBVIOUS
  <2>2. MayMutate(t, o, f) /\ FreshKey(k) /\ RecordKey(k, op, t, o, f)
    BY <1>4, <2>1 DEF Fail
  <2>3. CASE EndAttempt(t, o, "pending", FALSE, Lifecycle("task.retry_scheduled", o, "pending", NoSession))
    BY <1>1, <2>2, <2>3, TablesEndAttempt
  <2>4. CASE EndAttempt(t, o, "deadletter", TRUE, Lifecycle("task.deadlettered", o, "deadletter", NoSession))
    BY <1>1, <2>2, <2>4, TablesEndAttempt
  <2>5. CASE EndAttempt(t, o, "failed", TRUE, Lifecycle("task.failed", o, "failed", NoSession))
    BY <1>1, <2>2, <2>5, TablesEndAttempt
  <2> QED BY <1>4, <2>3, <2>4, <2>5 DEF Fail
<1>5. CASE Progress(t, o, f, k)
  <2>1. /\ task'[t].status = "in_progress" /\ task'[t].assigned = o /\ task'[t].createKey = task[t].createKey
        /\ event'[t].status = "in_progress" /\ event'[t].assigned = o /\ event'[t].actor = o
        /\ \A u \in Tasks : u # t => task'[u] = task[u] /\ event'[u] = event[u]
        /\ lease[t].state = "active" /\ lease[t].owner = o /\ session' = session
    BY <1>5 DEF Progress, HoldsLease, IInv, TypeOK, TaskRow, Lifecycle
  <2>2. \A x \in Tasks : KeyKnown(x)'
    BY <1>5, <2>1, KeysStay DEF Progress, TablesInv, KeyKnown
  <2> QED BY <2>1, <2>2 DEF TablesInv, Logged, OnlyBusyPoint, Fenced
<1> QED BY <1>2, <1>3, <1>4, <1>5 DEF OutcomeCall

\* A claim that ends, with its dead-letters and its grant.
LEMMA TablesClaimEnd ==
  ASSUME IInv, TablesInv, NEW s \in Sessions, ClaimEnd(s)
  PROVE  TablesInv' /\ \A x \in Tasks : Fenced(x)
<1>1. ASSUME NEW D \in SUBSET DeadLetters(s), NEW x \in D
      PROVE  /\ x \in Tasks /\ DeadLetteredTask(x).status = "deadletter" /\ DeadLetteredTask(x).assigned = NoSession
             /\ DeadLetteredTask(x).createKey = task[x].createKey
             /\ DeadLetterEvent.status = "deadletter" /\ DeadLetterEvent.assigned = NoSession /\ DeadLetterEvent.actor = System
  BY DEF DeadLetters, DeadLetteredTask, DeadLetterEvent, Lifecycle, IInv, TypeOK, TaskRow
<1>2. ASSUME NEW D, NEW x \in Sessions
      PROVE  (session[x].status # "busy" => session[x].current = NoTask) =>
               (IdledSession(x, D).status # "busy" => IdledSession(x, D).current = NoTask)
  BY DEF IdledSession
<1>3. ASSUME NEW D \in SUBSET DeadLetters(s), ClaimEmpty(s, D)
      PROVE  TablesInv' /\ \A x \in Tasks : Fenced(x)
  <2>1. \A x \in Tasks :
          \/ x \in D /\ task'[x] = DeadLetteredTask(x) /\ event'[x] = DeadLetterEvent
          \/ x \notin D /\ task'[x] = task[x] /\ event'[x] = event[x]
    BY <1>3 DEF ClaimEmpty
  <2>2. \A x \in Tasks : Logged(x)' /\ KeyKnown(x)' /\ Fenced(x)
    BY <1>1, <1>3, <2>1 DEF TablesInv, Logged, KeyKnown, Fenced, ClaimEmpty
  <2>3. OnlyBusyPoint'
    BY <1>2, <1>3 DEF ClaimEmpty, TablesInv, OnlyBusyPoint
  <2> QED BY <2>2, <2>3 DEF TablesInv
<1>4. ASSUME NEW t \in Tasks, NEW D \in SUBSET DeadLetters(s), ClaimTask(s, t, D)
      PROVE  TablesInv' /\ \A x \in Tasks : Fenced(x)
  <2>0. t \notin D
    BY <1>4 DEF ClaimTask, DeadLetters
  <2>1. \A x \in Tasks :
          \/ x \in D /\ task'[x] = DeadLetteredTask(x) /\ event'[x] = DeadLetterEvent
          \/ x \notin D /\ x # t /\ task'[x] = task[x] /\ event'[x] = event[x]
          \/ x \notin D /\ x = t /\ event'[x] = Lifecycle("task.claimed", s, "claimed", s)
    <3> SUFFICES ASSUME NEW x \in Tasks
                 PROVE  \/ x \in D /\ task'[x] = DeadLetteredTask(x) /\ event'[x] = DeadLetterEvent
                        \/ x \notin D /\ x # t /\ task'[x] = task[x] /\ event'[x] = event[x]
                        \/ x \notin D /\ x = t /\ event'[x] = Lifecycle("task.claimed", s, "claimed", s)
      OBVIOUS
    <3>1. CASE x \in D
      <4>1. x # t
        BY <2>0, <3>1
      <4>2. task'[x] = DeadLetteredTask(x)
        BY <1>4, <3>1, <4>1 DEF ClaimTask
      <4>3. event'[x] = DeadLetterEvent
        BY <1>4, <3>1, <4>1 DEF ClaimTask
      <4> QED BY <3>1, <4>2, <4>3
    <3>2. CASE x \notin D /\ x # t
      BY <1>4, <3>2 DEF ClaimTask
    <3>3. CASE x \notin D /\ x = t
      BY <1>4, <3>3 DEF ClaimTask
    <3> QED BY <3>1, <3>2, <3>3
  <2>3. /\ task'[t].status = "claimed" /\ task'[t].assigned = s /\ task'[t].createKey = task[t].createKey
        /\ event'[t].status = "claimed" /\ event'[t].assigned = s /\ event'[t].type = "task.claimed"
    <3>1. event'[t] = Lifecycle("task.claimed", s, "claimed", s)
      BY <2>1, <2>0
    <3>2. task'[t] = [task[t] EXCEPT !.status = "claimed", !.assigned = s, !.attempts = task[t].attempts + 1,
                                    !.fence = NextFence(t), !.due = TRUE]
      BY <1>4, <2>0 DEF ClaimTask
    <3> QED BY <3>1, <3>2 DEF Lifecycle, IInv, TypeOK, TaskRow
  <2>4. task[t].status \in Held => lease[t].state = "expired"
    <3>1. lease[t].state # "active"
      BY <1>4 DEF ClaimTask
    <3> QED BY <3>1 DEF IInv, OwnershipAgrees
  <2>5. \A x \in Tasks : Logged(x)' /\ KeyKnown(x)'
    <3>1. idem' = idem
      BY <1>4 DEF ClaimTask
    <3> QED BY <1>1, <2>1, <2>3, <3>1 DEF TablesInv, Logged, KeyKnown
  <2>6. \A x \in Tasks : Fenced(x)
    BY <1>1, <2>1, <2>3, <2>4 DEF Fenced
  <2>7. OnlyBusyPoint'
    <3>1. session' = [x \in Sessions |-> IF x = s THEN [status |-> "busy", current |-> t] ELSE IdledSession(x, D)]
      BY <1>4 DEF ClaimTask
    <3> QED BY <1>2, <3>1 DEF TablesInv, OnlyBusyPoint
  <2> QED BY <2>5, <2>6, <2>7 DEF TablesInv
<1> QED BY <1>3, <1>4 DEF ClaimEnd

\* Every step keeps the tables in agreement, and touches a held task only as its
\* lease allows.
LEMMA TablesNext ==
  ASSUME IInv, TablesInv, [Next]_vars
  PROVE  TablesInv' /\ \A x \in Tasks : Fenced(x)
<1>1. ASSUME UNCHANGED <<task, idem, event>>, OnlyBusyPoint'
      PROVE  TablesInv' /\ \A x \in Tasks : Fenced(x)
  BY <1>1 DEF TablesInv, Logged, KeyKnown, Fenced
<1>2. ASSUME UNCHANGED session
      PROVE  OnlyBusyPoint'
  BY <1>2 DEF TablesInv, OnlyBusyPoint
<1>3. CASE UNCHANGED vars
  BY <1>1, <1>2, <1>3 DEF vars
<1>4. ASSUME NEW t \in Tasks, TaskCall(t)
      PROVE  TablesInv' /\ \A x \in Tasks : Fenced(x)
  <2>1. ASSUME NEW deps, NEW max, NEW k \in Keys \cup {NoKey}, Create(t, deps, max, k)
        PROVE  TablesInv' /\ \A x \in Tasks : Fenced(x)
    <3>1. /\ task[t].status = "absent" /\ task'[t].status = "pending" /\ task'[t].assigned = NoSession /\ task'[t].createKey = k
          /\ event'[t].status = "pending" /\ event'[t].assigned = NoSession
          /\ \A u \in Tasks : u # t => task'[u] = task[u] /\ event'[u] = event[u]
          /\ session' = session
      BY <2>1 DEF Create, Lifecycle, IInv, TypeOK
    <3>2. \A x \in Tasks : KeyKnown(x)'
      BY <2>1, <3>1, KeysStay, TaskStoreAssumption DEF Create, TablesInv, KeyKnown
    <3> QED BY <1>2, <3>1, <3>2 DEF TablesInv, Logged, Fenced, Held
  <2>2. ASSUME NEW o \in Owners, NEW f, Renew(t, o, f)
        PROVE  TablesInv' /\ \A x \in Tasks : Fenced(x)
    <3>1. /\ task' = task /\ idem' = idem /\ session' = session
          /\ \A u \in Tasks : event'[u].status = event[u].status /\ event'[u].assigned = event[u].assigned
      BY <2>2 DEF Renew, IInv, TypeOK, EventRow
    <3> QED BY <1>2, <3>1 DEF TablesInv, Logged, KeyKnown, Fenced
  <2> QED BY <1>4, <2>1, <2>2, TablesOutcome DEF TaskCall
<1>5. ASSUME NEW t \in Tasks, ExpireLease(t) \/ BecomeDue(t)
      PROVE  TablesInv' /\ \A x \in Tasks : Fenced(x)
  <2>1. CASE ExpireLease(t)
    BY <1>1, <1>2, <2>1 DEF ExpireLease
  <2>2. CASE BecomeDue(t)
    <3>1. /\ task[t].status = "pending" /\ UNCHANGED <<idem, event, session>>
          /\ task'[t].status = task[t].status /\ task'[t].assigned = task[t].assigned /\ task'[t].createKey = task[t].createKey
          /\ \A u \in Tasks : u # t => task'[u] = task[u]
      BY <2>2 DEF BecomeDue, IInv, TypeOK, TaskRow
    <3> QED BY <1>2, <3>1 DEF TablesInv, Logged, KeyKnown, Fenced, Held
  <2> QED BY <1>5, <2>1, <2>2
<1>6. ASSUME NEW s \in Sessions, ClaimStep(s)
      PROVE  TablesInv' /\ \A x \in Tasks : Fenced(x)
  BY <1>1, <1>2, <1>6, TablesClaimEnd DEF ClaimStep, ClaimBegin
<1>7. ASSUME NEW s \in Sessions, Register(s) \/ Heartbeat(s) \/ Reap(s) \/ Crash(s)
      PROVE  TablesInv' /\ \A x \in Tasks : Fenced(x)
  <2>1. UNCHANGED <<task, idem, event>>
    BY <1>7 DEF Register, Heartbeat, Reap, Crash
  <2>2. OnlyBusyPoint'
    BY <1>7 DEF Register, Heartbeat, Reap, Crash, TablesInv, OnlyBusyPoint, IInv, TypeOK, SessionRow
  <2> QED BY <1>1, <2>1, <2>2
<1> QED BY <1>3, <1>4, <1>5, <1>6, <1>7 DEF Next

\* An empty store agrees with itself.
LEMMA TablesInit == Init => TablesInv
BY TaskStoreAssumption DEF Init, TablesInv, Logged, KeyKnown, OnlyBusyPoint

\* No operation changes the status or the owner of a task without saying so in the
\* log, a create key makes at most one task, and only a busy session points at one.
THEOREM TablesTellOneStory == Spec => []TablesAgree
<1>1. IInv /\ TablesInv => TablesAgree
  <2> SUFFICES ASSUME IInv, TablesInv PROVE TablesAgree
    OBVIOUS
  <2>1. \A t, u \in Tasks : task[t].createKey # NoKey /\ task[t].createKey = task[u].createKey => t = u
    <3>1. \A t \in Tasks : task[t].createKey \in Keys \cup {NoKey}
      BY DEF IInv, TypeOK, TaskRow
    <3> QED BY <3>1 DEF TablesInv, KeyKnown
  <2> QED BY <2>1 DEF TablesInv, Logged, OnlyBusyPoint, TablesAgree
<1>2. IInv /\ TablesInv /\ [Next]_vars => TablesInv'
  BY TablesNext
<1> QED BY <1>1, <1>2, TablesInit, Invariance, PTL DEF Spec

\* The row of a held task is changed by the owner of its live lease, or by the claim
\* that takes it over once that lease has expired (authorizeTaskLeaseTx, ClaimNext).
THEOREM MutationsFenced == Spec => WorkerMutationsFenced
<1>1. IInv /\ TablesInv /\ [Next]_vars => \A t \in Tasks : Fenced(t)
  BY TablesNext
<1>2. IInv /\ TablesInv /\ [Next]_vars => TablesInv'
  BY TablesNext
<1> QED BY <1>1, <1>2, TablesInit, Invariance, PTL DEF Spec, WorkerMutationsFenced, Fenced
==============================================================================
