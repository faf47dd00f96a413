------------------------- MODULE EventProjection_proofs -------------------------
(***************************************************************************)
(* Proofs about EventProjection for every set of tasks, consumers and      *)
(* calls, every batch size and every bound.                                *)
(*                                                                         *)
(* The invariant has three strands.  A transaction keeps the lease row of  *)
(* its consumer locked, so its token stays the newest one and it is alone  *)
(* with the cursor.  The events of a batch are the first ones beyond the   *)
(* cursor and are applied in order.  So, while no other consumer works,    *)
(* the rows that a transaction sees are the replay of what was delivered   *)
(* and of the part of the batch it has applied.                            *)
(***************************************************************************)
EXTENDS EventProjection, FiniteSetTheorems, NaturalsInduction, WellFoundedInduction, TLAPS

\* What a view row may show whoever wrote it.
RowSound(t, row) ==
  LET E == {e \in EventsOf(t) \cap Committed : e <= row.last} IN
    /\ row.count <= Cardinality(E)
    /\ row.last \in E \cup {0}

\* The events of its batch that r has applied.
Done(r) == runner[r].batch \ runner[r].todo

\* A transaction has the newest token of its consumer and is alone with it.
Exclusive ==
  /\ \A c \in Consumers : lease[c].state = "active" => lease[c].fence # 0
  /\ \A r \in Runners : InTransaction(r) =>
       /\ runner[r].fence = lease[ConsumerOf[r]].fence
       /\ OwnerOf[r] = lease[ConsumerOf[r]].owner
       /\ lease[ConsumerOf[r]].fence # 0
       /\ \A q \in Runners : InTransaction(q) /\ ConsumerOf[q] = ConsumerOf[r] => q = r

\* A batch lies beyond the cursor and is applied in order.
BatchesSound ==
  \A r \in Runners :
    /\ runner[r].pc # "applying" => runner[r].touched = {}
    /\ runner[r].pc = "applying" =>
         /\ runner[r].batch \subseteq Unread(ConsumerOf[r])
         /\ runner[r].todo \subseteq runner[r].batch
         /\ \A d \in Done(r), e \in runner[r].todo : d < e
         /\ runner[r].batch = {} => runner[r].touched = {}
         /\ \A t \in runner[r].touched : RowSound(t, runner[r].rows[t])

ViewSound == \A t \in Tasks : RowSound(t, view[t])

\* What was delivered is committed and lies behind the cursor.
CursorSound ==
  \A c \in Consumers : \A e \in delivered[c] : e \in Committed /\ e <= checkpoint[c]

\* No event that was committed at the reset of r lies behind the cursor unread.
PromisesSound ==
  \A r \in Runners :
    /\ promised[r] \subseteq Committed
    /\ runner[r].rebuild = "replay" =>
         LET c == ConsumerOf[r] IN
         /\ \A e \in promised[r] : e \in delivered[c] \/ e > checkpoint[c]
         /\ \A q \in Runners : runner[q].pc = "applying" /\ ConsumerOf[q] = c =>
              \A e \in promised[r] :
                e \in delivered[c] \cup runner[q].batch \/ \A d \in runner[q].batch : d < e
         /\ runner[r].pc = "applying" /\ ~runner[r].more =>
              promised[r] \subseteq delivered[c] \cup runner[r].batch

\* What the only consumer sees in a transaction is the replay of what it has read.
AloneReplays ==
  \A c \in Consumers : Alone(c) =>
    /\ \A t \in Tasks : view[t] = Replay(t, delivered[c])
    /\ \A r \in Runners : ConsumerOf[r] = c =>
         /\ runner[r].pc = "applying" =>
              \A t \in Tasks : RowSeen(r, t) = Replay(t, delivered[c] \cup Done(r))
         /\ runner[r].pc = "deleting" => runner[r].doomed = {t \in Tasks : view[t] # NoRow}

\* The inductive invariant.
IInv ==
  /\ TypeOK
  /\ Exclusive
  /\ BatchesSound
  /\ ViewSound
  /\ CursorSound
  /\ PromisesSound
  /\ AloneReplays

------------------------------------------------------------------------------
\* Lemmas about least and greatest elements

NatLess == {ss \in Nat \X Nat : ss[1] < ss[2]}

LEMMA LeastElement ==
  ASSUME NEW S, S \subseteq Nat, S # {}
  PROVE  \E x \in S : \A y \in S : x <= y
<1>1. IsWellFoundedOn(NatLess, Nat)
  BY NatLessThanWellFounded DEF OpToRel, NatLess
<1>2. PICK x \in S : \A y \in S : ~(<<y, x>> \in NatLess)
  BY <1>1, WFMin
<1>3. \A y \in S : x \in Nat /\ y \in Nat /\ ~(y < x)
  BY <1>2 DEF NatLess
<1>4. \A y \in S : x <= y
  BY <1>3
<1> QED BY <1>4

LEMMA MinFacts ==
  ASSUME NEW S, S \subseteq Nat, S # {}
  PROVE  Min(S) \in S /\ \A y \in S : Min(S) <= y
BY LeastElement DEF Min

LEMMA MaxFacts ==
  ASSUME NEW n \in Nat, NEW S, S \subseteq 1..n, S # {}
  PROVE  Max(S) \in S /\ \A y \in S : Max(S) >= y
<1> DEFINE T == {n - x : x \in S}
<1>1. T \subseteq Nat /\ T # {}
  <2>1. \A x \in S : x \in 1..n /\ n - x \in Nat
    OBVIOUS
  <2> QED BY <2>1
<1>2. PICK z \in T : \A y \in T : z <= y
  <2> HIDE DEF T
  <2> QED BY <1>1, LeastElement
<1>3. PICK x \in S : z = n - x
  OBVIOUS
<1>4. \A y \in S : x >= y
  <2> TAKE y \in S
  <2>1. n - y \in T
    OBVIOUS
  <2>2. x \in Nat /\ y \in Nat /\ z <= n - y
    BY <1>2, <2>1
  <2> QED BY <1>3, <2>2
<1> QED BY <1>4 DEF Max

\* The first elements of a finite set come before its other ones.
LEMMA FirstFacts ==
  ASSUME NEW S, S \subseteq Nat, IsFiniteSet(S), NEW n \in Nat
  PROVE  /\ FirstOf(S, n) \subseteq S
         /\ \A d \in FirstOf(S, n), e \in S \ FirstOf(S, n) : d < e
         /\ Cardinality(S) <= n => FirstOf(S, n) = S
<1> DEFINE Upto(e) == {d \in S : d <= e}
<1>1. \A e \in S : IsFiniteSet(Upto(e)) /\ Cardinality(Upto(e)) <= Cardinality(S)
  <2> TAKE e \in S
  <2>1. Upto(e) \in SUBSET S
    OBVIOUS
  <2> QED BY <2>1, FS_Subset
<1>2. \A e \in S : Cardinality(Upto(e)) \in Nat /\ Cardinality(S) \in Nat
  BY <1>1, FS_CardinalityType
<1>3. \A d, e \in S : d <= e => Cardinality(Upto(d)) <= Cardinality(Upto(e))
  <2> SUFFICES ASSUME NEW d \in S, NEW e \in S, d <= e PROVE Cardinality(Upto(d)) <= Cardinality(Upto(e))
    OBVIOUS
  <2>1. \A x \in S : x \in Nat /\ (x <= d => x <= e)
    OBVIOUS
  <2>2. Upto(d) \in SUBSET Upto(e)
    BY <2>1
  <2> HIDE DEF Upto
  <2> QED BY <1>1, <2>2, FS_Subset
<1>4. FirstOf(S, n) = {e \in S : Cardinality(Upto(e)) <= n}
  BY DEF FirstOf
<1> HIDE DEF Upto
<1>5. \A d \in FirstOf(S, n), e \in S \ FirstOf(S, n) : d < e
  <2> SUFFICES ASSUME NEW d \in FirstOf(S, n), NEW e \in S \ FirstOf(S, n) PROVE d < e
    OBVIOUS
  <2>1. d \in Nat /\ e \in Nat /\ d \in S /\ e \in S /\ Cardinality(Upto(d)) <= n /\ ~(Cardinality(Upto(e)) <= n)
    BY <1>4
  <2>2. ~(e <= d)
    BY <1>2, <1>3, <2>1
  <2> QED BY <2>1, <2>2
<1>6. Cardinality(S) <= n => FirstOf(S, n) = S
  <2> SUFFICES ASSUME Cardinality(S) <= n PROVE FirstOf(S, n) = S
    OBVIOUS
  <2>1. \A e \in S : Cardinality(Upto(e)) <= n
    BY <1>1, <1>2
  <2> QED BY <1>4, <2>1
<1> QED BY <1>4, <1>5, <1>6

------------------------------------------------------------------------------
\* The consumer leases

LEMMA StepLease ==
  ASSUME TypeOK, [Next]_vars, NEW c \in Consumers
  PROVE  [ConsumerLease(c)!Next]_(ConsumerLease(c)!vars)
<1> USE EventProjectionAssumption
<1>1. lease \in [Consumers -> LeaseRow]
  BY DEF TypeOK
<1>2. CASE lease'[c] = lease[c]
  BY <1>2 DEF ConsumerLease!vars
<1>3. ASSUME NEW r \in Runners, NEW rebuild, Acquire(r, rebuild), lease'[c] # lease[c]
      PROVE  ConsumerLease(c)!Next
  <2>1. c = ConsumerOf[r] /\ OwnerOf[r] \in Owners /\ lease[c].state # "active"
    BY <1>1, <1>3 DEF Acquire
  <2>2. lease'[c] = [fence |-> lease[c].fence + 1, owner |-> OwnerOf[r], state |-> "active"]
    BY <1>1, <1>3, <2>1 DEF Acquire, NextFence
  <2> QED BY <2>1, <2>2 DEF ConsumerLease!Next, ConsumerLease!Grant
<1>4. ASSUME NEW r \in Runners, Release(r), lease'[c] # lease[c] PROVE ConsumerLease(c)!Next
  <2>1. lease[c].state = "active" /\ lease'[c] = [lease[c] EXCEPT !.state = "released"]
    BY <1>1, <1>4 DEF Release, TokenValid
  <2>2. lease'[c].fence = lease[c].fence /\ lease'[c].owner = lease[c].owner /\ lease'[c].state = "released"
    BY <1>1, <2>1 DEF LeaseRow
  <2> QED BY <2>1, <2>2 DEF ConsumerLease!Next, ConsumerLease!Release
<1>5. ASSUME NEW b \in Consumers, Expire(b), lease'[c] # lease[c] PROVE ConsumerLease(c)!Next
  <2>1. lease[c].state = "active" /\ lease'[c] = [lease[c] EXCEPT !.state = "expired"]
    BY <1>1, <1>5 DEF Expire
  <2>2. lease'[c].fence = lease[c].fence /\ lease'[c].owner = lease[c].owner /\ lease'[c].state = "expired"
    BY <1>1, <2>1 DEF LeaseRow
  <2> QED BY <2>1, <2>2 DEF ConsumerLease!Next, ConsumerLease!Expire
<1> QED BY <1>2, <1>3, <1>4, <1>5 DEF Next, LogStep, RunnerStep, AppendTx, EndAppend, BeginBatch, Apply,
       CommitBatch, BeginReset, CommitReset, Abandon, vars

------------------------------------------------------------------------------
\* The log and the replay of a part of it

LEMMA FiniteInLog ==
  ASSUME NEW l \in Seq(Entry), NEW S, S \subseteq DOMAIN l
  PROVE  S \subseteq Nat /\ S \subseteq 1..Len(l) /\ IsFiniteSet(S) /\ Cardinality(S) \in Nat
<1>1. Len(l) \in Nat /\ DOMAIN l = 1..Len(l)
  OBVIOUS
<1>2. IsFiniteSet(DOMAIN l)
  BY <1>1, FS_Interval
<1>3. IsFiniteSet(S)
  BY <1>2, FS_Subset
<1> QED BY <1>1, <1>3, FS_CardinalityType

LEMMA LogFacts ==
  ASSUME TypeOK
  PROVE  /\ Len(log) \in Nat /\ DOMAIN log = 1..Len(log)
         /\ Committed \subseteq DOMAIN log
         /\ \A t : EventsOf(t) \subseteq DOMAIN log
         /\ \A S : S \subseteq DOMAIN log =>
              S \subseteq Nat /\ S \subseteq 1..Len(log) /\ IsFiniteSet(S) /\ Cardinality(S) \in Nat
BY FiniteInLog DEF TypeOK, Committed, EventsOf

\* The log only grows, and an event keeps its task and its kind.
LogGrows ==
  /\ Committed \subseteq Committed'
  /\ DOMAIN log \subseteq DOMAIN log'
  /\ \A e \in DOMAIN log : log'[e].task = log[e].task /\ log'[e].kind = log[e].kind

LEMMA StepLog ==
  ASSUME TypeOK, LogStep
  PROVE  log' \in Seq(Entry) /\ LogGrows
<1> USE DEF TypeOK, LogGrows, Committed
<1>1. ASSUME NEW t \in Tasks, NEW kind \in Kinds, AppendTx(t, kind) PROVE log' \in Seq(Entry) /\ LogGrows
  <2>1. [task |-> t, kind |-> kind, state |-> "open"] \in Entry
    BY DEF Entry
  <2> QED BY <1>1, <2>1 DEF AppendTx
<1>2. ASSUME NEW e \in DOMAIN log, NEW fate \in {"committed", "aborted"}, EndAppend(e, fate)
      PROVE  log' \in Seq(Entry) /\ LogGrows
  <2>1. log[e] \in Entry /\ [log[e] EXCEPT !.state = fate] \in Entry
    <3>1. log[e] \in Entry
      OBVIOUS
    <3> QED BY <3>1 DEF Entry
  <2>2. log' = [log EXCEPT ![e] = [log[e] EXCEPT !.state = fate]]
    BY <1>2 DEF EndAppend
  <2>3. [log[e] EXCEPT !.state = fate].task = log[e].task /\ [log[e] EXCEPT !.state = fate].kind = log[e].kind
    BY <2>1 DEF Entry
  <2> DEFINE entry == [log[e] EXCEPT !.state = fate]
  <2> HIDE DEF entry
  <2>4. log' = [log EXCEPT ![e] = entry] /\ entry \in Entry /\ entry.task = log[e].task /\ entry.kind = log[e].kind
    BY <2>1, <2>2, <2>3 DEF entry
  <2>5. log' \in Seq(Entry) /\ DOMAIN log' = DOMAIN log
    BY <2>4
  <2>6. Committed \subseteq Committed'
    BY <1>2, <2>4, <2>5 DEF EndAppend
  <2> QED BY <2>4, <2>5, <2>6
<1> QED BY <1>1, <1>2 DEF LogStep

LEMMA SoundWhileLogGrows ==
  ASSUME TypeOK, log' \in Seq(Entry), LogGrows, NEW t, NEW row \in ViewRow, RowSound(t, row)
  PROVE  RowSound(t, row)'
<1> DEFINE E == {e \in EventsOf(t) \cap Committed : e <= row.last}
           F == {e \in (EventsOf(t) \cap Committed)' : e <= row.last}
<1>1. E \in SUBSET F
  BY DEF LogGrows, EventsOf
<1>2. F \subseteq DOMAIN log'
  BY DEF EventsOf
<1>3. E \subseteq DOMAIN log
  BY DEF EventsOf
<1>4. row.count <= Cardinality(E) /\ row.last \in E \cup {0}
  BY DEF RowSound
<1> HIDE DEF E, F
<1>5. IsFiniteSet(F) /\ Cardinality(F) \in Nat /\ Cardinality(E) \in Nat
  BY <1>2, <1>3, FiniteInLog DEF TypeOK
<1>6. Cardinality(E) <= Cardinality(F)
  BY <1>1, <1>5, FS_Subset
<1>7. row.count \in Nat
  BY DEF ViewRow
<1>8. row.count <= Cardinality(F) /\ row.last \in F \cup {0}
  BY <1>1, <1>4, <1>5, <1>6, <1>7
<1> QED BY <1>8 DEF RowSound, F

LEMMA ReplayWhileLogGrows ==
  ASSUME TypeOK, LogGrows, NEW t, NEW S, S \subseteq DOMAIN log
  PROVE  Replay(t, S)' = Replay(t, S)
<1>1. EventsOf(t)' \cap S = EventsOf(t) \cap S
  BY DEF LogGrows, EventsOf
<1>2. {e \in EventsOf(t) \cap S : log'[e].kind = "outcome"} = {e \in EventsOf(t) \cap S : log[e].kind = "outcome"}
  BY DEF LogGrows, EventsOf
<1> QED BY <1>1, <1>2 DEF Replay

\* Replaying one more event is applying it.
LEMMA ReplayNext ==
  ASSUME TypeOK, NEW t, NEW S, S \subseteq DOMAIN log, NEW e \in DOMAIN log, \A d \in S : d < e
  PROVE  Replay(t, S \cup {e}) = IF e \in EventsOf(t) THEN Applied(Replay(t, S), e) ELSE Replay(t, S)
<1> DEFINE E == EventsOf(t) \cap S
           F == EventsOf(t) \cap (S \cup {e})
           R == {d \in E : log[d].kind = "outcome"}
           Q == {d \in F : log[d].kind = "outcome"}
<1>1. CASE e \notin EventsOf(t)
  <2>1. F = E
    BY <1>1
  <2> QED BY <1>1, <2>1 DEF Replay
<1>2. CASE e \in EventsOf(t)
  <2>1. F = E \cup {e} /\ e \notin E /\ E \subseteq DOMAIN log /\ e \in Nat /\ E \subseteq Nat
    BY <1>2, LogFacts
  <2>2. Q = IF log[e].kind = "outcome" THEN R \cup {e} ELSE R
    BY <2>1
  <2>3. \A d \in E : d < e
    OBVIOUS
  <2>4. \A T : T \subseteq E => Max(T \cup {e}) = e
    <3> SUFFICES ASSUME NEW T, T \subseteq E PROVE Max(T \cup {e}) = e
      OBVIOUS
    <3>1. T \cup {e} \subseteq 1..Len(log) /\ Len(log) \in Nat
      BY <2>1, LogFacts
    <3>2. Max(T \cup {e}) \in T \cup {e} /\ \A y \in T \cup {e} : Max(T \cup {e}) >= y
      BY <3>1, MaxFacts
    <3>3. Max(T \cup {e}) >= e /\ (Max(T \cup {e}) \in T => Max(T \cup {e}) < e)
      BY <2>1, <2>3, <3>2
    <3> QED BY <2>1, <3>2, <3>3
  <2>5. \A T : T \subseteq E /\ T # {} => Max(T) \in T
    BY <2>1, LogFacts, MaxFacts
  <2>6. IsFiniteSet(E)
    BY <2>1, LogFacts
  <2> HIDE DEF E
  <2>7. Cardinality(E \cup {e}) = Cardinality(E) + 1 /\ Cardinality({}) = 0
    BY <2>1, <2>6, FS_AddElement, FS_EmptySet
  <2> DEFINE seen == Replay(t, S)
  <2>8. /\ seen.last < e
        /\ seen.count + 1 = Cardinality(F)
        /\ seen.result = IF R = {} THEN 0 ELSE Max(R)
    <3>1. CASE E = {}
      <4>1. seen = NoRow /\ R = {}
        BY <3>1 DEF E, Replay
      <4>2. F = E \cup {e}
        BY <2>1
      <4> HIDE DEF seen, F, R
      <4>3. e > 0 /\ seen.last = 0 /\ seen.count = 0 /\ seen.result = 0
        BY <4>1, LogFacts DEF NoRow
      <4>4. Cardinality(F) = 1
        BY <2>7, <3>1, <4>2
      <4> QED BY <4>1, <4>2, <4>3, <4>4
    <3>2. CASE E # {}
      <4>1. seen = [last |-> Max(E), result |-> IF R = {} THEN 0 ELSE Max(R), count |-> Cardinality(E)]
        BY <3>2 DEF E, Replay
      <4>2. Cardinality(F) = Cardinality(E) + 1 /\ Max(E) < e
        BY <2>1, <2>3, <2>5, <2>7, <3>2
      <4> HIDE DEF seen, F, R
      <4> QED BY <4>1, <4>2
    <3> QED BY <3>1, <3>2
  <2>9. ~(seen.last >= e)
    <3>1. seen.last \in Nat
      <4>1. seen = IF E = {} THEN NoRow
                   ELSE [last |-> Max(E), result |-> IF R = {} THEN 0 ELSE Max(R), count |-> Cardinality(E)]
        BY DEF E, Replay
      <4> QED BY <2>1, <2>5, <4>1 DEF NoRow
    <3> QED BY <2>1, <2>8, <3>1
  <2>10. Applied(seen, e) = [last |-> e, result |-> IF log[e].kind = "outcome" THEN e ELSE seen.result,
                             count |-> seen.count + 1]
    BY <2>9 DEF Applied
  <2>11. Replay(t, S \cup {e}) =
          [last |-> Max(F), result |-> IF Q = {} THEN 0 ELSE Max(Q), count |-> Cardinality(F)]
    <3>1. F # {}
      BY <2>1
    <3> QED BY <3>1 DEF Replay
  <2>12. Max(F) = e
    BY <2>1, <2>4
  <2>13. (IF Q = {} THEN 0 ELSE Max(Q)) = IF log[e].kind = "outcome" THEN e ELSE seen.result
    <3>1. CASE log[e].kind = "outcome"
      <4>1. R \subseteq E
        OBVIOUS
      <4>2. Q # {} /\ Max(Q) = e
        BY <2>2, <2>4, <3>1, <4>1
      <4> QED BY <3>1, <4>2
    <3>2. CASE log[e].kind # "outcome"
      BY <2>2, <2>8, <3>2
    <3> QED BY <3>1, <3>2
  <2> HIDE DEF seen, F, Q, R
  <2>14. Replay(t, S \cup {e}) = Applied(seen, e)
    BY <2>8, <2>10, <2>11, <2>12, <2>13
  <2> QED BY <1>2, <2>14 DEF seen
<1> QED BY <1>1, <1>2

\* Applying a committed event keeps a row sound, whatever the row was.
LEMMA AppliedSound ==
  ASSUME TypeOK, NEW t, NEW row \in ViewRow, RowSound(t, row), NEW e \in EventsOf(t), e \in Committed
  PROVE  Applied(row, e) \in ViewRow /\ RowSound(t, Applied(row, e))
<1> DEFINE E == {d \in EventsOf(t) \cap Committed : d <= row.last}
           F == {d \in EventsOf(t) \cap Committed : d <= e}
<1>1. row.last \in Nat /\ row.count \in Nat /\ row.result \in Nat /\ e \in Nat
  BY LogFacts DEF ViewRow
<1>2. CASE row.last >= e
  BY <1>2 DEF Applied
<1>3. CASE ~(row.last >= e)
  <2>1. Applied(row, e) = [last |-> e, result |-> IF log[e].kind = "outcome" THEN e ELSE row.result,
                           count |-> row.count + 1]
    BY <1>3 DEF Applied
  <2>2. F \subseteq DOMAIN log /\ F \subseteq Nat /\ E \subseteq DOMAIN log
    BY LogFacts
  <2>3. e \in F /\ e \notin E /\ E \cup {e} \in SUBSET F
    BY <1>1, <1>3, LogFacts
  <2>4. row.count <= Cardinality(E)
    BY DEF RowSound
  <2> HIDE DEF E, F
  <2>5. IsFiniteSet(E) /\ IsFiniteSet(F) /\ Cardinality(E) \in Nat /\ Cardinality(F) \in Nat
    BY <2>2, LogFacts
  <2>6. Cardinality(E \cup {e}) = Cardinality(E) + 1
    BY <2>3, <2>5, FS_AddElement
  <2>7. Cardinality(E \cup {e}) <= Cardinality(F)
    BY <2>3, <2>5, FS_Subset
  <2>8. row.count + 1 <= Cardinality(F)
    BY <1>1, <2>4, <2>5, <2>6, <2>7
  <2>9. RowSound(t, Applied(row, e))
    BY <2>1, <2>3, <2>8 DEF RowSound, F
  <2> QED BY <1>1, <2>1, <2>9 DEF ViewRow
<1> QED BY <1>2, <1>3

------------------------------------------------------------------------------
\* The invariant is inductive: one lemma for each kind of step

LEMMA IdleFacts ==
  /\ Idle \in RunnerRow /\ Idle.pc = "idle" /\ Idle.touched = {} /\ Idle.rebuild = "no"
  /\ NoRow \in ViewRow
<1>1. NoRow \in ViewRow
  BY DEF NoRow, ViewRow
<1> QED BY <1>1 DEF Idle, RunnerRow

LEMMA NoRowSound ==
  ASSUME TypeOK, NEW t
  PROVE  RowSound(t, NoRow)
<1> DEFINE E == {e \in EventsOf(t) \cap Committed : e <= NoRow.last}
<1>1. NoRow.count = 0 /\ NoRow.last = 0
  BY DEF NoRow
<1>2. E = {}
  <2>1. \A e \in Committed : e \in Nat /\ e > 0
    BY LogFacts
  <2> QED BY <1>1, <2>1
<1> HIDE DEF E
<1>3. Cardinality(E) = 0
  BY <1>2, FS_EmptySet
<1>4. NoRow.count <= Cardinality(E) /\ NoRow.last \in E \cup {0}
  BY <1>1, <1>3
<1> QED BY <1>4 DEF RowSound, E

\* What is left of a call after a batch.
LEMMA AfterBatchFacts ==
  ASSUME NEW r \in Runners, runner[r] \in RunnerRow, NEW m \in AfterBatch(r)
  PROVE  /\ m \in RunnerRow /\ m.pc \in {"idle", "holding"} /\ m.touched = {}
         /\ m.rebuild = "replay" => runner[r].rebuild = "replay"
         /\ m.pc = "idle" /\ runner[r].rebuild = "replay" => ~runner[r].more
<1> DEFINE stay == [Idle EXCEPT !.pc = "holding", !.fence = runner[r].fence]
           more == [Idle EXCEPT !.pc = "holding", !.fence = runner[r].fence, !.rebuild = "replay"]
<1>1. \A x \in {Idle, stay} : x \in RunnerRow /\ x.pc \in {"idle", "holding"} /\ x.touched = {} /\ x.rebuild = "no"
  BY IdleFacts DEF RunnerRow
<1>2. more \in RunnerRow /\ more.pc = "holding" /\ more.touched = {}
  BY IdleFacts DEF RunnerRow
<1>3. IF runner[r].rebuild = "replay" THEN m = IF runner[r].more THEN more ELSE Idle ELSE m \in {Idle, stay}
  BY DEF AfterBatch
<1> HIDE DEF stay, more
<1> QED BY <1>1, <1>2, <1>3

LEMMA InvInit == Init => IInv
<1> SUFFICES ASSUME Init PROVE IInv
  OBVIOUS
<1> USE EventProjectionAssumption DEF Init, Idle
<1>1. \A t, S : Replay(t, S) = NoRow
  BY DEF Replay, EventsOf
<1>2. TypeOK
  BY DEF TypeOK, ViewRow, NoRow, LeaseRow, RunnerRow
<1>3. \A t : RowSound(t, NoRow)
  BY <1>2, NoRowSound
<1> QED BY <1>1, <1>2, <1>3 DEF IInv, Exclusive, BatchesSound, ViewSound, CursorSound, PromisesSound,
       AloneReplays, InTransaction

\* Appending an event, or ending the append.
LEMMA InvLog ==
  ASSUME IInv, LogStep
  PROVE  IInv'
<1> USE DEF IInv
<1>1. log' \in Seq(Entry) /\ LogGrows
  BY StepLog
<1>2. UNCHANGED <<view, checkpoint, lease, runner, delivered, promised>>
  BY DEF LogStep, AppendTx, EndAppend
<1>3. TypeOK'
  BY <1>1, <1>2 DEF TypeOK
<1>4. Exclusive'
  BY <1>2 DEF Exclusive, InTransaction
<1>5. \A t \in Tasks : RowSound(t, view[t])'
  <2> TAKE t \in Tasks
  <2>1. view[t] \in ViewRow /\ RowSound(t, view[t])
    BY DEF TypeOK, ViewSound
  <2> QED BY <1>1, <1>2, <2>1, SoundWhileLogGrows
<1>6. ASSUME NEW r \in Runners, runner[r].pc = "applying", NEW t \in runner[r].touched
      PROVE  RowSound(t, runner[r].rows[t])'
  <2>1. runner[r].rows[t] \in ViewRow /\ RowSound(t, runner[r].rows[t])
    BY <1>6 DEF TypeOK, RunnerRow, BatchesSound
  <2> QED BY <1>1, <1>2, <2>1, SoundWhileLogGrows
<1>7. BatchesSound'
  <2>1. \A c \in Consumers : Unread(c) \subseteq Unread(c)'
    BY <1>1, <1>2 DEF LogGrows, Unread
  <2>2. \A r \in Runners : ConsumerOf[r] \in Consumers /\ Done(r)' = Done(r)
    BY <1>2, EventProjectionAssumption DEF Done
  <2> QED BY <1>2, <1>6, <2>1, <2>2 DEF BatchesSound
<1>8. ViewSound' /\ CursorSound' /\ PromisesSound'
  BY <1>1, <1>2, <1>5 DEF LogGrows, ViewSound, CursorSound, PromisesSound
<1>9. AloneReplays'
  <2> SUFFICES ASSUME NEW c \in Consumers, Alone(c)'
               PROVE  /\ \A t \in Tasks : view[t] = Replay(t, delivered[c])'
                      /\ \A r \in Runners : ConsumerOf[r] = c =>
                           /\ runner[r].pc = "applying" =>
                                \A t \in Tasks : RowSeen(r, t) = Replay(t, delivered[c] \cup Done(r))'
                           /\ runner[r].pc = "deleting" => runner[r].doomed = {t \in Tasks : view[t] # NoRow}
    BY <1>2 DEF AloneReplays, RowSeen
  <2>1. Alone(c)
    BY <1>2 DEF Alone
  <2>2. delivered[c] \subseteq DOMAIN log
    BY LogFacts DEF CursorSound
  <2>3. \A t \in Tasks : view[t] = Replay(t, delivered[c])'
    <3> TAKE t \in Tasks
    <3>1. Replay(t, delivered[c])' = Replay(t, delivered[c])
      BY <1>1, <1>2, <2>2, ReplayWhileLogGrows
    <3> QED BY <2>1, <3>1 DEF AloneReplays
  <2>4. ASSUME NEW r \in Runners, ConsumerOf[r] = c, runner[r].pc = "applying", NEW t \in Tasks
        PROVE  RowSeen(r, t) = Replay(t, delivered[c] \cup Done(r))'
    <3>1. delivered[c] \cup Done(r) \subseteq DOMAIN log
      BY <2>2, <2>4, LogFacts DEF BatchesSound, Unread, Done
    <3>2. (delivered[c] \cup Done(r))' = delivered[c] \cup Done(r)
      BY <1>2 DEF Done
    <3>3. Replay(t, delivered[c] \cup Done(r))' = Replay(t, delivered[c] \cup Done(r))
      BY <1>1, <3>1, <3>2, ReplayWhileLogGrows
    <3> QED BY <2>1, <2>4, <3>3 DEF AloneReplays
  <2> QED BY <2>1, <2>3, <2>4 DEF AloneReplays
<1> QED BY <1>3, <1>4, <1>7, <1>8, <1>9

\* A call that holds no rows and no locks.
Outside(m) ==
  /\ m \in RunnerRow
  /\ m.pc \in {"idle", "holding"}
  /\ m.touched = {}
  /\ m.rebuild # "replay"

\* Calls come and go and leases change hands outside of transactions.
LEMMA InvOutside ==
  ASSUME IInv, UNCHANGED <<log, view, checkpoint, delivered, promised>>,
         runner' \in [Runners -> RunnerRow], lease' \in [Consumers -> LeaseRow],
         \A r \in Runners : runner'[r] = runner[r] \/ Outside(runner'[r]),
         \A c \in Consumers :
           /\ lease'[c].state = "active" => lease'[c].fence # 0
           /\ lease'[c].fence = 0 => lease[c].fence = 0
           /\ LeaseLocked(c) => lease'[c].fence = lease[c].fence /\ lease'[c].owner = lease[c].owner
  PROVE  IInv'
<1> USE EventProjectionAssumption DEF IInv
<1>1. TypeOK'
  BY DEF TypeOK
<1>2. \A r \in Runners : ConsumerOf[r] \in Consumers /\
        (runner'[r].pc \in {"applying", "deleting"} \/ runner'[r].rebuild = "replay" => runner'[r] = runner[r])
  BY DEF Outside
<1>3. Exclusive'
  <2>1. \A r \in Runners : InTransaction(r)' => InTransaction(r) /\ runner'[r] = runner[r] /\ LeaseLocked(ConsumerOf[r])
    BY <1>2 DEF InTransaction, LeaseLocked
  <2> QED BY <1>2, <2>1 DEF Exclusive
<1>4. \A c \in Consumers : Unread(c)' = Unread(c)
  BY DEF Unread, Committed
<1>5. \A t, row : RowSound(t, row)' = RowSound(t, row)
  BY DEF RowSound, EventsOf, Committed
<1>6. BatchesSound'
  <2> SUFFICES ASSUME NEW r \in Runners
               PROVE  /\ runner'[r].pc # "applying" => runner'[r].touched = {}
                      /\ runner'[r].pc = "applying" =>
                           /\ runner'[r].batch \subseteq Unread(ConsumerOf[r])'
                           /\ runner'[r].todo \subseteq runner'[r].batch
                           /\ \A d \in Done(r)', e \in runner'[r].todo : d < e
                           /\ runner'[r].batch = {} => runner'[r].touched = {}
                           /\ \A t \in runner'[r].touched : RowSound(t, runner[r].rows[t])'
    BY DEF BatchesSound
  <2>1. CASE runner'[r] = runner[r]
    BY <1>2, <1>4, <1>5, <2>1 DEF BatchesSound, Done
  <2>2. CASE Outside(runner'[r])
    BY <2>2 DEF Outside
  <2> QED BY <2>1, <2>2
<1>7. ViewSound' /\ CursorSound'
  BY <1>5 DEF ViewSound, CursorSound, Committed
<1>8. PromisesSound'
  BY <1>2 DEF PromisesSound, Committed
<1>9. AloneReplays'
  <2> SUFFICES ASSUME NEW c \in Consumers, Alone(c)'
               PROVE  /\ \A t \in Tasks : view[t] = Replay(t, delivered[c])'
                      /\ \A r \in Runners : ConsumerOf[r] = c =>
                           /\ runner'[r].pc = "applying" =>
                                \A t \in Tasks : RowSeen(r, t)' = Replay(t, delivered[c] \cup Done(r))'
                           /\ runner'[r].pc = "deleting" => runner'[r].doomed = {t \in Tasks : view[t] # NoRow}
    BY DEF AloneReplays
  <2>1. Alone(c)
    BY DEF Alone
  <2>2. \A t, S : Replay(t, S)' = Replay(t, S)
    BY DEF Replay, EventsOf
  <2>3. \A r \in Runners : runner'[r] = runner[r] => Done(r)' = Done(r) /\ \A t \in Tasks : RowSeen(r, t)' = RowSeen(r, t)
    BY DEF Done, RowSeen
  <2>4. \A t \in Tasks : view[t] = Replay(t, delivered[c])'
    BY <2>1, <2>2 DEF AloneReplays
  <2>5. ASSUME NEW r \in Runners, ConsumerOf[r] = c, runner'[r].pc = "applying", NEW t \in Tasks
        PROVE  RowSeen(r, t)' = Replay(t, delivered[c] \cup Done(r))'
    <3>1. runner'[r] = runner[r]
      BY <1>2, <2>5
    <3>2. RowSeen(r, t) = Replay(t, delivered[c] \cup Done(r))
      <4>1. runner[r].pc = "applying"
        BY <2>5, <3>1
      <4> QED BY <2>1, <2>5, <4>1, Zenon DEF AloneReplays
    <3>3. (delivered[c] \cup Done(r))' = delivered[c] \cup Done(r)
      BY <2>3, <3>1
    <3> QED BY <2>2, <2>3, <3>1, <3>2, <3>3
  <2>6. ASSUME NEW r \in Runners, ConsumerOf[r] = c, runner'[r].pc = "deleting"
        PROVE  runner'[r].doomed = {t \in Tasks : view[t] # NoRow}
    <3>1. runner'[r] = runner[r]
      BY <1>2, <2>6
    <3> QED BY <2>1, <2>6, <3>1 DEF AloneReplays
  <2> QED BY <2>4, <2>5, <2>6
<1> QED BY <1>1, <1>3, <1>6, <1>7, <1>8, <1>9

\* A batch begins: the first events beyond the cursor.
LEMMA InvBeginBatch ==
  ASSUME IInv, NEW r \in Runners, BeginBatch(r)
  PROVE  IInv'
<1> DEFINE c == ConsumerOf[r]
           B == FirstOf(Unread(c), BatchSize)
           m == [runner[r] EXCEPT !.pc = "applying", !.batch = B, !.todo = B, !.more = HasMore(c)]
<1> USE EventProjectionAssumption DEF IInv
<1>1. /\ runner[r].pc = "holding" /\ runner[r].rebuild # "reset" /\ ~LeaseLocked(c) /\ TokenValid(r)
      /\ runner' = [runner EXCEPT ![r] = m]
      /\ UNCHANGED <<log, view, checkpoint, lease, delivered, promised>>
  BY DEF BeginBatch
<1>2. c \in Consumers /\ checkpoint[c] \in Nat /\ runner[r] \in RunnerRow
  BY DEF TypeOK
<1>3. Unread(c) \subseteq Nat /\ IsFiniteSet(Unread(c)) /\ Cardinality(Unread(c)) \in Nat
  <2>1. Unread(c) \subseteq DOMAIN log
    BY LogFacts DEF Unread
  <2> QED BY <2>1, LogFacts
<1>4. /\ B \subseteq Unread(c)
      /\ \A d \in B, e \in Unread(c) \ B : d < e
      /\ ~HasMore(c) => B = Unread(c)
  <2>1. ~HasMore(c) => Cardinality(Unread(c)) <= BatchSize
    BY <1>3 DEF HasMore
  <2> QED BY <1>3, <2>1, FirstFacts
<1>5. /\ m \in RunnerRow /\ m.pc = "applying" /\ m.batch = B /\ m.todo = B /\ m.more = HasMore(c)
      /\ m.fence = runner[r].fence /\ m.rebuild = runner[r].rebuild /\ m.touched = runner[r].touched
      /\ m.rows = runner[r].rows
  <2>1. HasMore(c) \in BOOLEAN
    BY DEF HasMore
  <2> QED BY <1>2, <1>3, <1>4, <2>1 DEF RunnerRow
<1> HIDE DEF m, B, c
<1>6. \A q \in Runners : runner'[q] = IF q = r THEN m ELSE runner[q]
  BY <1>1 DEF TypeOK
<1>7. TypeOK'
  BY <1>1, <1>5 DEF TypeOK
<1>8. m.touched = {}
  BY <1>1, <1>5 DEF BatchesSound
<1>9. \A q \in Runners : ConsumerOf[q] = c => ~InTransaction(q)
  BY <1>1 DEF LeaseLocked
<1>10. Exclusive'
  BY <1>1, <1>2, <1>5, <1>6, <1>9 DEF Exclusive, InTransaction, TokenValid, c
<1>11. \A b \in Consumers : Unread(b)' = Unread(b)
  BY <1>1 DEF Unread, Committed
<1>12. \A t, row : RowSound(t, row)' = RowSound(t, row)
  BY <1>1 DEF RowSound, EventsOf, Committed
<1>13. BatchesSound'
  <2> SUFFICES ASSUME NEW q \in Runners
               PROVE  /\ runner'[q].pc # "applying" => runner'[q].touched = {}
                      /\ runner'[q].pc = "applying" =>
                           /\ runner'[q].batch \subseteq Unread(ConsumerOf[q])'
                           /\ runner'[q].todo \subseteq runner'[q].batch
                           /\ \A d \in Done(q)', e \in runner'[q].todo : d < e
                           /\ runner'[q].batch = {} => runner'[q].touched = {}
                           /\ \A t \in runner'[q].touched : RowSound(t, runner[q].rows[t])'
    BY DEF BatchesSound
  <2>1. CASE q = r
    BY <1>4, <1>5, <1>6, <1>8, <1>11, <2>1 DEF Done, c
  <2>2. CASE q # r
    BY <1>6, <1>11, <1>12, <2>2 DEF BatchesSound, Done
  <2> QED BY <2>1, <2>2
<1>14. ViewSound' /\ CursorSound'
  BY <1>1, <1>12 DEF ViewSound, CursorSound, Committed
<1>15. \A q \in Runners : runner'[q].rebuild = runner[q].rebuild
  BY <1>5, <1>6
<1>16. PromisesSound'
  <2>1. ASSUME NEW q \in Runners, runner[q].rebuild = "replay", ConsumerOf[q] = c, NEW e \in promised[q]
        PROVE  e \in delivered[c] \/ e \in Unread(c)
    BY <2>1 DEF PromisesSound, Unread
  <2>2. ASSUME NEW q \in Runners, runner[q].rebuild = "replay", ConsumerOf[q] = c, NEW e \in promised[q]
        PROVE  e \in delivered[c] \cup B \/ \A d \in B : d < e
    BY <1>4, <2>1, <2>2
  <2>3. ASSUME runner[r].rebuild = "replay", ~HasMore(c), NEW e \in promised[r]
        PROVE  e \in delivered[c] \cup B
    BY <1>4, <2>1, <2>3 DEF c
  <2> SUFFICES ASSUME NEW q \in Runners
               PROVE  /\ promised[q] \subseteq Committed'
                      /\ runner[q].rebuild = "replay" =>
                           /\ \A e \in promised[q] : e \in delivered[ConsumerOf[q]] \/ e > checkpoint[ConsumerOf[q]]
                           /\ \A p \in Runners : runner'[p].pc = "applying" /\ ConsumerOf[p] = ConsumerOf[q] =>
                                \A e \in promised[q] :
                                  e \in delivered[ConsumerOf[q]] \cup runner'[p].batch
                                    \/ \A d \in runner'[p].batch : d < e
                           /\ runner'[q].pc = "applying" /\ ~runner'[q].more =>
                                promised[q] \subseteq delivered[ConsumerOf[q]] \cup runner'[q].batch
    BY <1>1, <1>15 DEF PromisesSound
  <2>4. promised[q] \subseteq Committed'
    BY <1>1 DEF PromisesSound, Committed
  <2>5. ASSUME runner[q].rebuild = "replay", NEW p \in Runners, runner'[p].pc = "applying",
               ConsumerOf[p] = ConsumerOf[q], NEW e \in promised[q]
        PROVE  e \in delivered[ConsumerOf[q]] \cup runner'[p].batch \/ \A d \in runner'[p].batch : d < e
    <3>1. CASE p = r
      BY <1>5, <1>6, <2>2, <2>5, <3>1 DEF c
    <3>2. CASE p # r
      BY <1>6, <2>5, <3>2 DEF PromisesSound
    <3> QED BY <3>1, <3>2
  <2>6. ASSUME runner[q].rebuild = "replay", runner'[q].pc = "applying", ~runner'[q].more
        PROVE  promised[q] \subseteq delivered[ConsumerOf[q]] \cup runner'[q].batch
    <3>1. CASE q = r
      BY <1>5, <1>6, <2>3, <2>6, <3>1 DEF c
    <3>2. CASE q # r
      BY <1>6, <2>6, <3>2 DEF PromisesSound
    <3> QED BY <3>1, <3>2
  <2> QED BY <2>4, <2>5, <2>6 DEF PromisesSound
<1>17. AloneReplays'
  <2> SUFFICES ASSUME NEW b \in Consumers, Alone(b)'
               PROVE  /\ \A t \in Tasks : view[t] = Replay(t, delivered[b])'
                      /\ \A q \in Runners : ConsumerOf[q] = b =>
                           /\ runner'[q].pc = "applying" =>
                                \A t \in Tasks : RowSeen(q, t)' = Replay(t, delivered[b] \cup Done(q))'
                           /\ runner'[q].pc = "deleting" => runner'[q].doomed = {t \in Tasks : view[t] # NoRow}
    BY <1>1 DEF AloneReplays
  <2>1. Alone(b)
    BY <1>1 DEF Alone
  <2>2. \A t, S : Replay(t, S)' = Replay(t, S)
    BY <1>1 DEF Replay, EventsOf
  <2>3. \A t \in Tasks : view[t] = Replay(t, delivered[b])'
    BY <1>1, <2>1, <2>2 DEF AloneReplays
  <2>4. ASSUME NEW q \in Runners, ConsumerOf[q] = b, runner'[q].pc = "applying", NEW t \in Tasks
        PROVE  RowSeen(q, t)' = Replay(t, delivered[b] \cup Done(q))'
    <3>1. CASE q = r
      <4>1. RowSeen(q, t)' = view[t]
        BY <1>1, <1>6, <1>8, <3>1 DEF RowSeen
      <4>2. (delivered[b] \cup Done(q))' = delivered[b]
        BY <1>1, <1>5, <1>6, <3>1 DEF Done
      <4> QED BY <1>1, <2>3, <4>1, <4>2, <2>2
    <3>2. CASE q # r
      <4>1. runner'[q] = runner[q] /\ RowSeen(q, t) = Replay(t, delivered[b] \cup Done(q))
        BY <1>6, <2>1, <2>4, <3>2 DEF AloneReplays
      <4>2. RowSeen(q, t)' = RowSeen(q, t) /\ (delivered[b] \cup Done(q))' = delivered[b] \cup Done(q)
        BY <1>1, <4>1 DEF RowSeen, Done
      <4> QED BY <2>2, <4>1, <4>2
    <3> QED BY <3>1, <3>2
  <2>5. ASSUME NEW q \in Runners, ConsumerOf[q] = b, runner'[q].pc = "deleting"
        PROVE  runner'[q].doomed = {t \in Tasks : view[t] # NoRow}
    BY <1>5, <1>6, <2>1, <2>5 DEF AloneReplays
  <2> QED BY <2>3, <2>4, <2>5
<1> QED BY <1>7, <1>10, <1>13, <1>14, <1>16, <1>17

\* One event of a batch is done with: its row, if it has one, is what applying it
\* to the row that the transaction saw gives.
LEMMA InvNextEvent ==
  ASSUME IInv, NEW r \in Runners, runner[r].pc = "applying", NEW e \in runner[r].todo,
         \A d \in runner[r].todo : e <= d,
         NEW m \in RunnerRow, runner' = [runner EXCEPT ![r] = m],
         m.pc = "applying", m.batch = runner[r].batch, m.todo = runner[r].todo \ {e},
         m.more = runner[r].more, m.fence = runner[r].fence, m.rebuild = runner[r].rebuild,
         \A t \in m.touched : RowSound(t, m.rows[t]),
         \A t \in Tasks : (IF t \in m.touched THEN m.rows[t] ELSE view[t]) =
           IF e \in EventsOf(t) THEN Applied(RowSeen(r, t), e) ELSE RowSeen(r, t),
         UNCHANGED <<log, view, checkpoint, lease, delivered, promised>>
  PROVE  IInv'
<1> USE EventProjectionAssumption DEF IInv
<1>1. \A q \in Runners : runner'[q] = IF q = r THEN m ELSE runner[q]
  BY DEF TypeOK
<1>2. TypeOK'
  BY DEF TypeOK
<1>3. Exclusive'
  <2>1. \A q \in Runners : InTransaction(q)' = InTransaction(q) /\ runner'[q].fence = runner[q].fence
    BY <1>1 DEF InTransaction
  <2> QED BY <2>1 DEF Exclusive
<1>4. \A c \in Consumers : Unread(c)' = Unread(c)
  BY DEF Unread, Committed
<1>5. \A t, row : RowSound(t, row)' = RowSound(t, row)
  BY DEF RowSound, EventsOf, Committed
<1>6. Done(r)' = Done(r) \cup {e} /\ runner[r].batch \subseteq Unread(ConsumerOf[r]) /\ runner[r].todo \subseteq runner[r].batch
  BY <1>1 DEF Done, BatchesSound
<1>7. Unread(ConsumerOf[r]) \subseteq Nat /\ Unread(ConsumerOf[r]) \subseteq DOMAIN log
  BY LogFacts DEF Unread
<1>8. BatchesSound'
  <2> SUFFICES ASSUME NEW q \in Runners
               PROVE  /\ runner'[q].pc # "applying" => runner'[q].touched = {}
                      /\ runner'[q].pc = "applying" =>
                           /\ runner'[q].batch \subseteq Unread(ConsumerOf[q])'
                           /\ runner'[q].todo \subseteq runner'[q].batch
                           /\ \A d \in Done(q)', x \in runner'[q].todo : d < x
                           /\ runner'[q].batch = {} => runner'[q].touched = {}
                           /\ \A t \in runner'[q].touched : RowSound(t, runner[q].rows[t])'
    BY DEF BatchesSound
  <2>1. CASE q = r
    <3>1. \A d \in Done(r)', x \in m.todo : d < x
      <4> SUFFICES ASSUME NEW d \in Done(r)', NEW x \in m.todo PROVE d < x
        OBVIOUS
      <4>1. x \in Nat /\ e \in Nat /\ x # e /\ e <= x
        BY <1>6, <1>7
      <4>2. d \in Done(r) => d < x
        BY DEF BatchesSound
      <4> QED BY <1>6, <4>1, <4>2
    <3>2. runner'[r] = m /\ m.batch # {}
      BY <1>1, <1>6
    <3> QED BY <1>4, <1>5, <1>6, <2>1, <3>1, <3>2
  <2>2. CASE q # r
    BY <1>1, <1>4, <1>5, <2>2 DEF BatchesSound, Done
  <2> QED BY <2>1, <2>2
<1>9. ViewSound' /\ CursorSound'
  BY <1>5 DEF ViewSound, CursorSound, Committed
<1>10. PromisesSound'
  <2>1. \A q \in Runners : runner'[q].rebuild = runner[q].rebuild /\ runner'[q].pc = runner[q].pc
           /\ runner'[q].batch = runner[q].batch /\ runner'[q].more = runner[q].more
    BY <1>1
  <2> QED BY <2>1 DEF PromisesSound, Committed
<1>11. AloneReplays'
  <2> SUFFICES ASSUME NEW b \in Consumers, Alone(b)'
               PROVE  /\ \A t \in Tasks : view[t] = Replay(t, delivered[b])'
                      /\ \A q \in Runners : ConsumerOf[q] = b =>
                           /\ runner'[q].pc = "applying" =>
                                \A t \in Tasks : RowSeen(q, t)' = Replay(t, delivered[b] \cup Done(q))'
                           /\ runner'[q].pc = "deleting" => runner'[q].doomed = {t \in Tasks : view[t] # NoRow}
    BY DEF AloneReplays
  <2>1. Alone(b)
    BY DEF Alone
  <2>2. \A t, S : Replay(t, S)' = Replay(t, S)
    BY DEF Replay, EventsOf
  <2>3. \A t \in Tasks : view[t] = Replay(t, delivered[b])'
    BY <2>1, <2>2 DEF AloneReplays
  <2>4. ASSUME NEW q \in Runners, ConsumerOf[q] = b, runner'[q].pc = "applying", NEW t \in Tasks
        PROVE  RowSeen(q, t)' = Replay(t, delivered[b] \cup Done(q))'
    <3>1. CASE q = r
      <4> DEFINE S == delivered[b] \cup Done(r)
      <4>1. RowSeen(r, t) = Replay(t, S)
        BY <2>1, <2>4, <3>1 DEF AloneReplays
      <4>2. RowSeen(r, t)' = IF e \in EventsOf(t) THEN Applied(RowSeen(r, t), e) ELSE RowSeen(r, t)
        BY <1>1 DEF RowSeen
      <4>3. S \subseteq DOMAIN log /\ e \in DOMAIN log
        BY <1>6, <1>7, LogFacts DEF Done, CursorSound
      <4>4. \A d \in S : d < e
        <5> SUFFICES ASSUME NEW d \in S PROVE d < e
          OBVIOUS
        <5>1. CASE d \in Done(r)
          BY <5>1 DEF BatchesSound
        <5>2. CASE d \in delivered[b]
          <6>1. d <= checkpoint[b] /\ e > checkpoint[b] /\ d \in Nat /\ e \in Nat /\ checkpoint[b] \in Nat
            BY <1>6, <1>7, <2>4, <3>1, <5>2 DEF CursorSound, Unread, TypeOK
          <6> QED BY <6>1
        <5> QED BY <5>1, <5>2
      <4>5. (delivered[b] \cup Done(r))' = S \cup {e}
        BY <1>6
      <4> HIDE DEF S
      <4>6. RowSeen(r, t)' = Replay(t, S \cup {e})
        BY <4>1, <4>2, <4>3, <4>4, ReplayNext
      <4> QED BY <2>2, <3>1, <4>5, <4>6
    <3>2. CASE q # r
      <4>1. runner'[q] = runner[q] /\ RowSeen(q, t) = Replay(t, delivered[b] \cup Done(q))
        BY <1>1, <2>1, <2>4, <3>2 DEF AloneReplays
      <4>2. RowSeen(q, t)' = RowSeen(q, t) /\ (delivered[b] \cup Done(q))' = delivered[b] \cup Done(q)
        BY <4>1 DEF RowSeen, Done
      <4> QED BY <2>2, <4>1, <4>2
    <3> QED BY <3>1, <3>2
  <2>5. ASSUME NEW q \in Runners, ConsumerOf[q] = b, runner'[q].pc = "deleting"
        PROVE  runner'[q].doomed = {t \in Tasks : view[t] # NoRow}
    <3>1. runner'[q] = runner[q] /\ runner[q].pc = "deleting"
      BY <1>1, <2>5
    <3>2. runner[q].doomed = {t \in Tasks : view[t] # NoRow}
      BY <2>1, <2>5, <3>1 DEF AloneReplays
    <3> QED BY <3>1, <3>2
  <2> QED BY <2>3, <2>4, <2>5
<1> QED BY <1>2, <1>3, <1>8, <1>9, <1>10, <1>11

LEMMA InvApply ==
  ASSUME IInv, NEW r \in Runners, Apply(r)
  PROVE  IInv'
<1> DEFINE e == Min(runner[r].todo)
           t == log[e].task
           row == Applied(RowSeen(r, t), e)
           one == [runner[r] EXCEPT !.todo = @ \ {e}]
           two == [runner[r] EXCEPT !.todo = @ \ {e}, !.touched = @ \cup {t}, !.rows[t] = row]
<1> USE EventProjectionAssumption DEF IInv
<1>1. /\ runner[r].pc = "applying" /\ runner[r].todo # {} /\ runner[r] \in RunnerRow
      /\ UNCHANGED <<log, view, checkpoint, lease, delivered, promised>>
      /\ \/ log[e].kind = "other" /\ runner' = [runner EXCEPT ![r] = one]
         \/ log[e].kind # "other" /\ runner' = [runner EXCEPT ![r] = two]
  <2>1. runner[r] \in RunnerRow
    BY DEF TypeOK
  <2>2. runner[r].pc = "applying" /\ runner[r].todo # {}
    BY Zenon DEF Apply
  <2>3. UNCHANGED <<log, view, checkpoint, lease, delivered, promised>>
    BY Zenon DEF Apply
  <2>4. \/ log[e].kind = "other" /\ runner' = [runner EXCEPT ![r] = one]
        \/ log[e].kind # "other" /\ runner' = [runner EXCEPT ![r] = two]
    BY <2>1 DEF Apply, TypeOK
  <2> QED BY <2>1, <2>2, <2>3, <2>4
<1>2. /\ runner[r].todo \subseteq Nat /\ runner[r].touched \subseteq Tasks /\ runner[r].rows \in [Tasks -> ViewRow]
  BY <1>1 DEF RunnerRow
<1>3. e \in runner[r].todo /\ \A d \in runner[r].todo : e <= d
  BY <1>1, <1>2, MinFacts
<1> HIDE DEF e
<1>4. e \in Committed /\ e \in DOMAIN log /\ t \in Tasks
  <2>1. e \in Committed /\ e \in DOMAIN log
    BY <1>1, <1>3 DEF BatchesSound, Unread, Committed
  <2>2. log[e] \in Entry
    BY <2>1 DEF TypeOK
  <2> QED BY <2>1, <2>2 DEF Entry
<1>5. \A x \in Tasks : RowSeen(r, x) \in ViewRow /\ RowSound(x, RowSeen(r, x))
  BY <1>1, <1>2 DEF RowSeen, TypeOK, ViewSound, BatchesSound
<1>6. \A x \in Tasks : e \in EventsOf(x) <=> x = t /\ log[e].kind # "other"
  BY <1>4 DEF EventsOf
<1>7. CASE log[e].kind = "other" /\ runner' = [runner EXCEPT ![r] = one]
  <2>1. /\ one \in RunnerRow /\ one.pc = "applying" /\ one.batch = runner[r].batch /\ one.todo = runner[r].todo \ {e}
        /\ one.more = runner[r].more /\ one.fence = runner[r].fence /\ one.rebuild = runner[r].rebuild
        /\ one.touched = runner[r].touched /\ one.rows = runner[r].rows
    BY <1>1, <1>2 DEF RunnerRow
  <2> HIDE DEF one
  <2>2. \A x \in one.touched : RowSound(x, one.rows[x])
    BY <1>1, <2>1 DEF BatchesSound
  <2>3. \A x \in Tasks : (IF x \in one.touched THEN one.rows[x] ELSE view[x]) =
           IF e \in EventsOf(x) THEN Applied(RowSeen(r, x), e) ELSE RowSeen(r, x)
    BY <1>6, <1>7, <2>1 DEF RowSeen
  <2> QED BY <1>1, <1>3, <1>7, <2>1, <2>2, <2>3, InvNextEvent
<1>8. CASE log[e].kind # "other" /\ runner' = [runner EXCEPT ![r] = two]
  <2>1. row \in ViewRow /\ RowSound(t, row)
    <3>1. e \in EventsOf(t)
      BY <1>4, <1>6, <1>8
    <3> HIDE DEF t
    <3> QED BY <1>4, <1>5, <3>1, AppliedSound
  <2> HIDE DEF t, row
  <2>2. [runner[r].rows EXCEPT ![t] = row] \in [Tasks -> ViewRow]
    BY <1>2, <2>1
  <2>3. /\ two \in RunnerRow /\ two.pc = "applying" /\ two.batch = runner[r].batch /\ two.todo = runner[r].todo \ {e}
        /\ two.more = runner[r].more /\ two.fence = runner[r].fence /\ two.rebuild = runner[r].rebuild
        /\ two.touched = runner[r].touched \cup {t} /\ two.rows = [runner[r].rows EXCEPT ![t] = row]
    BY <1>1, <1>2, <1>4, <2>2 DEF RunnerRow
  <2> HIDE DEF two
  <2>4. \A x \in two.touched : two.rows[x] = IF x = t THEN row ELSE runner[r].rows[x]
    BY <1>2, <1>4, <2>3
  <2>5. \A x \in two.touched : RowSound(x, two.rows[x])
    BY <1>1, <2>1, <2>3, <2>4 DEF BatchesSound
  <2>6. \A x \in Tasks : (IF x \in two.touched THEN two.rows[x] ELSE view[x]) =
           IF e \in EventsOf(x) THEN Applied(RowSeen(r, x), e) ELSE RowSeen(r, x)
    BY <1>6, <1>8, <2>3, <2>4 DEF RowSeen, row
  <2> QED BY <1>1, <1>3, <1>8, <2>3, <2>5, <2>6, InvNextEvent
<1> QED BY <1>1, <1>7, <1>8

\* A transaction of a consumer is over: no other call of it is in one, and it is
\* not the case that another consumer is alone.
LEMMA Sole ==
  ASSUME IInv, NEW r \in Runners, InTransaction(r)
  PROVE  /\ ConsumerOf[r] \in Consumers
         /\ \A q \in Runners : ConsumerOf[q] = ConsumerOf[r] /\ InTransaction(q) => q = r
         /\ \A b \in Consumers : Alone(b) => b = ConsumerOf[r]
BY EventProjectionAssumption DEF IInv, Exclusive, Alone

\* The rows of an event log and a replay do not depend on anything else.
LEMMA SameLog ==
  ASSUME log' = log
  PROVE  /\ Committed' = Committed
         /\ \A t, row : RowSound(t, row)' = RowSound(t, row)
         /\ \A t, S : Replay(t, S)' = Replay(t, S)
BY DEF RowSound, EventsOf, Committed, Replay

\* A batch commits: view, cursor and delivery together.
LEMMA InvCommitBatch ==
  ASSUME IInv, NEW r \in Runners, CommitBatch(r)
  PROVE  IInv'
<1> DEFINE c == ConsumerOf[r]
           B == runner[r].batch
<1> USE EventProjectionAssumption DEF IInv
<1>1. PICK m \in AfterBatch(r) : runner' = [runner EXCEPT ![r] = m]
  BY DEF CommitBatch
<1>2. /\ runner[r].pc = "applying" /\ runner[r].todo = {}
      /\ view' = [t \in Tasks |-> RowSeen(r, t)]
      /\ checkpoint' = [checkpoint EXCEPT ![c] = CheckpointAfter(r)]
      /\ delivered' = [delivered EXCEPT ![c] = @ \cup B]
      /\ UNCHANGED <<log, lease, promised>>
  BY DEF CommitBatch
<1>3. /\ c \in Consumers
      /\ \A q \in Runners : ConsumerOf[q] = c /\ InTransaction(q) => q = r
      /\ \A b \in Consumers : Alone(b) => b = c
  BY <1>2, Sole DEF InTransaction
<1>4. runner[r] \in RunnerRow /\ B \subseteq Unread(c) /\ Done(r) = B
  BY <1>2 DEF TypeOK, BatchesSound, Done
<1>5. /\ m \in RunnerRow /\ m.pc \in {"idle", "holding"} /\ m.touched = {}
      /\ m.rebuild = "replay" => runner[r].rebuild = "replay"
  BY <1>4, AfterBatchFacts
<1>6. /\ B = {} => CheckpointAfter(r) = checkpoint[c]
      /\ B # {} => CheckpointAfter(r) \in B /\ \A e \in B : CheckpointAfter(r) >= e
  <2>1. B \subseteq 1..Len(log) /\ Len(log) \in Nat
    BY <1>4, LogFacts DEF Unread
  <2> QED BY <2>1, MaxFacts DEF CheckpointAfter
<1>7. /\ B \subseteq Nat /\ B \subseteq Committed /\ checkpoint[c] \in Nat /\ CheckpointAfter(r) \in Nat
      /\ \A e \in B : e > checkpoint[c]
      /\ CheckpointAfter(r) >= checkpoint[c]
      /\ \A e \in B : e <= CheckpointAfter(r)
      /\ \A e \in Nat : e > CheckpointAfter(r) <=> e > checkpoint[c] /\ \A d \in B : d < e
  <2>1. B \subseteq Nat /\ B \subseteq Committed /\ checkpoint[c] \in Nat /\ \A e \in B : e > checkpoint[c]
    BY <1>3, <1>4, LogFacts DEF Unread, TypeOK
  <2> HIDE DEF B
  <2>2. CASE B = {}
    BY <1>6, <2>1, <2>2
  <2>3. CASE B # {}
    <3> DEFINE x == CheckpointAfter(r)
    <3>1. x \in B /\ x \in Nat /\ x > checkpoint[c] /\ \A e \in B : e <= x
      BY <1>6, <2>1, <2>3
    <3> HIDE DEF x
    <3>2. \A e \in Nat : e > x <=> e > checkpoint[c] /\ \A d \in B : d < e
      BY <2>1, <3>1
    <3> QED BY <2>1, <3>1, <3>2 DEF x
  <2> QED BY <2>2, <2>3
<1> HIDE DEF B, c
<1>8. \A q \in Runners : runner'[q] = IF q = r THEN m ELSE runner[q]
  BY <1>1 DEF TypeOK
<1>9. \A q \in Runners : InTransaction(q)' => q # r /\ InTransaction(q) /\ runner'[q] = runner[q] /\ ConsumerOf[q] # c
  BY <1>3, <1>5, <1>8 DEF InTransaction
<1>10. /\ \A b \in Consumers : checkpoint'[b] = IF b = c THEN CheckpointAfter(r) ELSE checkpoint[b]
       /\ \A b \in Consumers : delivered'[b] = IF b = c THEN delivered[c] \cup B ELSE delivered[b]
  BY <1>2 DEF TypeOK
<1>11. \A t \in Tasks : view'[t] \in ViewRow /\ RowSound(t, view'[t])
  <2> TAKE t \in Tasks
  <2>1. CASE t \in runner[r].touched
    BY <1>2, <1>4, <2>1 DEF RowSeen, BatchesSound, RunnerRow
  <2>2. CASE t \notin runner[r].touched
    BY <1>2, <2>2 DEF RowSeen, ViewSound, TypeOK
  <2> QED BY <2>1, <2>2
<1>12. TypeOK'
  BY <1>1, <1>2, <1>5, <1>7, <1>11 DEF TypeOK
<1>13. Exclusive'
  BY <1>2, <1>9 DEF Exclusive
<1>14. ViewSound' /\ CursorSound'
  <2>1. \A t \in Tasks : RowSound(t, view[t])'
    BY <1>2, <1>11, SameLog
  <2>2. ASSUME NEW b \in Consumers, NEW e \in delivered'[b] PROVE e \in Committed' /\ e <= checkpoint'[b]
    <3>1. CASE b = c
      <4>1. e \in delivered[c] \/ e \in B
        BY <1>10, <2>2, <3>1
      <4>2. e \in Committed /\ e <= CheckpointAfter(r)
        <5>1. CASE e \in delivered[c]
          <6>1. e \in Committed /\ e <= checkpoint[c] /\ e \in Nat
            BY <1>3, <5>1 DEF CursorSound, TypeOK
          <6> QED BY <1>7, <6>1
        <5>2. CASE e \in B
          BY <1>7, <5>2
        <5> QED BY <4>1, <5>1, <5>2
      <4> QED BY <1>2, <1>10, <3>1, <4>2, SameLog
    <3>2. CASE b # c
      BY <1>2, <1>10, <2>2, <3>2, SameLog DEF CursorSound
    <3> QED BY <3>1, <3>2
  <2> QED BY <2>1, <2>2 DEF ViewSound, CursorSound
<1>15. BatchesSound'
  <2> SUFFICES ASSUME NEW q \in Runners
               PROVE  /\ runner'[q].pc # "applying" => runner'[q].touched = {}
                      /\ runner'[q].pc = "applying" =>
                           /\ runner'[q].batch \subseteq Unread(ConsumerOf[q])'
                           /\ runner'[q].todo \subseteq runner'[q].batch
                           /\ \A d \in Done(q)', e \in runner'[q].todo : d < e
                           /\ runner'[q].batch = {} => runner'[q].touched = {}
                           /\ \A t \in runner'[q].touched : RowSound(t, runner[q].rows[t])'
    BY DEF BatchesSound
  <2>1. CASE runner'[q].pc # "applying"
    BY <1>5, <1>8, <2>1 DEF BatchesSound
  <2>2. CASE runner'[q].pc = "applying"
    <3>1. runner'[q] = runner[q] /\ ConsumerOf[q] # c
      BY <1>9, <2>2 DEF InTransaction
    <3>2. ConsumerOf[q] \in Consumers
      OBVIOUS
    <3>3. Unread(ConsumerOf[q])' = Unread(ConsumerOf[q]) /\ Done(q)' = Done(q)
      BY <1>2, <1>10, <3>1, <3>2, SameLog DEF Unread, Done
    <3> QED BY <1>2, <2>2, <3>1, <3>3, SameLog DEF BatchesSound
  <2> QED BY <2>1, <2>2
<1>16. PromisesSound'
  <2> SUFFICES ASSUME NEW q \in Runners
               PROVE  /\ promised[q] \subseteq Committed'
                      /\ runner'[q].rebuild = "replay" =>
                           /\ \A e \in promised[q] : e \in delivered'[ConsumerOf[q]] \/ e > checkpoint'[ConsumerOf[q]]
                           /\ \A p \in Runners : runner'[p].pc = "applying" /\ ConsumerOf[p] = ConsumerOf[q] =>
                                \A e \in promised[q] :
                                  e \in delivered'[ConsumerOf[q]] \cup runner'[p].batch
                                    \/ \A d \in runner'[p].batch : d < e
                           /\ runner'[q].pc = "applying" /\ ~runner'[q].more =>
                                promised[q] \subseteq delivered'[ConsumerOf[q]] \cup runner'[q].batch
    BY <1>2 DEF PromisesSound
  <2>1. promised[q] \subseteq Committed'
    BY <1>2, SameLog DEF PromisesSound
  <2>2. ASSUME runner'[q].rebuild = "replay"
        PROVE  /\ \A e \in promised[q] : e \in delivered'[ConsumerOf[q]] \/ e > checkpoint'[ConsumerOf[q]]
               /\ \A p \in Runners : runner'[p].pc = "applying" /\ ConsumerOf[p] = ConsumerOf[q] =>
                    \A e \in promised[q] :
                      e \in delivered'[ConsumerOf[q]] \cup runner'[p].batch
                        \/ \A d \in runner'[p].batch : d < e
               /\ runner'[q].pc = "applying" /\ ~runner'[q].more =>
                    promised[q] \subseteq delivered'[ConsumerOf[q]] \cup runner'[q].batch
    <3>1. runner[q].rebuild = "replay" /\ ConsumerOf[q] \in Consumers /\ promised[q] \subseteq Nat
      BY <1>5, <1>8, <2>2 DEF TypeOK
    <3>2. CASE ConsumerOf[q] = c
      <4>1. ASSUME NEW e \in promised[q] PROVE e \in delivered[c] \cup B \/ e > CheckpointAfter(r)
        <5>1. e \in delivered[c] \/ e > checkpoint[c]
          BY <3>1, <3>2 DEF PromisesSound
        <5>2. e \in delivered[c] \cup B \/ \A d \in B : d < e
          BY <1>2, <3>1, <3>2 DEF PromisesSound, B, c
        <5> QED BY <1>7, <3>1, <5>1, <5>2
      <4>2. \A p \in Runners : runner'[p].pc = "applying" => ConsumerOf[p] # c
        BY <1>9 DEF InTransaction
      <4> QED BY <1>3, <1>10, <3>2, <4>1, <4>2
    <3>3. CASE ConsumerOf[q] # c
      <4>1. delivered'[ConsumerOf[q]] = delivered[ConsumerOf[q]] /\ checkpoint'[ConsumerOf[q]] = checkpoint[ConsumerOf[q]]
        BY <1>10, <3>1, <3>3
      <4>2. \A p \in Runners : runner'[p].pc = "applying" => runner'[p] = runner[p]
        BY <1>9 DEF InTransaction
      <4> QED BY <3>1, <4>1, <4>2 DEF PromisesSound
    <3> QED BY <3>2, <3>3
  <2> QED BY <2>1, <2>2
<1>17. AloneReplays'
  <2> SUFFICES ASSUME NEW b \in Consumers, Alone(b)'
               PROVE  /\ \A t \in Tasks : view'[t] = Replay(t, delivered[b])'
                      /\ \A q \in Runners : ConsumerOf[q] = b => ~InTransaction(q)'
    BY DEF AloneReplays, InTransaction
  <2>1. b = c /\ Alone(c)
    BY <1>2, <1>3 DEF Alone
  <2>2. ASSUME NEW t \in Tasks PROVE view'[t] = Replay(t, delivered[b])'
    <3>1. view'[t] = Replay(t, delivered[c] \cup B)
      BY <1>2, <1>3, <1>4, <2>1 DEF AloneReplays, c
    <3>2. delivered'[b] = delivered[c] \cup B
      BY <1>10, <2>1
    <3> QED BY <1>2, <3>1, <3>2, SameLog
  <2> QED BY <1>9, <2>1, <2>2
<1> QED BY <1>12, <1>13, <1>14, <1>15, <1>16, <1>17

\* The reset transaction of a rebuild begins.
LEMMA InvBeginReset ==
  ASSUME IInv, NEW r \in Runners, BeginReset(r)
  PROVE  IInv'
<1> DEFINE c == ConsumerOf[r]
           m == [runner[r] EXCEPT !.pc = "deleting", !.doomed = {t \in Tasks : view[t] # NoRow}]
<1> USE EventProjectionAssumption DEF IInv
<1>1. /\ runner[r].pc = "holding" /\ runner[r].rebuild = "reset" /\ ~LeaseLocked(c) /\ TokenValid(r)
      /\ runner' = [runner EXCEPT ![r] = m]
      /\ promised' = [promised EXCEPT ![r] = Committed]
      /\ UNCHANGED <<log, view, checkpoint, lease, delivered>>
  BY DEF BeginReset
<1>2. c \in Consumers /\ runner[r] \in RunnerRow
  BY DEF TypeOK
<1>3. /\ m \in RunnerRow /\ m.pc = "deleting" /\ m.fence = runner[r].fence /\ m.rebuild = "reset"
      /\ m.touched = runner[r].touched /\ m.doomed = {t \in Tasks : view[t] # NoRow}
  BY <1>1, <1>2 DEF RunnerRow
<1> HIDE DEF m, c
<1>4. \A q \in Runners : runner'[q] = IF q = r THEN m ELSE runner[q]
  BY <1>1 DEF TypeOK
<1>5. m.touched = {}
  BY <1>1, <1>3 DEF BatchesSound
<1>6. TypeOK'
  <2>1. Committed \in SUBSET Nat
    BY LogFacts
  <2> QED BY <1>1, <1>3, <2>1 DEF TypeOK
<1>7. Exclusive'
  <2>1. \A q \in Runners : ConsumerOf[q] = c => ~InTransaction(q)
    BY <1>1 DEF LeaseLocked
  <2> QED BY <1>1, <1>2, <1>3, <1>4, <2>1 DEF Exclusive, InTransaction, TokenValid, c
<1>8. BatchesSound' /\ ViewSound' /\ CursorSound'
  <2>1. \A b \in Consumers : Unread(b)' = Unread(b)
    BY <1>1, SameLog DEF Unread
  <2>2. ViewSound' /\ CursorSound'
    BY <1>1, SameLog DEF ViewSound, CursorSound
  <2> SUFFICES ASSUME NEW q \in Runners
               PROVE  /\ runner'[q].pc # "applying" => runner'[q].touched = {}
                      /\ runner'[q].pc = "applying" =>
                           /\ runner'[q].batch \subseteq Unread(ConsumerOf[q])'
                           /\ runner'[q].todo \subseteq runner'[q].batch
                           /\ \A d \in Done(q)', e \in runner'[q].todo : d < e
                           /\ runner'[q].batch = {} => runner'[q].touched = {}
                           /\ \A t \in runner'[q].touched : RowSound(t, runner[q].rows[t])'
    BY <2>2 DEF BatchesSound
  <2>3. CASE q = r
    BY <1>3, <1>4, <1>5, <2>3
  <2>4. CASE q # r
    BY <1>1, <1>4, <2>1, <2>4, SameLog DEF BatchesSound, Done
  <2> QED BY <2>3, <2>4
<1>9. PromisesSound'
  <2>1. \A q \in Runners : promised'[q] = IF q = r THEN Committed ELSE promised[q]
    BY <1>1 DEF TypeOK
  <2>2. \A q \in Runners : runner'[q].rebuild = "replay" \/ runner'[q].pc = "applying" =>
          q # r /\ runner'[q] = runner[q] /\ promised'[q] = promised[q]
    BY <1>3, <1>4, <2>1
  <2> QED BY <1>1, <2>1, <2>2, SameLog DEF PromisesSound
<1>10. AloneReplays'
  <2> SUFFICES ASSUME NEW b \in Consumers, Alone(b)'
               PROVE  /\ \A t \in Tasks : view[t] = Replay(t, delivered[b])'
                      /\ \A q \in Runners : ConsumerOf[q] = b =>
                           /\ runner'[q].pc = "applying" =>
                                \A t \in Tasks : RowSeen(q, t)' = Replay(t, delivered[b] \cup Done(q))'
                           /\ runner'[q].pc = "deleting" => runner'[q].doomed = {t \in Tasks : view[t] # NoRow}
    BY <1>1 DEF AloneReplays
  <2>1. Alone(b)
    BY <1>1 DEF Alone
  <2>2. \A t \in Tasks : view[t] = Replay(t, delivered[b])'
    BY <1>1, <2>1, SameLog DEF AloneReplays
  <2>3. ASSUME NEW q \in Runners, ConsumerOf[q] = b, runner'[q].pc = "applying", NEW t \in Tasks
        PROVE  RowSeen(q, t)' = Replay(t, delivered[b] \cup Done(q))'
    <3>1. runner'[q] = runner[q] /\ RowSeen(q, t) = Replay(t, delivered[b] \cup Done(q))
      BY <1>3, <1>4, <2>1, <2>3 DEF AloneReplays
    <3>2. RowSeen(q, t)' = RowSeen(q, t) /\ (delivered[b] \cup Done(q))' = delivered[b] \cup Done(q)
      BY <1>1, <3>1 DEF RowSeen, Done
    <3> QED BY <1>1, <3>1, <3>2, SameLog
  <2>4. ASSUME NEW q \in Runners, ConsumerOf[q] = b, runner'[q].pc = "deleting"
        PROVE  runner'[q].doomed = {t \in Tasks : view[t] # NoRow}
    <3>1. CASE q = r
      BY <1>3, <1>4, <3>1
    <3>2. CASE q # r
      <4>1. runner'[q] = runner[q]
        BY <1>4, <3>2
      <4>2. runner[q].doomed = {t \in Tasks : view[t] # NoRow}
        BY <2>1, <2>4, <4>1 DEF AloneReplays
      <4> QED BY <4>1, <4>2
    <3> QED BY <3>1, <3>2
  <2> QED BY <2>2, <2>3, <2>4
<1> QED BY <1>6, <1>7, <1>8, <1>9, <1>10

\* The reset commits: rows and cursor together.
LEMMA InvCommitReset ==
  ASSUME IInv, NEW r \in Runners, CommitReset(r)
  PROVE  IInv'
<1> DEFINE c == ConsumerOf[r]
           m == [Idle EXCEPT !.pc = "holding", !.fence = runner[r].fence, !.rebuild = "replay"]
<1> USE EventProjectionAssumption DEF IInv
<1>1. /\ runner[r].pc = "deleting"
      /\ view' = [t \in Tasks |-> IF t \in runner[r].doomed THEN NoRow ELSE view[t]]
      /\ checkpoint' = [checkpoint EXCEPT ![c] = 0]
      /\ delivered' = [delivered EXCEPT ![c] = {}]
      /\ runner' = [runner EXCEPT ![r] = m]
      /\ UNCHANGED <<log, lease, promised>>
  BY DEF CommitReset, ResetCheckpoint
<1>2. /\ c \in Consumers
      /\ \A q \in Runners : ConsumerOf[q] = c /\ InTransaction(q) => q = r
      /\ \A b \in Consumers : Alone(b) => b = c
  BY <1>1, Sole DEF InTransaction
<1>3. m \in RunnerRow /\ m.pc = "holding" /\ m.touched = {}
  <2>1. runner[r] \in RunnerRow
    BY DEF TypeOK
  <2> QED BY <2>1, IdleFacts DEF RunnerRow
<1> HIDE DEF m, c
<1>4. \A q \in Runners : runner'[q] = IF q = r THEN m ELSE runner[q]
  BY <1>1 DEF TypeOK
<1>5. \A q \in Runners : InTransaction(q)' => q # r /\ InTransaction(q) /\ runner'[q] = runner[q] /\ ConsumerOf[q] # c
  BY <1>2, <1>3, <1>4 DEF InTransaction
<1>6. /\ \A b \in Consumers : checkpoint'[b] = IF b = c THEN 0 ELSE checkpoint[b]
      /\ \A b \in Consumers : delivered'[b] = IF b = c THEN {} ELSE delivered[b]
  BY <1>1 DEF TypeOK
<1>7. \A t \in Tasks : view'[t] \in ViewRow /\ RowSound(t, view'[t])
  BY <1>1, IdleFacts, NoRowSound DEF TypeOK, ViewSound
<1>8. TypeOK'
  BY <1>1, <1>3, <1>7 DEF TypeOK
<1>9. Exclusive'
  BY <1>1, <1>5 DEF Exclusive
<1>10. ViewSound' /\ CursorSound'
  <2>1. \A t \in Tasks : RowSound(t, view[t])'
    BY <1>1, <1>7, SameLog
  <2>2. CursorSound'
    BY <1>1, <1>6, SameLog DEF CursorSound
  <2> QED BY <2>1, <2>2 DEF ViewSound
<1>11. BatchesSound'
  <2> SUFFICES ASSUME NEW q \in Runners
               PROVE  /\ runner'[q].pc # "applying" => runner'[q].touched = {}
                      /\ runner'[q].pc = "applying" =>
                           /\ runner'[q].batch \subseteq Unread(ConsumerOf[q])'
                           /\ runner'[q].todo \subseteq runner'[q].batch
                           /\ \A d \in Done(q)', e \in runner'[q].todo : d < e
                           /\ runner'[q].batch = {} => runner'[q].touched = {}
                           /\ \A t \in runner'[q].touched : RowSound(t, runner[q].rows[t])'
    BY DEF BatchesSound
  <2>1. CASE runner'[q].pc # "applying"
    BY <1>3, <1>4, <2>1 DEF BatchesSound
  <2>2. CASE runner'[q].pc = "applying"
    <3>1. runner'[q] = runner[q] /\ ConsumerOf[q] # c
      BY <1>5, <2>2 DEF InTransaction
    <3>2. ConsumerOf[q] \in Consumers
      OBVIOUS
    <3>3. Unread(ConsumerOf[q])' = Unread(ConsumerOf[q]) /\ Done(q)' = Done(q)
      BY <1>1, <1>6, <3>1, <3>2, SameLog DEF Unread, Done
    <3> QED BY <1>1, <2>2, <3>1, <3>3, SameLog DEF BatchesSound
  <2> QED BY <2>1, <2>2
<1>12. PromisesSound'
  <2> SUFFICES ASSUME NEW q \in Runners
               PROVE  /\ promised[q] \subseteq Committed'
                      /\ runner'[q].rebuild = "replay" =>
                           /\ \A e \in promised[q] : e \in delivered'[ConsumerOf[q]] \/ e > checkpoint'[ConsumerOf[q]]
                           /\ \A p \in Runners : runner'[p].pc = "applying" /\ ConsumerOf[p] = ConsumerOf[q] =>
                                \A e \in promised[q] :
                                  e \in delivered'[ConsumerOf[q]] \cup runner'[p].batch
                                    \/ \A d \in runner'[p].batch : d < e
                           /\ runner'[q].pc = "applying" /\ ~runner'[q].more =>
                                promised[q] \subseteq delivered'[ConsumerOf[q]] \cup runner'[q].batch
    BY <1>1 DEF PromisesSound
  <2>1. promised[q] \subseteq Committed' /\ promised[q] \subseteq Committed
    BY <1>1, SameLog DEF PromisesSound
  <2>2. ConsumerOf[q] \in Consumers
    OBVIOUS
  <2>3. \A p \in Runners : runner'[p].pc = "applying" => runner'[p] = runner[p] /\ ConsumerOf[p] # c
    BY <1>5 DEF InTransaction
  <2>4. CASE ConsumerOf[q] = c
    <3>1. \A e \in promised[q] : e > checkpoint'[ConsumerOf[q]]
      BY <1>6, <2>1, <2>2, <2>4, LogFacts
    <3> QED BY <2>1, <2>3, <2>4, <3>1
  <2>5. CASE ConsumerOf[q] # c
    <3>1. delivered'[ConsumerOf[q]] = delivered[ConsumerOf[q]] /\ checkpoint'[ConsumerOf[q]] = checkpoint[ConsumerOf[q]]
          /\ runner'[q] = runner[q]
      BY <1>4, <1>6, <2>2, <2>5 DEF c
    <3> QED BY <2>1, <2>3, <3>1 DEF PromisesSound
  <2> QED BY <2>4, <2>5
<1>13. AloneReplays'
  <2> SUFFICES ASSUME NEW b \in Consumers, Alone(b)'
               PROVE  /\ \A t \in Tasks : view'[t] = Replay(t, delivered[b])'
                      /\ \A q \in Runners : ConsumerOf[q] = b => ~InTransaction(q)'
    BY DEF AloneReplays, InTransaction
  <2>1. b = c /\ Alone(c)
    BY <1>1, <1>2 DEF Alone
  <2>2. ASSUME NEW t \in Tasks PROVE view'[t] = Replay(t, delivered[b])'
    <3>1. runner[r].doomed = {x \in Tasks : view[x] # NoRow}
      BY <1>1, <1>2, <2>1 DEF AloneReplays, c
    <3>2. view'[t] = NoRow
      BY <1>1, <3>1
    <3>3. Replay(t, {}) = NoRow
      BY DEF Replay
    <3>4. delivered'[b] = {}
      BY <1>6, <2>1
    <3> QED BY <1>1, <3>2, <3>3, <3>4, SameLog
  <2> QED BY <1>5, <2>1, <2>2
<1> QED BY <1>8, <1>9, <1>10, <1>11, <1>12, <1>13

LEMMA InvNext == IInv /\ [Next]_vars => IInv'
<1> SUFFICES ASSUME IInv, [Next]_vars PROVE IInv'
  OBVIOUS
<1> USE EventProjectionAssumption
<1>1. /\ lease \in [Consumers -> LeaseRow] /\ runner \in [Runners -> RunnerRow]
      /\ \A c \in Consumers : lease[c].state = "active" => lease[c].fence # 0
  BY DEF IInv, TypeOK, Exclusive
<1>2. ASSUME NEW c \in Consumers, Expire(c) PROVE IInv'
  <2>1. /\ lease' \in [Consumers -> LeaseRow]
        /\ \A b \in Consumers :
            /\ lease'[b].state = "active" => lease'[b].fence # 0
            /\ lease'[b].fence = lease[b].fence /\ lease'[b].owner = lease[b].owner
    BY <1>1, <1>2 DEF Expire, LeaseRow
  <2> QED BY <1>1, <1>2, <2>1, InvOutside DEF Expire
<1>3. ASSUME NEW r \in Runners, NEW rebuild \in {"no", "reset"}, Acquire(r, rebuild) PROVE IInv'
  <2> DEFINE c == ConsumerOf[r]
             m == [Idle EXCEPT !.pc = "holding", !.fence = lease'[c].fence, !.rebuild = rebuild]
  <2>1. /\ lease' \in [Consumers -> LeaseRow]
        /\ \A b \in Consumers :
            /\ lease'[b].state = "active" => lease'[b].fence # 0
            /\ lease'[b].fence = 0 => lease[b].fence = 0
            /\ LeaseLocked(b) => lease'[b].fence = lease[b].fence /\ lease'[b].owner = lease[b].owner
    <3>1. CASE UNCHANGED lease
      BY <1>1, <3>1
    <3>2. CASE lease' = [lease EXCEPT ![c] = [fence |-> NextFence(c), owner |-> OwnerOf[r], state |-> "active"]]
      <4>1. NextFence(c) \in Nat \ {0} /\ OwnerOf[r] \in Owners
        BY <1>1 DEF NextFence, LeaseRow
      <4> QED BY <1>1, <1>3, <3>2, <4>1 DEF LeaseRow, Acquire
    <3> QED BY <1>3, <3>1, <3>2 DEF Acquire
  <2>2. runner' = [runner EXCEPT ![r] = m]
    BY <1>3 DEF Acquire
  <2>3. UNCHANGED <<log, view, checkpoint, delivered, promised>>
    BY <1>3 DEF Acquire
  <2>4. lease'[c].fence \in Nat
    BY <2>1 DEF LeaseRow
  <2>5. m \in RunnerRow /\ Outside(m)
    BY <2>4, IdleFacts DEF RunnerRow, Outside
  <2> HIDE DEF m, c
  <2>6. runner' \in [Runners -> RunnerRow] /\ \A q \in Runners : runner'[q] = runner[q] \/ Outside(runner'[q])
    BY <1>1, <2>2, <2>5
  <2> QED BY <2>1, <2>3, <2>6, InvOutside
<1>4. ASSUME NEW r \in Runners, Release(r) PROVE IInv'
  <2>1. /\ lease' \in [Consumers -> LeaseRow]
        /\ \A b \in Consumers :
            /\ lease'[b].state = "active" => lease'[b].fence # 0
            /\ lease'[b].fence = lease[b].fence /\ lease'[b].owner = lease[b].owner
    BY <1>1, <1>4 DEF Release, LeaseRow
  <2>2. runner' \in [Runners -> RunnerRow] /\ \A q \in Runners : runner'[q] = runner[q] \/ Outside(runner'[q])
    BY <1>1, <1>4, IdleFacts DEF Release, Outside
  <2> QED BY <1>4, <2>1, <2>2, InvOutside DEF Release
<1>5. ASSUME NEW r \in Runners, Abandon(r) PROVE IInv'
  <2>1. runner' \in [Runners -> RunnerRow] /\ \A q \in Runners : runner'[q] = runner[q] \/ Outside(runner'[q])
    BY <1>1, <1>5, IdleFacts DEF Abandon, Outside
  <2> QED BY <1>1, <1>5, <2>1, InvOutside DEF Abandon
<1>6. CASE UNCHANGED vars
  BY <1>1, <1>6, InvOutside DEF vars
<1> QED BY <1>2, <1>3, <1>4, <1>5, <1>6, InvLog, InvBeginBatch, InvApply, InvCommitBatch, InvBeginReset,
           InvCommitReset DEF Next, RunnerStep

------------------------------------------------------------------------------
\* The theorems

\* In every reachable state a transaction owns the newest grant of its consumer's
\* lease, its batch is what follows the cursor, and what it sees is the replay of
\* what its consumer has read (runner.go, ValidateConsumerLeaseTx,
\* AdvanceCheckpointAtTxWithLease, TaskProjection.Apply).
THEOREM ProjectionInvariance == Spec => []IInv
<1>1. Init => IInv
  BY InvInit
<1>2. IInv /\ [Next]_vars => IInv'
  BY InvNext
<1> QED BY <1>1, <1>2, PTL DEF Spec

\* The view of a consumer that works alone is the replay of what it delivered,
\* and no row of any view counts an event twice or shows one that did not commit.
THEOREM ViewReplays == Spec => []ViewIsReplay
<1>1. IInv => ViewIsReplay
  BY DEF IInv, ViewIsReplay, AloneReplays, ViewSound, RowSound
<1> QED BY <1>1, ProjectionInvariance, PTL

\* Between two resets a consumer commits no event twice, and only the owner of
\* the newest grant changes the view or a cursor.
THEOREM DeliveryOnce == Spec => DeliveredOnce
<1>1. IInv /\ [Next]_vars =>
        [/\ \A r \in Runners : CommitBatch(r) => runner[r].batch \cap delivered[ConsumerOf[r]] = {}
         /\ <<view', checkpoint'>> # <<view, checkpoint>> =>
              \E r \in Runners :
                /\ runner'[r] # runner[r]
                /\ runner[r].fence = lease[ConsumerOf[r]].fence
                /\ OwnerOf[r] = lease[ConsumerOf[r]].owner]_vars
  <2> SUFFICES ASSUME IInv, Next
               PROVE  /\ \A r \in Runners : CommitBatch(r) => runner[r].batch \cap delivered[ConsumerOf[r]] = {}
                      /\ <<view', checkpoint'>> # <<view, checkpoint>> =>
                           \E r \in Runners :
                             /\ runner'[r] # runner[r]
                             /\ runner[r].fence = lease[ConsumerOf[r]].fence
                             /\ OwnerOf[r] = lease[ConsumerOf[r]].owner
    OBVIOUS
  <2> USE EventProjectionAssumption DEF IInv
  <2>1. ASSUME NEW r \in Runners, CommitBatch(r), NEW e \in runner[r].batch, e \in delivered[ConsumerOf[r]]
        PROVE  FALSE
    <3>1. e \in Nat /\ e > checkpoint[ConsumerOf[r]] /\ e <= checkpoint[ConsumerOf[r]] /\ checkpoint[ConsumerOf[r]] \in Nat
      BY <2>1 DEF CommitBatch, BatchesSound, CursorSound, Unread, TypeOK
    <3> QED BY <3>1
  <2>2. ASSUME NEW r \in Runners, CommitBatch(r) \/ CommitReset(r)
        PROVE  /\ runner'[r] # runner[r]
               /\ runner[r].fence = lease[ConsumerOf[r]].fence
               /\ OwnerOf[r] = lease[ConsumerOf[r]].owner
    <3>1. InTransaction(r)
      BY <2>2 DEF CommitBatch, CommitReset, InTransaction
    <3>2. runner'[r].pc \in {"idle", "holding"}
      <4>1. CASE CommitBatch(r)
        <5> PICK m \in AfterBatch(r) : runner' = [runner EXCEPT ![r] = m]
          BY <4>1 DEF CommitBatch
        <5>1. m.pc \in {"idle", "holding"}
          BY AfterBatchFacts DEF TypeOK
        <5> QED BY <5>1 DEF TypeOK
      <4>2. CASE CommitReset(r)
        BY <4>2 DEF CommitReset, TypeOK, Idle
      <4> QED BY <2>2, <4>1, <4>2
    <3> QED BY <3>1, <3>2 DEF Exclusive, InTransaction
  <2>3. UNCHANGED <<view, checkpoint>> \/ \E r \in Runners : CommitBatch(r) \/ CommitReset(r)
    BY DEF Next, LogStep, RunnerStep, AppendTx, EndAppend, Expire, Acquire, Release, BeginBatch, Apply, BeginReset, Abandon
  <2> QED BY <2>1, <2>2, <2>3
<1> QED BY <1>1, ProjectionInvariance, PTL DEF Spec, DeliveredOnce

\* A rebuild that reports success has delivered every event that was committed
\* when it reset the view, whoever took its lease in between.
THEOREM RebuildDelivers == Spec => RebuildComplete
<1>1. IInv /\ [Next]_vars =>
        [\A r \in Runners :
           CommitBatch(r) /\ runner[r].rebuild = "replay" /\ runner'[r].pc = "idle" =>
             promised[r] \subseteq delivered'[ConsumerOf[r]]]_vars
  <2> SUFFICES ASSUME IInv, Next, NEW r \in Runners, CommitBatch(r), runner[r].rebuild = "replay",
                      runner'[r].pc = "idle"
               PROVE  promised[r] \subseteq delivered'[ConsumerOf[r]]
    OBVIOUS
  <2> PICK m \in AfterBatch(r) : runner' = [runner EXCEPT ![r] = m]
    BY DEF CommitBatch
  <2>1. m.pc = "idle"
    BY DEF IInv, TypeOK
  <2>2. ~runner[r].more
    BY <2>1, AfterBatchFacts DEF IInv, TypeOK
  <2>3. promised[r] \subseteq delivered[ConsumerOf[r]] \cup runner[r].batch
    BY <2>2 DEF CommitBatch, IInv, PromisesSound
  <2> QED BY <2>3, EventProjectionAssumption DEF CommitBatch, IInv, TypeOK
<1> QED BY <1>1, ProjectionInvariance, PTL DEF Spec, RebuildComplete

\* Every consumer lease implements the abstract FencedLease.
THEOREM ConsumerLeasesRefine == Spec => LeaseContract
<1>1. Init => \A c \in Consumers : ConsumerLease(c)!Init
  <2> SUFFICES ASSUME Init, NEW c \in Consumers PROVE ConsumerLease(c)!Init
    OBVIOUS
  <2>1. lease[c].fence = 0 /\ lease[c].owner = NoOwner /\ lease[c].state = "none"
    BY DEF Init
  <2> QED BY <2>1 DEF ConsumerLease!Init
<1>2. IInv /\ [Next]_vars => \A c \in Consumers : [ConsumerLease(c)!Next]_(ConsumerLease(c)!vars)
  BY StepLease DEF IInv
<1> QED BY <1>1, <1>2, ProjectionInvariance, PTL DEF Spec, LeaseContract

=================================================================================
