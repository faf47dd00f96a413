---------------------------- MODULE Validation_proofs ----------------------------
(***************************************************************************)
(* Proofs about Ingestion, under its own specification and under that of   *)
(* Validation, and about Validation, for every set of trees, clients,      *)
(* workers, runs and callers.                                              *)
(*                                                                         *)
(* A batch commits only at the checkpoint it was read at, so ordinals are  *)
(* committed once and in order; one job is active at a time, so while it   *)
(* runs the index is that of the last job except for the files that the    *)
(* active one has reached.  A caller that drives a run holds the request   *)
(* of the run, and the job that it is about to mark carries the run as its *)
(* cause and so has the run's key.                                         *)
(***************************************************************************)
EXTENDS Validation, FiniteSetTheorems, SequenceTheorems, NaturalsInduction, WellFoundedInduction, TLAPS

RowOf(w) == job[worker[w].job]

\* A manifest lists the files of its tree; other records are removals.
FilesSound ==
  \A m \in Jobs :
    /\ \A i \in 1..Len(job[m].files) : job[m].files[i].removed <=> m[job[m].files[i].path] = NoFile
    /\ \A p \in Paths : m[p] # NoFile => \E i \in 1..Len(job[m].files) : job[m].files[i].path = p

\* The first n records of a manifest by kind.
Indexed(files, n) == {i \in 1..n : ~files[i].removed}
Removals(files, n) == {i \in 1..n : files[i].removed}

\* The checkpoint of a job counts what its batches committed.
CheckpointSound(row, ordinals) ==
  /\ row.next <= Len(row.files)
  /\ ordinals = [i \in 1..row.next |-> i]
  /\ row.processed = Cardinality(Indexed(row.files, row.next))
  /\ row.removed = Cardinality(Removals(row.files, row.next))
  /\ row.status = "succeeded" => row.next = Len(row.files)
  /\ row.status \in Active /\ row.files # <<>> => row.next < Len(row.files)

CheckpointsSound ==
  /\ \A m \in Jobs : CheckpointSound(job[m], writes[m])
  /\ \A m \in Trees \ Jobs : writes[m] = <<>>

\* A batch lies within its manifest; an empty one is of a job without files.
BatchSound(w) ==
  /\ worker[w].job \in Jobs
  /\ worker[w].from + worker[w].size <= Len(RowOf(w).files)
  /\ worker[w].size = 0 => RowOf(w).files = <<>>

BatchesSound == \A w \in Workers : worker[w] # Idle => BatchSound(w)

OneActive == \A m, n \in Jobs : job[m].status \in Active /\ job[n].status \in Active => m = n

Lists(m, p) == \E i \in 1..Len(job[m].files) : job[m].files[i].path = p
Reached(m, p) == \E i \in 1..job[m].next : job[m].files[i].path = p

\* The index has what m says about p.
Shows(m, p) ==
  IF m[p] = NoFile THEN symbols[p] = {}
  ELSE /\ m[p] \in chunks
       /\ job[m].request.extract /\ SymbolsOf[m[p]] # {} => symbols[p] = SymbolsOf[m[p]]

\* Every job has files and none was cancelled.
Clean == \A j \in Jobs : job[j].files # <<>> /\ job[j].status # "cancelled"

ReachedByActive(p) == \E m \in Jobs : job[m].status \in Active /\ Reached(m, p)

\* The index is that of the last job, except where the active one has been.
IndexSound ==
  Clean =>
    /\ \A m \in Jobs : job[m].status \in Active =>
         /\ \A p \in Previous : Lists(m, p)
         /\ \A p \in Paths : Reached(m, p) => Shows(m, p)
    /\ \A p \in Paths : ~ReachedByActive(p) =>
         IF completed = <<>> THEN symbols[p] = {} ELSE Shows(Last(completed), p)

\* The inductive invariant of ingestion.
JobsInv ==
  /\ TypeOK
  /\ FilesSound
  /\ CheckpointsSound
  /\ BatchesSound
  /\ OneActive
  /\ IndexSound

\* A step of a job: what JobsAdvance allows.
JobsForward ==
  \A m \in Jobs :
    /\ job'[m] # None
    /\ job'[m].key = job[m].key /\ job'[m].request = job[m].request /\ job'[m].files = job[m].files
    /\ job'[m].next >= job[m].next
    /\ job'[m].next > job[m].next => job[m].status \in Active /\ Admits(job[m].request)
    /\ job[m].files # <<>> /\ job[m].status \notin Active => job'[m] = job[m]

\* The job m is that of the handoff of r.
OwnJob(r, m) == m \in Jobs /\ job[m].key = r /\ job[m].request = HandoffRequest(r)

\* A caller at work drives a run that exists, with the run's request; it discovers,
\* submits and marks for a handoff, and the job it is about to mark is the run's.
CallerSound(call) ==
  call # Idle =>
    /\ call.run \in Started
    /\ call \in Call => call.request = run[call.run].request
    /\ call.pc \in {"discover", "submit", "mark"} => call.run \in HandedOff
    /\ call \in MarkCall /\ call.job # None => OwnJob(call.run, call.job)

CallersSound == \A c \in Callers : CallerSound(caller[c])

\* A job that a run caused has the run's key.
CausesSound ==
  /\ \A m \in Jobs : job[m].request.cause \in Runs => job[m].key = job[m].request.cause
  /\ \A c \in Clients : client[c] # Idle => client[c].request.cause \notin Runs

\* The inductive invariant of validation.
RunsInv ==
  /\ HandoffFollowsRun
  /\ HandedOff \subseteq Started
  /\ CallersSound
  /\ CausesSound

------------------------------------------------------------------------------
(* Lemmas about sets of numbers *)

LEMMA AssumptionFacts ==
  /\ NumPaths \in Nat /\ Paths \subseteq Nat /\ IsFiniteSet(Paths)
  /\ BatchSize \in Nat /\ MaxFence \in Nat /\ MaxFence >= 1
  /\ None \notin Trees /\ None \notin JobRow /\ NoFile \notin Contents
  /\ Requests \subseteq JobRequest /\ InitialTrees \subseteq Trees
BY IngestionAssumption, NoRowAssumption, FS_Interval DEF Paths

NatLess == {ss \in Nat \X Nat : ss[1] < ss[2]}

LEMMA LeastElement ==
  ASSUME NEW S, S \subseteq Nat, S # {}
  PROVE  \E x \in S : \A y \in S : x <= y
<1>1. IsWellFoundedOn(NatLess, Nat)
  BY NatLessThanWellFounded DEF OpToRel, NatLess
<1>2. PICK x \in S : \A y \in S : ~(<<y, x>> \in NatLess)
  BY <1>1, WFMin
<1>3. \A y \in S : x \in Nat /\ y \in Nat /\ ~(y < x)
  BY <1>2 DEF NatLess
<1>4. \A y \in S : x <= y
  BY <1>3
<1> QED BY <1>4

LEMMA GreatestElement ==
  ASSUME NEW n \in Nat, NEW S, S \subseteq 1..n, S # {}
  PROVE  \E x \in S : \A y \in S : y <= x
<1> DEFINE T == {n - x : x \in S}
<1>1. T \subseteq Nat /\ T # {}
  <2>1. \A x \in S : x \in 1..n /\ n - x \in Nat
    OBVIOUS
  <2> QED BY <2>1
<1>2. PICK z \in T : \A y \in T : z <= y
  <2> HIDE DEF T
  <2> QED BY <1>1, LeastElement
<1>3. PICK x \in S : z = n - x
  OBVIOUS
<1>4. \A y \in S : y <= x
  <2> TAKE y \in S
  <2>1. n - y \in T
    OBVIOUS
  <2>2. x \in Nat /\ y \in Nat /\ z <= n - y
    BY <1>2, <2>1
  <2> QED BY <1>3, <2>2
<1> QED BY <1>4

\* A set of numbers that holds 0 and every successor holds them all.
LEMMA FromZero ==
  ASSUME NEW S, 0 \in S, \A n \in Nat : n \in S => n + 1 \in S
  PROVE  Nat \subseteq S
<1> DEFINE T == Nat \ S
<1> SUFFICES ASSUME T # {} PROVE FALSE
  OBVIOUS
<1>1. PICK x \in T : \A y \in T : x <= y
  <2> HIDE DEF T
  <2> QED BY LeastElement, T \subseteq Nat DEF T
<1>2. x # 0 /\ x - 1 \in Nat
  OBVIOUS
<1>3. x - 1 \in S
  BY <1>1, <1>2
<1> QED BY <1>2, <1>3

\* Every set of paths can be listed in order.
LEMMA SortedExists ==
  \A n \in Nat : \A S \in SUBSET Paths : Cardinality(S) = n =>
    \E s \in [1..n -> S] : \A i, j \in 1..n : i < j => s[i] < s[j]
<1> DEFINE Listed(n) == \A S \in SUBSET Paths : Cardinality(S) = n =>
                          \E s \in [1..n -> S] : \A i, j \in 1..n : i < j => s[i] < s[j]
           G == {n \in Nat : Listed(n)}
<1>1. 0 \in G
  <2>1. ASSUME NEW S \in SUBSET Paths, Cardinality(S) = 0
        PROVE  \E s \in [1..0 -> S] : \A i, j \in 1..0 : i < j => s[i] < s[j]
    <3>1. [i \in 1..0 |-> i] \in [1..0 -> S]
      OBVIOUS
    <3> QED BY <3>1
  <2> QED BY <2>1
<1>2. ASSUME NEW n \in Nat, Listed(n), NEW S \in SUBSET Paths, Cardinality(S) = n + 1
      PROVE  \E s \in [1..n + 1 -> S] : \A i, j \in 1..n + 1 : i < j => s[i] < s[j]
  <2>1. IsFiniteSet(S) /\ S # {}
    <3>1. n + 1 # 0
      OBVIOUS
    <3> QED BY <1>2, <3>1, AssumptionFacts, FS_Subset, FS_EmptySet
  <2>2. PICK x \in S : \A y \in S : y <= x
    BY <2>1, AssumptionFacts, GreatestElement DEF Paths
  <2> DEFINE T == S \ {x}
  <2>3. T \in SUBSET Paths /\ Cardinality(T) = n
    BY <1>2, <2>1, FS_RemoveElement
  <2>4. PICK t \in [1..n -> T] : \A i, j \in 1..n : i < j => t[i] < t[j]
    <3> HIDE DEF T
    <3> QED BY <1>2, <2>3
  <2> DEFINE s == [i \in 1..n + 1 |-> IF i = n + 1 THEN x ELSE t[i]]
  <2>5. s \in [1..n + 1 -> S]
    <3>1. \A i \in 1..n + 1 : i # n + 1 => i \in 1..n
      OBVIOUS
    <3> QED BY <3>1
  <2>6. ASSUME NEW i \in 1..n + 1, NEW j \in 1..n + 1, i < j
        PROVE  s[i] < s[j]
    <3>1. i \in 1..n /\ s[i] = t[i] /\ t[i] \in T
      BY <2>6
    <3>2. CASE j = n + 1
      <4>1. t[i] <= x /\ t[i] # x /\ t[i] \in Nat /\ x \in Nat
        BY <2>2, <3>1, AssumptionFacts
      <4> QED BY <3>1, <3>2, <4>1
    <3>3. CASE j # n + 1
      BY <2>4, <2>6, <3>1, <3>3
    <3> QED BY <3>2, <3>3
  <2> HIDE DEF s
  <2> QED BY <2>5, <2>6
<1>3. \A n \in Nat : n \in G => n + 1 \in G
  BY <1>2
<1>4. Nat \subseteq G
  <2> HIDE DEF G
  <2> QED BY <1>1, <1>3, FromZero
<1> QED BY <1>4

\* Sorted lists exactly the paths it is given.
LEMMA SortedFacts ==
  ASSUME NEW S \in SUBSET Paths
  PROVE  /\ Cardinality(S) \in Nat
         /\ Sorted(S) \in [1..Cardinality(S) -> S]
         /\ \A p \in S : \E i \in 1..Cardinality(S) : Sorted(S)[i] = p
<1> DEFINE n == Cardinality(S)
           s == Sorted(S)
<1>1. IsFiniteSet(S) /\ n \in Nat
  BY AssumptionFacts, FS_Subset, FS_CardinalityType
<1>2. s \in [1..n -> S] /\ \A i, j \in 1..n : i < j => s[i] < s[j]
  <2>1. \E r \in [1..n -> S] : \A i, j \in 1..n : i < j => r[i] < r[j]
    BY <1>1, SortedExists
  <2>2. \E r \in [1..n -> S] : \A i, j \in DOMAIN r : i < j => r[i] < r[j]
    BY <2>1
  <2>3. s \in [1..n -> S] /\ \A i, j \in DOMAIN s : i < j => s[i] < s[j]
    BY <2>2 DEF Sorted
  <2> QED BY <2>3
<1> HIDE DEF s
<1>3. \A i, j \in 1..n : s[i] = s[j] => i = j
  <2> TAKE i, j \in 1..n
  <2>1. s[i] \in S /\ s[j] \in S
    BY <1>2
  <2>2. S \subseteq Nat
    BY AssumptionFacts
  <2>3. s[i] \in Nat /\ s[j] \in Nat
    BY <2>1, <2>2
  <2>4. i \in Nat /\ j \in Nat
    OBVIOUS
  <2> QED BY <1>2, <2>3, <2>4
<1>4. IsFiniteSet(1..n) /\ Cardinality(1..n) = n
  <2>1. n = 0 => 1 > n
    OBVIOUS
  <2> QED BY <1>1, FS_Interval
<1>5. s \in Injection(1..n, S)
  BY <1>2, <1>3 DEF Injection, IsInjective
<1>6. s \in Surjection(1..n, S)
  BY <1>1, <1>4, <1>5, FS_Injection
<1> QED BY <1>1, <1>2, <1>6 DEF Surjection, s

\* The members up to a + b are those up to a and the b next ones.
LEMMA CountedOn ==
  ASSUME NEW X, NEW a \in Nat, NEW b \in Nat
  PROVE  /\ Cardinality(X \cap (1..a)) \in Nat /\ Cardinality({j \in 1..b : a + j \in X}) \in Nat
         /\ Cardinality(X \cap (1..a + b)) =
              Cardinality(X \cap (1..a)) + Cardinality({j \in 1..b : a + j \in X})
<1> DEFINE A == X \cap (1..a)
           B == {j \in 1..b : a + j \in X}
           C == X \cap (a + 1..a + b)
           f == [j \in B |-> a + j]
<1>1. IsFiniteSet(A) /\ IsFiniteSet(B)
  <2>1. IsFiniteSet(1..a) /\ IsFiniteSet(1..b) /\ A \in SUBSET (1..a) /\ B \in SUBSET (1..b)
    BY FS_Interval
  <2> QED BY <2>1, FS_Subset
<1>2. f \in Bijection(B, C)
  <2>1. f \in [B -> C]
    OBVIOUS
  <2>2. \A i, j \in B : f[i] = f[j] => i = j
    OBVIOUS
  <2>3. \A x \in C : x - a \in B /\ f[x - a] = x
    OBVIOUS
  <2> HIDE DEF f, B, C
  <2> QED BY <2>1, <2>2, <2>3 DEF Bijection, Injection, Surjection, IsInjective
<1>3. IsFiniteSet(C) /\ Cardinality(C) = Cardinality(B)
  <2> HIDE DEF B, C, f
  <2> QED BY <1>1, <1>2, FS_Bijection DEF ExistsBijection
<1>4. A \cap C = {} /\ A \cup C = X \cap (1..a + b)
  OBVIOUS
<1>5. Cardinality(A \cup C) = Cardinality(A) + Cardinality(C) - Cardinality(A \cap C)
  <2> HIDE DEF A, B, C
  <2> QED BY <1>1, <1>3, FS_Union
<1>6. Cardinality(A) \in Nat /\ Cardinality(B) \in Nat /\ Cardinality({}) = 0
  <2> HIDE DEF A, B
  <2> QED BY <1>1, FS_CardinalityType, FS_EmptySet
<1>7. Cardinality(A \cup C) = Cardinality(A) + Cardinality(B)
  <2>1. Cardinality(A \cap C) = 0
    BY <1>4, <1>6
  <2> HIDE DEF A, B, C
  <2> QED BY <1>3, <1>5, <1>6, <2>1
<1> QED BY <1>4, <1>6, <1>7

------------------------------------------------------------------------------
(* Lemmas about ingestion *)

LEMMA JobTypes ==
  ASSUME TypeOK
  PROVE  \A m \in Jobs : job[m] \in JobRow /\ m \in Trees
BY DEF TypeOK, Jobs

LEMMA FunctionIsSeq ==
  ASSUME NEW S, NEW n \in Nat, NEW f \in [1..n -> S]
  PROVE  f \in Seq(S) /\ Len(f) = n
OBVIOUS

LEMMA PreviousFacts ==
  ASSUME TypeOK
  PROVE  /\ Previous \subseteq Paths
         /\ completed # <<>> =>
              /\ Last(completed) \in Jobs
              /\ \A p \in Previous : Lists(Last(completed), p)
              /\ \A p \in Paths : Lists(Last(completed), p) => p \in Previous
<1>1. CASE completed = <<>>
  BY <1>1 DEF Previous
<1>2. CASE completed # <<>>
  <2> DEFINE l == Last(completed)
             fs == job[l].files
  <2>1. l \in Jobs
    <3>1. completed \in Seq(Jobs) /\ Len(completed) \in 1..Len(completed)
      BY <1>2 DEF TypeOK
    <3> QED BY <3>1 DEF Last
  <2>2. fs \in Seq(Files)
    BY <2>1, JobTypes DEF JobRow
  <2>3. Previous = {f.path : f \in Range(fs)}
    BY <1>2 DEF Previous
  <2>4. Range(fs) = {fs[i] : i \in 1..Len(fs)}
    <3> HIDE DEF fs
    <3> QED BY <2>2, LenProperties DEF Range
  <2>5. \A i \in 1..Len(fs) : fs[i].path \in Paths
    <3> HIDE DEF fs
    <3>1. \A i \in 1..Len(fs) : fs[i] \in Files
      BY <2>2, ElementOfSeq
    <3> QED BY <3>1 DEF Files
  <2> QED BY <1>2, <2>1, <2>3, <2>4, <2>5 DEF Lists
<1> QED BY <1>1, <1>2

\* The manifest of a tree lists its files, and removes what the last job had besides.
LEMMA ManifestFacts ==
  ASSUME TypeOK, NEW m \in Trees
  PROVE  /\ Manifest(m) \in Seq(Files)
         /\ \A i \in 1..Len(Manifest(m)) : Manifest(m)[i].removed <=> m[Manifest(m)[i].path] = NoFile
         /\ \A p \in Paths : p \in Previous \/ m[p] # NoFile =>
              \E i \in 1..Len(Manifest(m)) : Manifest(m)[i].path = p
<1> DEFINE P == {p \in Paths : m[p] # NoFile}
           R == Previous \ P
           A == [i \in 1..Cardinality(P) |-> [path |-> Sorted(P)[i], removed |-> FALSE]]
           B == [i \in 1..Cardinality(R) |-> [path |-> Sorted(R)[i], removed |-> TRUE]]
           M == A \o B
<1>1. Manifest(m) = M
  BY DEF Manifest
<1>2. P \in SUBSET Paths /\ R \in SUBSET Paths
  BY PreviousFacts
<1>3. /\ Cardinality(P) \in Nat /\ Cardinality(R) \in Nat
      /\ Sorted(P) \in [1..Cardinality(P) -> P] /\ Sorted(R) \in [1..Cardinality(R) -> R]
      /\ \A p \in P : \E i \in 1..Cardinality(P) : Sorted(P)[i] = p
      /\ \A p \in R : \E i \in 1..Cardinality(R) : Sorted(R)[i] = p
  <2> HIDE DEF P, R
  <2> QED BY <1>2, SortedFacts
<1>4. /\ \A i \in 1..Cardinality(P) : A[i] \in Files /\ A[i].path \in P /\ A[i].removed = FALSE
      /\ \A i \in 1..Cardinality(R) : B[i] \in Files /\ B[i].path \in R /\ B[i].removed = TRUE
  <2> HIDE DEF P, R
  <2> QED BY <1>2, <1>3 DEF Files
<1>5. A \in Seq(Files) /\ B \in Seq(Files) /\ Len(A) = Cardinality(P) /\ Len(B) = Cardinality(R)
  <2>1. A \in [1..Cardinality(P) -> Files] /\ B \in [1..Cardinality(R) -> Files]
    BY <1>4
  <2> HIDE DEF A, B, P, R
  <2> QED BY <1>3, <2>1, FunctionIsSeq
<1>6. /\ \A p \in P : \E i \in 1..Len(A) : A[i].path = p
      /\ \A p \in R : \E i \in 1..Len(B) : B[i].path = p
  BY <1>3, <1>5
<1> HIDE DEF A, B
<1>7. /\ M \in Seq(Files) /\ Len(M) = Len(A) + Len(B)
      /\ Len(A) \in Nat /\ Len(B) \in Nat
      /\ \A i \in 1..Len(A) : i \in 1..Len(M) /\ M[i] = A[i]
      /\ \A i \in 1..Len(B) : Len(A) + i \in 1..Len(M) /\ M[Len(A) + i] = B[i]
      /\ \A i \in 1..Len(M) : M[i] \in Files
  <2>1. /\ M \in Seq(Files) /\ Len(M) = Len(A) + Len(B)
        /\ Len(A) \in Nat /\ Len(B) \in Nat
        /\ \A i \in 1..Len(A) + Len(B) : M[i] = IF i <= Len(A) THEN A[i] ELSE B[i - Len(A)]
    BY <1>5, ConcatProperties, LenProperties
  <2> HIDE DEF M
  <2>2. \A i \in 1..Len(M) : M[i] \in Files
    BY <2>1, ElementOfSeq
  <2>3. \A i \in 1..Len(A) : i \in 1..Len(M) /\ M[i] = A[i]
    BY <2>1
  <2>4. ASSUME NEW i \in 1..Len(B)
        PROVE  Len(A) + i \in 1..Len(M) /\ M[Len(A) + i] = B[i]
    <3>1. Len(A) + i \in 1..Len(A) + Len(B) /\ ~(Len(A) + i <= Len(A)) /\ (Len(A) + i) - Len(A) = i
      BY <2>1
    <3>2. M[Len(A) + i] = B[(Len(A) + i) - Len(A)]
      BY <2>1, <3>1
    <3> QED BY <2>1, <3>1, <3>2
  <2> QED BY <2>1, <2>2, <2>3, <2>4
<1> HIDE DEF M
<1>8. \A i \in 1..Len(M) : i \in 1..Len(A) \/ (i - Len(A) \in 1..Len(B) /\ i = Len(A) + (i - Len(A)))
  BY <1>7
<1>9. \A i \in 1..Len(M) : M[i].removed <=> M[i].path \notin P
  <2> TAKE i \in 1..Len(M)
  <2>1. CASE i \in 1..Len(A)
    <3>1. M[i] = A[i] /\ A[i].path \in P /\ A[i].removed = FALSE
      BY <2>1, <1>4, <1>5, <1>7
    <3> QED BY <3>1
  <2>2. CASE i - Len(A) \in 1..Len(B) /\ i = Len(A) + (i - Len(A))
    <3>1. i = Len(A) + (i - Len(A))
      BY <2>2
    <3>2. M[i] = B[i - Len(A)] /\ B[i - Len(A)].path \in R /\ B[i - Len(A)].removed = TRUE
      BY <2>2, <3>1, <1>4, <1>5, <1>7
    <3> QED BY <3>2
  <2> QED BY <1>8, <2>1, <2>2
<1>10. \A p \in P \cup R : \E i \in 1..Len(M) : M[i].path = p
  <2>1. ASSUME NEW p \in P
        PROVE  \E i \in 1..Len(M) : M[i].path = p
    <3>1. PICK i \in 1..Len(A) : A[i].path = p
      BY <1>6
    <3>2. i \in 1..Len(M) /\ M[i].path = p
      BY <1>7, <3>1
    <3> QED BY <3>2
  <2>2. ASSUME NEW p \in R
        PROVE  \E i \in 1..Len(M) : M[i].path = p
    <3>1. PICK i \in 1..Len(B) : B[i].path = p
      BY <1>6
    <3>2. Len(A) + i \in 1..Len(M) /\ M[Len(A) + i].path = p
      BY <1>7, <3>1
    <3> QED BY <3>2
  <2> QED BY <2>1, <2>2
<1>11. \A i \in 1..Len(M) : M[i].path \in Paths
  BY <1>7 DEF Files
<1>12. \A i \in 1..Len(M) : M[i].removed <=> m[M[i].path] = NoFile
  BY <1>9, <1>11
<1>13. \A p \in Paths : p \in Previous \/ m[p] # NoFile => p \in P \cup R
  OBVIOUS
<1> HIDE DEF P, R, M
<1> QED BY <1>1, <1>7, <1>10, <1>12, <1>13

------------------------------------------------------------------------------
(* Steps that leave the jobs alone *)

LEMMA JobsSame ==
  ASSUME JobsInv, UNCHANGED jobVars
  PROVE  FilesSound' /\ CheckpointsSound' /\ OneActive' /\ IndexSound' /\ JobsForward
<1>1. Jobs' = Jobs
  BY DEF Jobs, jobVars
<1>2. FilesSound' /\ OneActive'
  BY <1>1 DEF JobsInv, FilesSound, OneActive, jobVars
<1>3. CheckpointsSound'
  BY <1>1 DEF JobsInv, CheckpointsSound, jobVars
<1>4. \A m, p : Shows(m, p)' = Shows(m, p) /\ Reached(m, p)' = Reached(m, p) /\ Lists(m, p)' = Lists(m, p)
  BY DEF Shows, Reached, Lists, jobVars
<1>5. Clean' = Clean /\ Previous' = Previous /\ \A p : ReachedByActive(p)' = ReachedByActive(p)
  BY <1>1, <1>4 DEF Clean, Previous, ReachedByActive, jobVars
<1>6. IndexSound'
  BY <1>1, <1>4, <1>5 DEF JobsInv, IndexSound, jobVars
<1>7. JobsForward
  <2>1. ASSUME NEW m \in Jobs
        PROVE  job'[m] = job[m] /\ job[m] # None /\ job[m].next \in Nat
    BY JobTypes DEF jobVars, JobsInv, Jobs, JobRow
  <2> QED BY <2>1 DEF JobsForward
<1> QED BY <1>2, <1>3, <1>6, <1>7

LEMMA DiscoverStep ==
  ASSUME JobsInv, NEW c \in Clients, NEW key \in Keys, NEW request \in Requests, Discover(c, key, request)
  PROVE  JobsInv' /\ JobsForward
<1>1. UNCHANGED jobVars
  BY DEF Discover
<1> DEFINE call == [pc |-> "walk", key |-> key, request |-> request, at |-> 1, seen |-> [p \in Paths |-> NoFile]]
<1>2. call \in Submission
  <2>1. 1 \in 1..NumPaths + 1
    BY AssumptionFacts
  <2>2. [p \in Paths |-> NoFile] \in Trees
    BY DEF Trees
  <2> QED BY <2>1, <2>2 DEF Submission
<1> HIDE DEF call
<1>3. client' = [client EXCEPT ![c] = call]
  BY DEF Discover, call
<1>4. TypeOK' /\ BatchesSound'
  <2>1. Jobs' = Jobs
    BY <1>1 DEF Jobs, jobVars
  <2>2. UNCHANGED <<tree, worker, lease, edits>>
    BY DEF Discover
  <2>3. client' \in [Clients -> Submission \cup {Idle}]
    BY <1>2, <1>3 DEF JobsInv, TypeOK
  <2>4. TypeOK'
    BY <1>1, <2>1, <2>2, <2>3 DEF JobsInv, TypeOK, jobVars
  <2>5. BatchesSound'
    BY <1>1, <2>1, <2>2 DEF JobsInv, BatchesSound, BatchSound, RowOf, jobVars
  <2> QED BY <2>4, <2>5
<1> QED BY <1>1, <1>4, JobsSame DEF JobsInv

LEMMA VisitStep ==
  ASSUME JobsInv, NEW c \in Clients, Visit(c)
  PROVE  JobsInv' /\ JobsForward
<1>1. UNCHANGED jobVars
  BY DEF Visit
<1>2. client[c] \in Submission /\ client[c].at \in Paths /\ client[c].seen \in Trees
  BY DEF Visit, JobsInv, TypeOK, Submission
<1>3. client[c].at + 1 \in 1..NumPaths + 1
  BY <1>2, AssumptionFacts DEF Paths
<1>4. [client[c].seen EXCEPT ![client[c].at] = tree[client[c].at]] \in Trees
  BY <1>2 DEF Trees, JobsInv, TypeOK
<1> DEFINE call == [client[c] EXCEPT !.at = client[c].at + 1,
                                     !.seen = [client[c].seen EXCEPT ![client[c].at] = tree[client[c].at]]]
<1>5. call \in Submission
  BY <1>2, <1>3, <1>4 DEF Submission
<1>6. client' = [client EXCEPT ![c] = call]
  BY <1>2 DEF Visit, Submission
<1>7. TypeOK' /\ BatchesSound'
  <2> HIDE DEF call
  <2>1. Jobs' = Jobs
    BY <1>1 DEF Jobs, jobVars
  <2>2. UNCHANGED <<tree, worker, lease, edits>>
    BY DEF Visit
  <2>3. client' \in [Clients -> Submission \cup {Idle}]
    BY <1>5, <1>6 DEF JobsInv, TypeOK
  <2>4. TypeOK'
    BY <1>1, <2>1, <2>2, <2>3 DEF JobsInv, TypeOK, jobVars
  <2>5. BatchesSound'
    BY <1>1, <2>1, <2>2 DEF JobsInv, BatchesSound, BatchSound, RowOf, jobVars
  <2> QED BY <2>4, <2>5
<1> QED BY <1>1, <1>7, JobsSame DEF JobsInv

\* A worker moves: takes a batch, reads a file of it, or gives up.
LEMMA WorkerStep ==
  ASSUME JobsInv, NEW w \in Workers, NEW call \in BatchCall \cup {Idle},
         UNCHANGED <<tree, jobVars, client, lease, edits>>,
         worker' = [worker EXCEPT ![w] = call],
         call # Idle => /\ call.job \in Jobs
                        /\ call.from + call.size <= Len(job[call.job].files)
                        /\ call.size = 0 => job[call.job].files = <<>>
  PROVE  JobsInv' /\ JobsForward
<1>1. Jobs' = Jobs
  BY DEF Jobs, jobVars
<1>2. TypeOK'
  BY <1>1 DEF JobsInv, TypeOK, jobVars
<1>3. BatchesSound'
  <2> SUFFICES ASSUME NEW v \in Workers, worker'[v] # Idle
               PROVE  BatchSound(v)'
    BY DEF BatchesSound
  <2>1. CASE v = w
    <3>1. worker'[v] = call
      BY <2>1 DEF JobsInv, TypeOK
    <3> QED BY <1>1, <3>1 DEF BatchSound, RowOf, jobVars
  <2>2. CASE v # w
    <3>1. worker'[v] = worker[v]
      BY <2>2 DEF JobsInv, TypeOK
    <3> QED BY <1>1, <3>1 DEF JobsInv, BatchesSound, BatchSound, RowOf, jobVars
  <2> QED BY <2>1, <2>2
<1> QED BY <1>2, <1>3, JobsSame DEF JobsInv

LEMMA TakeStep ==
  ASSUME JobsInv, NEW w \in Workers, NEW m \in Trees, Take(w, m)
  PROVE  JobsInv' /\ JobsForward
<1>1. PICK size \in IF Left(m) = 0 THEN {0} ELSE 1..BatchSize :
        /\ size <= Left(m)
        /\ worker' = [worker EXCEPT ![w] = [pc |-> "read", job |-> m, from |-> job[m].next, size |-> size, read |-> 0]]
  BY DEF Take
<1> DEFINE call == [pc |-> "read", job |-> m, from |-> job[m].next, size |-> size, read |-> 0]
<1>2. m \in Jobs /\ job[m] \in JobRow /\ job[m].status \in Active
  BY JobTypes DEF Take, JobsInv
<1>3. job[m].next \in Nat /\ Len(job[m].files) \in Nat /\ size \in 0..BatchSize
  BY <1>2, AssumptionFacts, LenProperties DEF JobRow
<1>4. call \in BatchCall
  BY <1>3, AssumptionFacts DEF BatchCall
<1>5. job[m].next + size <= Len(job[m].files)
  BY <1>1, <1>3 DEF Left
<1>6. size = 0 => job[m].files = <<>>
  <2> SUFFICES ASSUME size = 0, job[m].files # <<>> PROVE FALSE
    OBVIOUS
  <2>1. Left(m) = 0
    BY AssumptionFacts
  <2>2. job[m].next < Len(job[m].files)
    BY <1>2 DEF JobsInv, CheckpointsSound, CheckpointSound
  <2> QED BY <1>3, <2>1, <2>2 DEF Left
<1>7. UNCHANGED <<tree, jobVars, client, lease, edits>>
  BY DEF Take
<1>8. call.job = m /\ call.from = job[m].next /\ call.size = size
  OBVIOUS
<1>9. worker' = [worker EXCEPT ![w] = call]
  BY <1>1
<1> HIDE DEF call
<1> QED BY <1>2, <1>4, <1>5, <1>6, <1>7, <1>8, <1>9, WorkerStep

LEMMA ReadStep ==
  ASSUME JobsInv, NEW w \in Workers, Read(w)
  PROVE  JobsInv' /\ JobsForward
<1>1. worker[w] \in BatchCall /\ worker[w].read < worker[w].size /\ BatchSound(w)
  BY DEF Read, JobsInv, TypeOK, BatchesSound
<1>2. UNCHANGED <<tree, jobVars, client, lease, edits>>
  BY DEF Read
<1>3. CASE worker' = [worker EXCEPT ![w] = Idle]
  BY <1>2, <1>3, WorkerStep
<1>4. CASE worker' = [worker EXCEPT ![w].read = @ + 1]
  <2> DEFINE call == [worker[w] EXCEPT !.read = worker[w].read + 1]
  <2>1. worker[w].read + 1 \in 0..BatchSize
    BY <1>1, AssumptionFacts DEF BatchCall
  <2>2. /\ call \in BatchCall /\ call.job = worker[w].job
        /\ call.from = worker[w].from /\ call.size = worker[w].size
    BY <1>1, <2>1 DEF BatchCall
  <2>3. worker' = [worker EXCEPT ![w] = call]
    BY <1>4
  <2> HIDE DEF call
  <2> QED BY <1>1, <1>2, <2>2, <2>3, WorkerStep DEF BatchSound, RowOf
<1> QED BY <1>3, <1>4 DEF Read

LEMMA AbandonStep ==
  ASSUME JobsInv, NEW w \in Workers, Abandon(w)
  PROVE  JobsInv' /\ JobsForward
BY WorkerStep DEF Abandon

LEMMA EnvironmentStep ==
  ASSUME JobsInv,
         (\E p \in Paths, content \in Contents \cup {NoFile} : Edit(p, content)) \/ LoseLease \/ GrantLease
  PROVE  JobsInv' /\ JobsForward
<1>1. UNCHANGED jobVars /\ UNCHANGED <<client, worker>>
  BY DEF Edit, LoseLease, GrantLease
<1>2. Jobs' = Jobs
  BY <1>1 DEF Jobs, jobVars
<1>3. BatchesSound'
  BY <1>1, <1>2 DEF JobsInv, BatchesSound, BatchSound, RowOf, jobVars
<1>4. tree' \in Trees /\ lease' \in [fence : 1..MaxFence, live : BOOLEAN] /\ edits' \in 0..MaxEdits
  <2>1. ASSUME NEW p \in Paths, NEW content \in Contents \cup {NoFile}, Edit(p, content)
        PROVE  tree' \in Trees /\ lease' = lease /\ edits' \in 0..MaxEdits
    BY <2>1, IngestionAssumption DEF Edit, JobsInv, TypeOK, Trees
  <2>2. ASSUME LoseLease
        PROVE  tree' = tree /\ lease' \in [fence : 1..MaxFence, live : BOOLEAN] /\ edits' = edits
    BY <2>2 DEF LoseLease, JobsInv, TypeOK
  <2>3. ASSUME GrantLease
        PROVE  tree' = tree /\ lease' \in [fence : 1..MaxFence, live : BOOLEAN] /\ edits' = edits
    <3>1. lease.fence + 1 \in 1..MaxFence
      BY <2>3, AssumptionFacts DEF GrantLease, JobsInv, TypeOK
    <3> QED BY <2>3, <3>1 DEF GrantLease
  <2> QED BY <2>1, <2>2, <2>3 DEF JobsInv, TypeOK
<1>5. TypeOK'
  BY <1>1, <1>2, <1>4 DEF JobsInv, TypeOK, jobVars
<1> QED BY <1>1, <1>3, <1>5, JobsSame DEF JobsInv

------------------------------------------------------------------------------
(* Steps of the jobs *)

\* What a submission does, whoever submits: nothing, or a new queued job.
LEMMA SubmitJobFacts ==
  ASSUME JobsInv, NEW key \in Keys, NEW request \in Requests, NEW m \in Trees, SubmitJob(key, request, m)
  PROVE  \/ UNCHANGED jobVars
         \/ /\ m \notin Jobs /\ NoneActive
            /\ job' = [job EXCEPT ![m] = NewJob(key, request, m)]
            /\ UNCHANGED <<symbols, chunks, completed, writes>>
<1>1. UNCHANGED <<symbols, chunks, completed, writes>>
  BY DEF SubmitJob
<1>2. CASE Known(key, m) = None /\ Answer(key, request, m) = m
  <2>1. job' = [job EXCEPT ![m] = NewJob(key, request, m)]
    BY <1>2 DEF SubmitJob
  <2>2. m \notin Jobs
    <3> DEFINE named == {j \in Jobs : job[j].key = key}
    <3>1. CASE named # {}
      <4>1. Known(key, m) \in named
        BY <3>1 DEF Known
      <4> QED BY <1>2, <4>1, AssumptionFacts DEF Jobs
    <3>2. CASE named = {}
      BY <1>2, <3>2, AssumptionFacts DEF Known
    <3> QED BY <3>1, <3>2
  <2>3. NoneActive
    BY <1>2, AssumptionFacts DEF Answer
  <2> QED BY <1>1, <2>1, <2>2, <2>3
<1>3. CASE ~(Known(key, m) = None /\ Answer(key, request, m) = m)
  BY <1>1, <1>3 DEF SubmitJob, jobVars
<1> QED BY <1>2, <1>3

\* A new job has no file to its name that its tree or the last job has not.
LEMMA NewJobStep ==
  ASSUME JobsInv, NEW key \in Keys, NEW request \in Requests, NEW m \in Trees, m \notin Jobs, NoneActive,
         job' = [job EXCEPT ![m] = NewJob(key, request, m)],
         UNCHANGED <<symbols, chunks, completed, writes, tree, worker, lease, edits>>,
         client' \in [Clients -> Submission \cup {Idle}]
  PROVE  JobsInv' /\ JobsForward
<1> DEFINE row == NewJob(key, request, m)
<1>1. TypeOK
  BY DEF JobsInv
<1>2. /\ row \in JobRow /\ row # None
      /\ row.status = "queued" /\ row.files = Manifest(m) /\ row.next = 0 /\ row.processed = 0 /\ row.removed = 0
  BY <1>1, ManifestFacts, AssumptionFacts DEF NewJob, JobRow, Active
<1> HIDE DEF row
<1>3. job'[m] = row /\ \A n \in Trees : n # m => job'[n] = job[n]
  BY <1>1 DEF TypeOK, row
<1>4. Jobs' = Jobs \cup {m} /\ \A n \in Jobs : n # m /\ job'[n] = job[n]
  BY <1>2, <1>3 DEF Jobs
<1>5. TypeOK'
  <2>1. job' \in [Trees -> JobRow \cup {None}]
    BY <1>1, <1>2 DEF TypeOK, row
  <2>2. completed' \in Seq(Jobs')
    BY <1>1, <1>4, SeqMonotonic DEF TypeOK
  <2> QED BY <1>1, <2>1, <2>2 DEF TypeOK
<1>6. FilesSound'
  <2>1. /\ \A i \in 1..Len(row.files) : row.files[i].removed <=> m[row.files[i].path] = NoFile
        /\ \A p \in Paths : m[p] # NoFile => \E i \in 1..Len(row.files) : row.files[i].path = p
    BY <1>1, <1>2, ManifestFacts
  <2> QED BY <1>3, <1>4, <2>1 DEF JobsInv, FilesSound
<1>7. CheckpointsSound'
  <2>1. ASSUME NEW n \in Jobs
        PROVE  CheckpointSound(job'[n], writes'[n])
    BY <1>4, <2>1 DEF JobsInv, CheckpointsSound
  <2>2. CheckpointSound(row, writes'[m])
    <3>1. Len(row.files) \in Nat /\ (row.files # <<>> => Len(row.files) > 0)
      BY <1>1, <1>2, ManifestFacts, EmptySeq, LenProperties
    <3>2. writes'[m] = [i \in 1..row.next |-> i]
      <4>1. writes'[m] = <<>> /\ 1..row.next = {}
        BY <1>2 DEF JobsInv, CheckpointsSound
      <4> QED BY <4>1
    <3>3. Cardinality(Indexed(row.files, 0)) = 0 /\ Cardinality(Removals(row.files, 0)) = 0
      <4>1. Indexed(row.files, 0) = {} /\ Removals(row.files, 0) = {}
        BY DEF Indexed, Removals
      <4> QED BY <4>1, FS_EmptySet
    <3> QED BY <1>2, <3>1, <3>2, <3>3 DEF CheckpointSound, Active
  <2>3. \A n \in Trees \ Jobs' : writes'[n] = <<>>
    BY <1>4 DEF JobsInv, CheckpointsSound
  <2> QED BY <1>3, <1>4, <2>1, <2>2, <2>3 DEF CheckpointsSound
<1>8. BatchesSound'
  BY <1>4 DEF JobsInv, BatchesSound, BatchSound, RowOf
<1>9. OneActive'
  BY <1>4 DEF OneActive, NoneActive
<1>10. IndexSound'
  <2> SUFFICES ASSUME Clean' PROVE
        /\ \A n \in Jobs' : job'[n].status \in Active =>
             /\ \A p \in Previous' : Lists(n, p)'
             /\ \A p \in Paths : Reached(n, p)' => Shows(n, p)'
        /\ \A p \in Paths : ~ReachedByActive(p)' =>
             IF completed' = <<>> THEN symbols'[p] = {} ELSE Shows(Last(completed), p)'
    BY DEF IndexSound
  <2>1. Clean
    BY <1>4 DEF Clean
  <2>2. Previous' = Previous
    <3>1. CASE completed = <<>>
      BY <3>1 DEF Previous
    <3>2. CASE completed # <<>>
      <4>1. Last(completed) \in Jobs /\ Last(completed') = Last(completed)
        BY <1>1, <3>2, PreviousFacts
      <4> QED BY <1>4, <3>2, <4>1 DEF Previous
    <3> QED BY <3>1, <3>2
  <2>3. \A p \in Previous : Lists(m, p)'
    <3>1. ASSUME NEW p \in Previous
          PROVE  \E i \in 1..Len(row.files) : row.files[i].path = p
      BY <1>1, <1>2, ManifestFacts, PreviousFacts
    <3> QED BY <1>3, <3>1 DEF Lists
  <2>4. \A p \in Paths : ~Reached(m, p)'
    BY <1>2, <1>3 DEF Reached
  <2>5. \A n \in Jobs : job'[n].status \notin Active
    BY <1>4 DEF NoneActive
  <2>6. \A p \in Paths : ~ReachedByActive(p)
    BY DEF ReachedByActive, NoneActive
  <2>7. \A p \in Paths : IF completed = <<>> THEN symbols[p] = {} ELSE Shows(Last(completed), p)
    BY <2>1, <2>6 DEF JobsInv, IndexSound
  <2>8. \A p \in Paths, n \in Jobs : Shows(n, p)' = Shows(n, p)
    BY <1>4 DEF Shows
  <2>9. \A p \in Paths : IF completed' = <<>> THEN symbols'[p] = {} ELSE Shows(Last(completed), p)'
    <3>1. CASE completed = <<>>
      BY <2>7, <3>1
    <3>2. CASE completed # <<>>
      <4>1. PICK l \in Jobs : l = Last(completed)
        BY <1>1, <3>2, PreviousFacts
      <4>2. \A p \in Paths : Shows(l, p)'
        BY <2>7, <2>8, <3>2, <4>1
      <4>3. Last(completed') = l
        BY <4>1
      <4> QED BY <3>2, <4>2, <4>3 DEF Shows
    <3> QED BY <3>1, <3>2
  <2> QED BY <1>4, <2>2, <2>3, <2>4, <2>5, <2>9
<1>11. JobsForward
  <2>1. \A n \in Jobs : job'[n] = job[n] /\ job[n] # None /\ job[n].next \in Nat
    BY <1>1, <1>4, JobTypes DEF Jobs, JobRow
  <2> QED BY <2>1 DEF JobsForward
<1> QED BY <1>5, <1>6, <1>7, <1>8, <1>9, <1>10, <1>11 DEF JobsInv

LEMMA SubmitJobStep ==
  ASSUME JobsInv, NEW key \in Keys, NEW request \in Requests, NEW m \in Trees, SubmitJob(key, request, m),
         UNCHANGED <<tree, worker, lease, edits>>,
         client' \in [Clients -> Submission \cup {Idle}]
  PROVE  JobsInv' /\ JobsForward
<1>1. CASE UNCHANGED jobVars
  <2>1. Jobs' = Jobs
    BY <1>1 DEF Jobs, jobVars
  <2>2. TypeOK'
    BY <1>1, <2>1 DEF JobsInv, TypeOK, jobVars
  <2>3. BatchesSound'
    BY <1>1, <2>1 DEF JobsInv, BatchesSound, BatchSound, RowOf, jobVars
  <2> QED BY <1>1, <2>2, <2>3, JobsSame DEF JobsInv
<1>2. CASE /\ m \notin Jobs /\ NoneActive
           /\ job' = [job EXCEPT ![m] = NewJob(key, request, m)]
           /\ UNCHANGED <<symbols, chunks, completed, writes>>
  BY <1>2, NewJobStep
<1> QED BY <1>1, <1>2, SubmitJobFacts

LEMMA SubmitStep ==
  ASSUME JobsInv, NEW c \in Clients, Submit(c)
  PROVE  JobsInv' /\ JobsForward
<1>1. client[c].key \in Keys /\ client[c].request \in Requests /\ client[c].seen \in Trees
  BY DEF Submit, JobsInv, TypeOK, Submission
<1>2. client' \in [Clients -> Submission \cup {Idle}]
  BY DEF Submit, JobsInv, TypeOK
<1>3. /\ UNCHANGED <<tree, worker, lease, edits>>
      /\ SubmitJob(client[c].key, client[c].request, client[c].seen)
  BY DEF Submit
<1> QED BY <1>1, <1>2, <1>3, SubmitJobStep

\* A job is cancelled, or an empty one finished: no clean index is promised then.
LEMMA StatusStep ==
  ASSUME JobsInv, NEW m \in Jobs, NEW status \in {"succeeded", "cancelled"},
         job' = [job EXCEPT ![m].status = status],
         job[m].files # <<>> => job[m].status \in Active,
         status = "succeeded" => job[m].files = <<>>,
         UNCHANGED <<tree, symbols, chunks, writes, client, lease, edits>>,
         completed' \in {completed, Append(completed, m)},
         worker' \in [Workers -> BatchCall \cup {Idle}],
         \A w \in Workers : worker'[w] \in {worker[w], Idle}
  PROVE  JobsInv' /\ JobsForward
<1> DEFINE row == [job[m] EXCEPT !.status = status]
<1>1. TypeOK /\ job[m] \in JobRow /\ m \in Trees
  BY JobTypes DEF JobsInv
<1>2. /\ row \in JobRow /\ row # None /\ row.status = status /\ row.files = job[m].files /\ row.next = job[m].next
      /\ row.processed = job[m].processed /\ row.removed = job[m].removed
      /\ row.key = job[m].key /\ row.request = job[m].request
  BY <1>1, AssumptionFacts DEF JobRow
<1>3. job'[m] = row /\ \A n \in Trees : n # m => job'[n] = job[n]
  BY <1>1 DEF TypeOK
<1>4. job' \in [Trees -> JobRow \cup {None}]
  <2>1. job' = [job EXCEPT ![m] = row]
    OBVIOUS
  <2> HIDE DEF row
  <2> QED BY <1>1, <1>2, <2>1 DEF TypeOK
<1> HIDE DEF row
<1>5. Jobs' = Jobs
  BY <1>1, <1>2, <1>3 DEF Jobs
<1>6. TypeOK'
  <2>1. completed \in Seq(Jobs)
    BY <1>1 DEF TypeOK
  <2>2. Append(completed, m) \in Seq(Jobs)
    BY <2>1, AppendProperties
  <2>3. completed' \in Seq(Jobs')
    BY <1>5, <2>1, <2>2
  <2> QED BY <1>1, <1>4, <2>3 DEF TypeOK
<1>7. \A n \in Jobs : /\ job'[n].files = job[n].files /\ job'[n].next = job[n].next /\ job'[n].request = job[n].request
                      /\ job'[n].processed = job[n].processed /\ job'[n].removed = job[n].removed
                      /\ job'[n].key = job[n].key
  BY <1>2, <1>3 DEF Jobs
<1>8. FilesSound'
  BY <1>5, <1>7 DEF JobsInv, FilesSound
<1>9. CheckpointsSound'
  <2>1. ASSUME NEW n \in Jobs, n # m
        PROVE  CheckpointSound(job'[n], writes'[n])
    BY <1>3, <2>1 DEF JobsInv, CheckpointsSound, Jobs
  <2>2. CheckpointSound(row, writes'[m])
    <3>1. CheckpointSound(job[m], writes[m])
      BY DEF JobsInv, CheckpointsSound
    <3>2. status \notin Active
      BY DEF Active
    <3>3. status = "succeeded" => job[m].next = Len(job[m].files)
      <4> SUFFICES ASSUME job[m].files = <<>> PROVE job[m].next = Len(job[m].files)
        OBVIOUS
      <4>1. Len(job[m].files) = 0 /\ job[m].next <= Len(job[m].files) /\ job[m].next \in Nat
        BY <1>1, <3>1 DEF CheckpointSound, JobRow
      <4> QED BY <4>1
    <3> QED BY <1>2, <3>1, <3>2, <3>3 DEF CheckpointSound
  <2> QED BY <1>3, <1>5, <2>1, <2>2 DEF CheckpointsSound, JobsInv
<1>10. BatchesSound'
  <2> SUFFICES ASSUME NEW w \in Workers, worker'[w] # Idle
               PROVE  BatchSound(w)'
    BY DEF BatchesSound
  <2>1. worker'[w] = worker[w] /\ worker[w] # Idle
    OBVIOUS
  <2> QED BY <1>5, <1>7, <2>1 DEF JobsInv, BatchesSound, BatchSound, RowOf
<1>11. OneActive'
  <2>1. \A n \in Jobs : job'[n].status \in Active => job[n].status \in Active
    BY <1>2, <1>3 DEF Active, Jobs
  <2> QED BY <1>5, <2>1 DEF JobsInv, OneActive
<1>12. IndexSound'
  <2>1. ~Clean'
    BY <1>2, <1>3, <1>5 DEF Clean
  <2> QED BY <2>1 DEF IndexSound
<1>13. JobsForward
  <2>1. \A n \in Jobs : job'[n] # None /\ job[n].next \in Nat
    BY <1>1, <1>5, JobTypes DEF Jobs, JobRow
  <2>2. \A n \in Jobs : job[n].files # <<>> /\ job[n].status \notin Active => job'[n] = job[n]
    BY <1>3 DEF Jobs
  <2> QED BY <1>7, <2>1, <2>2 DEF JobsForward
<1> QED BY <1>6, <1>8, <1>9, <1>10, <1>11, <1>12, <1>13 DEF JobsInv

LEMMA CancelStep ==
  ASSUME JobsInv, NEW m \in Trees, Cancel(m)
  PROVE  JobsInv' /\ JobsForward
<1>1. worker' = worker /\ worker \in [Workers -> BatchCall \cup {Idle}]
  BY DEF Cancel, JobsInv, TypeOK
<1>2. /\ m \in Jobs /\ job[m].status \in Active
      /\ job' = [job EXCEPT ![m].status = "cancelled"]
      /\ UNCHANGED <<tree, symbols, chunks, completed, writes, client, lease, edits>>
  BY DEF Cancel
<1> QED BY <1>1, <1>2, StatusStep

LEMMA FinalizeStep ==
  ASSUME JobsInv, NEW w \in Workers, FinalizeEmpty(w)
  PROVE  JobsInv' /\ JobsForward
<1>1. /\ worker[w] # Idle /\ worker[w].size = 0 /\ BatchSound(w)
      /\ worker' = [worker EXCEPT ![w] = Idle]
      /\ UNCHANGED <<tree, symbols, chunks, writes, client, lease, edits>>
  BY DEF FinalizeEmpty, JobsInv, BatchesSound
<1>2. CASE UNCHANGED <<job, completed>>
  BY <1>1, <1>2, WorkerStep DEF jobVars
<1>3. CASE job' = [job EXCEPT ![worker[w].job].status = "succeeded"] /\ completed' = Append(completed, worker[w].job)
  <2>1. worker' \in [Workers -> BatchCall \cup {Idle}] /\ \A v \in Workers : worker'[v] \in {worker[v], Idle}
    BY <1>1 DEF JobsInv, TypeOK
  <2>2. worker[w].job \in Jobs /\ job[worker[w].job].files = <<>>
    BY <1>1 DEF BatchSound, RowOf
  <2> QED BY <1>1, <1>3, <2>1, <2>2, StatusStep
<1> QED BY <1>2, <1>3 DEF FinalizeEmpty

------------------------------------------------------------------------------
(* The commit of a batch *)

\* The row that a batch leaves.
LEMMA AdvancedFacts ==
  ASSUME JobsInv, NEW w \in Workers, worker[w] # Idle, worker[w].size > 0, StillNext(w)
  PROVE  LET m == worker[w].job
             row == Advanced(w)
         IN /\ m \in Jobs /\ job[m] \in JobRow /\ row \in JobRow /\ row # None
            /\ row.key = job[m].key /\ row.request = job[m].request /\ row.files = job[m].files
            /\ worker[w].from = job[m].next /\ worker[w].size \in Nat \ {0}
            /\ row.next = job[m].next + worker[w].size /\ row.next <= Len(row.files)
            /\ row.processed = job[m].processed + Counted(w, FALSE)
            /\ row.removed = job[m].removed + Counted(w, TRUE)
            /\ \/ row.status = "succeeded" /\ row.next = Len(row.files)
               \/ row.status = "running" /\ row.next < Len(row.files)
            /\ job[m].status \in Active /\ Admits(job[m].request)
<1> DEFINE m == worker[w].job
           row == Advanced(w)
<1>1. worker[w] \in BatchCall /\ BatchSound(w) /\ m \in Jobs /\ job[m] \in JobRow /\ CheckpointSound(job[m], writes[m])
  BY JobTypes DEF JobsInv, TypeOK, BatchesSound, BatchSound, CheckpointsSound
<1>2. job[m].next = worker[w].from /\ job[m].status # "cancelled" /\ Admits(job[m].request)
  BY DEF StillNext
<1>3. /\ job[m].next \in Nat /\ worker[w].size \in Nat \ {0} /\ Len(job[m].files) \in Nat
      /\ job[m].next + worker[w].size <= Len(job[m].files)
  BY <1>1, <1>2, AssumptionFacts, LenProperties DEF BatchCall, JobRow, BatchSound, RowOf
<1>4. job[m].status \in Active
  BY <1>1, <1>2, <1>3 DEF CheckpointSound, JobRow
<1>5. Counted(w, FALSE) \in Nat /\ Counted(w, TRUE) \in Nat
  <2>1. ASSUME NEW removed
        PROVE  Counted(w, removed) \in Nat
    <3> DEFINE S == {i \in 1..worker[w].size : File(w, i).removed = removed}
    <3>1. S \in SUBSET (1..worker[w].size)
      OBVIOUS
    <3>2. IsFiniteSet(S)
      <4>1. PICK k \in Nat : k = worker[w].size
        BY <1>3
      <4>2. IsFiniteSet(1..k)
        BY FS_Interval
      <4> HIDE DEF S
      <4> QED BY <3>1, <4>1, <4>2, FS_Subset
    <3> QED BY <3>2, FS_CardinalityType DEF Counted
  <2> QED BY <2>1
<1> DEFINE next == job[m].next + worker[w].size
           processed == job[m].processed + Counted(w, FALSE)
           removed == job[m].removed + Counted(w, TRUE)
           status == IF next >= Len(job[m].files) THEN "succeeded" ELSE "running"
           mirror == IF next >= Len(job[m].files) THEN "succeeded" ELSE job[m].mirror
<1>6. row = [job[m] EXCEPT !.next = next, !.processed = processed, !.removed = removed,
                           !.status = status, !.mirror = mirror]
  BY DEF Advanced
<1>8. /\ next \in Nat /\ processed \in Nat /\ removed \in Nat
      /\ status \in Active \cup {"succeeded", "cancelled"} /\ mirror \in {"pending", "succeeded"}
  <2>1. job[m].processed \in Nat /\ job[m].removed \in Nat /\ job[m].mirror \in {"pending", "succeeded"}
    BY <1>1 DEF JobRow
  <2>2. next \in Nat
    BY <1>3
  <2>3. processed \in Nat /\ removed \in Nat
    <3>1. \A a, b \in Nat : a + b \in Nat
      OBVIOUS
    <3> QED BY <1>5, <2>1, <3>1, Zenon
  <2>4. status \in Active \cup {"succeeded", "cancelled"} /\ mirror \in {"pending", "succeeded"}
    BY <2>1 DEF Active
  <2> QED BY <2>2, <2>3, <2>4
<1> HIDE DEF row, next, processed, removed, status, mirror
<1>9. /\ row.key = job[m].key /\ row.request = job[m].request /\ row.files = job[m].files
      /\ row.next = next /\ row.processed = processed /\ row.removed = removed /\ row.status = status
      /\ row \in JobRow
  BY <1>1, <1>6, <1>8 DEF JobRow
<1>7. \/ row.status = "succeeded" /\ row.next = Len(row.files)
      \/ row.status = "running" /\ row.next < Len(row.files)
  BY <1>3, <1>9 DEF status, next
<1> QED BY <1>1, <1>2, <1>3, <1>4, <1>7, <1>9, AssumptionFacts DEF row, next, processed, removed

\* Its counters count its ordinals.
LEMMA CountersFollow ==
  ASSUME NEW files \in Seq(Files), NEW n \in Nat, NEW k \in Nat, n + k <= Len(files)
  PROVE  /\ Cardinality(Indexed(files, n + k)) =
              Cardinality(Indexed(files, n)) + Cardinality({i \in 1..k : files[n + i].removed = FALSE})
         /\ Cardinality(Removals(files, n + k)) =
              Cardinality(Removals(files, n)) + Cardinality({i \in 1..k : files[n + i].removed = TRUE})
<1> DEFINE X == {i \in Nat : ~files[i].removed}
           Y == {i \in Nat : files[i].removed}
<1>1. ASSUME NEW i \in 1..k
      PROVE  files[n + i].removed \in BOOLEAN /\ n + i \in Nat
  <2>1. n + i \in 1..Len(files)
    BY LenProperties
  <2>2. files[n + i] \in Files
    BY <2>1, ElementOfSeq
  <2> QED BY <2>1, <2>2 DEF Files
<1>2. {i \in 1..k : files[n + i].removed = FALSE} = {i \in 1..k : n + i \in X}
  BY <1>1
<1>3. {i \in 1..k : files[n + i].removed = TRUE} = {i \in 1..k : n + i \in Y}
  BY <1>1
<1>4. \A a \in Nat : X \cap (1..a) = Indexed(files, a) /\ Y \cap (1..a) = Removals(files, a)
  BY DEF Indexed, Removals
<1>5. n + k \in Nat
  OBVIOUS
<1> HIDE DEF X, Y
<1>6. Cardinality(X \cap (1..n + k)) = Cardinality(X \cap (1..n)) + Cardinality({i \in 1..k : n + i \in X})
  BY CountedOn, ZenonT(60)
<1>7. Cardinality(Y \cap (1..n + k)) = Cardinality(Y \cap (1..n)) + Cardinality({i \in 1..k : n + i \in Y})
  BY CountedOn, ZenonT(60)
<1> QED BY <1>2, <1>3, <1>4, <1>5, <1>6, <1>7

LEMMA OrdinalsFollow ==
  ASSUME NEW n \in Nat, NEW k \in Nat
  PROVE  [i \in 1..n |-> i] \o [i \in 1..k |-> n + i] = [i \in 1..n + k |-> i]
<1> DEFINE s == [i \in 1..n |-> i]
           t == [i \in 1..k |-> n + i]
           u == [i \in 1..n + k |-> i]
<1>1. s \in [1..n -> Nat] /\ t \in [1..k -> Nat] /\ u \in [1..n + k -> Nat] /\ n + k \in Nat
  OBVIOUS
<1>2. \A i \in 1..n + k : u[i] = i /\ (i \in 1..n => s[i] = i) /\ (~(i <= n) => i - n \in 1..k /\ t[i - n] = i)
  OBVIOUS
<1> HIDE DEF s, t, u
<1>3. /\ s \in Seq(Nat) /\ Len(s) = n /\ t \in Seq(Nat) /\ Len(t) = k /\ u \in Seq(Nat) /\ Len(u) = n + k
  BY <1>1, FunctionIsSeq
<1>4. /\ s \o t \in Seq(Nat) /\ Len(s \o t) = n + k
      /\ \A i \in 1..n + k : (s \o t)[i] = IF i <= n THEN s[i] ELSE t[i - n]
  BY <1>3, ConcatProperties
<1>5. \A i \in 1..n + k : (s \o t)[i] = u[i]
  <2> SUFFICES ASSUME NEW i \in 1..n + k PROVE (s \o t)[i] = u[i]
    OBVIOUS
  <2>1. CASE i <= n
    BY <1>2, <1>4, <2>1
  <2>2. CASE ~(i <= n)
    BY <1>2, <1>4, <2>2
  <2> QED BY <2>1, <2>2
<1>6. s \o t = u
  BY <1>3, <1>4, <1>5, SeqEqual
<1> QED BY <1>6 DEF s, t, u

LEMMA CommitStep ==
  ASSUME JobsInv, NEW w \in Workers, CommitBatch(w)
  PROVE  JobsInv' /\ JobsForward
<1>1. /\ worker[w] # Idle /\ worker[w].size > 0
      /\ worker' = [worker EXCEPT ![w] = Idle]
      /\ UNCHANGED <<tree, client, lease, edits>>
  BY DEF CommitBatch
<1>2. CASE UNCHANGED jobVars
  BY <1>1, <1>2, WorkerStep
<1>3. CASE StillNext(w)
  <2>0. PICK m \in Jobs : m = worker[w].job
    BY <1>1, <1>3, AdvancedFacts
  <2> DEFINE row == Advanced(w)
  <2>1. /\ job' = [job EXCEPT ![m] = row]
        /\ symbols' = Reindexed(m, Batch(w))
        /\ chunks' = chunks \cup {m[f.path] : f \in {g \in Batch(w) : ~g.removed}}
        /\ completed' = IF row.status = "succeeded" THEN Append(completed, m) ELSE completed
        /\ writes' = [writes EXCEPT ![m] = @ \o [i \in 1..worker[w].size |-> worker[w].from + i]]
    BY <1>3, <2>0 DEF CommitBatch
  <2>2. /\ m \in Jobs /\ job[m] \in JobRow /\ row \in JobRow /\ row # None
        /\ row.key = job[m].key /\ row.request = job[m].request /\ row.files = job[m].files
        /\ worker[w].from = job[m].next /\ worker[w].size \in Nat \ {0}
        /\ row.next = job[m].next + worker[w].size /\ row.next <= Len(row.files)
        /\ row.processed = job[m].processed + Counted(w, FALSE)
        /\ row.removed = job[m].removed + Counted(w, TRUE)
        /\ \/ row.status = "succeeded" /\ row.next = Len(row.files)
           \/ row.status = "running" /\ row.next < Len(row.files)
        /\ job[m].status \in Active /\ Admits(job[m].request)
    BY <1>1, <1>3, <2>0, AdvancedFacts
  <2> HIDE DEF row
  <2>3. TypeOK /\ m \in Trees
    BY <2>2, JobTypes DEF JobsInv
  <2>4. job'[m] = row /\ \A n \in Trees : n # m => job'[n] = job[n]
    BY <2>1, <2>3 DEF TypeOK
  <2>5. Jobs' = Jobs
    BY <2>2, <2>3, <2>4 DEF Jobs
  <2>6. \A n \in Jobs : /\ job'[n].files = job[n].files /\ job'[n].request = job[n].request /\ job'[n].key = job[n].key
    BY <2>2, <2>4 DEF Jobs
  <2>7. JobsForward
    <3>1. \A n \in Jobs : job'[n] # None /\ job[n].next \in Nat
      BY <2>3, <2>5, JobTypes DEF Jobs, JobRow
    <3>2. \A n \in Jobs : job'[n].next >= job[n].next
      BY <2>2, <2>4, <3>1 DEF Jobs
    <3>3. \A n \in Jobs : job'[n].next > job[n].next => job[n].status \in Active /\ Admits(job[n].request)
      BY <2>2, <2>4, <3>1 DEF Jobs
    <3>4. \A n \in Jobs : job[n].status \notin Active => job'[n] = job[n]
      BY <2>2, <2>4 DEF Jobs
    <3> QED BY <2>6, <3>1, <3>2, <3>3, <3>4 DEF JobsForward
  <2>8. FilesSound' /\ OneActive'
    <3>1. \A n \in Jobs : job'[n].status \in Active => job[n].status \in Active
      BY <2>2, <2>4 DEF Jobs
    <3> QED BY <2>5, <2>6, <3>1 DEF JobsInv, FilesSound, OneActive
  <2>9. writes'[m] = [i \in 1..row.next |-> i] /\ \A n \in Trees : n # m => writes'[n] = writes[n]
    <3>1. PICK n \in Nat : n = job[m].next
      BY <2>2 DEF JobRow
    <3>2. PICK k \in Nat : k = worker[w].size
      BY <2>2
    <3>3. writes[m] = [i \in 1..n |-> i]
      BY <2>2, <3>1 DEF JobsInv, CheckpointsSound, CheckpointSound
    <3>4. writes'[m] = writes[m] \o [i \in 1..k |-> n + i]
      BY <2>1, <2>2, <2>3, <3>1, <3>2 DEF TypeOK
    <3>5. writes'[m] = [i \in 1..n + k |-> i]
      BY <3>3, <3>4, OrdinalsFollow
    <3> QED BY <2>1, <2>2, <2>3, <3>1, <3>2, <3>5 DEF TypeOK
  <2>10. CheckpointsSound'
    <3>1. CheckpointSound(row, writes'[m])
      <4>1. CheckpointSound(job[m], writes[m]) /\ job[m].files \in Seq(Files) /\ job[m].next \in Nat
        BY <2>2 DEF JobsInv, CheckpointsSound, JobRow
      <4>2. PICK files \in Seq(Files), n \in Nat, k \in Nat :
              files = job[m].files /\ n = job[m].next /\ k = worker[w].size
        BY <2>2, <4>1
      <4>3. /\ row.processed = Cardinality(Indexed(row.files, row.next))
            /\ row.removed = Cardinality(Removals(row.files, row.next))
        <5>1. /\ job[m].processed = Cardinality(Indexed(files, n))
              /\ job[m].removed = Cardinality(Removals(files, n))
          BY <4>1, <4>2 DEF CheckpointSound
        <5>2. /\ Counted(w, FALSE) = Cardinality({i \in 1..k : files[n + i].removed = FALSE})
              /\ Counted(w, TRUE) = Cardinality({i \in 1..k : files[n + i].removed = TRUE})
          BY <2>0, <2>2, <4>2 DEF Counted, File
        <5>3. n + k <= Len(files)
          BY <2>2, <4>2
        <5>4. /\ Cardinality(Indexed(files, n + k)) = row.processed
              /\ Cardinality(Removals(files, n + k)) = row.removed
          <6>1. /\ Cardinality(Indexed(files, n + k)) =
                     Cardinality(Indexed(files, n)) + Cardinality({i \in 1..k : files[n + i].removed = FALSE})
                /\ Cardinality(Removals(files, n + k)) =
                     Cardinality(Removals(files, n)) + Cardinality({i \in 1..k : files[n + i].removed = TRUE})
            BY <5>3, CountersFollow
          <6> DEFINE added == Cardinality({i \in 1..k : files[n + i].removed = FALSE})
                     gone == Cardinality({i \in 1..k : files[n + i].removed = TRUE})
          <6>2. Counted(w, FALSE) = added /\ Counted(w, TRUE) = gone
            BY <5>2
          <6>3. /\ Cardinality(Indexed(files, n + k)) = Cardinality(Indexed(files, n)) + added
                /\ Cardinality(Removals(files, n + k)) = Cardinality(Removals(files, n)) + gone
            BY <6>1
          <6> HIDE DEF added, gone
          <6> QED BY <2>2, <5>1, <6>2, <6>3
        <5> QED BY <2>2, <4>2, <5>4
      <4>4. /\ row.status = "succeeded" => row.next = Len(row.files)
            /\ row.status \in Active => row.next < Len(row.files)
        BY <2>2 DEF Active
      <4> QED BY <2>2, <2>9, <4>3, <4>4 DEF CheckpointSound
    <3>2. ASSUME NEW n \in Jobs, n # m
          PROVE  CheckpointSound(job'[n], writes'[n])
      BY <2>4, <2>9, <3>2 DEF JobsInv, CheckpointsSound, Jobs
    <3>3. \A n \in Trees \ Jobs : writes'[n] = <<>>
      BY <2>2, <2>9 DEF JobsInv, CheckpointsSound
    <3> QED BY <2>4, <2>5, <3>1, <3>2, <3>3 DEF CheckpointsSound
  <2>11. BatchesSound'
    <3> SUFFICES ASSUME NEW v \in Workers, worker'[v] # Idle
                 PROVE  BatchSound(v)'
      BY DEF BatchesSound
    <3>1. worker'[v] = worker[v] /\ worker[v] # Idle
      BY <1>1, <2>3 DEF TypeOK
    <3> QED BY <2>5, <2>6, <3>1 DEF JobsInv, BatchesSound, BatchSound, RowOf
  <2> DEFINE InBatch(p) == \E i \in 1..worker[w].size : File(w, i).path = p
  <2>12. \A i \in 1..worker[w].size :
           /\ job[m].next + i \in 1..row.next /\ row.next \in 1..Len(job[m].files)
           /\ File(w, i) = job[m].files[job[m].next + i] /\ File(w, i) \in Files /\ File(w, i) \in Batch(w)
           /\ File(w, i).removed <=> m[File(w, i).path] = NoFile
    <3> TAKE i \in 1..worker[w].size
    <3>1. /\ job[m].next \in Nat /\ job[m].files \in Seq(Files) /\ Len(job[m].files) \in Nat
      BY <2>2, LenProperties DEF JobRow
    <3>2. job[m].next + i \in 1..row.next /\ row.next \in 1..Len(job[m].files)
      BY <2>2, <3>1
    <3>3. job[m].next + i \in 1..Len(job[m].files)
      BY <3>1, <3>2
    <3>4. File(w, i) = job[m].files[job[m].next + i] /\ File(w, i) \in Batch(w)
      BY <2>0, <2>2 DEF File, Batch
    <3>5. File(w, i) \in Files
      BY <3>1, <3>3, <3>4, ElementOfSeq
    <3>6. File(w, i).removed <=> m[File(w, i).path] = NoFile
      BY <2>2, <3>3, <3>4 DEF JobsInv, FilesSound
    <3> QED BY <3>2, <3>4, <3>5, <3>6
  <2>13. \A p \in Paths : InBatch(p) =>
           IF m[p] = NoFile THEN symbols'[p] = {}
           ELSE /\ m[p] \in chunks'
                /\ symbols'[p] = IF job[m].request.extract /\ SymbolsOf[m[p]] # {} THEN SymbolsOf[m[p]] ELSE symbols[p]
    <3> SUFFICES ASSUME NEW p \in Paths, NEW i \in 1..worker[w].size, File(w, i).path = p
                 PROVE  IF m[p] = NoFile THEN symbols'[p] = {}
                        ELSE /\ m[p] \in chunks'
                             /\ symbols'[p] = IF job[m].request.extract /\ SymbolsOf[m[p]] # {}
                                              THEN SymbolsOf[m[p]] ELSE symbols[p]
      OBVIOUS
    <3> DEFINE f == File(w, i)
    <3>1. f \in Batch(w) /\ f \in Files /\ f.path = p /\ (f.removed <=> m[p] = NoFile)
      BY <2>12
    <3>2. f.removed \in BOOLEAN /\ f = [path |-> p, removed |-> f.removed]
      BY <3>1 DEF Files
    <3>3. CASE m[p] = NoFile
      <4>1. [path |-> p, removed |-> TRUE] \in Batch(w)
        BY <3>1, <3>2, <3>3
      <4> QED BY <2>1, <3>3, <4>1 DEF Reindexed
    <3>4. CASE m[p] # NoFile
      <4>1. [path |-> p, removed |-> FALSE] \in Batch(w) /\ ~f.removed
        BY <3>1, <3>2, <3>4
      <4>2. [path |-> p, removed |-> TRUE] \notin Batch(w)
        <5> SUFFICES ASSUME NEW j \in 1..worker[w].size, File(w, j) = [path |-> p, removed |-> TRUE]
                     PROVE  FALSE
          BY DEF Batch
        <5>1. File(w, j).path = p /\ File(w, j).removed
          OBVIOUS
        <5> QED BY <2>12, <3>4, <5>1
      <4>3. m[f.path] \in chunks'
        BY <2>1, <3>1, <4>1
      <4> QED BY <2>1, <3>1, <3>4, <4>1, <4>2, <4>3 DEF Reindexed
    <3> QED BY <3>3, <3>4
  <2>14. \A p \in Paths : ~InBatch(p) => symbols'[p] = symbols[p]
    <3> SUFFICES ASSUME NEW p \in Paths, ~InBatch(p) PROVE symbols'[p] = symbols[p]
      OBVIOUS
    <3>1. \A removed \in BOOLEAN : [path |-> p, removed |-> removed] \notin Batch(w)
      BY DEF Batch
    <3> QED BY <2>1, <3>1 DEF Reindexed
  <2>15. TypeOK'
    <3>1. completed \in Seq(Jobs) /\ Append(completed, m) \in Seq(Jobs)
      BY <2>2, <2>3, AppendProperties DEF TypeOK
    <3>2. completed' \in Seq(Jobs')
      BY <2>1, <2>5, <3>1
    <3>3. job' \in [Trees -> JobRow \cup {None}]
      BY <2>1, <2>2, <2>3 DEF TypeOK
    <3>4. \A p \in Paths : symbols'[p] \in SUBSET Names /\ (InBatch(p) /\ m[p] # NoFile => m[p] \in Contents)
      <4> TAKE p \in Paths
      <4>1. m[p] # NoFile => m[p] \in Contents /\ SymbolsOf[m[p]] \in SUBSET Names
        BY <2>3 DEF Trees, Names
      <4> QED BY <2>3, <2>13, <2>14, <4>1 DEF TypeOK
    <3>5. symbols' \in [Paths -> SUBSET Names]
      <4>1. symbols' = [p \in Paths |-> symbols'[p]]
        BY <2>1 DEF Reindexed
      <4> QED BY <3>4, <4>1
    <3>6. chunks' \subseteq Contents
      <4>1. ASSUME NEW f \in Batch(w), ~f.removed
            PROVE  m[f.path] \in Contents
        <5>1. PICK i \in 1..worker[w].size : f = File(w, i)
          BY DEF Batch
        <5>2. m[f.path] # NoFile /\ f.path \in Paths
          BY <2>12, <4>1, <5>1 DEF Files
        <5> QED BY <2>3, <5>2 DEF Trees
      <4> QED BY <2>1, <2>3, <4>1 DEF TypeOK
    <3>7. writes' \in [Trees -> Seq(Nat)]
      <4>1. row.next \in Nat
        BY <2>2 DEF JobRow
      <4>2. [i \in 1..row.next |-> i] \in Seq(Nat)
        <5>1. [i \in 1..row.next |-> i] \in [1..row.next -> Nat]
          BY <4>1
        <5> QED BY <4>1, <5>1, FunctionIsSeq
      <4>3. \A n \in Trees : writes'[n] \in Seq(Nat)
        BY <2>3, <2>9, <4>2 DEF TypeOK
      <4>4. DOMAIN writes' = Trees /\ writes' = [n \in DOMAIN writes' |-> writes'[n]]
        BY <2>1, <2>3 DEF TypeOK
      <4> QED BY <4>3, <4>4
    <3>8. worker' \in [Workers -> BatchCall \cup {Idle}]
      BY <1>1, <2>3 DEF TypeOK
    <3> QED BY <1>1, <2>3, <3>2, <3>3, <3>5, <3>6, <3>7, <3>8 DEF TypeOK
  <2>16. IndexSound'
    <3> SUFFICES ASSUME Clean' PROVE
          /\ \A n \in Jobs' : job'[n].status \in Active =>
               /\ \A p \in Previous' : Lists(n, p)'
               /\ \A p \in Paths : Reached(n, p)' => Shows(n, p)'
          /\ \A p \in Paths : ~ReachedByActive(p)' =>
               IF completed' = <<>> THEN symbols'[p] = {} ELSE Shows(Last(completed), p)'
      BY DEF IndexSound
    <3>1. Clean
      <4>1. \A n \in Jobs : n # m => job'[n] = job[n]
        BY <2>4 DEF Jobs
      <4>2. job[m].files # <<>> /\ job[m].status # "cancelled"
        BY <2>2, <2>4, <2>5 DEF Clean, Active
      <4> QED BY <2>5, <4>1, <4>2 DEF Clean
    <3>2. \A n \in Jobs : job[n].status \in Active => n = m
      BY <2>2 DEF JobsInv, OneActive
    <3>3. \A p \in Paths : Lists(m, p)' = Lists(m, p)
      BY <2>2, <2>4 DEF Lists
    <3>4. \A p \in Paths : Reached(m, p)' <=> Reached(m, p) \/ InBatch(p)
      <4> SUFFICES ASSUME NEW p \in Paths PROVE Reached(m, p)' <=> Reached(m, p) \/ InBatch(p)
        OBVIOUS
      <4>1. PICK n \in Nat, k \in Nat : n = job[m].next /\ k = worker[w].size
        BY <2>2 DEF JobRow
      <4>2. Reached(m, p)' <=> \E i \in 1..n + k : job[m].files[i].path = p
        BY <2>2, <2>4, <4>1 DEF Reached
      <4>3. InBatch(p) <=> \E i \in 1..k : job[m].files[n + i].path = p
        BY <2>12, <4>1
      <4>4. Reached(m, p) <=> \E i \in 1..n : job[m].files[i].path = p
        BY <4>1 DEF Reached
      <4>5. \A i \in 1..n + k : i \in 1..n \/ (i - n \in 1..k /\ i = n + (i - n))
        OBVIOUS
      <4>6. (\A i \in 1..n : i \in 1..n + k) /\ (\A i \in 1..k : n + i \in 1..n + k)
        OBVIOUS
      <4> HIDE DEF InBatch
      <4>7. ASSUME NEW i \in 1..n + k, job[m].files[i].path = p
            PROVE  Reached(m, p) \/ InBatch(p)
        BY <4>3, <4>4, <4>5, <4>7
      <4> QED BY <4>2, <4>3, <4>4, <4>6, <4>7
    <3>5. \A p \in Paths : InBatch(p) => Shows(m, p)'
      BY <2>2, <2>4, <2>13 DEF Shows
    <3>6. \A n \in Jobs, p \in Paths : ~InBatch(p) /\ Shows(n, p) => Shows(n, p)'
      BY <2>1, <2>6, <2>14 DEF Shows
    <3>7. \A p \in Paths : Reached(m, p)' => Shows(m, p)'
      <4>1. \A p \in Paths : Reached(m, p) => Shows(m, p)
        BY <2>2, <3>1 DEF JobsInv, IndexSound
      <4> HIDE DEF InBatch
      <4> QED BY <2>2, <3>4, <3>5, <3>6, <4>1
    <3>8. \A p \in Paths : ~Reached(m, p)' =>
            ~InBatch(p) /\ IF completed = <<>> THEN symbols[p] = {} ELSE Shows(Last(completed), p)
      <4> SUFFICES ASSUME NEW p \in Paths, ~Reached(m, p)'
                   PROVE  ~InBatch(p) /\ IF completed = <<>> THEN symbols[p] = {} ELSE Shows(Last(completed), p)
        OBVIOUS
      <4> HIDE DEF InBatch
      <4>1. ~InBatch(p) /\ ~ReachedByActive(p)
        BY <3>2, <3>4 DEF ReachedByActive
      <4> QED BY <3>1, <4>1 DEF JobsInv, IndexSound
    <3>9. CASE row.status = "running"
      <4>1. completed' = completed
        BY <2>1, <3>9
      <4>2. Previous' = Previous
        <5>1. CASE completed = <<>>
          BY <4>1, <5>1 DEF Previous
        <5>2. CASE completed # <<>>
          <6>1. Last(completed) \in Jobs /\ Last(completed') = Last(completed)
            BY <2>3, <4>1, <5>2, PreviousFacts
          <6> QED BY <2>6, <4>1, <5>2, <6>1 DEF Previous
        <5> QED BY <5>1, <5>2
      <4>3. \A p \in Previous : Lists(m, p)'
        BY <2>2, <2>3, <3>1, <3>3, PreviousFacts DEF JobsInv, IndexSound
      <4>4. \A n \in Jobs : job'[n].status \in Active => n = m
        BY <2>2, <2>4, <3>2 DEF Jobs
      <4>5. job'[m].status \in Active
        BY <2>4, <3>9 DEF Active
      <4>6. \A p \in Paths : ~ReachedByActive(p)' => ~Reached(m, p)'
        BY <2>2, <2>5, <4>5 DEF ReachedByActive
      <4>7. \A p \in Paths : ~Reached(m, p)' =>
              IF completed' = <<>> THEN symbols'[p] = {} ELSE Shows(Last(completed), p)'
        <5>1. CASE completed = <<>>
          <6> HIDE DEF InBatch
          <6> QED BY <2>14, <3>8, <4>1, <5>1
        <5>2. CASE completed # <<>>
          <6>1. PICK l \in Jobs : l = Last(completed)
            BY <2>3, <5>2, PreviousFacts
          <6>2. \A p \in Paths : ~Reached(m, p)' => Shows(l, p)'
            <7> HIDE DEF InBatch
            <7> QED BY <3>6, <3>8, <5>2, <6>1
          <6>3. Last(completed') = l
            BY <4>1, <6>1
          <6> QED BY <4>1, <5>2, <6>2, <6>3 DEF Shows
        <5> QED BY <5>1, <5>2
      <4> QED BY <2>5, <3>7, <4>2, <4>3, <4>4, <4>6, <4>7
    <3>10. CASE row.status = "succeeded"
      <4>1. row.next = Len(row.files)
        BY <2>2, <3>10
      <4>2. \A n \in Jobs : job'[n].status \notin Active
        BY <2>2, <2>4, <3>2, <3>10 DEF Jobs, Active
      <4>3. completed' # <<>> /\ Last(completed') = m
        <5>1. completed \in Seq(Jobs) /\ completed' = Append(completed, m)
          BY <2>1, <2>3, <3>10 DEF TypeOK
        <5>2. /\ Append(completed, m) \in Seq(Jobs) /\ Len(Append(completed, m)) = Len(completed) + 1
              /\ Append(completed, m)[Len(completed) + 1] = m
          BY <2>2, <5>1, AppendProperties
        <5>3. Len(completed) \in Nat /\ Len(completed') # 0
          BY <5>1, <5>2, LenProperties
        <5> QED BY <5>1, <5>2, <5>3, EmptySeq DEF Last
      <4>4. \A p \in Paths : Reached(m, p)' <=> Lists(m, p)
        BY <2>2, <2>4, <4>1 DEF Reached, Lists
      <4>5. \A p \in Paths : ~Reached(m, p)' => Shows(m, p)'
        <5> SUFFICES ASSUME NEW p \in Paths, ~Reached(m, p)'
                     PROVE  Shows(m, p)'
          OBVIOUS
        <5>1. ~Lists(m, p)
          BY <4>4
        <5>2. m[p] = NoFile
          BY <2>2, <5>1 DEF JobsInv, FilesSound, Lists
        <5>3. p \notin Previous
          BY <2>2, <3>1, <5>1 DEF JobsInv, IndexSound
        <5>4. symbols[p] = {}
          <6>1. CASE completed = <<>>
            BY <3>8, <6>1
          <6>2. CASE completed # <<>>
            <7>1. PICK l \in Jobs : l = Last(completed)
              BY <2>3, <6>2, PreviousFacts
            <7>2. ~Lists(l, p)
              BY <2>3, <5>3, <6>2, <7>1, PreviousFacts
            <7>3. l[p] = NoFile
              BY <7>2 DEF JobsInv, FilesSound, Lists
            <7>4. Shows(l, p)
              BY <3>8, <6>2, <7>1
            <7> QED BY <7>3, <7>4 DEF Shows
          <6> QED BY <6>1, <6>2
        <5>5. symbols'[p] = {}
          <6> HIDE DEF InBatch
          <6> QED BY <2>14, <3>8, <5>4
        <5> QED BY <5>2, <5>5 DEF Shows
      <4>6. \A p \in Paths : Shows(m, p)'
        BY <3>7, <4>5
      <4>7. \A p \in Paths : Shows(Last(completed), p)'
        BY <4>3, <4>6 DEF Shows
      <4> QED BY <2>5, <4>2, <4>3, <4>7
    <3> QED BY <2>2, <3>9, <3>10
  <2> QED BY <2>7, <2>8, <2>10, <2>11, <2>15, <2>16 DEF JobsInv
<1> QED BY <1>2, <1>3 DEF CommitBatch

------------------------------------------------------------------------------
(* Theorems of ingestion *)

LEMMA JobsInit ==
  ASSUME Init
  PROVE  JobsInv
<1>1. Jobs = {}
  BY DEF Init, Jobs
<1>2. TypeOK
  <2>1. lease \in [fence : 1..MaxFence, live : BOOLEAN] /\ edits \in 0..MaxEdits
    BY IngestionAssumption DEF Init
  <2>2. completed \in Seq(Jobs)
    BY <1>1 DEF Init
  <2> QED BY <1>1, <2>1, <2>2, AssumptionFacts DEF TypeOK, Init
<1>3. CheckpointsSound
  BY <1>1 DEF CheckpointsSound, Init
<1>4. FilesSound /\ BatchesSound /\ OneActive
  BY <1>1 DEF FilesSound, BatchesSound, OneActive, Init
<1>5. IndexSound
  BY <1>1 DEF IndexSound, Init
<1> QED BY <1>2, <1>3, <1>4, <1>5 DEF JobsInv

LEMMA ProcessStep ==
  ASSUME JobsInv, NEW w \in Workers, Process(w)
  PROVE  JobsInv' /\ JobsForward
BY TakeStep, ReadStep, CommitStep, FinalizeStep DEF Process

LEMMA JobsUnchanged ==
  ASSUME JobsInv, UNCHANGED vars
  PROVE  JobsInv' /\ JobsForward
<1>1. UNCHANGED jobVars /\ Jobs' = Jobs
  BY DEF vars, jobVars, Jobs
<1>2. TypeOK'
  BY <1>1 DEF JobsInv, TypeOK, vars, jobVars
<1>3. BatchesSound'
  BY <1>1 DEF JobsInv, BatchesSound, BatchSound, RowOf, vars, jobVars
<1> QED BY <1>1, <1>2, <1>3, JobsSame DEF JobsInv

LEMMA IngestionStep ==
  ASSUME JobsInv, [Next]_vars
  PROVE  JobsInv' /\ JobsForward
<1>1. CASE \E c \in Clients, k \in Keys, r \in Requests : Discover(c, k, r)
  BY <1>1, DiscoverStep
<1>2. CASE \E c \in Clients : Visit(c) \/ Submit(c)
  BY <1>2, VisitStep, SubmitStep
<1>3. CASE \E w \in Workers : Process(w) \/ Abandon(w)
  BY <1>3, ProcessStep, AbandonStep
<1>4. CASE \E m \in Trees : Cancel(m)
  BY <1>4, CancelStep
<1>5. CASE (\E p \in Paths, content \in Contents \cup {NoFile} : Edit(p, content)) \/ LoseLease \/ GrantLease
  BY <1>5, EnvironmentStep
<1>6. CASE UNCHANGED vars
  BY <1>6, JobsUnchanged
<1> QED BY <1>1, <1>2, <1>3, <1>4, <1>5, <1>6 DEF Next

LEMMA IndexFromInv ==
  ASSUME JobsInv
  PROVE  IndexFollowsJobs
<1>1. BatchesInOrder
  <2> SUFFICES ASSUME NEW m \in Jobs
               PROVE  /\ writes[m] = [i \in 1..job[m].next |-> i]
                      /\ job[m].processed = Cardinality({i \in 1..job[m].next : ~job[m].files[i].removed})
                      /\ job[m].removed = Cardinality({i \in 1..job[m].next : job[m].files[i].removed})
                      /\ job[m].status = "succeeded" => job[m].next = Len(job[m].files)
    BY DEF JobsInv, BatchesInOrder
  <2>1. CheckpointSound(job[m], writes[m])
    BY DEF JobsInv, CheckpointsSound
  <2> QED BY <2>1 DEF CheckpointSound, Indexed, Removals
<1>2. IndexOfLastJob
  <2> SUFFICES ASSUME completed # <<>>, \A j \in Jobs : job[j].status = "succeeded" /\ job[j].files # <<>>,
                      NEW p \in Paths
               PROVE  Shows(Last(completed), p)
    BY DEF IndexOfLastJob, Shows
  <2>1. Clean
    BY DEF Clean
  <2>2. ~ReachedByActive(p)
    BY DEF ReachedByActive, Active
  <2> QED BY <2>1, <2>2 DEF JobsInv, IndexSound
<1> QED BY <1>1, <1>2 DEF IndexFollowsJobs

\* The inductive invariant of ingestion: checkpoints, batches in flight and the index
\* belong to the same manifests.
THEOREM JobsInvariance == Spec => []JobsInv
<1>1. Init => JobsInv
  BY JobsInit
<1>2. JobsInv /\ [Next]_vars => JobsInv'
  BY IngestionStep
<1> QED BY <1>1, <1>2, PTL DEF Spec

\* However often batches are read, lost and committed again, the ordinals of a job
\* commit once and in order, and the index ends as the last job's.
THEOREM IndexCorrect == Spec => []IndexFollowsJobs
<1>1. JobsInv => IndexFollowsJobs
  BY IndexFromInv
<1> QED BY <1>1, JobsInvariance, PTL

\* A job keeps what was submitted, and its checkpoint moves only under its lease.
THEOREM JobsOnlyAdvance == Spec => JobsAdvance
<1> DEFINE Step ==
      \A m \in Jobs :
        LET row == job[m]
            new == job'[m]
        IN /\ new # None
           /\ <<new.key, new.request, new.files>> = <<row.key, row.request, row.files>>
           /\ new.next >= row.next
           /\ new.next > row.next => row.status \in Active /\ Admits(row.request)
           /\ row.files # <<>> /\ row.status \notin Active => new = row
<1>1. JobsInv /\ [Next]_vars => [Step]_vars
  BY IngestionStep DEF JobsForward
<1> QED BY <1>1, JobsInvariance, PTL DEF Spec, JobsAdvance

------------------------------------------------------------------------------
(* Lemmas about validation *)

LEMMA RunFacts ==
  ASSUME RunsInv
  PROVE  /\ \A r \in Started : run[r] \in RunRow /\ run[r].request \in ValidationRequests /\ HandoffRequest(r) \in Requests
         /\ \A r \in HandedOff : handoff[r] \in HandoffRow
         /\ Runs \subseteq Keys
         /\ None \notin RunRow /\ None \notin HandoffRow
<1>1. \A r \in Started : run[r] \in RunRow /\ run[r].request \in ValidationRequests
  BY DEF RunsInv, HandoffFollowsRun, ValidationTypeOK, Started, RunRow
<1>2. ASSUME NEW r \in Started
      PROVE  HandoffRequest(r) \in Requests
  <2>1. run[r].request \in ValidRequest /\ r \in Runs
    BY <1>1, ValidationAssumption DEF Started
  <2>2. run[r].request.fence \in 0..MaxFence /\ 0 \in 0..MaxFence
    BY <2>1, AssumptionFacts DEF ValidRequest
  <2> QED BY <2>1, <2>2, ValidationAssumption DEF HandoffRequest
<1> QED BY <1>1, <1>2, ValidationAssumption, NoRunAssumption DEF RunsInv, HandoffFollowsRun, ValidationTypeOK, HandedOff

\* Jobs, requests and handoffs stay, and with them what callers rely on.
LEMMA CallerKept ==
  ASSUME JobsForward,
         \A r \in Started : r \in Started' /\ run'[r].request = run[r].request,
         HandedOff \subseteq HandedOff', HandedOff \subseteq Started
  PROVE  /\ \A call \in Call \cup MarkCall \cup {Idle} : CallerSound(call) => CallerSound(call)'
         /\ \A r \in Started : \A m : OwnJob(r, m) => OwnJob(r, m)'
<1>1. \A r \in Started : HandoffRequest(r)' = HandoffRequest(r)
  BY DEF HandoffRequest
<1>2. ASSUME NEW r \in Started, NEW m, OwnJob(r, m)
      PROVE  OwnJob(r, m)'
  <2>1. m \in Jobs' /\ job'[m].key = job[m].key /\ job'[m].request = job[m].request
    BY <1>2 DEF JobsForward, OwnJob, Jobs
  <2> QED BY <1>1, <1>2, <2>1 DEF OwnJob
<1>3. ASSUME NEW call \in Call \cup MarkCall \cup {Idle}, CallerSound(call)
      PROVE  CallerSound(call)'
  BY <1>2, <1>3 DEF CallerSound
<1> QED BY <1>2, <1>3

\* A step that leaves runs and handoffs alone moves at most one caller.
LEMMA CallerMoves ==
  ASSUME RunsInv, JobsForward, CausesSound', UNCHANGED <<run, handoff>>,
         caller' \in [Callers -> Call \cup MarkCall \cup {Idle}],
         \A c \in Callers : caller'[c] = caller[c] \/ CallerSound(caller[c])'
  PROVE  RunsInv'
<1>1. Started' = Started /\ HandedOff' = HandedOff
  BY DEF Started, HandedOff
<1>2. CallersSound'
  <2>1. \A c \in Callers : caller[c] \in Call \cup MarkCall \cup {Idle} /\ CallerSound(caller[c])
    BY DEF RunsInv, HandoffFollowsRun, ValidationTypeOK, CallersSound
  <2>2. \A c \in Callers : CallerSound(caller[c])'
    <3> SUFFICES ASSUME NEW c \in Callers PROVE CallerSound(caller[c])'
      OBVIOUS
    <3>1. \A call \in Call \cup MarkCall \cup {Idle} : CallerSound(call) => CallerSound(call)'
      BY <1>1, CallerKept DEF RunsInv
    <3>2. PICK call \in Call \cup MarkCall \cup {Idle} : call = caller'[c]
      OBVIOUS
    <3>3. CallerSound(call)'
      BY <2>1, <3>1, <3>2
    <3> QED BY <3>2, <3>3 DEF CallerSound
  <2> QED BY <2>2 DEF CallersSound
<1>3. HandoffFollowsRun'
  <2>1. ValidationTypeOK'
    BY DEF RunsInv, HandoffFollowsRun, ValidationTypeOK
  <2>2. \A r \in HandedOff' : handoff'[r].status = "submitted" =>
          handoff'[r].job = handoff'[r].manifest /\ OwnJob(r, handoff[r].job)'
    <3> SUFFICES ASSUME NEW r \in HandedOff, handoff[r].status = "submitted"
                 PROVE  handoff'[r].job = handoff'[r].manifest /\ OwnJob(r, handoff[r].job)'
      BY <1>1
    <3>1. PICK m : m = handoff[r].job
      OBVIOUS
    <3>2. r \in Started /\ m = handoff[r].manifest /\ OwnJob(r, m)
      BY <3>1 DEF RunsInv, HandoffFollowsRun, OwnJob
    <3>3. OwnJob(r, m)'
      BY <1>1, <3>2, CallerKept DEF RunsInv
    <3> QED BY <3>1, <3>2, <3>3 DEF OwnJob
  <2>3. \A r \in Started' :
          /\ run'[r].status = "passed" /\ "tree" \in run'[r].request.checks => run'[r].observed = Expected
          /\ r \in HandedOff' <=> run'[r].status = "passed" /\ run'[r].request.handsOff
    BY <1>1 DEF RunsInv, HandoffFollowsRun
  <2> QED BY <2>1, <2>2, <2>3 DEF HandoffFollowsRun, OwnJob
<1> QED BY <1>1, <1>2, <1>3 DEF RunsInv

LEMMA CallTypes ==
  ASSUME RunsInv, NEW c \in Callers
  PROVE  /\ caller[c] \in Call \cup MarkCall \cup {Idle} /\ CallerSound(caller[c])
         /\ caller[c].pc \in {"observe", "walk", "commit", "discover", "submit"} =>
              /\ caller[c] \in Call /\ caller[c] # Idle
              /\ caller[c].run \in Started /\ caller[c].request = run[caller[c].run].request
         /\ caller[c].pc = "mark" => caller[c] \in MarkCall /\ caller[c] # Idle
<1>1. caller[c] \in Call \cup MarkCall \cup {Idle} /\ CallerSound(caller[c])
  BY DEF RunsInv, HandoffFollowsRun, ValidationTypeOK, CallersSound
<1>2. caller[c].pc \in {"observe", "walk", "commit", "discover", "submit"} => caller[c] \in Call /\ caller[c] # Idle
  BY <1>1 DEF Call, MarkCall, Idle
<1>3. caller[c].pc = "mark" => caller[c] \in MarkCall /\ caller[c] # Idle
  BY <1>1 DEF Call, MarkCall, Idle
<1> QED BY <1>1, <1>2, <1>3 DEF CallerSound

LEMMA CallingFacts ==
  ASSUME NEW r \in Runs, NEW request \in ValidationRequests, NEW pc \in {"observe", "discover"}
  PROVE  /\ Calling(r, request, pc) \in Call /\ Calling(r, request, pc) \notin MarkCall
         /\ Calling(r, request, pc).run = r /\ Calling(r, request, pc).request = request
         /\ Calling(r, request, pc).pc = pc
<1>1. 1 \in 1..NumPaths + 1 /\ NoTree \in Trees
  BY AssumptionFacts DEF NoTree, Trees
<1> QED BY <1>1 DEF Calling, Call, MarkCall

\* The caller c moves on with the jobs as they are.
LEMMA CallerMove ==
  ASSUME JobsInv, RunsInv, UNCHANGED <<vars, run, handoff>>, NEW c \in Callers,
         NEW call \in Call \cup MarkCall \cup {Idle}, CallerSound(call),
         caller' = [caller EXCEPT ![c] = call]
  PROVE  RunsInv'
<1>1. JobsForward /\ UNCHANGED jobVars /\ UNCHANGED <<run, handoff>>
  BY JobsUnchanged DEF vars, jobVars
<1>2. CausesSound'
  BY <1>1 DEF RunsInv, CausesSound, vars, jobVars, Jobs
<1>3. caller' \in [Callers -> Call \cup MarkCall \cup {Idle}]
  BY DEF RunsInv, HandoffFollowsRun, ValidationTypeOK
<1>4. CallerSound(call)'
  BY <1>1, CallerKept DEF RunsInv, Started, HandedOff
<1>5. \A d \in Callers : caller'[d] = caller[d] \/ CallerSound(caller[d])'
  <2> SUFFICES ASSUME NEW d \in Callers, d = c PROVE CallerSound(caller[d])'
    BY DEF RunsInv, HandoffFollowsRun, ValidationTypeOK
  <2>1. caller'[d] = call
    BY DEF RunsInv, HandoffFollowsRun, ValidationTypeOK
  <2> QED BY <1>4, <2>1 DEF CallerSound
<1> QED BY <1>1, <1>2, <1>3, <1>5, CallerMoves

LEMMA ObserveStep ==
  ASSUME JobsInv, RunsInv, NEW c \in Callers, Observe(c)
  PROVE  RunsInv'
<1>1. /\ caller[c] \in Call /\ caller[c] # Idle /\ caller[c].pc = "observe"
      /\ caller[c].run \in Started /\ caller[c].request = run[caller[c].run].request
  BY CallTypes DEF Observe
<1> DEFINE observed == [p \in PacketPaths |-> tree[p]]
           pc == IF "reindex" \in caller[c].request.checks THEN "walk" ELSE "commit"
           call == [caller[c] EXCEPT !.observed = observed, !.pc = pc]
<1>2. observed \in [PacketPaths -> Contents \cup {NoFile}] /\ pc \in {"walk", "commit"}
  BY ValidationAssumption DEF JobsInv, TypeOK, Trees
<1>3. caller' = [caller EXCEPT ![c] = call] /\ UNCHANGED <<vars, run, handoff>>
  BY DEF Observe
<1> HIDE DEF observed, pc
<1>4. call \in Call /\ call.run = caller[c].run /\ call.request = caller[c].request /\ call.pc = pc /\ call \notin MarkCall
  BY <1>1, <1>2 DEF Call, MarkCall
<1> HIDE DEF call
<1>5. CallerSound(call)
  BY <1>1, <1>2, <1>4 DEF CallerSound
<1> QED BY <1>3, <1>4, <1>5, CallerMove

LEMMA CannotLookStep ==
  ASSUME JobsInv, RunsInv, NEW c \in Callers, CannotLook(c)
  PROVE  RunsInv'
<1>0. UNCHANGED <<vars, run, handoff>>
  BY DEF CannotLook
<1>1. CASE caller[c].pc \in {"observe", "walk"} /\ caller' = [caller EXCEPT ![c].pc = "commit", ![c].observed = None]
  <2> DEFINE call == [caller[c] EXCEPT !.pc = "commit", !.observed = None]
  <2>1. /\ caller[c] \in Call /\ caller[c] # Idle
        /\ caller[c].run \in Started /\ caller[c].request = run[caller[c].run].request
    BY <1>1, CallTypes
  <2>2. caller' = [caller EXCEPT ![c] = call]
    BY <1>1
  <2>3. call \in Call /\ call.run = caller[c].run /\ call.request = caller[c].request /\ call.pc = "commit" /\ call \notin MarkCall
    BY <2>1 DEF Call, MarkCall
  <2> HIDE DEF call
  <2>4. CallerSound(call)
    BY <2>1, <2>3 DEF CallerSound
  <2> QED BY <1>0, <2>2, <2>3, <2>4, CallerMove
<1>2. CASE /\ caller[c].pc = "discover"
           /\ caller' = [caller EXCEPT ![c] = [pc |-> "mark", run |-> @.run, job |-> None]]
  <2> DEFINE call == [pc |-> "mark", run |-> caller[c].run, job |-> None]
  <2>1. /\ caller[c] \in Call /\ caller[c] # Idle /\ caller[c].run \in Started /\ caller[c].run \in HandedOff
    BY <1>2, CallTypes DEF CallerSound
  <2>2. caller' = [caller EXCEPT ![c] = call]
    BY <1>2
  <2>3. call \in MarkCall /\ call.run = caller[c].run /\ call.job = None /\ call \notin Call
    BY <2>1 DEF Call, MarkCall, Started
  <2> HIDE DEF call
  <2>4. CallerSound(call)
    BY <2>1, <2>3 DEF CallerSound
  <2> QED BY <1>0, <2>2, <2>3, <2>4, CallerMove
<1> QED BY <1>1, <1>2 DEF CannotLook

LEMMA WalkStep ==
  ASSUME JobsInv, RunsInv, NEW c \in Callers, Walk(c)
  PROVE  RunsInv'
<1>0. UNCHANGED <<vars, run, handoff>> /\ caller[c].pc \in {"walk", "discover"}
  BY DEF Walk
<1>1. /\ caller[c] \in Call /\ caller[c] # Idle
      /\ caller[c].run \in Started /\ caller[c].request = run[caller[c].run].request
      /\ caller[c].pc = "discover" => caller[c].run \in HandedOff
  BY <1>0, CallTypes DEF CallerSound
<1>2. CASE caller[c].at \in Paths /\ caller' = [caller EXCEPT ![c].at = @ + 1, ![c].seen[caller[c].at] = tree[caller[c].at]]
  <2> DEFINE at == caller[c].at + 1
             seen == [caller[c].seen EXCEPT ![caller[c].at] = tree[caller[c].at]]
             call == [caller[c] EXCEPT !.at = at, !.seen = seen]
  <2>1. at \in 1..NumPaths + 1
    BY <1>2, AssumptionFacts DEF Paths
  <2>2. seen \in Trees
    BY <1>1, <1>2 DEF Call, Trees, JobsInv, TypeOK
  <2>3. caller' = [caller EXCEPT ![c] = call]
    BY <1>1, <1>2 DEF Call
  <2> HIDE DEF at, seen
  <2>4. call \in Call /\ call.run = caller[c].run /\ call.request = caller[c].request /\ call.pc = caller[c].pc /\ call \notin MarkCall
    BY <1>1, <2>1, <2>2 DEF Call, MarkCall
  <2> HIDE DEF call
  <2>5. CallerSound(call)
    BY <1>0, <1>1, <2>4 DEF CallerSound
  <2> QED BY <1>0, <2>3, <2>4, <2>5, CallerMove
<1>3. CASE caller' = [caller EXCEPT ![c].pc = IF @ = "walk" THEN "commit" ELSE "submit"]
  <2> DEFINE pc == IF caller[c].pc = "walk" THEN "commit" ELSE "submit"
             call == [caller[c] EXCEPT !.pc = pc]
  <2>1. caller' = [caller EXCEPT ![c] = call]
    BY <1>3
  <2>2. pc \in {"commit", "submit"} /\ (pc = "submit" => caller[c].pc = "discover")
    BY <1>0
  <2> HIDE DEF pc
  <2>3. call \in Call /\ call.run = caller[c].run /\ call.request = caller[c].request /\ call.pc = pc /\ call \notin MarkCall
    BY <1>1, <2>2 DEF Call, MarkCall
  <2> HIDE DEF call
  <2>4. CallerSound(call)
    BY <1>1, <2>2, <2>3 DEF CallerSound
  <2> QED BY <1>0, <2>1, <2>3, <2>4, CallerMove
<1> QED BY <1>2, <1>3 DEF Walk

LEMMA ResubmitStep ==
  ASSUME JobsInv, RunsInv, NEW c \in Callers, NEW r \in Runs, Resubmit(c, r)
  PROVE  RunsInv'
<1>1. r \in HandedOff /\ r \in Started /\ run[r].request \in ValidationRequests
  BY RunFacts DEF Resubmit, RunsInv
<1> DEFINE call == Calling(r, run[r].request, "discover")
<1>2. caller' = [caller EXCEPT ![c] = call] /\ UNCHANGED <<vars, run, handoff>>
  BY DEF Resubmit
<1>3. call \in Call /\ call \notin MarkCall /\ call.run = r /\ call.request = run[r].request /\ call.pc = "discover"
  BY <1>1, CallingFacts
<1> HIDE DEF call
<1>4. CallerSound(call)
  BY <1>1, <1>3 DEF CallerSound
<1> QED BY <1>2, <1>3, <1>4, CallerMove

LEMMA HangupStep ==
  ASSUME JobsInv, RunsInv, NEW c \in Callers, Hangup(c)
  PROVE  RunsInv'
<1>1. CallerSound(Idle)
  BY DEF CallerSound
<1> QED BY <1>1, CallerMove DEF Hangup

------------------------------------------------------------------------------
(* Steps of runs and handoffs *)

\* What a run and its handoff, if it has one, tell together.
PairSound(r) ==
  /\ r \in HandedOff => r \in Started
  /\ r \in Started =>
       /\ run[r].status = "passed" /\ "tree" \in run[r].request.checks => run[r].observed = Expected
       /\ r \in HandedOff <=> run[r].status = "passed" /\ run[r].request.handsOff
  /\ r \in HandedOff => (handoff[r].status = "submitted" =>
       handoff[r].job = handoff[r].manifest /\ OwnJob(r, handoff[r].job))

LEMMA PairsSound ==
  HandoffFollowsRun /\ HandedOff \subseteq Started <=> ValidationTypeOK /\ \A r \in Runs : PairSound(r)
BY DEF HandoffFollowsRun, PairSound, OwnJob, Started, HandedOff

\* A step of one run, by one caller or none, with the jobs as they are.
LEMMA PairMove ==
  ASSUME JobsInv, RunsInv, UNCHANGED vars, NEW r \in Runs,
         NEW row \in RunRow \cup {None}, run' = [run EXCEPT ![r] = row],
         r \in Started => row # None /\ row.request = run[r].request,
         NEW pair \in HandoffRow \cup {None}, handoff' = [handoff EXCEPT ![r] = pair],
         r \in HandedOff => pair # None,
         PairSound(r)',
         caller' \in [Callers -> Call \cup MarkCall \cup {Idle}],
         \A c \in Callers : caller'[c] = caller[c] \/ CallerSound(caller[c])'
  PROVE  RunsInv'
<1>1. JobsForward
  BY JobsUnchanged
<1>2. CausesSound'
  BY DEF RunsInv, CausesSound, vars, jobVars, Jobs
<1>3. ValidationTypeOK
  BY DEF RunsInv, HandoffFollowsRun
<1>4. ValidationTypeOK'
  BY <1>3 DEF ValidationTypeOK
<1>5. /\ run'[r] = row /\ handoff'[r] = pair
      /\ \A q \in Runs : q # r => run'[q] = run[q] /\ handoff'[q] = handoff[q]
  BY <1>3 DEF ValidationTypeOK
<1>6. \A q \in Started : q \in Started' /\ run'[q].request = run[q].request
  BY <1>5 DEF Started
<1>7. HandedOff \subseteq HandedOff' /\ HandedOff \subseteq Started
  BY <1>5 DEF HandedOff, RunsInv
<1>8. /\ \A call \in Call \cup MarkCall \cup {Idle} : CallerSound(call) => CallerSound(call)'
      /\ \A q \in Started : \A m : OwnJob(q, m) => OwnJob(q, m)'
  BY <1>1, <1>6, <1>7, CallerKept
<1>9. CallersSound'
  <2> SUFFICES ASSUME NEW c \in Callers, caller'[c] = caller[c]
               PROVE  CallerSound(caller[c])'
    BY DEF CallersSound
  <2>1. PICK call \in Call \cup MarkCall \cup {Idle} : call = caller[c] /\ CallerSound(call)
    BY CallTypes
  <2>2. CallerSound(call)' /\ call = caller'[c]
    BY <1>8, <2>1
  <2> QED BY <2>2 DEF CallerSound
<1>10. ASSUME NEW q \in Runs, q # r
       PROVE  PairSound(q)'
  <2>1. (q \in Started' <=> q \in Started) /\ (q \in HandedOff' <=> q \in HandedOff)
    BY <1>5, <1>10 DEF Started, HandedOff
  <2>2. PairSound(q)
    BY PairsSound DEF RunsInv
  <2>3. ASSUME q \in HandedOff, handoff[q].status = "submitted"
        PROVE  handoff'[q].job = handoff'[q].manifest /\ OwnJob(q, handoff[q].job)'
    <3>1. PICK m : m = handoff[q].job
      OBVIOUS
    <3>2. q \in Started /\ m = handoff[q].manifest /\ OwnJob(q, m)
      BY <2>2, <2>3, <3>1 DEF PairSound
    <3>3. OwnJob(q, m)' /\ m = handoff'[q].job /\ m = handoff'[q].manifest
      BY <1>5, <1>8, <1>10, <3>1, <3>2
    <3> QED BY <3>3 DEF OwnJob
  <2>4. run'[q] = run[q] /\ handoff'[q] = handoff[q]
    BY <1>5, <1>10
  <2> QED BY <2>1, <2>2, <2>3, <2>4 DEF PairSound
<1>11. \A q \in Runs : PairSound(q)'
  BY <1>10
<1>12. (HandoffFollowsRun /\ HandedOff \subseteq Started)'
  <2>1. (ValidationTypeOK /\ \A q \in Runs : PairSound(q))'
    BY <1>4, <1>11
  <2> QED BY <2>1 DEF HandoffFollowsRun, PairSound, OwnJob, Started, HandedOff
<1> QED BY <1>2, <1>9, <1>12 DEF RunsInv

LEMMA StartStep ==
  ASSUME JobsInv, RunsInv, NEW c \in Callers, NEW r \in Runs, NEW request, Start(c, r, request),
         request \in ValidationRequests \/ r \in Started
  PROVE  RunsInv'
<1>1. ValidationTypeOK /\ \A q \in Runs : PairSound(q)
  BY PairsSound DEF RunsInv
<1> DEFINE call == Calling(r, request, "observe")
<1>2. caller' = [caller EXCEPT ![c] = call] /\ UNCHANGED <<vars, handoff>> /\ run'[r].request = request
  BY DEF Start
<1>3. CASE r \in Started
  <2>1. run' = run
    BY <1>3 DEF Start
  <2>2. request \in ValidationRequests /\ request = run[r].request
    BY <1>2, <1>3, <2>1, RunFacts
  <2>3. call \in Call /\ call \notin MarkCall /\ call.run = r /\ call.request = request /\ call.pc = "observe"
    BY <2>2, CallingFacts
  <2> HIDE DEF call
  <2>4. CallerSound(call)
    BY <1>3, <2>2, <2>3 DEF CallerSound
  <2> QED BY <1>2, <2>1, <2>3, <2>4, CallerMove
<1>4. CASE r \notin Started
  <2> DEFINE row == [request |-> request, status |-> "pending", observed |-> None]
  <2>1. run' = [run EXCEPT ![r] = row]
    BY <1>4 DEF Start
  <2>2. row \in RunRow /\ row.request = request /\ row.status = "pending"
    BY <1>4 DEF RunRow
  <2> HIDE DEF row
  <2>3. call \in Call /\ call \notin MarkCall /\ call.run = r /\ call.request = request /\ call.pc = "observe"
    BY <1>4, CallingFacts
  <2> HIDE DEF call
  <2>4. row # None /\ run'[r] = row
    BY <1>1, <2>1, <2>2, RunFacts DEF ValidationTypeOK
  <2>5. r \notin HandedOff /\ handoff[r] = None
    BY <1>1, <1>4 DEF PairSound, HandedOff
  <2>6. handoff' = [handoff EXCEPT ![r] = None]
    BY <1>1, <1>2, <2>5 DEF ValidationTypeOK
  <2>7. PairSound(r)'
    <3>1. handoff'[r] = None
      BY <1>2, <2>5
    <3> QED BY <2>2, <2>4, <3>1 DEF PairSound, Started, HandedOff
  <2>8. CallerSound(call)'
    BY <2>2, <2>3, <2>4 DEF CallerSound, Started
  <2>9. \A d \in Callers : caller'[d] = caller[d] \/ CallerSound(caller[d])'
    <3> SUFFICES ASSUME NEW d \in Callers, d = c PROVE CallerSound(caller[d])'
      BY <1>1, <1>2 DEF ValidationTypeOK
    <3>1. caller'[d] = call
      BY <1>1, <1>2 DEF ValidationTypeOK
    <3> QED BY <2>8, <3>1 DEF CallerSound
  <2>10. caller' \in [Callers -> Call \cup MarkCall \cup {Idle}]
    BY <1>1, <1>2, <2>3 DEF ValidationTypeOK
  <2> QED BY <1>2, <1>4, <2>1, <2>2, <2>5, <2>6, <2>7, <2>9, <2>10, PairMove
<1> QED BY <1>3, <1>4

LEMMA CancelRunStep ==
  ASSUME JobsInv, RunsInv, NEW r \in Runs, CancelRun(r)
  PROVE  RunsInv'
<1>1. ValidationTypeOK /\ PairSound(r)
  BY PairsSound DEF RunsInv
<1>2. r \in Started /\ run[r] \in RunRow /\ run[r].status = "pending"
  BY RunFacts DEF CancelRun
<1> DEFINE row == [run[r] EXCEPT !.status = "cancelled"]
<1>3. run' = [run EXCEPT ![r] = row] /\ UNCHANGED <<vars, handoff, caller>>
  BY DEF CancelRun
<1>4. row \in RunRow /\ row.status = "cancelled" /\ row.request = run[r].request
  BY <1>2 DEF RunRow, Terminal
<1> HIDE DEF row
<1>5. row # None /\ run'[r] = row
  BY <1>1, <1>3, <1>4, RunFacts DEF ValidationTypeOK
<1>6. r \notin HandedOff /\ handoff[r] = None
  BY <1>1, <1>2 DEF PairSound, HandedOff
<1>7. handoff' = [handoff EXCEPT ![r] = None]
  BY <1>1, <1>3, <1>6 DEF ValidationTypeOK
<1>8. PairSound(r)'
  <2>1. handoff'[r] = None
    BY <1>3, <1>6
  <2> QED BY <1>4, <1>5, <2>1 DEF PairSound, HandedOff
<1>9. caller' \in [Callers -> Call \cup MarkCall \cup {Idle}] /\ \A c \in Callers : caller'[c] = caller[c]
  BY <1>1, <1>3 DEF ValidationTypeOK
<1> QED BY <1>3, <1>4, <1>5, <1>6, <1>7, <1>8, <1>9, PairMove

LEMMA CommitRunStep ==
  ASSUME JobsInv, RunsInv, NEW c \in Callers, Commit(c)
  PROVE  RunsInv'
<1>1. ValidationTypeOK /\ \A q \in Runs : PairSound(q)
  BY PairsSound DEF RunsInv
<1>2. /\ caller[c] \in Call /\ caller[c].run \in Started
      /\ caller[c].request = run[caller[c].run].request
  BY CallTypes DEF Commit
<1>3. PICK r \in Started : r = caller[c].run
  BY <1>2
<1>4. r \in Runs /\ run[r] \in RunRow /\ run[r].request \in ValidationRequests /\ caller[c].request = run[r].request
  BY <1>2, <1>3, RunFacts DEF Started
<1>5. UNCHANGED vars
  BY DEF Commit
<1> DEFINE next == Calling(r, run[r].request, "discover")
<1>6. next \in Call /\ next \notin MarkCall /\ next.run = r /\ next.request = run[r].request /\ next.pc = "discover"
  BY <1>4, CallingFacts
<1>7. \A row : Proceed(c, r, row) => caller' = [caller EXCEPT ![c] = IF row = None THEN Idle ELSE next]
  BY <1>3, <1>4 DEF Proceed
<1> HIDE DEF next
<1>8. CASE run[r].status \in Terminal
  <2>1. UNCHANGED <<run, handoff>> /\ Proceed(c, r, handoff[r])
    BY <1>3, <1>8 DEF Commit
  <2>2. PICK call \in {Idle, next} : call = (IF handoff[r] = None THEN Idle ELSE next)
    OBVIOUS
  <2>3. caller' = [caller EXCEPT ![c] = call]
    BY <1>7, <2>1, <2>2
  <2>4. CallerSound(call)
    BY <1>4, <1>6, <2>2 DEF CallerSound, HandedOff
  <2> QED BY <1>5, <1>6, <2>1, <2>3, <2>4, CallerMove
<1>9. CASE /\ run[r].status \notin Terminal
           /\ StillHeld(run[r].request) /\ (Verdict(caller[c]) = "passed" => ReceiptAdmitted(run[r].request))
  <2> DEFINE row == Concluded(run[r], caller[c])
             passed == Verdict(caller[c]) = "passed" /\ run[r].request.handsOff
             pair == IF passed THEN NewHandoff(caller[c]) ELSE None
  <2>1. /\ run' = [run EXCEPT ![r] = row]
        /\ handoff' = IF passed THEN [handoff EXCEPT ![r] = NewHandoff(caller[c])] ELSE handoff
        /\ Proceed(c, r, handoff'[r])
    BY <1>3, <1>9 DEF Commit
  <2>2. run[r].status = "pending" /\ r \notin HandedOff /\ handoff[r] = None
    <3>1. run[r].status = "pending"
      BY <1>4, <1>9 DEF RunRow
    <3>2. PairSound(r)
      BY <1>1, <1>4
    <3> QED BY <1>4, <3>1, <3>2 DEF PairSound, HandedOff
  <2>3. handoff' = [handoff EXCEPT ![r] = pair]
    BY <1>1, <2>1, <2>2 DEF ValidationTypeOK
  <2>4. Verdict(caller[c]) \in {"passed", "failed"} /\ (Verdict(caller[c]) = "passed" => TreePasses(caller[c]))
    BY DEF Verdict
  <2>5. /\ row \in RunRow /\ row.status = Verdict(caller[c]) /\ row.request = run[r].request
        /\ row.observed = caller[c].observed
    BY <1>2, <1>4, <2>4 DEF Concluded, RunRow, Terminal, Call
  <2>6. NewHandoff(caller[c]) \in HandoffRow /\ NewHandoff(caller[c]).status = "pending"
    BY <1>2 DEF NewHandoff, HandoffRow, Call
  <2> HIDE DEF row
  <2>7. row # None /\ run'[r] = row /\ r \in Started'
    BY <1>1, <1>4, <2>1, <2>5, RunFacts DEF ValidationTypeOK, Started
  <2>8. handoff'[r] = pair /\ (pair # None <=> passed) /\ (r \in HandedOff' <=> passed)
    <3>1. handoff'[r] = pair
      BY <1>1, <1>4, <2>3 DEF ValidationTypeOK
    <3>2. pair # None <=> passed
      BY <2>6, RunFacts
    <3> QED BY <1>4, <3>1, <3>2 DEF HandedOff
  <2>9. PairSound(r)'
    <3>1. row.status = "passed" /\ "tree" \in row.request.checks => row.observed = Expected
      BY <1>4, <2>4, <2>5 DEF TreePasses
    <3>2. passed <=> row.status = "passed" /\ row.request.handsOff
      BY <2>5
    <3>3. passed => handoff'[r].status = "pending"
      BY <2>6, <2>8
    <3> HIDE DEF passed, pair
    <3> QED BY <2>7, <2>8, <3>1, <3>2, <3>3 DEF PairSound
  <2>10. PICK call \in {Idle, next} : call = (IF handoff'[r] = None THEN Idle ELSE next)
    OBVIOUS
  <2>11. caller' = [caller EXCEPT ![c] = call]
    BY <1>7, <2>1, <2>10
  <2>12. CallerSound(call)'
    BY <1>4, <1>6, <2>5, <2>7, <2>10 DEF CallerSound, HandedOff
  <2>13. \A d \in Callers : caller'[d] = caller[d] \/ CallerSound(caller[d])'
    <3> SUFFICES ASSUME NEW d \in Callers, d = c PROVE CallerSound(caller[d])'
      BY <1>1, <2>11 DEF ValidationTypeOK
    <3>1. caller'[d] = call
      BY <1>1, <2>11 DEF ValidationTypeOK
    <3> QED BY <2>12, <3>1 DEF CallerSound
  <2>14. caller' \in [Callers -> Call \cup MarkCall \cup {Idle}]
    BY <1>1, <1>6, <2>11 DEF ValidationTypeOK
  <2>15. pair \in HandoffRow \cup {None}
    BY <2>6
  <2> HIDE DEF pair, passed
  <2> QED BY <1>4, <1>5, <2>1, <2>2, <2>3, <2>5, <2>7, <2>9, <2>13, <2>14, <2>15, PairMove
<1>10. CASE UNCHANGED <<run, handoff>> /\ caller' = [caller EXCEPT ![c] = Idle]
  <2>1. CallerSound(Idle)
    BY DEF CallerSound
  <2> QED BY <1>5, <1>10, <2>1, CallerMove
<1> QED BY <1>3, <1>8, <1>9, <1>10 DEF Commit

LEMMA MarkStep ==
  ASSUME JobsInv, RunsInv, NEW c \in Callers, Mark(c)
  PROVE  RunsInv'
<1>1. ValidationTypeOK /\ \A q \in Runs : PairSound(q)
  BY PairsSound DEF RunsInv
<1>2. caller[c] \in MarkCall /\ caller[c] # Idle /\ CallerSound(caller[c]) /\ caller[c].pc = "mark"
  BY CallTypes DEF Mark
<1>3. PICK r \in HandedOff, m \in Trees \cup {None} :
        r = caller[c].run /\ m = caller[c].job /\ r \in Started /\ (m # None => OwnJob(r, m))
  BY <1>2 DEF CallerSound, MarkCall
<1>4. r \in Runs /\ run[r] \in RunRow /\ handoff[r] \in HandoffRow /\ handoff[r] # None /\ run[r] # None
  BY <1>3, RunFacts DEF Started, HandedOff
<1>5. UNCHANGED <<vars, run>> /\ caller' = [caller EXCEPT ![c] = Idle]
  BY DEF Mark
<1> DEFINE pair == IF StillHeld(run[r].request) THEN Marked(handoff[r], m) ELSE handoff[r]
<1>6. handoff' = [handoff EXCEPT ![r] = pair]
  BY <1>1, <1>3 DEF Mark, ValidationTypeOK
<1>7. pair \in HandoffRow /\ (pair.status = "submitted" => \/ pair = handoff[r]
                                                           \/ m # None /\ pair.job = m /\ pair.manifest = m)
  <2> DEFINE failed == [handoff[r] EXCEPT !.status = "failed"]
             submitted == [handoff[r] EXCEPT !.status = "submitted", !.job = m, !.manifest = m]
  <2>1. pair = handoff[r] \/ pair = failed \/ (m # None /\ pair = submitted)
    BY DEF Marked
  <2>2. failed \in HandoffRow /\ failed.status = "failed"
    BY <1>4 DEF HandoffRow
  <2>3. m # None => submitted \in HandoffRow /\ submitted.job = m /\ submitted.manifest = m
    BY <1>4 DEF HandoffRow
  <2> HIDE DEF pair, failed, submitted
  <2> QED BY <1>4, <2>1, <2>2, <2>3
<1> HIDE DEF pair
<1>8. handoff'[r] = pair /\ pair # None /\ r \in HandedOff' /\ r \in Started'
  BY <1>1, <1>3, <1>4, <1>5, <1>6, <1>7, RunFacts DEF ValidationTypeOK, HandedOff, Started
<1>9. \A n : OwnJob(r, n) => OwnJob(r, n)'
  <2>1. HandoffRequest(r)' = HandoffRequest(r)
    BY <1>5 DEF HandoffRequest
  <2> QED BY <1>5, <2>1 DEF OwnJob, Jobs, vars, jobVars
<1>10. PairSound(r)'
  <2>1. PairSound(r)
    BY <1>1, <1>4
  <2>2. pair.status = "submitted" => pair.job = pair.manifest /\ OwnJob(r, handoff[r].job)'
    <3> SUFFICES ASSUME pair.status = "submitted"
                 PROVE  pair.job = pair.manifest /\ OwnJob(r, handoff[r].job)'
      OBVIOUS
    <3>1. PICK n : n = pair.job
      OBVIOUS
    <3>2. n = pair.manifest /\ OwnJob(r, n)
      BY <1>3, <1>7, <2>1, <3>1 DEF PairSound
    <3>3. OwnJob(r, n)' /\ n = handoff'[r].job
      BY <1>8, <1>9, <3>1, <3>2
    <3> QED BY <3>1, <3>2, <3>3 DEF OwnJob
  <2>3. run' = run /\ r \in HandedOff
    BY <1>3, <1>5
  <2> QED BY <1>3, <1>8, <2>1, <2>2, <2>3 DEF PairSound
<1>11. caller' \in [Callers -> Call \cup MarkCall \cup {Idle}]
  BY <1>1, <1>5 DEF ValidationTypeOK
<1>12. \A d \in Callers : caller'[d] = caller[d] \/ CallerSound(caller[d])'
  <2> SUFFICES ASSUME NEW d \in Callers, d = c PROVE CallerSound(caller[d])'
    BY <1>1, <1>5 DEF ValidationTypeOK
  <2>1. caller'[d] = Idle
    BY <1>1, <1>5 DEF ValidationTypeOK
  <2> QED BY <2>1 DEF CallerSound
<1>13. run' = [run EXCEPT ![r] = run[r]]
  BY <1>1, <1>5 DEF ValidationTypeOK
<1> QED BY <1>4, <1>5, <1>6, <1>7, <1>8, <1>10, <1>11, <1>12, <1>13, PairMove

\* The answer to the submission of a handoff is the job of the handoff.
LEMMA AnswerIsOwn ==
  ASSUME JobsInv, RunsInv, NEW r \in Started, NEW m \in Trees, UNCHANGED <<run, handoff>>,
         SubmitJob(r, HandoffRequest(r), m), JobsForward,
         NEW a, a = Answer(r, HandoffRequest(r), m)
  PROVE  a \in Trees \cup {None} /\ (a # None => OwnJob(r, a)')
<1> DEFINE named == {j \in Jobs : job[j].key = r}
<1>1. r \in Keys /\ r \in Runs /\ HandoffRequest(r) \in Requests /\ HandoffRequest(r).cause = r
  BY RunFacts DEF Started, HandoffRequest
<1>2. PICK j : j = Known(r, m)
  OBVIOUS
<1>3. j = None \/ (j \in Jobs /\ (job[j].key = r \/ j = m))
  <2>1. CASE named # {}
    <3>1. j \in named
      BY <1>2, <2>1 DEF Known
    <3> QED BY <3>1
  <2>2. CASE named = {}
    BY <1>2, <2>2 DEF Known
  <2> QED BY <2>1, <2>2
<1>4. CASE j # None
  <2>1. a = None \/ (a = j /\ job[j].request = HandoffRequest(r))
    BY <1>2, <1>4 DEF Answer
  <2>2. ASSUME a = j, job[j].request = HandoffRequest(r)
        PROVE  OwnJob(r, a)
    <3>1. j \in Jobs /\ (job[j].key = r \/ j = m)
      BY <1>3, <1>4
    <3>2. job[j].key = r
      BY <1>1, <2>2, <3>1 DEF RunsInv, CausesSound
    <3> QED BY <2>2, <3>1, <3>2 DEF OwnJob
  <2>3. \A n : OwnJob(r, n) => OwnJob(r, n)'
    BY CallerKept DEF RunsInv, Started, HandedOff
  <2>4. a # None => a \in Trees /\ OwnJob(r, a)'
    BY <2>1, <2>2, <2>3 DEF OwnJob, Jobs
  <2> QED BY <2>4
<1>5. CASE j = None
  <2>1. a = None \/ (a = m /\ Admits(HandoffRequest(r)) /\ NoneActive)
    BY <1>2, <1>5 DEF Answer
  <2>2. ASSUME a = m
        PROVE  OwnJob(r, a)'
    <3> DEFINE row == NewJob(r, HandoffRequest(r), m)
    <3>1. job' = [job EXCEPT ![m] = row]
      BY <1>2, <1>5, <2>2 DEF SubmitJob
    <3>2. row.key = r /\ row.request = HandoffRequest(r)
      BY DEF NewJob
    <3>3. row \in JobRow
      BY <1>1, ManifestFacts DEF NewJob, JobRow, Active, JobsInv
    <3> HIDE DEF row
    <3>4. job'[m] = row /\ row # None
      BY <3>1, <3>3, AssumptionFacts DEF JobsInv, TypeOK
    <3>5. HandoffRequest(r)' = HandoffRequest(r)
      BY DEF HandoffRequest
    <3> QED BY <2>2, <3>2, <3>4, <3>5 DEF OwnJob, Jobs
  <2> QED BY <2>1, <2>2
<1> QED BY <1>4, <1>5

LEMMA SubmitHandoffStep ==
  ASSUME JobsInv, RunsInv, NEW c \in Callers, SubmitHandoff(c)
  PROVE  JobsInv' /\ JobsForward /\ RunsInv'
<1>1. ValidationTypeOK
  BY DEF RunsInv, HandoffFollowsRun
<1>2. /\ caller[c] \in Call /\ caller[c].run \in Started /\ caller[c].run \in HandedOff
      /\ caller[c].seen \in Trees
  BY CallTypes DEF SubmitHandoff, CallerSound, Call
<1>3. PICK r \in Started, m \in Trees : r = caller[c].run /\ m = caller[c].seen
  BY <1>2
<1>4. PICK a : a = Answer(r, HandoffRequest(r), m)
  OBVIOUS
<1> DEFINE call == [pc |-> "mark", run |-> r, job |-> a]
<1>5. /\ SubmitJob(r, HandoffRequest(r), m)
      /\ caller' = [caller EXCEPT ![c] = call]
      /\ UNCHANGED <<tree, client, worker, lease, edits, run, handoff>>
  BY <1>3, <1>4 DEF SubmitHandoff
<1>6. r \in Keys /\ r \in Runs /\ HandoffRequest(r) \in Requests /\ HandoffRequest(r).cause = r
  BY RunFacts DEF Started, HandoffRequest
<1>7. client' \in [Clients -> Submission \cup {Idle}]
  BY <1>5 DEF JobsInv, TypeOK
<1>8. JobsInv' /\ JobsForward
  BY <1>5, <1>6, <1>7, SubmitJobStep
<1>9. a \in Trees \cup {None} /\ (a # None => OwnJob(r, a)')
  BY <1>4, <1>5, <1>8, AnswerIsOwn
<1>10. call \in MarkCall /\ call \notin Call /\ call.run = r /\ call.job = a
  BY <1>6, <1>9 DEF MarkCall, Call
<1> HIDE DEF call
<1>11. CallerSound(call)'
  <2>1. Started' = Started /\ HandedOff' = HandedOff /\ r \in HandedOff
    BY <1>2, <1>3, <1>5 DEF Started, HandedOff
  <2> QED BY <1>9, <1>10, <2>1 DEF CallerSound
<1>12. CausesSound'
  <2>1. CASE UNCHANGED jobVars
    BY <1>5, <2>1 DEF RunsInv, CausesSound, jobVars, Jobs
  <2>2. CASE m \notin Jobs /\ job' = [job EXCEPT ![m] = NewJob(r, HandoffRequest(r), m)]
    <3>1. job'[m].key = r /\ job'[m].request = HandoffRequest(r) /\ \A n \in Trees : n # m => job'[n] = job[n]
      BY <2>2 DEF JobsInv, TypeOK, NewJob
    <3> QED BY <1>5, <1>6, <3>1 DEF RunsInv, CausesSound, Jobs
  <2> QED BY <1>5, <1>6, <2>1, <2>2, SubmitJobFacts
<1>13. caller' \in [Callers -> Call \cup MarkCall \cup {Idle}]
  BY <1>1, <1>5, <1>10 DEF ValidationTypeOK
<1>14. \A d \in Callers : caller'[d] = caller[d] \/ CallerSound(caller[d])'
  <2> SUFFICES ASSUME NEW d \in Callers, d = c PROVE CallerSound(caller[d])'
    BY <1>1, <1>5 DEF ValidationTypeOK
  <2>1. caller'[d] = call
    BY <1>1, <1>5 DEF ValidationTypeOK
  <2> QED BY <1>11, <2>1 DEF CallerSound
<1>15. RunsInv'
  BY <1>5, <1>8, <1>12, <1>13, <1>14, CallerMoves
<1> QED BY <1>8, <1>15

\* The steps of Ingestion, with the keys of handoffs left to handoffs.
LEMMA OperatorStep ==
  ASSUME JobsInv, RunsInv, IngestionNext
  PROVE  JobsInv' /\ JobsForward /\ RunsInv'
<1>1. UNCHANGED <<run, handoff, caller>>
  BY DEF IngestionNext, validationVars
<1>2. ASSUME \E c \in Clients, k \in Keys \ Runs, q \in OperatorRequests : Discover(c, k, q)
      PROVE  JobsInv' /\ JobsForward /\ CausesSound'
  <2>1. PICK c \in Clients, k \in Keys \ Runs, q \in OperatorRequests : Discover(c, k, q)
    BY <1>2
  <2>2. JobsInv' /\ JobsForward
    BY <2>1, DiscoverStep DEF OperatorRequests
  <2>3. CausesSound'
    <3>1. job' = job
      BY <2>1 DEF Discover, jobVars
    <3>2. \A d \in Clients : client'[d] = client[d] \/ client'[d].request = q
      BY <2>1 DEF Discover, JobsInv, TypeOK
    <3> QED BY <3>1, <3>2 DEF RunsInv, CausesSound, Jobs, OperatorRequests
  <2> QED BY <2>2, <2>3
<1>3. ASSUME \E c \in Clients : Visit(c)
      PROVE  JobsInv' /\ JobsForward /\ CausesSound'
  <2>1. PICK c \in Clients : Visit(c)
    BY <1>3
  <2>2. JobsInv' /\ JobsForward
    BY <2>1, VisitStep
  <2>3. job' = job
    BY <2>1 DEF Visit, jobVars
  <2>4. \A d \in Clients : client'[d] = client[d] \/ (client[d] # Idle /\ client'[d].request = client[d].request)
    BY <2>1 DEF Visit, JobsInv, TypeOK, Submission
  <2>5. CausesSound'
    BY <2>3, <2>4 DEF RunsInv, CausesSound, Jobs
  <2> QED BY <2>2, <2>5
<1>4. ASSUME \E c \in Clients : Submit(c)
      PROVE  JobsInv' /\ JobsForward /\ CausesSound'
  <2>1. PICK c \in Clients : Submit(c)
    BY <1>4
  <2>2. JobsInv' /\ JobsForward
    BY <2>1, SubmitStep
  <2>3. client[c].key \in Keys /\ client[c].request \in Requests /\ client[c].seen \in Trees
    BY <2>1 DEF Submit, JobsInv, TypeOK, Submission
  <2>4. PICK m \in Trees, key \in Keys, request \in Requests :
          m = client[c].seen /\ key = client[c].key /\ request = client[c].request
    BY <2>3
  <2>5. SubmitJob(key, request, m) /\ client' = [client EXCEPT ![c] = Idle] /\ request.cause \notin Runs
    BY <2>1, <2>4 DEF Submit, RunsInv, CausesSound
  <2>6. ASSUME UNCHANGED jobVars PROVE CausesSound'
    BY <2>5, <2>6 DEF RunsInv, CausesSound, jobVars, Jobs, JobsInv, TypeOK
  <2>7. ASSUME m \notin Jobs, job' = [job EXCEPT ![m] = NewJob(key, request, m)] PROVE CausesSound'
    <3>1. job'[m].request = request /\ \A n \in Trees : n # m => job'[n] = job[n]
      BY <2>7 DEF JobsInv, TypeOK, NewJob
    <3>2. \A d \in Clients : client'[d] = client[d] \/ client'[d] = Idle
      BY <2>5 DEF JobsInv, TypeOK
    <3> QED BY <2>5, <3>1, <3>2 DEF RunsInv, CausesSound, Jobs
  <2>8. CausesSound'
    BY <2>5, <2>6, <2>7, SubmitJobFacts
  <2> QED BY <2>2, <2>8
<1>5. ASSUME \/ \E w \in Workers : Process(w)
             \/ \E m \in Trees : Cancel(m)
             \/ \E p \in Paths, content \in Contents \cup {NoFile} : Edit(p, content)
             \/ LoseLease
             \/ GrantLease
      PROVE  JobsInv' /\ JobsForward /\ CausesSound'
  <2>1. JobsInv' /\ JobsForward
    BY <1>5, ProcessStep, CancelStep, EnvironmentStep
  <2>2. Jobs' \subseteq Jobs /\ client' = client
    <3>1. ASSUME NEW w \in Workers, Process(w)
          PROVE  Jobs' \subseteq Jobs /\ client' = client
      <4>1. CASE UNCHANGED <<job, client>>
        BY <4>1 DEF Jobs
      <4>2. CASE CommitBatch(w) \/ FinalizeEmpty(w)
        <5>1. worker[w].job \in Jobs
          BY <4>2 DEF CommitBatch, FinalizeEmpty, JobsInv, BatchesSound, BatchSound
        <5>2. client' = client /\ \A n \in Trees : n # worker[w].job => job'[n] = job[n]
          BY <4>2 DEF CommitBatch, FinalizeEmpty, JobsInv, TypeOK, jobVars
        <5> QED BY <5>1, <5>2 DEF Jobs
      <4> QED BY <3>1, <4>1, <4>2 DEF Process, Take, Read, jobVars
    <3>2. ASSUME NEW m \in Trees, Cancel(m)
          PROVE  Jobs' \subseteq Jobs /\ client' = client
      BY <3>2 DEF Cancel, Jobs, JobsInv, TypeOK
    <3>3. CASE \/ \E p \in Paths, content \in Contents \cup {NoFile} : Edit(p, content)
               \/ LoseLease
               \/ GrantLease
      BY <3>3 DEF Edit, LoseLease, GrantLease, jobVars, Jobs
    <3> QED BY <1>5, <3>1, <3>2, <3>3
  <2>3. CausesSound'
    <3>1. \A m \in Jobs : job'[m].key = job[m].key /\ job'[m].request = job[m].request
      BY <2>1 DEF JobsForward
    <3> QED BY <2>2, <3>1 DEF RunsInv, CausesSound
  <2> QED BY <2>1, <2>3
<1>6. JobsInv' /\ JobsForward /\ CausesSound'
  BY <1>2, <1>3, <1>4, <1>5 DEF IngestionNext
<1>7. caller' \in [Callers -> Call \cup MarkCall \cup {Idle}] /\ \A c \in Callers : caller'[c] = caller[c]
  BY <1>1 DEF RunsInv, HandoffFollowsRun, ValidationTypeOK
<1>8. RunsInv'
  BY <1>1, <1>6, <1>7, CallerMoves
<1> QED BY <1>6, <1>8

------------------------------------------------------------------------------
(* Theorems of validation *)

LEMMA RunsInit ==
  ASSUME ValidationInit
  PROVE  JobsInv /\ RunsInv
<1>1. JobsInv
  BY JobsInit DEF ValidationInit
<1>2. Started = {} /\ HandedOff = {} /\ Jobs = {}
  BY DEF ValidationInit, Init, Started, HandedOff, Jobs
<1>3. HandoffFollowsRun
  BY <1>2 DEF ValidationInit, HandoffFollowsRun, ValidationTypeOK
<1>4. CausesSound
  BY <1>2 DEF ValidationInit, Init, CausesSound
<1>5. CallersSound
  BY DEF ValidationInit, CallersSound, CallerSound
<1> QED BY <1>1, <1>2, <1>3, <1>4, <1>5 DEF RunsInv

\* A step that leaves ingestion alone.
LEMMA RunsStep ==
  ASSUME JobsInv, RunsInv,
         \/ \E c \in Callers, r \in Runs :
              (\E request \in ValidationRequests : Start(c, r, request)) \/ Resume(c, r) \/ Resubmit(c, r)
         \/ \E c \in Callers : Observe(c) \/ Walk(c) \/ Commit(c) \/ Mark(c) \/ CannotLook(c) \/ Hangup(c)
         \/ \E r \in Runs : CancelRun(r)
  PROVE  UNCHANGED vars /\ JobsInv' /\ JobsForward /\ RunsInv'
<1>1. UNCHANGED vars
  BY DEF Start, Resume, Resubmit, Observe, Walk, Commit, Mark, CannotLook, Hangup, CancelRun
<1>2. JobsInv' /\ JobsForward
  BY <1>1, JobsUnchanged
<1>3. ASSUME NEW c \in Callers, NEW r \in Runs, Resume(c, r)
      PROVE  RunsInv'
  BY <1>3, StartStep DEF Resume
<1>4. RunsInv'
  BY <1>3, StartStep, ResubmitStep, ObserveStep, WalkStep, CommitRunStep, MarkStep, CannotLookStep,
     HangupStep, CancelRunStep
<1> QED BY <1>1, <1>2, <1>4

LEMMA ValidationStep ==
  ASSUME JobsInv, RunsInv, [ValidationNext]_allVars
  PROVE  JobsInv' /\ JobsForward /\ RunsInv'
<1>1. CASE \E c \in Callers : SubmitHandoff(c)
  BY <1>1, SubmitHandoffStep
<1>2. CASE IngestionNext
  BY <1>2, OperatorStep
<1>3. CASE UNCHANGED allVars
  <2>1. JobsInv' /\ JobsForward
    BY <1>3, JobsUnchanged DEF allVars
  <2>2. CausesSound'
    BY <1>3 DEF RunsInv, CausesSound, Jobs, allVars, vars, jobVars
  <2>3. UNCHANGED <<run, handoff, caller>>
    BY <1>3 DEF allVars, validationVars
  <2>4. caller' \in [Callers -> Call \cup MarkCall \cup {Idle}] /\ \A c \in Callers : caller'[c] = caller[c]
    BY <2>3 DEF RunsInv, HandoffFollowsRun, ValidationTypeOK
  <2> QED BY <2>1, <2>2, <2>3, <2>4, CallerMoves
<1> QED BY <1>1, <1>2, <1>3, RunsStep DEF ValidationNext, Drive

\* The inductive invariant of validation, over that of ingestion: who drives a run
\* has its request, and who marks a handoff has the handoff's own job in hand.
THEOREM RunsInvariance == ValidationSpec => [](JobsInv /\ RunsInv)
<1>1. ValidationInit => JobsInv /\ RunsInv
  BY RunsInit
<1>2. (JobsInv /\ RunsInv) /\ [ValidationNext]_allVars => (JobsInv /\ RunsInv)'
  BY ValidationStep
<1> QED BY <1>1, <1>2, PTL DEF ValidationSpec

\* Whatever callers do at once, a passed run has the one handoff that it asked for,
\* and a submitted handoff names its own job.
THEOREM HandoffsFollow == ValidationSpec => []HandoffFollowsRun
<1>1. RunsInv => HandoffFollowsRun
  BY DEF RunsInv
<1> QED BY <1>1, RunsInvariance, PTL

\* Handoffs are jobs like others: with them, too, the index is the last job's.
THEOREM HandoffsKeepIndex == ValidationSpec => []IndexFollowsJobs
<1>1. JobsInv => IndexFollowsJobs
  BY IndexFromInv
<1> QED BY <1>1, RunsInvariance, PTL

\* What may become of a run and its handoff in a step.
Judged(r) ==
  LET held == run[r].request.task => Holds(run[r].request.fence)
  IN /\ run[r] # None /\ run[r] # run'[r] =>
          run[r].status = "pending" /\ (run'[r].status = "cancelled" \/ held)
     /\ handoff[r] # handoff'[r] =>
          held /\ (handoff[r] # None => handoff[r].status # "submitted" /\ handoff'[r] # None)

LEMMA JudgedStep ==
  ASSUME JobsInv, RunsInv, [ValidationNext]_allVars, NEW r \in Runs
  PROVE  Judged(r)
<1>1. ValidationTypeOK /\ \A q \in Runs : PairSound(q)
  BY PairsSound DEF RunsInv
<1>2. CASE UNCHANGED <<run, handoff>>
  BY <1>2 DEF Judged
<1>3. ASSUME NEW c \in Callers, NEW q \in Runs, NEW request, Start(c, q, request)
      PROVE  Judged(r)
  <2>1. handoff' = handoff /\ (q \in Started => run' = run)
    BY <1>3 DEF Start
  <2>2. q \notin Started => run[q] = None /\ (r # q => run'[r] = run[r])
    BY <1>1, <1>3 DEF Start, Started, ValidationTypeOK
  <2> QED BY <2>1, <2>2 DEF Judged
<1>4. ASSUME NEW q \in Runs, CancelRun(q)
      PROVE  Judged(r)
  <2>1. handoff' = handoff /\ (r # q => run'[r] = run[r]) /\ run[q].status = "pending"
    BY <1>1, <1>4 DEF CancelRun, ValidationTypeOK
  <2>2. run'[q].status = "cancelled"
    <3>1. run[q] \in RunRow
      BY <1>4, RunFacts DEF CancelRun
    <3> QED BY <1>1, <1>4, <3>1 DEF CancelRun, ValidationTypeOK, RunRow
  <2> QED BY <2>1, <2>2 DEF Judged
<1>5. ASSUME NEW c \in Callers, Commit(c)
      PROVE  Judged(r)
  <2>1. PICK q \in Runs : q = caller[c].run /\ q \in Started
    BY <1>5, CallTypes DEF Commit, Started
  <2>2. CASE UNCHANGED <<run, handoff>>
    BY <2>2 DEF Judged
  <2>3. CASE /\ run[q].status \notin Terminal /\ StillHeld(run[q].request)
             /\ \E row, pair : run' = [run EXCEPT ![q] = row] /\ handoff' = [handoff EXCEPT ![q] = pair]
    <3>1. \A s \in Runs : s # q => run'[s] = run[s] /\ handoff'[s] = handoff[s]
      BY <1>1, <2>3 DEF ValidationTypeOK
    <3>2. run[q] \in RunRow /\ run[q].status = "pending"
      BY <2>1, <2>3, RunFacts DEF RunRow
    <3>3. handoff[q] = None
      BY <1>1, <2>1, <3>2 DEF PairSound, HandedOff
    <3> QED BY <2>3, <3>1, <3>2, <3>3 DEF Judged, StillHeld
  <2> QED
    <3>1. handoff = [handoff EXCEPT ![q] = handoff[q]]
      BY <1>1 DEF ValidationTypeOK
    <3> QED BY <1>5, <2>1, <2>2, <2>3, <3>1 DEF Commit
<1>6. ASSUME NEW c \in Callers, Mark(c)
      PROVE  Judged(r)
  <2>1. PICK q \in HandedOff : q = caller[c].run
    BY <1>6, CallTypes DEF Mark, MarkCall, Idle, CallerSound
  <2>2. PICK m \in Trees \cup {None} : m = caller[c].job
    BY <1>6, CallTypes DEF Mark, MarkCall
  <2>3. run' = run
    BY <1>6 DEF Mark
  <2>4. CASE handoff' = handoff
    BY <2>3, <2>4 DEF Judged
  <2>5. CASE StillHeld(run[q].request) /\ handoff' = [handoff EXCEPT ![q] = Marked(handoff[q], m)]
    <3>1. q \in Runs /\ handoff[q] \in HandoffRow
      BY <2>1, RunFacts DEF HandedOff
    <3>2. handoff'[q] = Marked(handoff[q], m) /\ \A s \in Runs : s # q => handoff'[s] = handoff[s]
      BY <1>1, <2>5, <3>1 DEF ValidationTypeOK
    <3>3. Marked(handoff[q], m) = handoff[q] \/ (handoff[q].status # "submitted" /\ Marked(handoff[q], m) \in HandoffRow)
      BY <3>1 DEF Marked, HandoffRow
    <3> HIDE DEF Marked
    <3> QED BY <2>3, <2>5, <3>2, <3>3, RunFacts DEF Judged, StillHeld
  <2> QED BY <1>6, <2>1, <2>2, <2>4, <2>5 DEF Mark
<1>7. UNCHANGED <<run, handoff>> \/ (\E c \in Callers, q \in Runs : \E request : Start(c, q, request))
        \/ (\E q \in Runs : CancelRun(q)) \/ (\E c \in Callers : Commit(c) \/ Mark(c))
  BY DEF ValidationNext, Drive, Resume, Resubmit, Observe, Walk, SubmitHandoff, CannotLook, Hangup,
     IngestionNext, validationVars, allVars
<1> QED BY <1>2, <1>3, <1>4, <1>5, <1>6, <1>7

\* Verdicts and handoffs of a task's run are written under the lease it names; a
\* verdict and a submission are final.
THEOREM JudgedOnlyByHolder == ValidationSpec => JudgedByHolder
<1> DEFINE Step ==
      \A r \in Runs :
       LET held == run[r].request.task => Holds(run[r].request.fence)
       IN /\ run[r] # None /\ run[r] # run'[r] =>
               run[r].status = "pending" /\ (run'[r].status = "cancelled" \/ held)
          /\ handoff[r] # handoff'[r] =>
               held /\ (handoff[r] # None => handoff[r].status # "submitted" /\ handoff'[r] # None)
<1>1. (JobsInv /\ RunsInv) /\ [ValidationNext]_allVars => [Step]_allVars
  BY JudgedStep DEF Judged
<1> QED BY <1>1, RunsInvariance, PTL DEF ValidationSpec, JudgedByHolder
==============================================================================
