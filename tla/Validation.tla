------------------------------ MODULE Validation ------------------------------
(***************************************************************************)
(* internal/validation over internal/store/validations.go: an applied      *)
(* change is observed, the verdict is committed as a run, and a passed run *)
(* hands the new tree to ingestion.  Observation, discovery, commit,       *)
(* submission and the mark of the handoff are separate steps: the tree     *)
(* changes, the lease is lost, the run is cancelled or the caller dies     *)
(* between any two, and several callers drive one run.                     *)
(*                                                                         *)
(* The applied change is a constant: an application that is applied stays  *)
(* so (RepositoryChange).  A run is named by its idempotency key, which is *)
(* also the key of its handoff's job.                                      *)
(***************************************************************************)
EXTENDS Ingestion

CONSTANTS Runs,               \* validation runs by idempotency key
          ValidationRequests, \* what the request hash of a run covers
          Callers,            \* concurrent HTTP requests
          Expected,           \* the applied result: content of the packet's paths
          AppliedFence,       \* fence of the application's task, 0 without one
          Steady              \* callers that finish a submission: they live, and can read the tree

VARIABLES run,      \* fornix.validation_runs
          handoff,  \* fornix.reindex_handoffs, by run
          caller    \* the progress of each request

validationVars == <<run, handoff, caller>>
allVars == <<vars, validationVars>>

PacketPaths == DOMAIN Expected
Terminal == {"passed", "failed", "cancelled"}

\* As normalized: a request that names a task names its fence, too.
ValidRequest ==
  {q \in [fence : 0..MaxFence, task : BOOLEAN, cause : STRING, checks : SUBSET {"tree", "reindex"}, handsOff : BOOLEAN] :
     q.task => q.fence # 0}

ASSUME ValidationAssumption ==
  /\ Runs \subseteq Keys /\ Runs \subseteq STRING /\ Steady \subseteq Callers
  /\ PacketPaths \subseteq Paths /\ AppliedFence \in 0..MaxFence
  /\ ValidationRequests \subseteq ValidRequest
  \* What handoffs ask for is among the requests of jobs.
  /\ \A n \in 0..MaxFence, r \in Runs : [fence |-> n, extract |-> FALSE, cause |-> r] \in Requests

\* "abstained" is never reached: no registered validator abstains.
RunRow == [request : ValidationRequests, status : {"pending"} \cup Terminal,
           observed : [PacketPaths -> Contents \cup {NoFile}] \cup {None}]

HandoffRow == [manifest : Trees \cup {None}, status : {"pending", "failed", "submitted"}, job : Trees \cup {None}]

Call == [pc : {"observe", "walk", "commit", "discover", "submit"},
         run : Runs, request : ValidationRequests, at : 1..NumPaths + 1, seen : Trees,
         observed : [PacketPaths -> Contents \cup {NoFile}] \cup {None}]

MarkCall == [pc : {"mark"}, run : Runs, job : Trees \cup {None}]

ASSUME NoRunAssumption == None \notin RunRow \cup HandoffRow

Started == {r \in Runs : run[r] # None}
HandedOff == {r \in Runs : handoff[r] # None}

ValidationInit ==
  /\ Init
  /\ run = [r \in Runs |-> None]
  /\ handoff = [r \in Runs |-> None]
  /\ caller = [c \in Callers |-> Idle]

ValidationTypeOK ==
  /\ run \in [Runs -> RunRow \cup {None}]
  /\ handoff \in [Runs -> HandoffRow \cup {None}]
  /\ caller \in [Callers -> Call \cup MarkCall \cup {Idle}]

------------------------------------------------------------------------------
(* Authority *)

Holds(fence) == lease = [fence |-> fence, live |-> TRUE]

\* validateChangeAuthorityTx: the owner of the application's task, still at it.
Authorized(request) == AppliedFence # 0 => request.fence = AppliedFence /\ Holds(AppliedFence)

StillHeldByNobody(request) == TRUE

\* A run and its handoff are written under the fence only if they name the task.
StillHeld(request) == request.task => Holds(request.fence)

\* FinalizeTx: the receipt of a run that names a task is of work that is done under
\* the fence; whoever completes a task gives up its lease with it.
ReceiptAdmitted(request) == request.task => ~Holds(request.fence)

------------------------------------------------------------------------------
(* One validation *)

NoTree == [p \in Paths |-> NoFile]

Calling(r, request, pc) ==
  [pc |-> pc, run |-> r, request |-> request, at |-> 1, seen |-> NoTree, observed |-> None]

\* ValidationStore.Start: a new run, or the one of the key if it asks the same.
\* A terminal run is returned as it is; an error ends the call.
Start(c, r, request) ==
  /\ caller[c] = Idle
  /\ Authorized(request)
  /\ run' = IF r \in Started THEN run
            ELSE [run EXCEPT ![r] = [request |-> request, status |-> "pending", observed |-> None]]
  /\ run'[r].request = request /\ run'[r].status = "pending"
  /\ caller' = [caller EXCEPT ![c] = Calling(r, request, "observe")]
  /\ UNCHANGED <<vars, handoff>>

\* Service.Resume rebuilds the request from the run, which has no causation.
Resume(c, r) == r \in Started /\ Start(c, r, [run[r].request EXCEPT !.cause = ""])

\* execute observes the packet's paths; without the reindex validator it has
\* then all it needs.
Observe(c) ==
  /\ caller[c].pc = "observe"
  /\ caller' = [caller EXCEPT ![c].observed = [p \in PacketPaths |-> tree[p]],
                              ![c].pc = IF "reindex" \in caller[c].request.checks THEN "walk" ELSE "commit"]
  /\ UNCHANGED <<vars, run, handoff>>

\* The tree cannot be observed or discovered, or not be discovered again.
CannotLook(c) ==
  /\ \/ /\ caller[c].pc \in {"observe", "walk"}
        /\ caller' = [caller EXCEPT ![c].pc = "commit", ![c].observed = None]
     \/ /\ caller[c].pc = "discover" /\ c \notin Steady
        /\ caller' = [caller EXCEPT ![c] = [pc |-> "mark", run |-> @.run, job |-> None]]
  /\ UNCHANGED <<vars, run, handoff>>

\* ingest.Discover, for the reindex validator and again for the submission.
Walk(c) ==
  /\ caller[c].pc \in {"walk", "discover"}
  /\ IF caller[c].at \in Paths
     THEN caller' = [caller EXCEPT ![c].at = @ + 1, ![c].seen[caller[c].at] = tree[caller[c].at]]
     ELSE caller' = [caller EXCEPT ![c].pc = IF @ = "walk" THEN "commit" ELSE "submit"]
  /\ UNCHANGED <<vars, run, handoff>>

\* validateTree: what was observed is what the change left.
TreePasses(call) == "tree" \in call.request.checks => call.observed = Expected

VerdictUnseen(call) == IF call.observed # None THEN "passed" ELSE "failed"

\* The four other validators have nothing to find on a tree that was observed.
Verdict(call) ==
  IF call.observed # None /\ TreePasses(call) THEN "passed" ELSE "failed"

\* The run with its results and their report.
Concluded(row, call) == [row EXCEPT !.status = Verdict(call), !.observed = call.observed]

NewHandoff(call) ==
  [manifest |-> IF "reindex" \in call.request.checks THEN call.seen ELSE None,
   status |-> "pending", job |-> None]

\* Nothing more to do, or the handoff in hand to submit.
Proceed(c, r, row) ==
  caller' = [caller EXCEPT ![c] = IF row = None THEN Idle ELSE Calling(r, caller[c].request, "discover")]

\* ValidationStore.Commit: results, run, handoff and the receipt of a passed run in
\* one transaction.  A terminal run is returned with its handoff, whatever this
\* caller found.
Commit(c) ==
  /\ caller[c].pc = "commit"
  /\ LET r == caller[c].run
         request == run[r].request
         status == Verdict(caller[c])
     IN IF run[r].status \in Terminal
        THEN UNCHANGED <<run, handoff>> /\ Proceed(c, r, handoff[r])
        ELSE IF StillHeld(request) /\ (status = "passed" => ReceiptAdmitted(request))
        THEN /\ run' = [run EXCEPT ![r] = Concluded(@, caller[c])]
             /\ handoff' = IF status = "passed" /\ request.handsOff
                           THEN [handoff EXCEPT ![r] = NewHandoff(caller[c])] ELSE handoff
             /\ Proceed(c, r, handoff'[r])
        ELSE UNCHANGED <<run, handoff>> /\ caller' = [caller EXCEPT ![c] = Idle]
  /\ UNCHANGED vars

CancelRun(r) ==
  /\ r \in Started /\ run[r].status = "pending"
  /\ run' = [run EXCEPT ![r].status = "cancelled"]
  /\ UNCHANGED <<vars, handoff, caller>>

------------------------------------------------------------------------------
(* The handoff *)

ResubmitFailed(c, r) ==
  /\ caller[c] = Idle
  /\ r \in HandedOff /\ handoff[r].status = "failed"
  /\ caller' = [caller EXCEPT ![c] = Calling(r, run[r].request, "discover")]
  /\ UNCHANGED <<vars, run, handoff>>

\* handleHandoffSubmit: again for a handoff that is not submitted.
Resubmit(c, r) ==
  /\ caller[c] = Idle
  /\ r \in HandedOff /\ handoff[r].status # "submitted"
  /\ caller' = [caller EXCEPT ![c] = Calling(r, run[r].request, "discover")]
  /\ UNCHANGED <<vars, run, handoff>>

\* SubmitHandoff's request: caused by the run, without symbols.
HandoffRequest(r) ==
  [fence |-> IF run[r].request.task THEN run[r].request.fence ELSE 0, extract |-> FALSE, cause |-> r]

\* SubmitHandoff, once the tree is discovered: IngestStore.Submit.
SubmitHandoff(c) ==
  /\ caller[c].pc = "submit"
  /\ LET r == caller[c].run
     IN /\ SubmitJob(r, HandoffRequest(r), caller[c].seen)
        /\ caller' = [caller EXCEPT ![c] =
             [pc |-> "mark", run |-> r, job |-> Answer(r, HandoffRequest(r), caller[c].seen)]]
  /\ UNCHANGED <<tree, client, worker, lease, edits, run, handoff>>

\* MarkHandoffFailed leaves any handoff alone that is not pending;
\* MarkHandoffSubmitted takes a job of the validated manifest, once.
Marked(row, m) ==
  IF m = None
  THEN IF row.status = "pending" THEN [row EXCEPT !.status = "failed"] ELSE row
  ELSE IF row.status # "submitted" /\ row.manifest \in {None, m}
  THEN [row EXCEPT !.status = "submitted", !.job = m, !.manifest = m] ELSE row

Mark(c) ==
  /\ caller[c].pc = "mark"
  /\ LET r == caller[c].run
     IN handoff' = IF StillHeld(run[r].request)
                   THEN [handoff EXCEPT ![r] = Marked(@, caller[c].job)] ELSE handoff
  /\ caller' = [caller EXCEPT ![c] = Idle]
  /\ UNCHANGED <<vars, run>>

\* The process dies, or the client goes away.
Hangup(c) ==
  /\ caller[c] # Idle /\ c \notin Steady
  /\ caller' = [caller EXCEPT ![c] = Idle]
  /\ UNCHANGED <<vars, run, handoff>>

------------------------------------------------------------------------------

Drive(c) == Observe(c) \/ Walk(c) \/ Commit(c) \/ SubmitHandoff(c) \/ Mark(c)

OperatorRequests == {q \in Requests : q.cause \notin Runs}

\* The jobs of the repository, under the operations of Ingestion; keys of
\* handoffs are used by handoffs only.
IngestionNext ==
  /\ \/ \E c \in Clients, k \in Keys \ Runs, q \in OperatorRequests : Discover(c, k, q)
     \/ \E c \in Clients : Visit(c) \/ Submit(c)
     \/ \E w \in Workers : Process(w)
     \/ \E m \in Trees : Cancel(m)
     \/ \E p \in Paths, content \in Contents \cup {NoFile} : Edit(p, content)
     \/ LoseLease
     \/ GrantLease
  /\ UNCHANGED validationVars

ValidationNext ==
  \/ \E c \in Callers, r \in Runs :
       \/ \E request \in ValidationRequests : Start(c, r, request)
       \/ Resume(c, r)
       \/ Resubmit(c, r)
  \/ \E c \in Callers : Drive(c) \/ CannotLook(c) \/ Hangup(c)
  \/ \E r \in Runs : CancelRun(r)
  \/ IngestionNext

ValidationSpec == ValidationInit /\ [][ValidationNext]_allVars

\* Somebody submits a handoff again until it is accepted, and resumes the jobs;
\* nothing in the server does.
ValidationLiveSpec ==
  /\ ValidationSpec
  /\ \A c \in Steady : WF_allVars(Drive(c)) /\ \A r \in Runs : SF_allVars(Resubmit(c, r))
  /\ \A w \in Reliable : WF_allVars(Process(w) /\ UNCHANGED validationVars)

------------------------------------------------------------------------------
(* Properties *)

\* A run that passed its tree check saw the applied result; exactly the passed
\* runs that have to have a handoff; a submitted one names its own job, of the
\* manifest that was validated, whoever else validated or submitted meanwhile.
HandoffFollowsRun ==
  /\ ValidationTypeOK
  /\ \A r \in Started :
       /\ run[r].status = "passed" /\ "tree" \in run[r].request.checks => run[r].observed = Expected
       /\ r \in HandedOff <=> run[r].status = "passed" /\ run[r].request.handsOff
  /\ \A r \in HandedOff : handoff[r].status = "submitted" =>
       LET m == handoff[r].job
       IN m = handoff[r].manifest /\ m \in Jobs /\ job[m].key = r /\ job[m].request = HandoffRequest(r)

\* A run that names its task is judged, and its handoff made and marked, only
\* while the lease it names is held; a verdict and a submission are final.
JudgedByHolder ==
  [][\A r \in Runs :
       LET held == run[r].request.task => Holds(run[r].request.fence)
       IN /\ run[r] # None /\ run[r] # run'[r] =>
               run[r].status = "pending" /\ (run'[r].status = "cancelled" \/ held)
          /\ handoff[r] # handoff'[r] =>
               held /\ (handoff[r] # None => handoff[r].status # "submitted" /\ handoff'[r] # None)]_allVars

Unsubmitted(r) == r \in HandedOff /\ handoff[r].status # "submitted"

\* A handoff that keeps being submitted gets its job, unless the tree moved on, or
\* a job of another request is active or has the manifest.
HandoffSettles ==
  \A r \in Runs :
    Unsubmitted(r) ~>
      (Unsubmitted(r) => \/ handoff[r].manifest \notin {None, tree}
                         \/ \E m \in Jobs : /\ job[m].request # HandoffRequest(r)
                                            /\ job[m].status \in Active \/ m = tree)

\* "Equivalent requests return the original durable identity" (docs/58): the
\* same, where a job of the same manifest is no excuse.
EquivalentHandoffSettles ==
  \A r \in Runs :
    Unsubmitted(r) ~>
      (Unsubmitted(r) => \/ handoff[r].manifest \notin {None, tree}
                         \/ \E m \in Jobs : m # handoff[r].manifest)

\* "Task-bound operations also carry an owner and monotonic fence" (docs/58):
\* the verdict on a task's change is its holder's.
TaskChangeJudgedByHolder ==
  [][\A r \in Runs : AppliedFence # 0 /\ run'[r] # run[r] =>
       run'[r].status = "cancelled" \/ Holds(AppliedFence)]_allVars

\* "Task-bound validation validates the current task owner and fence before work
\* and again in the transaction that records each authoritative result" (docs/58):
\* who holds the lease gets the verdict recorded.  A passed one never is, for its
\* receipt asks for a task that is done.
HolderRecords ==
  [][\A c \in Steady : caller[c].pc = "commit" /\ caller'[c].pc # "commit" =>
       LET r == caller[c].run
       IN run[r].status = "pending" /\ StillHeld(run[r].request) => run'[r].status # "pending"]_allVars

\* A pending run can be resumed: the request that Resume rebuilds is the run's.
PendingResumable ==
  \A r \in Started : run[r].status = "pending" =>
    [run[r].request EXCEPT !.cause = ""] = run[r].request
==============================================================================
