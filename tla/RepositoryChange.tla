--------------------------- MODULE RepositoryChange ---------------------------
(***************************************************************************)
(* internal/change (planner, executor, service) over                       *)
(* internal/store/repository_changes.go: a packet of file operations is    *)
(* planned against the tree, proposed, decided, admitted, executed one     *)
(* operation at a time on the configured mount, verified, and finalized.   *)
(* Every store call is one transaction that locks the row it changes; the  *)
(* file system is outside of them, and anybody may edit it.                *)
(*                                                                         *)
(* A proposal is named by its idempotency key, and so is an approval and   *)
(* an application.  A drive is one call of Service.Apply in one process.   *)
(* A task fence stands for its owner too: a fence is granted once.         *)
(***************************************************************************)
EXTENDS Naturals, Sequences, FiniteSets, Functions

CONSTANTS Proposals,      \* idempotency keys of proposals
          Approvals,      \* idempotency keys of approvals
          Applications,   \* idempotency keys of applications
          Drives,         \* concurrent calls of Service.Apply
          Paths,          \* paths below the repository root
          Packets,        \* the operation lists that clients propose
          ModesAllowed,   \* the approval modes that they ask for
          Edits,          \* what somebody else may write: functions of paths to files
          MaxEdits,       \* bound: edits by somebody else
          MaxFence,       \* bound: grants of the task lease
          MaxCrashes,     \* bound: processes that die in Apply
          NoFile, None

VARIABLES proposal,    \* fornix.change_proposals with their operations
          approval,    \* fornix.change_approvals
          application, \* fornix.change_applications
          receipt,     \* applications with a Work Receipt
          tree,        \* the files below the repository root
          drive,       \* the progress of each call of Apply
          lease,       \* the task's execution lease
          edits, crashes,
          effects,     \* history: operations of a proposal that changed the tree
          shared       \* history: applications that two calls drove at the same time

vars == <<proposal, approval, application, receipt, tree, drive, lease, edits,
          crashes, effects, shared>>

Contents == {"old", "new"}
Files == [content : Contents, exec : BOOLEAN]
Trees == [Paths -> Files \cup {NoFile}]

\* Operation types of contracts/change.go; dest is the path itself but for a rename.
Operations == [type : {"create", "replace", "delete", "rename", "chmod"}, path : Paths, dest : Paths]

ASSUME RepositoryChangeAssumption ==
  /\ NoFile \notin Files /\ Edits \subseteq Files \cup {NoFile}
  /\ Packets \subseteq Seq(Operations) \ {<<>>}
  /\ ModesAllowed \subseteq {"required", "automatic", "denied"}
  /\ MaxEdits \in Nat /\ MaxFence \in Nat \ {0} /\ MaxCrashes \in Nat

Terminal == {"applied", "conflicted", "failed", "recovery_required"}

Affected(ops) == UNION {{ops[i].path, ops[i].dest} : i \in DOMAIN ops}

ProposalRow ==
  [status : {"awaiting_approval", "approved", "rejected", "applying"} \cup Terminal,
   ops : Packets, mode : ModesAllowed, fence : 0..MaxFence, source : Trees]

ApprovalRow == [of : Proposals, decision : {"approved", "rejected"}, expired : BOOLEAN]

ApplicationRow == [of : Proposals, status : {"applying"} \cup Terminal]

ASSUME NoRowAssumption == None \notin ProposalRow \cup ApprovalRow \cup ApplicationRow

DriveRow == [pc : {"check", "write", "verify", "finish", "receipt"}, app : Applications,
             fence : 0..MaxFence, done : Nat, outcome : {"none"} \cup Terminal]

NoDrive == [pc |-> "out"]

\* The files that a packet reads and writes when it is proposed.
Snapshot(ops) == [p \in Paths |-> IF p \in Affected(ops) THEN tree[p] ELSE NoFile]

Init ==
  /\ proposal = [p \in Proposals |-> None]
  /\ approval = [a \in Approvals |-> None]
  /\ application = [k \in Applications |-> None]
  /\ receipt = {}
  /\ tree \in {[p \in Paths |-> IF p \in old THEN [content |-> "old", exec |-> FALSE] ELSE NoFile] :
                 old \in SUBSET Paths}
  /\ drive = [d \in Drives |-> NoDrive]
  /\ lease = [fence |-> 1, live |-> TRUE]
  /\ edits = 0
  /\ crashes = 0
  /\ effects = [p \in Proposals |-> {}]
  /\ shared = {}

TypeOK ==
  /\ proposal \in [Proposals -> ProposalRow \cup {None}]
  /\ approval \in [Approvals -> ApprovalRow \cup {None}]
  /\ application \in [Applications -> ApplicationRow \cup {None}]
  /\ receipt \subseteq Applications
  /\ tree \in Trees
  /\ drive \in [Drives -> DriveRow \cup {NoDrive}]
  /\ lease \in [fence : 1..MaxFence, live : BOOLEAN]
  /\ edits \in 0..MaxEdits
  /\ crashes \in 0..MaxCrashes
  /\ effects \in [Proposals -> SUBSET Nat]
  /\ shared \subseteq Applications

------------------------------------------------------------------------------
(* The planner *)

\* checkPrecondition: the path exists unless it is to be created, with the
\* content of the snapshot (its mode is not looked at); a rename target is free.
Expected(op, source, now) ==
  /\ (now[op.path] = NoFile) = (op.type = "create")
  /\ op.type # "create" => now[op.path].content = source[op.path].content
  /\ op.type = "rename" => now[op.dest] = NoFile

\* applyOne: content with the mode of the snapshot, removal, move, mode.
Written(op, source, now) ==
  CASE op.type = "create"  -> [now EXCEPT ![op.path] = [content |-> "new", exec |-> FALSE]]
    [] op.type = "replace" -> [now EXCEPT ![op.path] = [content |-> "new", exec |-> source[op.path].exec]]
    [] op.type = "delete"  -> [now EXCEPT ![op.path] = NoFile]
    [] op.type = "rename"  -> [now EXCEPT ![op.dest] = now[op.path], ![op.path] = NoFile]
    [] op.type = "chmod"   -> [now EXCEPT ![op.path] = [content |-> now[op.path].content, exec |-> TRUE]]

\* Removal, move and mode need the file; a write does not.
Possible(op, now) == op.type \in {"create", "replace"} \/ now[op.path] # NoFile

\* Plan: the operations fit the snapshot and no path is named twice.
Plannable(ops) ==
  /\ \A i \in DOMAIN ops : Expected(ops[i], tree, tree)
  /\ \A i, j \in DOMAIN ops : i # j =>
       {ops[i].path, ops[i].dest} \cap {ops[j].path, ops[j].dest} = {}

\* predictedTreeHash: the files that exist afterwards.  A deleted path, and the
\* old path of a rename, is dropped from the list.
Predicted(row) ==
  LET ops == row.ops
      gone == {ops[i].path : i \in {j \in DOMAIN ops : ops[j].type \in {"delete", "rename"}}}
      after[i \in 0..Len(ops)] == IF i = 0 THEN row.source ELSE Written(ops[i], row.source, after[i - 1])
  IN Restrict(after[Len(ops)], Affected(ops) \ gone)

\* observedTreeHashFull: every affected path, absent ones included.
Observed(row) == Restrict(tree, Affected(row.ops))

------------------------------------------------------------------------------
(* Proposal and approval *)

InitialStatus(mode) ==
  CASE mode = "automatic" -> "approved"
    [] mode = "denied"    -> "rejected"
    [] mode = "required"  -> "awaiting_approval"

\* The row of a new proposal, with its operations.  The fence f is 0 when it
\* names no task.
NewProposal(ops, mode, f) ==
  [status |-> InitialStatus(mode), ops |-> ops, mode |-> mode, fence |-> f, source |-> Snapshot(ops)]

\* Propose: snapshot, plan and insert.  A key that exists returns its row, or is
\* refused when the request differs.
Propose(p, ops, mode, f) ==
  /\ proposal[p] = None
  /\ Plannable(ops)
  /\ proposal' = [proposal EXCEPT ![p] = NewProposal(ops, mode, f)]
  /\ UNCHANGED <<approval, application, receipt, tree, drive, lease, edits, crashes, effects, shared>>

Decidable(p) == proposal[p].status = "awaiting_approval"

\* Approve: one decision per key, on a proposal that waits for it.
Approve(a, p, decision) ==
  /\ proposal[p] # None
  /\ approval[a] = None
  /\ Decidable(p)
  /\ approval' = [approval EXCEPT ![a] = [of |-> p, decision |-> decision, expired |-> FALSE]]
  /\ proposal' = [proposal EXCEPT ![p].status = decision]
  /\ UNCHANGED <<application, receipt, tree, drive, lease, edits, crashes, effects, shared>>

\* expires_at passes.
Expire(a) ==
  /\ approval[a] # None
  /\ ~approval[a].expired
  /\ approval' = [approval EXCEPT ![a].expired = TRUE]
  /\ UNCHANGED <<proposal, application, receipt, tree, drive, lease, edits, crashes, effects, shared>>

------------------------------------------------------------------------------
(* Application *)

\* validateChangeTaskFenceTx, and the comparison with the proposal's fence.
FenceOfProposal(p, f) == proposal[p].fence # 0 => f = proposal[p].fence

FenceHolds(p, f) ==
  proposal[p].fence # 0 => f = proposal[p].fence /\ f = lease.fence /\ lease.live

AdmissibleUnlessRejected(p) == proposal[p].status \in {"approved", "awaiting_approval"}

\* An application in progress makes the proposal "applying", so the query for
\* one that follows finds none.
Admissible(p) == proposal[p].status = "approved"

Start(k, f) == [pc |-> "check", app |-> k, fence |-> f, done |-> 0, outcome |-> "none"]

Driven(k) == {d \in Drives : drive[d].pc \in {"check", "write", "verify", "finish"} /\ drive[d].app = k}

\* Apply up to the executor, first request: BeginApplication admits the packet.
BeginApplication(d, k, p, f) ==
  /\ drive[d] = NoDrive
  /\ application[k] = None
  /\ proposal[p] # None
  /\ Admissible(p)
  /\ FenceHolds(p, f)
  /\ application' = [application EXCEPT ![k] = [of |-> p, status |-> "applying"]]
  /\ proposal' = [proposal EXCEPT ![p].status = "applying"]
  /\ drive' = [drive EXCEPT ![d] = Start(k, f)]
  /\ UNCHANGED <<approval, receipt, tree, lease, edits, crashes, effects, shared>>

StillApplying(k) == application[k].status = "applying"

ResumableNever(k) == FALSE

Resumable(k) == StillApplying(k)

\* Apply, repeated key: an application that is still applying is executed again,
\* whoever is executing it, and a finished one gets its receipt.
ApplyAgain(d, k, f) ==
  /\ drive[d] = NoDrive
  /\ application[k] # None
  /\ \/ /\ Resumable(k)
        /\ drive' = [drive EXCEPT ![d] = Start(k, f)]
        /\ shared' = IF Driven(k) = {} THEN shared ELSE shared \cup {k}
     \/ /\ application[k].status = "applied"
        /\ drive' = [drive EXCEPT ![d] = [Start(k, f) EXCEPT !.pc = "receipt"]]
        /\ UNCHANGED shared
  /\ UNCHANGED <<proposal, approval, application, receipt, tree, lease, edits, crashes, effects>>

RowOf(d) == proposal[application[drive[d].app].of]
NextOp(d) == RowOf(d).ops[drive[d].done + 1]

Goto(d, pc) == drive' = [drive EXCEPT ![d].pc = pc]
Outcome(d, outcome) == drive' = [drive EXCEPT ![d].pc = "finish", ![d].outcome = outcome]

\* Executor.Apply, before an operation: a path that is not as expected, and one
\* that cannot be read, is a conflict.
CheckPrecondition(d) ==
  /\ drive[d].pc = "check"
  /\ \/ Expected(NextOp(d), RowOf(d).source, tree) /\ Goto(d, "write")
     \/ Outcome(d, "conflicted")
  /\ UNCHANGED <<proposal, approval, application, receipt, tree, lease, edits, crashes, effects, shared>>

\* The status that Service.Apply gives to an error that is no conflict.
OutcomeOfError(done) == IF done > 0 THEN "recovery_required" ELSE "failed"

\* Executor.Apply, an operation: it takes effect, or the content artifact or the
\* file system refuses it.
ApplyOne(d) ==
  /\ drive[d].pc = "write"
  /\ \/ /\ Possible(NextOp(d), tree)
        /\ tree' = Written(NextOp(d), RowOf(d).source, tree)
        /\ effects' = [effects EXCEPT ![application[drive[d].app].of] = @ \cup {drive[d].done + 1}]
        /\ drive' = [drive EXCEPT ![d].done = @ + 1,
             ![d].pc = IF drive[d].done + 1 = Len(RowOf(d).ops) THEN "verify" ELSE "check"]
     \/ /\ Outcome(d, OutcomeOfError(drive[d].done))
        /\ UNCHANGED <<tree, effects>>
  /\ UNCHANGED <<proposal, approval, application, receipt, lease, edits, crashes, shared>>

Verified(row) == Observed(row) = Predicted(row)

\* Executor.Apply, the end: the affected tree is read back.
Verify(d) ==
  /\ drive[d].pc = "verify"
  /\ Outcome(d, IF Verified(RowOf(d)) THEN "applied" ELSE OutcomeOfError(drive[d].done))
  /\ UNCHANGED <<proposal, approval, application, receipt, tree, lease, edits, crashes, effects, shared>>

\* FinalizeApplication records the outcome under the fence.
Record(d, k, p) ==
  /\ StillApplying(k)
  /\ FenceHolds(p, drive[d].fence)
  /\ application' = [application EXCEPT ![k].status = drive[d].outcome]
  /\ proposal' = [proposal EXCEPT ![p].status = drive[d].outcome]

\* The application is finished, and its row is returned in place of the outcome;
\* or the fence is stale, and the application stays as it is.
Discard(d, k, p) ==
  /\ ~(StillApplying(k) /\ FenceHolds(p, drive[d].fence))
  /\ UNCHANGED <<application, proposal>>

FinalizeApplication(d) ==
  LET k == drive[d].app
      p == application[k].of IN
  /\ drive[d].pc = "finish"
  /\ Record(d, k, p) \/ Discard(d, k, p)
  /\ drive' = [drive EXCEPT ![d] =
       IF drive[d].outcome = "applied" /\ application'[k].status = "applied"
         THEN [@ EXCEPT !.pc = "receipt"] ELSE NoDrive]
  /\ UNCHANGED <<approval, receipt, tree, lease, edits, crashes, effects, shared>>

\* Finalize of the receipt store: a receipt of work that succeeded is inserted
\* once, and any other work is refused.
Finalized(k) == IF application[k].status = "applied" THEN receipt \cup {k} ELSE receipt

\* attachReceipt: the call ends with the application's receipt, or with an error.
AttachReceipt(d) ==
  /\ drive[d].pc = "receipt"
  /\ receipt' = Finalized(drive[d].app)
  /\ drive' = [drive EXCEPT ![d] = NoDrive]
  /\ UNCHANGED <<proposal, approval, application, tree, lease, edits, crashes, effects, shared>>

\* The process dies, or the request is cancelled, anywhere in Apply.
Crash(d) ==
  /\ drive[d] # NoDrive
  /\ crashes < MaxCrashes
  /\ crashes' = crashes + 1
  /\ drive' = [drive EXCEPT ![d] = NoDrive]
  /\ UNCHANGED <<proposal, approval, application, receipt, tree, lease, edits, effects, shared>>

------------------------------------------------------------------------------
(* The environment *)

\* Somebody else changes a file.
Edit(p) ==
  /\ edits < MaxEdits
  /\ edits' = edits + 1
  /\ \E f \in Edits : f # tree[p] /\ tree' = [tree EXCEPT ![p] = f]
  /\ UNCHANGED <<proposal, approval, application, receipt, drive, lease, crashes, effects, shared>>

\* The task lease ends, and is granted to somebody else.
LoseLease ==
  /\ \/ lease.live /\ lease' = [lease EXCEPT !.live = FALSE]
     \/ lease.fence < MaxFence /\ lease' = [fence |-> lease.fence + 1, live |-> TRUE]
  /\ UNCHANGED <<proposal, approval, application, receipt, tree, drive, edits, crashes, effects, shared>>

\* The fences that a request for a proposal can name.
Fences(p) == IF proposal[p].fence # 0 THEN 1..lease.fence ELSE {0}

DriveStep(d) ==
  \/ CheckPrecondition(d)
  \/ ApplyOne(d)
  \/ Verify(d)
  \/ FinalizeApplication(d)
  \/ AttachReceipt(d)

Next ==
  \/ \E p \in Proposals, ops \in Packets, mode \in ModesAllowed, f \in 0..lease.fence :
       Propose(p, ops, mode, f)
  \/ \E a \in Approvals, p \in Proposals, decision \in {"approved", "rejected"} : Approve(a, p, decision)
  \/ \E a \in Approvals : Expire(a)
  \/ \E d \in Drives, k \in Applications, p \in Proposals : proposal[p] # None /\
       \E f \in Fences(p) : BeginApplication(d, k, p, f)
  \/ \E d \in Drives, k \in Applications : application[k] # None /\
       \E f \in Fences(application[k].of) : ApplyAgain(d, k, f)
  \/ \E d \in Drives : DriveStep(d) \/ Crash(d)
  \/ \E p \in Paths : Edit(p)
  \/ LoseLease

Spec == Init /\ [][Next]_vars

\* Clients repeat an application that nobody drives until they get its outcome,
\* and a call that is not cut off goes on.
LiveSpec ==
  /\ Spec
  /\ \A d \in Drives : WF_vars(DriveStep(d))
  /\ \A k \in Applications : WF_vars(Driven(k) = {} /\ \E d \in Drives : ApplyAgain(d, k, 0))

------------------------------------------------------------------------------
(* Properties *)

\* The proposal shows what became of its application: it is applying or ended
\* exactly when there is an application, there is never a second one under
\* another key, and both rows have one status (BeginApplication,
\* FinalizeApplication; "one active application attempt per proposal identity").
ProposalFollowsApplication ==
  \A p \in Proposals :
    LET mine == {k \in Applications : application[k] # None /\ application[k].of = p} IN
    /\ Cardinality(mine) <= 1
    /\ mine = {} <=> (proposal[p] = None \/ proposal[p].status \in
                       {"awaiting_approval", "approved", "rejected"})
    /\ \A k \in mine : application[k].status = proposal[p].status

\* Nobody edited files, no other packet changed the same ones, and no two calls
\* drove the application together.
Undisturbed(k) ==
  LET p == application[k].of IN
  /\ edits = 0 /\ k \notin shared
  /\ \A q \in Proposals \ {p} : effects[q] # {} =>
       Affected(proposal[q].ops) \cap Affected(proposal[p].ops) = {}

\* The recorded outcome tells what happened to the files, across crashes and
\* repeated calls: applied means that every operation took effect,
\* recovery_required that some did, and failed, where nobody interfered, that none
\* did (unless the first is a change of mode, which a repeated call does not
\* notice).  A receipt exists for applied changes only.
OutcomeTellsEffects ==
  \A k \in Applications : application[k] # None =>
    LET p == application[k].of IN
    /\ application[k].status = "applied" => effects[p] = DOMAIN proposal[p].ops
    /\ k \in receipt => application[k].status = "applied"
    /\ application[k].status = "recovery_required" => effects[p] # {}
    /\ application[k].status = "failed" /\ Undisturbed(k) =>
         effects[p] = {} \/ proposal[p].ops[1].type = "chmod"

\* What the packets change in the tree was admitted: the automatic mode or an
\* approving decision came first, and no decision against it was recorded.
OnlyApprovedTouch ==
  \A p \in Proposals : effects[p] # {} =>
    LET decisions == {approval[a].decision : a \in {b \in Approvals : approval[b] # None /\ approval[b].of = p}} IN
    decisions = IF proposal[p].mode = "automatic" THEN {} ELSE {"approved"}

\* Decisions, rows and files tell the same story (the three parts above).
EffectsAccounted ==
  /\ TypeOK
  /\ ProposalFollowsApplication
  /\ OutcomeTellsEffects
  /\ OnlyApprovedTouch

\* Once the lease that a task-bound proposal names has ended, nothing starts or
\* finishes the application any more; and an outcome is final for everybody.
StaleOrEndedStays ==
  [][\A k \in Applications : application[k] # application'[k] =>
       LET p == application'[k].of IN
       /\ proposal[p].fence # 0 => proposal[p].fence = lease.fence /\ lease.live
       /\ application[k] # None => application[k].status = "applying"]_vars

\* An admitted application that no task binds gets an outcome, however often the
\* calls that drive it are cut off, as long as a client repeats it.
ApplicationsFinish ==
  \A k \in Applications :
    (application[k] # None /\ proposal[application[k].of].fence = 0)
      ~> (application[k] # None /\ ~StillApplying(k))

\* Service.Apply: "Multi-operation partial effects are classified as
\* recovery_required."  They are not when a later operation, or the first one
\* when the call is repeated after a crash, meets a precondition that fails.
ConflictedLeavesNothing ==
  \A k \in Applications :
    application[k] # None /\ application[k].status = "conflicted" /\ k \notin shared
      => effects[application[k].of] = {}

\* A packet that one call executes while nobody interferes is recorded applied.
\* A packet that deletes or renames is not: the predicted tree drops the old
\* path and the observed one lists it as absent.
ExecutedIsApplied ==
  \A d \in Drives : drive[d].pc = "finish" /\ Undisturbed(drive[d].app) /\ crashes = 0
    /\ drive[d].done = Len(RowOf(d).ops) => drive[d].outcome = "applied"

\* An approval that has expired admits nothing.  Its expiry is compared when the
\* decision is recorded and never again.
ExpiredAdmitsNothing ==
  [][\A a \in Approvals : approval[a] # None /\ approval[a].expired
       => (proposal[approval[a].of].status = "approved" => proposal'[approval[a].of].status = "approved")]_vars
=============================================================================
