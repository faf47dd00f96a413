----------------------------- MODULE ToolExecutor -----------------------------
(***************************************************************************)
(* internal/tool/executor.go over internal/store/tool_runs.go: a tool      *)
(* request is reserved under its idempotency key, admitted by policy and,  *)
(* where the policy asks for it, by an approval, started, executed, and    *)
(* finished.  Every store call is one transaction that locks the tool run; *)
(* between them any other caller may act.                                  *)
(*                                                                         *)
(* A key stands for a request.  Requests that differ only in their         *)
(* identity (RequestHash drops it) have the same HashOf.  A run has one    *)
(* approval (run_id is unique), so its key stands for that one as well.    *)
(* All runs are bound to one epoch of one task lease, live until TaskLost. *)
(*                                                                         *)
(* GetApproval looks what a request has as its approval_id up among the    *)
(* run_ids of approvals.  A request names the key a if it has the id of    *)
(* the run a; if it has the id of an approval, which is no run's, it finds *)
(* nothing, and that is NoKey like no id at all.                           *)
(***************************************************************************)
EXTENDS Naturals

CONSTANTS Callers,    \* concurrent calls of Execute
          Keys,       \* tool request identities
          ModeOf,     \* the mode of the policy rule that a request matches
          HashOf,     \* request hashes
          NoKey       \* no approval to be found, or no call in progress

VARIABLES toolRun,    \* fornix.tool_runs
          approval,   \* fornix.tool_approvals
          exec,       \* the progress of each caller's Execute
          taskLive,   \* the task lease epoch the runs are bound to is live
          ran         \* history: processes started for a key

\* "denied" is also what becomes of a request that no rule matches.
Modes == {"automatic", "interactive", "preapproved", "denied"}

ASSUME ToolExecutorAssumption ==
  /\ \A k \in Keys : ModeOf[k] \in Modes
  /\ NoKey \notin Keys

Terminal == {"succeeded", "failed", "denied"}

ToolStatus == {"absent", "pending", "awaiting_approval", "running"} \cup Terminal

ApprovalRow == [status : {"absent", "pending", "approved", "denied"}, expired : BOOLEAN]

Outcomes == {"succeeded", "failed", "denied", "retryable", "approval_required",
             "in_progress", "replayed", "error"}

\* lookup .. running: about to look a decision up, create the approval, check the
\* grant, check the fence, mark the run started, deny the run; in the process.
ExecRow == [pc : {"out", "lookup", "approve", "grant", "fence", "start", "deny", "running", "done"},
            key : Keys \cup {NoKey},
            grant : Keys \cup {NoKey},   \* the approval that will be read
            result : Outcomes \cup {"none"}]

Out == [pc |-> "out", key |-> NoKey, grant |-> NoKey, result |-> "none"]

Init ==
  /\ toolRun = [k \in Keys |-> "absent"]
  /\ approval = [k \in Keys |-> [status |-> "absent", expired |-> FALSE]]
  /\ exec = [c \in Callers |-> Out]
  /\ taskLive = TRUE
  /\ ran = [k \in Keys |-> 0]

TypeOK ==
  /\ toolRun \in [Keys -> ToolStatus]
  /\ approval \in [Keys -> ApprovalRow]
  /\ exec \in [Callers -> ExecRow]
  /\ taskLive \in BOOLEAN
  /\ ran \in [Keys -> Nat]

\* The next step of c's Execute, and its return.
Goto(c, pc) == exec' = [exec EXCEPT ![c] = [@ EXCEPT !.pc = pc]]

Return(c, result) ==
  exec' = [exec EXCEPT ![c] = [@ EXCEPT !.pc = "done", !.grant = NoKey, !.result = result]]

------------------------------------------------------------------------------
GrantedAnyRequest(a, k) == a # NoKey /\ approval[a].status = "approved" /\ ~approval[a].expired

\* What GetApproval finds under a admits the request k.
Granted(a, k) ==
  /\ a # NoKey
  /\ approval[a].status = "approved"
  /\ ~approval[a].expired
  /\ HashOf[a] = HashOf[k]

AdmissionOf(k) ==
  CASE ModeOf[k] = "automatic"   -> "fence"
    [] ModeOf[k] = "interactive" -> "approve"
    [] ModeOf[k] = "preapproved" -> "grant"
    [] ModeOf[k] = "denied"      -> "deny"

\* Reserve inserts the run: ON CONFLICT (workspace_id, idempotency_key) DO NOTHING.
ReservableUnlessStarted(k) == toolRun[k] \in {"absent", "pending"}

Reservable(k) == toolRun[k] = "absent"

\* Execute up to Reserve: the run is inserted, or it exists and is replayed, or it
\* waits and the request names an approval a.
Execute(c, k, a) ==
  /\ exec[c].pc = "out"
  /\ LET entered == [Out EXCEPT !.key = k] IN
     \/ /\ Reservable(k)
        /\ toolRun' = [toolRun EXCEPT ![k] = "pending"]
        /\ exec' = [exec EXCEPT ![c] = [entered EXCEPT !.pc = AdmissionOf(k),
             !.grant = IF ModeOf[k] = "preapproved" THEN a ELSE NoKey]]
     \/ /\ toolRun[k] = "awaiting_approval" /\ a # NoKey
        /\ exec' = [exec EXCEPT ![c] = [entered EXCEPT !.pc = "lookup", !.grant = a]]
        /\ UNCHANGED toolRun
     \/ /\ toolRun[k] \in Terminal
        /\ exec' = [exec EXCEPT ![c] = [entered EXCEPT !.pc = "done", !.result = "replayed"]]
        /\ UNCHANGED toolRun
     \/ /\ toolRun[k] \in {"pending", "awaiting_approval", "running"}
        /\ ~(toolRun[k] = "awaiting_approval" /\ a # NoKey)
        /\ exec' = [exec EXCEPT ![c] = [entered EXCEPT !.pc = "done", !.result = "in_progress"]]
        /\ UNCHANGED toolRun
  /\ UNCHANGED <<approval, taskLive, ran>>

\* GetApproval of a run that waits: it goes on if it is granted; if it is not, or
\* the read fails, the row that Reserve returned is in progress.
LookUp(c) ==
  /\ exec[c].pc = "lookup"
  /\ \/ /\ Granted(exec[c].grant, exec[c].key)
        /\ exec' = [exec EXCEPT ![c] = [@ EXCEPT !.pc = "fence", !.grant = NoKey]]
     \/ Return(c, "in_progress")
  /\ UNCHANGED <<toolRun, approval, taskLive, ran>>

\* CreateApproval: the run waits for a decision and Execute returns.
CreateApproval(c) ==
  LET k == exec[c].key IN
  /\ exec[c].pc = "approve"
  /\ approval' = [approval EXCEPT ![k] = [status |-> "pending", expired |-> FALSE]]
  /\ toolRun' = [toolRun EXCEPT ![k] = "awaiting_approval"]
  /\ Return(c, "approval_required")
  /\ UNCHANGED <<taskLive, ran>>

\* The mode pre_approved needs a grant that is given already, and can be read.
CheckGrant(c) ==
  /\ exec[c].pc = "grant"
  /\ \E next \in IF Granted(exec[c].grant, exec[c].key) THEN {"fence", "deny"} ELSE {"deny"} :
       exec' = [exec EXCEPT ![c] = [@ EXCEPT !.grant = NoKey, !.pc = next]]
  /\ UNCHANGED <<toolRun, approval, taskLive, ran>>

RecordedOver(k, status) == [toolRun EXCEPT ![k] = status]

\* ToolRunStore.Finish with the given status: a terminal run is left as it is, a
\* stale fence is an error that writes nothing.
Recorded(k, status) ==
  IF toolRun[k] \in Terminal THEN toolRun
  ELSE [toolRun EXCEPT ![k] = status]

MayRecord(k) == toolRun[k] \in Terminal \/ taskLive

\* finishDeniedRun, also reached through finishStale when the fence is stale or
\* MarkStarted returned an error.
Deny(c) ==
  LET k == exec[c].key IN
  /\ exec[c].pc = "deny"
  /\ \/ /\ MayRecord(k)
        /\ toolRun' = Recorded(k, "denied")
        /\ Return(c, "denied")
     \/ /\ ~MayRecord(k)
        /\ Return(c, "error")
        /\ UNCHANGED toolRun
  /\ UNCHANGED <<approval, taskLive, ran>>

\* ValidateTaskFence before the start.
CheckFence(c) ==
  /\ exec[c].pc = "fence"
  /\ Goto(c, IF taskLive THEN "start" ELSE "deny")
  /\ UNCHANGED <<toolRun, approval, taskLive, ran>>

\* MarkStarted: a terminal run is returned without an error and executed once
\* more.  A run that is running already cannot be started again: the event under
\* the run's one key "tool-started:<run>" would have to name attempt 2, which is
\* an idempotency conflict.
MarkStarted(c) ==
  LET k == exec[c].key
      startable == toolRun[k] # "running" /\ taskLive
  IN
  /\ exec[c].pc = "start"
  /\ \/ /\ toolRun[k] \in Terminal \/ startable
        /\ toolRun' = IF toolRun[k] \in Terminal THEN toolRun
                      ELSE [toolRun EXCEPT ![k] = "running"]
        /\ Goto(c, "running")
        /\ ran' = [ran EXCEPT ![k] = @ + 1]
     \/ /\ toolRun[k] \notin Terminal
        /\ ~startable
        /\ Goto(c, "deny")
        /\ UNCHANGED <<toolRun, ran>>
  /\ UNCHANGED <<approval, taskLive>>

\* What a process ends with: "retryable" is a timeout.
StatusAsTold(o) == o

StatusOf(o) == IF o = "succeeded" THEN "succeeded" ELSE "failed"

\* The process ends and Finish records it; the caller is told what the process
\* returned even when the row was finished by somebody else.
Finish(c, o) ==
  LET k == exec[c].key IN
  /\ exec[c].pc = "running"
  /\ \/ /\ MayRecord(k)
        /\ toolRun' = Recorded(k, StatusOf(o))
        /\ Return(c, o)
     \/ /\ ~MayRecord(k)
        /\ Return(c, "error")
        /\ UNCHANGED toolRun
  /\ UNCHANGED <<approval, taskLive, ran>>

\* The context of the call is cancelled or the database refuses: Execute returns
\* an error and leaves the rows where they are.  A process that is cancelled ends
\* as "cancelled", but Finish has the same context and cannot record it.
Interrupted(c) ==
  /\ exec[c].pc \notin {"out", "lookup", "done"}
  /\ Return(c, "error")
  /\ UNCHANGED <<toolRun, approval, taskLive, ran>>

\* DecideApproval.  An approval that expired cannot be decided any more; the
\* status "expired" is rolled back with the conflict it causes.
DecideApproval(k, decision) ==
  /\ approval[k].status = "pending"
  /\ ~approval[k].expired
  /\ approval' = [approval EXCEPT ![k] = [@ EXCEPT !.status = decision]]
  /\ UNCHANGED <<toolRun, exec, taskLive, ran>>

\* expires_at passes (nobody reads it of an approval that was denied).
ExpireApproval(k) ==
  /\ approval[k].status \in {"pending", "approved"}
  /\ ~approval[k].expired
  /\ approval' = [approval EXCEPT ![k] = [@ EXCEPT !.expired = TRUE]]
  /\ UNCHANGED <<toolRun, exec, taskLive, ran>>

\* The task lease expires, is released or is taken over: its epoch is over for
\* good (FencedLease).
TaskLost ==
  /\ taskLive
  /\ taskLive' = FALSE
  /\ UNCHANGED <<toolRun, approval, exec, ran>>

Step(c) ==
  \/ LookUp(c)
  \/ CreateApproval(c)
  \/ CheckGrant(c)
  \/ Deny(c)
  \/ CheckFence(c)
  \/ MarkStarted(c)
  \/ \E o \in {"succeeded", "failed", "retryable"} : Finish(c, o)
  \/ Interrupted(c)

Environment ==
  \/ \E k \in Keys, decision \in {"approved", "denied"} : DecideApproval(k, decision)
  \/ \E k \in Keys : ExpireApproval(k)
  \/ TaskLost

\* The server's callers: the tool endpoint, which takes any approval_id from its
\* request, the id of a run among them, one call after another.
Answered(c) ==
  /\ exec[c].pc = "done"
  /\ exec' = [exec EXCEPT ![c] = Out]
  /\ UNCHANGED <<toolRun, approval, taskLive, ran>>

CallerStep(c) ==
  \/ \E k \in Keys, a \in {b \in Keys : approval[b].status # "absent"} \cup {NoKey} :
       Execute(c, k, a)
  \/ Step(c)
  \/ Answered(c)

Next == (\E c \in Callers : CallerStep(c)) \/ Environment

vars == <<toolRun, approval, exec, taskLive, ran>>

Spec == Init /\ [][Next]_vars

------------------------------------------------------------------------------
\* Nothing is executed that policy did not admit: a request of an interactive or
\* pre-approved rule runs only when an approval for the same request hash was
\* granted, one that is denied never runs.
AdmittedBeforeRun ==
  \A k \in Keys : ran[k] > 0 =>
    \/ ModeOf[k] = "automatic"
    \/ /\ ModeOf[k] \in {"interactive", "preapproved"}
       /\ \E a \in Keys : approval[a].status = "approved" /\ HashOf[a] = HashOf[k]

\* A request that needs no decision is executed at most once, whoever sends it
\* again and whenever its first caller dies.
UndecidedRunsOnce ==
  \A k \in Keys : ModeOf[k] # "interactive" => ran[k] <= 1

\* What such a caller is told about its process is what the row says for good.
ToldWhatIsRecorded ==
  \A c \in Callers :
    exec[c].pc = "done" /\ ModeOf[exec[c].key] # "interactive" =>
      /\ exec[c].result \in {"succeeded", "failed", "retryable"} =>
           toolRun[exec[c].key] = StatusOf(exec[c].result)
      /\ exec[c].result = "denied" => toolRun[exec[c].key] = "denied"

\* A finished run keeps its outcome although other calls start, fail, deny or
\* finish the same run later.
TerminalRowsStay ==
  [][\A k \in Keys : toolRun[k] \in Terminal => toolRun'[k] = toolRun[k]]_vars

\* docs/32: an interactive approval resumes without executing the tool twice.
ApprovedRunsOnce == \A k \in Keys : ran[k] <= 1

==============================================================================
