------------------------------- MODULE AgentRun -------------------------------
(***************************************************************************)
(* One agent run: the loop of internal/agentloop/loop.go, its checkpoints  *)
(* in internal/store/agent_runs.go, the worker leases of agent_run_        *)
(* scheduler.go and the workers of internal/scheduler/worker.go, together  *)
(* with the model gateway and the tool executor they call.                 *)
(*                                                                         *)
(* A driver is a worker, which claims the run under a fenced lease, or a   *)
(* client, an HTTP request that drives it without one.  A driver reads the *)
(* run, may call the gateway or the executor, and commits one transition   *)
(* by compare-and-swap on the version it read.  Any number of drivers do   *)
(* this at once; each of them may die between any two steps.               *)
(*                                                                         *)
(* Token, cost and byte budgets are abstract: a response is too costly or  *)
(* not, and a step may find its budget spent.  The phase counter of Run    *)
(* is left out: it is larger than any run within its other budgets can     *)
(* use up in one call.                                                     *)
(***************************************************************************)
EXTENDS Naturals, Sequences, FiniteSets, Functions

CONSTANTS
  Workers, Clients,       \* the processes that drive the run
  NoOwner,                \* owner of a lease that was never granted
  Responses,              \* what the provider may answer
  CallsOf,                \* the tool calls that a response asks for
  TooCostly,              \* responses over the token or cost budget
  CallIds,                \* tool call ids
  PolicyMode,             \* the mode of the policy rule for a call
  Unusable,               \* calls of unregistered tools or with malformed arguments
  NoKey,                  \* no approval id, no tool call
  Lookups,                \* whether GetApproval finds an approval by its own id
  Observed,               \* an observability ledger is attached (server.go:191)
  MaxTurns, MaxModelSteps, MaxToolCalls, MaxToolAttempts,   \* the run's budget
  MaxProviderAttempts,    \* RetryPolicy.MaxAttempts
  MaxFence,               \* bound on the grants of the lease
  ReservedGrants,         \* grants kept for Reliable workers once the clock has passed
  MaxVersion,             \* bound on the version at which WaitExternal is called
  Reliable                \* workers that live, renew in time and lose no statement

ASSUME AgentRunAssumption ==
  /\ Workers \cap Clients = {}
  /\ NoOwner \notin Workers
  /\ Reliable \subseteq Workers
  /\ Responses \cap {"retryable", "fatal", "error", "none"} = {}
  /\ \A r \in Responses : CallsOf[r] \in Seq(CallIds)
  /\ {MaxTurns, MaxModelSteps, MaxToolCalls, MaxToolAttempts, MaxProviderAttempts,
      MaxFence, ReservedGrants, MaxVersion} \subseteq Nat
  /\ MaxProviderAttempts > 0
  /\ Lookups \subseteq BOOLEAN /\ Lookups # {}

VARIABLES
  run,      \* fornix.agent_runs
  lease,    \* fornix.agent_run_worker_leases
  loop,     \* the progress of each driver
  late,     \* the wall clock budget of the run is over
  call, gate, invoked,                        \* ModelGateway
  toolRun, approval, exec, taskLive, ran      \* ToolExecutor

runVars   == <<run, lease, loop, late>>
modelVars == <<call, gate, invoked>>
toolVars  == <<toolRun, approval, exec, taskLive, ran>>
vars      == <<runVars, modelVars, toolVars>>

Drivers == Workers \cup Clients

ModelKeys == 1..MaxModelSteps
ToolKeys  == CallIds \X (1..MaxToolAttempts)

Models == INSTANCE ModelGateway
  WITH Callers <- Drivers, Keys <- ModelKeys, MaxAttempts <- MaxProviderAttempts

\* RequestHash drops the identity of a request, so the attempts of a call share it.
Tools == INSTANCE ToolExecutor
  WITH Callers <- Drivers, Keys <- ToolKeys,
       ModeOf <- [k \in ToolKeys |-> PolicyMode[k[1]]],
       HashOf <- [k \in ToolKeys |-> k[1]]

ASSUME ModesAssumption == \A id \in CallIds : PolicyMode[id] \in Tools!Modes

Lease == INSTANCE FencedLease
  WITH Owners <- Workers,
       fence <- lease.fence, owner <- lease.owner, state <- lease.state

TerminalStates == {"succeeded", "failed", "cancelled"}

Waiting == {"awaiting_approval", "awaiting_retry", "awaiting_external"}

States == {"absent", "pending", "running"} \cup Waiting \cup TerminalStates

Terminations == {"none", "completed", "budget", "abstained", "model", "tool", "cancelled"}

Operations == {"run", "advance", "cancel", "wait", "complete"}

\* What a step is about to commit; "model" and "tool" have an effect first.
Intents == {"leave", "cancel", "wait", "complete", "late", "denied", "resume",
            "compile", "abstain", "spent", "unusable", "model", "tool"}

\* The retry time is reduced to whether it has passed.  A pending tool call has
\* its attempts so far and the key of the tool run whose approval it waits for.
NoRun == [state |-> "absent", version |-> 0, turn |-> 0, attempts |-> 0, asked |-> 0,
          compiled |-> FALSE, pending |-> <<>>, why |-> "none", due |-> TRUE,
          history |-> <<>>]

Idle == [pc |-> "idle", op |-> "run", intent |-> "leave", fence |-> 0, snap |-> NoRun]

Init ==
  /\ run = NoRun
  /\ lease = [fence |-> 0, owner |-> NoOwner, state |-> "none"]
  /\ loop = [d \in Drivers |-> Idle]
  /\ late = FALSE
  /\ Models!Init
  /\ Tools!Init

------------------------------------------------------------------------------
(* The worker lease.                                                       *)

HoldsLeaseAnyFence(w) == lease.owner = w /\ lease.state = "active"

\* validateAgentRunLeaseTx.
HoldsLease(w) ==
  /\ lease.owner = w
  /\ lease.fence = loop[w].fence
  /\ lease.state = "active"

\* validateWorkerLease before a step; a client has the task fence checked.
Admitted(d) == IF d \in Workers THEN HoldsLease(d) ELSE taskLive

ClaimableUnlessWaiting == run.state \in {"pending", "running"}

\* The candidates of ClaimNextAgentRun.
Claimable ==
  \/ run.state \in {"pending", "running"}
  \/ run.state = "awaiting_retry" /\ run.due
  \/ run.state = "awaiting_approval" /\ approval[run.pending[1].approval].status = "approved"

SameFence == lease.fence

NextFence == lease.fence + 1

Claim(w) ==
  /\ loop[w].pc = "idle"
  /\ Claimable
  /\ lease.state # "active"
  /\ \/ lease.fence + ReservedGrants < MaxFence
     \/ late /\ w \in Reliable /\ lease.fence < MaxFence
  /\ lease' = [fence |-> NextFence, owner |-> w, state |-> "active"]
  /\ loop' = [loop EXCEPT ![w] = [Idle EXCEPT !.pc = "load", !.fence = NextFence]]
  /\ UNCHANGED <<run, late, modelVars, toolVars>>

\* Reserve, of a client that may die before it calls Run; the same request
\* again finds the row.
Create ==
  /\ run.state = "absent"
  /\ run' = [NoRun EXCEPT !.state = "pending", !.version = 1]
  /\ UNCHANGED <<lease, loop, late, modelVars, toolVars>>

\* A client calls an operation of the loop.
Request(c, op) ==
  /\ loop[c].pc = "idle"
  /\ run.state # "absent"
  /\ op = "wait" => run.version < MaxVersion
  /\ loop' = [loop EXCEPT ![c] = [Idle EXCEPT !.pc = "load", !.op = op]]
  /\ UNCHANGED <<run, lease, late, modelVars, toolVars>>

------------------------------------------------------------------------------
(* Advance: read the run, choose the step, call out, commit.               *)

\* What Advance does with a run that waits.
WaitingIntents ==
  LET decision == approval[run.pending[1].approval].status IN
  CASE run.state = "awaiting_external" -> {"leave"}
    [] run.state = "awaiting_retry"    -> IF run.due THEN {"resume"} ELSE {"leave"}
    [] run.state = "awaiting_approval" ->
         {CASE found /\ decision = "approved" -> "tool"
            [] found /\ decision = "denied"   -> "denied"
            [] OTHER                          -> "leave" : found \in Lookups}

\* What Advance may do; several steps where a budget decides.
AdvanceIntents ==
  IF late THEN {"late"}
  ELSE IF run.state \in Waiting THEN WaitingIntents
  ELSE IF run.pending # <<>> THEN
    IF run.pending[1].id \in Unusable \/ run.pending[1].attempt >= MaxToolAttempts
      THEN {"unusable"} ELSE {"tool"}
  ELSE IF ~run.compiled THEN {"compile", "abstain"}
  ELSE IF run.turn >= MaxTurns \/ run.attempts >= MaxModelSteps THEN {"spent"}
  ELSE {"model", "spent", "abstain"}

\* What the operation that d was called for may do with the row it reads.
IntentsOf(d) ==
  IF run.state \in TerminalStates THEN {"leave"}
  ELSE CASE loop[d].op \in {"cancel", "wait"} -> {loop[d].op}
         [] loop[d].op \in {"run", "advance"} -> AdvanceIntents
         [] loop[d].op = "complete" ->
              IF run.state = "awaiting_external" THEN {"complete", "spent"} ELSE {"leave"}

Load(d) ==
  /\ loop[d].pc = "load"
  /\ \E intent \in IF Admitted(d) THEN IntentsOf(d) ELSE {"leave"} :
       loop' = [loop EXCEPT ![d] = [@ EXCEPT !.intent = intent,
         !.pc = CASE intent = "leave" -> "leave"
                  [] intent \in {"model", "tool"} -> "call"
                  [] OTHER -> "commit",
         !.snap = IF intent = "leave" THEN NoRun ELSE run]]
  /\ UNCHANGED <<run, lease, late, modelVars, toolVars>>

ToCommit(d) == loop' = [loop EXCEPT ![d] = [@ EXCEPT !.pc = "commit"]]

\* advanceModel calls the gateway under the key of the next attempt.
CallModel(d) ==
  /\ loop[d].pc = "call" /\ loop[d].intent = "model"
  /\ Models!Begin(d, loop[d].snap.attempts + 1)
  /\ ToCommit(d)
  /\ UNCHANGED <<run, lease, late, toolVars>>

ToolKey(r) == <<r.pending[1].id, r.pending[1].attempt + 1>>

\* advanceTool; the approval is named only when the run waited for it, and had its
\* approval read under the same id.
CallTool(d) ==
  LET r == loop[d].snap IN
  /\ loop[d].pc = "call" /\ loop[d].intent = "tool"
  /\ Tools!Execute(d, ToolKey(r),
       IF r.state = "awaiting_approval" THEN r.pending[1].approval ELSE NoKey)
  /\ ToCommit(d)
  /\ UNCHANGED <<run, lease, late, modelVars>>

\* The gateway or the executor works on the call of d.
EffectStep(d) ==
  \/ Models!Step(d) /\ UNCHANGED <<runVars, toolVars>>
  \/ Tools!Step(d) /\ UNCHANGED <<runVars, modelVars>>

Returned(d) ==
  /\ loop[d].pc = "commit"
  /\ loop[d].intent = "model" => gate[d].pc = "done"
  /\ loop[d].intent = "tool" => exec[d].pc = "done"

------------------------------------------------------------------------------
(* The transitions.                                                        *)

\* failWithAttempt and failWithTool.  Nobody reads the retry time of a terminal run.
Failed(r, why, attempts) ==
  [r EXCEPT !.state = "failed", !.why = why, !.pending = <<>>, !.attempts = attempts,
            !.due = TRUE]

Message(kind, id, attempt, what) ==
  [kind |-> kind, id |-> id, attempt |-> attempt, what |-> what]

\* The budget checks of a response.
Affordable(r, response) ==
  response \notin TooCostly /\ r.asked + Len(CallsOf[response]) <= MaxToolCalls

\* advanceModel after Complete returned.
AfterModel(r, result) ==
  LET n == r.attempts + 1
      calls == CallsOf[result]
  IN
  CASE result \in Responses /\ ~Affordable(r, result) -> Failed(r, "budget", n)
    [] result \in Responses /\ Affordable(r, result) ->
         [r EXCEPT !.state = IF calls = <<>> THEN "succeeded" ELSE "running",
                   !.why = IF calls = <<>> THEN "completed" ELSE "none",
                   !.turn = @ + 1, !.attempts = n, !.asked = @ + Len(calls),
                   !.history = Append(@, Message("model", NoKey, n, result)),
                   !.pending = [i \in DOMAIN calls |->
                     [id |-> calls[i], attempt |-> 0, approval |-> NoKey]]]
    [] result = "retryable" /\ n < MaxModelSteps ->
         [r EXCEPT !.state = "awaiting_retry", !.attempts = n, !.due = FALSE]
    [] OTHER -> Failed(r, "model", n)

\* The answer to the first pending call joins the transcript.
Appended(r, result) ==
  Append(r.history, Message("tool", r.pending[1].id, r.pending[1].attempt + 1, result))

AnsweredAgain(r, result) == [r EXCEPT !.state = "running", !.history = Appended(r, result)]

Answered(r, result) ==
  [r EXCEPT !.state = "running", !.history = Appended(r, result), !.pending = Tail(@)]

\* The run waits for a decision on the first pending call.
Paused(r) == [r EXCEPT !.state = "awaiting_approval", !.pending[1].approval = ToolKey(r)]

ResultsEvenUnfinished == {"succeeded", "replayed", "in_progress"}

\* A replayed run is a result whatever its status.
Results == {"succeeded", "replayed"}

\* advanceTool after Execute returned.  A call that is in progress elsewhere, or
\* an error, commits nothing.
AfterTool(r, result) ==
  LET n == r.pending[1].attempt + 1 IN
  CASE result \in Results -> {Answered(r, result)}
    [] result = "approval_required" -> {Paused(r)}
    [] result = "retryable" /\ n < MaxToolAttempts ->
         {[r EXCEPT !.state = "awaiting_retry", !.pending[1].attempt = n, !.due = FALSE]}
    [] result \in {"in_progress", "error"} \ Results -> {}
    [] OTHER -> {Failed(r, "tool", r.attempts)}

\* The row that d is about to commit, if any.
Transition(d) ==
  LET r == loop[d].snap
      intent == loop[d].intent
  IN
  CASE intent = "model"    -> {AfterModel(r, gate[d].result)}
    [] intent = "tool"     -> AfterTool(r, exec[d].result)
    [] intent = "compile"  -> {[r EXCEPT !.compiled = TRUE]}
    [] intent = "abstain"  -> {Failed(r, "abstained", r.attempts)}
    [] intent = "resume"   -> {[r EXCEPT !.state = "running", !.due = TRUE]}
    [] intent = "wait"     -> {[r EXCEPT !.state = "awaiting_external", !.due = TRUE]}
    [] intent = "complete" ->
         {[r EXCEPT !.state = "succeeded", !.why = "completed", !.turn = @ + 1,
                    !.history = Append(@, Message("external", NoKey, 0, "none"))]}
    [] intent = "cancel"   ->
         {[r EXCEPT !.state = "cancelled", !.why = "cancelled", !.pending = <<>>, !.due = TRUE]}
    [] intent \in {"denied", "unusable"} -> {Failed(r, "tool", r.attempts)}
    [] intent \in {"late", "spent"}      -> {Failed(r, "budget", r.attempts)}

------------------------------------------------------------------------------
(* AgentRunStore.commit.                                                   *)

AnyVersion(d) == TRUE

SameVersion(d) == run.version = loop[d].snap.version

\* The observation that is written with every checkpoint has the state as its
\* outcome, and a waiting state is no valid outcome (validObservationOutcome).
Observable(next) == Observed => next.state \notin Waiting

Accepted(d, next) ==
  /\ SameVersion(d)
  /\ taskLive
  /\ d \in Workers => HoldsLease(d)
  /\ Observable(next)

\* What the driver keeps once a step is over; Run goes on after an advance.
After(d, pc) ==
  /\ loop' = [loop EXCEPT ![d] = [@ EXCEPT !.pc = pc, !.intent = "leave", !.snap = NoRun]]
  /\ gate' = [gate EXCEPT ![d] = Models!Out]
  /\ exec' = [exec EXCEPT ![d] = Tools!Out]

Commit(d) ==
  /\ Returned(d)
  /\ \E next \in Transition(d) :
       /\ Accepted(d, next)
       /\ run' = [next EXCEPT !.version = @ + 1]
       /\ After(d, IF loop[d].op = "run" /\ next.state \in {"pending", "running"}
                     THEN "load" ELSE "leave")
  /\ UNCHANGED <<lease, late, call, invoked, toolRun, approval, taskLive, ran>>

\* The commit is an error, or there is nothing to commit: the operation returns.
Refused(d) ==
  /\ Returned(d)
  /\ \A next \in Transition(d) : ~Accepted(d, next)
  /\ After(d, "leave")
  /\ UNCHANGED <<run, lease, late, call, invoked, toolRun, approval, taskLive, ran>>

\* A worker releases its lease when Run has returned.
Leave(d) ==
  /\ loop[d].pc = "leave"
  /\ loop' = [loop EXCEPT ![d] = Idle]
  /\ lease' = IF d \in Workers /\ HoldsLease(d)
                THEN [lease EXCEPT !.state = "released"] ELSE lease
  /\ UNCHANGED <<run, late, modelVars, toolVars>>

\* The context is cancelled (a heartbeat failed, a client went away) or a
\* statement fails; nothing after that statement happens.
Abort(d) ==
  /\ loop[d].pc \in {"load", "call", "commit"}
  /\ d \notin Reliable
  /\ After(d, "leave")
  /\ UNCHANGED <<run, lease, late, call, invoked, toolRun, approval, taskLive, ran>>

\* The process dies.
Crash(d) ==
  /\ loop[d].pc # "idle"
  /\ d \notin Reliable
  /\ loop' = [loop EXCEPT ![d] = Idle]
  /\ gate' = [gate EXCEPT ![d] = Models!Out]
  /\ exec' = [exec EXCEPT ![d] = Tools!Out]
  /\ UNCHANGED <<run, lease, late, call, invoked, toolRun, approval, taskLive, ran>>

------------------------------------------------------------------------------
(* Clocks and people.                                                      *)

Expire ==
  /\ lease.state = "active"
  /\ lease.owner \notin Reliable
  /\ lease' = [lease EXCEPT !.state = "expired"]
  /\ UNCHANGED <<run, loop, late, modelVars, toolVars>>

\* next_retry_at passes.
Due ==
  /\ ~run.due
  /\ run' = [run EXCEPT !.due = TRUE]
  /\ UNCHANGED <<lease, loop, late, modelVars, toolVars>>

\* created_at + MaxWallTimeMS passes.
Late ==
  /\ ~late
  /\ late' = TRUE
  /\ UNCHANGED <<run, lease, loop, modelVars, toolVars>>

Environment == Tools!Environment /\ UNCHANGED <<runVars, modelVars>>

\* What a driver does to get a step done.
Advance(d) ==
  \/ Load(d)
  \/ CallModel(d)
  \/ CallTool(d)
  \/ EffectStep(d)
  \/ Commit(d)
  \/ Refused(d)
  \/ Leave(d)

Next ==
  \/ Create
  \/ \E w \in Workers : Claim(w)
  \/ \E c \in Clients, op \in Operations : Request(c, op)
  \/ \E d \in Drivers : Advance(d) \/ Abort(d) \/ Crash(d)
  \/ Expire
  \/ Due
  \/ Late
  \/ Environment

Spec == Init /\ [][Next]_vars

\* The clocks go on, and a Reliable worker polls and gets on with what it claimed.
LiveSpec ==
  /\ Spec
  /\ WF_vars(Expire) /\ WF_vars(Due) /\ WF_vars(Late)
  /\ \A w \in Reliable : SF_vars(Claim(w)) /\ WF_vars(Advance(w))

------------------------------------------------------------------------------
(* Properties.                                                             *)

PendingCall == [id : CallIds, attempt : 0..MaxToolAttempts, approval : ToolKeys \cup {NoKey}]

RunRow(r) ==
  /\ r.state \in States
  /\ r.version \in Nat /\ r.turn \in Nat /\ r.asked \in 0..MaxToolCalls
  /\ r.attempts \in 0..MaxModelSteps
  /\ r.compiled \in BOOLEAN /\ r.due \in BOOLEAN
  /\ r.why \in Terminations
  /\ r.pending \in Seq(PendingCall)
  /\ r.state = "awaiting_approval" =>
       r.pending # <<>> /\ r.pending[1].approval \in ToolKeys

TypeOK ==
  /\ RunRow(run)
  /\ Lease!TypeOK
  /\ late \in BOOLEAN
  /\ \A d \in Drivers :
       /\ loop[d].pc \in {"idle", "load", "call", "commit", "leave"}
       /\ loop[d].op \in Operations
       /\ loop[d].intent \in Intents
       /\ loop[d].fence \in Nat
       /\ RunRow(loop[d].snap)
  /\ Models!TypeOK
  /\ Tools!TypeOK

\* The messages i + 1 to j answer the first calls of the response i, in its order.
Replied(history, i, j) ==
  LET calls == CallsOf[history[i].what] IN
  /\ history[i].kind = "model"
  /\ i <= j /\ j - i <= Len(calls)
  /\ \A n \in 1..(j - i) : history[i + n].kind = "tool" /\ history[i + n].id = calls[n]

\* Of the first j messages every call is answered.
AllReplied(history, j) ==
  j = 0 \/ \E i \in 1..j : Replied(history, i, j) /\ j - i = Len(CallsOf[history[i].what])

\* What is pending is what the first j messages leave unanswered.
PendingLeft(pending, history, j) ==
  \/ j = 0 /\ pending = <<>>
  \/ \E i \in 1..j :
       LET calls == CallsOf[history[i].what] IN
       /\ Replied(history, i, j)
       /\ Len(pending) = Len(calls) - (j - i)
       /\ \A n \in 1..Len(pending) : pending[n].id = calls[j - i + n]

\* Where a history ends but for the result that completed the run from outside.
Spoken(history) ==
  IF history # <<>> /\ history[Len(history)].kind = "external" THEN Len(history) - 1 ELSE Len(history)

\* The transcript that goes to the provider is in order whatever drivers wrote
\* it: every call is answered once, in the order of asking, before the model is
\* asked again, and what is pending is what is not answered.
TranscriptInOrder ==
  /\ \A j \in DOMAIN run.history :
       /\ run.history[j].kind = "tool" => \E i \in 1..j : Replied(run.history, i, j)
       /\ run.history[j].kind = "model" => AllReplied(run.history, j - 1)
       /\ run.history[j].kind = "external" => j = Len(run.history) /\ run.state = "succeeded"
  /\ run.state \notin {"failed", "cancelled"} =>
       PendingLeft(run.pending, run.history, Spoken(run.history))

\* Every message stands for an effect that a ledger recorded: a response is the
\* one the ledger has under its key and no key is used twice, an answer belongs
\* to a finished tool run.
TranscriptFromLedgers ==
  /\ \A i \in DOMAIN run.history :
       LET m == run.history[i] IN
       /\ m.kind = "model" => call[m.attempt] = [status |-> "succeeded", result |-> m.what]
       /\ m.kind = "tool" => toolRun[<<m.id, m.attempt>>] \in Tools!Terminal
  /\ \A i, j \in DOMAIN run.history :
       i < j /\ run.history[i].kind = "model" /\ run.history[j].kind = "model" =>
         run.history[i].attempt < run.history[j].attempt

Responding(history) == {i \in DOMAIN history : history[i].kind = "model"}

\* The calls that a history asks for, each at its place.
AskedIn(history) == UNION {{i} \X DOMAIN CallsOf[history[i].what] : i \in Responding(history)}

Asked(history, id) == \E i \in Responding(history) : id \in Range(CallsOf[history[i].what])

\* No process runs for a call that no committed response asked for, nor a second
\* attempt of a call before the first one ended.
ToolsAfterCheckpoint ==
  \A k \in ToolKeys : ran[k] > 0 =>
    /\ Asked(run.history, k[1])
    /\ k[2] > 1 => toolRun[<<k[1], k[2] - 1>>] \in Tools!Terminal

\* The budgets hold for all drivers together, in the run and in what was done.
BudgetsHold ==
  /\ Cardinality(Responding(run.history)) <= MaxTurns
  /\ Cardinality(AskedIn(run.history)) <= MaxToolCalls
  /\ Models!OneExecutorPerKey

\* Run, model ledger, tool ledger and effects tell the same story, whatever
\* drivers crashed or overtook each other (the four parts above).
LedgersAgree ==
  /\ TypeOK
  /\ TranscriptInOrder
  /\ TranscriptFromLedgers
  /\ ToolsAfterCheckpoint
  /\ BudgetsHold

\* The provider is called only for a step whose predecessors are in the run: no
\* driver is ahead of the checkpoint by more than the one call in flight.
OneCallAhead ==
  \A k \in ModelKeys : call[k].status # "absent" => k <= run.attempts + 1

\* A terminal run is never changed, in particular not by a driver that was in a
\* call when another one finished or cancelled it.
TerminalForever == [][run.state \in TerminalStates => run' = run]_vars

\* The worker lease is a fenced lease.
LeaseContract == Lease!Spec

\* docs/32: a duplicate delivery makes one transition and one model effect.  A
\* run is not failed for the model while the provider still works on the call.
NotFailedMidCall ==
  run.state = "failed" /\ run.why = "model" =>
    \A d \in Drivers : gate[d].pc = "provider" => gate[d].key # run.attempts

\* docs/32: retries, approvals and waits are durable states: a transition is
\* refused only to a driver that was overtaken or lost a lease.
CurrentTransitionCommits ==
  [][\A d \in Drivers :
       Refused(d) /\ Transition(d) # {} =>
         ~SameVersion(d) \/ ~taskLive \/ (d \in Workers /\ ~HoldsLease(d))]_vars

\* docs/32: approval "is resumed by the same deterministic tool-call identity": an
\* call that is approved is taken up by the next worker that reads the run in time.
ApprovedIsResumed ==
  [][\A w \in Reliable :
       /\ run.state = "awaiting_approval" /\ approval[run.pending[1].approval].status = "approved"
       /\ Load(w) /\ Admitted(w) /\ ~late
       => loop'[w].intent = "tool"]_vars

\* A run that has something to do does not stay like that: it ends or waits for
\* somebody outside, unless the task it works for was lost.
RunsSettle ==
  run.state \in {"pending", "running", "awaiting_retry"} ~>
    (run.state \notin {"pending", "running", "awaiting_retry"} \/ ~taskLive)
================================================================================
