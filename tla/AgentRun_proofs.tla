---------------------------- MODULE AgentRun_proofs ----------------------------
(***************************************************************************)
(* Proofs about AgentRun for every set of drivers, every provider and      *)
(* every budget.  The invariant says what a driver's old copy of the row   *)
(* still tells about the row: unless the version moved on, the run is      *)
(* where the driver left it.                                               *)
(* The second part adds the ledgers of models and tools: what a driver was *)
(* told stays recorded, so what it commits goes on with the transcript.    *)
(***************************************************************************)
EXTENDS AgentRun, FiniteSetTheorems, TLAPS

------------------------------------------------------------------------------
\* The worker lease

\* What a step of AgentRun is for the lease.
LEMMA StepLease == [Next]_vars => [Lease!Next]_(Lease!vars)
<1> SUFFICES ASSUME [Next]_vars PROVE [Lease!Next]_(Lease!vars)
  OBVIOUS
<1> USE DEF Lease!vars
<1>1. CASE UNCHANGED lease
  BY <1>1
<1>2. ASSUME NEW w \in Workers, Claim(w) PROVE Lease!Next
  BY <1>2 DEF Claim, NextFence, Lease!Next, Lease!Grant
<1>3. ASSUME NEW d \in Drivers, Leave(d) PROVE Lease!Next \/ UNCHANGED lease
  <2>1. CASE d \in Workers /\ HoldsLease(d)
    BY <1>3, <2>1 DEF Leave, HoldsLease, Lease!Next, Lease!Release
  <2> QED BY <1>3, <2>1 DEF Leave
<1>4. CASE Expire
  BY <1>4 DEF Expire, Lease!Next, Lease!Expire
<1>5. ASSUME NEW d \in Drivers,
             Load(d) \/ CallModel(d) \/ CallTool(d) \/ EffectStep(d) \/ Commit(d)
               \/ Refused(d) \/ Abort(d) \/ Crash(d)
      PROVE  UNCHANGED lease
  BY <1>5 DEF Load, CallModel, CallTool, EffectStep, Commit, Refused, Abort, Crash, runVars
<1>6. CASE Create \/ Due \/ Late \/ Environment \/ \E c \in Clients, op \in Operations : Request(c, op)
  BY <1>6 DEF Create, Due, Late, Environment, Request, runVars
<1> QED BY <1>1, <1>2, <1>3, <1>4, <1>5, <1>6 DEF Next, Advance, vars, runVars

\* The lease of a run is a FencedLease, whatever its holder and others do.
THEOREM RunLeaseRefines == Spec => LeaseContract
<1>1. Init => Lease!Init
  BY DEF Init, Lease!Init
<1> QED BY <1>1, StepLease, PTL DEF Spec, LeaseContract, Lease!Spec

------------------------------------------------------------------------------
\* The rows that a driver may commit

\* Values of the rows, without the bounds that TypeOK adds.
Calls == [id : CallIds, attempt : Nat, approval : (CallIds \X Nat) \cup {NoKey}]

Messages == [kind : {"model", "tool", "external"}, id : CallIds \cup {NoKey}, attempt : Nat,
             what : Responses \cup Results \cup {"none"}]

Rows == [state : States, version : Nat, turn : Nat, attempts : Nat, asked : Nat,
         compiled : BOOLEAN, pending : Seq(Calls), why : Terminations, due : BOOLEAN,
         history : Seq(Messages)]

\* What commits rely on: a run waits for an approval only of a pending call, and
\* only a retry has a time to wait for.
Sound(r) ==
  /\ r \in Rows
  /\ r.state = "awaiting_approval" => r.pending # <<>>
  /\ r.state # "awaiting_retry" => r.due

\* A row that may follow r: the store counts the version, the attempts never go back.
Follows(next, r) ==
  /\ Sound(next)
  /\ next.state # "absent"
  /\ next.version = r.version
  /\ next.attempts >= r.attempts

LEMMA FailedFollows ==
  ASSUME NEW r, Sound(r), NEW why \in Terminations, NEW n \in Nat, n >= r.attempts
  PROVE  Follows(Failed(r, why, n), r)
<1> DEFINE next == Failed(r, why, n)
<1>1. <<>> \in Seq(Calls) /\ "failed" \in States
  BY DEF States, TerminalStates
<1>2. next \in Rows /\ next.version = r.version /\ next.attempts = n
      /\ next.state = "failed" /\ next.due
  BY <1>1 DEF Failed, Sound, Rows
<1> QED BY <1>2 DEF Follows, Sound

\* The calls of a response become pending.
LEMMA PendingCalls ==
  ASSUME NEW calls \in Seq(CallIds)
  PROVE  [i \in DOMAIN calls |-> [id |-> calls[i], attempt |-> 0, approval |-> NoKey]] \in Seq(Calls)
<1>1. Len(calls) \in Nat /\ DOMAIN calls = 1..Len(calls)
  OBVIOUS
<1>2. \A i \in 1..Len(calls) : [id |-> calls[i], attempt |-> 0, approval |-> NoKey] \in Calls
  BY DEF Calls
<1> QED BY <1>1, <1>2

LEMMA AfterModelFollows ==
  ASSUME NEW r, Sound(r), r.state # "awaiting_retry", NEW result
  PROVE  Follows(AfterModel(r, result), r)
<1> DEFINE n == r.attempts + 1
           calls == CallsOf[result]
           pending == [i \in DOMAIN calls |-> [id |-> calls[i], attempt |-> 0, approval |-> NoKey]]
<1>0. r \in Rows /\ n \in Nat /\ n >= r.attempts
  <2>1. r.attempts \in Nat
    BY DEF Sound, Rows
  <2> QED BY <2>1 DEF Sound
<1>1. CASE result \in Responses /\ ~Affordable(r, result)
  <2>1. AfterModel(r, result) = Failed(r, "budget", n)
    BY <1>1, AgentRunAssumption DEF AfterModel
  <2> QED BY <1>0, <2>1, FailedFollows DEF Terminations
<1>2. CASE result \in Responses /\ Affordable(r, result)
  <2>1. calls \in Seq(CallIds) /\ Len(calls) \in Nat
    BY <1>2, AgentRunAssumption
  <2>2. pending \in Seq(Calls)
    BY <2>1, PendingCalls
  <2>3. Message("model", NoKey, n, result) \in Messages
    BY <1>0, <1>2 DEF Message, Messages
  <2> DEFINE history == Append(r.history, Message("model", NoKey, n, result))
             next == [r EXCEPT !.state = IF calls = <<>> THEN "succeeded" ELSE "running",
                   !.why = IF calls = <<>> THEN "completed" ELSE "none",
                   !.turn = @ + 1, !.attempts = n, !.asked = @ + Len(calls),
                   !.history = history, !.pending = pending]
  <2>4. history \in Seq(Messages)
    BY <1>0, <2>3 DEF Rows
  <2>5. AfterModel(r, result) = next
    BY <1>2, AgentRunAssumption DEF AfterModel
  <2> DEFINE state == IF calls = <<>> THEN "succeeded" ELSE "running"
             why == IF calls = <<>> THEN "completed" ELSE "none"
             turn == r.turn + 1
             asked == r.asked + Len(calls)
  <2>6. /\ state \in States /\ state \notin {"awaiting_approval", "absent"}
        /\ why \in Terminations /\ turn \in Nat /\ asked \in Nat
    BY <1>0, <2>1 DEF States, TerminalStates, Terminations, Rows
  <2>7. next = [r EXCEPT !.state = state, !.why = why, !.turn = turn, !.attempts = n,
                         !.asked = asked, !.history = history, !.pending = pending]
    OBVIOUS
  <2> HIDE DEF next, state, why, turn, asked, pending, history, n, calls
  <2>8. next \in Rows /\ next.version = r.version /\ next.attempts = n /\ next.due = r.due
        /\ next.state = state
    BY <1>0, <2>2, <2>4, <2>6, <2>7 DEF Rows
  <2>9. r.due
    BY DEF Sound
  <2> QED BY <1>0, <2>5, <2>6, <2>8, <2>9 DEF Follows, Sound
<1>3. CASE result \notin Responses /\ result = "retryable" /\ n < MaxModelSteps
  BY <1>0, <1>3 DEF AfterModel, Follows, Sound, Rows, States, Waiting, TerminalStates
<1>4. CASE result \notin Responses /\ ~(result = "retryable" /\ n < MaxModelSteps)
  <2>1. AfterModel(r, result) = Failed(r, "model", n)
    BY <1>4 DEF AfterModel
  <2> QED BY <1>0, <2>1, FailedFollows DEF Terminations
<1> QED BY <1>1, <1>2, <1>3, <1>4

LEMMA AnsweredFollows ==
  ASSUME NEW r, Sound(r), r.state # "awaiting_retry", r.pending # <<>>, NEW result \in Results
  PROVE  Follows(Answered(r, result), r)
<1>1. r \in Rows /\ r.pending \in Seq(Calls) /\ r.history \in Seq(Messages) /\ r.due
  BY DEF Sound, Rows
<1>2. Tail(r.pending) \in Seq(Calls) /\ r.pending[1] \in Calls
  BY <1>1
<1>3. Message("tool", r.pending[1].id, r.pending[1].attempt + 1, result) \in Messages
  BY <1>2 DEF Message, Messages, Calls
<1>4. Appended(r, result) \in Seq(Messages)
  BY <1>1, <1>3 DEF Appended
<1> DEFINE next == Answered(r, result)
<1>5. /\ next \in Rows /\ next.version = r.version /\ next.attempts = r.attempts
      /\ next.due = r.due /\ next.state = "running"
  BY <1>1, <1>2, <1>4 DEF Answered, Rows, States
<1>6. r.attempts \in Nat
  BY <1>1 DEF Rows
<1> QED BY <1>1, <1>5, <1>6 DEF Follows, Sound

\* The row of a pending call changes, not the row's place in the queue.
LEMMA PendingUpdate ==
  ASSUME NEW pending \in Seq(Calls), pending # <<>>, NEW call1 \in Calls
  PROVE  [pending EXCEPT ![1] = call1] \in Seq(Calls) /\ [pending EXCEPT ![1] = call1] # <<>>
<1> DEFINE p == [pending EXCEPT ![1] = call1]
<1>1. Len(pending) \in Nat /\ Len(pending) > 0 /\ DOMAIN pending = 1..Len(pending)
  OBVIOUS
<1>2. DOMAIN p = 1..Len(pending) /\ \A i \in 1..Len(pending) : p[i] \in Calls
  BY <1>1
<1> QED BY <1>1, <1>2

LEMMA AfterToolFollows ==
  ASSUME NEW r, Sound(r), r.state # "awaiting_retry", r.pending # <<>>, NEW result,
         NEW next \in AfterTool(r, result)
  PROVE  Follows(next, r)
<1> DEFINE n == r.pending[1].attempt + 1
<1>0. /\ r \in Rows /\ r.pending \in Seq(Calls) /\ r.pending[1] \in Calls /\ r.due
      /\ r.attempts \in Nat /\ n \in Nat
  <2>1. r \in Rows /\ r.pending \in Seq(Calls) /\ r.due /\ r.attempts \in Nat
    BY DEF Sound, Rows
  <2>2. r.pending[1] \in Calls
    BY <2>1
  <2> QED BY <2>1, <2>2 DEF Calls
<1>1. CASE result \in Results
  <2>1. next = Answered(r, result)
    BY <1>1 DEF AfterTool, Results
  <2> QED BY <1>1, <2>1, AnsweredFollows
<1>2. CASE result = "approval_required"
  <2> DEFINE call1 == [r.pending[1] EXCEPT !.approval = ToolKey(r)]
  <2>1. next = [r EXCEPT !.state = "awaiting_approval", !.pending = [@ EXCEPT ![1] = call1]]
    BY <1>2 DEF AfterTool, Results, Paused
  <2>2. call1 \in Calls
    BY <1>0 DEF Calls, ToolKey
  <2> HIDE DEF call1
  <2>3. [r.pending EXCEPT ![1] = call1] \in Seq(Calls) /\ [r.pending EXCEPT ![1] = call1] # <<>>
    BY <1>0, <2>2, PendingUpdate
  <2>4. "awaiting_approval" \in States
    BY DEF States, Waiting
  <2>5. /\ next \in Rows /\ next.version = r.version /\ next.attempts = r.attempts
        /\ next.due = r.due /\ next.pending # <<>> /\ next.state = "awaiting_approval"
    BY <1>0, <2>1, <2>3, <2>4 DEF Rows
  <2> QED BY <1>0, <2>5 DEF Follows, Sound
<1>3. CASE result = "retryable" /\ n < MaxToolAttempts
  <2> DEFINE call1 == [r.pending[1] EXCEPT !.attempt = n]
  <2>1. next = [r EXCEPT !.state = "awaiting_retry", !.pending = [@ EXCEPT ![1] = call1], !.due = FALSE]
    BY <1>3 DEF AfterTool, Results
  <2>2. call1 \in Calls
    BY <1>0 DEF Calls
  <2> HIDE DEF call1
  <2>3. [r.pending EXCEPT ![1] = call1] \in Seq(Calls)
    BY <1>0, <2>2, PendingUpdate
  <2>4. "awaiting_retry" \in States
    BY DEF States, Waiting
  <2>5. /\ next \in Rows /\ next.version = r.version /\ next.attempts = r.attempts
        /\ next.state = "awaiting_retry"
    BY <1>0, <2>1, <2>3, <2>4 DEF Rows
  <2> QED BY <1>0, <2>5 DEF Follows, Sound
<1>4. CASE result \notin Results \cup {"approval_required"} /\ ~(result = "retryable" /\ n < MaxToolAttempts)
  <2>1. next = Failed(r, "tool", r.attempts)
    BY <1>4 DEF AfterTool, Results
  <2> QED BY <1>0, <2>1, FailedFollows DEF Terminations
<1> QED BY <1>1, <1>2, <1>3, <1>4

\* What a driver remembers of a step that it is about to commit.
Prepared(intent, r) ==
  /\ Sound(r)
  /\ r.state # "absent"
  /\ intent \in Intents \ {"leave"}
  /\ intent = "tool" => r.pending # <<>>
  /\ r.state = "awaiting_retry" => intent \in {"cancel", "wait", "late", "resume"}

LEMMA TransitionFollows ==
  ASSUME NEW d, LET r == loop[d].snap IN Prepared(loop[d].intent, r),
         NEW next \in Transition(d)
  PROVE  Follows(next, loop[d].snap)
<1> DEFINE r == loop[d].snap
           intent == loop[d].intent
<1> HIDE DEF r, intent
<1>0. Prepared(intent, r) /\ Sound(r) /\ r \in Rows /\ r.attempts \in Nat
  BY DEF r, intent, Prepared, Sound, Rows
<1>1. CASE intent = "model"
  <2>1. next = AfterModel(r, gate[d].result)
    BY <1>1 DEF Transition, r, intent
  <2> QED BY <1>0, <1>1, <2>1, AfterModelFollows DEF Prepared, r
<1>2. CASE intent = "tool"
  <2>1. next \in AfterTool(r, exec[d].result)
    BY <1>2 DEF Transition, r, intent
  <2> QED BY <1>0, <1>2, <2>1, AfterToolFollows DEF Prepared, r
<1>3. CASE intent \in {"abstain", "denied", "unusable", "late", "spent"}
  <2>1. PICK why \in Terminations : next = Failed(r, why, r.attempts)
    BY <1>3 DEF Transition, Terminations, r, intent
  <2> QED BY <1>0, <2>1, FailedFollows DEF r
<1>4. CASE intent = "complete"
  <2>1. Message("external", NoKey, 0, "none") \in Messages
    BY DEF Message, Messages
  <2>2. Append(r.history, Message("external", NoKey, 0, "none")) \in Seq(Messages)
    BY <1>0, <2>1 DEF Rows
  <2> DEFINE history == Append(r.history, Message("external", NoKey, 0, "none"))
             turn == r.turn + 1
  <2>3. /\ next = [r EXCEPT !.state = "succeeded", !.why = "completed", !.turn = turn,
                            !.history = history]
        /\ turn \in Nat /\ history \in Seq(Messages)
    BY <1>0, <1>4, <2>2 DEF Transition, r, intent, Rows
  <2> HIDE DEF turn, history
  <2>4. "succeeded" \in States /\ "completed" \in Terminations
    BY DEF States, TerminalStates, Terminations
  <2>5. next \in Rows /\ next.version = r.version /\ next.attempts = r.attempts
        /\ next.due = r.due /\ next.state = "succeeded"
    BY <1>0, <2>2, <2>3, <2>4 DEF Rows
  <2>6. r.due
    BY <1>0, <1>4 DEF Prepared, Sound
  <2> QED BY <1>0, <2>5, <2>6 DEF Follows, Sound, r
<1>5. CASE intent \in {"compile", "resume", "wait", "cancel"}
  <2>1. \/ intent = "compile" /\ next = [r EXCEPT !.compiled = TRUE]
        \/ intent = "resume" /\ next = [r EXCEPT !.state = "running", !.due = TRUE]
        \/ intent = "wait" /\ next = [r EXCEPT !.state = "awaiting_external", !.due = TRUE]
        \/ intent = "cancel" /\ next = [r EXCEPT !.state = "cancelled", !.why = "cancelled",
                                                 !.pending = <<>>, !.due = TRUE]
    <3>1. CASE intent = "compile"
      BY <3>1 DEF Transition, r, intent
    <3>2. CASE intent = "resume"
      BY <3>2 DEF Transition, r, intent
    <3>3. CASE intent = "wait"
      BY <3>3 DEF Transition, r, intent
    <3>4. CASE intent = "cancel"
      BY <3>4 DEF Transition, r, intent
    <3> QED BY <1>5, <3>1, <3>2, <3>3, <3>4
  <2>2. /\ {"running", "awaiting_external", "cancelled"} \subseteq States
        /\ "cancelled" \in Terminations /\ <<>> \in Seq(Calls)
    BY DEF States, Waiting, TerminalStates, Terminations
  <2>3. /\ next \in Rows /\ next.version = r.version /\ next.attempts = r.attempts
        /\ \/ next.due /\ next.state \notin {"awaiting_approval", "absent"}
           \/ next.due = r.due /\ next.state = r.state /\ next.pending = r.pending
    <3>1. CASE intent = "compile"
      BY <1>0, <2>1, <3>1 DEF Rows
    <3>2. CASE intent = "resume"
      BY <1>0, <2>1, <2>2, <3>2 DEF Rows
    <3>3. CASE intent = "wait"
      BY <1>0, <2>1, <2>2, <3>3 DEF Rows
    <3>4. CASE intent = "cancel"
      BY <1>0, <2>1, <2>2, <3>4 DEF Rows
    <3> QED BY <1>5, <3>1, <3>2, <3>3, <3>4
  <2> QED BY <1>0, <2>3 DEF Follows, Sound, Prepared, r
<1> QED BY <1>0, <1>1, <1>2, <1>3, <1>4, <1>5 DEF Prepared, Intents

------------------------------------------------------------------------------
\* The invariant is inductive

LoopRows == [pc : {"idle", "load", "call", "commit", "leave"}, op : Operations,
             intent : Intents, fence : Nat, snap : Rows]

\* The row that a driver read tells where the run was and, while the version is
\* the same, where it is.
Fresh ==
  \A d \in Drivers :
    LET r == loop[d].snap IN
    loop[d].pc \in {"call", "commit"} =>
      /\ Prepared(loop[d].intent, r)
      /\ r.state \notin TerminalStates
      /\ r.version <= run.version
      /\ r.attempts <= run.attempts
      /\ r.version = run.version => r.state = run.state /\ r.attempts = run.attempts

LeaseRows == [fence : Nat, owner : Workers \cup {NoOwner},
              state : {"none", "active", "expired", "released"}]

\* The inductive invariant.
IInv ==
  /\ Sound(run)
  /\ lease \in LeaseRows
  /\ loop \in [Drivers -> LoopRows]
  /\ \A d \in Drivers : loop[d].pc # "idle" => run.state # "absent"
  /\ run.state = "absent" => run.attempts = 0
  /\ DOMAIN call = ModelKeys
  /\ Fresh
  /\ OneCallAhead

LEMMA InvInit == Init => IInv
<1> SUFFICES ASSUME Init PROVE IInv
  OBVIOUS
<1>1. NoRun \in Rows /\ NoRun.due /\ NoRun.state = "absent"
  <2>1. <<>> \in Seq(Calls) /\ <<>> \in Seq(Messages) /\ "absent" \in States /\ "none" \in Terminations
    BY DEF States, Terminations
  <2> QED BY <2>1 DEF NoRun, Rows
<1>2. Idle \in LoopRows /\ Idle.pc = "idle"
  BY <1>1 DEF Idle, LoopRows, Operations, Intents
<1>3. Sound(run) /\ loop \in [Drivers -> LoopRows] /\ Fresh /\ run.attempts = 0
  BY <1>1, <1>2 DEF Init, Sound, Fresh, NoRun
<1>4. DOMAIN call = ModelKeys /\ OneCallAhead
  BY DEF Init, Models!Init, OneCallAhead
<1> QED BY <1>2, <1>3, <1>4 DEF Init, IInv, LeaseRows

\* A step that keeps the run and the ledger and moves one driver, which either
\* has nothing left to commit or keeps what it had.
LEMMA InvMove ==
  ASSUME IInv, run' = run, DOMAIN call' = DOMAIN call,
         \A k \in ModelKeys : call'[k].status # "absent" => call[k].status # "absent",
         lease' \in LeaseRows,
         NEW d \in Drivers, NEW row \in LoopRows, run.state # "absent", loop' = [loop EXCEPT ![d] = row],
         row.pc \in {"call", "commit"} =>
           /\ loop[d].pc \in {"call", "commit"}
           /\ row.intent = loop[d].intent /\ row.snap = loop[d].snap
  PROVE  IInv'
<1>1. /\ loop' \in [Drivers -> LoopRows] /\ loop'[d] = row
      /\ \A e \in Drivers : e # d => loop'[e] = loop[e]
  BY DEF IInv
<1>2. Fresh'
  BY <1>1 DEF IInv, Fresh
<1>3. OneCallAhead'
  BY DEF IInv, OneCallAhead
<1> QED BY <1>1, <1>2, <1>3 DEF IInv, Sound

\* A driver that reads the row may commit what it chooses.
LEMMA IntentsPrepared ==
  ASSUME Sound(run), run.state # "absent", NEW d \in Drivers, loop[d].op \in Operations,
         NEW intent \in IntentsOf(d), intent # "leave"
  PROVE  Prepared(intent, run) /\ run.state \notin TerminalStates
<1>1. run.state \notin TerminalStates
  BY DEF IntentsOf
<1>2. CASE loop[d].op \in {"cancel", "wait"}
  BY <1>1, <1>2 DEF IntentsOf, Prepared, Intents
<1>3. CASE loop[d].op = "complete"
  BY <1>1, <1>3 DEF IntentsOf, Prepared, Intents
<1>4. CASE loop[d].op \in {"run", "advance"}
  <2>1. intent \in AdvanceIntents
    BY <1>1, <1>4 DEF IntentsOf
  <2>2. CASE late
    <3>1. intent = "late"
      BY <2>1, <2>2, Zenon DEF AdvanceIntents
    <3> QED BY <1>1, <3>1 DEF Prepared, Intents
  <2>3. CASE ~late /\ run.state \in Waiting
    <3>1. intent \in WaitingIntents
      BY <2>1, <2>3, Zenon DEF AdvanceIntents
    <3>2. CASE run.state = "awaiting_approval"
      BY <1>1, <3>1, <3>2 DEF WaitingIntents, Prepared, Intents, Sound
    <3>3. CASE run.state = "awaiting_retry"
      BY <1>1, <3>1, <3>3 DEF WaitingIntents, Prepared, Intents
    <3>4. CASE run.state = "awaiting_external"
      BY <1>1, <3>1, <3>4 DEF WaitingIntents
    <3> QED BY <2>3, <3>2, <3>3, <3>4 DEF Waiting
  <2>4. CASE ~late /\ run.state \notin Waiting /\ run.pending # <<>>
    BY <1>1, <2>1, <2>4 DEF AdvanceIntents, Prepared, Intents, Waiting
  <2>5. CASE ~late /\ run.state \notin Waiting /\ run.pending = <<>>
    BY <1>1, <2>1, <2>5 DEF AdvanceIntents, Prepared, Intents, Waiting
  <2> QED BY <2>2, <2>3, <2>4, <2>5
<1> QED BY <1>2, <1>3, <1>4 DEF Operations

LEMMA InvLoad ==
  ASSUME IInv, NEW d \in Drivers, Load(d)
  PROVE  IInv'
<1>1. /\ loop[d] \in LoopRows /\ loop[d].pc = "load" /\ run.state # "absent" /\ Sound(run)
      /\ UNCHANGED <<run, lease, call>>
  BY DEF IInv, Load, modelVars
<1>2. PICK intent \in IF Admitted(d) THEN IntentsOf(d) ELSE {"leave"} :
        loop' = [loop EXCEPT ![d] = [@ EXCEPT !.intent = intent,
          !.pc = CASE intent = "leave" -> "leave"
                   [] intent \in {"model", "tool"} -> "call"
                   [] OTHER -> "commit",
          !.snap = IF intent = "leave" THEN NoRun ELSE run]]
  BY DEF Load
<1> DEFINE pc == CASE intent = "leave" -> "leave"
                   [] intent \in {"model", "tool"} -> "call"
                   [] OTHER -> "commit"
           snap == IF intent = "leave" THEN NoRun ELSE run
           row == [loop[d] EXCEPT !.intent = intent, !.pc = pc, !.snap = snap]
<1>3. pc \in {"leave", "call", "commit"} /\ (pc # "leave" => intent # "leave")
  OBVIOUS
<1>4. intent # "leave" => Prepared(intent, run) /\ run.state \notin TerminalStates
  BY <1>1, <1>2, IntentsPrepared DEF LoopRows
<1>5. intent \in Intents /\ snap \in Rows
  <2>1. NoRun \in Rows
    <3>1. <<>> \in Seq(Calls) /\ <<>> \in Seq(Messages) /\ "absent" \in States /\ "none" \in Terminations
      BY DEF States, Terminations
    <3> QED BY <3>1 DEF NoRun, Rows
  <2> QED BY <1>1, <1>4, <2>1 DEF Prepared, Sound, Intents
<1>6. loop' = [loop EXCEPT ![d] = row]
  BY <1>2
<1> HIDE DEF pc, snap
<1>7. row \in LoopRows /\ row.pc = pc /\ row.intent = intent /\ row.snap = snap
  BY <1>1, <1>3, <1>5 DEF LoopRows
<1> HIDE DEF row
<1>8. /\ loop' \in [Drivers -> LoopRows] /\ loop'[d] = row
      /\ \A e \in Drivers : e # d => loop'[e] = loop[e]
  BY <1>6, <1>7 DEF IInv
<1>9. pc \in {"call", "commit"} => snap = run
  BY <1>3 DEF snap
<1>10. run.version \in Nat /\ run.attempts \in Nat
  BY <1>1 DEF Sound, Rows
<1>11. Fresh'
  <2> SUFFICES ASSUME NEW e \in Drivers, loop'[e].pc \in {"call", "commit"}
               PROVE  LET r == loop'[e].snap IN
                      /\ Prepared(loop'[e].intent, r)
                      /\ r.state \notin TerminalStates
                      /\ r.version <= run.version
                      /\ r.attempts <= run.attempts
                      /\ r.version = run.version => r.state = run.state /\ r.attempts = run.attempts
    BY <1>1 DEF Fresh
  <2>1. CASE e = d
    BY <1>3, <1>4, <1>7, <1>8, <1>9, <1>10, <2>1
  <2>2. CASE e # d
    BY <1>8, <2>2 DEF IInv, Fresh
  <2> QED BY <2>1, <2>2
<1> QED BY <1>1, <1>8, <1>11 DEF IInv, OneCallAhead

\* The calls and the steps of the gateway and the executor.
LEMMA InvEffect ==
  ASSUME IInv, NEW d \in Drivers, CallModel(d) \/ CallTool(d) \/ EffectStep(d)
  PROVE  IInv'
<1>1. UNCHANGED <<run, lease>>
  BY DEF CallModel, CallTool, EffectStep, runVars
<1>2. loop' \in [Drivers -> LoopRows]
      /\ \A e \in Drivers : /\ loop'[e].intent = loop[e].intent
                            /\ loop'[e].snap = loop[e].snap
                            /\ loop'[e].pc = loop[e].pc \/ (loop[e].pc = "call" /\ loop'[e].pc = "commit")
  <2>1. CASE loop[d].pc = "call" /\ ToCommit(d)
    BY <2>1 DEF IInv, ToCommit, LoopRows
  <2>2. CASE loop' = loop
    BY <2>2 DEF IInv
  <2> QED BY <2>1, <2>2 DEF CallModel, CallTool, EffectStep, runVars
<1>3. Fresh'
  BY <1>1, <1>2 DEF IInv, Fresh
<1>4. DOMAIN call' = ModelKeys /\ OneCallAhead'
  <2>1. CASE CallModel(d)
    <3> DEFINE k == loop[d].snap.attempts + 1
    <3>1. k <= run.attempts + 1 /\ k \in Nat /\ run.attempts \in Nat
      BY <2>1 DEF CallModel, IInv, Fresh, Sound, Rows, LoopRows
    <3>2. call' = call \/ call' = [call EXCEPT ![k] = [@ EXCEPT !.status = "running"]]
      BY <2>1 DEF CallModel, Models!Begin
    <3>3. DOMAIN call' = ModelKeys /\ \A j \in ModelKeys : j # k => call'[j] = call[j]
      BY <3>2 DEF IInv
    <3> QED BY <1>1, <3>1, <3>3 DEF IInv, OneCallAhead
  <2>2. CASE CallTool(d) \/ (Tools!Step(d) /\ UNCHANGED modelVars)
    BY <1>1, <2>2 DEF CallTool, modelVars, IInv, OneCallAhead
  <2>3. CASE Models!Step(d)
    <3>1. call' = call \/ \E k, row : call[k].status = "running" /\ call' = [call EXCEPT ![k] = row]
      BY <2>3 DEF Models!Step, Models!Attempt, Models!RetryAttempt, Models!Finish, Models!Unrecorded
    <3>2. DOMAIN call' = ModelKeys /\ \A j \in ModelKeys : call'[j] = call[j] \/ call[j].status = "running"
      BY <3>1 DEF IInv
    <3> QED BY <1>1, <3>2 DEF IInv, OneCallAhead
  <2> QED BY <2>1, <2>2, <2>3 DEF EffectStep
<1> QED BY <1>1, <1>2, <1>3, <1>4 DEF IInv

\* What a commit does to the run: it is the current row that the driver read,
\* and its version moves on.
LEMMA CommitFacts ==
  ASSUME IInv, NEW d \in Drivers, Commit(d)
  PROVE  /\ loop[d].snap.version = run.version
         /\ run.state \notin TerminalStates
         /\ Sound(run') /\ run'.state # "absent"
         /\ run'.version = run.version + 1
         /\ run'.attempts >= run.attempts
<1> DEFINE r == loop[d].snap
<1>1. PICK next \in Transition(d) : Accepted(d, next) /\ run' = [next EXCEPT !.version = @ + 1]
  BY DEF Commit
<1>2. Prepared(loop[d].intent, r) /\ r.state \notin TerminalStates
  BY DEF Commit, Returned, IInv, Fresh
<1>3. r.version = run.version /\ r.state = run.state /\ r.attempts = run.attempts
  BY <1>1 DEF Accepted, SameVersion, Commit, Returned, IInv, Fresh
<1>4. Follows(next, r)
  BY <1>2, TransitionFollows
<1>5. /\ next \in Rows /\ next.version \in Nat
      /\ Sound(next) /\ next.state # "absent"
      /\ next.version = run.version /\ next.attempts >= run.attempts
  BY <1>3, <1>4 DEF Follows, Sound, Rows
<1> DEFINE v == next.version + 1
<1>6. v \in Nat /\ run' = [next EXCEPT !.version = v]
  BY <1>1, <1>5
<1> HIDE DEF v
<1>7. /\ run' \in Rows /\ run'.version = v /\ run'.attempts = next.attempts
      /\ run'.state = next.state /\ run'.pending = next.pending /\ run'.due = next.due
  BY <1>5, <1>6 DEF Rows
<1>8. Sound(run')
  BY <1>5, <1>7 DEF Sound
<1> QED BY <1>2, <1>3, <1>5, <1>7, <1>8 DEF v

\* A driver is done with a step.
LEMMA AfterFacts ==
  ASSUME IInv, NEW d \in Drivers, NEW pc \in {"load", "leave"}, After(d, pc)
  PROVE  \E row \in LoopRows : row.pc = pc /\ loop' = [loop EXCEPT ![d] = row]
<1> DEFINE row == [loop[d] EXCEPT !.pc = pc, !.intent = "leave", !.snap = NoRun]
<1>1. NoRun \in Rows
  <2>1. <<>> \in Seq(Calls) /\ <<>> \in Seq(Messages) /\ "absent" \in States /\ "none" \in Terminations
    BY DEF States, Terminations
  <2> QED BY <2>1 DEF NoRun, Rows
<1>2. loop[d] \in LoopRows
  BY DEF IInv
<1>3. row \in LoopRows /\ row.pc = pc
  BY <1>1, <1>2 DEF LoopRows, Intents
<1> QED BY <1>3 DEF After

LEMMA InvCommit ==
  ASSUME IInv, NEW d \in Drivers, Commit(d)
  PROVE  IInv'
<1>1. UNCHANGED <<lease, call>>
  BY DEF Commit
<1>2. PICK pc \in {"load", "leave"} : After(d, pc)
  BY DEF Commit
<1>3. PICK row \in LoopRows : row.pc = pc /\ loop' = [loop EXCEPT ![d] = row]
  BY <1>2, AfterFacts
<1>4. /\ loop' \in [Drivers -> LoopRows] /\ loop'[d] = row
      /\ \A e \in Drivers : e # d => loop'[e] = loop[e]
  BY <1>3 DEF IInv
<1>5. /\ Sound(run') /\ run'.state # "absent" /\ run'.version = run.version + 1
      /\ run'.attempts >= run.attempts
      /\ run.version \in Nat /\ run.attempts \in Nat /\ run'.attempts \in Nat
  BY CommitFacts DEF IInv, Sound, Rows
<1>6. Fresh'
  <2> SUFFICES ASSUME NEW e \in Drivers, e # d, loop[e].pc \in {"call", "commit"}
               PROVE  LET r == loop[e].snap IN
                      /\ Prepared(loop[e].intent, r)
                      /\ r.state \notin TerminalStates
                      /\ r.version <= run'.version
                      /\ r.attempts <= run'.attempts
                      /\ r.version = run'.version => r.state = run'.state /\ r.attempts = run'.attempts
    BY <1>3, <1>4 DEF Fresh
  <2>1. loop[e].snap.version \in Nat /\ loop[e].snap.attempts \in Nat
    BY DEF IInv, LoopRows, Rows
  <2> QED BY <1>5, <2>1 DEF IInv, Fresh
<1>7. OneCallAhead'
  BY <1>1, <1>5 DEF IInv, OneCallAhead, ModelKeys
<1>8. Sound(run)'
  BY <1>5 DEF Sound
<1> QED BY <1>1, <1>4, <1>5, <1>6, <1>7, <1>8 DEF IInv

\* Steps that only end what a driver does, or begin it.
LEMMA InvDriver ==
  ASSUME IInv, NEW d \in Drivers,
         \/ Refused(d) \/ Leave(d) \/ Abort(d) \/ Crash(d)
         \/ d \in Workers /\ Claim(d)
         \/ \E op \in Operations : d \in Clients /\ Request(d, op)
  PROVE  IInv'
<1>1. run' = run /\ DOMAIN call' = DOMAIN call /\ UNCHANGED call
  BY DEF Refused, Leave, Abort, Crash, Claim, Request, modelVars
<1>2. lease' \in LeaseRows
  <2>1. lease \in LeaseRows
    BY DEF IInv
  <2>2. CASE d \in Workers /\ Claim(d)
    <3>1. lease.fence + 1 \in Nat
      BY <2>1 DEF LeaseRows
    <3> QED BY <2>2, <3>1 DEF Claim, LeaseRows, NextFence
  <2>3. CASE Leave(d)
    BY <2>1, <2>3 DEF Leave, LeaseRows
  <2> QED BY <2>1, <2>2, <2>3 DEF Refused, Abort, Crash, Request
<1>3. Idle \in LoopRows /\ Idle.pc = "idle"
  <2>1. <<>> \in Seq(Calls) /\ <<>> \in Seq(Messages) /\ "absent" \in States /\ "none" \in Terminations
    BY DEF States, Terminations
  <2>2. NoRun \in Rows
    BY <2>1 DEF NoRun, Rows
  <2> QED BY <2>2 DEF Idle, LoopRows, Operations, Intents
<1>4. PICK row \in LoopRows : row.pc \in {"idle", "load", "leave"} /\ loop' = [loop EXCEPT ![d] = row]
  <2>1. CASE Refused(d) \/ Abort(d)
    BY <2>1, AfterFacts DEF Refused, Abort
  <2>2. CASE Leave(d) \/ Crash(d)
    BY <1>3, <2>2 DEF Leave, Crash
  <2>3. CASE d \in Workers /\ Claim(d)
    <3> DEFINE row == [Idle EXCEPT !.pc = "load", !.fence = lease.fence + 1]
    <3>1. lease.fence + 1 \in Nat
      BY DEF IInv, LeaseRows
    <3>2. row \in LoopRows /\ row.pc = "load"
      BY <1>3, <3>1 DEF LoopRows
    <3> QED BY <2>3, <3>2 DEF Claim, NextFence
  <2>4. ASSUME NEW op \in Operations, Request(d, op)
        PROVE  \E row \in LoopRows : row.pc = "load" /\ loop' = [loop EXCEPT ![d] = row]
    <3> DEFINE row == [Idle EXCEPT !.pc = "load", !.op = op]
    <3>1. row \in LoopRows /\ row.pc = "load"
      BY <1>3 DEF LoopRows
    <3> QED BY <2>4, <3>1 DEF Request
  <2> QED BY <2>1, <2>2, <2>3, <2>4
<1>5. run.state # "absent"
  BY DEF Refused, Returned, Leave, Abort, Crash, Claim, Claimable, Request, IInv
<1> QED BY <1>1, <1>2, <1>4, <1>5, InvMove

\* Steps of nobody in particular.
LEMMA InvAround ==
  ASSUME IInv, Create \/ Expire \/ Due \/ Late \/ Environment \/ UNCHANGED vars
  PROVE  IInv'
<1>1. UNCHANGED <<loop, call>>
  BY DEF Create, Expire, Due, Late, Environment, vars, runVars, modelVars
<1>2. CASE Create
  <2>1. \A d \in Drivers : loop[d].pc = "idle"
    BY <1>2 DEF Create, IInv
  <2>2. run' = [NoRun EXCEPT !.state = "pending", !.version = 1] /\ UNCHANGED lease
    BY <1>2 DEF Create
  <2>3. <<>> \in Seq(Calls) /\ <<>> \in Seq(Messages) /\ "pending" \in States /\ "none" \in Terminations
    BY DEF States, Terminations
  <2>4. run' \in Rows /\ run'.state = "pending" /\ run'.due /\ run'.attempts = 0
    BY <2>2, <2>3 DEF NoRun, Rows
  <2>5. Sound(run)' /\ Fresh'
    BY <1>1, <2>1, <2>4 DEF Sound, Fresh
  <2>6. OneCallAhead'
    BY <1>1, <1>2, <2>4 DEF Create, IInv, OneCallAhead
  <2> QED BY <1>1, <2>1, <2>2, <2>4, <2>5, <2>6 DEF IInv
<1>3. CASE Due
  <2>1. run' = [run EXCEPT !.due = TRUE] /\ UNCHANGED lease
    BY <1>3 DEF Due
  <2>2. /\ run' \in Rows /\ run'.due /\ run'.state = run.state /\ run'.version = run.version
        /\ run'.attempts = run.attempts /\ run'.pending = run.pending
    BY <2>1 DEF IInv, Sound, Rows
  <2>3. Sound(run)' /\ Fresh' /\ OneCallAhead'
    BY <1>1, <2>2 DEF IInv, Sound, Fresh, OneCallAhead
  <2> QED BY <1>1, <2>1, <2>2, <2>3 DEF IInv
<1>4. CASE Expire \/ Late \/ Environment \/ UNCHANGED vars
  <2>1. run' = run /\ lease' \in LeaseRows
    BY <1>4 DEF Expire, Late, Environment, vars, runVars, IInv, LeaseRows
  <2> QED BY <1>1, <2>1 DEF IInv, Sound, Fresh, OneCallAhead
<1> QED BY <1>2, <1>3, <1>4

LEMMA InvNext == IInv /\ [Next]_vars => IInv'
<1> SUFFICES ASSUME IInv, [Next]_vars PROVE IInv'
  OBVIOUS
<1>1. ASSUME NEW d \in Drivers, Advance(d) PROVE IInv'
  BY <1>1, InvLoad, InvEffect, InvCommit, InvDriver DEF Advance
<1>2. ASSUME NEW d \in Drivers, Abort(d) \/ Crash(d) PROVE IInv'
  BY <1>2, InvDriver
<1>3. ASSUME NEW w \in Workers, Claim(w) PROVE IInv'
  BY <1>3, InvDriver DEF Drivers
<1>4. ASSUME NEW c \in Clients, NEW op \in Operations, Request(c, op) PROVE IInv'
  BY <1>4, InvDriver DEF Drivers
<1>5. CASE Create \/ Expire \/ Due \/ Late \/ Environment \/ UNCHANGED vars
  BY <1>5, InvAround
<1> QED BY <1>1, <1>2, <1>3, <1>4, <1>5 DEF Next

\* Whatever the drivers and the lease do, a driver's copy of the row that still
\* has the version of the row is the row.
THEOREM RunInvariance == Spec => []IInv
<1> QED BY InvInit, InvNext, PTL DEF Spec

\* The gateway is called under the key of the next attempt only: no driver, an
\* overtaken one included, asks for a call past the one that the run waits for.
THEOREM NoCallSkipsCheckpoint == Spec => []OneCallAhead
<1>1. IInv => OneCallAhead
  BY DEF IInv
<1> QED BY <1>1, RunInvariance, PTL

\* commit compares versions, and no driver keeps a terminal row to commit: what
\* ended a run stays, whoever was in a call at the time.
THEOREM RunTerminalStays == Spec => TerminalForever
<1>1. ASSUME IInv, [Next]_vars, run.state \in TerminalStates PROVE run' = run
  <2>1. ASSUME NEW d \in Drivers, Commit(d) PROVE FALSE
    BY <1>1, <2>1, CommitFacts
  <2>2. CASE Create
    BY <1>1, <2>2 DEF Create, TerminalStates
  <2>3. CASE Due
    BY <1>1, <2>3 DEF Due, IInv, Sound, TerminalStates
  <2>4. ASSUME NEW d \in Drivers, Advance(d) PROVE run' = run
    BY <2>1, <2>4 DEF Advance, Load, CallModel, CallTool, EffectStep, Refused, Leave, runVars
  <2>5. CASE UNCHANGED vars
    BY <2>5 DEF vars, runVars
  <2>6. ASSUME NEW d \in Drivers, Claim(d) \/ Abort(d) \/ Crash(d)
                 \/ \E op \in Operations : Request(d, op)
        PROVE  run' = run
    BY <2>6 DEF Claim, Abort, Crash, Request
  <2>7. CASE Expire \/ Late \/ Environment
    BY <2>7 DEF Expire, Late, Environment, runVars
  <2> QED BY <1>1, <2>2, <2>3, <2>4, <2>5, <2>6, <2>7 DEF Next, Drivers
<1>2. IInv /\ [Next]_vars => [run.state \in TerminalStates => run' = run]_vars
  BY <1>1
<1> QED BY <1>2, RunInvariance, PTL DEF Spec, TerminalForever

------------------------------------------------------------------------------
(* The model ledger *)

Working(g) == g.pc \in {"ready", "provider"}

\* A caller between Start and Finish of a key, and one that was answered.
GateSound(g, c, n) ==
  /\ g \in Models!GateRow
  /\ Working(g) => g.key \in ModelKeys /\ c[g.key].status = "running" /\ n[g.key] = g.tries
  /\ g.pc = "ready" => g.tries < MaxProviderAttempts
  /\ g.pc = "done" /\ g.result \in Responses =>
       g.key \in ModelKeys /\ c[g.key] = [status |-> "succeeded", result |-> g.result]

CallSound(row, n) ==
  /\ row \in Models!CallRow
  /\ n \in Nat /\ n <= MaxProviderAttempts
  /\ row.status = "absent" => n = 0
  /\ row.status = "succeeded" => row.result \in Responses
  /\ row.status = "failed" => row.result \in Models!Failures

\* Nobody but d works on the call of k.
OnlyAt(d, k) == \A e \in Drivers : Working(gate[e]) /\ gate[e].key = k => e = d

OneAtATime ==
  \A d, e \in Drivers : Working(gate[d]) /\ Working(gate[e]) /\ gate[d].key = gate[e].key => d = e

GatewayInv ==
  /\ DOMAIN call = ModelKeys /\ DOMAIN invoked = ModelKeys /\ DOMAIN gate = Drivers
  /\ call = [k \in ModelKeys |-> call[k]] /\ invoked = [k \in ModelKeys |-> invoked[k]]
  /\ gate = [d \in Drivers |-> gate[d]]
  /\ \A k \in ModelKeys : CallSound(call[k], invoked[k])
  /\ \A d \in Drivers : GateSound(gate[d], call, invoked)
  /\ OneAtATime

\* A finished call keeps its outcome.
CallsKept == \A k \in ModelKeys : call[k].status \in {"succeeded", "failed"} => call'[k] = call[k]

\* A step of d's call under k.
LEMMA GateMove ==
  ASSUME GatewayInv, NEW d \in Drivers, NEW k \in ModelKeys, NEW g, NEW c, NEW n,
         call' = [call EXCEPT ![k] = c], invoked' = [invoked EXCEPT ![k] = n], gate' = [gate EXCEPT ![d] = g],
         CallSound(c, n), GateSound(g, call', invoked'), Working(g) => g.key = k,
         OnlyAt(d, k) \/ (c = call[k] /\ n = invoked[k] /\ ~Working(g)),
         call[k].status \in {"succeeded", "failed"} => c = call[k]
  PROVE  GatewayInv' /\ CallsKept
<1>1. /\ call'[k] = c /\ invoked'[k] = n /\ gate'[d] = g
      /\ \A j \in ModelKeys : j # k => call'[j] = call[j] /\ invoked'[j] = invoked[j]
      /\ \A e \in Drivers : e # d => gate'[e] = gate[e]
      /\ DOMAIN call' = ModelKeys /\ DOMAIN invoked' = ModelKeys /\ DOMAIN gate' = Drivers
  BY DEF GatewayInv
<1>2. /\ call' = [j \in ModelKeys |-> call'[j]] /\ invoked' = [j \in ModelKeys |-> invoked'[j]]
      /\ gate' = [e \in Drivers |-> gate'[e]]
  BY DEF GatewayInv
<1>3. CallsKept
  BY <1>1 DEF CallsKept
<1>4. \A j \in ModelKeys : CallSound(call'[j], invoked'[j])
  BY <1>1 DEF GatewayInv
<1>5. ASSUME NEW e \in Drivers, e # d PROVE GateSound(gate'[e], call', invoked')
  <2>1. GateSound(gate[e], call, invoked) /\ gate'[e] = gate[e]
    BY <1>1, <1>5 DEF GatewayInv
  <2>2. Working(gate[e]) => call'[gate[e].key] = call[gate[e].key] /\ invoked'[gate[e].key] = invoked[gate[e].key]
    BY <1>1, <1>5, <2>1 DEF OnlyAt, GateSound
  <2>3. gate[e].pc = "done" /\ gate[e].result \in Responses => call'[gate[e].key] = call[gate[e].key]
    BY <1>3, <2>1 DEF CallsKept, GateSound
  <2> QED BY <2>1, <2>2, <2>3 DEF GateSound, Working
<1>6. OneAtATime'
  BY <1>1 DEF GatewayInv, OneAtATime, OnlyAt
<1> QED BY <1>1, <1>2, <1>3, <1>4, <1>5, <1>6 DEF GatewayInv

\* A step of d's call under the same key, which d has for itself.
LEMMA GateAlone ==
  ASSUME GatewayInv, NEW d \in Drivers, Working(gate[d])
  PROVE  /\ gate[d].key \in ModelKeys /\ OnlyAt(d, gate[d].key)
         /\ call[gate[d].key].status = "running" /\ invoked[gate[d].key] = gate[d].tries
         /\ CallSound(call[gate[d].key], invoked[gate[d].key]) /\ gate[d] \in Models!GateRow
BY DEF GatewayInv, GateSound, OneAtATime, OnlyAt

\* The reservation, the replay or the refusal of a call.
LEMMA GateBegin ==
  ASSUME GatewayInv, NEW d \in Drivers, NEW k \in ModelKeys, Models!Begin(d, k)
  PROVE  /\ GatewayInv' /\ CallsKept
         /\ gate'[d].key = k /\ \A e \in Drivers : e # d => gate'[e] = gate[e]
<1>1. CallSound(call[k], invoked[k]) /\ call = [call EXCEPT ![k] = call[k]] /\ invoked = [invoked EXCEPT ![k] = invoked[k]]
  BY DEF GatewayInv
<1>2. MaxProviderAttempts \in Nat /\ MaxProviderAttempts > 0 /\ "error" \notin Responses /\ "none" \notin Responses
      /\ "retryable" \notin Responses /\ "fatal" \notin Responses
  BY AgentRunAssumption
<1>3. \A g : gate' = [gate EXCEPT ![d] = g] => gate'[d] = g /\ \A e \in Drivers : e # d => gate'[e] = gate[e]
  BY DEF GatewayInv
<1>4. ASSUME call[k].status = "absent", call' = [call EXCEPT ![k] = [@ EXCEPT !.status = "running"]], invoked' = invoked,
             gate' = [gate EXCEPT ![d] = [pc |-> "ready", key |-> k, tries |-> 0, result |-> "none"]]
      PROVE  GatewayInv' /\ CallsKept
  <2> DEFINE c == [call[k] EXCEPT !.status = "running"]
             g == [pc |-> "ready", key |-> k, tries |-> 0, result |-> "none"]
  <2>1. call' = [call EXCEPT ![k] = c]
    BY <1>4
  <2>2. CallSound(c, invoked[k]) /\ c.status = "running" /\ invoked[k] = 0
    BY <1>1, <1>2, <1>4 DEF CallSound, Models!CallRow
  <2>3. g \in Models!GateRow /\ g.pc = "ready" /\ g.key = k /\ g.tries = 0
    BY <1>2 DEF Models!GateRow
  <2>4. call'[k] = c /\ invoked'[k] = 0
    BY <1>4, <2>1, <2>2 DEF GatewayInv
  <2>5. GateSound(g, call', invoked')
    BY <1>2, <2>2, <2>3, <2>4 DEF GateSound
  <2>6. OnlyAt(d, k)
    BY <1>4 DEF GatewayInv, GateSound, OnlyAt
  <2> HIDE DEF c, g
  <2> QED BY <1>1, <1>4, <2>1, <2>2, <2>3, <2>5, <2>6, GateMove DEF g
<1>5. ASSUME NEW result \in Responses \cup Models!Failures \cup {"error"}, UNCHANGED <<call, invoked>>,
             gate' = [gate EXCEPT ![d] = [pc |-> "done", key |-> k, tries |-> 0, result |-> result]],
             result = "error" \/ (call[k].status \in {"succeeded", "failed"} /\ result = call[k].result)
      PROVE  GatewayInv' /\ CallsKept
  <2> DEFINE g == [pc |-> "done", key |-> k, tries |-> 0, result |-> result]
  <2>1. g \in Models!GateRow /\ g.pc = "done" /\ g.key = k /\ g.result = result
    BY <1>2 DEF Models!GateRow
  <2>2. result \in Responses => call[k] = [status |-> "succeeded", result |-> result]
    BY <1>1, <1>2, <1>5 DEF CallSound, Models!CallRow, Models!Failures
  <2>3. GateSound(g, call', invoked')
    BY <1>5, <2>1, <2>2 DEF GateSound, Working
  <2> HIDE DEF g
  <2> QED BY <1>1, <1>5, <2>1, <2>3, GateMove DEF g, Working
<1>6. call[k].status \in {"succeeded", "failed"} => call[k].result \in Responses \cup Models!Failures
  BY <1>1 DEF CallSound
<1>7. \/ /\ call[k].status = "absent"
         /\ call' = [call EXCEPT ![k] = [@ EXCEPT !.status = "running"]] /\ invoked' = invoked
         /\ gate' = [gate EXCEPT ![d] = [pc |-> "ready", key |-> k, tries |-> 0, result |-> "none"]]
      \/ /\ call[k].status \in {"succeeded", "failed"} /\ UNCHANGED <<call, invoked>>
         /\ gate' = [gate EXCEPT ![d] = [pc |-> "done", key |-> k, tries |-> 0, result |-> call[k].result]]
      \/ /\ UNCHANGED <<call, invoked>>
         /\ gate' = [gate EXCEPT ![d] = [pc |-> "done", key |-> k, tries |-> 0, result |-> "error"]]
  BY DEF Models!Begin, Models!Out
<1> QED BY <1>3, <1>4, <1>5, <1>6, <1>7

\* What a call does once it has begun.
LEMMA GateStep ==
  ASSUME GatewayInv, NEW d \in Drivers, Models!Step(d)
  PROVE  /\ GatewayInv' /\ CallsKept
         /\ gate[d].pc # "out" /\ gate'[d].key = gate[d].key /\ \A e \in Drivers : e # d => gate'[e] = gate[e]
<1> DEFINE k == gate[d].key
<1>1. Working(gate[d])
  BY DEF Models!Step, Models!Attempt, Models!RetryAttempt, Models!Finish, Models!Unrecorded, Working
<1>2. /\ k \in ModelKeys /\ OnlyAt(d, k) /\ call[k].status = "running" /\ invoked[k] = gate[d].tries
      /\ CallSound(call[k], invoked[k]) /\ gate[d] \in Models!GateRow
      /\ call = [call EXCEPT ![k] = call[k]] /\ invoked = [invoked EXCEPT ![k] = invoked[k]]
      /\ (gate[d].pc = "ready" => gate[d].tries < MaxProviderAttempts)
  BY <1>1, GateAlone DEF GatewayInv, GateSound
<1>3. MaxProviderAttempts \in Nat /\ "error" \notin Responses /\ "none" \notin Responses
  BY AgentRunAssumption
<1>4. ASSUME NEW g \in Models!GateRow, gate' = [gate EXCEPT ![d] = g], g.key = k, NEW c, NEW n,
             call' = [call EXCEPT ![k] = c], invoked' = [invoked EXCEPT ![k] = n], CallSound(c, n),
             Working(g) => c.status = "running" /\ n = g.tries,
             g.pc = "ready" => g.tries < MaxProviderAttempts,
             g.pc = "done" /\ g.result \in Responses => c = [status |-> "succeeded", result |-> g.result]
      PROVE  /\ GatewayInv' /\ CallsKept
             /\ gate'[d].key = gate[d].key /\ \A e \in Drivers : e # d => gate'[e] = gate[e]
  <2>1. call'[k] = c /\ invoked'[k] = n /\ gate'[d] = g /\ \A e \in Drivers : e # d => gate'[e] = gate[e]
    BY <1>2, <1>4 DEF GatewayInv
  <2>2. GateSound(g, call', invoked')
    BY <1>2, <1>4, <2>1 DEF GateSound
  <2>3. GatewayInv' /\ CallsKept
    BY <1>2, <1>4, <2>2, GateMove
  <2> QED BY <1>4, <2>1, <2>3
<1>5. CASE Models!Attempt(d)
  <2> DEFINE g == [gate[d] EXCEPT !.pc = "provider", !.tries = gate[d].tries + 1]
             n == invoked[k] + 1
  <2>1. gate' = [gate EXCEPT ![d] = g] /\ invoked' = [invoked EXCEPT ![k] = n] /\ call' = [call EXCEPT ![k] = call[k]]
        /\ gate[d].pc = "ready"
    BY <1>2, <1>5 DEF Models!Attempt
  <2>2. n \in 0..MaxProviderAttempts /\ n = gate[d].tries + 1
    BY <1>2, <1>3, <2>1 DEF Models!GateRow
  <2> HIDE DEF n
  <2>3. g = [gate[d] EXCEPT !.pc = "provider", !.tries = n]
    BY <2>2
  <2>4. g \in Models!GateRow /\ g.key = k /\ g.tries = n /\ g.pc = "provider"
    BY <1>2, <2>2, <2>3 DEF Models!GateRow
  <2>5. CallSound(call[k], n)
    BY <1>2, <2>2 DEF CallSound
  <2> HIDE DEF g
  <2> QED BY <1>1, <1>2, <1>4, <2>1, <2>4, <2>5 DEF Working
<1>6. CASE Models!RetryAttempt(d)
  <2> DEFINE g == [gate[d] EXCEPT !.pc = "ready"]
  <2>1. gate' = [gate EXCEPT ![d] = g] /\ UNCHANGED <<call, invoked>> /\ gate[d].tries < MaxProviderAttempts
    BY <1>6 DEF Models!RetryAttempt
  <2>2. g \in Models!GateRow /\ g.key = k /\ g.tries = gate[d].tries /\ g.pc = "ready"
    BY <1>2 DEF Models!GateRow
  <2> HIDE DEF g
  <2>3. call' = [call EXCEPT ![k] = call[k]] /\ invoked' = [invoked EXCEPT ![k] = invoked[k]]
    BY <1>2, <2>1
  <2> QED BY <1>1, <1>2, <1>4, <2>1, <2>2, <2>3 DEF Working
<1>7. ASSUME NEW result \in Responses \cup Models!Failures, Models!Finish(d, result)
      PROVE  /\ GatewayInv' /\ CallsKept
             /\ gate'[d].key = gate[d].key /\ \A e \in Drivers : e # d => gate'[e] = gate[e]
  <2> DEFINE g == [gate[d] EXCEPT !.pc = "done", !.result = result]
             c == [status |-> IF result \in Responses THEN "succeeded" ELSE "failed", result |-> result]
  <2>1. gate' = [gate EXCEPT ![d] = g] /\ call' = [call EXCEPT ![k] = c] /\ UNCHANGED invoked
    BY <1>7 DEF Models!Finish, Models!Returned
  <2>2. g \in Models!GateRow /\ g.key = k /\ g.result = result /\ g.pc = "done"
    BY <1>2, <1>7 DEF Models!GateRow
  <2>3. CallSound(c, invoked[k]) /\ (result \in Responses => c = [status |-> "succeeded", result |-> result])
    BY <1>2, <1>7 DEF CallSound, Models!CallRow
  <2> HIDE DEF g, c
  <2> QED BY <1>1, <1>2, <1>4, <2>1, <2>2, <2>3 DEF Working
<1>8. CASE Models!Unrecorded(d)
  <2> DEFINE g == [gate[d] EXCEPT !.pc = "done", !.result = "error"]
  <2>1. gate' = [gate EXCEPT ![d] = g] /\ UNCHANGED <<call, invoked>>
    BY <1>8 DEF Models!Unrecorded, Models!Returned
  <2>2. g \in Models!GateRow /\ g.key = k /\ g.result = "error" /\ g.pc = "done"
    BY <1>2 DEF Models!GateRow
  <2> HIDE DEF g
  <2> QED BY <1>1, <1>2, <1>3, <1>4, <2>1, <2>2 DEF Working
<1> QED BY <1>1, <1>5, <1>6, <1>7, <1>8 DEF Models!Step, Working

\* A driver that is done, or gone, leaves the ledger as it is.
LEMMA GateOut ==
  ASSUME GatewayInv, NEW d \in Drivers, gate' = [gate EXCEPT ![d] = Models!Out], UNCHANGED <<call, invoked>>
  PROVE  /\ GatewayInv' /\ CallsKept
         /\ gate'[d].pc = "out" /\ \A e \in Drivers : e # d => gate'[e] = gate[e]
<1>1. /\ gate' = [e \in Drivers |-> gate'[e]] /\ DOMAIN gate' = Drivers
      /\ gate'[d] = Models!Out /\ \A e \in Drivers : e # d => gate'[e] = gate[e]
  BY DEF GatewayInv
<1>2. GateSound(Models!Out, call, invoked) /\ Models!Out.pc = "out"
  BY AgentRunAssumption DEF Models!Out, GateSound, Working, Models!GateRow
<1>3. \A e \in Drivers : GateSound(gate'[e], call', invoked')
  BY <1>1, <1>2 DEF GatewayInv
<1>4. OneAtATime'
  BY <1>1, <1>2 DEF GatewayInv, OneAtATime, Working
<1> QED BY <1>1, <1>2, <1>3, <1>4 DEF GatewayInv, CallsKept

------------------------------------------------------------------------------
(* The tool ledger *)

Busy(e) == e.pc \notin {"out", "done"}

Interactive(k) == PolicyMode[k[1]] = "interactive"

\* A caller of the executor works on a reserved run, or was told of a finished
\* one; an interactive run is pending until its approval exists.
ExecSound(e, t) ==
  /\ e \in Tools!ExecRow
  /\ Busy(e) => e.key \in ToolKeys /\ t[e.key] # "absent"
  /\ e.pc = "approve" => Interactive(e.key) /\ t[e.key] = "pending"
  /\ e.pc = "grant" => ~Interactive(e.key)
  /\ e.pc \in {"lookup", "fence", "start", "deny", "running"} /\ Interactive(e.key) => t[e.key] # "pending"
  /\ e.pc = "done" /\ e.result \in Results \cup {"retryable"} =>
       e.key \in ToolKeys /\ t[e.key] \in Tools!Terminal

Approves(d, k) == exec[d].pc = "approve" /\ exec[d].key = k

ToolsInv ==
  /\ toolRun \in [ToolKeys -> Tools!ToolStatus]
  /\ approval \in [ToolKeys -> Tools!ApprovalRow]
  /\ ran \in [ToolKeys -> Nat]
  /\ taskLive \in BOOLEAN
  /\ exec \in [Drivers -> Tools!ExecRow]
  /\ \A d \in Drivers : ExecSound(exec[d], toolRun)
  /\ \A d, e \in Drivers : \A k \in ToolKeys : Approves(d, k) /\ Approves(e, k) => d = e
  /\ \A k \in ToolKeys : ran[k] > 0 => toolRun[k] # "absent"

\* A run of a tool is never unreserved and a finished one keeps its outcome.
RunsKept ==
  \A k \in ToolKeys : /\ toolRun[k] # "absent" => toolRun'[k] # "absent"
                      /\ toolRun[k] \in Tools!Terminal => toolRun'[k] = toolRun[k]

\* A step of d under k.
LEMMA ToolMove ==
  ASSUME ToolsInv, NEW d \in Drivers, NEW k \in ToolKeys, NEW e, NEW st, NEW n \in Nat,
         toolRun' = [toolRun EXCEPT ![k] = st], exec' = [exec EXCEPT ![d] = e], ran' = [ran EXCEPT ![k] = n],
         approval' \in [ToolKeys -> Tools!ApprovalRow], taskLive' \in BOOLEAN,
         st \in Tools!ToolStatus, st # "absent", toolRun[k] \in Tools!Terminal => st = toolRun[k],
         st = toolRun[k] \/ \A c \in Drivers : Approves(c, k) => c = d,
         st = toolRun[k] \/ st # "pending" \/ toolRun[k] = "absent",
         ExecSound(e, toolRun'), e.pc = "approve" => e.key = k /\ \A c \in Drivers : ~Approves(c, k)
  PROVE  ToolsInv' /\ RunsKept
<1>1. /\ toolRun'[k] = st /\ exec'[d] = e /\ ran'[k] = n /\ exec[d] \in Tools!ExecRow
      /\ \A j \in ToolKeys : j # k => toolRun'[j] = toolRun[j] /\ ran'[j] = ran[j]
      /\ \A c \in Drivers : c # d => exec'[c] = exec[c]
  BY DEF ToolsInv
<1>2. /\ toolRun' \in [ToolKeys -> Tools!ToolStatus] /\ ran' \in [ToolKeys -> Nat]
      /\ exec' \in [Drivers -> Tools!ExecRow]
  BY DEF ToolsInv, ExecSound
<1>3. RunsKept
  BY <1>1 DEF RunsKept
<1>4. ASSUME NEW c \in Drivers, c # d PROVE ExecSound(exec'[c], toolRun')
  <2>1. ExecSound(exec[c], toolRun) /\ exec'[c] = exec[c]
    BY <1>1, <1>4 DEF ToolsInv
  <2> DEFINE j == exec[c].key
  <2>2. Busy(exec[c]) => j \in ToolKeys /\ toolRun'[j] # "absent"
    BY <1>3, <2>1 DEF ExecSound, RunsKept
  <2>3. exec[c].pc = "approve" => toolRun'[j] = "pending"
    BY <1>1, <1>4, <2>1 DEF ExecSound, Approves, Busy
  <2>4. Busy(exec[c]) => toolRun'[j] = toolRun[j] \/ toolRun'[j] # "pending"
    BY <1>1, <2>1 DEF ExecSound
  <2>5. exec[c].pc = "done" /\ exec[c].result \in Results \cup {"retryable"} => toolRun'[j] \in Tools!Terminal
    BY <1>3, <2>1 DEF ExecSound, RunsKept
  <2> QED BY <2>1, <2>2, <2>3, <2>4, <2>5 DEF ExecSound, Busy
<1>5. \A b, c \in Drivers : \A j \in ToolKeys : Approves(b, j)' /\ Approves(c, j)' => b = c
  BY <1>1 DEF ToolsInv, Approves
<1>6. \A j \in ToolKeys : ran'[j] > 0 => toolRun'[j] # "absent"
  BY <1>1 DEF ToolsInv
<1> QED BY <1>1, <1>2, <1>3, <1>4, <1>5, <1>6 DEF ToolsInv

\* Nobody else is about to create the approval of a run that d works on.
LEMMA ApproverAlone ==
  ASSUME ToolsInv, NEW d \in Drivers, Busy(exec[d])
  PROVE  /\ exec[d].key \in ToolKeys /\ toolRun[exec[d].key] # "absent"
         /\ \A c \in Drivers : Approves(c, exec[d].key) => c = d
<1>1. exec[d].key \in ToolKeys /\ toolRun[exec[d].key] # "absent" /\ exec[d] \in Tools!ExecRow
  BY DEF ToolsInv, ExecSound
<1>2. exec[d].pc \in {"lookup", "approve", "grant", "fence", "start", "deny", "running"}
  BY <1>1 DEF Tools!ExecRow, Busy
<1>3. ASSUME NEW c \in Drivers, Approves(c, exec[d].key), c # d PROVE FALSE
  <2>1. Interactive(exec[d].key) /\ toolRun[exec[d].key] = "pending"
    BY <1>3 DEF ToolsInv, ExecSound, Approves
  <2>2. exec[d].pc = "approve"
    BY <1>2, <2>1 DEF ToolsInv, ExecSound
  <2> QED BY <1>1, <1>3, <2>2 DEF ToolsInv, Approves
<1> QED BY <1>1, <1>3

\* The reservation of a run, its resumption, or its replay.
LEMMA ToolExecute ==
  ASSUME ToolsInv, NEW d \in Drivers, NEW k \in ToolKeys, NEW a \in ToolKeys \cup {NoKey}, Tools!Execute(d, k, a)
  PROVE  /\ ToolsInv' /\ RunsKept
         /\ exec'[d].key = k /\ \A c \in Drivers : c # d => exec'[c] = exec[c]
         /\ \A j \in ToolKeys : j # k /\ toolRun[j] = "absent" => toolRun'[j] = "absent"
<1> DEFINE Row(pc, grant, result) == [pc |-> pc, key |-> k, grant |-> grant, result |-> result]
<1>1. /\ exec[d].pc = "out" /\ approval' = approval /\ taskLive' = taskLive /\ ran' = [ran EXCEPT ![k] = ran[k]]
      /\ approval \in [ToolKeys -> Tools!ApprovalRow] /\ taskLive \in BOOLEAN
      /\ ran[k] \in Nat /\ toolRun[k] \in Tools!ToolStatus
  BY DEF Tools!Execute, ToolsInv
<1>2. PolicyMode[k[1]] \in Tools!Modes /\ "preapproved" # "interactive"
  BY ModesAssumption DEF ToolKeys
<1>3. ASSUME NEW pc \in {"lookup", "fence", "approve", "grant", "deny", "done"}, NEW g \in ToolKeys \cup {NoKey},
             NEW result \in {"none", "replayed", "in_progress"}, NEW st \in Tools!ToolStatus,
             exec' = [exec EXCEPT ![d] = Row(pc, g, result)], toolRun' = [toolRun EXCEPT ![k] = st],
             \/ toolRun[k] = "absent" /\ st = "pending" /\ pc # "done"
             \/ st = toolRun[k] /\ st # "absent" /\ pc \notin {"approve", "grant"},
             pc = "approve" <=> toolRun[k] = "absent" /\ Interactive(k),
             pc \notin {"approve", "done"} /\ Interactive(k) => st # "pending",
             result = "replayed" => toolRun[k] \in Tools!Terminal
      PROVE  /\ ToolsInv' /\ RunsKept
             /\ exec'[d].key = k /\ \A c \in Drivers : c # d => exec'[c] = exec[c]
             /\ \A j \in ToolKeys : j # k /\ toolRun[j] = "absent" => toolRun'[j] = "absent"
  <2> DEFINE e == Row(pc, g, result)
  <2>1. e \in Tools!ExecRow /\ e.pc = pc /\ e.key = k /\ e.result = result
    BY DEF Tools!ExecRow, Tools!Outcomes
  <2>2. toolRun'[k] = st /\ (\A j \in ToolKeys : j # k => toolRun'[j] = toolRun[j]) /\ exec'[d] = e
        /\ \A c \in Drivers : c # d => exec'[c] = exec[c]
    BY <1>3 DEF ToolsInv
  <2>3. \A c \in Drivers : ~Approves(c, k) \/ toolRun[k] = "pending"
    BY DEF ToolsInv, ExecSound, Approves
  <2>4. "absent" \notin Tools!Terminal /\ "pending" \notin Tools!Terminal
    BY DEF Tools!Terminal
  <2> HIDE DEF e
  <2>5. ExecSound(e, toolRun')
    BY <1>3, <2>1, <2>2, <2>4 DEF ExecSound, Busy, Results
  <2>6. ToolsInv' /\ RunsKept
    <3>1. st # "absent" /\ (toolRun[k] \in Tools!Terminal => st = toolRun[k])
          /\ (st = toolRun[k] \/ \A c \in Drivers : Approves(c, k) => c = d)
          /\ (st = toolRun[k] \/ st # "pending" \/ toolRun[k] = "absent")
          /\ (e.pc = "approve" => e.key = k /\ \A c \in Drivers : ~Approves(c, k))
      BY <1>3, <2>1, <2>3, <2>4
    <3> QED BY <1>1, <1>3, <2>5, <3>1, ToolMove DEF e
  <2> QED BY <2>1, <2>2, <2>6
<1>4. CASE toolRun[k] = "absent"
  <2> DEFINE pc == Tools!AdmissionOf(k)
             g == IF PolicyMode[k[1]] = "preapproved" THEN a ELSE NoKey
  <2>1. toolRun' = [toolRun EXCEPT ![k] = "pending"] /\ exec' = [exec EXCEPT ![d] = Row(pc, g, "none")]
    BY <1>4 DEF Tools!Execute, Tools!Reservable, Tools!Terminal, Tools!Out
  <2>2. pc \in {"fence", "approve", "grant", "deny"} /\ (pc = "approve" <=> Interactive(k))
    BY <1>2 DEF Tools!AdmissionOf, Tools!Modes, Interactive
  <2>3. g \in ToolKeys \cup {NoKey} /\ "pending" \in Tools!ToolStatus
    BY DEF Tools!ToolStatus
  <2> HIDE DEF pc, g, Row
  <2> QED BY <1>3, <1>4, <2>1, <2>2, <2>3
<1>5. CASE toolRun[k] # "absent"
  <2>1. toolRun' = [toolRun EXCEPT ![k] = toolRun[k]]
    BY <1>5 DEF Tools!Execute, Tools!Reservable, ToolsInv
  <2>2. \/ toolRun[k] = "awaiting_approval" /\ exec' = [exec EXCEPT ![d] = Row("lookup", a, "none")]
        \/ toolRun[k] \in Tools!Terminal /\ exec' = [exec EXCEPT ![d] = Row("done", NoKey, "replayed")]
        \/ exec' = [exec EXCEPT ![d] = Row("done", NoKey, "in_progress")]
    BY <1>5 DEF Tools!Execute, Tools!Reservable, Tools!Out
  <2> HIDE DEF Row
  <2> QED BY <1>1, <1>3, <1>5, <2>1, <2>2
<1> QED BY <1>4, <1>5

\* A call that goes on, and one that returned.
At(e, pc) == [e EXCEPT !.pc = pc]

Told(e, result) == [e EXCEPT !.pc = "done", !.grant = NoKey, !.result = result]

\* A driver that is gone, or was told of no finished run, leaves the ledger as it is.
LEMMA ToolTold ==
  ASSUME ToolsInv, NEW d \in Drivers, NEW e \in Tools!ExecRow, exec' = [exec EXCEPT ![d] = e],
         e.pc \in {"out", "done"}, e.result \notin Results \cup {"retryable"},
         UNCHANGED <<toolRun, approval, taskLive, ran>>
  PROVE  ToolsInv' /\ RunsKept /\ \A c \in Drivers : c # d => exec'[c] = exec[c]
<1>1. exec'[d] = e /\ \A c \in Drivers : c # d => exec'[c] = exec[c]
  BY DEF ToolsInv
<1>2. \A c \in Drivers : ExecSound(exec'[c], toolRun')
  <2>1. ExecSound(e, toolRun')
    BY DEF ExecSound, Busy
  <2>2. \A c \in Drivers : ExecSound(exec[c], toolRun')
    BY DEF ToolsInv
  <2> QED BY <1>1, <2>1, <2>2
<1>3. exec' \in [Drivers -> Tools!ExecRow]
  BY <1>1 DEF ToolsInv
<1>4. \A b, c \in Drivers : \A k \in ToolKeys : Approves(b, k)' /\ Approves(c, k)' => b = c
  BY <1>1 DEF ToolsInv, Approves
<1> QED BY <1>1, <1>2, <1>3, <1>4 DEF ToolsInv, RunsKept

LEMMA ToolOut ==
  ASSUME ToolsInv, NEW d \in Drivers, exec' = [exec EXCEPT ![d] = Tools!Out],
         UNCHANGED <<toolRun, approval, taskLive, ran>>
  PROVE  ToolsInv' /\ RunsKept /\ \A c \in Drivers : c # d => exec'[c] = exec[c]
<1>1. Tools!Out \in Tools!ExecRow /\ Tools!Out.pc = "out" /\ Tools!Out.result \notin Results \cup {"retryable"}
  BY DEF Tools!Out, Tools!ExecRow, Results
<1> QED BY <1>1, ToolTold

\* A step of d's call, under the same key.
LEMMA ToolStep ==
  ASSUME ToolsInv, NEW d \in Drivers, Tools!Step(d)
  PROVE  /\ ToolsInv' /\ RunsKept
         /\ exec[d].pc # "out" /\ exec'[d].key = exec[d].key /\ \A c \in Drivers : c # d => exec'[c] = exec[c]
         /\ \A j \in ToolKeys : toolRun[j] = "absent" => toolRun'[j] = "absent"
<1> DEFINE k == exec[d].key
<1>1. Busy(exec[d])
  BY DEF Tools!Step, Tools!LookUp, Tools!CreateApproval, Tools!CheckGrant, Tools!Deny, Tools!CheckFence,
     Tools!MarkStarted, Tools!Finish, Tools!Interrupted, Busy
<1>2. /\ k \in ToolKeys /\ toolRun[k] # "absent" /\ (\A c \in Drivers : Approves(c, k) => c = d)
      /\ exec[d] \in Tools!ExecRow /\ ExecSound(exec[d], toolRun)
      /\ toolRun[k] \in Tools!ToolStatus /\ ran[k] \in Nat
      /\ approval \in [ToolKeys -> Tools!ApprovalRow] /\ taskLive \in BOOLEAN
      /\ toolRun = [toolRun EXCEPT ![k] = toolRun[k]] /\ ran = [ran EXCEPT ![k] = ran[k]]
  BY <1>1, ApproverAlone DEF ToolsInv
<1>3. "absent" \notin Tools!Terminal /\ "pending" \notin Tools!Terminal /\ "awaiting_approval" \notin Tools!Terminal
      /\ {"succeeded", "failed", "denied"} = Tools!Terminal /\ "running" \notin Tools!Terminal
      /\ Tools!Terminal \subseteq Tools!ToolStatus /\ {"running", "awaiting_approval"} \subseteq Tools!ToolStatus
  BY DEF Tools!Terminal, Tools!ToolStatus
<1>4. ASSUME NEW e \in Tools!ExecRow, exec' = [exec EXCEPT ![d] = e], e.key = k, e.pc # "approve", e.pc # "grant",
             NEW st \in Tools!ToolStatus, toolRun' = [toolRun EXCEPT ![k] = st],
             st = toolRun[k] \/ (st \notin {"absent", "pending"} /\ toolRun[k] \notin Tools!Terminal),
             NEW n \in Nat, ran' = [ran EXCEPT ![k] = n],
             approval' \in [ToolKeys -> Tools!ApprovalRow], taskLive' = taskLive,
             e.pc \in {"lookup", "fence", "start", "deny", "running"} /\ Interactive(k) => st # "pending",
             e.pc = "done" /\ e.result \in Results \cup {"retryable"} => st \in Tools!Terminal
      PROVE  /\ ToolsInv' /\ RunsKept
             /\ exec'[d].key = exec[d].key /\ \A c \in Drivers : c # d => exec'[c] = exec[c]
             /\ \A j \in ToolKeys : toolRun[j] = "absent" => toolRun'[j] = "absent"
  <2>1. toolRun'[k] = st /\ (\A j \in ToolKeys : j # k => toolRun'[j] = toolRun[j]) /\ exec'[d] = e
        /\ \A c \in Drivers : c # d => exec'[c] = exec[c]
    BY <1>2, <1>4 DEF ToolsInv
  <2>2. ExecSound(e, toolRun') /\ st # "absent"
    BY <1>2, <1>4, <2>1 DEF ExecSound, Busy
  <2>3. ToolsInv' /\ RunsKept
    BY <1>2, <1>4, <2>2, ToolMove
  <2> QED BY <1>2, <1>4, <2>1, <2>3
<1>5. \A result \in Tools!Outcomes :
        LET e == Told(exec[d], result) IN
        e \in Tools!ExecRow /\ e.key = k /\ e.pc = "done" /\ e.result = result
  BY <1>2 DEF Tools!ExecRow, Told
<1>6. \A pc \in {"fence", "start", "deny", "running"} :
        LET e == At(exec[d], pc) IN
        e \in Tools!ExecRow /\ e.key = k /\ e.pc = pc
  BY <1>2 DEF Tools!ExecRow, At
<1>7. exec[d].pc \in {"lookup", "fence", "start", "deny", "running"} /\ Interactive(k) => toolRun[k] # "pending"
  BY <1>2 DEF ExecSound
<1>8. {"succeeded", "failed", "retryable", "denied", "error", "in_progress", "approval_required"} \subseteq Tools!Outcomes
      /\ {"denied", "error", "in_progress", "approval_required"} \cap (Results \cup {"retryable"}) = {}
  BY DEF Tools!Outcomes, Results
<1>a. ASSUME NEW e \in Tools!ExecRow, exec' = [exec EXCEPT ![d] = e], e.key = k,
             UNCHANGED <<toolRun, approval, taskLive, ran>>,
             \/ e.pc \in {"fence", "start", "deny"} /\ (Interactive(k) => toolRun[k] # "pending")
             \/ e.pc = "done" /\ e.result \notin Results \cup {"retryable"}
      PROVE  /\ ToolsInv' /\ RunsKept
             /\ exec[d].pc # "out" /\ exec'[d].key = exec[d].key /\ (\A c \in Drivers : c # d => exec'[c] = exec[c])
             /\ \A j \in ToolKeys : toolRun[j] = "absent" => toolRun'[j] = "absent"
  <2>1. /\ toolRun' = [toolRun EXCEPT ![k] = toolRun[k]] /\ ran' = [ran EXCEPT ![k] = ran[k]]
        /\ approval' \in [ToolKeys -> Tools!ApprovalRow] /\ taskLive' = taskLive
    BY <1>2, <1>a
  <2>2. /\ e.pc \notin {"approve", "grant"}
        /\ e.pc \in {"lookup", "fence", "start", "deny", "running"} /\ Interactive(k) => toolRun[k] # "pending"
        /\ ~(e.pc = "done" /\ e.result \in Results \cup {"retryable"})
    BY <1>a
  <2>3. /\ ToolsInv' /\ RunsKept
        /\ exec'[d].key = exec[d].key /\ (\A c \in Drivers : c # d => exec'[c] = exec[c])
        /\ \A j \in ToolKeys : toolRun[j] = "absent" => toolRun'[j] = "absent"
    BY <1>2, <1>4, <1>a, <2>1, <2>2
  <2> QED BY <1>1, <2>3 DEF Busy
<1>9. CASE Tools!CreateApproval(d)
  <2>1. /\ exec[d].pc = "approve" /\ toolRun' = [toolRun EXCEPT ![k] = "awaiting_approval"]
        /\ approval' = [approval EXCEPT ![k] = [status |-> "pending", expired |-> FALSE]]
        /\ exec' = [exec EXCEPT ![d] = Told(exec[d], "approval_required")]
        /\ UNCHANGED <<taskLive, ran>>
    BY <1>9 DEF Tools!CreateApproval, Tools!Return, Told
  <2>2. toolRun[k] = "pending"
    BY <1>2, <2>1 DEF ExecSound
  <2>3. approval' \in [ToolKeys -> Tools!ApprovalRow]
    BY <1>2, <2>1 DEF Tools!ApprovalRow
  <2>4. PICK e \in Tools!ExecRow :
          exec' = [exec EXCEPT ![d] = e] /\ e.key = k /\ e.pc = "done" /\ e.result = "approval_required"
    BY <1>5, <1>8, <2>1
  <2> QED BY <1>1, <1>2, <1>3, <1>4, <1>8, <2>1, <2>2, <2>3, <2>4 DEF Busy
<1>10. CASE Tools!CheckGrant(d)
  <2>2. PICK pc \in {"fence", "deny"} : exec' = [exec EXCEPT ![d] = [@ EXCEPT !.grant = NoKey, !.pc = pc]]
    BY <1>10 DEF Tools!CheckGrant
  <2> DEFINE e == [exec[d] EXCEPT !.grant = NoKey, !.pc = pc]
  <2>1. exec[d].pc = "grant" /\ exec' = [exec EXCEPT ![d] = e] /\ UNCHANGED <<toolRun, approval, taskLive, ran>>
    BY <1>10, <2>2 DEF Tools!CheckGrant
  <2>3. e \in Tools!ExecRow /\ e.key = k /\ e.pc = pc
    BY <1>2, <2>2 DEF Tools!ExecRow
  <2> HIDE DEF e
  <2>4. ~Interactive(k)
    BY <1>2, <2>1 DEF ExecSound
  <2> QED BY <1>a, <2>1, <2>2, <2>3, <2>4
<1>11. CASE Tools!CheckFence(d)
  <2>1. PICK pc \in {"start", "deny"} :
          exec' = [exec EXCEPT ![d] = At(exec[d], pc)] /\ UNCHANGED <<toolRun, approval, taskLive, ran>>
    BY <1>11, Zenon DEF Tools!CheckFence, Tools!Goto, At
  <2>2. PICK e \in Tools!ExecRow : exec' = [exec EXCEPT ![d] = e] /\ e.key = k /\ e.pc = pc
    BY <1>6, <2>1
  <2>3. Interactive(k) => toolRun[k] # "pending"
    BY <1>7, <1>11 DEF Tools!CheckFence
  <2> QED BY <1>a, <2>1, <2>2, <2>3
<1>12. CASE Tools!MarkStarted(d)
  <2>1. PICK pc \in {"running", "deny"}, st \in Tools!ToolStatus, n \in Nat :
          /\ exec' = [exec EXCEPT ![d] = At(exec[d], pc)]
          /\ toolRun' = [toolRun EXCEPT ![k] = st] /\ ran' = [ran EXCEPT ![k] = n]
          /\ st = toolRun[k] \/ (st = "running" /\ toolRun[k] \notin Tools!Terminal)
    <3>1. CASE Tools!Goto(d, "running") /\ ran' = [ran EXCEPT ![k] = @ + 1]
               /\ toolRun' = IF toolRun[k] \in Tools!Terminal THEN toolRun ELSE [toolRun EXCEPT ![k] = "running"]
      <4>1. ran[k] + 1 \in Nat /\ ran' = [ran EXCEPT ![k] = ran[k] + 1]
        BY <1>2, <3>1
      <4>2. exec' = [exec EXCEPT ![d] = At(exec[d], "running")]
        BY <3>1 DEF Tools!Goto, At
      <4>3. CASE toolRun[k] \in Tools!Terminal
        BY <1>2, <3>1, <4>1, <4>2, <4>3
      <4>4. CASE toolRun[k] \notin Tools!Terminal
        BY <1>3, <3>1, <4>1, <4>2, <4>4
      <4> QED BY <4>3, <4>4
    <3>2. CASE Tools!Goto(d, "deny") /\ UNCHANGED <<toolRun, ran>>
      BY <1>2, <3>2 DEF Tools!Goto, At
    <3> QED BY <1>12, <3>1, <3>2 DEF Tools!MarkStarted
  <2>2. PICK e \in Tools!ExecRow : exec' = [exec EXCEPT ![d] = e] /\ e.key = k /\ e.pc = pc
    BY <1>6, <2>1
  <2>3. exec[d].pc = "start" /\ UNCHANGED <<approval, taskLive>>
    BY <1>12 DEF Tools!MarkStarted
  <2> QED BY <1>1, <1>2, <1>4, <1>7, <2>1, <2>2, <2>3 DEF Busy
<1>13. CASE Tools!Deny(d) \/ \E o \in {"succeeded", "failed", "retryable"} : Tools!Finish(d, o)
  <2>1. PICK result \in Tools!Outcomes, st \in Tools!ToolStatus :
          /\ exec' = [exec EXCEPT ![d] = Told(exec[d], result)]
          /\ toolRun' = [toolRun EXCEPT ![k] = st]
          /\ st = toolRun[k] \/ (st \in Tools!Terminal /\ toolRun[k] \notin Tools!Terminal)
          /\ result # "error" => st \in Tools!Terminal
    <3>1. ASSUME NEW result \in Tools!Outcomes, NEW status \in Tools!Terminal,
                 toolRun' = Tools!Recorded(k, status), Tools!Return(d, result)
          PROVE  \E st \in Tools!ToolStatus :
                   /\ exec' = [exec EXCEPT ![d] = Told(exec[d], result)]
                   /\ toolRun' = [toolRun EXCEPT ![k] = st]
                   /\ st = toolRun[k] \/ (st \in Tools!Terminal /\ toolRun[k] \notin Tools!Terminal)
                   /\ st \in Tools!Terminal
      <4>1. CASE toolRun[k] \in Tools!Terminal
        BY <1>2, <3>1, <4>1 DEF Tools!Recorded, Tools!Return, Told
      <4>2. CASE toolRun[k] \notin Tools!Terminal
        BY <1>3, <3>1, <4>2 DEF Tools!Recorded, Tools!Return, Told
      <4> QED BY <4>1, <4>2
    <3>2. CASE Tools!Return(d, "error") /\ UNCHANGED toolRun
      <4>1. exec' = [exec EXCEPT ![d] = Told(exec[d], "error")] /\ toolRun' = [toolRun EXCEPT ![k] = toolRun[k]]
        BY <1>2, <3>2 DEF Tools!Return, Told
      <4> QED BY <1>2, <1>8, <4>1
    <3>3. CASE toolRun' = Tools!Recorded(k, "denied") /\ Tools!Return(d, "denied")
      BY <1>3, <1>8, <3>1, <3>3
    <3>4. ASSUME NEW o \in {"succeeded", "failed", "retryable"},
                 toolRun' = Tools!Recorded(k, Tools!StatusOf(o)), Tools!Return(d, o)
          PROVE  \E st \in Tools!ToolStatus :
                   /\ exec' = [exec EXCEPT ![d] = Told(exec[d], o)]
                   /\ toolRun' = [toolRun EXCEPT ![k] = st]
                   /\ st = toolRun[k] \/ (st \in Tools!Terminal /\ toolRun[k] \notin Tools!Terminal)
                   /\ st \in Tools!Terminal
      <4>1. Tools!StatusOf(o) \in Tools!Terminal /\ o \in Tools!Outcomes
        BY <1>3, <1>8 DEF Tools!StatusOf
      <4> QED BY <3>1, <3>4, <4>1
    <3> QED BY <1>8, <1>13, <3>2, <3>3, <3>1, <3>4, <1>3 DEF Tools!Deny, Tools!Finish
  <2>2. PICK e \in Tools!ExecRow : exec' = [exec EXCEPT ![d] = e] /\ e.key = k /\ e.pc = "done" /\ e.result = result
    BY <1>5, <2>1
  <2>3. UNCHANGED <<approval, taskLive, ran>>
    BY <1>13 DEF Tools!Deny, Tools!Finish
  <2> QED BY <1>1, <1>2, <1>3, <1>4, <1>8, <2>1, <2>2, <2>3 DEF Busy
<1>14. CASE Tools!Interrupted(d)
  <2>1. exec' = [exec EXCEPT ![d] = Told(exec[d], "error")]
        /\ UNCHANGED <<toolRun, approval, taskLive, ran>>
    BY <1>14 DEF Tools!Interrupted, Tools!Return, Told
  <2>2. PICK e \in Tools!ExecRow : exec' = [exec EXCEPT ![d] = e] /\ e.key = k /\ e.pc = "done" /\ e.result = "error"
    BY <1>5, <1>8, <2>1
  <2> QED BY <1>8, <1>a, <2>1, <2>2
<1>15. CASE Tools!LookUp(d)
  <2>1. exec[d].pc = "lookup" /\ UNCHANGED <<toolRun, approval, taskLive, ran>>
    BY <1>15 DEF Tools!LookUp
  <2>2. CASE Tools!Return(d, "in_progress")
    <3>1. exec' = [exec EXCEPT ![d] = Told(exec[d], "in_progress")]
      BY <2>2 DEF Tools!Return, Told
    <3>2. PICK e \in Tools!ExecRow :
            exec' = [exec EXCEPT ![d] = e] /\ e.key = k /\ e.pc = "done" /\ e.result = "in_progress"
      BY <1>5, <1>8, <3>1
    <3> QED BY <1>8, <1>a, <2>1, <3>2
  <2>3. CASE exec' = [exec EXCEPT ![d] = [@ EXCEPT !.pc = "fence", !.grant = NoKey]]
    <3> DEFINE e == [exec[d] EXCEPT !.pc = "fence", !.grant = NoKey]
    <3>1. e \in Tools!ExecRow /\ e.key = k /\ e.pc = "fence" /\ exec' = [exec EXCEPT ![d] = e]
      BY <1>2, <2>3 DEF Tools!ExecRow
    <3> HIDE DEF e
    <3> QED BY <1>7, <1>a, <2>1, <3>1
  <2> QED BY <1>15, <2>2, <2>3 DEF Tools!LookUp
<1> QED BY <1>9, <1>10, <1>11, <1>12, <1>13, <1>14, <1>15 DEF Tools!Step

\* Decisions and clocks change no run.
LEMMA ToolEnvironment ==
  ASSUME ToolsInv, Tools!Environment
  PROVE  ToolsInv' /\ toolRun' = toolRun /\ exec' = exec
<1>1. UNCHANGED <<toolRun, exec, ran>>
  BY DEF Tools!Environment, Tools!DecideApproval, Tools!ExpireApproval, Tools!TaskLost
<1>2. approval' \in [ToolKeys -> Tools!ApprovalRow] /\ taskLive' \in BOOLEAN
  <2>1. CASE Tools!TaskLost
    BY <2>1 DEF ToolsInv, Tools!TaskLost
  <2>2. ASSUME NEW k \in ToolKeys, NEW decision \in {"approved", "denied"}, Tools!DecideApproval(k, decision)
        PROVE  approval' \in [ToolKeys -> Tools!ApprovalRow] /\ taskLive' = taskLive
    BY <2>2 DEF ToolsInv, Tools!DecideApproval, Tools!ApprovalRow
  <2>3. ASSUME NEW k \in ToolKeys, Tools!ExpireApproval(k)
        PROVE  approval' \in [ToolKeys -> Tools!ApprovalRow] /\ taskLive' = taskLive
    BY <2>3 DEF ToolsInv, Tools!ExpireApproval, Tools!ApprovalRow
  <2> QED BY <2>1, <2>2, <2>3 DEF Tools!Environment, ToolsInv
<1> QED BY <1>1, <1>2 DEF ToolsInv, Approves

------------------------------------------------------------------------------
(* The transcript *)

\* TranscriptInOrder of any transcript.
Ordered(h) ==
  \A j \in DOMAIN h : /\ h[j].kind = "tool" => \E i \in 1..j : Replied(h, i, j)
                      /\ h[j].kind = "model" => AllReplied(h, j - 1)

ExternalLast(h, state) == \A j \in DOMAIN h : h[j].kind = "external" => j = Len(h) /\ state = "succeeded"

\* Every answer is later than the ones before it, and none is later than the run.
Numbered(h, n) ==
  /\ \A i \in DOMAIN h : h[i].kind = "model" => h[i].attempt \in 1..n
  /\ \A i, j \in DOMAIN h : i < j /\ h[i].kind = "model" /\ h[j].kind = "model" => h[i].attempt < h[j].attempt

\* A model said what providers say.
Said(h) == \A i \in DOMAIN h : h[i].kind = "model" => h[i].what \in Responses

OfLedgers(h, c, t) ==
  \A i \in DOMAIN h :
    /\ h[i].kind = "model" => c[h[i].attempt] = [status |-> "succeeded", result |-> h[i].what]
    /\ h[i].kind = "tool" => <<h[i].id, h[i].attempt>> \in ToolKeys /\ t[<<h[i].id, h[i].attempt>>] \in Tools!Terminal

\* The earlier attempts of a pending call have ended.
EarlierEnded(pc, t) == pc.attempt > 0 => t[<<pc.id, pc.attempt>>] \in Tools!Terminal

Counted(r) ==
  /\ Cardinality(Responding(r.history)) <= r.turn
  /\ Cardinality(Responding(r.history)) <= MaxTurns
  /\ Cardinality(AskedIn(r.history)) <= r.asked

\* The values of the row, with the bounds of the budget.
Bounded(r) ==
  /\ r \in Rows
  /\ r.attempts <= MaxModelSteps /\ r.asked <= MaxToolCalls
  /\ r.pending \in Seq(PendingCall)
  /\ r.state = "awaiting_approval" =>
       r.pending # <<>> /\ r.pending[1].approval = ToolKey(r) /\ ToolKey(r) \in ToolKeys

Story(r, c, t) ==
  /\ Bounded(r)
  /\ Ordered(r.history) /\ ExternalLast(r.history, r.state)
  /\ r.state \notin {"failed", "cancelled"} => PendingLeft(r.pending, r.history, Spoken(r.history))
  /\ Numbered(r.history, r.attempts)
  /\ Said(r.history) /\ OfLedgers(r.history, c, t)
  /\ \A i \in DOMAIN r.pending : EarlierEnded(r.pending[i], t)
  /\ Counted(r)

\* What Advance checked before it chose the step.
Ready(intent, r) ==
  /\ intent = "model" => r.pending = <<>> /\ r.attempts < MaxModelSteps /\ r.turn < MaxTurns
  /\ intent = "tool" => r.pending # <<>> /\ r.pending[1].attempt < MaxToolAttempts
  /\ intent = "complete" => r.state = "awaiting_external"

SameRow(r, s) ==
  /\ r.state = s.state /\ r.turn = s.turn /\ r.attempts = s.attempts /\ r.asked = s.asked
  /\ r.compiled = s.compiled /\ r.pending = s.pending /\ r.why = s.why /\ r.history = s.history

\* A driver's copy of the row, the call it makes for it, and the answer it waits for.
Driven(d) ==
  LET l == loop[d]
      r == l.snap
  IN
  /\ Bounded(r)
  /\ l.pc \in {"call", "commit"} =>
       /\ Ready(l.intent, r)
       /\ r.version = run.version => SameRow(r, run)
       /\ l.intent = "tool" => Asked(run.history, r.pending[1].id) /\ EarlierEnded(r.pending[1], toolRun)
  /\ l.pc = "commit" /\ l.intent = "model" => gate[d].key = r.attempts + 1
  /\ l.pc = "commit" /\ l.intent = "tool" => exec[d].key = ToolKey(r)

\* A tool was asked for by the run, and its earlier attempts have ended.
Requested ==
  \A k \in ToolKeys : toolRun[k] # "absent" =>
    /\ Asked(run.history, k[1])
    /\ k[2] > 1 => toolRun[<<k[1], k[2] - 1>>] \in Tools!Terminal

LedgerInv ==
  /\ IInv
  /\ late \in BOOLEAN
  /\ GatewayInv
  /\ ToolsInv
  /\ run.state = "absent" => run = NoRun
  /\ Story(run, call, toolRun)
  /\ \A d \in Drivers : Driven(d)
  /\ Requested

------------------------------------------------------------------------------
(* A transcript grows by one message *)

\* What was said before a message stays as it was.
LEMMA AppendKeeps ==
  ASSUME NEW h \in Seq(Messages), NEW m \in Messages
  PROVE  /\ Append(h, m) \in Seq(Messages) /\ Len(Append(h, m)) = Len(h) + 1 /\ Len(h) \in Nat
         /\ DOMAIN h = 1..Len(h) /\ DOMAIN Append(h, m) = 1..(Len(h) + 1)
         /\ \A i \in 1..Len(h) : Append(h, m)[i] = h[i]
         /\ Append(h, m)[Len(h) + 1] = m
OBVIOUS

LEMMA RepliedBefore ==
  ASSUME NEW h \in Seq(Messages), NEW m \in Messages, NEW j \in 0..Len(h)
  PROVE  /\ \A i \in 1..j : Replied(Append(h, m), i, j) <=> Replied(h, i, j)
         /\ AllReplied(Append(h, m), j) <=> AllReplied(h, j)
         /\ \A p : PendingLeft(p, Append(h, m), j) <=> PendingLeft(p, h, j)
<1> DEFINE g == Append(h, m)
<1>1. Len(h) \in Nat /\ \A i \in 1..Len(h) : g[i] = h[i]
  BY AppendKeeps
<1> HIDE DEF g
<1>2. ASSUME NEW i \in 1..j PROVE (Replied(g, i, j) <=> Replied(h, i, j)) /\ g[i] = h[i]
  <2>1. g[i] = h[i] /\ \A n \in 1..(j - i) : i + n \in 1..Len(h)
    BY <1>1
  <2>2. \A n \in 1..(j - i) : g[i + n] = h[i + n]
    BY <1>1, <2>1
  <2> QED BY <2>1, <2>2 DEF Replied
<1>3. AllReplied(g, j) <=> AllReplied(h, j)
  BY <1>2, Zenon DEF AllReplied
<1>4. \A p : PendingLeft(p, g, j) <=> PendingLeft(p, h, j)
  BY <1>2, Zenon DEF PendingLeft
<1> QED BY <1>2, <1>3, <1>4 DEF g

\* The messages before the last one stay in order.
LEMMA OrderedBefore ==
  ASSUME NEW h \in Seq(Messages), NEW m \in Messages, Ordered(h),
         m.kind = "tool" => \E i \in 1..(Len(h) + 1) : Replied(Append(h, m), i, Len(h) + 1),
         m.kind = "model" => AllReplied(h, Len(h))
  PROVE  Ordered(Append(h, m))
<1> DEFINE g == Append(h, m)
<1>1. /\ Len(h) \in Nat /\ DOMAIN h = 1..Len(h) /\ DOMAIN g = 1..(Len(h) + 1)
      /\ g[Len(h) + 1] = m /\ \A i \in 1..Len(h) : g[i] = h[i]
  BY AppendKeeps
<1>2. \A j \in 0..Len(h) : /\ \A i \in 1..j : Replied(g, i, j) <=> Replied(h, i, j)
                           /\ AllReplied(g, j) <=> AllReplied(h, j)
  BY RepliedBefore
<1> HIDE DEF g
<1> SUFFICES ASSUME NEW j \in DOMAIN g
             PROVE  /\ g[j].kind = "tool" => \E i \in 1..j : Replied(g, i, j)
                    /\ g[j].kind = "model" => AllReplied(g, j - 1)
  BY DEF Ordered, g
<1>3. CASE j \in 1..Len(h)
  <2>1. j \in DOMAIN h /\ j \in 0..Len(h) /\ j - 1 \in 0..Len(h) /\ g[j] = h[j]
    BY <1>1, <1>3
  <2> QED BY <1>2, <2>1 DEF Ordered
<1>4. CASE j = Len(h) + 1
  <2>1. j - 1 = Len(h) /\ Len(h) \in 0..Len(h) /\ g[j] = m
    BY <1>1, <1>4
  <2> QED BY <1>2, <1>4, <2>1 DEF g
<1> QED BY <1>1, <1>3, <1>4

\* A response: its calls become pending.
LEMMA Speaks ==
  ASSUME NEW h \in Seq(Messages), NEW m \in Messages, Said(h), Ordered(h), PendingLeft(<<>>, h, Len(h)),
         m.kind = "model", NEW p \in Seq(Calls), CallsOf[m.what] \in Seq(CallIds),
         Len(p) = Len(CallsOf[m.what]), \A n \in 1..Len(p) : p[n].id = CallsOf[m.what][n]
  PROVE  Ordered(Append(h, m)) /\ PendingLeft(p, Append(h, m), Len(h) + 1)
<1> DEFINE g == Append(h, m)
           j == Len(h) + 1
<1>1. /\ Len(h) \in Nat /\ g[j] = m /\ Len(p) \in Nat
  BY AppendKeeps
<1>2. AllReplied(h, Len(h))
  <2> SUFFICES ASSUME Len(h) # 0
               PROVE  \E i \in 1..Len(h) : Replied(h, i, Len(h)) /\ Len(h) - i = Len(CallsOf[h[i].what])
    BY DEF AllReplied
  <2>1. PICK i \in 1..Len(h) : Replied(h, i, Len(h)) /\ Len(<<>>) = Len(CallsOf[h[i].what]) - (Len(h) - i)
    BY DEF PendingLeft
  <2>2. CallsOf[h[i].what] \in Seq(CallIds)
    BY <1>1, <2>1, AgentRunAssumption, AppendKeeps DEF Said, Replied
  <2>3. Len(CallsOf[h[i].what]) \in Nat /\ Len(<<>>) = 0
    BY <2>2
  <2> QED BY <1>1, <2>1, <2>3
<1>3. Replied(g, j, j)
  <2>1. j - j = 0 /\ Len(CallsOf[m.what]) \in Nat /\ j \in Nat
    BY <1>1
  <2> QED BY <1>1, <2>1 DEF Replied
<1>4. PendingLeft(p, g, j)
  <2>1. j \in 1..j /\ j - j = 0 /\ (\A n \in 1..Len(p) : j - j + n = n) /\ Len(CallsOf[m.what]) - (j - j) = Len(p)
    BY <1>1
  <2> HIDE DEF j, g
  <2> QED BY <1>1, <1>3, <2>1 DEF PendingLeft
<1> QED BY <1>2, <1>4, OrderedBefore

\* An answer: the first pending call is pending no more.
LEMMA Answers ==
  ASSUME NEW h \in Seq(Messages), NEW m \in Messages, Said(h), Ordered(h),
         NEW p \in Seq(Calls), p # <<>>, PendingLeft(p, h, Len(h)), m.kind = "tool", m.id = p[1].id
  PROVE  Ordered(Append(h, m)) /\ PendingLeft(Tail(p), Append(h, m), Len(h) + 1)
<1> DEFINE g == Append(h, m)
           j == Len(h) + 1
<1>1. /\ Len(h) \in Nat /\ g[j] = m /\ \A i \in 1..Len(h) : g[i] = h[i]
  BY AppendKeeps
<1>2. PICK i \in 1..Len(h) : /\ Replied(h, i, Len(h))
                             /\ Len(p) = Len(CallsOf[h[i].what]) - (Len(h) - i)
                             /\ \A n \in 1..Len(p) : p[n].id = CallsOf[h[i].what][Len(h) - i + n]
  BY DEF PendingLeft
<1> DEFINE calls == CallsOf[h[i].what]
           s == Len(h) - i
<1>3. calls \in Seq(CallIds) /\ s \in Nat /\ Len(calls) \in Nat
  <2>1. CallsOf[h[i].what] \in Seq(CallIds)
    BY <1>1, <1>2, AgentRunAssumption, AppendKeeps DEF Said, Replied
  <2> QED BY <1>1, <2>1
<1>4. Len(p) \in Nat /\ Len(p) > 0 /\ Len(Tail(p)) = Len(p) - 1 /\ \A n \in 1..Len(Tail(p)) : Tail(p)[n] = p[n + 1]
  OBVIOUS
<1> HIDE DEF g
<1>5. Replied(g, i, j)
  <2>1. g[i] = h[i] /\ h[i].kind = "model" /\ i <= j /\ j - i = s + 1 /\ j - i <= Len(calls)
    BY <1>1, <1>2, <1>3, <1>4 DEF Replied
  <2>2. ASSUME NEW n \in 1..(s + 1) PROVE g[i + n].kind = "tool" /\ g[i + n].id = calls[n]
    <3>1. CASE n = s + 1
      <4>1. i + n = j /\ p[1].id = calls[s + 1]
        BY <1>1, <1>2, <1>4, <3>1
      <4> QED BY <1>1, <3>1, <4>1
    <3>2. CASE n # s + 1
      <4>1. n \in 1..s
        <5> HIDE DEF s
        <5> QED BY <1>3, <3>2
      <4>2. i + n \in 1..Len(h)
        BY <1>1, <4>1
      <4> QED BY <1>1, <1>2, <4>1, <4>2 DEF Replied
    <3> QED BY <3>1, <3>2
  <2> QED BY <2>1, <2>2 DEF Replied
<1>6. PendingLeft(Tail(p), g, j)
  <2>1. i \in 1..j /\ g[i] = h[i] /\ j - i = s + 1 /\ Len(Tail(p)) = Len(calls) - (j - i)
    BY <1>1, <1>2, <1>3, <1>4
  <2>2. ASSUME NEW n \in 1..Len(Tail(p)) PROVE Tail(p)[n].id = calls[j - i + n]
    <3>1. n + 1 \in 1..Len(p) /\ s + (n + 1) = j - i + n
      BY <1>3, <1>4, <2>1
    <3>2. p[n + 1].id = calls[s + (n + 1)]
      BY <1>2, <3>1
    <3> QED BY <1>4, <3>1, <3>2
  <2> HIDE DEF j
  <2> QED BY <1>5, <2>1, <2>2 DEF PendingLeft
<1>7. i \in 1..(Len(h) + 1)
  BY <1>1
<1> QED BY <1>5, <1>6, <1>7, OrderedBefore DEF g

\* The result that completes the run from outside is the last word.
LEMMA Completes ==
  ASSUME NEW h \in Seq(Messages), NEW m \in Messages, Ordered(h), m.kind = "external",
         NEW p, PendingLeft(p, h, Len(h))
  PROVE  LET g == Append(h, m) IN
         Ordered(g) /\ Spoken(g) = Len(h) /\ PendingLeft(p, g, Spoken(g))
<1> DEFINE g == Append(h, m)
<1>1. Len(h) \in Nat /\ Len(g) = Len(h) + 1 /\ g[Len(h) + 1] = m /\ g # <<>>
  BY AppendKeeps
<1>2. Spoken(g) = Len(h)
  BY <1>1 DEF Spoken
<1>3. Len(h) \in 0..Len(h)
  BY <1>1
<1> QED BY <1>2, <1>3, OrderedBefore, RepliedBefore

\* A transcript without a last word is spoken to its end.
LEMMA SpokenToTheEnd ==
  ASSUME NEW h \in Seq(Messages), NEW state, state # "succeeded", ExternalLast(h, state)
  PROVE  Spoken(h) = Len(h) /\ \A j \in DOMAIN h : h[j].kind # "external"
<1>1. Len(h) \in Nat /\ DOMAIN h = 1..Len(h) /\ (h # <<>> => Len(h) > 0)
  OBVIOUS
<1>2. \A j \in DOMAIN h : h[j].kind # "external"
  BY DEF ExternalLast
<1>3. h # <<>> => Len(h) \in DOMAIN h
  BY <1>1
<1> QED BY <1>2, <1>3 DEF Spoken

\* Its messages are counted one by one.
LEMMA CountsGrow ==
  ASSUME NEW h \in Seq(Messages), NEW m \in Messages, Said(h), m.kind = "model" => m.what \in Responses
  PROVE  LET g == Append(h, m)
             n == Len(CallsOf[m.what])
         IN
         /\ Cardinality(Responding(h)) \in Nat /\ Cardinality(AskedIn(h)) \in Nat
         /\ m.kind # "model" => Responding(g) = Responding(h) /\ AskedIn(g) = AskedIn(h)
         /\ m.kind = "model" => /\ Cardinality(Responding(g)) = Cardinality(Responding(h)) + 1
                                /\ Cardinality(AskedIn(g)) = Cardinality(AskedIn(h)) + n
         /\ \A id : Asked(h, id) => Asked(g, id)
<1> DEFINE g == Append(h, m)
           calls == CallsOf[m.what]
           new == {Len(h) + 1} \X DOMAIN calls
<1>1. /\ Len(h) \in Nat /\ DOMAIN h = 1..Len(h) /\ DOMAIN g = 1..(Len(h) + 1)
      /\ g[Len(h) + 1] = m /\ \A i \in 1..Len(h) : g[i] = h[i]
  BY AppendKeeps
<1> HIDE DEF g
<1>2. Responding(g) = IF m.kind = "model" THEN Responding(h) \cup {Len(h) + 1} ELSE Responding(h)
  BY <1>1 DEF Responding
<1>3. /\ Len(h) + 1 \notin Responding(h) /\ Responding(h) \subseteq 1..Len(h)
      /\ \A i \in Responding(h) : g[i] = h[i]
  BY <1>1 DEF Responding
<1>4. IsFiniteSet(Responding(h))
  <2>1. IsFiniteSet(1..Len(h))
    BY <1>1, FS_Interval
  <2> QED BY <1>3, <2>1, FS_Subset
<1>5. \A i \in Responding(h) : CallsOf[h[i].what] \in Seq(CallIds)
  BY <1>1, AgentRunAssumption DEF Responding, Said
<1>6. AskedIn(g) = IF m.kind = "model" THEN AskedIn(h) \cup new ELSE AskedIn(h)
  <2>1. \A i \in Responding(h) : {i} \X DOMAIN CallsOf[g[i].what] = {i} \X DOMAIN CallsOf[h[i].what]
    BY <1>3
  <2>2. CASE m.kind = "model"
    BY <1>1, <1>2, <2>1, <2>2 DEF AskedIn
  <2>3. CASE m.kind # "model"
    BY <1>1, <1>2, <2>1, <2>3 DEF AskedIn
  <2> QED BY <2>2, <2>3
<1>7. IsFiniteSet(AskedIn(h))
  <2> DEFINE S == {{i} \X DOMAIN CallsOf[h[i].what] : i \in Responding(h)}
  <2>1. IsFiniteSet(S)
    <3> DEFINE f == [i \in Responding(h) |-> {i} \X DOMAIN CallsOf[h[i].what]]
    <3>1. f \in Surjection(Responding(h), S)
      BY DEF Surjection
    <3> QED BY <1>4, <3>1, FS_Surjection
  <2>2. ASSUME NEW i \in Responding(h) PROVE IsFiniteSet({i} \X DOMAIN CallsOf[h[i].what])
    <3>1. DOMAIN CallsOf[h[i].what] = 1..Len(CallsOf[h[i].what]) /\ Len(CallsOf[h[i].what]) \in Nat
      BY <1>5
    <3>2. IsFiniteSet(DOMAIN CallsOf[h[i].what]) /\ IsFiniteSet({i})
      <4>1. IsFiniteSet(1..Len(CallsOf[h[i].what]))
        BY <3>1, FS_Interval
      <4> QED BY <3>1, <4>1, FS_Singleton
    <3> QED BY <3>2, FS_Product
  <2>3. \A T \in S : IsFiniteSet(T)
    BY <2>2
  <2> QED BY <2>1, <2>3, FS_UNION DEF AskedIn
<1>8. \A id : Asked(h, id) => Asked(g, id)
  BY <1>2, <1>3 DEF Asked
<1>9. Cardinality(Responding(h)) \in Nat /\ Cardinality(AskedIn(h)) \in Nat
  BY <1>4, <1>7, FS_CardinalityType
<1>10. CASE m.kind = "model"
  <2>1. calls \in Seq(CallIds) /\ DOMAIN calls = 1..Len(calls) /\ Len(calls) \in Nat
    BY <1>10, AgentRunAssumption
  <2>2. IsFiniteSet(new) /\ Cardinality(new) = Len(calls)
    <3>1. IsFiniteSet({Len(h) + 1}) /\ Cardinality({Len(h) + 1}) = 1
      BY FS_Singleton
    <3>2. IsFiniteSet(1..Len(calls)) /\ Cardinality(1..Len(calls)) = Len(calls)
      BY <2>1, FS_Interval
    <3> DEFINE l == Len(calls)
               place == {Len(h) + 1}
    <3>3. new = place \X (1..l)
      BY <2>1
    <3> HIDE DEF l, place, new
    <3>4. IsFiniteSet(new) /\ Cardinality(new) = Cardinality(place) * Cardinality(1..l)
      BY <3>1, <3>2, <3>3, FS_Product DEF l, place
    <3>5. Cardinality(place) = 1 /\ Cardinality(1..l) = l /\ l \in Nat
      BY <2>1, <3>1, <3>2 DEF l, place
    <3>6. 1 * l = l
      BY <3>5
    <3> QED BY <3>4, <3>5, <3>6 DEF l
  <2>3. AskedIn(h) \cap new = {}
    BY <1>3 DEF AskedIn
  <2>4. Cardinality(AskedIn(g)) = Cardinality(AskedIn(h)) + Len(calls)
    <3>1. Cardinality(AskedIn(h) \cap new) = 0
      BY <2>3, FS_EmptySet
    <3>2. Cardinality(AskedIn(h) \cup new) = Cardinality(AskedIn(h)) + Cardinality(new) - Cardinality(AskedIn(h) \cap new)
      BY <1>7, <2>2, FS_Union
    <3>3. Cardinality(AskedIn(h)) \in Nat
      BY <1>7, FS_CardinalityType
    <3> QED BY <1>6, <1>10, <2>1, <2>2, <3>1, <3>2, <3>3
  <2>5. Cardinality(Responding(g)) = Cardinality(Responding(h)) + 1
    BY <1>2, <1>3, <1>4, <1>10, FS_AddElement
  <2> QED BY <1>8, <1>9, <1>10, <2>4, <2>5 DEF g
<1>11. CASE m.kind # "model"
  BY <1>2, <1>6, <1>8, <1>9, <1>11 DEF g
<1> QED BY <1>10, <1>11

------------------------------------------------------------------------------
(* The story goes on *)

\* A row that differs in nothing that the story tells.
LEMMA StorySame ==
  ASSUME NEW r, NEW s, NEW c, NEW t, Story(s, c, t), SameRow(r, s), r \in Rows
  PROVE  Story(r, c, t)
<1>1. ToolKey(r) = ToolKey(s)
  BY DEF SameRow, ToolKey
<1>2. Bounded(r)
  BY <1>1 DEF SameRow, Story, Bounded
<1> QED BY <1>2 DEF SameRow, Story, Counted

LEMMA NumberedLater ==
  ASSUME NEW h, NEW m \in Nat, NEW n \in Nat, m <= n, Numbered(h, m)
  PROVE  Numbered(h, n)
BY DEF Numbered

\* A run that ends without a word.
LEMMA StoryEnds ==
  ASSUME NEW r, NEW c, NEW t, Story(r, c, t), r.state \notin TerminalStates,
         NEW next \in Rows, next.state \in {"failed", "cancelled"}, next.pending = <<>>,
         next.history = r.history, next.turn = r.turn, next.asked = r.asked,
         r.attempts <= next.attempts, next.attempts <= MaxModelSteps
  PROVE  Story(next, c, t)
<1>1. r.attempts \in Nat /\ next.attempts \in Nat /\ "succeeded" \in TerminalStates
  BY DEF Story, Bounded, Rows, TerminalStates
<1>2. Bounded(next)
  <2>1. <<>> \in Seq(PendingCall)
    OBVIOUS
  <2> QED BY <2>1 DEF Story, Bounded
<1>3. Numbered(next.history, next.attempts)
  BY <1>1, NumberedLater DEF Story
<1>4. ExternalLast(next.history, next.state)
  BY <1>1 DEF Story, ExternalLast
<1>5. \A i \in DOMAIN next.pending : EarlierEnded(next.pending[i], t)
  OBVIOUS
<1> QED BY <1>2, <1>3, <1>4, <1>5 DEF Story, Counted

\* A run that goes on, or waits, without a word: the pending calls stay, though
\* the first one may have been tried or may wait.
LEMMA StoryWaits ==
  ASSUME NEW r, NEW c, NEW t, Story(r, c, t), r.state \notin TerminalStates,
         NEW next \in Rows, next.state \notin TerminalStates,
         next.history = r.history, next.turn = r.turn, next.asked = r.asked,
         r.attempts <= next.attempts, next.attempts <= MaxModelSteps,
         next.pending \in Seq(PendingCall), Len(next.pending) = Len(r.pending),
         \A i \in 1..Len(r.pending) : next.pending[i].id = r.pending[i].id /\ EarlierEnded(next.pending[i], t),
         next.state = "awaiting_approval" =>
           next.pending # <<>> /\ next.pending[1].approval = ToolKey(next) /\ ToolKey(next) \in ToolKeys
  PROVE  Story(next, c, t)
<1>1. /\ r.attempts \in Nat /\ next.attempts \in Nat
      /\ {"succeeded", "failed", "cancelled"} = TerminalStates
      /\ Len(r.pending) \in Nat /\ DOMAIN next.pending = 1..Len(r.pending)
      /\ (next.pending = <<>> <=> r.pending = <<>>)
  BY DEF Story, Bounded, Rows, TerminalStates
<1>2. Bounded(next)
  BY DEF Story, Bounded
<1>3. Numbered(next.history, next.attempts)
  BY <1>1, NumberedLater DEF Story
<1>4. ExternalLast(next.history, next.state)
  BY <1>1 DEF Story, ExternalLast
<1>5. \A i \in DOMAIN next.pending : EarlierEnded(next.pending[i], t)
  BY <1>1
<1>6. PendingLeft(next.pending, next.history, Spoken(next.history))
  <2>1. PendingLeft(r.pending, r.history, Spoken(r.history))
    BY <1>1 DEF Story
  <2> QED BY <1>1, <2>1 DEF PendingLeft
<1> QED BY <1>2, <1>3, <1>4, <1>5, <1>6 DEF Story, Counted

\* The transcript of a run that is not over.
LEMMA StoryOpen ==
  ASSUME NEW r, NEW c, NEW t, Story(r, c, t), r.state \notin TerminalStates
  PROVE  /\ r \in Rows /\ r.history \in Seq(Messages) /\ r.attempts \in Nat /\ r.turn \in Nat /\ r.asked \in Nat
         /\ r.pending \in Seq(Calls) /\ r.pending \in Seq(PendingCall)
         /\ Spoken(r.history) = Len(r.history)
         /\ \A j \in DOMAIN r.history : r.history[j].kind # "external"
         /\ PendingLeft(r.pending, r.history, Len(r.history))
<1>1. r \in Rows /\ r.history \in Seq(Messages) /\ r.attempts \in Nat /\ r.turn \in Nat /\ r.asked \in Nat
      /\ r.pending \in Seq(Calls) /\ r.pending \in Seq(PendingCall)
  BY DEF Story, Bounded, Rows
<1>2. r.state \notin {"succeeded", "failed", "cancelled"} /\ ExternalLast(r.history, r.state)
  BY DEF Story, TerminalStates
<1>3. Spoken(r.history) = Len(r.history) /\ \A j \in DOMAIN r.history : r.history[j].kind # "external"
  BY <1>1, <1>2, SpokenToTheEnd
<1>4. PendingLeft(r.pending, r.history, Len(r.history))
  BY <1>2, <1>3 DEF Story
<1> QED BY <1>1, <1>3, <1>4

\* The result from outside.
LEMMA StoryCompletes ==
  ASSUME NEW r, NEW c, NEW t, Story(r, c, t), r.state \notin TerminalStates,
         NEW m \in Messages, m.kind = "external",
         NEW next \in Rows, next.state = "succeeded",
         next.history = Append(r.history, m), next.turn = r.turn + 1, next.asked = r.asked,
         next.attempts = r.attempts, next.pending = r.pending
  PROVE  Story(next, c, t)
<1> DEFINE h == r.history
           g == Append(h, m)
<1>1. /\ r \in Rows /\ h \in Seq(Messages) /\ r.attempts \in Nat /\ r.turn \in Nat /\ r.asked \in Nat
      /\ (\A j \in DOMAIN h : h[j].kind # "external") /\ PendingLeft(r.pending, h, Len(h))
  BY StoryOpen
<1>2. /\ Len(h) \in Nat /\ DOMAIN h = 1..Len(h) /\ DOMAIN g = 1..(Len(h) + 1) /\ Len(g) = Len(h) + 1
      /\ g[Len(h) + 1] = m /\ \A i \in 1..Len(h) : g[i] = h[i]
  BY <1>1, AppendKeeps
<1>3. Ordered(g) /\ PendingLeft(r.pending, g, Spoken(g))
  BY <1>1, Completes DEF Story
<1>4. /\ Responding(g) = Responding(h) /\ AskedIn(g) = AskedIn(h)
      /\ Cardinality(Responding(h)) \in Nat
  BY <1>1, CountsGrow DEF Story
<1> HIDE DEF g
<1>5. ExternalLast(g, "succeeded")
  BY <1>1, <1>2 DEF ExternalLast
<1>6. Numbered(g, r.attempts) /\ Said(g) /\ OfLedgers(g, c, t)
  <2>1. \A i \in DOMAIN g : g[i].kind # "external" => i \in DOMAIN h /\ g[i] = h[i]
    BY <1>2
  <2>2. Numbered(g, r.attempts)
    BY <2>1 DEF Story, Numbered
  <2>3. Said(g) /\ OfLedgers(g, c, t)
    BY <2>1 DEF Story, Said, OfLedgers
  <2> QED BY <2>2, <2>3
<1>7. Bounded(next)
  BY DEF Story, Bounded
<1>8. Counted(next)
  BY <1>1, <1>4 DEF Story, Counted, g
<1> QED BY <1>3, <1>5, <1>6, <1>7, <1>8 DEF Story, g

\* The answer to the first pending call.
LEMMA StoryAnswers ==
  ASSUME NEW r, NEW c, NEW t, Story(r, c, t), r.state \notin TerminalStates, r.pending # <<>>,
         NEW m \in Messages, m.kind = "tool", m.id = r.pending[1].id,
         <<m.id, m.attempt>> \in ToolKeys, t[<<m.id, m.attempt>>] \in Tools!Terminal,
         NEW next \in Rows, next.state = "running",
         next.history = Append(r.history, m), next.turn = r.turn, next.asked = r.asked,
         next.attempts = r.attempts, next.pending = Tail(r.pending)
  PROVE  Story(next, c, t)
<1> DEFINE h == r.history
           g == Append(h, m)
<1>1. /\ r \in Rows /\ h \in Seq(Messages) /\ r.attempts \in Nat /\ r.turn \in Nat /\ r.asked \in Nat
      /\ (\A j \in DOMAIN h : h[j].kind # "external") /\ PendingLeft(r.pending, h, Len(h))
      /\ r.pending \in Seq(Calls) /\ r.pending \in Seq(PendingCall)
  BY StoryOpen
<1>2. /\ Len(h) \in Nat /\ DOMAIN h = 1..Len(h) /\ DOMAIN g = 1..(Len(h) + 1) /\ Len(g) = Len(h) + 1
      /\ g[Len(h) + 1] = m /\ (\A i \in 1..Len(h) : g[i] = h[i]) /\ g \in Seq(Messages)
  BY <1>1, AppendKeeps
<1>3. Ordered(g) /\ PendingLeft(Tail(r.pending), g, Len(h) + 1)
  BY <1>1, Answers DEF Story
<1>4. Responding(g) = Responding(h) /\ AskedIn(g) = AskedIn(h)
  BY <1>1, CountsGrow DEF Story
<1> HIDE DEF g
<1>5. ExternalLast(g, "running")
  BY <1>1, <1>2 DEF ExternalLast
<1>6. Spoken(g) = Len(h) + 1
  BY <1>2, <1>5, SpokenToTheEnd
<1>7. Numbered(g, r.attempts) /\ Said(g)
  <2>1. \A i \in DOMAIN g : g[i].kind = "model" => i \in DOMAIN h /\ g[i] = h[i]
    BY <1>2
  <2>2. Numbered(g, r.attempts)
    BY <2>1 DEF Story, Numbered
  <2>3. Said(g)
    BY <2>1 DEF Story, Said
  <2> QED BY <2>2, <2>3
<1>8. OfLedgers(g, c, t)
  <2> SUFFICES ASSUME NEW i \in DOMAIN g
               PROVE  /\ g[i].kind = "model" => c[g[i].attempt] = [status |-> "succeeded", result |-> g[i].what]
                      /\ g[i].kind = "tool" => /\ <<g[i].id, g[i].attempt>> \in ToolKeys
                                               /\ t[<<g[i].id, g[i].attempt>>] \in Tools!Terminal
    BY DEF OfLedgers
  <2>1. CASE i \in DOMAIN h
    BY <1>2, <2>1 DEF Story, OfLedgers
  <2>2. CASE g[i] = m
    BY <2>2
  <2> QED BY <1>2, <2>1, <2>2
<1>9. Tail(r.pending) \in Seq(PendingCall) /\ \A i \in DOMAIN Tail(r.pending) : EarlierEnded(Tail(r.pending)[i], t)
  <2>1. Tail(r.pending) \in Seq(PendingCall)
    BY <1>1
  <2>2. \A i \in DOMAIN Tail(r.pending) : i + 1 \in DOMAIN r.pending /\ Tail(r.pending)[i] = r.pending[i + 1]
    BY <1>1
  <2> QED BY <2>1, <2>2 DEF Story
<1>10. Bounded(next)
  BY <1>9 DEF Story, Bounded
<1>11. Counted(next)
  BY <1>1, <1>4 DEF Story, Counted, g
<1> QED BY <1>3, <1>5, <1>6, <1>7, <1>8, <1>9, <1>10, <1>11 DEF Story, g

\* A response within the budgets.
LEMMA StorySpeaks ==
  ASSUME NEW r, NEW c, NEW t, Story(r, c, t), r.state \notin TerminalStates,
         r.pending = <<>>, r.attempts < MaxModelSteps, r.turn < MaxTurns,
         NEW m \in Messages, m.kind = "model", m.what \in Responses, m.attempt = r.attempts + 1,
         c[m.attempt] = [status |-> "succeeded", result |-> m.what],
         r.asked + Len(CallsOf[m.what]) <= MaxToolCalls,
         NEW next \in Rows, next.state \in {"running", "succeeded"},
         next.history = Append(r.history, m), next.turn = r.turn + 1,
         next.asked = r.asked + Len(CallsOf[m.what]), next.attempts = r.attempts + 1,
         next.pending = [i \in DOMAIN CallsOf[m.what] |-> [id |-> CallsOf[m.what][i], attempt |-> 0, approval |-> NoKey]]
  PROVE  Story(next, c, t)
<1> DEFINE h == r.history
           g == Append(h, m)
           calls == CallsOf[m.what]
           p == next.pending
           n == r.attempts + 1
<1>1. /\ r \in Rows /\ h \in Seq(Messages) /\ r.attempts \in Nat /\ r.turn \in Nat /\ r.asked \in Nat
      /\ (\A j \in DOMAIN h : h[j].kind # "external") /\ PendingLeft(<<>>, h, Len(h))
  BY StoryOpen
<1>2. /\ Len(h) \in Nat /\ DOMAIN h = 1..Len(h) /\ DOMAIN g = 1..(Len(h) + 1) /\ Len(g) = Len(h) + 1
      /\ g[Len(h) + 1] = m /\ (\A i \in 1..Len(h) : g[i] = h[i]) /\ g \in Seq(Messages)
  BY <1>1, AppendKeeps
<1>3. calls \in Seq(CallIds) /\ Len(calls) \in Nat /\ DOMAIN calls = 1..Len(calls)
      /\ MaxModelSteps \in Nat /\ MaxToolAttempts \in Nat /\ MaxTurns \in Nat
  BY AgentRunAssumption
<1>4. /\ p \in Seq(Calls) /\ p \in Seq(PendingCall) /\ Len(p) = Len(calls) /\ DOMAIN p = 1..Len(calls)
      /\ \A i \in 1..Len(p) : p[i].id = calls[i] /\ p[i].attempt = 0
  <2>1. p \in Seq(Calls)
    BY DEF Rows
  <2>2. p = [i \in 1..Len(calls) |-> [id |-> calls[i], attempt |-> 0, approval |-> NoKey]]
    BY <1>3
  <2>3. \A i \in 1..Len(calls) : [id |-> calls[i], attempt |-> 0, approval |-> NoKey] \in PendingCall
    BY <1>3 DEF PendingCall
  <2> QED BY <1>3, <2>1, <2>2, <2>3
<1>5. Ordered(g) /\ PendingLeft(p, g, Len(h) + 1)
  <2>1. \A i \in 1..Len(p) : p[i].id = CallsOf[m.what][i]
    BY <1>4
  <2> HIDE DEF p
  <2> QED BY <1>1, <1>3, <1>4, <2>1, Speaks DEF Story
<1>6. /\ Cardinality(Responding(h)) \in Nat /\ Cardinality(AskedIn(h)) \in Nat
      /\ Cardinality(Responding(g)) = Cardinality(Responding(h)) + 1
      /\ Cardinality(AskedIn(g)) = Cardinality(AskedIn(h)) + Len(calls)
  BY <1>1, CountsGrow DEF Story
<1> HIDE DEF g, p
<1>7. \A state : ExternalLast(g, state)
  <2>1. \A j \in 1..Len(h) : h[j].kind # "external" /\ g[j] = h[j]
    BY <1>1, <1>2
  <2>2. \A j \in DOMAIN g : j \in 1..Len(h) \/ g[j] = m
    BY <1>2
  <2> QED BY <2>1, <2>2 DEF ExternalLast
<1>8. Spoken(g) = Len(h) + 1
  BY <1>2, <1>7, SpokenToTheEnd
<1>9. Numbered(g, n)
  <2>1. \A i \in DOMAIN h : h[i].kind = "model" => h[i].attempt \in 1..r.attempts
    BY DEF Story, Numbered
  <2>2. ASSUME NEW i \in DOMAIN g, g[i].kind = "model" PROVE g[i].attempt \in 1..n
    <3>1. CASE i \in DOMAIN h
      <4>1. g[i].attempt \in 1..r.attempts
        BY <1>2, <2>1, <2>2, <3>1
      <4> QED BY <1>1, <4>1
    <3>2. CASE g[i] = m
      BY <1>1, <3>2
    <3> QED BY <1>2, <3>1, <3>2
  <2>3. ASSUME NEW i \in DOMAIN g, NEW j \in DOMAIN g, i < j, g[i].kind = "model", g[j].kind = "model"
        PROVE  g[i].attempt < g[j].attempt
    <3>1. i \in DOMAIN h /\ g[i] = h[i] /\ g[i].attempt \in 1..r.attempts
      BY <1>2, <2>1, <2>3
    <3>2. CASE j \in DOMAIN h
      BY <1>2, <2>3, <3>1, <3>2 DEF Story, Numbered
    <3>3. CASE g[j] = m
      BY <1>1, <3>1, <3>3
    <3> QED BY <1>2, <3>2, <3>3
  <2> QED BY <2>2, <2>3 DEF Numbered
<1>10. Said(g) /\ OfLedgers(g, c, t)
  <2>1. \A i \in DOMAIN g : (i \in DOMAIN h /\ g[i] = h[i]) \/ g[i] = m
    BY <1>2
  <2>2. Said(g)
    BY <2>1 DEF Story, Said
  <2>3. OfLedgers(g, c, t)
    BY <2>1 DEF Story, OfLedgers
  <2> QED BY <2>2, <2>3
<1>11. \A i \in DOMAIN p : EarlierEnded(p[i], t)
  BY <1>4 DEF EarlierEnded
<1>12. Bounded(next)
  BY <1>1, <1>3, <1>4 DEF Story, Bounded, p
<1>13. Counted(next)
  <2>1. /\ Cardinality(Responding(h)) <= r.turn /\ Cardinality(AskedIn(h)) <= r.asked
        /\ next.history = g /\ next.turn = r.turn + 1 /\ next.asked = r.asked + Len(calls)
    BY DEF Story, Counted, g
  <2>2. /\ Cardinality(Responding(g)) <= next.turn /\ Cardinality(Responding(g)) <= MaxTurns
        /\ Cardinality(AskedIn(g)) <= next.asked
    <3>1. r.turn \in Nat /\ r.asked \in Nat /\ MaxTurns \in Nat /\ Len(calls) \in Nat /\ r.turn < MaxTurns
      BY <1>1, <1>3
    <3>2. Cardinality(Responding(h)) + 1 <= r.turn + 1 /\ Cardinality(Responding(h)) + 1 <= MaxTurns
      BY <1>6, <2>1, <3>1
    <3>3. Cardinality(AskedIn(h)) + Len(calls) <= r.asked + Len(calls)
      BY <1>6, <2>1, <3>1
    <3> HIDE DEF calls
    <3> QED BY <1>6, <2>1, <3>2, <3>3, Zenon
  <2>3. /\ Cardinality(Responding(next.history)) <= next.turn /\ Cardinality(Responding(next.history)) <= MaxTurns
        /\ Cardinality(AskedIn(next.history)) <= next.asked
    BY <2>1, <2>2, Zenon
  <2> QED BY <2>3, Zenon DEF Counted
<1> QED BY <1>5, <1>7, <1>8, <1>9, <1>10, <1>11, <1>12, <1>13 DEF Story, g, p

\* What was asked for in a run is asked for in the next row of it.
Tells(next, r, c, t) ==
  /\ Story(next, c, t)
  /\ \A id : Asked(r.history, id) => Asked(next.history, id)

LEMMA FailedTells ==
  ASSUME NEW r, NEW c, NEW t, Story(r, c, t), r.state \notin TerminalStates,
         NEW why \in Terminations, NEW n \in Nat, r.attempts <= n, n <= MaxModelSteps
  PROVE  Tells(Failed(r, why, n), r, c, t)
<1> DEFINE next == Failed(r, why, n)
<1>1. r \in Rows /\ <<>> \in Seq(Calls) /\ "failed" \in States
  BY DEF Story, Bounded, States, TerminalStates
<1>2. /\ next \in Rows /\ next.state = "failed" /\ next.pending = <<>> /\ next.history = r.history
      /\ next.turn = r.turn /\ next.asked = r.asked /\ next.attempts = n
  BY <1>1 DEF Failed, Rows
<1> HIDE DEF next
<1>3. Story(next, c, t)
  BY <1>2, StoryEnds
<1> QED BY <1>2, <1>3 DEF Tells, next

LEMMA AfterModelTells ==
  ASSUME NEW r, NEW c, NEW t, Story(r, c, t), Sound(r), r.state \notin TerminalStates \cup {"awaiting_retry"},
         Ready("model", r), NEW result,
         result \in Responses => c[r.attempts + 1] = [status |-> "succeeded", result |-> result]
  PROVE  Tells(AfterModel(r, result), r, c, t)
<1> DEFINE n == r.attempts + 1
           calls == CallsOf[result]
           pending == [i \in DOMAIN calls |-> [id |-> calls[i], attempt |-> 0, approval |-> NoKey]]
           m == Message("model", NoKey, n, result)
           history == Append(r.history, m)
           next == AfterModel(r, result)
<1>0. /\ r \in Rows /\ n \in Nat /\ n >= r.attempts /\ n <= MaxModelSteps /\ r.pending = <<>>
      /\ r.attempts \in Nat /\ r.turn \in Nat /\ r.asked \in Nat /\ r.attempts < MaxModelSteps /\ r.turn < MaxTurns
      /\ r.history \in Seq(Messages) /\ MaxModelSteps \in Nat
  <2>1. r \in Rows /\ r.attempts \in Nat /\ r.turn \in Nat /\ r.asked \in Nat /\ r.history \in Seq(Messages)
    BY StoryOpen
  <2>2. r.pending = <<>> /\ r.attempts < MaxModelSteps /\ r.turn < MaxTurns
    BY DEF Ready
  <2>3. MaxModelSteps \in Nat
    BY AgentRunAssumption
  <2> QED BY <2>1, <2>2, <2>3
<1>f. Follows(next, r)
  BY AfterModelFollows
<1>1. CASE result \in Responses /\ ~Affordable(r, result)
  <2>1. next = Failed(r, "budget", n)
    BY <1>1, AgentRunAssumption DEF AfterModel
  <2> QED BY <1>0, <2>1, FailedTells DEF Terminations
<1>2. CASE result \in Responses /\ Affordable(r, result)
  <2>1. calls \in Seq(CallIds) /\ Len(calls) \in Nat
    BY <1>2, AgentRunAssumption
  <2>2. /\ m \in Messages /\ m.kind = "model" /\ m.what = result /\ m.attempt = n
    BY <1>0, <1>2 DEF Message, Messages
  <2>3. next = [r EXCEPT !.state = IF calls = <<>> THEN "succeeded" ELSE "running",
                   !.why = IF calls = <<>> THEN "completed" ELSE "none",
                   !.turn = @ + 1, !.attempts = n, !.asked = @ + Len(calls),
                   !.history = history, !.pending = pending]
    BY <1>2, AgentRunAssumption DEF AfterModel
  <2> DEFINE state == IF calls = <<>> THEN "succeeded" ELSE "running"
             why == IF calls = <<>> THEN "completed" ELSE "none"
             turn == r.turn + 1
             asked == r.asked + Len(calls)
  <2>4. next = [r EXCEPT !.state = state, !.why = why, !.turn = turn, !.attempts = n,
                         !.asked = asked, !.history = history, !.pending = pending]
    BY <2>3
  <2>5. state \in {"running", "succeeded"} /\ asked <= MaxToolCalls
    BY <1>2 DEF Affordable
  <2>6. next \in Rows
    BY <1>f DEF Follows, Sound
  <2> HIDE DEF next, state, why, turn, asked, pending, history, n, m
  <2>7. /\ next.state = state /\ next.turn = turn /\ next.attempts = n /\ next.asked = asked
        /\ next.history = history /\ next.pending = pending
    BY <1>0, <2>4 DEF Rows
  <2>8. /\ next.history = Append(r.history, m) /\ next.turn = r.turn + 1 /\ next.attempts = r.attempts + 1
        /\ next.asked = r.asked + Len(CallsOf[m.what]) /\ next.state \in {"running", "succeeded"}
        /\ m.attempt = r.attempts + 1 /\ m.what \in Responses
        /\ c[m.attempt] = [status |-> "succeeded", result |-> m.what]
        /\ r.asked + Len(CallsOf[m.what]) <= MaxToolCalls
        /\ next.pending = [i \in DOMAIN CallsOf[m.what] |-> [id |-> CallsOf[m.what][i], attempt |-> 0, approval |-> NoKey]]
    BY <1>2, <2>2, <2>5, <2>7 DEF history, turn, asked, n, pending
  <2> HIDE DEF calls
  <2>9. Story(next, c, t)
    BY <1>0, <2>2, <2>6, <2>8, StorySpeaks
  <2>10. \A id : Asked(r.history, id) => Asked(next.history, id)
    BY <1>0, <2>2, <2>8, CountsGrow DEF Story
  <2> QED BY <2>9, <2>10 DEF Tells, next
<1>3. CASE result \notin Responses /\ result = "retryable" /\ n < MaxModelSteps
  <2>1. next = [r EXCEPT !.state = "awaiting_retry", !.attempts = n, !.due = FALSE]
    BY <1>3 DEF AfterModel
  <2>2. next \in Rows
    BY <1>f DEF Follows, Sound
  <2> HIDE DEF next, n
  <2>3. /\ next.state = "awaiting_retry" /\ next.attempts = n /\ next.history = r.history /\ next.pending = r.pending
        /\ next.turn = r.turn /\ next.asked = r.asked
    BY <1>0, <2>1 DEF Rows
  <2>4. next.pending \in Seq(PendingCall) /\ Len(next.pending) = Len(r.pending) /\ ~(\E i \in 1..Len(r.pending) : TRUE)
    BY <1>0, <2>3
  <2>5. Story(next, c, t)
    BY <1>0, <2>2, <2>3, <2>4, StoryWaits DEF TerminalStates
  <2> QED BY <2>3, <2>5 DEF Tells, next
<1>4. CASE result \notin Responses /\ ~(result = "retryable" /\ n < MaxModelSteps)
  <2>1. next = Failed(r, "model", n)
    BY <1>4 DEF AfterModel
  <2> QED BY <1>0, <2>1, FailedTells DEF Terminations
<1> QED BY <1>1, <1>2, <1>3, <1>4

\* The call that an executor is asked for.
LEMMA KeyOfPending ==
  ASSUME NEW r, r.pending \in Seq(PendingCall), Ready("tool", r)
  PROVE  /\ r.pending[1] \in PendingCall /\ r.pending[1].attempt \in Nat /\ r.pending[1].id \in CallIds
         /\ r.pending[1].attempt < MaxToolAttempts /\ MaxToolAttempts \in Nat
         /\ ToolKey(r) = <<r.pending[1].id, r.pending[1].attempt + 1>> /\ ToolKey(r) \in ToolKeys
<1>1. r.pending # <<>> /\ r.pending[1].attempt < MaxToolAttempts /\ MaxToolAttempts \in Nat
  BY AgentRunAssumption DEF Ready
<1>2. r.pending[1] \in PendingCall
  BY <1>1
<1>3. r.pending[1].attempt \in 0..MaxToolAttempts /\ r.pending[1].id \in CallIds
  BY <1>2 DEF PendingCall
<1> QED BY <1>1, <1>2, <1>3 DEF ToolKey, ToolKeys

\* The first pending call changes, the others do not.
LEMMA HeadUpdate ==
  ASSUME NEW pending \in Seq(PendingCall), pending # <<>>, NEW call1 \in PendingCall
  PROVE  LET p == [pending EXCEPT ![1] = call1] IN
         /\ p \in Seq(PendingCall) /\ Len(p) = Len(pending) /\ p # <<>> /\ p[1] = call1
         /\ \A i \in 1..Len(pending) : i # 1 => p[i] = pending[i]
<1> DEFINE p == [pending EXCEPT ![1] = call1]
<1>1. Len(pending) \in Nat /\ Len(pending) > 0 /\ DOMAIN pending = 1..Len(pending)
  OBVIOUS
<1>2. DOMAIN p = 1..Len(pending) /\ p[1] = call1 /\ \A i \in 1..Len(pending) : i # 1 => p[i] = pending[i]
  BY <1>1
<1>3. \A i \in 1..Len(pending) : p[i] \in PendingCall
  BY <1>1, <1>2
<1> QED BY <1>1, <1>2, <1>3

LEMMA AfterToolTells ==
  ASSUME NEW r, NEW c, NEW t, Story(r, c, t), Sound(r), r.state \notin TerminalStates \cup {"awaiting_retry"},
         Ready("tool", r), NEW result, result \in Results \cup {"retryable"} => t[ToolKey(r)] \in Tools!Terminal,
         NEW next \in AfterTool(r, result)
  PROVE  Tells(next, r, c, t)
<1> DEFINE n == r.pending[1].attempt + 1
           h == r.history
<1>0. /\ r \in Rows /\ r.attempts \in Nat /\ r.attempts <= MaxModelSteps /\ h \in Seq(Messages)
      /\ r.pending \in Seq(PendingCall) /\ r.pending \in Seq(Calls) /\ r.pending # <<>>
      /\ r.state \notin TerminalStates
      /\ \A i \in 1..Len(r.pending) : EarlierEnded(r.pending[i], t)
  <2>1. /\ r \in Rows /\ r.attempts \in Nat /\ h \in Seq(Messages)
        /\ r.pending \in Seq(PendingCall) /\ r.pending \in Seq(Calls)
    BY StoryOpen
  <2>2. r.attempts <= MaxModelSteps /\ r.pending # <<>> /\ \A i \in DOMAIN r.pending : EarlierEnded(r.pending[i], t)
    BY DEF Story, Bounded, Ready
  <2> QED BY <2>1, <2>2
<1>1. /\ r.pending[1] \in PendingCall /\ n \in Nat /\ r.pending[1].id \in CallIds /\ n <= MaxToolAttempts
      /\ ToolKey(r) = <<r.pending[1].id, n>> /\ ToolKey(r) \in ToolKeys /\ MaxToolAttempts \in Nat
  BY <1>0, KeyOfPending
<1>f. Follows(next, r)
  BY <1>0, AfterToolFollows
<1>n. next \in Rows
  BY <1>f DEF Follows, Sound
<1>2. CASE result \in Results
  <2> DEFINE m == Message("tool", r.pending[1].id, n, result)
  <2>1. next = Answered(r, result)
    BY <1>2 DEF AfterTool, Results
  <2>2. m \in Messages /\ m.kind = "tool" /\ m.id = r.pending[1].id /\ m.attempt = n
    BY <1>1, <1>2 DEF Message, Messages
  <2>3. /\ next.state = "running" /\ next.history = Append(h, m) /\ next.turn = r.turn /\ next.asked = r.asked
        /\ next.attempts = r.attempts /\ next.pending = Tail(r.pending)
    BY <1>0, <2>1 DEF Answered, Appended, Rows
  <2> HIDE DEF m, n
  <2>4. <<m.id, m.attempt>> \in ToolKeys /\ t[<<m.id, m.attempt>>] \in Tools!Terminal
    BY <1>1, <1>2, <2>2
  <2>5. Story(next, c, t)
    BY <1>0, <1>n, <2>2, <2>3, <2>4, StoryAnswers
  <2>6. \A id : Asked(h, id) => Asked(next.history, id)
    BY <1>0, <2>2, <2>3, CountsGrow DEF Story
  <2> QED BY <2>5, <2>6 DEF Tells
<1>3. CASE result = "approval_required"
  <2> DEFINE call1 == [r.pending[1] EXCEPT !.approval = ToolKey(r)]
             p == [r.pending EXCEPT ![1] = call1]
  <2>1. next = [r EXCEPT !.state = "awaiting_approval", !.pending = p]
    BY <1>3 DEF AfterTool, Results, Paused
  <2>2. call1 \in PendingCall /\ call1.id = r.pending[1].id /\ call1.attempt = r.pending[1].attempt
        /\ call1.approval = ToolKey(r)
    BY <1>1 DEF PendingCall
  <2> HIDE DEF call1
  <2>3. /\ p \in Seq(PendingCall) /\ Len(p) = Len(r.pending) /\ p # <<>> /\ p[1] = call1
        /\ \A i \in 1..Len(r.pending) : i # 1 => p[i] = r.pending[i]
    BY <1>0, <2>2, HeadUpdate
  <2> HIDE DEF p
  <2>4. /\ next.state = "awaiting_approval" /\ next.history = h /\ next.turn = r.turn /\ next.asked = r.asked
        /\ next.attempts = r.attempts /\ next.pending = p
    BY <1>0, <2>1 DEF Rows
  <2>5. \A i \in 1..Len(r.pending) : p[i].id = r.pending[i].id /\ p[i].attempt = r.pending[i].attempt
    BY <2>2, <2>3
  <2>6. \A i \in 1..Len(r.pending) : EarlierEnded(p[i], t)
    BY <1>0, <2>5 DEF EarlierEnded
  <2>7. ToolKey(next) = ToolKey(r) /\ p[1].approval = ToolKey(r)
    BY <2>2, <2>3, <2>4 DEF ToolKey
  <2>8. "awaiting_approval" \notin TerminalStates
    BY DEF TerminalStates
  <2>9. next.state \notin TerminalStates /\ next.pending \in Seq(PendingCall) /\ Len(next.pending) = Len(r.pending)
    BY <2>3, <2>4, <2>8
  <2>10. \A i \in 1..Len(r.pending) : next.pending[i].id = r.pending[i].id /\ EarlierEnded(next.pending[i], t)
    BY <2>4, <2>5, <2>6
  <2>11. r.attempts <= next.attempts /\ next.attempts <= MaxModelSteps
    BY <1>0, <2>4
  <2>12. next.pending # <<>> /\ next.pending[1].approval = ToolKey(next) /\ ToolKey(next) \in ToolKeys
    BY <1>1, <2>3, <2>4, <2>7
  <2> HIDE DEF h
  <2>13. Story(next, c, t)
    BY <1>0, <1>n, <2>4, <2>9, <2>10, <2>11, <2>12, StoryWaits DEF h
  <2> QED BY <2>4, <2>13 DEF Tells, h
<1>4. CASE result = "retryable" /\ n < MaxToolAttempts
  <2> DEFINE call1 == [r.pending[1] EXCEPT !.attempt = n]
             p == [r.pending EXCEPT ![1] = call1]
  <2>1. next = [r EXCEPT !.state = "awaiting_retry", !.pending = p, !.due = FALSE]
    BY <1>4 DEF AfterTool, Results
  <2>2. call1 \in PendingCall /\ call1.id = r.pending[1].id /\ call1.attempt = n
    BY <1>1 DEF PendingCall
  <2> HIDE DEF call1
  <2>3. /\ p \in Seq(PendingCall) /\ Len(p) = Len(r.pending) /\ p # <<>> /\ p[1] = call1
        /\ \A i \in 1..Len(r.pending) : i # 1 => p[i] = r.pending[i]
    BY <1>0, <2>2, HeadUpdate
  <2> HIDE DEF p
  <2>4. /\ next.state = "awaiting_retry" /\ next.history = h /\ next.turn = r.turn /\ next.asked = r.asked
        /\ next.attempts = r.attempts /\ next.pending = p
    BY <1>0, <2>1 DEF Rows
  <2>5. \A i \in 1..Len(r.pending) : p[i].id = r.pending[i].id
    BY <2>2, <2>3
  <2>6. EarlierEnded(p[1], t)
    BY <1>1, <1>4, <2>2, <2>3 DEF EarlierEnded
  <2>7. \A i \in 1..Len(r.pending) : EarlierEnded(p[i], t)
    BY <1>0, <2>3, <2>6
  <2>8. "awaiting_retry" \notin TerminalStates
    BY DEF TerminalStates
  <2>9. next.state \notin TerminalStates /\ next.pending \in Seq(PendingCall) /\ Len(next.pending) = Len(r.pending)
    BY <2>3, <2>4, <2>8
  <2>10. \A i \in 1..Len(r.pending) : next.pending[i].id = r.pending[i].id /\ EarlierEnded(next.pending[i], t)
    BY <2>4, <2>5, <2>7
  <2>11. r.attempts <= next.attempts /\ next.attempts <= MaxModelSteps /\ next.state # "awaiting_approval"
    BY <1>0, <2>4
  <2>12. next.history = r.history /\ next.turn = r.turn /\ next.asked = r.asked
    BY <2>4
  <2> HIDE DEF h
  <2>13. Story(next, c, t)
    BY <1>0, <1>n, <2>9, <2>10, <2>11, <2>12, StoryWaits
  <2> QED BY <2>12, <2>13 DEF Tells
<1>5. CASE result \notin Results \cup {"approval_required"} /\ ~(result = "retryable" /\ n < MaxToolAttempts)
  <2>1. next = Failed(r, "tool", r.attempts)
    BY <1>5 DEF AfterTool, Results
  <2> QED BY <1>0, <2>1, FailedTells DEF Terminations
<1> QED BY <1>2, <1>3, <1>4, <1>5

\* What a driver commits goes on with the story that it read.
LEMMA TransitionTells ==
  ASSUME NEW d, LET r == loop[d].snap IN
           /\ Prepared(loop[d].intent, r) /\ r.state \notin TerminalStates /\ Ready(loop[d].intent, r)
           /\ Story(r, call, toolRun)
           /\ loop[d].intent = "model" /\ gate[d].result \in Responses =>
                call[r.attempts + 1] = [status |-> "succeeded", result |-> gate[d].result]
           /\ loop[d].intent = "tool" /\ exec[d].result \in Results \cup {"retryable"} =>
                toolRun[ToolKey(r)] \in Tools!Terminal,
         NEW next \in Transition(d)
  PROVE  Tells(next, loop[d].snap, call, toolRun)
<1> DEFINE r == loop[d].snap
           intent == loop[d].intent
           h == r.history
<1>f. Follows(next, r)
  BY TransitionFollows
<1> HIDE DEF r, intent
<1>0. /\ Prepared(intent, r) /\ Sound(r) /\ r.state \notin TerminalStates /\ Ready(intent, r)
      /\ Story(r, call, toolRun)
  BY DEF r, intent, Prepared
<1>1. /\ r \in Rows /\ r.attempts \in Nat /\ r.attempts <= MaxModelSteps /\ h \in Seq(Messages) /\ r.turn \in Nat
      /\ r.pending \in Seq(PendingCall) /\ Len(r.pending) \in Nat
      /\ \A i \in 1..Len(r.pending) : EarlierEnded(r.pending[i], toolRun)
  <2>1. /\ r \in Rows /\ r.attempts \in Nat /\ h \in Seq(Messages) /\ r.pending \in Seq(PendingCall)
        /\ r.turn \in Nat
    BY <1>0, StoryOpen
  <2>2. r.attempts <= MaxModelSteps /\ \A i \in DOMAIN r.pending : EarlierEnded(r.pending[i], toolRun)
    BY <1>0 DEF Story, Bounded
  <2> QED BY <2>1, <2>2
<1>n. next \in Rows
  BY <1>f DEF Follows, Sound
<1>2. CASE intent = "model"
  <2>1. next = AfterModel(r, gate[d].result)
    BY <1>2 DEF Transition, r, intent
  <2>2. Ready("model", r) /\ r.state # "awaiting_retry"
    BY <1>0, <1>2 DEF Prepared
  <2>3. gate[d].result \in Responses => call[r.attempts + 1] = [status |-> "succeeded", result |-> gate[d].result]
    BY <1>2 DEF r, intent
  <2> QED BY <1>0, <2>1, <2>2, <2>3, AfterModelTells DEF r
<1>3. CASE intent = "tool"
  <2>1. next \in AfterTool(r, exec[d].result)
    BY <1>3 DEF Transition, r, intent
  <2>2. Ready("tool", r) /\ r.state # "awaiting_retry"
    BY <1>0, <1>3 DEF Prepared
  <2>3. exec[d].result \in Results \cup {"retryable"} => toolRun[ToolKey(r)] \in Tools!Terminal
    BY <1>3 DEF r, intent
  <2> QED BY <1>0, <2>1, <2>2, <2>3, AfterToolTells DEF r
<1>4. CASE intent \in {"abstain", "denied", "unusable", "late", "spent"}
  <2>1. PICK why \in Terminations : next = Failed(r, why, r.attempts)
    BY <1>4 DEF Transition, Terminations, r, intent
  <2> QED BY <1>0, <1>1, <2>1, FailedTells DEF r
<1>5. CASE intent = "cancel"
  <2>1. next = [r EXCEPT !.state = "cancelled", !.why = "cancelled", !.pending = <<>>, !.due = TRUE]
    BY <1>5 DEF Transition, r, intent
  <2>2. /\ next.state = "cancelled" /\ next.pending = <<>> /\ next.history = r.history
        /\ next.turn = r.turn /\ next.asked = r.asked /\ next.attempts = r.attempts
    BY <1>1, <2>1 DEF Rows
  <2>3. r.attempts <= next.attempts /\ next.attempts <= MaxModelSteps
    BY <1>1, <2>2
  <2>4. Story(next, call, toolRun)
    BY <1>0, <1>n, <2>2, <2>3, StoryEnds
  <2> QED BY <2>2, <2>4 DEF Tells, r
<1>6. CASE intent = "complete"
  <2> DEFINE m == Message("external", NoKey, 0, "none")
  <2>1. m \in Messages /\ m.kind = "external"
    BY DEF Message, Messages
  <2> DEFINE history == Append(r.history, m)
             turn == r.turn + 1
  <2>2. next = [r EXCEPT !.state = "succeeded", !.why = "completed", !.turn = turn, !.history = history]
    BY <1>6 DEF Transition, r, intent
  <2> HIDE DEF turn, history, m
  <2>3. /\ next.state = "succeeded" /\ next.history = history /\ next.turn = turn /\ next.asked = r.asked
        /\ next.attempts = r.attempts /\ next.pending = r.pending
    BY <1>1, <2>2 DEF Rows
  <2>4. Story(next, call, toolRun)
    BY <1>0, <1>n, <2>1, <2>3, StoryCompletes DEF turn, history
  <2>5. \A id : Asked(r.history, id) => Asked(next.history, id)
    BY <1>0, <1>1, <2>1, <2>3, CountsGrow DEF Story, history
  <2> QED BY <2>4, <2>5 DEF Tells, r
<1>7. CASE intent \in {"compile", "resume", "wait"}
  <2>1. \/ intent = "compile" /\ next = [r EXCEPT !.compiled = TRUE]
        \/ intent = "resume" /\ next = [r EXCEPT !.state = "running", !.due = TRUE]
        \/ intent = "wait" /\ next = [r EXCEPT !.state = "awaiting_external", !.due = TRUE]
    <3>1. CASE intent = "compile"
      BY <3>1 DEF Transition, r, intent
    <3>2. CASE intent = "resume"
      BY <3>2 DEF Transition, r, intent
    <3>3. CASE intent = "wait"
      BY <3>3 DEF Transition, r, intent
    <3> QED BY <1>7, <3>1, <3>2, <3>3
  <2>2. /\ next.state = r.state \/ next.state \in {"running", "awaiting_external"}
        /\ next.pending = r.pending /\ next.history = r.history
        /\ next.turn = r.turn /\ next.asked = r.asked /\ next.attempts = r.attempts
    BY <1>1, <2>1 DEF Rows
  <2>3. next.state \notin TerminalStates
    BY <1>0, <2>2 DEF TerminalStates
  <2>4. next.state = "awaiting_approval" =>
          next.pending # <<>> /\ next.pending[1].approval = ToolKey(next) /\ ToolKey(next) \in ToolKeys
    BY <1>0, <2>2 DEF Story, Bounded, ToolKey
  <2>5. r.attempts <= next.attempts /\ next.attempts <= MaxModelSteps
    BY <1>1, <2>2
  <2>6. /\ next.pending \in Seq(PendingCall) /\ Len(next.pending) = Len(r.pending)
        /\ \A i \in 1..Len(r.pending) : next.pending[i].id = r.pending[i].id /\ EarlierEnded(next.pending[i], toolRun)
    BY <1>1, <2>2
  <2>7. Story(next, call, toolRun)
    BY <1>0, <1>n, <2>2, <2>3, <2>4, <2>5, <2>6, StoryWaits
  <2> QED BY <2>2, <2>7 DEF Tells, r
<1> QED BY <1>0, <1>2, <1>3, <1>4, <1>5, <1>6, <1>7 DEF Prepared, Intents

------------------------------------------------------------------------------
(* The story of the run and of the ledgers *)

\* The first pending call was asked for.
LEMMA PendingAsked ==
  ASSUME NEW h \in Seq(Messages), Said(h), NEW p \in Seq(Calls), p # <<>>, PendingLeft(p, h, Len(h))
  PROVE  Asked(h, p[1].id)
<1>1. Len(h) \in Nat /\ DOMAIN h = 1..Len(h) /\ Len(p) \in Nat /\ Len(p) > 0
  OBVIOUS
<1>2. PICK i \in 1..Len(h) : /\ Replied(h, i, Len(h))
                             /\ Len(p) = Len(CallsOf[h[i].what]) - (Len(h) - i)
                             /\ \A n \in 1..Len(p) : p[n].id = CallsOf[h[i].what][Len(h) - i + n]
  BY DEF PendingLeft
<1> DEFINE calls == CallsOf[h[i].what]
           s == Len(h) - i
<1>3. i \in Responding(h) /\ calls \in Seq(CallIds) /\ s \in Nat
  <2>1. i \in Responding(h) /\ h[i].what \in Responses
    BY <1>1, <1>2 DEF Replied, Responding, Said
  <2> QED BY <1>1, <2>1, AgentRunAssumption
<1>4. DOMAIN calls = 1..Len(calls) /\ Len(calls) \in Nat
  BY <1>3
<1>5. s + 1 \in DOMAIN calls /\ p[1].id = calls[s + 1]
  BY <1>1, <1>2, <1>3, <1>4
<1> QED BY <1>3, <1>5 DEF Asked, Range

\* What Advance checks before it chooses the step.
LEMMA IntentsReady ==
  ASSUME IInv, Story(run, call, toolRun), run.state # "absent", NEW d \in Drivers, loop[d].op \in Operations,
         NEW intent \in IntentsOf(d), intent # "leave"
  PROVE  Ready(intent, run)
<1>1. run.state \notin TerminalStates
  BY DEF IntentsOf
<1>2. CASE loop[d].op \in {"cancel", "wait", "complete"}
  BY <1>1, <1>2 DEF IntentsOf, Ready
<1>3. CASE loop[d].op \in {"run", "advance"}
  <2>1. intent \in AdvanceIntents
    BY <1>1, <1>3 DEF IntentsOf
  <2>2. CASE late
    <3>1. intent = "late"
      BY <2>1, <2>2, Zenon DEF AdvanceIntents
    <3> QED BY <3>1 DEF Ready
  <2>3. CASE ~late /\ run.state \in Waiting
    <3>1. intent \in WaitingIntents
      BY <2>1, <2>3, Zenon DEF AdvanceIntents
    <3>2. CASE run.state = "awaiting_approval"
      <4>1. run.pending # <<>> /\ ToolKey(run) \in ToolKeys /\ run.pending \in Seq(PendingCall)
        BY <3>2 DEF Story, Bounded
      <4>2. run.pending[1] \in PendingCall /\ MaxToolAttempts \in Nat
        BY <4>1, AgentRunAssumption
      <4>3. run.pending[1].attempt + 1 \in 1..MaxToolAttempts /\ run.pending[1].attempt \in Nat
        BY <4>1, <4>2 DEF ToolKey, ToolKeys, PendingCall
      <4>4. run.pending[1].attempt < MaxToolAttempts
        BY <4>2, <4>3
      <4>5. intent \in {"tool", "denied"}
        BY <3>1, <3>2 DEF WaitingIntents
      <4> QED BY <4>1, <4>4, <4>5 DEF Ready
    <3>3. CASE run.state \in {"awaiting_retry", "awaiting_external"}
      <4>1. intent = "resume"
        BY <3>1, <3>3 DEF WaitingIntents
      <4> QED BY <4>1 DEF Ready
    <3> QED BY <2>3, <3>2, <3>3 DEF Waiting
  <2>4. CASE ~late /\ run.state \notin Waiting /\ run.pending # <<>>
    <3>1. run.pending \in Seq(PendingCall)
      BY DEF Story, Bounded
    <3>2. run.pending[1] \in PendingCall /\ MaxToolAttempts \in Nat
      BY <2>4, <3>1, AgentRunAssumption
    <3>3. run.pending[1].attempt \in Nat
      BY <3>2 DEF PendingCall
    <3>4. \/ intent = "unusable"
          \/ intent = "tool" /\ ~(run.pending[1].attempt >= MaxToolAttempts)
      BY <2>1, <2>4 DEF AdvanceIntents
    <3> QED BY <2>4, <3>2, <3>3, <3>4 DEF Ready
  <2>5. CASE ~late /\ run.state \notin Waiting /\ run.pending = <<>>
    <3>1. \/ intent \in {"compile", "abstain", "spent"}
          \/ intent = "model" /\ ~(run.turn >= MaxTurns \/ run.attempts >= MaxModelSteps)
      BY <2>1, <2>5 DEF AdvanceIntents
    <3>2. run.turn \in Nat /\ run.attempts \in Nat /\ MaxTurns \in Nat /\ MaxModelSteps \in Nat
      BY AgentRunAssumption DEF IInv, Sound, Rows
    <3> QED BY <2>5, <3>1, <3>2 DEF Ready
  <2> QED BY <2>2, <2>3, <2>4, <2>5
<1> QED BY <1>2, <1>3 DEF Operations

\* The effects that a story is made of stay as they are.
LEMMA EndedKept ==
  ASSUME RunsKept, NEW p \in PendingCall, EarlierEnded(p, toolRun)
  PROVE  EarlierEnded(p, toolRun')
<1>1. CASE p.attempt > 0
  <2>1. p.id \in CallIds /\ p.attempt \in 0..MaxToolAttempts /\ MaxToolAttempts \in Nat
    BY AgentRunAssumption DEF PendingCall
  <2>2. <<p.id, p.attempt>> \in ToolKeys
    BY <1>1, <2>1 DEF ToolKeys
  <2> QED BY <1>1, <2>2 DEF EarlierEnded, RunsKept
<1>2. CASE ~(p.attempt > 0)
  BY <1>2 DEF EarlierEnded
<1> QED BY <1>1, <1>2

LEMMA StoryKept ==
  ASSUME NEW r, Story(r, call, toolRun), CallsKept, RunsKept
  PROVE  Story(r, call', toolRun')
<1>1. \A i \in DOMAIN r.pending : EarlierEnded(r.pending[i], toolRun')
  <2>1. \A i \in DOMAIN r.pending : r.pending[i] \in PendingCall
    BY DEF Story, Bounded
  <2> QED BY <2>1, EndedKept DEF Story
<1>2. OfLedgers(r.history, call', toolRun')
  <2> SUFFICES ASSUME NEW i \in DOMAIN r.history
               PROVE  LET m == r.history[i] IN
                      /\ m.kind = "model" => call'[m.attempt] = [status |-> "succeeded", result |-> m.what]
                      /\ m.kind = "tool" => <<m.id, m.attempt>> \in ToolKeys /\ toolRun'[<<m.id, m.attempt>>] \in Tools!Terminal
    BY DEF OfLedgers
  <2> DEFINE m == r.history[i]
  <2>1. /\ m.kind = "model" => call[m.attempt] = [status |-> "succeeded", result |-> m.what]
        /\ m.kind = "tool" => <<m.id, m.attempt>> \in ToolKeys /\ toolRun[<<m.id, m.attempt>>] \in Tools!Terminal
    BY DEF Story, OfLedgers
  <2>2. m.kind = "model" => m.attempt \in ModelKeys
    <3>1. r.attempts \in Nat /\ r.attempts <= MaxModelSteps /\ MaxModelSteps \in Nat
      BY AgentRunAssumption DEF Story, Bounded, Rows
    <3>2. m.kind = "model" => m.attempt \in 1..r.attempts
      BY DEF Story, Numbered
    <3> QED BY <3>1, <3>2 DEF ModelKeys
  <2>3. m.kind = "model" => call[m.attempt].status = "succeeded"
    BY <2>1
  <2>4. m.kind = "model" => call'[m.attempt] = call[m.attempt]
    BY <2>2, <2>3 DEF CallsKept
  <2> QED BY <2>1, <2>4 DEF RunsKept
<1> QED BY <1>1, <1>2 DEF Story

\* What a driver prepared stays good while it does nothing.
LEMMA DrivenSame ==
  ASSUME NEW e \in Drivers, Driven(e), RunsKept, loop'[e] = loop[e],
         loop[e].pc \in {"call", "commit"} =>
           /\ gate'[e].key = gate[e].key /\ exec'[e].key = exec[e].key
           /\ loop[e].snap.version = run'.version => run.version = run'.version /\ SameRow(run, run')
           /\ \A id : Asked(run.history, id) => Asked(run'.history, id)
  PROVE  Driven(e)'
<1> DEFINE r == loop[e].snap
<1>1. Bounded(r)
  BY DEF Driven
<1>2. CASE loop[e].pc \in {"call", "commit"}
  <2>1. Ready(loop[e].intent, r) /\ (r.version = run.version => SameRow(r, run))
    BY <1>2 DEF Driven
  <2>2. r.version = run'.version => SameRow(r, run')
    <3>1. \A a, b, c : SameRow(a, b) /\ SameRow(b, c) => SameRow(a, c)
      BY DEF SameRow
    <3> QED BY <1>2, <2>1, <3>1
  <2>3. loop[e].intent = "tool" => Asked(run'.history, r.pending[1].id) /\ EarlierEnded(r.pending[1], toolRun')
    <3>1. CASE loop[e].intent = "tool"
      <4>1. r.pending[1] \in PendingCall
        BY <1>1, <2>1, <3>1, KeyOfPending DEF Bounded
      <4>2. Asked(run.history, r.pending[1].id) /\ EarlierEnded(r.pending[1], toolRun)
        BY <1>2, <3>1 DEF Driven
      <4> QED BY <1>2, <4>1, <4>2, EndedKept
    <3> QED BY <3>1
  <2>4. /\ loop[e].pc = "commit" /\ loop[e].intent = "model" => gate'[e].key = r.attempts + 1
        /\ loop[e].pc = "commit" /\ loop[e].intent = "tool" => exec'[e].key = ToolKey(r)
    BY <1>2 DEF Driven
  <2> HIDE DEF r
  <2> QED BY <1>1, <2>1, <2>2, <2>3, <2>4 DEF Driven, r
<1>3. CASE loop[e].pc \notin {"call", "commit"}
  BY <1>1, <1>3 DEF Driven
<1> QED BY <1>2, <1>3

\* Only a reservation asks for something new.
LEMMA RequestedKept ==
  ASSUME Requested, RunsKept, \A k \in ToolKeys : toolRun[k] = "absent" => toolRun'[k] = "absent",
         \A id : Asked(run.history, id) => Asked(run'.history, id)
  PROVE  Requested'
<1> SUFFICES ASSUME NEW k \in ToolKeys, toolRun'[k] # "absent"
             PROVE  /\ Asked(run'.history, k[1])
                    /\ k[2] > 1 => toolRun'[<<k[1], k[2] - 1>>] \in Tools!Terminal
  BY DEF Requested
<1>1. /\ Asked(run'.history, k[1])
      /\ k[2] > 1 => toolRun[<<k[1], k[2] - 1>>] \in Tools!Terminal
  BY DEF Requested
<1>2. k[2] > 1 => <<k[1], k[2] - 1>> \in ToolKeys
  <2>1. k[1] \in CallIds /\ k[2] \in 1..MaxToolAttempts /\ MaxToolAttempts \in Nat
    BY AgentRunAssumption DEF ToolKeys
  <2> QED BY <2>1 DEF ToolKeys
<1> QED BY <1>1, <1>2 DEF RunsKept

------------------------------------------------------------------------------
(* The invariant of the ledgers is inductive *)

LEMMA NoRunBounded == NoRun \in Rows /\ Bounded(NoRun)
<1>1. NoRun \in Rows
  <2>1. <<>> \in Seq(Calls) /\ <<>> \in Seq(Messages) /\ "absent" \in States /\ "none" \in Terminations
    BY DEF States, Terminations
  <2> QED BY <2>1 DEF NoRun, Rows
<1>2. <<>> \in Seq(PendingCall) /\ MaxModelSteps \in Nat /\ MaxToolCalls \in Nat
  BY AgentRunAssumption
<1> QED BY <1>1, <1>2 DEF NoRun, Bounded

LEMMA LedgerInit == Init => LedgerInv
<1> SUFFICES ASSUME Init PROVE LedgerInv
  OBVIOUS
<1>1. IInv /\ late \in BOOLEAN
  BY InvInit DEF Init
<1>2. GatewayInv
  <2>1. Working(Models!Out) = FALSE /\ Models!Out.pc = "out" /\ Models!Out \in Models!GateRow
        /\ [status |-> "absent", result |-> "none"] \in Models!CallRow
    BY AgentRunAssumption DEF Working, Models!Out, Models!GateRow, Models!CallRow
  <2>2. /\ call = [k \in ModelKeys |-> [status |-> "absent", result |-> "none"]]
        /\ gate = [c \in Drivers |-> Models!Out] /\ invoked = [k \in ModelKeys |-> 0]
    BY DEF Init, Models!Init
  <2>3. \A k \in ModelKeys : CallSound(call[k], invoked[k])
    BY <2>1, <2>2, AgentRunAssumption DEF CallSound
  <2>4. (\A d \in Drivers : GateSound(gate[d], call, invoked)) /\ OneAtATime
    BY <2>1, <2>2 DEF GateSound, OneAtATime
  <2> QED BY <2>2, <2>3, <2>4 DEF GatewayInv
<1>3. ToolsInv
  <2>1. /\ toolRun = [k \in ToolKeys |-> "absent"]
        /\ approval = [k \in ToolKeys |-> [status |-> "absent", expired |-> FALSE]]
        /\ exec = [c \in Drivers |-> Tools!Out] /\ taskLive = TRUE /\ ran = [k \in ToolKeys |-> 0]
    BY DEF Init, Tools!Init
  <2>2. Tools!Out \in Tools!ExecRow /\ Tools!Out.pc = "out" /\ "absent" \in Tools!ToolStatus
        /\ [status |-> "absent", expired |-> FALSE] \in Tools!ApprovalRow
    BY DEF Tools!Out, Tools!ExecRow, Tools!ToolStatus, Tools!ApprovalRow
  <2>3. \A d \in Drivers : ExecSound(exec[d], toolRun)
    BY <2>1, <2>2 DEF ExecSound, Busy
  <2>4. \A d, e \in Drivers : \A k \in ToolKeys : Approves(d, k) /\ Approves(e, k) => d = e
    BY <2>1, <2>2 DEF Approves
  <2> QED BY <2>1, <2>2, <2>3, <2>4 DEF ToolsInv
<1>4. Story(run, call, toolRun)
  <2>1. run = NoRun /\ run.history = <<>> /\ run.pending = <<>> /\ run.attempts = 0 /\ run.turn = 0 /\ run.asked = 0
    BY DEF Init, NoRun
  <2>2. Spoken(run.history) = 0 /\ PendingLeft(run.pending, run.history, 0)
    BY <2>1 DEF Spoken, PendingLeft
  <2>3. Responding(run.history) = {} /\ AskedIn(run.history) = {}
    BY <2>1 DEF Responding, AskedIn
  <2>4. Counted(run)
    <3>1. Cardinality({}) = 0 /\ 0 <= MaxTurns
      BY FS_EmptySet, AgentRunAssumption
    <3>2. Cardinality(Responding(run.history)) = 0 /\ Cardinality(AskedIn(run.history)) = 0
      BY <2>3, <3>1, Zenon
    <3>3. run.turn = 0 /\ run.asked = 0
      BY <2>1
    <3> QED BY <3>1, <3>2, <3>3 DEF Counted
  <2>5. DOMAIN run.history = {} /\ DOMAIN run.pending = {}
    BY <2>1
  <2>6. /\ Ordered(run.history) /\ ExternalLast(run.history, run.state) /\ Numbered(run.history, run.attempts)
        /\ Said(run.history) /\ OfLedgers(run.history, call, toolRun)
    BY <2>5 DEF Ordered, ExternalLast, Numbered, Said, OfLedgers
  <2> QED BY <2>1, <2>2, <2>4, <2>5, <2>6, NoRunBounded DEF Story
<1>5. \A d \in Drivers : Driven(d)
  <2>1. \A d \in Drivers : loop[d].pc = "idle" /\ loop[d].snap = NoRun
    BY DEF Init, Idle
  <2> QED BY <2>1, NoRunBounded DEF Driven
<1>6. Requested
  BY DEF Init, Tools!Init, Requested
<1> QED BY <1>1, <1>2, <1>3, <1>4, <1>5, <1>6 DEF LedgerInv, Init

\* Ledgers that nobody touches.
LEMMA ModelsSame ==
  ASSUME GatewayInv, UNCHANGED modelVars
  PROVE  GatewayInv' /\ CallsKept
BY DEF GatewayInv, OneAtATime, CallsKept, modelVars

LEMMA ToolsSame ==
  ASSUME ToolsInv, UNCHANGED toolVars
  PROVE  ToolsInv' /\ RunsKept /\ \A k \in ToolKeys : toolRun[k] = "absent" => toolRun'[k] = "absent"
<1>1. UNCHANGED <<toolRun, approval, exec, taskLive, ran>>
  BY DEF toolVars
<1> QED BY <1>1 DEF ToolsInv, Approves, RunsKept

\* A step of d that leaves the run as it is.
LEMMA LedgerMove ==
  ASSUME LedgerInv, IInv', late' \in BOOLEAN, GatewayInv', ToolsInv', CallsKept, RunsKept, run' = run,
         NEW d \in Drivers, Driven(d)', Requested',
         \A e \in Drivers : e # d => loop'[e] = loop[e] /\ gate'[e] = gate[e] /\ exec'[e] = exec[e]
  PROVE  LedgerInv'
<1>1. Story(run, call, toolRun)'
  BY StoryKept DEF LedgerInv
<1>2. ASSUME NEW e \in Drivers PROVE Driven(e)'
  <2>1. CASE e # d
    <3>1. SameRow(run, run') /\ Driven(e)
      BY DEF SameRow, LedgerInv
    <3> QED BY <2>1, <3>1, DrivenSame
  <2> QED BY <2>1
<1> QED BY <1>1, <1>2 DEF LedgerInv

\* A driver that has nothing prepared.
LEMMA DrivenIdle ==
  ASSUME NEW d \in Drivers, loop'[d].pc \notin {"call", "commit"}, Bounded(loop'[d].snap)
  PROVE  Driven(d)'
BY DEF Driven

\* What advanceTool relies on.
LEMMA ToolPrepared ==
  ASSUME Story(run, call, toolRun), run.state \notin TerminalStates, Ready("tool", run)
  PROVE  Asked(run.history, run.pending[1].id) /\ EarlierEnded(run.pending[1], toolRun)
<1>1. /\ run.history \in Seq(Messages) /\ run.pending \in Seq(Calls)
      /\ PendingLeft(run.pending, run.history, Len(run.history))
  BY StoryOpen
<1>2. run.pending # <<>> /\ 1 \in DOMAIN run.pending
  <2>1. run.pending # <<>>
    BY DEF Ready
  <2> QED BY <1>1, <2>1
<1>3. Said(run.history) /\ \A i \in DOMAIN run.pending : EarlierEnded(run.pending[i], toolRun)
  BY DEF Story
<1> QED BY <1>1, <1>2, <1>3, PendingAsked

LEMMA LedgerLoad ==
  ASSUME LedgerInv, IInv', NEW d \in Drivers, Load(d)
  PROVE  LedgerInv'
<1>1. /\ loop[d] \in LoopRows /\ loop[d].pc = "load" /\ run.state # "absent" /\ Story(run, call, toolRun) /\ IInv
      /\ UNCHANGED <<run, late, modelVars, toolVars>>
  BY DEF LedgerInv, IInv, Load
<1>2. PICK intent \in IF Admitted(d) THEN IntentsOf(d) ELSE {"leave"} :
        loop' = [loop EXCEPT ![d] = [@ EXCEPT !.intent = intent,
          !.pc = CASE intent = "leave" -> "leave"
                   [] intent \in {"model", "tool"} -> "call"
                   [] OTHER -> "commit",
          !.snap = IF intent = "leave" THEN NoRun ELSE run]]
  BY Zenon DEF Load
<1> DEFINE pc == CASE intent = "leave" -> "leave"
                   [] intent \in {"model", "tool"} -> "call"
                   [] OTHER -> "commit"
           snap == IF intent = "leave" THEN NoRun ELSE run
           row == [loop[d] EXCEPT !.intent = intent, !.pc = pc, !.snap = snap]
<1>3. /\ pc \in {"leave", "call", "commit"} /\ (pc # "leave" => intent # "leave")
      /\ (pc = "commit" => intent \notin {"model", "tool"})
  OBVIOUS
<1>4. loop' = [loop EXCEPT ![d] = row]
  BY <1>2
<1>5. Bounded(snap) /\ (intent # "leave" => snap = run)
  BY <1>1, NoRunBounded DEF Story
<1> HIDE DEF pc, snap
<1>6. row.pc = pc /\ row.intent = intent /\ row.snap = snap
  BY <1>1 DEF LoopRows
<1> HIDE DEF row
<1>7. loop'[d] = row /\ \A e \in Drivers : e # d => loop'[e] = loop[e]
  BY <1>1, <1>4 DEF IInv
<1>8. Driven(d)'
  <2>1. CASE pc = "leave"
    BY <1>5, <1>6, <1>7, <2>1, DrivenIdle
  <2>2. CASE pc # "leave"
    <3>1. intent # "leave" /\ intent \in IntentsOf(d) /\ loop[d].op \in Operations
      BY <1>1, <1>2, <1>3, <2>2 DEF LoopRows
    <3>2. Ready(intent, run) /\ run.state \notin TerminalStates
      BY <1>1, <3>1, IntentsReady, IntentsPrepared DEF IInv
    <3>3. intent = "tool" => Asked(run.history, run.pending[1].id) /\ EarlierEnded(run.pending[1], toolRun)
      BY <1>1, <3>2, ToolPrepared
    <3>4. UNCHANGED <<run, toolRun>> /\ SameRow(run, run)
      BY <1>1 DEF toolVars, SameRow
    <3>5. loop'[d].pc = pc /\ loop'[d].intent = intent /\ loop'[d].snap = run
      BY <1>5, <1>6, <1>7, <3>1
    <3>6. Bounded(run)
      BY <1>1 DEF Story
    <3> QED BY <1>3, <3>2, <3>3, <3>4, <3>5, <3>6 DEF Driven
  <2> QED BY <2>1, <2>2
<1>9. GatewayInv' /\ CallsKept /\ ToolsInv' /\ RunsKept /\ \A k \in ToolKeys : toolRun[k] = "absent" => toolRun'[k] = "absent"
  BY <1>1, ModelsSame, ToolsSame DEF LedgerInv
<1>10. Requested'
  BY <1>1, <1>9, RequestedKept DEF LedgerInv
<1>11. UNCHANGED <<gate, exec>> /\ late' \in BOOLEAN
  BY <1>1 DEF modelVars, toolVars, LedgerInv
<1> QED BY <1>1, <1>7, <1>8, <1>9, <1>10, <1>11, LedgerMove

\* The calls, and the steps, of the gateway and the executor.
LEMMA LedgerEffect ==
  ASSUME LedgerInv, IInv', NEW d \in Drivers, CallModel(d) \/ CallTool(d) \/ EffectStep(d)
  PROVE  LedgerInv'
<1> DEFINE l == loop[d]
           r == loop[d].snap
<1>1. UNCHANGED <<run, late>> /\ late' \in BOOLEAN
  BY DEF CallModel, CallTool, EffectStep, runVars, LedgerInv
<1>2. l \in LoopRows /\ Driven(d) /\ Bounded(r) /\ GatewayInv /\ ToolsInv
  BY DEF LedgerInv, IInv, Driven
<1>3. ToCommit(d) => /\ loop'[d].pc = "commit" /\ loop'[d].intent = l.intent /\ loop'[d].snap = r
                     /\ \A e \in Drivers : e # d => loop'[e] = loop[e]
  BY <1>2 DEF ToCommit, LedgerInv, IInv, LoopRows
<1>4. l.pc = "call" => /\ Ready(l.intent, r) /\ (r.version = run.version => SameRow(r, run))
                       /\ l.intent = "tool" => Asked(run.history, r.pending[1].id) /\ EarlierEnded(r.pending[1], toolRun)
  BY <1>2 DEF Driven
<1> HIDE DEF l, r
<1>5. CASE CallModel(d)
  <2>1. l.pc = "call" /\ l.intent = "model" /\ Models!Begin(d, r.attempts + 1) /\ ToCommit(d) /\ UNCHANGED toolVars
    BY <1>5 DEF CallModel, l, r
  <2>2. r.attempts + 1 \in ModelKeys
    <3>1. r.attempts \in Nat /\ r.attempts < MaxModelSteps /\ MaxModelSteps \in Nat
      BY <1>2, <1>4, <2>1, AgentRunAssumption DEF Bounded, Rows, Ready
    <3> QED BY <3>1 DEF ModelKeys
  <2>3. /\ GatewayInv' /\ CallsKept
        /\ gate'[d].key = r.attempts + 1 /\ \A e \in Drivers : e # d => gate'[e] = gate[e]
    BY <1>2, <2>1, <2>2, GateBegin
  <2>4. ToolsInv' /\ RunsKept /\ (\A k \in ToolKeys : toolRun[k] = "absent" => toolRun'[k] = "absent") /\ UNCHANGED exec
    BY <1>2, <2>1, ToolsSame DEF toolVars
  <2>5. Requested'
    BY <1>1, <2>4, RequestedKept DEF LedgerInv
  <2>6. Driven(d)'
    BY <1>1, <1>2, <1>3, <1>4, <2>1, <2>3 DEF Driven
  <2> QED BY <1>1, <1>3, <2>1, <2>3, <2>4, <2>5, <2>6, LedgerMove
<1>6. CASE CallTool(d)
  <2> DEFINE k == ToolKey(r)
             a == IF r.state = "awaiting_approval" THEN r.pending[1].approval ELSE NoKey
  <2>1. l.pc = "call" /\ l.intent = "tool" /\ Tools!Execute(d, k, a) /\ ToCommit(d) /\ UNCHANGED modelVars
    BY <1>6 DEF CallTool, l, r
  <2>2. /\ r.pending[1] \in PendingCall /\ r.pending[1].attempt \in Nat
        /\ k = <<r.pending[1].id, r.pending[1].attempt + 1>> /\ k \in ToolKeys
    BY <1>2, <1>4, <2>1, KeyOfPending DEF Bounded
  <2>3. a \in ToolKeys \cup {NoKey}
    BY <1>2 DEF Bounded
  <2> HIDE DEF k, a
  <2>4. /\ ToolsInv' /\ RunsKept
        /\ exec'[d].key = k /\ (\A c \in Drivers : c # d => exec'[c] = exec[c])
        /\ \A j \in ToolKeys : j # k /\ toolRun[j] = "absent" => toolRun'[j] = "absent"
    BY <1>2, <2>1, <2>2, <2>3, ToolExecute
  <2>5. GatewayInv' /\ CallsKept /\ UNCHANGED gate
    BY <1>2, <2>1, ModelsSame DEF modelVars
  <2>6. Asked(run.history, r.pending[1].id) /\ EarlierEnded(r.pending[1], toolRun) /\ EarlierEnded(r.pending[1], toolRun')
    BY <1>4, <2>1, <2>2, <2>4, EndedKept
  <2>7. Requested'
    <3> SUFFICES ASSUME NEW j \in ToolKeys, toolRun'[j] # "absent"
                 PROVE  /\ Asked(run'.history, j[1])
                        /\ j[2] > 1 => toolRun'[<<j[1], j[2] - 1>>] \in Tools!Terminal
      BY DEF Requested
    <3>1. CASE j = k
      <4>1. j[1] = r.pending[1].id /\ j[2] = r.pending[1].attempt + 1 /\ j[2] - 1 = r.pending[1].attempt
            /\ (j[2] > 1 => r.pending[1].attempt > 0)
        BY <2>2, <3>1
      <4> QED BY <1>1, <2>6, <4>1 DEF EarlierEnded
    <3>2. CASE j # k
      <4>1. Asked(run.history, j[1]) /\ (j[2] > 1 => toolRun[<<j[1], j[2] - 1>>] \in Tools!Terminal)
        BY <2>4, <3>2 DEF LedgerInv, Requested
      <4>2. j[2] > 1 => <<j[1], j[2] - 1>> \in ToolKeys
        <5>1. j[1] \in CallIds /\ j[2] \in 1..MaxToolAttempts /\ MaxToolAttempts \in Nat
          BY AgentRunAssumption DEF ToolKeys
        <5> QED BY <5>1 DEF ToolKeys
      <4> QED BY <1>1, <2>4, <4>1, <4>2 DEF RunsKept
    <3> QED BY <3>1, <3>2
  <2>8. Driven(d)'
    BY <1>1, <1>2, <1>3, <1>4, <2>1, <2>4, <2>6 DEF Driven, k
  <2> QED BY <1>1, <1>3, <2>1, <2>4, <2>5, <2>7, <2>8, LedgerMove
<1>7. CASE EffectStep(d)
  <2>1. UNCHANGED loop
    BY <1>7 DEF EffectStep, runVars
  <2>2. /\ GatewayInv' /\ CallsKept
        /\ gate'[d].key = gate[d].key /\ \A e \in Drivers : e # d => gate'[e] = gate[e]
    <3>1. CASE Models!Step(d)
      BY <1>2, <3>1, GateStep
    <3>2. CASE UNCHANGED modelVars
      BY <1>2, <3>2, ModelsSame DEF modelVars
    <3> QED BY <1>7, <3>1, <3>2 DEF EffectStep
  <2>3. /\ ToolsInv' /\ RunsKept /\ (\A k \in ToolKeys : toolRun[k] = "absent" => toolRun'[k] = "absent")
        /\ exec'[d].key = exec[d].key /\ \A e \in Drivers : e # d => exec'[e] = exec[e]
    <3>1. CASE Tools!Step(d)
      BY <1>2, <3>1, ToolStep
    <3>2. CASE UNCHANGED toolVars
      BY <1>2, <3>2, ToolsSame DEF toolVars
    <3> QED BY <1>7, <3>1, <3>2 DEF EffectStep
  <2>4. Requested'
    BY <1>1, <2>3, RequestedKept DEF LedgerInv
  <2>5. Driven(d)'
    BY <1>1, <1>2, <2>1, <2>2, <2>3, DrivenSame DEF SameRow
  <2> QED BY <1>1, <2>1, <2>2, <2>3, <2>4, <2>5, LedgerMove
<1> QED BY <1>5, <1>6, <1>7

\* A driver is done with a step.
LEMMA LedgerAfter ==
  ASSUME LedgerInv, NEW d \in Drivers, NEW pc \in {"load", "leave"}, After(d, pc),
         UNCHANGED <<call, invoked, toolRun, approval, taskLive, ran>>
  PROVE  /\ GatewayInv' /\ CallsKept /\ ToolsInv' /\ RunsKept /\ Driven(d)'
         /\ \A e \in Drivers : e # d => loop'[e] = loop[e] /\ gate'[e] = gate[e] /\ exec'[e] = exec[e]
<1>1. /\ loop[d] \in LoopRows /\ GatewayInv /\ ToolsInv
      /\ loop' = [loop EXCEPT ![d] = [loop[d] EXCEPT !.pc = pc, !.intent = "leave", !.snap = NoRun]]
      /\ gate' = [gate EXCEPT ![d] = Models!Out] /\ exec' = [exec EXCEPT ![d] = Tools!Out]
  BY DEF LedgerInv, IInv, After
<1>2. /\ loop'[d].pc = pc /\ loop'[d].snap = NoRun /\ \A e \in Drivers : e # d => loop'[e] = loop[e]
  BY <1>1 DEF LedgerInv, IInv, LoopRows
<1>3. GatewayInv' /\ CallsKept /\ \A e \in Drivers : e # d => gate'[e] = gate[e]
  BY <1>1, GateOut
<1>4. ToolsInv' /\ RunsKept /\ \A e \in Drivers : e # d => exec'[e] = exec[e]
  BY <1>1, ToolOut
<1>5. Driven(d)'
  BY <1>2, NoRunBounded, DrivenIdle
<1> QED BY <1>2, <1>3, <1>4, <1>5

\* A commit goes on with the story, and overtakes everybody else.
LEMMA LedgerCommit ==
  ASSUME LedgerInv, IInv', NEW d \in Drivers, Commit(d)
  PROVE  LedgerInv'
<1> DEFINE r == loop[d].snap
           intent == loop[d].intent
<1>1. PICK next \in Transition(d) : Accepted(d, next) /\ run' = [next EXCEPT !.version = @ + 1]
  BY DEF Commit
<1>2. PICK pc \in {"load", "leave"} : After(d, pc)
  BY DEF Commit
<1>3. UNCHANGED <<late, call, invoked, toolRun, approval, taskLive, ran>>
  BY DEF Commit
<1>4. /\ loop[d].pc = "commit" /\ Prepared(intent, r) /\ r.state \notin TerminalStates /\ r.version = run.version
      /\ (intent = "model" => gate[d].pc = "done") /\ (intent = "tool" => exec[d].pc = "done")
  BY <1>1 DEF Commit, Returned, LedgerInv, IInv, Fresh, Accepted, SameVersion
<1>5. /\ Bounded(r) /\ Ready(intent, r) /\ SameRow(r, run)
      /\ (intent = "model" => gate[d].key = r.attempts + 1)
      /\ (intent = "tool" => exec[d].key = ToolKey(r))
  BY <1>4 DEF LedgerInv, Driven
<1>6. Story(r, call, toolRun)
  BY <1>5, StorySame DEF LedgerInv, Bounded
<1>7. intent = "model" /\ gate[d].result \in Responses =>
        call[r.attempts + 1] = [status |-> "succeeded", result |-> gate[d].result]
  BY <1>4, <1>5 DEF LedgerInv, GatewayInv, GateSound
<1>8. intent = "tool" /\ exec[d].result \in Results \cup {"retryable"} => toolRun[ToolKey(r)] \in Tools!Terminal
  BY <1>4, <1>5 DEF LedgerInv, ToolsInv, ExecSound
<1>9. Tells(next, r, call, toolRun) /\ Follows(next, r)
  BY <1>4, <1>5, <1>6, <1>7, <1>8, TransitionTells, TransitionFollows
<1>10. next \in Rows /\ next.version \in Nat /\ Story(next, call, toolRun)
       /\ \A id : Asked(run.history, id) => Asked(next.history, id)
  BY <1>5, <1>9 DEF Follows, Sound, Rows, Tells, SameRow
<1> DEFINE v == next.version + 1
<1>11. v \in Nat /\ run' = [next EXCEPT !.version = v]
  BY <1>1, <1>10
<1> HIDE DEF v
<1>12. run' \in Rows /\ SameRow(run', next)
  BY <1>10, <1>11 DEF Rows, SameRow
<1>13. /\ Story(run, call, toolRun)' /\ \A id : Asked(run.history, id) => Asked(run'.history, id)
  <2>1. Story(run', call, toolRun)
    BY <1>10, <1>12, StorySame
  <2>2. run'.history = next.history
    BY <1>12 DEF SameRow
  <2> QED BY <1>3, <1>10, <2>1, <2>2
<1>14. run'.version = run.version + 1 /\ run.version \in Nat
  BY CommitFacts DEF LedgerInv, IInv, Sound, Rows
<1>15. /\ GatewayInv' /\ CallsKept /\ ToolsInv' /\ RunsKept /\ Driven(d)'
       /\ \A e \in Drivers : e # d => loop'[e] = loop[e] /\ gate'[e] = gate[e] /\ exec'[e] = exec[e]
  BY <1>2, <1>3, LedgerAfter
<1>16. ASSUME NEW e \in Drivers PROVE Driven(e)'
  <2>1. CASE e # d
    <3>1. loop[e].pc \in {"call", "commit"} => loop[e].snap.version # run'.version
      <4>1. loop[e].pc \in {"call", "commit"} => loop[e].snap.version <= run.version
        BY DEF LedgerInv, IInv, Fresh
      <4>2. loop[e].snap.version \in Nat
        BY DEF LedgerInv, Driven, Bounded, Rows
      <4> QED BY <1>14, <4>1, <4>2
    <3>2. Driven(e)
      BY DEF LedgerInv
    <3> QED BY <1>13, <1>15, <2>1, <3>1, <3>2, DrivenSame
  <2> QED BY <1>15, <2>1
<1>17. Requested'
  BY <1>3, <1>13, <1>15, RequestedKept DEF LedgerInv
<1>18. late' \in BOOLEAN
  BY <1>3 DEF LedgerInv
<1>19. run'.state # "absent"
  BY CommitFacts DEF LedgerInv
<1> QED BY <1>13, <1>15, <1>16, <1>17, <1>18, <1>19 DEF LedgerInv

\* Steps that only end what a driver does, or begin it.
LEMMA LedgerDriver ==
  ASSUME LedgerInv, IInv', NEW d \in Drivers,
         \/ Refused(d) \/ Leave(d) \/ Abort(d) \/ Crash(d)
         \/ d \in Workers /\ Claim(d)
         \/ \E op \in Operations : d \in Clients /\ Request(d, op)
  PROVE  LedgerInv'
<1>1. /\ UNCHANGED <<run, late, call, invoked, toolRun, approval, taskLive, ran>>
      /\ late' \in BOOLEAN /\ loop[d] \in LoopRows /\ GatewayInv /\ ToolsInv
  <2>1. CASE Refused(d) \/ Abort(d) \/ Crash(d)
    BY <2>1, Zenon DEF Refused, Abort, Crash, LedgerInv, IInv
  <2>2. CASE Leave(d) \/ (d \in Workers /\ Claim(d)) \/ \E op \in Operations : d \in Clients /\ Request(d, op)
    <3>1. UNCHANGED <<run, late, modelVars, toolVars>>
      BY <2>2, Zenon DEF Leave, Claim, Request
    <3> QED BY <3>1 DEF LedgerInv, IInv, modelVars, toolVars
  <2> QED BY <2>1, <2>2
<1>2. \A k \in ToolKeys : toolRun[k] = "absent" => toolRun'[k] = "absent"
  BY <1>1
<1>3. RunsKept => Requested'
  BY <1>1, <1>2, RequestedKept DEF LedgerInv
<1>4. CASE Refused(d) \/ Abort(d)
  <2>1. After(d, "leave")
    BY <1>4 DEF Refused, Abort
  <2> QED BY <1>1, <1>3, <2>1, LedgerAfter, LedgerMove
<1>5. ASSUME NEW row, loop' = [loop EXCEPT ![d] = row], row.pc \notin {"call", "commit"}, Bounded(row.snap)
      PROVE  Driven(d)' /\ \A e \in Drivers : e # d => loop'[e] = loop[e]
  <2>1. loop'[d] = row /\ \A e \in Drivers : e # d => loop'[e] = loop[e]
    BY <1>5 DEF LedgerInv, IInv
  <2> QED BY <1>5, <2>1, DrivenIdle
<1>6. Idle.pc = "idle" /\ Idle.snap = NoRun /\ Bounded(NoRun)
  BY NoRunBounded DEF Idle
<1>7. CASE Crash(d)
  <2>1. loop' = [loop EXCEPT ![d] = Idle] /\ gate' = [gate EXCEPT ![d] = Models!Out] /\ exec' = [exec EXCEPT ![d] = Tools!Out]
    BY <1>7 DEF Crash
  <2>2. Driven(d)' /\ \A e \in Drivers : e # d => loop'[e] = loop[e]
    BY <1>5, <1>6, <2>1
  <2>3. GatewayInv' /\ CallsKept /\ \A e \in Drivers : e # d => gate'[e] = gate[e]
    BY <1>1, <2>1, GateOut
  <2>4. ToolsInv' /\ RunsKept /\ \A e \in Drivers : e # d => exec'[e] = exec[e]
    BY <1>1, <2>1, ToolOut
  <2> QED BY <1>1, <1>3, <2>2, <2>3, <2>4, LedgerMove
<1>8. CASE Leave(d) \/ (d \in Workers /\ Claim(d)) \/ \E op \in Operations : d \in Clients /\ Request(d, op)
  <2>1. UNCHANGED <<modelVars, toolVars, gate, exec>>
    <3>1. UNCHANGED <<modelVars, toolVars>>
      BY <1>8, Zenon DEF Leave, Claim, Request
    <3> QED BY <3>1 DEF modelVars, toolVars
  <2>2. Driven(d)' /\ \A e \in Drivers : e # d => loop'[e] = loop[e]
    <3>1. CASE Leave(d)
      BY <1>5, <1>6, <3>1 DEF Leave
    <3>2. CASE Claim(d)
      <4> DEFINE row == [Idle EXCEPT !.pc = "load", !.fence = NextFence]
      <4>1. row.pc = "load" /\ row.snap = NoRun
        BY DEF Idle
      <4>2. loop' = [loop EXCEPT ![d] = row]
        BY <3>2 DEF Claim
      <4> HIDE DEF row
      <4> QED BY <1>5, <1>6, <4>1, <4>2
    <3>3. ASSUME NEW op \in Operations, Request(d, op)
          PROVE  Driven(d)' /\ \A e \in Drivers : e # d => loop'[e] = loop[e]
      <4> DEFINE row == [Idle EXCEPT !.pc = "load", !.op = op]
      <4>1. row.pc = "load" /\ row.snap = NoRun
        BY DEF Idle
      <4>2. loop' = [loop EXCEPT ![d] = row]
        BY <3>3, Zenon DEF Request
      <4> HIDE DEF row
      <4> QED BY <1>5, <1>6, <4>1, <4>2
    <3> QED BY <1>8, <3>1, <3>2, <3>3
  <2>3. GatewayInv' /\ CallsKept /\ ToolsInv' /\ RunsKept
    BY <1>1, <2>1, ModelsSame, ToolsSame
  <2> QED BY <1>1, <1>3, <2>1, <2>2, <2>3, LedgerMove
<1> QED BY <1>4, <1>7, <1>8

\* A step of nobody in particular.
LEMMA LedgerStill ==
  ASSUME LedgerInv, IInv', late' \in BOOLEAN, UNCHANGED <<modelVars, toolRun, exec, loop>>, ToolsInv',
         run' = run \/ run'.state # "absent", Story(run', call, toolRun),
         \/ run'.version = run.version /\ SameRow(run, run')
         \/ \A d \in Drivers : loop[d].pc = "idle",
         \A id : Asked(run.history, id) => Asked(run'.history, id)
  PROVE  LedgerInv'
<1>1. GatewayInv' /\ CallsKept /\ RunsKept /\ UNCHANGED <<gate, exec, loop, call, toolRun>>
  BY ModelsSame DEF LedgerInv, RunsKept, modelVars
<1>2. Requested'
  BY <1>1, RequestedKept DEF LedgerInv
<1>3. ASSUME NEW e \in Drivers PROVE Driven(e)'
  BY <1>1, DrivenSame DEF LedgerInv
<1>4. Story(run, call, toolRun)'
  BY <1>1
<1>5. run'.state = "absent" => run' = NoRun
  BY DEF LedgerInv
<1> QED BY <1>1, <1>2, <1>3, <1>4, <1>5 DEF LedgerInv

LEMMA LedgerAround ==
  ASSUME LedgerInv, IInv', Create \/ Expire \/ Due \/ Late \/ Environment \/ UNCHANGED vars
  PROVE  LedgerInv'
<1>1. late' \in BOOLEAN /\ ToolsInv' /\ UNCHANGED <<modelVars, toolRun, exec, loop>>
  <2>1. CASE Environment
    BY <2>1, ToolEnvironment DEF Environment, LedgerInv, runVars
  <2>2. CASE Create \/ Expire \/ Due \/ Late \/ UNCHANGED vars
    <3>1. UNCHANGED <<modelVars, toolVars, loop>>
      BY <2>2, Zenon DEF Create, Expire, Due, Late, vars, runVars
    <3>2. late' \in BOOLEAN
      BY <2>2, Zenon DEF Create, Expire, Due, Late, vars, runVars, LedgerInv
    <3> QED BY <3>1, <3>2, ToolsSame DEF LedgerInv, toolVars
  <2> QED BY <2>1, <2>2
<1>2. SameRow(run, run) /\ Story(run, call, toolRun) /\ Sound(run) /\ run \in Rows
  BY DEF SameRow, LedgerInv, IInv, Sound
<1>3. CASE Create
  <2>1. run = NoRun /\ \A d \in Drivers : loop[d].pc = "idle"
    BY <1>3 DEF Create, LedgerInv, IInv
  <2>2. run' \in Rows
    BY DEF IInv, Sound
  <2>3. /\ run'.state = "pending" /\ run'.history = <<>> /\ run'.turn = 0 /\ run'.asked = 0
        /\ run'.attempts = 0 /\ run'.pending = <<>>
    BY <1>3 DEF Create, NoRun
  <2>4. /\ run.state = "absent" /\ run.history = <<>> /\ run.turn = 0 /\ run.asked = 0
        /\ run.attempts = 0 /\ run.pending = <<>>
    BY <2>1 DEF NoRun
  <2>5. {"absent", "pending"} \cap TerminalStates = {} /\ MaxModelSteps \in Nat /\ <<>> \in Seq(PendingCall)
    BY AgentRunAssumption DEF TerminalStates
  <2>6. Story(run', call, toolRun)
    <3>1. /\ run.state \notin TerminalStates /\ run'.state \notin TerminalStates /\ run'.state # "awaiting_approval"
          /\ run'.history = run.history /\ run'.turn = run.turn /\ run'.asked = run.asked
      BY <2>3, <2>4, <2>5
    <3>2. run.attempts <= run'.attempts /\ run'.attempts <= MaxModelSteps
      BY <2>3, <2>4, <2>5
    <3>3. run'.pending \in Seq(PendingCall) /\ Len(run'.pending) = Len(run.pending) /\ Len(run.pending) = 0
      BY <2>3, <2>4, <2>5
    <3>4. \A i \in 1..Len(run.pending) : run'.pending[i].id = run.pending[i].id /\ EarlierEnded(run'.pending[i], toolRun)
      BY <3>3
    <3> QED BY <1>2, <2>2, <3>1, <3>2, <3>3, <3>4, StoryWaits
  <2> QED BY <1>1, <2>1, <2>3, <2>4, <2>6, LedgerStill
<1>4. CASE Due
  <2>1. run' = [run EXCEPT !.due = TRUE]
    BY <1>4 DEF Due
  <2>2. run' \in Rows /\ run'.version = run.version /\ SameRow(run', run) /\ SameRow(run, run')
    BY <1>2, <2>1 DEF Rows, SameRow
  <2>3. run.state # "absent"
    BY <1>2, <1>4 DEF Due, Sound
  <2>4. Story(run', call, toolRun)
    BY <1>2, <2>2, StorySame
  <2>5. run'.state # "absent" /\ run'.history = run.history
    BY <2>2, <2>3 DEF SameRow
  <2> QED BY <1>1, <2>2, <2>4, <2>5, LedgerStill
<1>5. CASE Expire \/ Late \/ Environment \/ UNCHANGED vars
  <2>1. run' = run
    BY <1>5, Zenon DEF Expire, Late, Environment, vars, runVars
  <2> QED BY <1>1, <1>2, <2>1, LedgerStill
<1> QED BY <1>3, <1>4, <1>5

LEMMA LedgerNext == LedgerInv /\ [Next]_vars => LedgerInv'
<1> SUFFICES ASSUME LedgerInv, [Next]_vars PROVE LedgerInv'
  OBVIOUS
<1>1. IInv'
  BY InvNext DEF LedgerInv
<1>2. ASSUME NEW d \in Drivers, Advance(d) PROVE LedgerInv'
  BY <1>1, <1>2, LedgerLoad, LedgerEffect, LedgerCommit, LedgerDriver DEF Advance
<1>3. ASSUME NEW d \in Drivers, Abort(d) \/ Crash(d) PROVE LedgerInv'
  BY <1>1, <1>3, LedgerDriver
<1>4. ASSUME NEW w \in Workers, Claim(w) PROVE LedgerInv'
  BY <1>1, <1>4, LedgerDriver DEF Drivers
<1>5. ASSUME NEW c \in Clients, NEW op \in Operations, Request(c, op) PROVE LedgerInv'
  BY <1>1, <1>5, LedgerDriver DEF Drivers
<1>6. CASE Create \/ Expire \/ Due \/ Late \/ Environment \/ UNCHANGED vars
  BY <1>1, <1>6, LedgerAround
<1> QED BY <1>2, <1>3, <1>4, <1>5, <1>6 DEF Next

\* Transcript, run, model ledger and tool ledger stay in step with each other,
\* and with what every driver is about to do.
THEOREM LedgerInvariance == Spec => []LedgerInv
<1> QED BY LedgerInit, LedgerNext, PTL DEF Spec

------------------------------------------------------------------------------
(* What the ledgers agree on *)

LEMMA RowsInType ==
  ASSUME NEW r, Bounded(r)
  PROVE  RunRow(r)
<1>1. /\ r.state \in States /\ r.version \in Nat /\ r.turn \in Nat /\ r.asked \in Nat /\ r.attempts \in Nat
      /\ r.compiled \in BOOLEAN /\ r.due \in BOOLEAN /\ r.why \in Terminations
  BY DEF Bounded, Rows
<1>2. r.asked \in 0..MaxToolCalls /\ r.attempts \in 0..MaxModelSteps
  BY <1>1, AgentRunAssumption DEF Bounded
<1> QED BY <1>1, <1>2 DEF Bounded, RunRow

LEMMA LedgersType == LedgerInv => TypeOK
<1> SUFFICES ASSUME LedgerInv PROVE TypeOK
  OBVIOUS
<1>1. RunRow(run) /\ late \in BOOLEAN
  BY RowsInType DEF LedgerInv, Story
<1>2. Lease!TypeOK
  BY DEF LedgerInv, IInv, LeaseRows, Lease!TypeOK
<1>3. ASSUME NEW d \in Drivers
      PROVE  /\ loop[d].pc \in {"idle", "load", "call", "commit", "leave"} /\ loop[d].op \in Operations
             /\ loop[d].intent \in Intents /\ loop[d].fence \in Nat /\ RunRow(loop[d].snap)
  BY RowsInType DEF LedgerInv, IInv, LoopRows, Driven
<1>4. Models!TypeOK
  <2>1. call \in [ModelKeys -> Models!CallRow] /\ invoked \in [ModelKeys -> Nat]
    BY DEF LedgerInv, GatewayInv, CallSound
  <2>2. gate \in [Drivers -> Models!GateRow]
    BY DEF LedgerInv, GatewayInv, GateSound
  <2> QED BY <2>1, <2>2 DEF Models!TypeOK
<1>5. Tools!TypeOK
  BY DEF LedgerInv, ToolsInv, Tools!TypeOK
<1> QED BY <1>1, <1>2, <1>3, <1>4, <1>5 DEF TypeOK

\* Run, ledgers and effects tell the same story: the transcript is in order and
\* only of recorded effects, no tool ran that was not asked for, and the budgets
\* hold for all drivers together, whatever of them crashed or was overtaken.
THEOREM LedgersTellOneStory == Spec => []LedgersAgree
<1>1. LedgerInv => LedgersAgree
  <2> SUFFICES ASSUME LedgerInv PROVE LedgersAgree
    OBVIOUS
  <2> DEFINE h == run.history
  <2>1. TypeOK
    BY LedgersType
  <2>2. Story(run, call, toolRun) /\ h \in Seq(Messages)
    BY DEF LedgerInv, Story, Bounded, Rows
  <2>3. TranscriptInOrder
    BY <2>2 DEF Story, Ordered, ExternalLast, TranscriptInOrder
  <2>4. TranscriptFromLedgers
    BY <2>2 DEF Story, OfLedgers, Numbered, TranscriptFromLedgers
  <2>5. ToolsAfterCheckpoint
    BY DEF LedgerInv, ToolsInv, Requested, ToolsAfterCheckpoint
  <2>6. BudgetsHold
    <3>1. Cardinality(Responding(h)) <= MaxTurns
      BY <2>2 DEF Story, Counted
    <3>2. Cardinality(AskedIn(h)) <= MaxToolCalls
      <4>1. Cardinality(AskedIn(h)) \in Nat
        <5>1. Message("external", NoKey, 0, "none") \in Messages /\ Message("external", NoKey, 0, "none").kind # "model"
          BY DEF Message, Messages
        <5> QED BY <2>2, <5>1, CountsGrow DEF Story
      <4>2. Cardinality(AskedIn(h)) <= run.asked /\ run.asked <= MaxToolCalls /\ run.asked \in Nat /\ MaxToolCalls \in Nat
        BY <2>2, AgentRunAssumption DEF Story, Counted, Bounded, Rows
      <4> QED BY <4>1, <4>2
    <3>3. Models!OneExecutorPerKey
      BY DEF LedgerInv, GatewayInv, CallSound, OneAtATime, Working, Models!OneExecutorPerKey
    <3> QED BY <3>1, <3>2, <3>3 DEF BudgetsHold
  <2> QED BY <2>1, <2>3, <2>4, <2>5, <2>6 DEF LedgersAgree
<1> QED BY <1>1, LedgerInvariance, PTL

==============================================================================
