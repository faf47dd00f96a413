------------------------- MODULE ToolExecutor_proofs -------------------------
(***************************************************************************)
(* Proofs about ToolExecutor for every set of callers and requests, every  *)
(* policy and every hash.  The invariant says who may work on a request:   *)
(* the caller that reserved it, until a decision opens it to others.       *)
(***************************************************************************)
EXTENDS ToolExecutor, TLAPS

Interactive(k) == ModeOf[k] = "interactive"

Working(c) == exec[c].pc \notin {"out", "done"}

\* What AdmittedBeforeRun asks of a request that was executed.
Admitted(k) ==
  \/ ModeOf[k] = "automatic"
  \/ /\ ModeOf[k] \in {"interactive", "preapproved"}
     /\ \E a \in Keys : approval[a].status = "approved" /\ HashOf[a] = HashOf[k]

\* Rows appear in the order request, approval, process.
RowsInOrder ==
  \A k \in Keys :
    /\ toolRun[k] = "absent" => approval[k].status = "absent" /\ ran[k] = 0
    /\ toolRun[k] = "awaiting_approval" => Interactive(k)

\* A call names a request; the first call of an interactive request is alone
\* until it has created the approval, and every later one comes after that.
Reservations ==
  \A c \in Callers :
    LET k == exec[c].key IN
    /\ exec[c].pc # "out" => k \in Keys
    /\ exec[c].pc = "approve" =>
         /\ Interactive(k)
         /\ toolRun[k] = "pending"
         /\ approval[k].status = "absent"
         /\ \A d \in Callers : exec[d].pc = "approve" /\ exec[d].key = k => d = c
    /\ exec[c].pc = "grant" => ModeOf[k] = "preapproved"
    /\ exec[c].pc = "lookup" => Interactive(k)
    /\ exec[c].pc \in {"lookup", "fence", "start", "deny", "running"} /\ Interactive(k) =>
         toolRun[k] \notin {"absent", "pending"}

\* Past admission, a request is admitted for good: an approval that was given
\* is never taken back.
AdmissionsKept ==
  \A c \in Callers : exec[c].pc \in {"fence", "start", "running"} => Admitted(exec[c].key)

\* A request that needs no decision is worked on by the caller that reserved it
\* and by nobody else.
UndecidedOwned ==
  \A c \in Callers :
    LET k == exec[c].key IN
    Working(c) /\ ~Interactive(k) =>
      /\ \A d \in Callers : Working(d) /\ exec[d].key = k => d = c
      /\ exec[c].pc # "running" => toolRun[k] = "pending" /\ ran[k] = 0
      /\ exec[c].pc = "running" => toolRun[k] = "running"

\* The inductive invariant.
IInv ==
  /\ TypeOK
  /\ RowsInOrder
  /\ Reservations
  /\ AdmissionsKept
  /\ AdmittedBeforeRun
  /\ UndecidedOwned
  /\ UndecidedRunsOnce
  /\ ToldWhatIsRecorded

------------------------------------------------------------------------------
\* The invariant is inductive: one lemma for each kind of step

\* Before any call nothing is reserved, decided or executed.
LEMMA InvInit == Init => IInv
<1> SUFFICES ASSUME Init PROVE IInv
  OBVIOUS
<1>1. TypeOK
  BY DEF Init, TypeOK, ToolStatus, ApprovalRow, ExecRow, Out
<1>2. RowsInOrder /\ Reservations /\ AdmissionsKept /\ AdmittedBeforeRun
  BY DEF Init, RowsInOrder, Reservations, AdmissionsKept, AdmittedBeforeRun, Out
<1>3. UndecidedOwned /\ UndecidedRunsOnce /\ ToldWhatIsRecorded
  BY DEF Init, UndecidedOwned, UndecidedRunsOnce, ToldWhatIsRecorded, Working, Out
<1> QED BY <1>1, <1>2, <1>3 DEF IInv

\* Nobody works on a request that is not reserved.
LEMMA AbsentUnowned ==
  ASSUME IInv, NEW c \in Callers, Working(c)
  PROVE  exec[c].key \in Keys /\ toolRun[exec[c].key] # "absent"
<1> DEFINE k == exec[c].key
<1>1. k \in Keys /\ exec[c].pc \in {"lookup", "approve", "grant", "fence", "start", "deny", "running"}
  BY DEF IInv, Reservations, Working, TypeOK, ExecRow
<1>2. CASE Interactive(k)
  BY <1>1, <1>2 DEF IInv, Reservations, Interactive
<1>3. CASE ~Interactive(k)
  BY <1>1, <1>3 DEF IInv, UndecidedOwned
<1> QED BY <1>1, <1>2, <1>3

\* A step that only grows the set of approvals keeps admissions.
LEMMA AdmittedKept ==
  ASSUME NEW k,
         \A a \in Keys : approval[a].status = "approved" => approval'[a].status = "approved",
         Admitted(k)
  PROVE  Admitted(k)'
BY DEF Admitted

\* A request is reserved, continued, replayed or found in progress.
LEMMA InvExecute ==
  ASSUME IInv, NEW c \in Callers, NEW k \in Keys, NEW a \in Keys \cup {NoKey},
         Execute(c, k, a)
  PROVE  IInv'
<1> USE DEF IInv
<1>a. exec[c].pc = "out" /\ approval' = approval /\ taskLive' = taskLive /\ ran' = ran
  BY DEF Execute
<1>b. PICK row \in [pc : {"lookup", "fence", "approve", "grant", "deny", "done"}, key : {k},
                    grant : Keys \cup {NoKey}, result : {"none", "replayed", "in_progress"}] :
        exec' = [exec EXCEPT ![c] = row]
  <2>1. AdmissionOf(k) \in {"fence", "approve", "grant", "deny"}
    BY ToolExecutorAssumption DEF AdmissionOf, Modes
  <2> QED BY <2>1 DEF Execute, Out
<1>c. exec'[c] = row /\ \A d \in Callers : d # c => exec'[d] = exec[d]
  BY <1>b DEF TypeOK
<1>d. ~Working(c) /\ \A d \in Callers : d # c => Working(d)' = Working(d)
  BY <1>a, <1>c DEF Working
<1>e. \A d \in Callers : Working(d) => exec[d].key \in Keys /\ toolRun[exec[d].key] # "absent"
  BY AbsentUnowned
<1>0. /\ exec[c].pc = "out" /\ ~Working(c)
      /\ approval' = approval /\ taskLive' = taskLive /\ ran' = ran
      /\ exec' = [exec EXCEPT ![c] = exec'[c]]
      /\ exec'[c].key = k /\ exec'[c].pc # "out"
      /\ \A d \in Callers : d # c => exec'[d] = exec[d] /\ Working(d)' = Working(d)
      /\ \A d \in Callers : Working(d) => exec[d].key \in Keys /\ toolRun[exec[d].key] # "absent"
  BY <1>a, <1>b, <1>c, <1>d, <1>e
<1>1. CASE toolRun[k] = "absent"
  <2>1. /\ toolRun' = [toolRun EXCEPT ![k] = "pending"]
        /\ exec'[c].pc = AdmissionOf(k) /\ exec'[c].result = "none"
    <3>1. Reservable(k) /\ toolRun[k] \notin Terminal
          /\ toolRun[k] \notin {"pending", "awaiting_approval", "running"}
      BY <1>1 DEF Reservable, Terminal
    <3> DEFINE entered == [Out EXCEPT !.key = k]
               admitted == [entered EXCEPT !.pc = AdmissionOf(k),
                 !.grant = IF ModeOf[k] = "preapproved" THEN a ELSE NoKey]
    <3>2. toolRun' = [toolRun EXCEPT ![k] = "pending"] /\ exec' = [exec EXCEPT ![c] = admitted]
      BY <3>1, <1>1 DEF Execute
    <3>3. exec'[c] = admitted
      BY <3>2 DEF TypeOK
    <3>4. admitted.pc = AdmissionOf(k) /\ admitted.result = "none"
      BY DEF Out
    <3> QED BY <3>2, <3>3, <3>4
  <2>2. \/ /\ AdmissionOf(k) = "fence"
           /\ ModeOf[k] = "automatic"
        \/ /\ AdmissionOf(k) = "approve"
           /\ ModeOf[k] = "interactive"
        \/ /\ AdmissionOf(k) = "grant"
           /\ ModeOf[k] = "preapproved"
        \/ /\ AdmissionOf(k) = "deny"
           /\ ModeOf[k] = "denied"
    <3>1. ModeOf[k] \in Modes
      BY ToolExecutorAssumption
    <3> QED BY <3>1 DEF AdmissionOf, Modes
  <2>3. TypeOK'
    BY <1>0, <1>c, <2>1 DEF TypeOK, ToolStatus, ExecRow
  <2>4. RowsInOrder'
    BY <1>0, <2>1 DEF RowsInOrder, TypeOK, Interactive
  <2>5. Reservations'
    BY <1>0, <1>1, <2>1, <2>2 DEF Reservations, RowsInOrder, Interactive, TypeOK, Working
  <2>6. AdmissionsKept' /\ AdmittedBeforeRun'
    BY <1>0, <2>1, <2>2 DEF AdmissionsKept, AdmittedBeforeRun, Admitted
  <2>7. UndecidedOwned'
    BY <1>0, <1>1, <2>1, <2>2 DEF UndecidedOwned, RowsInOrder, Interactive, TypeOK, Working
  <2>8. UndecidedRunsOnce'
    BY <1>0 DEF UndecidedRunsOnce
  <2>9. ToldWhatIsRecorded'
    BY <1>0, <1>1, <2>1, <2>2 DEF ToldWhatIsRecorded, TypeOK, StatusOf
  <2> QED BY <2>3, <2>4, <2>5, <2>6, <2>7, <2>8, <2>9
<1>2. CASE toolRun[k] # "absent"
  <2>1. /\ toolRun' = toolRun
        /\ \/ /\ toolRun[k] = "awaiting_approval"
              /\ exec'[c] = [pc |-> "lookup", key |-> k, grant |-> a, result |-> "none"]
           \/ exec'[c] = [pc |-> "done", key |-> k, grant |-> NoKey, result |-> "replayed"]
           \/ exec'[c] = [pc |-> "done", key |-> k, grant |-> NoKey, result |-> "in_progress"]
    BY <1>2, ZenonT(60) DEF Execute, Reservable, TypeOK, Out
  <2>2. exec'[c].pc = "lookup" => Interactive(k) /\ toolRun[k] = "awaiting_approval"
    BY <2>1 DEF RowsInOrder
  <2>3. TypeOK'
    BY <1>0, <2>1 DEF TypeOK, ExecRow, Outcomes
  <2>4. RowsInOrder' /\ AdmittedBeforeRun' /\ UndecidedRunsOnce'
    BY <1>0, <2>1 DEF RowsInOrder, AdmittedBeforeRun, UndecidedRunsOnce
  <2>5. Reservations'
    BY <1>0, <2>1, <2>2 DEF Reservations, Interactive
  <2>6. AdmissionsKept'
    BY <1>0, <2>1 DEF AdmissionsKept, Admitted
  <2>7. UndecidedOwned'
    BY <1>0, <2>1, <2>2 DEF UndecidedOwned, Interactive, Working
  <2>8. ToldWhatIsRecorded'
    BY <1>0, <2>1 DEF ToldWhatIsRecorded
  <2> QED BY <2>3, <2>4, <2>5, <2>6, <2>7, <2>8
<1> QED BY <1>1, <1>2

\* What a step of Execute does to the progress of the callers.
LEMMA StepFacts ==
  ASSUME IInv, NEW c \in Callers, Working(c), NEW row \in ExecRow, row.key = exec[c].key,
         exec' = [exec EXCEPT ![c] = row]
  PROVE  /\ exec[c].key \in Keys
         /\ exec' \in [Callers -> ExecRow]
         /\ exec'[c] = row
         /\ \A d \in Callers : d # c => exec'[d] = exec[d] /\ Working(d)' = Working(d)
<1>1. exec[c].key \in Keys
  BY DEF IInv, Reservations, Working
<1> QED BY <1>1 DEF IInv, TypeOK, Working

\* Goto and Return change one row and keep its key.
LEMMA GotoFacts ==
  ASSUME IInv, NEW c \in Callers, Working(c),
         NEW pc \in {"fence", "start", "deny", "running"}, Goto(c, pc)
  PROVE  \E row \in ExecRow : /\ row.key = exec[c].key /\ row.pc = pc
                              /\ row.result = exec[c].result
                              /\ exec' = [exec EXCEPT ![c] = row]
<1> DEFINE row == [exec[c] EXCEPT !.pc = pc]
<1>1. exec[c] \in ExecRow
  BY DEF IInv, TypeOK
<1>2. row \in ExecRow /\ row.key = exec[c].key /\ row.pc = pc /\ row.result = exec[c].result
  BY <1>1 DEF ExecRow
<1> QED BY <1>2 DEF Goto

LEMMA ReturnFacts ==
  ASSUME IInv, NEW c \in Callers, Working(c), NEW result \in Outcomes, Return(c, result)
  PROVE  \E row \in ExecRow : /\ row.key = exec[c].key /\ row.pc = "done"
                              /\ row.result = result
                              /\ exec' = [exec EXCEPT ![c] = row]
<1> DEFINE row == [exec[c] EXCEPT !.pc = "done", !.grant = NoKey, !.result = result]
<1>1. exec[c] \in ExecRow
  BY DEF IInv, TypeOK
<1>2. row \in ExecRow /\ row.key = exec[c].key /\ row.pc = "done" /\ row.result = result
  BY <1>1 DEF ExecRow
<1> QED BY <1>2 DEF Return

\* The reserving caller creates the approval and leaves.
LEMMA InvCreateApproval ==
  ASSUME IInv, NEW c \in Callers, CreateApproval(c)
  PROVE  IInv'
<1> USE DEF IInv
<1> DEFINE k == exec[c].key
<1>1. Working(c) /\ exec[c].pc = "approve" /\ Interactive(k) /\ approval[k].status = "absent"
  BY DEF CreateApproval, Working, Reservations
<1>2. PICK row \in ExecRow : /\ row.key = k /\ row.pc = "done"
                             /\ row.result = "approval_required"
                             /\ exec' = [exec EXCEPT ![c] = row]
  BY <1>1, ReturnFacts DEF CreateApproval, Outcomes
<1>3. /\ k \in Keys /\ exec' \in [Callers -> ExecRow] /\ exec'[c] = row
      /\ \A d \in Callers : d # c => exec'[d] = exec[d] /\ Working(d)' = Working(d)
  BY <1>1, <1>2, StepFacts
<1>4. /\ approval' = [approval EXCEPT ![k] = [status |-> "pending", expired |-> FALSE]]
      /\ toolRun' = [toolRun EXCEPT ![k] = "awaiting_approval"]
      /\ taskLive' = taskLive /\ ran' = ran
  BY DEF CreateApproval
<1>5. TypeOK'
  BY <1>3, <1>4 DEF TypeOK, ToolStatus, ApprovalRow
<1>6. \A a \in Keys : approval[a].status = "approved" => approval'[a].status = "approved"
  BY <1>1, <1>3, <1>4 DEF TypeOK
<1>7. RowsInOrder'
  BY <1>1, <1>3, <1>4 DEF RowsInOrder, TypeOK, Interactive
<1>8. Reservations'
  BY <1>1, <1>2, <1>3, <1>4 DEF Reservations, TypeOK, Interactive
<1>9. AdmissionsKept' /\ AdmittedBeforeRun'
  BY <1>2, <1>3, <1>4, <1>6 DEF AdmissionsKept, AdmittedBeforeRun, Admitted
<1>10. UndecidedOwned' /\ UndecidedRunsOnce'
  BY <1>1, <1>2, <1>3, <1>4 DEF UndecidedOwned, UndecidedRunsOnce, TypeOK, Interactive, Working
<1>11. ToldWhatIsRecorded'
  BY <1>1, <1>2, <1>3, <1>4 DEF ToldWhatIsRecorded, TypeOK, Interactive
<1> QED BY <1>5, <1>7, <1>8, <1>9, <1>10, <1>11

\* A step that only moves c on: no row changes.
LEMMA InvMove ==
  ASSUME IInv, NEW c \in Callers, Working(c), NEW row \in ExecRow, row.key = exec[c].key,
         exec' = [exec EXCEPT ![c] = row],
         UNCHANGED <<toolRun, approval, taskLive, ran>>,
         \/ exec[c].pc = "grant" /\ row.pc = "deny"
         \/ exec[c].pc \in {"grant", "lookup"} /\ row.pc = "fence" /\ Admitted(exec[c].key)
         \/ exec[c].pc = "fence" /\ row.pc \in {"start", "deny"}
         \/ exec[c].pc = "start" /\ row.pc = "deny"
         \/ row.pc = "done" /\ row.result \in {"error", "in_progress"}
  PROVE  IInv'
<1> USE DEF IInv
<1>1. /\ exec[c].key \in Keys /\ exec' \in [Callers -> ExecRow] /\ exec'[c] = row
      /\ \A d \in Callers : d # c => exec'[d] = exec[d] /\ Working(d)' = Working(d)
  BY StepFacts
<1>2. TypeOK' /\ RowsInOrder' /\ AdmittedBeforeRun' /\ UndecidedRunsOnce'
  BY <1>1 DEF TypeOK, RowsInOrder, AdmittedBeforeRun, UndecidedRunsOnce
<1>3. Reservations'
  BY <1>1 DEF Reservations, Interactive
<1>4. AdmissionsKept'
  BY <1>1 DEF AdmissionsKept, Admitted
<1>5. UndecidedOwned'
  BY <1>1 DEF UndecidedOwned, Interactive, Working
<1>6. ToldWhatIsRecorded'
  BY <1>1 DEF ToldWhatIsRecorded, Working
<1> QED BY <1>2, <1>3, <1>4, <1>5, <1>6

\* The approval is looked up, the grant and the fence are checked, or the call is
\* given up.
LEMMA InvCheck ==
  ASSUME IInv, NEW c \in Callers,
         LookUp(c) \/ CheckGrant(c) \/ CheckFence(c) \/ Interrupted(c)
  PROVE  IInv'
<1> USE DEF IInv
<1> DEFINE k == exec[c].key
<1>1. CASE CheckGrant(c)
  <2>1. Working(c) /\ exec[c].pc = "grant" /\ ModeOf[k] = "preapproved"
    BY <1>1 DEF CheckGrant, Working, Reservations
  <2>2. exec[c] \in ExecRow
    BY DEF TypeOK
  <2>3. PICK pc \in {"fence", "deny"} :
          /\ pc = "fence" => Granted(exec[c].grant, k)
          /\ exec' = [exec EXCEPT ![c] = [@ EXCEPT !.grant = NoKey, !.pc = pc]]
    BY <1>1 DEF CheckGrant
  <2> DEFINE row == [exec[c] EXCEPT !.grant = NoKey, !.pc = pc]
  <2>4. row \in ExecRow /\ row.key = k /\ row.pc = pc
    BY <2>2 DEF ExecRow
  <2>5. exec' = [exec EXCEPT ![c] = row]
    BY <2>3
  <2>6. Granted(exec[c].grant, k) => Admitted(k)
    BY <2>1, <2>2 DEF ExecRow, Granted, Admitted
  <2> HIDE DEF row
  <2> QED BY <1>1, <2>1, <2>3, <2>4, <2>5, <2>6, InvMove DEF CheckGrant
<1>2. CASE CheckFence(c)
  <2>1. Working(c) /\ exec[c].pc = "fence"
    BY <1>2 DEF CheckFence, Working
  <2>2. PICK pc \in {"start", "deny"} : Goto(c, pc)
    BY <1>2 DEF CheckFence
  <2>3. PICK row \in ExecRow : row.key = k /\ row.pc = pc /\ exec' = [exec EXCEPT ![c] = row]
    BY <2>1, <2>2, GotoFacts
  <2> QED BY <1>2, <2>1, <2>3, InvMove DEF CheckFence
<1>3. CASE Interrupted(c)
  <2>1. Working(c)
    BY <1>3 DEF Interrupted, Working
  <2>2. PICK row \in ExecRow : /\ row.key = k /\ row.pc = "done" /\ row.result = "error"
                               /\ exec' = [exec EXCEPT ![c] = row]
    BY <1>3, <2>1, ReturnFacts DEF Interrupted, Outcomes
  <2> QED BY <1>3, <2>1, <2>2, InvMove DEF Interrupted
<1>4. CASE LookUp(c)
  <2>1. Working(c) /\ exec[c].pc = "lookup" /\ Interactive(k) /\ exec[c] \in ExecRow
    BY <1>4 DEF LookUp, Working, Reservations, TypeOK
  <2>2. CASE Return(c, "in_progress")
    <3>1. PICK row \in ExecRow : /\ row.key = k /\ row.pc = "done" /\ row.result = "in_progress"
                                 /\ exec' = [exec EXCEPT ![c] = row]
      BY <2>1, <2>2, ReturnFacts DEF Outcomes
    <3> QED BY <1>4, <2>1, <3>1, InvMove DEF LookUp
  <2>3. CASE /\ Granted(exec[c].grant, k)
             /\ exec' = [exec EXCEPT ![c] = [@ EXCEPT !.pc = "fence", !.grant = NoKey]]
    <3> DEFINE row == [exec[c] EXCEPT !.pc = "fence", !.grant = NoKey]
    <3>1. row \in ExecRow /\ row.key = k /\ row.pc = "fence"
      BY <2>1 DEF ExecRow
    <3>2. exec' = [exec EXCEPT ![c] = row]
      BY <2>3
    <3>3. Admitted(k)
      BY <2>1, <2>3 DEF ExecRow, Granted, Admitted, Interactive
    <3> HIDE DEF row
    <3> QED BY <1>4, <2>1, <3>1, <3>2, <3>3, InvMove DEF LookUp
  <2> QED BY <1>4, <2>2, <2>3 DEF LookUp
<1> QED BY <1>1, <1>2, <1>3, <1>4

\* The outcome of a request is recorded, unless it has one already, and c leaves.
LEMMA InvRecord ==
  ASSUME IInv, NEW c \in Callers, exec[c].pc \in {"deny", "running"},
         NEW status \in Terminal, NEW result \in Outcomes, Return(c, result),
         toolRun' = Recorded(exec[c].key, status),
         UNCHANGED <<approval, taskLive, ran>>,
         IF result \in {"succeeded", "failed", "retryable"}
           THEN status = StatusOf(result) /\ exec[c].pc = "running"
           ELSE result = "denied" /\ status = "denied"
  PROVE  IInv'
<1> USE DEF IInv
<1> DEFINE k == exec[c].key
<1>1. Working(c)
  BY DEF Working
<1>2. PICK row \in ExecRow : /\ row.key = k /\ row.pc = "done" /\ row.result = result
                             /\ exec' = [exec EXCEPT ![c] = row]
  BY <1>1, ReturnFacts
<1>3. /\ k \in Keys /\ exec' \in [Callers -> ExecRow] /\ exec'[c] = row
      /\ \A d \in Callers : d # c => exec'[d] = exec[d] /\ Working(d)' = Working(d)
  BY <1>1, <1>2, StepFacts
<1>4. /\ toolRun' \in [Keys -> ToolStatus]
      /\ \A j \in Keys : toolRun'[j] =
           IF j = k /\ toolRun[k] \notin Terminal THEN status ELSE toolRun[j]
  BY <1>3 DEF Recorded, TypeOK, ToolStatus
<1>5. TypeOK'
  BY <1>3, <1>4 DEF TypeOK
<1>6. toolRun[k] # "absent" /\ (Interactive(k) => toolRun[k] # "pending")
  BY <1>1, AbsentUnowned DEF Reservations
<1>7. RowsInOrder'
  BY <1>3, <1>4, <1>6 DEF RowsInOrder, Terminal
<1>8. Reservations'
  <2> SUFFICES ASSUME NEW d \in Callers, d # c
               PROVE  /\ exec[d].pc = "approve" => toolRun'[exec[d].key] = "pending"
                      /\ exec[d].pc \in {"lookup", "fence", "start", "deny", "running"}
                           /\ Interactive(exec[d].key)
                           => toolRun'[exec[d].key] \notin {"absent", "pending"}
    BY <1>2, <1>3 DEF Reservations, Interactive
  <2>1. exec[d].pc = "approve" => exec[d].key # k
    BY <1>6 DEF Reservations
  <2> QED BY <1>4, <1>6, <2>1 DEF Reservations, Terminal
<1>9. AdmissionsKept' /\ AdmittedBeforeRun' /\ UndecidedRunsOnce'
  BY <1>2, <1>3 DEF AdmissionsKept, AdmittedBeforeRun, Admitted, UndecidedRunsOnce
<1>10. UndecidedOwned'
  <2> SUFFICES ASSUME NEW d \in Callers, d # c, Working(d), ~Interactive(exec[d].key)
               PROVE  /\ \A e \in Callers : Working(e) /\ exec[e].key = exec[d].key => e = d
                      /\ toolRun'[exec[d].key] = toolRun[exec[d].key]
    BY <1>2, <1>3 DEF UndecidedOwned, Interactive, Working
  <2>1. exec[d].key \in Keys /\ exec[d].key # k
    BY <1>1, AbsentUnowned DEF UndecidedOwned
  <2> QED BY <1>4, <2>1 DEF UndecidedOwned
<1>11. ToldWhatIsRecorded'
  <2> SUFFICES ASSUME NEW d \in Callers, exec'[d].pc = "done", ModeOf[exec'[d].key] # "interactive"
               PROVE  /\ exec'[d].result \in {"succeeded", "failed", "retryable"} =>
                           toolRun'[exec'[d].key] = StatusOf(exec'[d].result)
                      /\ exec'[d].result = "denied" => toolRun'[exec'[d].key] = "denied"
    BY DEF ToldWhatIsRecorded, StatusOf
  <2>1. CASE d = c
    <3>1. toolRun[k] \notin Terminal
      BY <1>1, <1>2, <1>3, <2>1 DEF UndecidedOwned, Interactive, Terminal
    <3> QED BY <1>2, <1>3, <1>4, <2>1, <3>1
  <2>2. CASE d # c
    BY <1>3, <1>4, <2>2 DEF ToldWhatIsRecorded, StatusOf, Terminal, Reservations
  <2> QED BY <2>1, <2>2
<1> QED BY <1>5, <1>7, <1>8, <1>9, <1>10, <1>11

\* Both ends of a call: the request is denied, or its process ends.
LEMMA InvEnd ==
  ASSUME IInv, NEW c \in Callers,
         Deny(c) \/ \E o \in {"succeeded", "failed", "retryable"} : Finish(c, o)
  PROVE  IInv'
<1> DEFINE k == exec[c].key
<1>1. Working(c)
  BY DEF Deny, Finish, Working
<1>2. CASE Return(c, "error") /\ toolRun' = toolRun
  <2>1. PICK row \in ExecRow : /\ row.key = k /\ row.pc = "done" /\ row.result = "error"
                               /\ exec' = [exec EXCEPT ![c] = row]
    BY <1>1, <1>2, ReturnFacts DEF Outcomes
  <2> QED BY <1>1, <1>2, <2>1, InvMove DEF Deny, Finish
<1>3. CASE Deny(c) /\ toolRun' = Recorded(k, "denied") /\ Return(c, "denied")
  BY <1>3, InvRecord DEF Deny, Terminal, Outcomes
<1>4. ASSUME NEW o \in {"succeeded", "failed", "retryable"}, Finish(c, o),
             toolRun' = Recorded(k, StatusOf(o)), Return(c, o)
      PROVE  IInv'
  <2>1. StatusOf(o) \in Terminal /\ o \in Outcomes
    BY DEF StatusOf, Terminal, Outcomes
  <2> QED BY <1>4, <2>1, InvRecord DEF Finish
<1> QED BY <1>2, <1>3, <1>4 DEF Deny, Finish

\* The run is marked started and the process begins.
LEMMA InvMarkStarted ==
  ASSUME IInv, NEW c \in Callers, MarkStarted(c)
  PROVE  IInv'
<1> USE DEF IInv
<1> DEFINE k == exec[c].key
<1>1. Working(c) /\ exec[c].pc = "start"
  BY DEF MarkStarted, Working
<1>2. CASE Goto(c, "deny") /\ UNCHANGED <<toolRun, ran>>
  <2>1. PICK row \in ExecRow : /\ row.key = k /\ row.pc = "deny"
                               /\ exec' = [exec EXCEPT ![c] = row]
    BY <1>1, <1>2, GotoFacts
  <2> QED BY <1>1, <1>2, <2>1, InvMove DEF MarkStarted
<1>3. CASE Goto(c, "running") /\ ran' = [ran EXCEPT ![k] = @ + 1]
  <2>1. PICK row \in ExecRow : /\ row.key = k /\ row.pc = "running"
                               /\ row.result = exec[c].result
                               /\ exec' = [exec EXCEPT ![c] = row]
    BY <1>1, <1>3, GotoFacts
  <2>2. /\ k \in Keys /\ exec' \in [Callers -> ExecRow] /\ exec'[c] = row
        /\ \A d \in Callers : d # c => exec'[d] = exec[d] /\ Working(d)' = Working(d)
    BY <1>1, <2>1, StepFacts
  <2>3. /\ toolRun' \in [Keys -> ToolStatus]
        /\ \A j \in Keys : toolRun'[j] =
             IF j = k /\ toolRun[k] \notin Terminal THEN "running" ELSE toolRun[j]
    BY <1>1, <1>3, <2>1, <2>2 DEF MarkStarted, TypeOK, ToolStatus, Goto
  <2>4. /\ ran' \in [Keys -> Nat]
        /\ \A j \in Keys : ran'[j] = IF j = k THEN ran[k] + 1 ELSE ran[j]
        /\ approval' = approval /\ taskLive' = taskLive
    BY <1>3, <2>2 DEF MarkStarted, TypeOK
  <2>5. TypeOK'
    BY <2>2, <2>3, <2>4 DEF TypeOK
  <2>6. toolRun[k] # "absent" /\ (Interactive(k) => toolRun[k] # "pending") /\ Admitted(k)
    BY <1>1, AbsentUnowned DEF Reservations, AdmissionsKept
  <2>7. RowsInOrder'
    BY <2>2, <2>3, <2>4, <2>6 DEF RowsInOrder
  <2>8. Reservations'
    <3> SUFFICES ASSUME NEW d \in Callers
                 PROVE  /\ exec[d].pc = "approve" => d # c /\ toolRun'[exec[d].key] = "pending"
                        /\ exec[d].pc \in {"lookup", "fence", "start", "deny", "running"}
                             /\ Interactive(exec[d].key)
                             => toolRun'[exec[d].key] \notin {"absent", "pending"}
      BY <1>1, <2>1, <2>2, <2>4 DEF Reservations, Interactive
    <3>1. exec[d].pc = "approve" => exec[d].key # k
      BY <2>6 DEF Reservations
    <3> QED BY <1>1, <2>3, <2>6, <3>1 DEF Reservations, Terminal
  <2>9. AdmissionsKept' /\ AdmittedBeforeRun'
    <3>1. \A j \in Keys : Admitted(j)' = Admitted(j)
      BY <2>4 DEF Admitted
    <3>2. \A j \in Keys : ran'[j] > 0 => Admitted(j)
      BY <2>4, <2>6 DEF AdmittedBeforeRun, Admitted
    <3> QED BY <2>1, <2>2, <2>4, <2>6, <3>1, <3>2 DEF AdmissionsKept, AdmittedBeforeRun, Admitted, Reservations
  <2>10. ~Interactive(k) => /\ toolRun[k] = "pending" /\ ran[k] = 0
                            /\ \A d \in Callers : Working(d) /\ exec[d].key = k => d = c
    BY <1>1 DEF UndecidedOwned
  <2>11. UndecidedOwned'
    <3> SUFFICES ASSUME NEW d \in Callers, Working(d)', ~Interactive(exec'[d].key)
                 PROVE  /\ \A e \in Callers : Working(e)' /\ exec'[e].key = exec'[d].key => e = d
                        /\ exec'[d].pc # "running" => toolRun'[exec'[d].key] = "pending" /\ ran'[exec'[d].key] = 0
                        /\ exec'[d].pc = "running" => toolRun'[exec'[d].key] = "running"
      BY DEF UndecidedOwned, Interactive, Working
    <3>1. CASE d = c
      BY <2>1, <2>2, <2>3, <2>10, <3>1 DEF Terminal
    <3>2. CASE d # c
      <4>1. Working(d) /\ exec[d].key \in Keys /\ exec[d].key # k
        BY <1>1, <2>2, <3>2, AbsentUnowned DEF UndecidedOwned
      <4> QED BY <1>1, <2>1, <2>2, <2>3, <2>4, <3>2, <4>1 DEF UndecidedOwned
    <3> QED BY <3>1, <3>2
  <2>12. UndecidedRunsOnce'
    BY <2>2, <2>4, <2>10 DEF UndecidedRunsOnce, Interactive
  <2>13. ToldWhatIsRecorded'
    <3> SUFFICES ASSUME NEW d \in Callers, d # c, exec[d].pc = "done", ModeOf[exec[d].key] # "interactive"
                 PROVE  /\ exec[d].result \in {"succeeded", "failed", "retryable"} =>
                             toolRun'[exec[d].key] = StatusOf(exec[d].result)
                        /\ exec[d].result = "denied" => toolRun'[exec[d].key] = "denied"
      BY <2>1, <2>2 DEF ToldWhatIsRecorded, StatusOf
    <3> QED BY <2>3 DEF ToldWhatIsRecorded, StatusOf, Terminal, Reservations
  <2> QED BY <2>5, <2>7, <2>8, <2>9, <2>11, <2>12, <2>13
<1> QED BY <1>2, <1>3 DEF MarkStarted

\* Decisions, clocks and the loss of the task: no call moves, and no approval
\* that was given is taken back.
LEMMA InvEnvironment ==
  ASSUME IInv, Environment
  PROVE  IInv'
<1> USE DEF IInv
<1>1. /\ toolRun' = toolRun /\ exec' = exec /\ ran' = ran
      /\ approval' \in [Keys -> ApprovalRow] /\ taskLive' \in BOOLEAN
      /\ \A k \in Keys :
           /\ approval[k].status = "approved" => approval'[k].status = "approved"
           /\ approval[k].status = "absent" => approval'[k].status = "absent"
  <2>1. ASSUME NEW k \in Keys, NEW decision \in {"approved", "denied"}, DecideApproval(k, decision)
        PROVE  <1>1!:
    BY <2>1 DEF DecideApproval, TypeOK, ApprovalRow
  <2>2. ASSUME NEW k \in Keys, ExpireApproval(k) PROVE <1>1!:
    BY <2>2 DEF ExpireApproval, TypeOK, ApprovalRow
  <2>3. CASE TaskLost
    BY <2>3 DEF TaskLost, TypeOK
  <2> QED BY <2>1, <2>2, <2>3 DEF Environment
<1>2. TypeOK' /\ RowsInOrder' /\ UndecidedOwned' /\ UndecidedRunsOnce' /\ ToldWhatIsRecorded'
  BY <1>1 DEF TypeOK, RowsInOrder, UndecidedOwned, UndecidedRunsOnce, ToldWhatIsRecorded, Working
<1>3. Reservations'
  BY <1>1 DEF Reservations
<1>4. AdmissionsKept' /\ AdmittedBeforeRun'
  BY <1>1 DEF AdmissionsKept, AdmittedBeforeRun, Admitted
<1> QED BY <1>2, <1>3, <1>4

\* A caller takes its answer and may call again.
LEMMA InvAnswered ==
  ASSUME IInv, NEW c \in Callers, Answered(c)
  PROVE  IInv'
<1> USE DEF IInv
<1>1. /\ exec' \in [Callers -> ExecRow] /\ exec'[c].pc = "out"
      /\ \A d \in Callers : d # c => exec'[d] = exec[d]
      /\ UNCHANGED <<toolRun, approval, taskLive, ran>>
  <2>1. Out \in ExecRow /\ Out.pc = "out"
    BY DEF ExecRow, Out
  <2> QED BY <2>1 DEF Answered, TypeOK
<1>2. TypeOK' /\ RowsInOrder' /\ AdmittedBeforeRun' /\ UndecidedRunsOnce'
  BY <1>1 DEF TypeOK, RowsInOrder, AdmittedBeforeRun, UndecidedRunsOnce
<1>3. Reservations' /\ AdmissionsKept'
  BY <1>1 DEF Reservations, AdmissionsKept, Admitted
<1>4. UndecidedOwned' /\ ToldWhatIsRecorded'
  BY <1>1 DEF UndecidedOwned, ToldWhatIsRecorded, Working
<1> QED BY <1>2, <1>3, <1>4

LEMMA InvNext == IInv /\ [Next]_vars => IInv'
<1> SUFFICES ASSUME IInv, [Next]_vars PROVE IInv'
  OBVIOUS
<1>1. CASE UNCHANGED vars
  BY <1>1 DEF IInv, TypeOK, RowsInOrder, Reservations, AdmissionsKept, Admitted,
     AdmittedBeforeRun, UndecidedOwned, Working, UndecidedRunsOnce, ToldWhatIsRecorded, vars
<1>2. ASSUME NEW c \in Callers, CallerStep(c) PROVE IInv'
  <2>1. CASE \E k \in Keys, a \in Keys \cup {NoKey} : Execute(c, k, a)
    BY <2>1, InvExecute
  <2>2. CASE Step(c)
    BY <2>2, InvCreateApproval, InvCheck, InvEnd, InvMarkStarted DEF Step
  <2>3. CASE Answered(c)
    BY <2>3, InvAnswered
  <2> QED BY <1>2, <2>1, <2>2, <2>3 DEF CallerStep
<1>3. CASE Environment
  BY <1>3, InvEnvironment
<1> QED BY <1>1, <1>2, <1>3 DEF Next

\* The invariant holds in every reachable state.
THEOREM ToolInvariance == Spec => []IInv
BY InvInit, InvNext, PTL DEF Spec

------------------------------------------------------------------------------
\* Theorems about the properties that the runs check

\* Type correctness of the rows and of the calls in progress.
THEOREM ToolTypes == Spec => []TypeOK
BY ToolInvariance, PTL DEF IInv

\* However calls, decisions and expiries interleave, a process is started only
\* for a request that policy or an approval of the same request admitted.
THEOREM Admission == Spec => []AdmittedBeforeRun
BY ToolInvariance, PTL DEF IInv

\* Reserve alone makes a request that needs no decision run at most once.
THEOREM UndecidedOnce == Spec => []UndecidedRunsOnce
BY ToolInvariance, PTL DEF IInv

\* The caller of such a request is told what the row says for good.
THEOREM ToldTruly == Spec => []ToldWhatIsRecorded
BY ToolInvariance, PTL DEF IInv

\* The status of a run that is finished, as one step may change it.
LEMMA StepTerminal ==
  ASSUME IInv, [Next]_vars, NEW k \in Keys, toolRun[k] \in Terminal
  PROVE  toolRun'[k] = toolRun[k]
<1>1. CASE UNCHANGED vars
  BY <1>1 DEF vars
<1>2. ASSUME NEW c \in Callers, CallerStep(c) PROVE toolRun'[k] = toolRun[k]
  <2> DEFINE j == exec[c].key
  <2>1. ASSUME NEW l \in Keys, NEW a \in Keys \cup {NoKey}, Execute(c, l, a)
        PROVE  toolRun'[k] = toolRun[k]
    BY <2>1 DEF Execute, Reservable, Terminal, IInv, TypeOK
  <2>2. CASE CreateApproval(c)
    BY <2>2 DEF CreateApproval, IInv, Reservations, TypeOK, Terminal
  <2>3. CASE Deny(c)
    BY <2>3 DEF Deny, Recorded, IInv, TypeOK
  <2>4. ASSUME NEW o \in {"succeeded", "failed", "retryable"}, Finish(c, o)
        PROVE  toolRun'[k] = toolRun[k]
    BY <2>4 DEF Finish, Recorded, IInv, TypeOK
  <2>5. CASE MarkStarted(c)
    BY <2>5 DEF MarkStarted, IInv, TypeOK
  <2>6. CASE LookUp(c) \/ CheckGrant(c) \/ CheckFence(c) \/ Interrupted(c) \/ Answered(c)
    BY <2>6 DEF LookUp, CheckGrant, CheckFence, Interrupted, Answered
  <2> QED BY <1>2, <2>1, <2>2, <2>3, <2>4, <2>5, <2>6 DEF CallerStep, Step
<1>3. CASE Environment
  BY <1>3 DEF Environment, DecideApproval, ExpireApproval, TaskLost
<1> QED BY <1>1, <1>2, <1>3 DEF Next

\* A finished run keeps its outcome, whichever calls of it are still going on.
THEOREM OutcomesStay == Spec => TerminalRowsStay
<1>1. IInv /\ [Next]_vars =>
        [\A k \in Keys : toolRun[k] \in Terminal => toolRun'[k] = toolRun[k]]_vars
  BY StepTerminal
<1> QED BY <1>1, ToolInvariance, PTL DEF Spec, TerminalRowsStay
==============================================================================
