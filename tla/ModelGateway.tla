----------------------------- MODULE ModelGateway -----------------------------
(***************************************************************************)
(* internal/model/gateway.go over the ledger of internal/store/            *)
(* model_calls.go: every model request has a durable identity, the ledger  *)
(* row is reserved before the provider is called and finished after it,    *)
(* and a request that comes again is answered from the ledger.             *)
(*                                                                         *)
(* A key stands for a request with its idempotency key and request id; the *)
(* agent loop never sends two different requests under one key.  What a    *)
(* provider answers is one of Responses or a failure, of which the ledger  *)
(* keeps whether it may be retried.                                        *)
(***************************************************************************)
EXTENDS Naturals

CONSTANTS Callers,       \* concurrent calls of Complete
          Keys,          \* model request identities
          Responses,     \* the responses a provider may give
          MaxAttempts    \* RetryPolicy.MaxAttempts

VARIABLES call,      \* fornix.model_calls
          gate,      \* the progress of each caller's Complete
          invoked    \* history: provider calls made for a key

Failures == {"retryable", "fatal"}

CallRow == [status : {"absent", "running", "succeeded", "failed"},
            result : Responses \cup Failures \cup {"none"}]

\* ready: row reserved, provider: in the provider, done: Complete returned.
GateRow == [pc : {"out", "ready", "provider", "done"}, key : Keys \cup {0},
            tries : 0..MaxAttempts, result : Responses \cup Failures \cup {"none", "error"}]

Out == [pc |-> "out", key |-> 0, tries |-> 0, result |-> "none"]

Init ==
  /\ call = [k \in Keys |-> [status |-> "absent", result |-> "none"]]
  /\ gate = [c \in Callers |-> Out]
  /\ invoked = [k \in Keys |-> 0]

TypeOK ==
  /\ call \in [Keys -> CallRow]
  /\ gate \in [Callers -> GateRow]
  /\ invoked \in [Keys -> Nat]

Returned(c, result) == [gate EXCEPT ![c] = [@ EXCEPT !.pc = "done", !.result = result]]

\* begin and ModelCallStore.Start: the insert either reserves the key, or finds a
\* finished call to replay, or finds one in flight (ErrModelCallInFlight), or is
\* not made because the request is invalid or the database refuses.
Begin(c, k) ==
  /\ gate[c].pc = "out"
  /\ LET entered == [Out EXCEPT !.key = k] IN
     \/ /\ call[k].status = "absent"
        /\ call' = [call EXCEPT ![k] = [@ EXCEPT !.status = "running"]]
        /\ gate' = [gate EXCEPT ![c] = [entered EXCEPT !.pc = "ready"]]
     \/ /\ call[k].status \in {"succeeded", "failed"}
        /\ gate' = [gate EXCEPT ![c] = [entered EXCEPT !.pc = "done", !.result = call[k].result]]
        /\ UNCHANGED call
     \/ /\ call[k].status \in {"absent", "running"}
        /\ gate' = [gate EXCEPT ![c] = [entered EXCEPT !.pc = "done", !.result = "error"]]
        /\ UNCHANGED call
  /\ UNCHANGED invoked

\* ModelCallStore.Attempt, then the provider is called.
Attempt(c) ==
  /\ gate[c].pc = "ready"
  /\ call[gate[c].key].status = "running"
  /\ gate' = [gate EXCEPT ![c] = [@ EXCEPT !.pc = "provider", !.tries = gate[c].tries + 1]]
  /\ invoked' = [invoked EXCEPT ![gate[c].key] = @ + 1]
  /\ UNCHANGED call

\* The provider fails in a way the retry policy allows to try again.
RetryAttempt(c) ==
  /\ gate[c].pc = "provider"
  /\ gate[c].tries < MaxAttempts
  /\ gate' = [gate EXCEPT ![c] = [@ EXCEPT !.pc = "ready"]]
  /\ UNCHANGED <<call, invoked>>

\* finishSuccess or finishError records the outcome and Complete returns it.  A
\* call whose attempt could not be recorded is finished as failed.  A failure may
\* be retryable and still not be one that the policy retries.
Finish(c, result) ==
  /\ gate[c].pc = "provider" \/ (gate[c].pc = "ready" /\ result \in Failures)
  /\ call[gate[c].key].status = "running"
  /\ call' = [call EXCEPT ![gate[c].key] =
       [status |-> IF result \in Responses THEN "succeeded" ELSE "failed", result |-> result]]
  /\ gate' = Returned(c, result)
  /\ UNCHANGED invoked

\* The context of the call ends (budget timeout) or the ledger cannot be written:
\* Finish runs under the same context, so nothing is recorded and Complete
\* returns an error that is not a FailureError.
Unrecorded(c) ==
  /\ gate[c].pc \in {"ready", "provider"}
  /\ gate' = Returned(c, "error")
  /\ UNCHANGED <<call, invoked>>

Step(c) ==
  \/ Attempt(c)
  \/ RetryAttempt(c)
  \/ \E result \in Responses \cup Failures : Finish(c, result)
  \/ Unrecorded(c)

\* One provider call sequence per key: at most one caller is between Start and
\* Finish of a key, and the retry policy bounds what it may invoke, whoever else
\* sends the same request.
OneExecutorPerKey ==
  \A k \in Keys :
    /\ invoked[k] <= MaxAttempts
    /\ \A c, d \in Callers :
         gate[c].pc \in {"ready", "provider"} /\ gate[d].pc \in {"ready", "provider"}
           /\ gate[c].key = k /\ gate[d].key = k => c = d

===============================================================================
