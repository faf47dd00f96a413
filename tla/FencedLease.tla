----------------------------- MODULE FencedLease -----------------------------
(***************************************************************************)
(* The abstract contract of every fenced lease in Fornix: task execution   *)
(* leases (internal/store/tasks.go), projection consumer leases            *)
(* (internal/store/leases.go) and agent-run worker leases                  *)
(* (internal/store/agent_run_scheduler.go).  One row, one current owner,   *)
(* one fence that only grows; a lease that is live is never handed to      *)
(* anybody else, and an epoch that has ended never comes back to life.     *)
(* Whether the row is live is decided by the database clock, which appears *)
(* here as the step Expire: the lease duration is chosen by the caller, so *)
(* a live lease may run out at any moment.                                 *)
(***************************************************************************)
EXTENDS Naturals

CONSTANTS Owners,     \* the processes that may own the lease
          NoOwner     \* the owner of a row that was never acquired

VARIABLES fence,      \* epoch of the current grant, 0 before the first one
          owner,      \* owner of the current epoch
          state       \* "none", "active", "expired" or "released"

vars == <<fence, owner, state>>

TypeOK ==
  /\ fence \in Nat
  /\ owner \in Owners \cup {NoOwner}
  /\ state \in {"none", "active", "expired", "released"}

Init ==
  /\ fence = 0
  /\ owner = NoOwner
  /\ state = "none"

\* A row that is not live is granted to o under the next fence.
Grant(o) ==
  /\ state # "active"
  /\ fence' = fence + 1
  /\ owner' = o
  /\ state' = "active"

\* The database clock passes lease_until.
Expire ==
  /\ state = "active"
  /\ state' = "expired"
  /\ UNCHANGED <<fence, owner>>

\* The epoch ends: the row is kept, marked released.
Release ==
  /\ state \in {"active", "expired"}
  /\ state' = "released"
  /\ UNCHANGED <<fence, owner>>

Next == (\E o \in Owners : Grant(o)) \/ Expire \/ Release

Spec == Init /\ [][Next]_vars
==============================================================================
