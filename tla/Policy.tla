-------------------------------- MODULE Policy --------------------------------
(***************************************************************************)
(* internal/store/policies.go and internal/policy: versions of validation  *)
(* policies, the workspace's default, and the work admitted under them.    *)
(* A policy is resolved before the transaction that admits a change or a   *)
(* validation, and a validation resolves twice: versions are activated,    *)
(* retired and made the default between any two steps.                     *)
(*                                                                         *)
(* The body of a version never changes, so Pack is a constant; a request   *)
(* that fails rolls back, its idempotency record included.                 *)
(***************************************************************************)
EXTENDS FiniteSets, Naturals

CONSTANTS Refs,       \* policy versions
          PolicyOf,   \* the policy a version is of
          Pack,       \* the body of a version
          Mandatory,  \* validators no policy can remove
          Defaults,   \* DefaultValidatorRefs
          Keys,       \* idempotency keys clients choose
          Changes,    \* change proposals by idempotency key
          ChangeAsks, ValidationAsks,  \* what a proposal, a validation asks for
          Admitters,  \* concurrent requests
          None

VARIABLES version,    \* status of each version, None before it is created
          default,    \* the workspace's default version
          used,       \* idempotency key -> the lifecycle operation it did
          logged,     \* to_status of the last transition logged for a version
          admitter,   \* the progress of each admission
          change,     \* what a proposal is pinned to
          validation  \* what the validation of a change is pinned to

lifecycleVars == <<version, default, used, logged>>
vars == <<lifecycleVars, admitter, change, validation>>

Modes == {"automatic", "required", "denied"}
Kinds == {"change", "validation"}
Statuses == {"draft", "active", "retired"}
Operations == {"create", "activate", "default", "retire"}
Reindex == "reindex"

\* A key stands for the operation on the version, who asks and why apart.
RequestHash(operation, ref) == <<operation, ref>>

\* The key of a request without one.
DefaultKey(operation, ref) == <<operation, ref>>
AllKeys == Keys \cup (Operations \X Refs)

\* Scopes are operations and operation types; a zero limit becomes the default.
ValidPack(pack) ==
  /\ pack.mode \in Modes /\ IsFiniteSet(pack.rules)
  /\ pack.limit \in [Kinds -> Nat \ {0}] /\ pack.reindex \in BOOLEAN

\* A budget of 0 asks for none of one's own, the mode "" for the policy's.
ValidAsk(ask) ==
  /\ ask.policy \in Refs \cup {None} /\ ask.mode \in Modes \cup {""}
  /\ ask.budget \in Nat /\ IsFiniteSet(ask.validators)

ASSUME PolicyAssumption ==
  /\ IsFiniteSet(Refs) /\ None \notin Refs \cup Statuses
  /\ \A ref \in Refs : ValidPack(Pack[ref])
  /\ \A ask \in ChangeAsks \cup ValidationAsks : ValidAsk(ask)
  /\ \A ask \in ChangeAsks : ask.size \in Nat

Init ==
  /\ version = [ref \in Refs |-> None]
  /\ default = None
  /\ used = [key \in AllKeys |-> None]
  /\ logged = [ref \in Refs |-> None]
  /\ admitter = [a \in Admitters |-> None]
  /\ change = [c \in Changes |-> None]
  /\ validation = [c \in Changes |-> None]

------------------------------------------------------------------------------
(* The lifecycle of a version: PolicyStore.Create and lifecycle. *)

\* Every operation reserves its key and logs its transition with its effect.  A
\* key in use changes nothing: the version is returned as it is, or the request
\* conflicts.
Transition(operation, ref, key, status) ==
  /\ used[key] = None
  /\ used' = [used EXCEPT ![key] = RequestHash(operation, ref)]
  /\ logged' = [logged EXCEPT ![ref] = status]
  /\ UNCHANGED <<admitter, change, validation>>

Create(ref, key) ==
  /\ version[ref] = None
  /\ version' = [version EXCEPT ![ref] = "draft"]
  /\ Transition("create", ref, key, "draft")
  /\ UNCHANGED default

ActivatedBeside(ref) == [version EXCEPT ![ref] = "active"]

\* The other active version of the policy is retired, its default and its log
\* are left alone.
Activated(ref) ==
  [other \in Refs |->
     IF other = ref THEN "active"
     ELSE IF PolicyOf[other] = PolicyOf[ref] /\ version[other] = "active" THEN "retired"
     ELSE version[other]]

Activate(ref, key) ==
  /\ version[ref] # None
  /\ version' = Activated(ref)
  /\ Transition("activate", ref, key, "active")
  /\ UNCHANGED default

SetDefault(ref, key) ==
  /\ version[ref] = "active"
  /\ default' = ref
  /\ Transition("default", ref, key, "active")
  /\ UNCHANGED version

\* The default goes with its version, unless that was retired already.
Retire(ref, key) ==
  /\ version[ref] # None
  /\ version' = [version EXCEPT ![ref] = "retired"]
  /\ default' = IF default = ref /\ version[ref] # "retired" THEN None ELSE default
  /\ Transition("retire", ref, key, "retired")

\* Only a creation must name a key.
Lifecycle(ref, key) ==
  \/ key \in Keys /\ Create(ref, key)
  \/ key \in Keys \cup {DefaultKey("activate", ref)} /\ Activate(ref, key)
  \/ key \in Keys \cup {DefaultKey("default", ref)} /\ SetDefault(ref, key)
  \/ key \in Keys \cup {DefaultKey("retire", ref)} /\ Retire(ref, key)

------------------------------------------------------------------------------
(* Resolution *)

\* effectiveApproval: the stricter of the two, and required in a scope that
\* the pack names; without any scope, in all of them.
EffectiveApproval(mode, requireFor, asked, scopes) ==
  LET scoped == requireFor # {} /\ (scopes = {} \/ scopes \cap requireFor # {})
      policy == IF mode = "automatic" /\ scoped THEN "required" ELSE mode
  IN IF "denied" \in {mode, asked} THEN "denied"
     ELSE IF asked = "" THEN policy
     ELSE IF "required" \in {policy, asked} THEN "required"
     ELSE "automatic"

Tightened(limit, asked) == IF asked = 0 THEN limit ELSE asked

\* Resolver.Resolve under a pack: nothing when the request widens its limits,
\* or admission is denied.
UnderPack(kind, ref, ask) ==
  LET pack == Pack[ref]
      validators == pack.rules \cup Mandatory \cup ask.validators
                      \cup (IF pack.reindex THEN {Reindex} ELSE {})
      mode == EffectiveApproval(pack.mode, pack.requireFor, ask.mode, ask.types \cup {kind})
  IN IF /\ Cardinality(validators) <= pack.limit["validation"]
        /\ ask.budget <= pack.limit[kind]
        /\ mode # "denied"
     THEN {[ref |-> ref, validators |-> validators, mode |-> mode,
            budget |-> Tightened(pack.limit[kind], ask.budget)]}
     ELSE {}

\* No policy: what was asked for, the approval mode included.
Unpoliced(ask) ==
  IF ask.mode = "denied" THEN {}
  ELSE {[ref |-> None, mode |-> ask.mode, budget |-> ask.budget,
         validators |-> IF ask.validators = {} THEN Defaults ELSE ask.validators]}

\* PolicyStore.Resolve: the version that is asked for or the default, if active.
Resolved(kind, ask) ==
  LET ref == IF ask.policy = None THEN default ELSE ask.policy
  IN IF ref = None THEN Unpoliced(ask)
     ELSE IF version[ref] = "active" THEN UnderPack(kind, ref, ask)
     ELSE {}

LockAny(ref) == TRUE

\* LockActiveTx, in the transaction that admits.
LockActive(ref) == ref # None => version[ref] = "active"

------------------------------------------------------------------------------
(* Admission *)

Admitting(a, c, pc, ask, found) ==
  admitter' = [admitter EXCEPT ![a] = [change |-> c, pc |-> pc, ask |-> ask, found |-> found]]

\* RepositoryChangeStore.Propose, up to its transaction.
ProposeResolve(a, c, ask) ==
  /\ admitter[a] = None
  /\ \E found \in Resolved("change", ask) : Admitting(a, c, "insert", ask, found)
  /\ UNCHANGED <<lifecycleVars, change, validation>>

WithinBudget(ask, found) == found.budget = 0 \/ ask.size <= found.budget

\* A repeated proposal is answered with the first.
Propose(a) ==
  /\ admitter[a] # None /\ admitter[a].pc = "insert"
  /\ LET c == admitter[a].change
         ask == admitter[a].ask
         found == admitter[a].found
     IN change' = IF change[c] = None /\ WithinBudget(ask, found) /\ LockActive(found.ref)
                  THEN [change EXCEPT ![c] = [ask |-> ask, found |-> found]] ELSE change
  /\ admitter' = [admitter EXCEPT ![a] = None]
  /\ UNCHANGED <<lifecycleVars, validation>>

\* A validation that names no policy takes the change's, if that has one.
ForChange(c, ask) ==
  [policy |-> IF ask.policy = None THEN change[c].found.ref ELSE ask.policy,
   mode |-> ask.mode, types |-> ask.types, budget |-> ask.budget, validators |-> ask.validators]

\* Service.Validate resolves and makes its plan of that.
ValidateResolve(a, c, ask) ==
  /\ admitter[a] = None
  /\ change[c] # None
  /\ ask.policy # None /\ change[c].found.ref # None => ask.policy = change[c].found.ref
  /\ \E found \in Resolved("validation", ForChange(c, ask)) :
       /\ Cardinality(found.validators) <= found.budget \/ found.budget = 0
       /\ Admitting(a, c, "again", ForChange(c, ask), found)
  /\ UNCHANGED <<lifecycleVars, change, validation>>

\* The decision becomes the request.
AsResolved(ask, found) ==
  [policy |-> found.ref, mode |-> ask.mode, types |-> ask.types,
   budget |-> found.budget, validators |-> found.validators]

\* ValidationStore.Start resolves the resolved request again; the plan must be
\* of the request that results.
StartResolve(a) ==
  /\ admitter[a] # None /\ admitter[a].pc = "again"
  /\ LET c == admitter[a].change
         ask == admitter[a].ask
         found == admitter[a].found
     IN IF found \in Resolved("validation", AsResolved(ask, found)) THEN Admitting(a, c, "start", ask, found)
        ELSE admitter' = [admitter EXCEPT ![a] = None]
  /\ UNCHANGED <<lifecycleVars, change, validation>>

SameAsAnyone(ref, proposal) == TRUE

\* samePolicyReference
SamePolicy(ref, proposal) == ref = proposal.found.ref

\* The transaction of Start.
Start(a) ==
  /\ admitter[a] # None /\ admitter[a].pc = "start"
  /\ LET c == admitter[a].change
         found == admitter[a].found
     IN validation' = IF /\ validation[c] = None
                         /\ LockActive(found.ref) /\ SamePolicy(found.ref, change[c])
                      THEN [validation EXCEPT ![c] = [ask |-> admitter[a].ask, found |-> found]]
                      ELSE validation
  /\ admitter' = [admitter EXCEPT ![a] = None]
  /\ UNCHANGED <<lifecycleVars, change>>

Next ==
  \/ \E ref \in Refs, key \in AllKeys : Lifecycle(ref, key)
  \/ \E a \in Admitters, c \in Changes :
       \/ \E ask \in ChangeAsks : ProposeResolve(a, c, ask)
       \/ \E ask \in ValidationAsks : ValidateResolve(a, c, ask)
  \/ \E a \in Admitters : Propose(a) \/ StartResolve(a) \/ Start(a)

Spec == Init /\ [][Next]_vars

------------------------------------------------------------------------------
(* Properties *)

Asks == ChangeAsks \cup ValidationAsks

Decision == [ref : Refs \cup {None}, mode : Modes \cup {""}, budget : Nat,
             validators : SUBSET UNION ({Mandatory, Defaults, {Reindex}}
               \cup {Pack[ref].rules : ref \in Refs} \cup {ask.validators : ask \in Asks})]

TypeOK ==
  /\ version \in [Refs -> Statuses \cup {None}]
  /\ default \in Refs \cup {None}
  /\ used \in [AllKeys -> (Operations \X Refs) \cup {None}]
  /\ logged \in [Refs -> Statuses \cup {None}]
  /\ \A c \in Changes :
       /\ change[c] # None => change[c].ask \in ChangeAsks /\ change[c].found \in Decision
       /\ validation[c] # None => change[c] # None /\ validation[c].found \in Decision

\* However activations, retirements and default bindings interleave, a policy has
\* one active version, whose activation is the last thing logged of it, and the
\* default is a version that is active or was (an activation that retires it leaves
\* the binding).
OneActiveVersion ==
  /\ TypeOK
  /\ \A ref, other \in Refs :
       version[ref] = "active" /\ version[other] = "active" /\ PolicyOf[ref] = PolicyOf[other] => ref = other
  /\ \A ref \in Refs : version[ref] = "active" => logged[ref] = "active"
  /\ default # None => version[default] \in {"active", "retired"}

\* Retirement cannot race admission: work is pinned to a version only while that
\* is active, and what was admitted stays pinned.
AdmittedWhileActive ==
  [][\A c \in Changes :
       /\ change'[c] # change[c] =>
            change[c] = None /\ LET ref == change'[c].found.ref IN ref # None => version[ref] = "active"
       /\ validation'[c] # validation[c] =>
            validation[c] = None /\ LET ref == validation'[c].found.ref IN ref # None => version[ref] = "active"]_vars

\* Admitted work is never weaker than its policy, nor than what was asked for,
\* and a change is validated under the version it was admitted under.
NeverWeaker ==
  \A c \in Changes :
    /\ change[c] # None /\ change[c].found.ref # None =>
         LET pack == Pack[change[c].found.ref]
             ask == change[c].ask
         IN /\ ask.size <= pack.limit["change"]
            /\ "denied" \notin {pack.mode, ask.mode}
            /\ \/ "required" \in {pack.mode, ask.mode}
               \/ (ask.types \cup {"change"}) \cap pack.requireFor # {}
                 => change[c].found.mode = "required"
    /\ validation[c] # None =>
         LET ref == change[c].found.ref
             found == validation[c].found
         IN /\ found.ref = ref
            /\ ref # None => /\ Pack[ref].rules \cup Mandatory \subseteq found.validators
                             /\ Pack[ref].reindex => Reindex \in found.validators
                             /\ Cardinality(found.validators) <= Pack[ref].limit["validation"]

\* "The workspace default is one binding to an active exact version" (docs/60).
DefaultActive == default # None => version[default] = "active"

\* "status and default bindings are changed only through the policy store, which
\* also appends an audit transition in the same transaction" (docs/60).
StatusLogged == \A ref \in Refs : logged[ref] = version[ref]

\* "Rollback is activation of an earlier immutable version" (docs/60): a request to
\* activate a version that is not active, with the key the server gives it, does so.
RollbackActivates ==
  \A ref \in Refs : version[ref] = "retired" => used[DefaultKey("activate", ref)] = None

\* "A default change affects only future admissions" (docs/60): a change whose
\* policy is not retired can be validated under it.
StaysValidatable ==
  \A c \in Changes :
    change[c] # None =>
      \/ ~LockActive(change[c].found.ref)
      \/ \E ask \in ValidationAsks : \E found \in Resolved("validation", ForChange(c, ask)) :
           SamePolicy(found.ref, change[c])
==============================================================================
