---------------------------- MODULE Policy_proofs ----------------------------
(***************************************************************************)
(* Proofs about Policy for every set of versions, packs, requests and      *)
(* concurrent admissions.  The inductive invariant follows a decision from *)
(* the step that resolves it to the row that is pinned to it.              *)
(***************************************************************************)
EXTENDS Policy, TLAPS

\* A decision that names a version is one its pack allows.
DecidedUnder(kind, ask, found) ==
  found.ref # None => found.ref \in Refs /\ found \in UnderPack(kind, found.ref, ask)

\* What an admission has decided, whatever happened to the version since.
AdmitterSound(m) ==
  /\ m.change \in Changes
  /\ m.found \in Decision
  /\ m.pc = "insert" => m.ask \in ChangeAsks /\ DecidedUnder("change", m.ask, m.found)
  /\ m.pc \in {"again", "start"} => /\ change[m.change] # None
                                    /\ DecidedUnder("validation", m.ask, m.found)

AdmittersSound == \A a \in Admitters : admitter[a] # None => AdmitterSound(admitter[a])

\* What a proposal and its validation are pinned to.
PinsSound ==
  \A c \in Changes :
    /\ change[c] # None => /\ DecidedUnder("change", change[c].ask, change[c].found)
                           /\ WithinBudget(change[c].ask, change[c].found)
    /\ validation[c] # None => /\ DecidedUnder("validation", validation[c].ask, validation[c].found)
                               /\ SamePolicy(validation[c].found.ref, change[c])

TablesType ==
  /\ admitter = [a \in Admitters |-> admitter[a]]
  /\ change = [c \in Changes |-> change[c]]
  /\ validation = [c \in Changes |-> validation[c]]

\* The inductive invariant.
IInv ==
  /\ TypeOK
  /\ TablesType
  /\ OneActiveVersion
  /\ AdmittersSound
  /\ PinsSound

------------------------------------------------------------------------------
\* Decisions

\* An approval mode that is decided is one of a pack's, and never weaker than
\* what the pack or the request says.
LEMMA ApprovalStrict ==
  ASSUME NEW mode \in Modes, NEW asked \in Modes \cup {""}, NEW requireFor, NEW scopes
  PROVE  LET approval == EffectiveApproval(mode, requireFor, asked, scopes)
         IN /\ approval \in Modes
            /\ "denied" \in {mode, asked} => approval = "denied"
            /\ approval # "denied" /\ ("required" \in {mode, asked} \/ scopes \cap requireFor # {})
                 => approval = "required"
BY DEF EffectiveApproval, Modes

\* A decision under a pack names its version and has its validators.
LEMMA UnderPackSound ==
  ASSUME NEW kind \in Kinds, NEW ref \in Refs, NEW ask,
         ask.mode \in Modes \cup {""}, ask.budget \in Nat,
         NEW a \in Asks, ask.validators = a.validators,
         NEW found \in UnderPack(kind, ref, ask)
  PROVE  found \in Decision /\ DecidedUnder(kind, ask, found) /\ found.ref = ref
<1> DEFINE pack == Pack[ref]
           validators == pack.rules \cup Mandatory \cup ask.validators
                           \cup (IF pack.reindex THEN {Reindex} ELSE {})
           mode == EffectiveApproval(pack.mode, pack.requireFor, ask.mode, ask.types \cup {kind})
           budget == Tightened(pack.limit[kind], ask.budget)
<1>1. found = [ref |-> ref, validators |-> validators, mode |-> mode, budget |-> budget]
  BY Zenon DEF UnderPack
<1>2. mode \in Modes
  <2>1. pack.mode \in Modes
    BY PolicyAssumption DEF ValidPack
  <2> HIDE DEF pack
  <2> QED BY <2>1, ApprovalStrict
<1>3. budget \in Nat
  BY PolicyAssumption DEF ValidPack, Tightened
<1>4. validators = pack.rules \cup Mandatory \cup a.validators
                     \cup (IF pack.reindex THEN {Reindex} ELSE {})
  OBVIOUS
<1>5. found \in Decision
  <2> DEFINE sets == {Mandatory, Defaults, {Reindex}} \cup {Pack[r].rules : r \in Refs}
                       \cup {b.validators : b \in Asks}
  <2>1. {pack.rules, Mandatory, a.validators, {Reindex}} \subseteq sets
    OBVIOUS
  <2>2. validators \in SUBSET UNION sets
    <3> HIDE DEF sets, pack
    <3> QED BY <2>1, <1>4
  <2> HIDE DEF validators, mode, budget
  <2> QED BY <1>1, <1>2, <1>3, <2>2 DEF Decision
<1>6. found.ref = ref
  <2> HIDE DEF validators, mode, budget
  <2> QED BY <1>1
<1> QED BY <1>5, <1>6 DEF DecidedUnder

\* Without a policy the decision is the request.
LEMMA UnpolicedSound ==
  ASSUME NEW kind, NEW ask, ask.mode \in Modes \cup {""}, ask.budget \in Nat,
         NEW a \in Asks, ask.validators = a.validators,
         NEW found \in Unpoliced(ask)
  PROVE  found \in Decision /\ DecidedUnder(kind, ask, found)
<1> DEFINE validators == IF ask.validators = {} THEN Defaults ELSE ask.validators
<1>1. found = [ref |-> None, mode |-> ask.mode, budget |-> ask.budget, validators |-> validators]
  BY Zenon DEF Unpoliced
<1>2. validators \in SUBSET UNION ({Mandatory, Defaults, {Reindex}} \cup {Pack[r].rules : r \in Refs}
                                    \cup {b.validators : b \in Asks})
  OBVIOUS
<1> HIDE DEF validators
<1> QED BY <1>1, <1>2 DEF Decision, DecidedUnder

\* So does every decision that a resolution returns.
LEMMA ResolvedSound ==
  ASSUME TypeOK, NEW kind \in Kinds, NEW ask,
         ask.policy \in Refs \cup {None}, ask.mode \in Modes \cup {""}, ask.budget \in Nat,
         NEW a \in Asks, ask.validators = a.validators,
         NEW found \in Resolved(kind, ask)
  PROVE  found \in Decision /\ DecidedUnder(kind, ask, found)
<1> DEFINE ref == IF ask.policy = None THEN default ELSE ask.policy
<1>1. ref \in Refs \cup {None}
  BY DEF TypeOK
<1>2. CASE ref = None
  <2>1. found \in Unpoliced(ask)
    BY <1>2 DEF Resolved
  <2> QED BY <2>1, UnpolicedSound
<1>3. CASE ref # None
  <2>1. found \in UnderPack(kind, ref, ask)
    BY <1>3 DEF Resolved
  <2> QED BY <1>1, <1>3, <2>1, UnderPackSound
<1> QED BY <1>2, <1>3

\* The request of a validation, its policy filled in, is a request.
LEMMA ForChangeSound ==
  ASSUME TypeOK, NEW c \in Changes, change[c] # None, NEW ask \in ValidationAsks
  PROVE  LET resolved == ForChange(c, ask)
         IN /\ resolved.policy \in Refs \cup {None} /\ resolved.mode \in Modes \cup {""}
            /\ resolved.budget \in Nat /\ resolved.validators = ask.validators
BY PolicyAssumption DEF ForChange, ValidAsk, TypeOK, Decision

------------------------------------------------------------------------------
\* The invariant is inductive: one lemma for each kind of step

LEMMA InvInit == Init => IInv
BY PolicyAssumption DEF Init, IInv, TypeOK, TablesType, OneActiveVersion, AdmittersSound,
   PinsSound, Statuses

\* The lifecycle of a version touches no admission.
LEMMA InvLifecycle ==
  ASSUME IInv, NEW ref \in Refs, NEW key \in AllKeys, Lifecycle(ref, key)
  PROVE  IInv'
<1> USE DEF IInv
<1>1. UNCHANGED <<admitter, change, validation>>
  BY DEF Lifecycle, Create, Activate, SetDefault, Retire, Transition
<1>2. used' \in [AllKeys -> (Operations \X Refs) \cup {None}]
  BY DEF Lifecycle, Create, Activate, SetDefault, Retire, Transition, RequestHash, Operations, TypeOK
<1>3. /\ version' \in [Refs -> Statuses \cup {None}]
      /\ logged' \in [Refs -> Statuses \cup {None}]
      /\ default' \in Refs \cup {None}
      /\ \A r, other \in Refs :
           version'[r] = "active" /\ version'[other] = "active" /\ PolicyOf[r] = PolicyOf[other]
             => r = other
      /\ \A r \in Refs : version'[r] = "active" => logged'[r] = "active"
      /\ default' # None => version'[default'] \in {"active", "retired"}
  <2> USE PolicyAssumption DEF TypeOK, OneActiveVersion, Transition, Statuses
  <2>1. CASE Create(ref, key)
    BY <2>1 DEF Create
  <2>2. CASE Activate(ref, key)
    BY <2>2 DEF Activate, Activated
  <2>3. CASE SetDefault(ref, key)
    BY <2>3 DEF SetDefault
  <2>4. CASE Retire(ref, key)
    BY <2>4 DEF Retire
  <2> QED BY <2>1, <2>2, <2>3, <2>4 DEF Lifecycle
<1>4. TypeOK' /\ OneActiveVersion'
  BY <1>1, <1>2, <1>3 DEF TypeOK, OneActiveVersion
<1> QED BY <1>1, <1>4 DEF TablesType, AdmittersSound, AdmitterSound, PinsSound

\* An admission that records what it resolved.
LEMMA InvAdmitting ==
  ASSUME IInv, UNCHANGED <<lifecycleVars, change, validation>>,
         NEW a \in Admitters, NEW m, AdmitterSound(m) \/ m = None,
         admitter' = [admitter EXCEPT ![a] = m]
  PROVE  IInv'
<1> USE DEF IInv, lifecycleVars
<1>1. TypeOK' /\ OneActiveVersion' /\ PinsSound'
  BY DEF TypeOK, OneActiveVersion, PinsSound
<1>2. TablesType'
  BY DEF TablesType
<1>3. AdmittersSound'
  <2> SUFFICES ASSUME NEW d \in Admitters, admitter'[d] # None
               PROVE  AdmitterSound(admitter[d])'
    BY DEF AdmittersSound
  <2>1. admitter'[d] = IF d = a THEN m ELSE admitter[d]
    BY DEF TablesType
  <2>2. AdmitterSound(admitter'[d])
    BY <2>1 DEF AdmittersSound
  <2> QED BY <2>2 DEF AdmitterSound
<1> QED BY <1>1, <1>2, <1>3

LEMMA InvProposeResolve ==
  ASSUME IInv, NEW a \in Admitters, NEW c \in Changes, NEW ask \in ChangeAsks,
         ProposeResolve(a, c, ask)
  PROVE  IInv'
<1>1. PICK found \in Resolved("change", ask) : Admitting(a, c, "insert", ask, found)
  BY DEF ProposeResolve
<1>2. found \in Decision /\ DecidedUnder("change", ask, found)
  BY ResolvedSound, PolicyAssumption DEF IInv, ValidAsk, Asks, Kinds
<1>3. AdmitterSound([change |-> c, pc |-> "insert", ask |-> ask, found |-> found])
  BY <1>2 DEF AdmitterSound
<1> QED BY <1>1, <1>3, InvAdmitting DEF ProposeResolve, Admitting

LEMMA InvValidateResolve ==
  ASSUME IInv, NEW a \in Admitters, NEW c \in Changes, NEW ask \in ValidationAsks,
         ValidateResolve(a, c, ask)
  PROVE  IInv'
<1> DEFINE resolved == ForChange(c, ask)
<1>1. PICK found \in Resolved("validation", resolved) : Admitting(a, c, "again", resolved, found)
  BY DEF ValidateResolve
<1>2. found \in Decision /\ DecidedUnder("validation", resolved, found)
  BY ForChangeSound, ResolvedSound DEF IInv, ValidateResolve, Asks, Kinds
<1>3. AdmitterSound([change |-> c, pc |-> "again", ask |-> resolved, found |-> found])
  BY <1>2 DEF AdmitterSound, ValidateResolve
<1> QED BY <1>1, <1>3, InvAdmitting DEF ValidateResolve, Admitting

LEMMA InvStartResolve ==
  ASSUME IInv, NEW a \in Admitters, StartResolve(a)
  PROVE  IInv'
<1> DEFINE m == admitter[a]
           again == [change |-> m.change, pc |-> "start", ask |-> m.ask, found |-> m.found]
<1>1. AdmitterSound(m) /\ m.pc = "again"
  BY DEF IInv, AdmittersSound, StartResolve
<1>2. AdmitterSound(again)
  BY <1>1 DEF AdmitterSound
<1>3. \/ admitter' = [admitter EXCEPT ![a] = again]
      \/ admitter' = [admitter EXCEPT ![a] = None]
  BY DEF StartResolve, Admitting
<1> HIDE DEF again
<1> QED BY <1>2, <1>3, InvAdmitting DEF StartResolve

\* The transaction that admits pins a row to a decision, or leaves all as it was.
LEMMA InvPropose ==
  ASSUME IInv, NEW a \in Admitters, Propose(a)
  PROVE  IInv'
<1> DEFINE m == admitter[a]
<1> USE DEF IInv, lifecycleVars
<1>1. AdmitterSound(m) /\ m.pc = "insert"
  BY DEF AdmittersSound, Propose
<1>2. UNCHANGED <<lifecycleVars, validation>> /\ admitter' = [admitter EXCEPT ![a] = None]
  BY DEF Propose
<1>3. CASE change' = change
  BY <1>2, <1>3, InvAdmitting
<1>4. CASE /\ change[m.change] = None /\ WithinBudget(m.ask, m.found)
           /\ change' = [change EXCEPT ![m.change] = [ask |-> m.ask, found |-> m.found]]
  <2>1. \A c \in Changes : change'[c] = IF c = m.change THEN [ask |-> m.ask, found |-> m.found]
                                                        ELSE change[c]
    BY <1>1, <1>4 DEF TablesType, AdmitterSound
  <2>2. TypeOK' /\ OneActiveVersion'
    <3>1. validation[m.change] = None
      BY <1>1, <1>4 DEF TypeOK, AdmitterSound
    <3> QED BY <1>1, <1>2, <2>1, <3>1 DEF TypeOK, OneActiveVersion, AdmitterSound
  <2>3. TablesType'
    BY <1>2, <1>4 DEF TablesType
  <2>4. AdmittersSound'
    <3> SUFFICES ASSUME NEW d \in Admitters, admitter'[d] # None
                 PROVE  AdmitterSound(admitter[d])'
      BY DEF AdmittersSound
    <3>1. d # a /\ admitter'[d] = admitter[d]
      BY <1>2 DEF TablesType
    <3>2. AdmitterSound(admitter[d])
      BY <3>1 DEF AdmittersSound
    <3>3. admitter[d].pc \in {"again", "start"} => change'[admitter[d].change] # None
      BY <3>2, <1>4, <2>1 DEF AdmitterSound
    <3> QED BY <3>1, <3>2, <3>3 DEF AdmitterSound
  <2>5. PinsSound'
    BY <1>1, <1>2, <1>4, <2>1 DEF PinsSound, AdmitterSound, TypeOK
  <2> QED BY <2>2, <2>3, <2>4, <2>5
<1> QED BY <1>3, <1>4 DEF Propose

LEMMA InvStart ==
  ASSUME IInv, NEW a \in Admitters, Start(a)
  PROVE  IInv'
<1> DEFINE m == admitter[a]
<1> USE DEF IInv, lifecycleVars
<1>1. AdmitterSound(m) /\ m.pc = "start"
  BY DEF AdmittersSound, Start
<1>2. UNCHANGED <<lifecycleVars, change>> /\ admitter' = [admitter EXCEPT ![a] = None]
  BY DEF Start
<1>3. CASE validation' = validation
  BY <1>2, <1>3, InvAdmitting
<1>4. CASE /\ SamePolicy(m.found.ref, change[m.change])
           /\ validation' = [validation EXCEPT ![m.change] = [ask |-> m.ask, found |-> m.found]]
  <2>1. \A c \in Changes :
          validation'[c] = IF c = m.change THEN [ask |-> m.ask, found |-> m.found] ELSE validation[c]
    BY <1>1, <1>4 DEF TablesType, AdmitterSound
  <2>2. TypeOK' /\ OneActiveVersion'
    BY <1>1, <1>2, <2>1 DEF TypeOK, OneActiveVersion, AdmitterSound
  <2>3. TablesType'
    BY <1>2, <1>4 DEF TablesType
  <2>4. AdmittersSound'
    BY <1>2 DEF AdmittersSound, AdmitterSound, TablesType
  <2>5. PinsSound'
    BY <1>1, <1>2, <1>4, <2>1 DEF PinsSound, AdmitterSound
  <2> QED BY <2>2, <2>3, <2>4, <2>5
<1> QED BY <1>3, <1>4 DEF Start

LEMMA InvNext == IInv /\ [Next]_vars => IInv'
<1> SUFFICES ASSUME IInv, [Next]_vars PROVE IInv'
  OBVIOUS
<1>1. CASE Next
  BY <1>1, InvLifecycle, InvProposeResolve, InvValidateResolve, InvPropose, InvStartResolve, InvStart
  DEF Next
<1>2. CASE UNCHANGED vars
  BY <1>2 DEF vars, lifecycleVars, IInv, TypeOK, TablesType, OneActiveVersion, AdmittersSound,
     AdmitterSound, PinsSound
<1> QED BY <1>1, <1>2

------------------------------------------------------------------------------
\* The theorems

THEOREM PolicyInvariance == Spec => []IInv
<1>1. Init => IInv
  BY InvInit
<1>2. IInv /\ [Next]_vars => IInv'
  BY InvNext
<1> QED BY <1>1, <1>2, PTL DEF Spec

\* Activation retires the other active version under the policy's lock, so a
\* policy never has two, however the lifecycle operations interleave.  The default
\* is a version that is active, or was and has been retired since.
THEOREM ActiveUnique == Spec => []OneActiveVersion
<1>1. IInv => OneActiveVersion
  BY DEF IInv
<1> QED BY <1>1, PolicyInvariance, PTL

\* What the two-step resolution pins is never weaker than the pack and the
\* request it was resolved from, and a validation is under the change's version.
THEOREM AdmissionStrict == Spec => []NeverWeaker
<1>1. IInv => NeverWeaker
  <2> SUFFICES ASSUME IInv, NEW c \in Changes PROVE
         /\ change[c] # None /\ change[c].found.ref # None =>
              LET pack == Pack[change[c].found.ref]
                  ask == change[c].ask
              IN /\ ask.size <= pack.limit["change"]
                 /\ "denied" \notin {pack.mode, ask.mode}
                 /\ \/ "required" \in {pack.mode, ask.mode}
                    \/ (ask.types \cup {"change"}) \cap pack.requireFor # {}
                      => change[c].found.mode = "required"
         /\ validation[c] # None =>
              LET ref == change[c].found.ref
                  found == validation[c].found
              IN /\ found.ref = ref
                 /\ ref # None => /\ Pack[ref].rules \cup Mandatory \subseteq found.validators
                                  /\ Pack[ref].reindex => Reindex \in found.validators
                                  /\ Cardinality(found.validators) <= Pack[ref].limit["validation"]
    BY DEF NeverWeaker
  <2>1. ASSUME change[c] # None, change[c].found.ref # None
        PROVE  LET pack == Pack[change[c].found.ref]
                   ask == change[c].ask
               IN /\ ask.size <= pack.limit["change"]
                  /\ "denied" \notin {pack.mode, ask.mode}
                  /\ \/ "required" \in {pack.mode, ask.mode}
                     \/ (ask.types \cup {"change"}) \cap pack.requireFor # {}
                       => change[c].found.mode = "required"
    <3> DEFINE ref == change[c].found.ref
               found == change[c].found
               ask == change[c].ask
    <3>1. /\ ref \in Refs /\ ask \in ChangeAsks
          /\ found \in UnderPack("change", ref, ask) /\ WithinBudget(ask, found)
      BY <2>1 DEF IInv, PinsSound, DecidedUnder, TypeOK
    <3>2. ValidPack(Pack[ref]) /\ ValidAsk(ask) /\ ask.size \in Nat
      BY <3>1, PolicyAssumption
    <3> HIDE DEF ref, found, ask
    <3>3. /\ found.mode = EffectiveApproval(Pack[ref].mode, Pack[ref].requireFor, ask.mode,
                                             ask.types \cup {"change"})
          /\ found.mode # "denied"
      BY <3>1 DEF UnderPack
    <3>4. /\ "denied" \notin {Pack[ref].mode, ask.mode}
          /\ \/ "required" \in {Pack[ref].mode, ask.mode}
             \/ (ask.types \cup {"change"}) \cap Pack[ref].requireFor # {}
               => found.mode = "required"
      <4>1. Pack[ref].mode \in Modes /\ ask.mode \in Modes \cup {""}
        BY <3>2 DEF ValidPack, ValidAsk
      <4> DEFINE mode == Pack[ref].mode
                 scopes == ask.types \cup {"change"}
                 requireFor == Pack[ref].requireFor
      <4> HIDE DEF mode, scopes, requireFor
      <4> QED BY <3>3, <4>1, ApprovalStrict DEF mode, scopes, requireFor
    <3>5. /\ found.budget = Tightened(Pack[ref].limit["change"], ask.budget)
          /\ ask.budget <= Pack[ref].limit["change"]
      BY <3>1 DEF UnderPack
    <3>6. Pack[ref].limit["change"] \in Nat \ {0} /\ ask.budget \in Nat
      BY <3>2 DEF ValidPack, ValidAsk, Kinds
    <3>7. ask.size <= Pack[ref].limit["change"]
      BY <3>1, <3>2, <3>5, <3>6 DEF Tightened, WithinBudget
    <3> QED BY <3>4, <3>7 DEF ref, found, ask
  <2>2. ASSUME validation[c] # None
        PROVE  LET ref == change[c].found.ref
                   found == validation[c].found
               IN /\ found.ref = ref
                  /\ ref # None => /\ Pack[ref].rules \cup Mandatory \subseteq found.validators
                                   /\ Pack[ref].reindex => Reindex \in found.validators
                                   /\ Cardinality(found.validators) <= Pack[ref].limit["validation"]
    <3>1. validation[c].found.ref = change[c].found.ref
      BY <2>2 DEF IInv, PinsSound, SamePolicy
    <3>2. validation[c].found.ref # None =>
            validation[c].found \in UnderPack("validation", validation[c].found.ref, validation[c].ask)
      BY <2>2 DEF IInv, PinsSound, DecidedUnder
    <3>3. ASSUME NEW ref, NEW ask, NEW found \in UnderPack("validation", ref, ask)
          PROVE  /\ Pack[ref].rules \cup Mandatory \subseteq found.validators
                 /\ Pack[ref].reindex => Reindex \in found.validators
                 /\ Cardinality(found.validators) <= Pack[ref].limit["validation"]
      BY <3>3 DEF UnderPack
    <3> QED BY <3>1, <3>2, <3>3
  <2> QED BY <2>1, <2>2
<1> QED BY <1>1, PolicyInvariance, PTL

\* LockActiveTx and the row are one transaction: nothing is pinned to a version
\* that is not active at that moment, and what is pinned stays.
THEOREM PinnedWhileActive == Spec => AdmittedWhileActive
<1> DEFINE Step ==
      \A c \in Changes :
        /\ change'[c] # change[c] =>
             change[c] = None /\ LET ref == change'[c].found.ref IN ref # None => version[ref] = "active"
        /\ validation'[c] # validation[c] =>
             validation[c] = None /\ LET ref == validation'[c].found.ref IN ref # None => version[ref] = "active"
<1>1. IInv /\ [Next]_vars => [Step]_vars
  <2> SUFFICES ASSUME IInv, [Next]_vars, NEW c \in Changes
               PROVE  /\ change'[c] # change[c] =>
                           change[c] = None /\ LET ref == change'[c].found.ref IN ref # None => version[ref] = "active"
                      /\ validation'[c] # validation[c] =>
                           validation[c] = None /\ LET ref == validation'[c].found.ref IN ref # None => version[ref] = "active"
    OBVIOUS
  <2>1. ASSUME NEW a \in Admitters, Propose(a) PROVE
          /\ validation' = validation
          /\ change'[c] # change[c] =>
               change[c] = None /\ (change'[c].found.ref # None => version[change'[c].found.ref] = "active")
    BY <2>1 DEF Propose, LockActive, IInv, TablesType
  <2>2. ASSUME NEW a \in Admitters, Start(a) PROVE
          /\ change' = change
          /\ validation'[c] # validation[c] =>
               validation[c] = None /\ (validation'[c].found.ref # None => version[validation'[c].found.ref] = "active")
    BY <2>2 DEF Start, LockActive, IInv, TablesType
  <2>3. CASE UNCHANGED <<change, validation>>
    BY <2>3
  <2> QED
    BY <2>1, <2>2, <2>3 DEF Next, vars, Lifecycle, Create, Activate, SetDefault, Retire, Transition,
       ProposeResolve, ValidateResolve, StartResolve
<1> QED BY <1>1, PolicyInvariance, PTL DEF Spec, AdmittedWhileActive
==============================================================================
