------------------------ MODULE RepositoryChange_proofs ------------------------
(***************************************************************************)
(* Proofs about RepositoryChange for every set of proposals, packets,      *)
(* paths and concurrent calls, however often they are cut off.             *)
(*                                                                         *)
(* The invariant follows what the calls of one application have done, and  *)
(* why a call that finds the first operation undone finds all of them      *)
(* undone: operations take effect in order, and where nobody interferes,   *)
(* the files show the first of them.                                       *)
(***************************************************************************)
EXTENDS RepositoryChange, FiniteSetTheorems, TLAPS

Ops(p) == proposal[p].ops
Busy == {"check", "write", "verify", "finish"}

\* A packet names no path twice, and what it reads was there when it was proposed.
PacketSound(row) ==
  \A i \in DOMAIN row.ops :
    /\ row.ops[i].type # "create" => row.source[row.ops[i].path] # NoFile
    /\ \A j \in DOMAIN row.ops : i # j =>
         {row.ops[i].path, row.ops[i].dest} \cap {row.ops[j].path, row.ops[j].dest} = {}

RowsPlanned == \A p \in Proposals : proposal[p] # None => PacketSound(proposal[p])

\* One application per proposal, with the proposal's status.
ApplicationsAgree ==
  /\ \A k \in Applications : application[k] # None =>
       /\ proposal[application[k].of] # None
       /\ proposal[application[k].of].status = application[k].status
  /\ \A k, l \in Applications :
       application[k] # None /\ application[l] # None /\ application[k].of = application[l].of => k = l
  /\ \A p \in Proposals : proposal[p] # None /\ proposal[p].status \in {"applying"} \cup Terminal =>
       \E k \in Applications : application[k] # None /\ application[k].of = p

\* The decisions on a proposal that has not been rejected.
DecisionsFollowed ==
  /\ \A a \in Approvals : approval[a] # None => proposal[approval[a].of] # None
  /\ \A p \in Proposals : proposal[p] # None =>
       /\ proposal[p].status = "awaiting_approval" =>
            /\ proposal[p].mode # "automatic"
            /\ \A a \in Approvals : approval[a] # None => approval[a].of # p
       /\ proposal[p].status \in {"approved", "applying"} \cup Terminal =>
            IF proposal[p].mode = "automatic"
            THEN \A a \in Approvals : approval[a] # None => approval[a].of # p
            ELSE /\ \E a \in Approvals : approval[a] # None /\ approval[a].of = p
                 /\ \A a \in Approvals : approval[a] # None /\ approval[a].of = p =>
                      approval[a].decision = "approved"

\* Operations take effect in order, and only those of an admitted packet.
EffectsInOrder ==
  \A p \in Proposals : effects[p] # {} =>
    /\ proposal[p] # None
    /\ proposal[p].status \in {"applying"} \cup Terminal
    /\ effects[p] \subseteq DOMAIN Ops(p)
    /\ 1 \in effects[p]

\* What a call knows of the effects of its application.
DriveSound(m) ==
  LET p == application[m.app].of IN
  /\ application[m.app] # None
  /\ 1..m.done \subseteq effects[p]
  /\ m.done <= Len(Ops(p))
  /\ m.pc \in {"check", "write"} => m.done < Len(Ops(p))
  /\ m.pc = "verify" => m.done = Len(Ops(p))
  /\ m.pc = "finish" => /\ m.outcome \in Terminal
                        /\ m.outcome = "applied" => effects[p] = DOMAIN Ops(p)
                        /\ m.outcome = "recovery_required" => effects[p] # {}

DrivesSound == \A d \in Drives : drive[d] # NoDrive => DriveSound(drive[d])

\* A call is alone with its application unless the two are marked, and nobody
\* is left when the application has ended.
DrivesAlone ==
  \A k \in Applications \ shared : \A d \in Drives :
    drive[d].pc \in Busy /\ drive[d].app = k =>
      /\ application[k].status = "applying"
      /\ \A e \in Drives : drive[e].pc \in Busy /\ drive[e].app = k => e = d

\* Content that is not the first was written by some packet.
NewContent ==
  edits = 0 =>
    \A x \in Paths :
      /\ tree[x] # NoFile /\ tree[x].content = "new" =>
           \E q \in Proposals : effects[q] # {} /\ x \in Affected(Ops(q))
      /\ \A p \in Proposals : proposal[p] # None =>
           LET file == proposal[p].source[x]
           IN file # NoFile /\ file.content = "new" =>
                \E q \in Proposals \ {p} : effects[q] # {} /\ x \in Affected(Ops(q))

\* The files show what an operation did: a second execution would conflict.
Shown(op, now) ==
  /\ op.type = "create" => now[op.path] # NoFile
  /\ op.type = "replace" => now[op.path] = NoFile \/ now[op.path].content = "new"
  /\ op.type \in {"delete", "rename"} => now[op.path] = NoFile

FirstShown ==
  \A k \in Applications : application[k] # None /\ Undisturbed(k) =>
    LET p == application[k].of IN
    1 \in effects[p] => Shown(Ops(p)[1], tree)

Repeatable(p) == effects[p] = {} \/ Ops(p)[1].type = "chmod"

\* So a call that fails at the first operation has changed nothing.
DriveClean(m) ==
  Undisturbed(m.app) =>
    /\ m.pc = "write" /\ m.done = 0 => Repeatable(application[m.app].of)
    /\ m.pc = "finish" /\ m.outcome = "failed" => Repeatable(application[m.app].of)

FailuresClean ==
  /\ \A d \in Drives : drive[d] # NoDrive => DriveClean(drive[d])
  /\ \A k \in Applications : application[k] # None /\ Undisturbed(k) =>
       (application[k].status = "failed" => Repeatable(application[k].of))

\* The outcomes that are recorded.
OutcomesSound ==
  \A k \in Applications : application[k] # None =>
    LET p == application[k].of IN
    /\ application[k].status = "applied" => effects[p] = DOMAIN Ops(p)
    /\ application[k].status = "recovery_required" => effects[p] # {}

ReceiptsSound == \A k \in receipt : application[k] # None /\ application[k].status = "applied"

\* The inductive invariant.
IInv ==
  /\ TypeOK
  /\ RowsPlanned
  /\ ApplicationsAgree
  /\ DecisionsFollowed
  /\ EffectsInOrder
  /\ DrivesSound
  /\ DrivesAlone
  /\ NewContent
  /\ FirstShown
  /\ FailuresClean
  /\ OutcomesSound
  /\ ReceiptsSound

------------------------------------------------------------------------------
\* Lemmas about packets and what an operation writes

LEMMA PacketFacts ==
  ASSUME NEW ops \in Packets
  PROVE  /\ ops \in Seq(Operations) /\ Len(ops) \in Nat \ {0}
         /\ DOMAIN ops = 1..Len(ops) /\ 1 \in DOMAIN ops
         /\ \A i \in DOMAIN ops : /\ ops[i] \in Operations
                                  /\ {ops[i].path, ops[i].dest} \subseteq Affected(ops)
         /\ Affected(ops) \subseteq Paths
<1>1. /\ ops \in Seq(Operations) /\ Len(ops) \in Nat \ {0}
      /\ DOMAIN ops = 1..Len(ops) /\ 1 \in DOMAIN ops
  BY RepositoryChangeAssumption
<1>2. \A i \in DOMAIN ops : ops[i] \in Operations
  BY <1>1
<1>3. \A i \in DOMAIN ops : {ops[i].path, ops[i].dest} \subseteq Affected(ops)
  BY DEF Affected
<1>4. Affected(ops) \subseteq Paths
  BY <1>2 DEF Affected, Operations
<1> QED BY <1>1, <1>2, <1>3, <1>4

LEMMA FileFacts ==
  /\ \A c \in Contents, e \in BOOLEAN : [content |-> c, exec |-> e] \in Files
  /\ \A f \in Files : f.content \in Contents /\ f.exec \in BOOLEAN
BY DEF Files

\* An operation touches its own paths only, leaves a tree, and shows.
LEMMA WrittenFacts ==
  ASSUME NEW op \in Operations, NEW source \in Trees, NEW now \in Trees, Possible(op, now),
         op.type # "create" => source[op.path] # NoFile
  PROVE  /\ Written(op, source, now) \in Trees
         /\ \A x \in Paths : x \notin {op.path, op.dest} => Written(op, source, now)[x] = now[x]
         /\ Shown(op, Written(op, source, now))
<1>a. /\ \A e \in BOOLEAN : [content |-> "new", exec |-> e] \in Files
      /\ \A f \in Files, e \in BOOLEAN : [content |-> f.content, exec |-> e] \in Files
      /\ \A f \in Files : f.exec \in BOOLEAN /\ f # NoFile
  BY FileFacts, RepositoryChangeAssumption DEF Contents
<1>b. [content |-> "new", exec |-> FALSE] \in Files /\ (\A f \in Files : [content |-> f.content, exec |-> TRUE] \in Files)
  BY <1>a, Zenon
<1> USE <1>a, <1>b DEF Operations, Trees, Written, Possible, Shown
<1>1. CASE op.type = "create"
  BY <1>1
<1>2. CASE op.type = "replace"
  BY <1>2
<1>3. CASE op.type = "delete"
  BY <1>3
<1>4. CASE op.type = "rename"
  BY <1>4
<1>5. CASE op.type = "chmod"
  BY <1>5
<1> QED BY <1>1, <1>2, <1>3, <1>4, <1>5

\* An operation whose effect shows fails its precondition, a change of mode apart.
LEMMA ShownConflicts ==
  ASSUME NEW op \in Operations, NEW source \in Trees, NEW now \in Trees,
         op.type # "create" => source[op.path] # NoFile /\ source[op.path].content # "new",
         Expected(op, source, now), Shown(op, now)
  PROVE  op.type = "chmod"
BY DEF Operations, Expected, Shown

------------------------------------------------------------------------------
\* The invariant is inductive: one lemma for each kind of step

LEMMA InvInit == Init => IInv
<1> SUFFICES ASSUME Init PROVE IInv
  OBVIOUS
<1> USE RepositoryChangeAssumption DEF Init
<1>1. TypeOK
  <2>1. tree \in Trees
    <3>1. [content |-> "old", exec |-> FALSE] \in Files
      BY Zenon, FileFacts DEF Contents
    <3> QED BY <3>1 DEF Trees
  <2> QED BY <2>1 DEF TypeOK
<1>2. NewContent
  BY DEF NewContent
<1> QED BY <1>1, <1>2 DEF IInv, RowsPlanned, ApplicationsAgree, DecisionsFollowed, EffectsInOrder,
       DrivesSound, DrivesAlone, FirstShown, FailuresClean, OutcomesSound, ReceiptsSound, NoDrive, Busy

\* Interference is never undone.
LEMMA UndisturbedBefore ==
  ASSUME TypeOK, EffectsInOrder, NEW k \in Applications,
         application'[k].of = application[k].of, edits' = 0 => edits = 0, shared \subseteq shared',
         application[k].of \in Proposals, proposal[application[k].of] # None,
         \A q \in Proposals : effects[q] \subseteq effects'[q],
         \A q \in Proposals : proposal[q] # None => proposal'[q].ops = proposal[q].ops,
         Undisturbed(k)'
  PROVE  Undisturbed(k)
BY DEF Undisturbed, EffectsInOrder

\* A row that has not changed its proposal or its drives.
LEMMA OfProposal ==
  ASSUME TypeOK, NEW k \in Applications, application[k] # None
  PROVE  application[k].of \in Proposals /\ application[k] \in ApplicationRow
BY DEF TypeOK, ApplicationRow

LEMMA OpsOf ==
  ASSUME TypeOK, NEW p \in Proposals, proposal[p] # None
  PROVE  proposal[p] \in ProposalRow /\ Ops(p) \in Packets /\ proposal[p].source \in Trees
BY DEF TypeOK, ProposalRow, Ops

\* A call that only moves on, or ends: nothing but its own row, and perhaps a
\* receipt, changes.
LEMMA InvDriveMove ==
  ASSUME IInv, NEW d \in Drives, NEW m, drive' = [drive EXCEPT ![d] = m],
         \/ m = NoDrive
         \/ /\ m \in DriveRow /\ DriveSound(m) /\ DriveClean(m)
            /\ m.pc \in Busy => drive[d].pc \in Busy /\ drive[d].app = m.app,
         UNCHANGED <<proposal, approval, application, tree, lease, edits, effects, shared>>,
         crashes' \in 0..MaxCrashes,
         receipt' \subseteq Applications,
         \A k \in receipt' : application[k] # None /\ application[k].status = "applied"
  PROVE  IInv'
<1> USE DEF IInv
<1>1. drive' \in [Drives -> DriveRow \cup {NoDrive}] /\ \A e \in Drives : drive'[e] = IF e = d THEN m ELSE drive[e]
  BY DEF TypeOK
<1>2. TypeOK'
  BY <1>1 DEF TypeOK
<1>3. RowsPlanned' /\ ApplicationsAgree' /\ DecisionsFollowed' /\ EffectsInOrder'
  BY DEF RowsPlanned, ApplicationsAgree, DecisionsFollowed, EffectsInOrder, Ops
<1>4. DrivesSound'
  <2> SUFFICES ASSUME NEW e \in Drives, drive'[e] # NoDrive PROVE DriveSound(drive[e])'
    BY DEF DrivesSound
  <2>1. DriveSound(drive'[e])
    BY <1>1 DEF DrivesSound
  <2> QED BY <2>1 DEF DriveSound, Ops
<1>5. DrivesAlone'
  BY <1>1 DEF DrivesAlone, NoDrive, Busy
<1>6. NewContent' /\ FirstShown'
  BY DEF NewContent, FirstShown, Undisturbed, Ops
<1>7. FailuresClean'
  <2>1. ASSUME NEW e \in Drives, drive'[e] # NoDrive PROVE DriveClean(drive[e])'
    <3>1. DriveClean(drive'[e])
      BY <1>1, <2>1 DEF FailuresClean
    <3> QED BY <3>1 DEF DriveClean, Undisturbed, Repeatable, Ops
  <2>2. \A k \in Applications : Undisturbed(k)' = Undisturbed(k)
    BY DEF Undisturbed
  <2>3. \A p \in Proposals : Repeatable(p)' = Repeatable(p)
    BY DEF Repeatable, Ops
  <2> QED BY <2>1, <2>2, <2>3, OfProposal DEF FailuresClean
<1>8. OutcomesSound' /\ ReceiptsSound'
  BY DEF OutcomesSound, ReceiptsSound, Ops
<1> QED BY <1>2, <1>3, <1>4, <1>5, <1>6, <1>7, <1>8

\* A new proposal: nothing was done for it yet, and what its snapshot shows of
\* other packets is theirs.
LEMMA InvPropose ==
  ASSUME IInv, NEW p \in Proposals, NEW ops \in Packets, NEW mode \in ModesAllowed,
         NEW f \in 0..lease.fence, Propose(p, ops, mode, f)
  PROVE  IInv'
<1> DEFINE row == NewProposal(ops, mode, f)
<1> USE DEF IInv
<1>1. /\ proposal[p] = None /\ Plannable(ops) /\ proposal' = [proposal EXCEPT ![p] = row]
      /\ UNCHANGED <<approval, application, receipt, tree, drive, lease, edits, crashes, effects, shared>>
  BY DEF Propose
<1>2. row \in ProposalRow /\ row.ops = ops /\ row.source = Snapshot(ops) /\ row.mode = mode
      /\ row.status = InitialStatus(mode)
  <2>1. InitialStatus(mode) \in {"awaiting_approval", "approved", "rejected"}
    BY RepositoryChangeAssumption DEF InitialStatus
  <2>2. Snapshot(ops) \in Trees
    BY DEF Snapshot, Trees, TypeOK
  <2>3. f \in 0..MaxFence
    BY RepositoryChangeAssumption DEF TypeOK
  <2> QED BY <2>1, <2>2, <2>3 DEF NewProposal, ProposalRow
<1> HIDE DEF row
<1>3. /\ \A q \in Proposals : proposal'[q] = IF q = p THEN row ELSE proposal[q]
      /\ proposal' \in [Proposals -> ProposalRow \cup {None}]
  BY <1>1, <1>2 DEF TypeOK
<1>4. effects[p] = {} /\ \A k \in Applications : application[k] # None => application[k].of # p
  BY <1>1 DEF EffectsInOrder, ApplicationsAgree
<1>5. TypeOK'
  BY <1>1, <1>3 DEF TypeOK
<1>6. RowsPlanned'
  <2>1. PacketSound(row)
    <3> SUFFICES ASSUME NEW i \in DOMAIN ops
                 PROVE  /\ ops[i].type # "create" => Snapshot(ops)[ops[i].path] # NoFile
                        /\ \A j \in DOMAIN ops : i # j =>
                             {ops[i].path, ops[i].dest} \cap {ops[j].path, ops[j].dest} = {}
      BY <1>2 DEF PacketSound
    <3>1. Snapshot(ops)[ops[i].path] = tree[ops[i].path]
      BY PacketFacts DEF Snapshot
    <3> QED BY <1>1, <3>1 DEF Plannable, Expected
  <2> QED BY <1>3, <2>1 DEF RowsPlanned
<1>7. ApplicationsAgree'
  <2>1. row.status \in {"awaiting_approval", "approved", "rejected"}
    BY <1>2, RepositoryChangeAssumption DEF InitialStatus
  <2> QED BY <1>1, <1>3, <1>4, <2>1, OfProposal DEF ApplicationsAgree, Terminal
<1>8. DecisionsFollowed'
  <2>1. \A a \in Approvals : approval[a] # None => approval[a].of # p
    BY <1>1 DEF DecisionsFollowed
  <2>2. /\ row.status = "awaiting_approval" => row.mode # "automatic"
        /\ row.status \in {"approved", "applying"} \cup Terminal => row.mode = "automatic"
    BY <1>2, RepositoryChangeAssumption DEF InitialStatus, Terminal
  <2>3. \A a \in Approvals : approval[a] # None => proposal'[approval[a].of] # None
    BY <1>3, <2>1 DEF DecisionsFollowed, TypeOK, ApprovalRow
  <2> QED BY <1>1, <1>3, <2>1, <2>2, <2>3 DEF DecisionsFollowed
<1>9. EffectsInOrder'
  BY <1>1, <1>3, <1>4 DEF EffectsInOrder, Ops
<1>10. \A k \in Applications : application[k] # None =>
         /\ proposal'[application[k].of] = proposal[application[k].of]
         /\ Undisturbed(k)' => Undisturbed(k)
         /\ Repeatable(application[k].of)' = Repeatable(application[k].of)
  <2> SUFFICES ASSUME NEW k \in Applications, application[k] # None
               PROVE  /\ proposal'[application[k].of] = proposal[application[k].of]
                      /\ Undisturbed(k)' => Undisturbed(k)
                      /\ Repeatable(application[k].of)' = Repeatable(application[k].of)
    OBVIOUS
  <2>1. proposal'[application[k].of] = proposal[application[k].of]
    BY <1>3, <1>4, OfProposal
  <2>2. Repeatable(application[k].of)' = Repeatable(application[k].of)
    BY <1>1, <2>1 DEF Repeatable, Ops
  <2>3. Undisturbed(k)' => Undisturbed(k)
    BY <1>1, <1>3, OfProposal, UndisturbedBefore DEF ApplicationsAgree
  <2> QED BY <2>1, <2>2, <2>3
<1>11. DrivesSound'
  BY <1>1, <1>10 DEF DrivesSound, DriveSound, Ops, TypeOK, DriveRow
<1>12. DrivesAlone'
  BY <1>1 DEF DrivesAlone
<1>13. NewContent'
  <2> SUFFICES ASSUME edits = 0, NEW x \in Paths
               PROVE  /\ tree[x] # NoFile /\ tree[x].content = "new" =>
                           \E q \in Proposals : effects[q] # {} /\ x \in Affected(proposal'[q].ops)
                      /\ \A r \in Proposals : proposal'[r] # None =>
                           LET file == proposal'[r].source[x]
                           IN file # NoFile /\ file.content = "new" =>
                                \E q \in Proposals \ {r} : effects[q] # {} /\ x \in Affected(proposal'[q].ops)
    BY <1>1 DEF NewContent, Ops
  <2>1. \A q \in Proposals : effects[q] # {} => proposal'[q] = proposal[q]
    BY <1>3, <1>4
  <2>2. tree[x] # NoFile /\ tree[x].content = "new" =>
          \E q \in Proposals : effects[q] # {} /\ x \in Affected(proposal'[q].ops)
    BY <2>1 DEF NewContent, Ops
  <2>3. ASSUME NEW r \in Proposals, proposal'[r] # None, proposal'[r].source[x] # NoFile,
               proposal'[r].source[x].content = "new"
        PROVE  \E q \in Proposals \ {r} : effects[q] # {} /\ x \in Affected(proposal'[q].ops)
    <3>1. CASE r = p
      <4>1. proposal'[r].source[x] = tree[x]
        BY <1>2, <1>3, <2>3, <3>1 DEF Snapshot
      <4> QED BY <1>4, <2>2, <2>3, <3>1, <4>1
    <3>2. CASE r # p
      BY <1>3, <2>1, <2>3, <3>2 DEF NewContent, Ops
    <3> QED BY <3>1, <3>2
  <2> QED BY <2>2, <2>3
<1>14. FirstShown'
  BY <1>1, <1>10 DEF FirstShown, Ops
<1>15. FailuresClean'
  BY <1>1, <1>10 DEF FailuresClean, DriveClean, TypeOK, DriveRow, DrivesSound, DriveSound
<1>16. OutcomesSound' /\ ReceiptsSound'
  BY <1>1, <1>10 DEF OutcomesSound, ReceiptsSound, Ops
<1> QED BY <1>5, <1>6, <1>7, <1>8, <1>9, <1>11, <1>12, <1>13, <1>14, <1>15, <1>16

LEMMA InvApprove ==
  ASSUME IInv, NEW a \in Approvals, NEW p \in Proposals, NEW decision \in {"approved", "rejected"},
         Approve(a, p, decision)
  PROVE  IInv'
<1> USE DEF IInv
<1>1. /\ proposal[p] # None /\ approval[a] = None /\ proposal[p].status = "awaiting_approval"
      /\ approval' = [approval EXCEPT ![a] = [of |-> p, decision |-> decision, expired |-> FALSE]]
      /\ proposal' = [proposal EXCEPT ![p].status = decision]
      /\ UNCHANGED <<application, receipt, tree, drive, lease, edits, crashes, effects, shared>>
  BY DEF Approve, Decidable
<1>2. /\ proposal' \in [Proposals -> ProposalRow \cup {None}]
      /\ \A q \in Proposals : proposal[q] # None =>
           /\ proposal'[q] # None
           /\ proposal'[q].ops = proposal[q].ops /\ proposal'[q].source = proposal[q].source
           /\ proposal'[q].mode = proposal[q].mode
           /\ proposal'[q].status = IF q = p THEN decision ELSE proposal[q].status
      /\ \A q \in Proposals : proposal[q] = None => proposal'[q] = None
  BY <1>1, NoRowAssumption DEF TypeOK, ProposalRow
<1>3. effects[p] = {} /\ \A k \in Applications : application[k] # None => application[k].of # p
  BY <1>1, OfProposal DEF EffectsInOrder, ApplicationsAgree, Terminal, ApplicationRow
<1>4. /\ approval' \in [Approvals -> ApprovalRow \cup {None}]
      /\ \A b \in Approvals : approval'[b] = IF b = a THEN [of |-> p, decision |-> decision, expired |-> FALSE] ELSE approval[b]
      /\ approval'[a] # None
  <2>1. [of |-> p, decision |-> decision, expired |-> FALSE] \in ApprovalRow
    BY Zenon DEF ApprovalRow
  <2> QED BY <1>1, <2>1, NoRowAssumption DEF TypeOK
<1>5. TypeOK'
  BY <1>1, <1>2, <1>4 DEF TypeOK
<1>6. RowsPlanned' /\ EffectsInOrder'
  BY <1>1, <1>2, <1>3 DEF RowsPlanned, PacketSound, EffectsInOrder, Ops
<1>7. ApplicationsAgree'
  <2>1. \A k \in Applications : application[k] # None =>
          proposal'[application[k].of] # None /\ proposal'[application[k].of].status = application[k].status
    BY <1>2, <1>3, OfProposal DEF ApplicationsAgree
  <2> QED BY <1>1, <1>2, <2>1 DEF ApplicationsAgree, Terminal
<1>8. DecisionsFollowed'
  <2>1. \A b \in Approvals : approval'[b] # None => proposal'[approval'[b].of] # None
    BY <1>1, <1>2, <1>4 DEF DecisionsFollowed, TypeOK, ApprovalRow
  <2>2. \A b \in Approvals : approval[b] # None => approval[b].of # p
    BY <1>1 DEF DecisionsFollowed
  <2>3. proposal[p].mode # "automatic"
    BY <1>1 DEF DecisionsFollowed
  <2> QED BY <1>1, <1>2, <1>4, <2>1, <2>2, <2>3 DEF DecisionsFollowed, Terminal
<1>9. DrivesSound'
  BY <1>1, <1>2, <1>3, OfProposal DEF DrivesSound, DriveSound, Ops, TypeOK, DriveRow, ApplicationsAgree
<1>10. DrivesAlone'
  BY <1>1 DEF DrivesAlone
<1>11. \A q \in Proposals : effects[q] # {} => Ops(q)' = Ops(q)
  BY <1>1, <1>2 DEF EffectsInOrder, Ops
<1>12. NewContent'
  BY <1>1, <1>2, <1>11 DEF NewContent
<1>13. \A k \in Applications : application[k] # None =>
         /\ Undisturbed(k)' => Undisturbed(k)
         /\ Repeatable(application[k].of)' = Repeatable(application[k].of)
  BY <1>1, <1>2, OfProposal, UndisturbedBefore DEF ApplicationsAgree, Repeatable, Ops
<1>14. FirstShown'
  BY <1>1, <1>2, <1>13, OfProposal DEF FirstShown, Ops, ApplicationsAgree
<1>15. FailuresClean'
  BY <1>1, <1>13 DEF FailuresClean, DriveClean, TypeOK, DriveRow, DrivesSound, DriveSound
<1>16. OutcomesSound' /\ ReceiptsSound'
  BY <1>1, <1>2, OfProposal DEF OutcomesSound, ReceiptsSound, Ops, ApplicationsAgree
<1> QED BY <1>5, <1>6, <1>7, <1>8, <1>9, <1>10, <1>12, <1>14, <1>15, <1>16

\* The environment: an approval expires, the lease moves on.
LEMMA InvAround ==
  ASSUME IInv, UNCHANGED <<proposal, application, receipt, tree, drive, edits, crashes, effects, shared>>,
         \/ lease' = lease /\ \E a \in Approvals : Expire(a)
         \/ approval' = approval /\ lease' \in [fence : 1..MaxFence, live : BOOLEAN]
  PROVE  IInv'
<1> USE DEF IInv
<1>1. /\ TypeOK'
      /\ \A a \in Approvals : approval[a] = None <=> approval'[a] = None
      /\ \A a \in Approvals : approval[a] # None =>
           approval'[a].of = approval[a].of /\ approval'[a].decision = approval[a].decision
  <2>1. CASE approval' = approval /\ lease' \in [fence : 1..MaxFence, live : BOOLEAN]
    BY <2>1 DEF TypeOK
  <2>2. ASSUME lease' = lease, NEW a \in Approvals, Expire(a)
        PROVE  /\ TypeOK'
               /\ \A b \in Approvals : approval[b] = None <=> approval'[b] = None
               /\ \A b \in Approvals : approval[b] # None =>
                    approval'[b].of = approval[b].of /\ approval'[b].decision = approval[b].decision
    <3> DEFINE row == [approval[a] EXCEPT !.expired = TRUE]
    <3>1. approval[a] # None /\ approval' = [approval EXCEPT ![a] = row]
      BY <2>2 DEF Expire
    <3>2. approval[a] \in ApprovalRow
      BY <3>1 DEF TypeOK
    <3>3. row \in ApprovalRow /\ row.of = approval[a].of /\ row.decision = approval[a].decision
      BY <3>2, Zenon DEF ApprovalRow
    <3>4. row # None
      BY <3>3, NoRowAssumption
    <3> HIDE DEF row
    <3>5. approval' \in [Approvals -> ApprovalRow \cup {None}]
      BY <3>1, <3>3 DEF TypeOK
    <3>6. TypeOK'
      BY <2>2, <3>5 DEF TypeOK
    <3>7. \A b \in Approvals : approval'[b] = IF b = a THEN row ELSE approval[b]
      BY <3>1 DEF TypeOK
    <3> QED BY <3>1, <3>3, <3>4, <3>6, <3>7
  <2> QED BY <2>1, <2>2
<1>2. DecisionsFollowed'
  <2>1. \A a \in Approvals : approval'[a] # None => proposal'[approval'[a].of] # None
    BY <1>1 DEF DecisionsFollowed
  <2>2. \A p \in Proposals :
          /\ (\A a \in Approvals : approval[a] # None => approval[a].of # p)
               <=> (\A a \in Approvals : approval'[a] # None => approval'[a].of # p)
          /\ (\E a \in Approvals : approval[a] # None /\ approval[a].of = p)
               <=> (\E a \in Approvals : approval'[a] # None /\ approval'[a].of = p)
          /\ (\A a \in Approvals : approval[a] # None /\ approval[a].of = p => approval[a].decision = "approved")
               <=> (\A a \in Approvals : approval'[a] # None /\ approval'[a].of = p => approval'[a].decision = "approved")
    BY <1>1
  <2> QED BY <2>1, <2>2 DEF DecisionsFollowed
<1>3. RowsPlanned' /\ ApplicationsAgree' /\ EffectsInOrder' /\ DrivesSound' /\ DrivesAlone' /\ NewContent'
      /\ FirstShown' /\ OutcomesSound' /\ ReceiptsSound'
  BY DEF RowsPlanned, ApplicationsAgree, EffectsInOrder, DrivesSound, DriveSound, DrivesAlone, NewContent,
     FirstShown, OutcomesSound, ReceiptsSound, Undisturbed, Ops
<1>4. FailuresClean'
  BY DEF FailuresClean, DriveClean, Undisturbed, Repeatable, Ops
<1> QED BY <1>1, <1>2, <1>3, <1>4

LEMMA InvLoseLease ==
  ASSUME IInv, LoseLease
  PROVE  IInv'
<1>1. lease' \in [fence : 1..MaxFence, live : BOOLEAN]
  <2>1. CASE lease' = [lease EXCEPT !.live = FALSE]
    BY <2>1, Zenon DEF IInv, TypeOK
  <2>2. CASE lease.fence < MaxFence /\ lease' = [fence |-> lease.fence + 1, live |-> TRUE]
    <3>1. lease.fence + 1 \in 1..MaxFence
      BY <2>2, RepositoryChangeAssumption DEF IInv, TypeOK
    <3> QED BY <2>2, <3>1, Zenon
  <2> QED BY <2>1, <2>2 DEF LoseLease
<1> QED BY <1>1, InvAround DEF LoseLease

\* Once somebody edits, what the files show is not asked for any more.
LEMMA InvEdit ==
  ASSUME IInv, NEW x \in Paths, Edit(x)
  PROVE  IInv'
<1> USE DEF IInv
<1>1. /\ edits' = edits + 1 /\ edits' \in 1..MaxEdits
      /\ UNCHANGED <<proposal, approval, application, receipt, drive, lease, crashes, effects, shared>>
  BY RepositoryChangeAssumption DEF Edit, TypeOK
<1>2. tree' \in Trees
  BY RepositoryChangeAssumption DEF Edit, TypeOK, Trees
<1>3. TypeOK'
  BY <1>1, <1>2 DEF TypeOK
<1>4. RowsPlanned' /\ ApplicationsAgree' /\ DecisionsFollowed' /\ EffectsInOrder' /\ DrivesSound' /\ DrivesAlone'
      /\ OutcomesSound' /\ ReceiptsSound'
  BY <1>1 DEF RowsPlanned, ApplicationsAgree, DecisionsFollowed, EffectsInOrder, DrivesSound, DriveSound,
     DrivesAlone, OutcomesSound, ReceiptsSound, Ops
<1>5. edits' # 0
  BY <1>1
<1>6. NewContent' /\ FirstShown' /\ FailuresClean'
  BY <1>5 DEF NewContent, FirstShown, FailuresClean, DriveClean, Undisturbed
<1> QED BY <1>3, <1>4, <1>6

LEMMA FencesBounded ==
  ASSUME TypeOK, NEW p \in Proposals, NEW f \in Fences(p)
  PROVE  f \in 0..MaxFence
BY RepositoryChangeAssumption DEF Fences, TypeOK

LEMMA StartFacts ==
  ASSUME NEW k \in Applications, NEW f \in 0..MaxFence
  PROVE  /\ Start(k, f) \in DriveRow /\ Start(k, f) # NoDrive
         /\ Start(k, f).pc = "check" /\ Start(k, f).app = k /\ Start(k, f).done = 0
BY DEF Start, DriveRow, NoDrive

\* BeginApplication: the first application of an approved proposal, which has
\* had no effects.
LEMMA InvBegin ==
  ASSUME IInv, NEW d \in Drives, NEW k \in Applications, NEW p \in Proposals, NEW f \in Fences(p),
         BeginApplication(d, k, p, f)
  PROVE  IInv'
<1> DEFINE row == [of |-> p, status |-> "applying"]
<1> USE DEF IInv
<1>1. /\ drive[d] = NoDrive /\ application[k] = None /\ proposal[p] # None
      /\ proposal[p].status = "approved"
      /\ application' = [application EXCEPT ![k] = row]
      /\ proposal' = [proposal EXCEPT ![p].status = "applying"]
      /\ drive' = [drive EXCEPT ![d] = Start(k, f)]
      /\ UNCHANGED <<approval, receipt, tree, lease, edits, crashes, effects, shared>>
  BY DEF BeginApplication, Admissible
<1>2. /\ proposal' \in [Proposals -> ProposalRow \cup {None}]
      /\ \A q \in Proposals : proposal[q] # None =>
           /\ proposal'[q] # None
           /\ proposal'[q].ops = proposal[q].ops /\ proposal'[q].source = proposal[q].source
           /\ proposal'[q].mode = proposal[q].mode
           /\ proposal'[q].status = IF q = p THEN "applying" ELSE proposal[q].status
      /\ \A q \in Proposals : proposal[q] = None => proposal'[q] = None
  BY <1>1, NoRowAssumption DEF TypeOK, ProposalRow
<1>3. effects[p] = {} /\ \A l \in Applications : application[l] # None => application[l].of # p
  BY <1>1, OfProposal DEF EffectsInOrder, ApplicationsAgree, Terminal, ApplicationRow
<1>4. row \in ApplicationRow /\ row # None /\ row.of = p /\ row.status = "applying"
  BY NoRowAssumption DEF ApplicationRow
<1> HIDE DEF row
<1>5. /\ application' \in [Applications -> ApplicationRow \cup {None}]
      /\ \A l \in Applications : application'[l] = IF l = k THEN row ELSE application[l]
  BY <1>1, <1>4 DEF TypeOK
<1>6. /\ drive' \in [Drives -> DriveRow \cup {NoDrive}]
      /\ \A e \in Drives : drive'[e] = IF e = d THEN Start(k, f) ELSE drive[e]
  BY <1>1, FencesBounded, StartFacts DEF TypeOK
<1>7. TypeOK'
  BY <1>1, <1>2, <1>5, <1>6 DEF TypeOK
<1>8. RowsPlanned' /\ EffectsInOrder'
  BY <1>1, <1>2, <1>3 DEF RowsPlanned, PacketSound, EffectsInOrder, Ops
<1>9. ApplicationsAgree'
  <2>1. \A l \in Applications : application'[l] # None =>
          proposal'[application'[l].of] # None /\ proposal'[application'[l].of].status = application'[l].status
    BY <1>1, <1>2, <1>3, <1>4, <1>5, OfProposal DEF ApplicationsAgree
  <2>2. \A l, m \in Applications :
          application'[l] # None /\ application'[m] # None /\ application'[l].of = application'[m].of => l = m
    BY <1>3, <1>4, <1>5 DEF ApplicationsAgree
  <2>3. \A q \in Proposals : proposal'[q] # None /\ proposal'[q].status \in {"applying"} \cup Terminal =>
          \E l \in Applications : application'[l] # None /\ application'[l].of = q
    <3> TAKE q \in Proposals
    <3>1. CASE q = p
      BY <1>4, <1>5, <3>1
    <3>2. CASE q # p
      BY <1>1, <1>2, <1>5, <3>2 DEF ApplicationsAgree
    <3> QED BY <3>1, <3>2
  <2> QED BY <2>1, <2>2, <2>3 DEF ApplicationsAgree
<1>10. DecisionsFollowed'
  BY <1>1, <1>2 DEF DecisionsFollowed, Terminal, TypeOK, ApprovalRow
<1>11. \A l \in Applications : application[l] # None =>
         /\ l # k /\ application'[l] = application[l]
         /\ Undisturbed(l)' => Undisturbed(l)
         /\ Ops(application[l].of)' = Ops(application[l].of)
         /\ Repeatable(application[l].of)' = Repeatable(application[l].of)
  <2> SUFFICES ASSUME NEW l \in Applications, application[l] # None
               PROVE  /\ l # k /\ application'[l] = application[l]
                      /\ Undisturbed(l)' => Undisturbed(l)
                      /\ Ops(application[l].of)' = Ops(application[l].of)
                      /\ Repeatable(application[l].of)' = Repeatable(application[l].of)
    OBVIOUS
  <2>1. l # k /\ application'[l] = application[l]
    BY <1>1, <1>2, <1>5 DEF ApplicationsAgree
  <2>2. /\ application[l].of \in Proposals /\ proposal[application[l].of] # None
        /\ proposal'[application[l].of].ops = proposal[application[l].of].ops
        /\ proposal'[application[l].of].source = proposal[application[l].of].source
    BY <1>2, OfProposal DEF ApplicationsAgree
  <2>3. Undisturbed(l)' => Undisturbed(l)
    <3>1. \A q \in Proposals : effects[q] \subseteq effects'[q]
      BY <1>1
    <3>2. \A q \in Proposals : proposal[q] # None => proposal'[q].ops = proposal[q].ops
      BY <1>2
    <3>3. (edits' = 0 => edits = 0) /\ shared \subseteq shared'
      BY <1>1
    <3> QED BY <2>1, <2>2, <3>1, <3>2, <3>3, UndisturbedBefore
  <2>4. Ops(application[l].of)' = Ops(application[l].of)
    BY <2>1, <2>2 DEF Ops
  <2>5. Repeatable(application[l].of)' = Repeatable(application[l].of)
    <3>1. effects' = effects
      BY <1>1
    <3>2. (effects[application[l].of])' = effects[application[l].of]
      BY <2>1, <3>1
    <3> QED BY <2>4, <3>2 DEF Repeatable
  <2> QED BY <2>1, <2>3, <2>4, <2>5
<1>12. DrivesSound'
  <2> SUFFICES ASSUME NEW e \in Drives, drive'[e] # NoDrive PROVE DriveSound(drive[e])'
    BY DEF DrivesSound
  <2>1. CASE e = d
    <3>1. Len(Ops(p)) \in Nat \ {0} /\ Ops(p)' = Ops(p)
      BY <1>1, <1>2, OpsOf, PacketFacts DEF Ops
    <3> QED BY <1>4, <1>5, <1>6, <2>1, <3>1, StartFacts, FencesBounded DEF DriveSound
  <2>2. CASE e # d
    <3>1. drive'[e] = drive[e] /\ drive[e].app \in Applications /\ DriveSound(drive[e])
      BY <1>6, <2>2 DEF TypeOK, DriveRow, DrivesSound
    <3> QED BY <1>1, <1>11, <3>1 DEF DriveSound
  <2> QED BY <2>1, <2>2
<1>13. DrivesAlone'
  <2>1. \A e \in Drives : drive[e].pc \in Busy => drive[e].app # k
    BY <1>1 DEF DrivesSound, DriveSound, NoDrive, Busy
  <2>2. Start(k, f).app = k
    BY DEF Start
  <2>3. \A e \in Drives : drive'[e].pc \in Busy /\ drive'[e].app = k => e = d
    BY <1>6, <2>1
  <2>4. application'[k].status = "applying"
    BY <1>4, <1>5
  <2>5. \A l \in Applications \ {k}, e \in Drives : drive'[e].app = l => e # d
    BY <1>6, <2>2
  <2> QED BY <1>1, <1>5, <1>6, <2>3, <2>4, <2>5 DEF DrivesAlone
<1>14. NewContent'
  BY <1>1, <1>2 DEF NewContent, EffectsInOrder, Ops
<1>15. FirstShown'
  BY <1>1, <1>3, <1>4, <1>5, <1>11 DEF FirstShown
<1>16. FailuresClean'
  <2>1. ASSUME NEW e \in Drives, drive'[e] # NoDrive PROVE DriveClean(drive[e])'
    <3>1. CASE e = d
      BY <1>6, <3>1, StartFacts, FencesBounded DEF DriveClean
    <3>2. CASE e # d
      <4>1. drive'[e] = drive[e] /\ drive[e].app \in Applications /\ DriveClean(drive[e])
            /\ application[drive[e].app] # None
        BY <1>6, <2>1, <3>2 DEF TypeOK, DriveRow, FailuresClean, DrivesSound, DriveSound
      <4> QED BY <1>11, <4>1 DEF DriveClean
    <3> QED BY <3>1, <3>2
  <2>2. \A l \in Applications : application'[l] # None /\ Undisturbed(l)' =>
          (application'[l].status = "failed" => Repeatable(application[l].of)')
    BY <1>4, <1>5, <1>11 DEF FailuresClean
  <2> QED BY <2>1, <2>2 DEF FailuresClean
<1>17. OutcomesSound' /\ ReceiptsSound'
  BY <1>1, <1>4, <1>5, <1>11 DEF OutcomesSound, ReceiptsSound, TypeOK
<1> QED BY <1>7, <1>8, <1>9, <1>10, <1>12, <1>13, <1>14, <1>15, <1>16, <1>17

\* ApplyAgain: the call is marked unless nobody drives the application, and an
\* application that is not shared and not driven shows its first effect.
LEMMA InvApplyAgain ==
  ASSUME IInv, NEW d \in Drives, NEW k \in Applications, application[k] # None,
         NEW f \in Fences(application[k].of), ApplyAgain(d, k, f)
  PROVE  IInv'
<1> USE DEF IInv
<1>a. f \in 0..MaxFence /\ application[k].of \in Proposals /\ proposal[application[k].of] # None
  BY OfProposal, FencesBounded DEF ApplicationsAgree
<1>1. CASE application[k].status = "applied" /\ drive' = [drive EXCEPT ![d] = [Start(k, f) EXCEPT !.pc = "receipt"]]
           /\ UNCHANGED shared
  <2> DEFINE m == [Start(k, f) EXCEPT !.pc = "receipt"]
  <2>1. m \in DriveRow /\ m.pc = "receipt" /\ m.app = k /\ m.done = 0
    BY <1>a DEF Start, DriveRow
  <2> HIDE DEF m
  <2>2. DriveSound(m) /\ DriveClean(m)
    <3>1. Len(Ops(application[k].of)) \in Nat
      BY <1>a, OpsOf, PacketFacts
    <3> QED BY <2>1, <3>1 DEF DriveSound, DriveClean
  <2> QED BY <1>1, <2>1, <2>2, InvDriveMove DEF ApplyAgain, TypeOK, ReceiptsSound, Busy, m
<1>2. CASE Resumable(k) /\ drive' = [drive EXCEPT ![d] = Start(k, f)]
           /\ shared' = IF Driven(k) = {} THEN shared ELSE shared \cup {k}
  <2>1. /\ drive[d] = NoDrive /\ application[k].status = "applying"
        /\ UNCHANGED <<proposal, approval, application, receipt, tree, lease, edits, crashes, effects>>
    BY <1>2 DEF ApplyAgain, Resumable, StillApplying
  <2>2. /\ drive' \in [Drives -> DriveRow \cup {NoDrive}]
        /\ \A e \in Drives : drive'[e] = IF e = d THEN Start(k, f) ELSE drive[e]
    BY <1>2, <1>a, StartFacts DEF TypeOK
  <2>3. shared \subseteq shared' /\ shared' \subseteq Applications
    BY <1>2 DEF TypeOK
  <2>4. TypeOK'
    BY <2>1, <2>2, <2>3 DEF TypeOK
  <2>5. RowsPlanned' /\ ApplicationsAgree' /\ DecisionsFollowed' /\ EffectsInOrder' /\ NewContent'
        /\ OutcomesSound' /\ ReceiptsSound'
    BY <2>1 DEF RowsPlanned, ApplicationsAgree, DecisionsFollowed, EffectsInOrder, NewContent, OutcomesSound,
       ReceiptsSound, Ops
  <2>6. DrivesSound'
    <3> SUFFICES ASSUME NEW e \in Drives, drive'[e] # NoDrive PROVE DriveSound(drive[e])'
      BY DEF DrivesSound
    <3>1. DriveSound(drive'[e])
      <4>1. CASE e = d
        <5>1. Len(Ops(application[k].of)) \in Nat \ {0}
          BY <1>a, OpsOf, PacketFacts
        <5> QED BY <1>a, <2>2, <4>1, <5>1, StartFacts DEF DriveSound
      <4>2. CASE e # d
        BY <2>2, <4>2 DEF DrivesSound
      <4> QED BY <4>1, <4>2
    <3> QED BY <2>1, <3>1 DEF DriveSound, Ops
  <2>7. DrivesAlone'
    <3> SUFFICES ASSUME NEW l \in Applications \ shared', NEW e \in Drives, drive'[e].pc \in Busy, drive'[e].app = l
                 PROVE  /\ application[l].status = "applying"
                        /\ \A g \in Drives : drive'[g].pc \in Busy /\ drive'[g].app = l => g = e
      BY <2>1 DEF DrivesAlone
    <3>1. CASE l = k
      <4>1. Driven(k) = {}
        BY <1>2, <3>1
      <4>2. \A g \in Drives : drive[g].pc \in Busy => drive[g].app # k
        BY <4>1 DEF Driven, Busy
      <4> QED BY <2>1, <2>2, <3>1, <4>2
    <3>2. CASE l # k
      <4>1. Start(k, f).app # l
        BY <3>2 DEF Start
      <4> QED BY <2>2, <2>3, <4>1 DEF DrivesAlone
    <3> QED BY <3>1, <3>2
  <2>8. \A l \in Applications : application[l] # None => (Undisturbed(l)' => Undisturbed(l))
    BY <2>1, <2>3 DEF Undisturbed
  <2>9. FirstShown'
    BY <2>1, <2>8 DEF FirstShown, Ops
  <2>10. FailuresClean'
    <3>1. ASSUME NEW e \in Drives, drive'[e] # NoDrive PROVE DriveClean(drive[e])'
      <4>1. DriveClean(drive'[e])
        BY <2>2, <3>1, <1>a, StartFacts DEF FailuresClean, DriveClean
      <4>2. drive'[e].app \in Applications /\ application[drive'[e].app] # None
        <5>1. CASE e = d
          BY <2>2, <5>1, <1>a, StartFacts
        <5>2. CASE e # d
          BY <2>2, <3>1, <5>2 DEF TypeOK, DriveRow, DrivesSound, DriveSound
        <5> QED BY <5>1, <5>2
      <4> QED BY <2>1, <2>8, <4>1, <4>2 DEF DriveClean, Repeatable, Ops
    <3>2. \A l \in Applications : application'[l] # None /\ Undisturbed(l)' =>
            (application'[l].status = "failed" => Repeatable(application[l].of)')
      BY <2>1, <2>8 DEF FailuresClean, Repeatable, Ops
    <3> QED BY <3>1, <3>2 DEF FailuresClean
  <2> QED BY <2>4, <2>5, <2>6, <2>7, <2>9, <2>10
<1> QED BY <1>1, <1>2 DEF ApplyAgain

\* What is known of a call in the middle of its packet.
LEMMA DriveFacts ==
  ASSUME IInv, NEW d \in Drives, drive[d] # NoDrive
  PROVE  /\ drive[d] \in DriveRow /\ DriveSound(drive[d]) /\ DriveClean(drive[d])
         /\ application[drive[d].app] \in ApplicationRow
         /\ application[drive[d].app].of \in Proposals
         /\ RowOf(d) \in ProposalRow /\ RowOf(d) # None /\ PacketSound(RowOf(d))
         /\ drive[d].pc \in {"check", "write"} =>
              drive[d].done + 1 \in DOMAIN RowOf(d).ops /\ NextOp(d) \in Operations
<1> USE DEF IInv
<1>1. drive[d] \in DriveRow /\ DriveSound(drive[d]) /\ DriveClean(drive[d])
  BY DEF TypeOK, DrivesSound, FailuresClean
<1>2. application[drive[d].app] \in ApplicationRow /\ application[drive[d].app].of \in Proposals
  BY <1>1, OfProposal DEF DriveSound, DriveRow
<1>3. RowOf(d) \in ProposalRow /\ RowOf(d) # None /\ PacketSound(RowOf(d))
  <2>1. proposal[application[drive[d].app].of] # None
    BY <1>1 DEF DriveSound, DriveRow, ApplicationsAgree
  <2> QED BY <1>2, <2>1, OpsOf DEF RowsPlanned, RowOf
<1>4. ASSUME drive[d].pc \in {"check", "write"}
      PROVE  drive[d].done + 1 \in DOMAIN RowOf(d).ops /\ NextOp(d) \in Operations
  <2>1. RowOf(d).ops \in Packets
    BY <1>3 DEF ProposalRow
  <2>2. drive[d].done \in Nat /\ drive[d].done < Len(RowOf(d).ops)
    BY <1>1, <1>4 DEF DriveSound, DriveRow, Ops, RowOf
  <2> QED BY <2>1, <2>2, PacketFacts DEF NextOp
<1> QED BY <1>1, <1>2, <1>3, <1>4

\* A call that goes on to another step, with the same application and effects.
LEMMA InvStep ==
  ASSUME IInv, NEW d \in Drives, drive[d].pc \in Busy, NEW m \in DriveRow,
         m.app = drive[d].app, m.done = drive[d].done,
         DriveSound(m), DriveClean(m),
         drive' = [drive EXCEPT ![d] = m],
         UNCHANGED <<proposal, approval, application, receipt, tree, lease, edits, crashes, effects, shared>>
  PROVE  IInv'
BY InvDriveMove DEF IInv, TypeOK, ReceiptsSound, Busy

LEMMA BusyIsNot == \A d \in Drives : drive[d].pc \in Busy \cup {"receipt"} => drive[d] # NoDrive
BY DEF NoDrive, Busy

\* Executor.Apply, before an operation: with nothing done yet, a precondition
\* that holds tells that the first operation has not taken effect.
LEMMA InvCheck ==
  ASSUME IInv, NEW d \in Drives, CheckPrecondition(d)
  PROVE  IInv'
<1> DEFINE k == drive[d].app
           p == application[k].of
<1>1. drive[d].pc = "check" /\ drive[d] # NoDrive /\ drive[d].pc \in Busy
  BY DEF CheckPrecondition, NoDrive, Busy
<1>2. /\ drive[d] \in DriveRow /\ DriveSound(drive[d]) /\ k \in Applications /\ p \in Proposals
      /\ RowOf(d) \in ProposalRow /\ RowOf(d) # None /\ PacketSound(RowOf(d))
      /\ drive[d].done + 1 \in DOMAIN RowOf(d).ops /\ NextOp(d) \in Operations
      /\ drive[d].done \in Nat
  BY <1>1, DriveFacts DEF DriveRow
<1>3. CASE Expected(NextOp(d), RowOf(d).source, tree) /\ drive' = [drive EXCEPT ![d].pc = "write"]
  <2> DEFINE m == [drive[d] EXCEPT !.pc = "write"]
  <2>1. m \in DriveRow /\ m.pc = "write" /\ m.app = k /\ m.done = drive[d].done /\ m.outcome = drive[d].outcome
    BY <1>2 DEF DriveRow
  <2>2. drive' = [drive EXCEPT ![d] = m]
    BY <1>3
  <2> HIDE DEF m
  <2>3. DriveSound(m)
    BY <1>1, <1>2, <2>1 DEF DriveSound
  <2>4. ASSUME Undisturbed(k), m.done = 0 PROVE Repeatable(p)
    <3>1. NextOp(d) = Ops(p)[1]
      BY <2>1, <2>4 DEF NextOp, RowOf, Ops
    <3>2. CASE 1 \in effects[p]
      <4>1. Shown(NextOp(d), tree)
        BY <1>2, <2>4, <3>1, <3>2 DEF IInv, FirstShown, DriveSound
      <4>2. ASSUME NextOp(d).type # "create"
            PROVE  RowOf(d).source[NextOp(d).path] # NoFile /\ RowOf(d).source[NextOp(d).path].content # "new"
        <5>1. RowOf(d).source[NextOp(d).path] # NoFile
          BY <1>2, <4>2 DEF PacketSound, NextOp
        <5>2. NextOp(d).path \in Affected(Ops(p)) /\ NextOp(d).path \in Paths
          BY <1>2, PacketFacts DEF NextOp, RowOf, Ops, ProposalRow
        <5> QED BY <1>2, <2>4, <5>1, <5>2 DEF IInv, NewContent, Undisturbed, RowOf, Ops
      <4>3. RowOf(d).source \in Trees /\ tree \in Trees
        BY <1>2 DEF ProposalRow, IInv, TypeOK
      <4>4. NextOp(d).type = "chmod"
        BY <1>2, <1>3, <4>1, <4>2, <4>3, ShownConflicts
      <4> QED BY <3>1, <4>4 DEF Repeatable
    <3>3. CASE 1 \notin effects[p]
      BY <1>2, <3>3 DEF IInv, EffectsInOrder, Repeatable
    <3> QED BY <3>2, <3>3
  <2>5. DriveClean(m)
    BY <2>1, <2>4 DEF DriveClean
  <2> QED BY <1>1, <2>1, <2>2, <2>3, <2>5, InvStep DEF CheckPrecondition
<1>4. CASE drive' = [drive EXCEPT ![d].pc = "finish", ![d].outcome = "conflicted"]
  <2> DEFINE m == [drive[d] EXCEPT !.pc = "finish", !.outcome = "conflicted"]
  <2>1. m \in DriveRow /\ m.pc = "finish" /\ m.app = k /\ m.done = drive[d].done /\ m.outcome = "conflicted"
    BY <1>2 DEF DriveRow, Terminal
  <2>2. drive' = [drive EXCEPT ![d] = m]
    BY <1>4
  <2> HIDE DEF m
  <2>3. DriveSound(m) /\ DriveClean(m)
    BY <1>2, <2>1 DEF DriveSound, DriveClean, Terminal
  <2> QED BY <1>1, <2>1, <2>2, <2>3, InvStep DEF CheckPrecondition
<1> QED BY <1>3, <1>4 DEF CheckPrecondition, Goto, Outcome

LEMMA InvVerify ==
  ASSUME IInv, NEW d \in Drives, Verify(d)
  PROVE  IInv'
<1> DEFINE k == drive[d].app
           p == application[k].of
           outcome == IF Verified(RowOf(d)) THEN "applied" ELSE OutcomeOfError(drive[d].done)
           m == [drive[d] EXCEPT !.pc = "finish", !.outcome = outcome]
<1>1. drive[d].pc = "verify" /\ drive[d] # NoDrive /\ drive[d].pc \in Busy
  BY DEF Verify, NoDrive, Busy
<1>2. /\ drive[d] \in DriveRow /\ DriveSound(drive[d]) /\ k \in Applications /\ p \in Proposals
      /\ RowOf(d) \in ProposalRow
  BY <1>1, DriveFacts DEF DriveRow
<1>3. /\ drive[d].done = Len(Ops(p)) /\ Len(Ops(p)) \in Nat \ {0} /\ DOMAIN Ops(p) = 1..Len(Ops(p))
      /\ effects[p] = DOMAIN Ops(p) /\ effects[p] # {}
  <2>1. Ops(p) \in Packets
    BY <1>2 DEF ProposalRow, Ops, RowOf
  <2>2. drive[d].done = Len(Ops(p)) /\ 1..Len(Ops(p)) \subseteq effects[p]
    BY <1>1, <1>2 DEF DriveSound
  <2>3. 1 \in effects[p]
    BY <2>1, <2>2, PacketFacts
  <2> QED BY <1>2, <2>1, <2>2, <2>3, PacketFacts DEF IInv, EffectsInOrder
<1>4. outcome \in {"applied", "recovery_required"}
  BY <1>3 DEF OutcomeOfError
<1> HIDE DEF outcome
<1>5. m \in DriveRow /\ m.pc = "finish" /\ m.app = k /\ m.done = drive[d].done /\ m.outcome = outcome
  BY <1>2, <1>4 DEF DriveRow, Terminal
<1>6. drive' = [drive EXCEPT ![d] = m]
  BY DEF Verify, Outcome, outcome
<1> HIDE DEF m
<1>7. DriveSound(m) /\ DriveClean(m)
  BY <1>2, <1>3, <1>4, <1>5 DEF DriveSound, DriveClean, Terminal
<1> QED BY <1>1, <1>5, <1>6, <1>7, InvStep DEF Verify

\* An operation that is refused.
LEMMA InvRefused ==
  ASSUME IInv, NEW d \in Drives, drive[d].pc = "write", Outcome(d, OutcomeOfError(drive[d].done)),
         UNCHANGED <<proposal, approval, application, receipt, tree, lease, edits, crashes, effects, shared>>
  PROVE  IInv'
<1> DEFINE k == drive[d].app
           p == application[k].of
           outcome == OutcomeOfError(drive[d].done)
           m == [drive[d] EXCEPT !.pc = "finish", !.outcome = outcome]
<1>1. drive[d] # NoDrive /\ drive[d].pc \in Busy
  BY DEF NoDrive, Busy
<1>2. drive[d] \in DriveRow /\ DriveSound(drive[d]) /\ DriveClean(drive[d]) /\ drive[d].done \in Nat
  BY <1>1, DriveFacts DEF DriveRow
<1>3. /\ outcome \in {"failed", "recovery_required"}
      /\ outcome = "failed" => drive[d].done = 0
      /\ outcome = "recovery_required" => effects[p] # {}
  BY <1>2 DEF OutcomeOfError, DriveSound
<1> HIDE DEF outcome
<1>4. m \in DriveRow /\ m.pc = "finish" /\ m.app = k /\ m.done = drive[d].done /\ m.outcome = outcome
  BY <1>2, <1>3 DEF DriveRow, Terminal
<1>5. drive' = [drive EXCEPT ![d] = m]
  BY DEF Outcome, outcome
<1> HIDE DEF m
<1>6. DriveSound(m) /\ DriveClean(m)
  BY <1>2, <1>3, <1>4 DEF DriveSound, DriveClean, Terminal
<1> QED BY <1>1, <1>4, <1>5, <1>6, InvStep

\* An operation op, the i-th of p's packet, that takes effect: in order, on its
\* own paths, and it shows.
LEMMA InvWritten ==
  ASSUME IInv, NEW d \in Drives, NEW k \in Applications, NEW p \in Proposals, NEW i \in Nat,
         NEW op \in Operations, NEW m \in DriveRow,
         drive[d] # NoDrive, drive[d].pc \in Busy, drive[d].app = k, application[k].of = p,
         i = drive[d].done + 1, i \in DOMAIN Ops(p), op = Ops(p)[i], Possible(op, tree),
         m.app = k, m.done = i, m.pc \in {"verify", "check"},
         m.pc = "verify" => i = Len(Ops(p)), m.pc = "check" => i # Len(Ops(p)),
         tree' = Written(op, proposal[p].source, tree),
         effects' = [effects EXCEPT ![p] = effects[p] \cup {i}],
         drive' = [drive EXCEPT ![d] = m],
         UNCHANGED <<proposal, approval, application, receipt, lease, edits, crashes, shared>>
  PROVE  IInv'
<1> USE DEF IInv
<1>2. /\ drive[d] \in DriveRow /\ DriveSound(drive[d]) /\ drive[d].done \in Nat
      /\ application[k] # None /\ application[k] \in ApplicationRow
      /\ proposal[p] # None /\ proposal[p] \in ProposalRow /\ PacketSound(proposal[p])
  BY DriveFacts DEF DriveRow, RowOf, DriveSound
<1>3. Ops(p) \in Packets /\ proposal[p].source \in Trees /\ tree \in Trees
  BY <1>2 DEF ProposalRow, Ops, TypeOK
<1>4. i <= Len(Ops(p)) /\ Len(Ops(p)) \in Nat
  BY <1>3, PacketFacts
<1>5. /\ drive' \in [Drives -> DriveRow \cup {NoDrive}]
      /\ \A e \in Drives : drive'[e] = IF e = d THEN m ELSE drive[e]
  BY DEF TypeOK
<1>6. /\ tree' \in Trees
      /\ \A x \in Paths : x \notin {op.path, op.dest} => tree'[x] = tree[x]
      /\ Shown(op, tree')
  <2>1. op.type # "create" => proposal[p].source[op.path] # NoFile
    BY <1>2 DEF PacketSound, Ops
  <2> QED BY <1>3, <2>1, WrittenFacts
<1>7. /\ effects' \in [Proposals -> SUBSET Nat]
      /\ \A q \in Proposals : effects'[q] = IF q = p THEN effects[p] \cup {i} ELSE effects[q]
  BY <1>2, <1>4 DEF TypeOK
<1>8. 1 \in effects'[p] /\ effects'[p] \subseteq DOMAIN Ops(p)
  <2>1. 1 \in effects'[p]
    <3>1. 1..drive[d].done \subseteq effects[p]
      BY <1>2, <1>4 DEF DriveSound
    <3> QED BY <1>2, <1>4, <1>7, <3>1
  <2>2. effects[p] \subseteq DOMAIN Ops(p)
    BY <1>2 DEF EffectsInOrder
  <2> QED BY <1>2, <1>7, <2>1, <2>2
<1>9. TypeOK'
  BY <1>5, <1>6, <1>7 DEF TypeOK
<1>10. RowsPlanned' /\ ApplicationsAgree' /\ DecisionsFollowed' /\ ReceiptsSound'
  BY DEF RowsPlanned, ApplicationsAgree, DecisionsFollowed, ReceiptsSound
<1>11. EffectsInOrder'
  <2>1. proposal[p].status \in {"applying"} \cup Terminal
    BY <1>2 DEF ApplicationsAgree, ApplicationRow
  <2> QED BY <1>2, <1>7, <1>8, <2>1 DEF EffectsInOrder, Ops
<1>12. DrivesSound'
  <2> SUFFICES ASSUME NEW e \in Drives, drive'[e] # NoDrive PROVE DriveSound(drive[e])'
    BY DEF DrivesSound
  <2>1. CASE e = d
    <3>1. 1..i \subseteq effects'[p]
      <4>1. 1..drive[d].done \subseteq effects[p]
        BY <1>2, <1>4 DEF DriveSound
      <4> QED BY <1>2, <1>4, <1>7, <4>1
    <3> QED BY <1>2, <1>4, <1>5, <2>1, <3>1 DEF DriveSound, Ops
  <2>2. CASE e # d
    <3>1. drive'[e] = drive[e] /\ DriveSound(drive[e]) /\ application[drive[e].app].of \in Proposals
      BY <1>5, <2>2, OfProposal DEF DrivesSound, DriveSound, TypeOK, DriveRow
    <3>2. effects[application[drive[e].app].of] \subseteq effects'[application[drive[e].app].of]
      BY <1>7, <3>1
    <3>3. effects[application[drive[e].app].of] = DOMAIN Ops(application[drive[e].app].of) =>
            effects'[application[drive[e].app].of] = DOMAIN Ops(application[drive[e].app].of)
      BY <1>7, <1>8, <3>1
    <3> QED BY <3>1, <3>2, <3>3 DEF DriveSound, Ops
  <2> QED BY <2>1, <2>2
<1>13. DrivesAlone'
  BY <1>4, <1>5 DEF DrivesAlone
<1>14. {op.path, op.dest} \subseteq Affected(Ops(p)) /\ Affected(Ops(p)) \subseteq Paths
  BY <1>2, <1>3, PacketFacts
<1>15. NewContent'
  <2>1. \A q \in Proposals : effects[q] # {} => effects'[q] # {}
    BY <1>7
  <2>2. ASSUME edits = 0, NEW x \in Paths, tree'[x] # NoFile, tree'[x].content = "new"
        PROVE  \E q \in Proposals : effects'[q] # {} /\ x \in Affected(Ops(q))
    <3>1. CASE x \in {op.path, op.dest}
      BY <1>2, <1>8, <1>14, <3>1
    <3>2. CASE x \notin {op.path, op.dest}
      BY <1>6, <2>1, <2>2, <3>2 DEF NewContent
    <3> QED BY <3>1, <3>2
  <2> QED BY <2>1, <2>2 DEF NewContent, Ops
<1>16. ASSUME NEW l \in Applications, application[l] # None, Undisturbed(l)'
       PROVE  /\ Undisturbed(l)
              /\ application[l].of \in Proposals
              /\ l # k => /\ application[l].of # p
                          /\ effects'[application[l].of] = effects[application[l].of]
                          /\ Affected(Ops(p)) \cap Affected(Ops(application[l].of)) = {}
  <2>1. application[l].of \in Proposals /\ proposal[application[l].of] # None
    BY <1>16, OfProposal DEF ApplicationsAgree
  <2>2. Undisturbed(l)
    BY <1>7, <1>16, <2>1, UndisturbedBefore
  <2>3. ASSUME l # k PROVE application[l].of # p
    BY <1>2, <1>16, <2>3 DEF ApplicationsAgree
  <2>4. effects'[p] # {}
    BY <1>8
  <2> QED BY <1>2, <1>7, <1>16, <2>1, <2>2, <2>3, <2>4 DEF Undisturbed, Ops
<1>17. FirstShown'
  <2> SUFFICES ASSUME NEW l \in Applications, application[l] # None, Undisturbed(l)', 1 \in effects'[application[l].of]
               PROVE  Shown(Ops(application[l].of)[1], tree')
    BY DEF FirstShown, Ops
  <2> DEFINE first == Ops(application[l].of)[1]
  <2>1. Ops(application[l].of) \in Packets /\ first \in Operations /\ first.path \in Paths
        /\ first.path \in Affected(Ops(application[l].of))
    <3>1. Ops(application[l].of) \in Packets
      BY <1>16, OpsOf DEF ApplicationsAgree
    <3> QED BY <3>1, PacketFacts
  <2>2. CASE l = k /\ i = 1
    BY <1>2, <1>6, <2>2
  <2>3. CASE l = k /\ i # 1
    <3>1. 1 \in effects[p]
      BY <1>7, <2>3
    <3>2. first.path \notin {op.path, op.dest}
      <4>1. 1 \in DOMAIN Ops(p)
        BY <1>3, PacketFacts
      <4> QED BY <1>2, <2>3, <4>1 DEF PacketSound, Ops
    <3>3. Shown(first, tree)
      BY <1>16, <2>3, <3>1 DEF FirstShown
    <3> QED BY <1>6, <2>1, <3>2, <3>3 DEF Shown
  <2>4. CASE l # k
    <3>1. Shown(first, tree)
      BY <1>16, <2>4 DEF FirstShown
    <3>2. first.path \notin {op.path, op.dest}
      BY <1>14, <1>16, <2>1, <2>4
    <3> QED BY <1>6, <2>1, <3>1, <3>2 DEF Shown
  <2> QED BY <2>2, <2>3, <2>4
<1>18. FailuresClean'
  <2>1. ASSUME NEW e \in Drives, drive'[e] # NoDrive PROVE DriveClean(drive[e])'
    <3>1. CASE e = d
      BY <1>5, <3>1 DEF DriveClean
    <3>2. CASE e # d
      <4> SUFFICES ASSUME Undisturbed(drive[e].app)', drive[e].pc \in {"write", "finish"}
                   PROVE  DriveClean(drive[e])'
        BY <1>5, <3>2 DEF DriveClean
      <4>1. drive'[e] = drive[e] /\ drive[e].app \in Applications /\ application[drive[e].app] # None
            /\ DriveClean(drive[e])
        BY <1>5, <2>1, <3>2 DEF TypeOK, DriveRow, FailuresClean, DrivesSound, DriveSound
      <4>2. drive[e].app # k
        <5> SUFFICES ASSUME drive[e].app = k PROVE FALSE
          OBVIOUS
        <5>1. k \notin shared
          BY DEF Undisturbed
        <5> QED BY <1>2, <1>4, <3>2, <5>1 DEF DrivesAlone, Busy
      <4> QED BY <1>16, <4>1, <4>2 DEF DriveClean, Repeatable, Ops
    <3> QED BY <3>1, <3>2
  <2>2. ASSUME NEW l \in Applications, application[l] # None, Undisturbed(l)', application[l].status = "failed"
        PROVE  Repeatable(application[l].of)'
    <3>1. l # k
      <4> SUFFICES ASSUME l = k PROVE FALSE
        OBVIOUS
      <4>1. k \notin shared
        BY <2>2 DEF Undisturbed
      <4> QED BY <1>2, <1>4, <2>2, <4>1 DEF DrivesAlone
    <3> QED BY <1>16, <2>2, <3>1 DEF FailuresClean, Repeatable, Ops
  <2> QED BY <2>1, <2>2 DEF FailuresClean
<1>19. OutcomesSound'
  <2> SUFFICES ASSUME NEW l \in Applications, application[l] # None
               PROVE  /\ application[l].status = "applied" => effects'[application[l].of] = DOMAIN Ops(application[l].of)
                      /\ application[l].status = "recovery_required" => effects'[application[l].of] # {}
    BY DEF OutcomesSound, Ops
  <2>1. application[l].of \in Proposals
    BY OfProposal
  <2> QED BY <1>7, <1>8, <2>1 DEF OutcomesSound
<1> QED BY <1>9, <1>10, <1>11, <1>12, <1>13, <1>15, <1>17, <1>18, <1>19

LEMMA InvApplyOne ==
  ASSUME IInv, NEW d \in Drives, ApplyOne(d)
  PROVE  IInv'
<1> DEFINE k == drive[d].app
           p == application[k].of
           i == drive[d].done + 1
           pc == IF i = Len(RowOf(d).ops) THEN "verify" ELSE "check"
           m == [drive[d] EXCEPT !.done = i, !.pc = pc]
<1>1. drive[d].pc = "write" /\ drive[d] # NoDrive /\ drive[d].pc \in Busy
  BY DEF ApplyOne, NoDrive, Busy
<1>2. /\ drive[d] \in DriveRow /\ k \in Applications /\ p \in Proposals
      /\ drive[d].done \in Nat /\ i \in DOMAIN Ops(p) /\ NextOp(d) = Ops(p)[i] /\ NextOp(d) \in Operations
      /\ RowOf(d) = proposal[p]
  BY <1>1, DriveFacts DEF DriveRow, RowOf, NextOp, Ops
<1>3. CASE /\ Possible(NextOp(d), tree)
           /\ tree' = Written(NextOp(d), RowOf(d).source, tree)
           /\ effects' = [effects EXCEPT ![p] = effects[p] \cup {i}]
           /\ drive' = [drive EXCEPT ![d] = m]
  <2>1. /\ pc \in {"verify", "check"}
        /\ pc = "verify" => i = Len(Ops(p))
        /\ pc = "check" => i # Len(Ops(p))
    BY <1>2 DEF Ops
  <2> HIDE DEF pc
  <2>2. m \in DriveRow /\ m.app = k /\ m.done = i /\ m.pc = pc
    <3>1. i \in Nat
      BY <1>2
    <3> HIDE DEF i
    <3> QED BY <1>2, <2>1, <3>1 DEF DriveRow
  <2>3. UNCHANGED <<proposal, approval, application, receipt, lease, edits, crashes, shared>>
    BY DEF ApplyOne
  <2> HIDE DEF m, k, p, i
  <2>4. k = drive[d].app /\ p = application[k].of /\ i = drive[d].done + 1 /\ i \in Nat
    BY <1>2 DEF k, p, i
  <2> QED BY <1>1, <1>2, <1>3, <2>1, <2>2, <2>3, <2>4, InvWritten
<1>4. CASE Outcome(d, OutcomeOfError(drive[d].done)) /\ UNCHANGED <<tree, effects>>
  BY <1>1, <1>4, InvRefused DEF ApplyOne
<1> QED BY <1>3, <1>4 DEF ApplyOne

\* FinalizeApplication, when the outcome is recorded: the call was the only one,
\* or the application is marked.
LEMMA InvRecord ==
  ASSUME IInv, NEW d \in Drives, NEW k \in Applications, NEW p \in Proposals, NEW m,
         drive[d].pc = "finish", drive[d].app = k, application[k].of = p,
         Record(d, k, p), drive' = [drive EXCEPT ![d] = m],
         m = NoDrive \/ (m \in DriveRow /\ m.pc = "receipt" /\ m.app = k /\ m.done = drive[d].done),
         UNCHANGED <<approval, receipt, tree, lease, edits, crashes, effects, shared>>
  PROVE  IInv'
<1> DEFINE outcome == drive[d].outcome
<1> USE DEF IInv
<1>1. drive[d] # NoDrive /\ drive[d].pc \in Busy
  BY DEF NoDrive, Busy
<1>2. /\ drive[d] \in DriveRow /\ DriveSound(drive[d]) /\ DriveClean(drive[d])
      /\ application[k] # None /\ application[k] \in ApplicationRow
      /\ proposal[p] # None /\ proposal[p] \in ProposalRow
      /\ outcome \in Terminal
  BY <1>1, DriveFacts DEF RowOf, DriveSound
<1>3. /\ application[k].status = "applying" /\ proposal[p].status = "applying"
      /\ application' = [application EXCEPT ![k].status = outcome]
      /\ proposal' = [proposal EXCEPT ![p].status = outcome]
  BY <1>2 DEF Record, StillApplying, ApplicationsAgree
<1> HIDE DEF outcome
<1>4. /\ application' \in [Applications -> ApplicationRow \cup {None}]
      /\ \A l \in Applications : application[l] # None =>
           /\ application'[l] # None /\ application'[l].of = application[l].of
           /\ application'[l].status = IF l = k THEN outcome ELSE application[l].status
      /\ \A l \in Applications : application[l] = None => application'[l] = None
  BY <1>2, <1>3, NoRowAssumption DEF TypeOK, ApplicationRow
<1>5. /\ proposal' \in [Proposals -> ProposalRow \cup {None}]
      /\ \A q \in Proposals : proposal[q] # None =>
           /\ proposal'[q] # None
           /\ proposal'[q].ops = proposal[q].ops /\ proposal'[q].source = proposal[q].source
           /\ proposal'[q].mode = proposal[q].mode
           /\ proposal'[q].status = IF q = p THEN outcome ELSE proposal[q].status
      /\ \A q \in Proposals : proposal[q] = None => proposal'[q] = None
  BY <1>2, <1>3, NoRowAssumption DEF TypeOK, ProposalRow
<1>6. /\ drive' \in [Drives -> DriveRow \cup {NoDrive}]
      /\ \A e \in Drives : drive'[e] = IF e = d THEN m ELSE drive[e]
  BY DEF TypeOK
<1>7. TypeOK'
  BY <1>4, <1>5, <1>6 DEF TypeOK
<1>8. RowsPlanned' /\ EffectsInOrder'
  BY <1>2, <1>5 DEF RowsPlanned, PacketSound, EffectsInOrder, Ops
<1>9. ApplicationsAgree'
  <2>1. \A l \in Applications : application'[l] # None =>
          proposal'[application'[l].of] # None /\ proposal'[application'[l].of].status = application'[l].status
    BY <1>2, <1>4, <1>5, OfProposal DEF ApplicationsAgree
  <2>2. \A l, n \in Applications :
          application'[l] # None /\ application'[n] # None /\ application'[l].of = application'[n].of => l = n
    BY <1>4 DEF ApplicationsAgree
  <2>3. \A q \in Proposals : proposal'[q] # None /\ proposal'[q].status \in {"applying"} \cup Terminal =>
          \E l \in Applications : application'[l] # None /\ application'[l].of = q
    BY <1>3, <1>4, <1>5 DEF ApplicationsAgree
  <2> QED BY <2>1, <2>2, <2>3 DEF ApplicationsAgree
<1>10. DecisionsFollowed'
  <2>1. \A a \in Approvals : approval[a] # None => proposal'[approval[a].of] # None
    BY <1>5 DEF DecisionsFollowed, TypeOK, ApprovalRow
  <2>2. outcome # "awaiting_approval"
    BY <1>2 DEF Terminal, outcome
  <2> QED BY <1>2, <1>3, <1>5, <2>1, <2>2 DEF DecisionsFollowed
<1>11. ASSUME NEW l \in Applications, application[l] # None
       PROVE  /\ Undisturbed(l)' => Undisturbed(l)
              /\ Ops(application[l].of)' = Ops(application[l].of)
              /\ application[l].of \in Proposals
              /\ Repeatable(application[l].of)' = Repeatable(application[l].of)
  BY <1>4, <1>5, <1>11, OfProposal, UndisturbedBefore DEF ApplicationsAgree, Repeatable, Ops
<1>12. DrivesSound'
  <2> SUFFICES ASSUME NEW e \in Drives, drive'[e] # NoDrive PROVE DriveSound(drive[e])'
    BY DEF DrivesSound
  <2>1. drive'[e].app \in Applications /\ DriveSound(drive'[e])
    <3>1. CASE e = d
      BY <1>2, <1>6, <3>1 DEF DriveSound, DriveRow
    <3>2. CASE e # d
      BY <1>6, <3>2 DEF DrivesSound, TypeOK, DriveRow
    <3> QED BY <3>1, <3>2
  <2> QED BY <1>4, <1>11, <2>1 DEF DriveSound
<1>13. DrivesAlone'
  <2>1. m.pc \notin Busy
    BY DEF NoDrive, Busy
  <2>2. \A l \in Applications \ shared, e \in Drives : drive'[e].pc \in Busy /\ drive'[e].app = l => l # k
    BY <1>1, <1>6, <2>1 DEF DrivesAlone
  <2>3. \A l \in Applications, e \in Drives : drive'[e].pc \in Busy /\ drive'[e].app = l =>
          e # d /\ drive'[e] = drive[e] /\ application[l] # None
    BY <1>6, <2>1 DEF DrivesSound, DriveSound, NoDrive, Busy
  <2> QED BY <1>4, <1>6, <2>2, <2>3 DEF DrivesAlone
<1>14. NewContent'
  BY <1>5 DEF NewContent, EffectsInOrder, Ops
<1>15. FirstShown'
  BY <1>4, <1>11 DEF FirstShown
<1>16. FailuresClean'
  <2>1. ASSUME NEW e \in Drives, drive'[e] # NoDrive PROVE DriveClean(drive[e])'
    <3>1. CASE e = d
      BY <1>6, <2>1, <3>1 DEF DriveClean
    <3>2. CASE e # d
      <4>1. drive'[e] = drive[e] /\ drive[e].app \in Applications /\ DriveClean(drive[e])
            /\ application[drive[e].app] # None
        BY <1>6, <2>1, <3>2 DEF TypeOK, DriveRow, FailuresClean, DrivesSound, DriveSound
      <4> QED BY <1>4, <1>11, <4>1 DEF DriveClean
    <3> QED BY <3>1, <3>2
  <2>2. ASSUME NEW l \in Applications, application[l] # None, Undisturbed(l)', application'[l].status = "failed"
        PROVE  Repeatable(application[l].of)'
    <3>1. CASE l = k
      <4>1. outcome = "failed"
        BY <1>2, <1>4, <2>2, <3>1
      <4> QED BY <1>11, <2>2, <3>1, <4>1, <1>2 DEF DriveClean, outcome
    <3>2. CASE l # k
      BY <1>4, <1>11, <2>2, <3>2 DEF FailuresClean
    <3> QED BY <3>1, <3>2
  <2> QED BY <1>4, <2>1, <2>2 DEF FailuresClean
<1>17. OutcomesSound' /\ ReceiptsSound'
  <2>1. ReceiptsSound'
    BY <1>3, <1>4 DEF ReceiptsSound, Terminal, TypeOK
  <2>2. ASSUME NEW l \in Applications, application[l] # None
        PROVE  /\ application'[l].status = "applied" => effects[application[l].of] = DOMAIN Ops(application[l].of)
               /\ application'[l].status = "recovery_required" => effects[application[l].of] # {}
    BY <1>2, <1>4, <2>2 DEF OutcomesSound, DriveSound, outcome
  <2> QED BY <1>4, <1>11, <2>1, <2>2 DEF OutcomesSound
<1> QED BY <1>7, <1>8, <1>9, <1>10, <1>12, <1>13, <1>14, <1>15, <1>16, <1>17

LEMMA InvFinalize ==
  ASSUME IInv, NEW d \in Drives, FinalizeApplication(d)
  PROVE  IInv'
<1> DEFINE k == drive[d].app
           p == application[k].of
           m == IF drive[d].outcome = "applied" /\ application'[k].status = "applied"
                THEN [drive[d] EXCEPT !.pc = "receipt"] ELSE NoDrive
<1>1. drive[d].pc = "finish" /\ drive[d] # NoDrive
  BY DEF FinalizeApplication, NoDrive
<1>2. drive[d] \in DriveRow /\ DriveSound(drive[d]) /\ k \in Applications /\ p \in Proposals
  BY <1>1, DriveFacts DEF DriveRow
<1>3. drive' = [drive EXCEPT ![d] = m]
  BY DEF FinalizeApplication
<1>4. m = NoDrive \/ (m \in DriveRow /\ m.pc = "receipt" /\ m.app = k /\ m.done = drive[d].done)
  BY <1>2 DEF DriveRow
<1> HIDE DEF m
<1>5. CASE Record(d, k, p)
  BY <1>1, <1>2, <1>3, <1>4, <1>5, InvRecord DEF FinalizeApplication
<1>6. CASE Discard(d, k, p)
  <2>1. m # NoDrive => DriveSound(m) /\ DriveClean(m) /\ m.pc \notin Busy
    BY <1>2, <1>4 DEF DriveSound, DriveClean, Busy
  <2>2. UNCHANGED <<proposal, approval, application, receipt, tree, lease, edits, crashes, effects, shared>>
    BY <1>6 DEF FinalizeApplication, Discard
  <2>3. /\ crashes' \in 0..MaxCrashes
        /\ receipt' \subseteq Applications
        /\ \A l \in receipt' : application[l] # None /\ application[l].status = "applied"
    BY <2>2 DEF IInv, TypeOK, ReceiptsSound
  <2>4. m = NoDrive \/ (m \in DriveRow /\ DriveSound(m) /\ DriveClean(m) /\ (m.pc \in Busy => drive[d].pc \in Busy /\ drive[d].app = m.app))
    BY <1>4, <2>1 DEF NoDrive
  <2> HIDE DEF k, p
  <2> QED BY <1>3, <2>2, <2>3, <2>4, InvDriveMove
<1> QED BY <1>5, <1>6 DEF FinalizeApplication

LEMMA InvAttach ==
  ASSUME IInv, NEW d \in Drives, AttachReceipt(d)
  PROVE  IInv'
<1>1. drive[d].pc = "receipt" /\ drive[d] # NoDrive
  BY DEF AttachReceipt, NoDrive
<1>2. drive[d].app \in Applications /\ application[drive[d].app] # None
  BY <1>1, DriveFacts DEF DriveRow, DriveSound
<1>3. /\ receipt' \subseteq Applications
      /\ \A k \in receipt' : application[k] # None /\ application[k].status = "applied"
  BY <1>2 DEF AttachReceipt, Finalized, IInv, TypeOK, ReceiptsSound
<1> QED BY <1>3, InvDriveMove DEF AttachReceipt, IInv, TypeOK

LEMMA InvCrash ==
  ASSUME IInv, NEW d \in Drives, Crash(d)
  PROVE  IInv'
<1>1. crashes' \in 0..MaxCrashes
  BY RepositoryChangeAssumption DEF Crash, IInv, TypeOK
<1> QED BY <1>1, InvDriveMove DEF Crash, IInv, TypeOK, ReceiptsSound

LEMMA InvNext == IInv /\ [Next]_vars => IInv'
<1> SUFFICES ASSUME IInv, [Next]_vars PROVE IInv'
  OBVIOUS
<1>1. CASE \E d \in Drives : DriveStep(d) \/ Crash(d)
  BY <1>1, InvCheck, InvApplyOne, InvVerify, InvFinalize, InvAttach, InvCrash DEF DriveStep
<1>2. CASE \E d \in Drives, k \in Applications : application[k] # None /\
             \E f \in Fences(application[k].of) : ApplyAgain(d, k, f)
  BY <1>2, InvApplyAgain
<1>3. CASE \E a \in Approvals : Expire(a)
  BY <1>3, InvAround DEF Expire
<1>4. CASE UNCHANGED vars
  BY <1>4, InvAround DEF vars, IInv, TypeOK
<1> QED BY <1>1, <1>2, <1>3, <1>4, InvPropose, InvApprove, InvBegin, InvEdit, InvLoseLease DEF Next

------------------------------------------------------------------------------
\* The theorems

\* Rows, calls and files agree in every reachable state: a packet is as it was
\* planned, what a call believes done is done, and where nobody interferes a call
\* that fails at the first operation has changed nothing (the transactions of
\* store/repository_changes.go, change/executor.go and change/service.go).
THEOREM Accounting == Spec => []IInv
<1>1. Init => IInv
  BY InvInit
<1>2. IInv /\ [Next]_vars => IInv'
  BY InvNext
<1> QED BY <1>1, <1>2, PTL DEF Spec

LEMMA FollowsApplication ==
  ASSUME IInv
  PROVE  ProposalFollowsApplication
<1> SUFFICES ASSUME NEW p \in Proposals
             PROVE  LET mine == {k \in Applications : application[k] # None /\ application[k].of = p} IN
                    /\ Cardinality(mine) <= 1
                    /\ mine = {} <=> (proposal[p] = None \/ proposal[p].status \in
                                       {"awaiting_approval", "approved", "rejected"})
                    /\ \A k \in mine : application[k].status = proposal[p].status
  BY DEF ProposalFollowsApplication
<1> DEFINE mine == {k \in Applications : application[k] # None /\ application[k].of = p}
<1>1. \A k \in mine : application[k].status = proposal[p].status
  BY DEF IInv, ApplicationsAgree
<1>2. Cardinality(mine) <= 1
  <2>1. mine = {} \/ \E k \in mine : mine = {k}
    BY DEF IInv, ApplicationsAgree
  <2> HIDE DEF mine
  <2>2. Cardinality(mine) = 0 \/ Cardinality(mine) = 1
    BY <2>1, FS_EmptySet, FS_Singleton, Zenon
  <2> QED BY <2>2
<1>3. mine = {} <=> (proposal[p] = None \/ proposal[p].status \in {"awaiting_approval", "approved", "rejected"})
  <2>1. ASSUME NEW k \in mine
        PROVE  proposal[p] # None /\ proposal[p].status \in {"applying"} \cup Terminal
    BY <2>1, OfProposal DEF IInv, ApplicationsAgree, ApplicationRow
  <2>2. ASSUME proposal[p] # None, proposal[p].status \notin {"awaiting_approval", "approved", "rejected"}
        PROVE  mine # {}
    BY <2>2, OpsOf DEF IInv, ApplicationsAgree, ProposalRow
  <2> QED BY <2>1, <2>2 DEF Terminal
<1> QED BY <1>1, <1>2, <1>3

LEMMA OutcomesTell ==
  ASSUME IInv
  PROVE  OutcomeTellsEffects
<1> SUFFICES ASSUME NEW k \in Applications, application[k] # None
             PROVE  LET p == application[k].of IN
                    /\ application[k].status = "applied" => effects[p] = DOMAIN proposal[p].ops
                    /\ k \in receipt => application[k].status = "applied"
                    /\ application[k].status = "recovery_required" => effects[p] # {}
                    /\ application[k].status = "failed" /\ Undisturbed(k) =>
                         effects[p] = {} \/ proposal[p].ops[1].type = "chmod"
  BY DEF OutcomeTellsEffects
<1> QED BY DEF IInv, OutcomesSound, ReceiptsSound, FailuresClean, Repeatable, Ops

LEMMA ApprovedTouch ==
  ASSUME IInv
  PROVE  OnlyApprovedTouch
<1> SUFFICES ASSUME NEW p \in Proposals, effects[p] # {}
             PROVE  LET decisions == {approval[a].decision :
                          a \in {b \in Approvals : approval[b] # None /\ approval[b].of = p}}
                    IN decisions = IF proposal[p].mode = "automatic" THEN {} ELSE {"approved"}
  BY DEF OnlyApprovedTouch
<1>1. IF proposal[p].mode = "automatic"
      THEN \A a \in Approvals : approval[a] # None => approval[a].of # p
      ELSE /\ \E a \in Approvals : approval[a] # None /\ approval[a].of = p
           /\ \A a \in Approvals : approval[a] # None /\ approval[a].of = p =>
                approval[a].decision = "approved"
  BY DEF IInv, EffectsInOrder, DecisionsFollowed
<1> QED BY <1>1

\* Decisions, rows and files tell the same story: one application per proposal,
\* its outcome tells what happened to the files across crashes and repeated
\* calls, and only what was approved touches them (Propose, Approve,
\* BeginApplication, Executor.Apply, FinalizeApplication, the receipt).
THEOREM ChangesAccounted == Spec => []EffectsAccounted
<1>1. IInv => EffectsAccounted
  BY FollowsApplication, OutcomesTell, ApprovedTouch DEF EffectsAccounted, IInv
<1> QED BY <1>1, Accounting, PTL

\* A task-bound application starts and ends under the live fence of its proposal
\* only, and an outcome is never changed (validateChangeTaskFenceTx, the status
\* guard of FinalizeApplication).
THEOREM StaleFenceChangesNothing == Spec => StaleOrEndedStays
<1>1. IInv /\ [Next]_vars =>
        [\A k \in Applications : application[k] # application'[k] =>
           LET p == application'[k].of IN
           /\ proposal[p].fence # 0 => proposal[p].fence = lease.fence /\ lease.live
           /\ application[k] # None => application[k].status = "applying"]_vars
  <2> SUFFICES ASSUME IInv, Next, NEW k \in Applications, application[k] # application'[k]
               PROVE  LET p == application'[k].of IN
                      /\ proposal[p].fence # 0 => proposal[p].fence = lease.fence /\ lease.live
                      /\ application[k] # None => application[k].status = "applying"
    OBVIOUS
  <2>1. CASE \E d \in Drives, l \in Applications, p \in Proposals : proposal[p] # None /\
               \E f \in Fences(p) : BeginApplication(d, l, p, f)
    <3> PICK d \in Drives, l \in Applications, p \in Proposals : \E f \in Fences(p) : BeginApplication(d, l, p, f)
      BY <2>1
    <3> PICK f \in Fences(p) : BeginApplication(d, l, p, f)
      OBVIOUS
    <3>1. application'[l] = [of |-> p, status |-> "applying"] /\ \A j \in Applications : j # l => application'[j] = application[j]
      BY DEF BeginApplication, IInv, TypeOK
    <3> QED BY <3>1 DEF BeginApplication, FenceHolds
  <2>2. CASE \E d \in Drives : DriveStep(d) \/ Crash(d)
    <3> PICK d \in Drives : FinalizeApplication(d)
      BY <2>2 DEF DriveStep, Crash, CheckPrecondition, ApplyOne, Verify, AttachReceipt
    <3> DEFINE l == drive[d].app
    <3>1. l \in Applications /\ application[l] # None
      BY DriveFacts DEF FinalizeApplication, NoDrive, DriveRow, DriveSound
    <3>2. Record(d, l, application[l].of)
      BY DEF FinalizeApplication, Discard
    <3>3. application' = [application EXCEPT ![l].status = drive[d].outcome]
      BY <3>2 DEF Record
    <3>4. k = l /\ application[l] \in ApplicationRow
      BY <3>1, <3>3, OfProposal DEF IInv, TypeOK
    <3>5. application'[l].of = application[l].of
      BY <3>1, <3>3, <3>4 DEF IInv, TypeOK, ApplicationRow
    <3> QED BY <3>2, <3>4, <3>5 DEF Record, FenceHolds, StillApplying
  <2> QED
    BY <2>1, <2>2 DEF Next, Propose, Approve, Expire, ApplyAgain, Edit, LoseLease
<1> QED BY <1>1, Accounting, PTL DEF Spec, StaleOrEndedStays

===============================================================================
