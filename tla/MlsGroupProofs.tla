---------------------------- MODULE MlsGroupProofs ----------------------------
(***************************************************************************)
(* Theorems about MlsGroup for any number of users, devices and requests.  *)
(***************************************************************************)
EXTENDS MlsGroup, TLAPS

-----------------------------------------------------------------------------
(* What the membership rules answer.                                         *)

\* Every row of the table answers with a state, or refuses.
LEMMA OutcomeType ==
  ASSUME NEW from \in MembershipFrom, NEW event \in MembershipEvents
  PROVE  Outcome(event, from) \in MembershipFrom \cup {"illegal"}
  BY DEF Outcome, MembershipEvents, MlsOnlyEvents, MembershipFrom, ParticipantStates,
         AddDirect, AddInvite, AcceptAnswer, DeclineAnswer, Remove, CommitAdded,
         CommitRemoved, GroupActivated, IsEntitledToLeaf, EntitledToLeafStates

\* So does a transition, collapsed or not.
LEMMA TransitionType ==
  ASSUME NEW from \in MembershipFrom, NEW event \in MembershipEvents,
         NEW mlsActive \in BOOLEAN
  PROVE  ResolveMembershipTransition(from, event, mlsActive)
           \in MembershipFrom \cup {"illegal"}
  BY OutcomeType DEF ResolveMembershipTransition, CollapsedWhenNotMls, MembershipFrom,
                     ParticipantStates

\* And so does a planned change.
LEMMA PlanType ==
  ASSUME NEW r, NEW from \in MembershipFrom, NEW event \in MembershipEvents,
         NEW mlsActive \in BOOLEAN, NEW hasLeaf \in BOOLEAN
  PROVE  PlanMembershipChange(r, from, event, mlsActive, hasLeaf)
           \in MembershipFrom \cup {"illegal"}
  BY TransitionType, FALSE \in BOOLEAN DEF PlanMembershipChange

-----------------------------------------------------------------------------
(* Type correctness.                                                         *)

\* A membership change leaves states and roles in their types.
LEMMA ChangeMembershipType ==
  ASSUME TypeOK, NEW u \in Users, NEW event \in MembershipEvents,
         ChangeMembership(u, event)
  PROVE  /\ state' \in [Users -> MembershipFrom]
         /\ role' \in [Users -> Roles]
<1>1. Planned(u, event) \in MembershipFrom
  <2>1. HasRoster \in BOOLEAN /\ (HasRoster /\ HasLeaf(u)) \in BOOLEAN
    BY DEF HasRoster, HasLeaf
  <2>2. state[u] \in MembershipFrom
    BY DEF TypeOK
  <2>3. Planned(u, event) \in MembershipFrom \cup {"illegal"}
    BY <2>1, <2>2, PlanType DEF Planned
  <2>. QED  BY <2>3 DEF ChangeMembership
<1>2. RoleAfter(role[u], state[u], Planned(u, event)) \in Roles
  BY DEF TypeOK, RoleAfter, Roles
<1>. QED  BY <1>1, <1>2 DEF TypeOK, ChangeMembership

\* An accepted Commit keeps every variable in its type.
LEMMA ApplyCommitType ==
  ASSUME TypeOK, NEW base \in Nat, NEW sender \in Devices, NEW external \in BOOLEAN,
         NEW founder \in BOOLEAN, NEW added \in SUBSET Devices, NEW removed \in SUBSET Devices,
         ApplyCommit(base, sender, external, founder, added, removed)
  PROVE  TypeOK'
<1>1. state' \in [Users -> MembershipFrom]
  <2>1. ASSUME NEW u \in Users
        PROVE  state'[u] \in MembershipFrom \cup {"illegal"}
    <3>1. state[u] \in MembershipFrom
      BY DEF TypeOK
    <3>2. CommitEvent(u, sender, added, removed, founder) \in MlsOnlyEvents \cup {"none"}
      BY DEF CommitEvent, CommitEventFor, MlsOnlyEvents
    <3>3. state'[u] = IF CommitEvent(u, sender, added, removed, founder) = "none" THEN state[u]
                      ELSE ResolveMembershipTransition(state[u],
                             CommitEvent(u, sender, added, removed, founder), TRUE)
      BY DEF ApplyCommit, StateAfterCommit
    <3>. QED
      BY <3>1, <3>2, <3>3, TransitionType DEF MembershipEvents, MlsOnlyEvents
  <2>. QED  BY <2>1 DEF ApplyCommit, StateAfterCommit
<1>2. roster' \subseteq Leaf
  <2>1. \A x \in roster : [x EXCEPT !.removed = epoch + 1] \in Leaf /\ x \in Leaf
    BY DEF TypeOK, Leaf
  <2>2. \A d \in Devices : [device |-> d, added |-> epoch + 1, removed |-> Live] \in Leaf
    BY DEF TypeOK, Leaf
  <2>3. [device |-> sender, added |-> 0, removed |-> Live] \in Leaf
    BY DEF TypeOK, Leaf
  <2>. QED  BY <2>1, <2>2, <2>3 DEF ApplyCommit, RosterAfterCommit
<1>3. handshakes' \subseteq Handshake
  BY DEF TypeOK, ApplyCommit, Handshake
<1>4. epoch' \in Nat
  BY DEF TypeOK, ApplyCommit
<1>. QED  BY <1>1, <1>2, <1>3, <1>4 DEF TypeOK, ApplyCommit

\* A request that read and now waits is recorded with its type.
LEMMA BeginType ==
  ASSUME TypeOK, NEW op, NEW u \in Users, NEW target \in Users, NEW e \in Nat,
         op \in {"leave", "close", "transfer", "role", "expire", "block",
                 "requestAgain", "reopen"},
         Begin(op, u, target, e)
  PROVE  TypeOK'
  BY DEF TypeOK, Begin, Count, Request, membershipVars, groupVars

\* Every step keeps the types.
LEMMA NextType == TypeOK /\ [Next]_vars => TypeOK'
<1>. SUFFICES ASSUME TypeOK, [Next]_vars PROVE TypeOK'
  OBVIOUS
<1>1. CASE CommitStep
  <2>. SUFFICES ASSUME NEW d \in Devices, NEW base \in 0 .. epoch,
                       \/ \E added \in SUBSET Devices : AcceptFoundingCommit(d, base, added)
                       \/ \E added, removed \in SUBSET Devices :
                            AcceptMemberCommit(d, base, added, removed)
                       \/ \E resync \in BOOLEAN : AcceptExternalJoin(d, base, resync)
                PROVE  TypeOK'
    BY <1>1 DEF CommitStep
  <2>0. base \in Nat /\ {} \in SUBSET Devices /\ {d} \in SUBSET Devices
    BY DEF TypeOK
  <2>1. ASSUME NEW added \in SUBSET Devices, AcceptFoundingCommit(d, base, added)
        PROVE  TypeOK'
    BY <2>0, <2>1, ApplyCommitType DEF AcceptFoundingCommit
  <2>2. ASSUME NEW added \in SUBSET Devices, NEW removed \in SUBSET Devices,
               AcceptMemberCommit(d, base, added, removed)
        PROVE  TypeOK'
    BY <2>0, <2>2, ApplyCommitType DEF AcceptMemberCommit
  <2>3. ASSUME NEW resync \in BOOLEAN, AcceptExternalJoin(d, base, resync)
        PROVE  TypeOK'
    BY <2>0, <2>3, ApplyCommitType DEF AcceptExternalJoin
  <2>. QED  BY <2>1, <2>2, <2>3
<1>2. CASE DeviceStep
  <2>. SUFFICES ASSUME NEW d \in Devices,
                       \/ Admit(d) \/ Refuse(d) \/ RegisterDevice(d) \/ RevokeDevice(d)
                       \/ \E e \in 0 .. epoch : SendMessage(d, e)
                PROVE  TypeOK'
    BY <1>2 DEF DeviceStep
  <2>1. CASE Admit(d)
    BY <2>1 DEF TypeOK, Admit, membershipVars, groupVars
  <2>2. CASE Refuse(d)
    BY <2>2 DEF TypeOK, Refuse, membershipVars, groupVars
  <2>3. CASE RegisterDevice(d)
    BY <2>3 DEF TypeOK, RegisterDevice, Count, membershipVars, groupVars
  <2>4. CASE RevokeDevice(d)
    BY <2>4 DEF TypeOK, RevokeDevice, Count, membershipVars, groupVars
  <2>5. ASSUME NEW e \in 0 .. epoch, SendMessage(d, e)
        PROVE  TypeOK'
    BY <2>5 DEF TypeOK, SendMessage, Message, membershipVars, groupVars
  <2>. QED  BY <2>1, <2>2, <2>3, <2>4, <2>5
<1>3. CASE MembershipStep
  <2>. SUFFICES ASSUME NEW u \in Users,
                       \/ \E v \in Users, event \in {"ADD_DIRECT", "ADD_INVITE"} :
                            AddMember(u, v, event)
                       \/ \E v \in Users : RemoveMember(u, v)
                       \/ AcceptInvite(u) \/ DeclineInvite(u)
                       \/ ArchiveConversation(u) \/ UnarchiveConversation(u)
                PROVE  TypeOK'
    BY <1>3 DEF MembershipStep
  <2>1. ASSUME NEW v \in Users, NEW event \in {"ADD_DIRECT", "ADD_INVITE"},
               AddMember(u, v, event)
        PROVE  TypeOK'
    <3>1. event \in MembershipEvents
      BY DEF MembershipEvents
    <3>2. /\ state' \in [Users -> MembershipFrom]
          /\ role' \in [Users -> Roles]
      BY <2>1, <3>1, ChangeMembershipType DEF AddMember
    <3>. QED  BY <2>1, <3>2 DEF TypeOK, AddMember, Count, groupVars
  <2>2. ASSUME NEW v \in Users, RemoveMember(u, v)
        PROVE  TypeOK'
    <3>1. "REMOVE" \in MembershipEvents
      BY DEF MembershipEvents
    <3>2. /\ state' \in [Users -> MembershipFrom]
          /\ role' \in [Users -> Roles]
      BY <2>2, <3>1, ChangeMembershipType DEF RemoveMember
    <3>. QED  BY <2>2, <3>2 DEF TypeOK, RemoveMember, Count, groupVars
  <2>3. CASE AcceptInvite(u)
    <3>1. "ACCEPT_INVITE" \in MembershipEvents
      BY DEF MembershipEvents
    <3>2. /\ state' \in [Users -> MembershipFrom]
          /\ role' \in [Users -> Roles]
      BY <2>3, <3>1, ChangeMembershipType DEF AcceptInvite
    <3>. QED  BY <2>3, <3>2 DEF TypeOK, AcceptInvite, Count, groupVars
  <2>4. CASE DeclineInvite(u)
    <3>1. "DECLINE_INVITE" \in MembershipEvents
      BY DEF MembershipEvents
    <3>2. /\ state' \in [Users -> MembershipFrom]
          /\ role' \in [Users -> Roles]
      BY <2>4, <3>1, ChangeMembershipType DEF DeclineInvite
    <3>. QED  BY <2>4, <3>2 DEF TypeOK, DeclineInvite, Count, groupVars
  <2>5. CASE ArchiveConversation(u)
    BY <2>5 DEF TypeOK, ArchiveConversation, Count, groupVars, MembershipFrom, ParticipantStates
  <2>6. CASE UnarchiveConversation(u)
    BY <2>6 DEF TypeOK, UnarchiveConversation, Count, groupVars, MembershipFrom,
                ParticipantStates
  <2>. QED  BY <2>1, <2>2, <2>3, <2>4, <2>5, <2>6
<1>4. CASE BeginStep
  <2>. SUFFICES ASSUME NEW u \in Users,
                       \/ BeginLeave(u) \/ BeginExpire(u) \/ BeginBlock(u) \/ BeginReopen(u)
                       \/ \E v \in Users : \/ BeginTransfer(u, v) \/ BeginUpdateRole(u, v)
                                          \/ BeginRequestAgain(u, v)
                PROVE  TypeOK'
    BY <1>4 DEF BeginStep
  <2>1. epoch \in Nat /\ 0 \in Nat
    BY DEF TypeOK
  <2>2. CASE BeginLeave(u)
    BY <2>1, <2>2, BeginType DEF BeginLeave
  <2>3. CASE BeginExpire(u) \/ BeginBlock(u) \/ BeginReopen(u)
    BY <2>1, <2>3, BeginType DEF BeginExpire, BeginBlock, BeginReopen
  <2>4. ASSUME NEW v \in Users,
               BeginTransfer(u, v) \/ BeginUpdateRole(u, v) \/ BeginRequestAgain(u, v)
        PROVE  TypeOK'
    BY <2>1, <2>4, BeginType DEF BeginTransfer, BeginUpdateRole, BeginRequestAgain
  <2>. QED  BY <2>2, <2>3, <2>4
<1>5. CASE FinishStep
  <2>. SUFFICES ASSUME NEW r \in requests,
                       \/ FinishLeave(r) \/ FinishClose(r) \/ FinishTransfer(r)
                       \/ \E newRole \in Roles : FinishUpdateRole(r, newRole)
                       \/ FinishExpire(r) \/ FinishBlock(r) \/ FinishRequestAgain(r)
                       \/ FinishReopen(r) \/ Abandon(r)
                PROVE  TypeOK'
    BY <1>5 DEF FinishStep
  <2>0. r.user \in Users /\ r.target \in Users /\ r.epoch \in Nat
    BY DEF TypeOK, Request
  <2>1. {"REMOVE", "EXPIRE_INVITE", "ADD_INVITE", "ADD_DIRECT"} \subseteq MembershipEvents
    BY DEF MembershipEvents
  <2>2. CASE FinishLeave(r) \/ FinishExpire(r) \/ FinishRequestAgain(r) \/ FinishReopen(r)
    <3>1. /\ state' \in [Users -> MembershipFrom]
          /\ role' \in [Users -> Roles]
      BY <2>0, <2>1, <2>2, ChangeMembershipType
         DEF FinishLeave, FinishExpire, FinishRequestAgain, FinishReopen
    <3>. QED
      BY <2>2, <3>1 DEF TypeOK, FinishLeave, FinishExpire, FinishRequestAgain, FinishReopen,
                        Finish, groupVars
  <2>3. CASE FinishClose(r)
    <3>1. roster' \subseteq Leaf
      BY <2>0, <2>3 DEF TypeOK, FinishClose, Leaf
    <3>2. retired' \subseteq Devices
      BY <2>3 DEF TypeOK, FinishClose, OwnLiveLeaves, Leaf
    <3>3. state' \in [Users -> MembershipFrom]
      BY <2>3 DEF TypeOK, FinishClose, MembershipFrom, ParticipantStates
    <3>. QED  BY <2>3, <3>1, <3>2, <3>3 DEF TypeOK, FinishClose, Finish
  <2>4. CASE FinishTransfer(r)
    BY <2>4 DEF TypeOK, FinishTransfer, Finish, groupVars, Roles
  <2>5. ASSUME NEW newRole \in Roles, FinishUpdateRole(r, newRole)
        PROVE  TypeOK'
    BY <2>5 DEF TypeOK, FinishUpdateRole, Finish, groupVars
  <2>6. CASE FinishBlock(r)
    BY <2>6 DEF TypeOK, FinishBlock, Finish, groupVars, MembershipFrom, ParticipantStates
  <2>7. CASE Abandon(r)
    BY <2>7 DEF TypeOK, Abandon, Finish, membershipVars, groupVars
  <2>. QED  BY <2>2, <2>3, <2>4, <2>5, <2>6, <2>7
<1>6. CASE UNCHANGED vars
  BY <1>6 DEF TypeOK, vars
<1>. QED  BY <1>1, <1>2, <1>3, <1>4, <1>5, <1>6 DEF Next

\* The conversation starts with every variable in its type.
LEMMA InitType == Init => TypeOK
  BY DEF Init, TypeOK, MembershipFrom, ParticipantStates, Roles

\* TypeOK: the columns of the conversation's tables always hold values of their types; no
\* membership event or Commit is ever applied from a state the table calls illegal.
THEOREM TypeCorrect == Spec => []TypeOK
  BY InitType, NextType, PTL DEF Spec
-----------------------------------------------------------------------------
(* The kinds of step: what each invariant below is proved against.           *)

\* A Commit was accepted, with what its acceptance checked.
CommitKind ==
  \E sender \in Devices, base \in Nat, external, founder \in BOOLEAN,
     added, removed \in SUBSET Devices :
    /\ ApplyCommit(base, sender, external, founder, added, removed)
    /\ AddedDevicesAuthorized(added)
    /\ removed \subseteq ActiveLeaves
    /\ founder => /\ ~HasRoster
                  /\ base = 0
                  /\ removed = {}
                  /\ sender \notin added
                  /\ state[UserOf[sender]] = "ACTIVE"
    /\ ~founder => HasRoster

\* A membership event was applied to one user.
ChangeKind ==
  \E u \in Users, event \in MembershipEvents \ MlsOnlyEvents :
    ChangeMembership(u, event) /\ UNCHANGED groupVars

\* One user put the conversation away, or took it back.
FilingKind ==
  \E u \in Users : /\ ArchiveConversation(u) \/ UnarchiveConversation(u)
                   /\ UNCHANGED <<role, groupVars>>

RoleKind ==
  \E r \in requests : \/ FinishTransfer(r)
                      \/ \E newRole \in Roles : FinishUpdateRole(r, newRole)

CloseKind == \E r \in requests : FinishClose(r)
BlockKind == \E r \in requests : FinishBlock(r)
OtherKind == UNCHANGED <<membershipVars, groupVars>>

\* Every step is of one of these kinds.
LEMMA StepKinds ==
  ASSUME TypeOK, [Next]_vars
  PROVE  \/ CommitKind \/ ChangeKind \/ FilingKind \/ RoleKind \/ CloseKind \/ BlockKind
         \/ OtherKind
<1>1. CASE CommitStep
  <2>. SUFFICES ASSUME NEW d \in Devices, NEW base \in 0 .. epoch,
                       \/ \E added \in SUBSET Devices : AcceptFoundingCommit(d, base, added)
                       \/ \E added, removed \in SUBSET Devices :
                            AcceptMemberCommit(d, base, added, removed)
                       \/ \E resync \in BOOLEAN : AcceptExternalJoin(d, base, resync)
                PROVE  CommitKind
    BY <1>1 DEF CommitStep
  <2>0. base \in Nat /\ {} \in SUBSET Devices /\ {d} \in SUBSET Devices
    BY DEF TypeOK
  <2>1. ASSUME NEW added \in SUBSET Devices, AcceptFoundingCommit(d, base, added)
        PROVE  CommitKind
    <3>1. /\ ApplyCommit(base, d, FALSE, TRUE, added, {})
          /\ AddedDevicesAuthorized(added)
          /\ ~HasRoster /\ base = 0 /\ d \notin added /\ state[UserOf[d]] = "ACTIVE"
      BY <2>1 DEF AcceptFoundingCommit, DeclarationIsConsistent
    <3>. QED  BY <2>0, <3>1 DEF CommitKind
  <2>2. ASSUME NEW added \in SUBSET Devices, NEW removed \in SUBSET Devices,
               AcceptMemberCommit(d, base, added, removed)
        PROVE  CommitKind
    <3>1. /\ ApplyCommit(base, d, FALSE, FALSE, added, removed)
          /\ AddedDevicesAuthorized(added)
          /\ removed \subseteq ActiveLeaves
          /\ HasRoster
      BY <2>2 DEF AcceptMemberCommit, RemovedDevicesRemovable
    <3>. QED  BY <2>0, <3>1 DEF CommitKind
  <2>3. ASSUME NEW resync \in BOOLEAN, AcceptExternalJoin(d, base, resync)
        PROVE  CommitKind
    <3>. DEFINE added == IF resync THEN {} ELSE {d}
    <3>1. /\ ApplyCommit(base, d, TRUE, FALSE, added, {})
          /\ AddedDevicesAuthorized(added)
          /\ HasRoster
      BY <2>3 DEF AcceptExternalJoin
    <3>2. added \in SUBSET Devices
      OBVIOUS
    <3>. HIDE DEF added
    <3>. QED  BY <2>0, <3>1, <3>2 DEF CommitKind
  <2>. QED  BY <2>1, <2>2, <2>3
<1>2. CASE DeviceStep
  BY <1>2 DEF DeviceStep, Admit, Refuse, RegisterDevice, RevokeDevice, SendMessage, OtherKind
<1>3. CASE MembershipStep
  <2>1. {"ADD_DIRECT", "ADD_INVITE", "REMOVE", "ACCEPT_INVITE", "DECLINE_INVITE"}
           \subseteq MembershipEvents \ MlsOnlyEvents
    BY DEF MembershipEvents, MlsOnlyEvents
  <2>. QED
    BY <1>3, <2>1 DEF MembershipStep, AddMember, RemoveMember, AcceptInvite, DeclineInvite,
       ArchiveConversation, UnarchiveConversation, ChangeKind, FilingKind
<1>4. CASE BeginStep
  BY <1>4 DEF BeginStep, BeginLeave, BeginTransfer, BeginUpdateRole, BeginExpire, BeginBlock,
     BeginRequestAgain, BeginReopen, Begin, OtherKind
<1>5. CASE FinishStep
  <2>1. {"REMOVE", "EXPIRE_INVITE", "ADD_INVITE", "ADD_DIRECT"}
           \subseteq MembershipEvents \ MlsOnlyEvents
    BY DEF MembershipEvents, MlsOnlyEvents
  <2>2. \A r \in requests : r.user \in Users /\ r.target \in Users
    BY DEF TypeOK, Request
  <2>3. PICK r \in requests :
          \/ FinishLeave(r) \/ FinishClose(r) \/ FinishTransfer(r)
          \/ \E newRole \in Roles : FinishUpdateRole(r, newRole)
          \/ FinishExpire(r) \/ FinishBlock(r) \/ FinishRequestAgain(r)
          \/ FinishReopen(r) \/ Abandon(r)
    BY <1>5 DEF FinishStep
  <2>4. CASE FinishLeave(r) \/ FinishExpire(r) \/ FinishRequestAgain(r) \/ FinishReopen(r)
    BY <2>1, <2>2, <2>4 DEF FinishLeave, FinishExpire, FinishRequestAgain, FinishReopen,
       ChangeKind
  <2>5. CASE Abandon(r)
    BY <2>5 DEF Abandon, OtherKind
  <2>. QED  BY <2>3, <2>4, <2>5 DEF RoleKind, CloseKind, BlockKind
<1>6. CASE UNCHANGED vars
  BY <1>6 DEF vars, OtherKind, membershipVars, groupVars
<1>. QED  BY <1>1, <1>2, <1>3, <1>4, <1>5, <1>6 DEF Next
-----------------------------------------------------------------------------
(* Owners.                                                                   *)

\* No membership event offboards an owner, or makes anyone one.
LEMMA PlannedOwner ==
  ASSUME NEW from \in MembershipFrom, NEW r \in Roles,
         NEW event \in MembershipEvents \ MlsOnlyEvents,
         NEW mlsActive \in BOOLEAN, NEW hasLeaf \in BOOLEAN,
         r = "OWNER" => from \in MemberStates \cup {"JOINING", "DECLINED"},
         NEW to, to = PlanMembershipChange(r, from, event, mlsActive, hasLeaf),
         to # "illegal", RoleAfter(r, from, to) = "OWNER"
  PROVE  r = "OWNER" /\ to \in MemberStates \cup {"JOINING", "DECLINED"}
  BY SMTT(20) DEF PlanMembershipChange, ResolveMembershipTransition, CollapsedWhenNotMls, RoleAfter,
         Outcome, MembershipEvents, MlsOnlyEvents, MembershipFrom, ParticipantStates, Roles,
         MemberStates, AddDirect, AddInvite, AcceptAnswer, DeclineAnswer, Remove

\* Neither does a Commit.
LEMMA CommitOwner ==
  ASSUME NEW s \in MemberStates \cup {"JOINING", "DECLINED"}, NEW added \in BOOLEAN,
         NEW fullyRemoved \in BOOLEAN, NEW hasDevice \in BOOLEAN, NEW activated \in BOOLEAN,
         NEW event, event = CommitEventFor(s, added, fullyRemoved, hasDevice, activated),
         event # "none",
         NEW to, to = ResolveMembershipTransition(s, event, TRUE), to # "illegal"
  PROVE  to \in MemberStates \cup {"JOINING", "DECLINED"}
  BY DEF CommitEventFor, ResolveMembershipTransition, Outcome, MemberStates, CommitAdded,
         CommitRemoved, GroupActivated, IsEntitledToLeaf, EntitledToLeafStates, MlsOnlyEvents

OwnerInv == AtMostOneOwner /\ OwnerIsNeverOffboarded

\* Every step keeps a group at one owner at most, who is not offboarded.
LEMMA NextOwner ==
  ASSUME TypeOK, OwnerInv, [Next]_vars
  PROVE  OwnerInv'
<1>1. CASE CommitKind
  <2>. PICK sender \in Devices, base \in Nat, external \in BOOLEAN, founder \in BOOLEAN,
            added \in SUBSET Devices, removed \in SUBSET Devices :
         ApplyCommit(base, sender, external, founder, added, removed)
    BY <1>1 DEF CommitKind
  <2>1. ASSUME NEW u \in Users, role[u] = "OWNER"
        PROVE  state'[u] \in MemberStates \cup {"JOINING", "DECLINED"}
    <3>1. state[u] \in MemberStates \cup {"JOINING", "DECLINED"}
      BY <2>1 DEF OwnerInv, OwnerIsNeverOffboarded
    <3>2. /\ state'[u] # "illegal"
          /\ state'[u] = IF CommitEvent(u, sender, added, removed, founder) = "none"
                         THEN state[u]
                         ELSE ResolveMembershipTransition(state[u],
                                CommitEvent(u, sender, added, removed, founder), TRUE)
      BY DEF ApplyCommit, StateAfterCommit
    <3>3. PICK a, f, h \in BOOLEAN :
            CommitEvent(u, sender, added, removed, founder)
              = CommitEventFor(state[u], a, f, h, founder)
      BY Zenon DEF CommitEvent
    <3>4. CASE CommitEvent(u, sender, added, removed, founder) = "none"
      BY <3>1, <3>2, <3>4
    <3>5. CASE CommitEvent(u, sender, added, removed, founder) # "none"
      BY <3>1, <3>2, <3>3, <3>5, CommitOwner, ZenonT(40)
    <3>. QED  BY <3>4, <3>5
  <2>. QED  BY <2>1 DEF OwnerInv, AtMostOneOwner, OwnerIsNeverOffboarded, ApplyCommit
<1>2. CASE ChangeKind
  <2>. PICK u \in Users, event \in MembershipEvents \ MlsOnlyEvents : ChangeMembership(u, event)
    BY <1>2 DEF ChangeKind
  <2>1. role'[u] = "OWNER" =>
          role[u] = "OWNER" /\ state'[u] \in MemberStates \cup {"JOINING", "DECLINED"}
    <3>1. PICK m, l \in BOOLEAN :
            Planned(u, event) = PlanMembershipChange(role[u], state[u], event, m, l)
      BY Zenon DEF Planned, HasRoster, HasLeaf
    <3>2. state[u] \in MembershipFrom /\ role[u] \in Roles
      BY DEF TypeOK
    <3>3. role[u] = "OWNER" => state[u] \in MemberStates \cup {"JOINING", "DECLINED"}
      BY DEF OwnerInv, OwnerIsNeverOffboarded
    <3>4. /\ Planned(u, event) # "illegal"
          /\ state'[u] = Planned(u, event)
          /\ role'[u] = RoleAfter(role[u], state[u], Planned(u, event))
      BY DEF ChangeMembership, TypeOK
    <3>. SUFFICES ASSUME RoleAfter(role[u], state[u], Planned(u, event)) = "OWNER"
                  PROVE  /\ role[u] = "OWNER"
                         /\ Planned(u, event) \in MemberStates \cup {"JOINING", "DECLINED"}
      BY <3>4
    <3>. QED  BY <3>1, <3>2, <3>3, <3>4, PlannedOwner
  <2>2. \A v \in Users \ {u} : role'[v] = role[v] /\ state'[v] = state[v]
    BY DEF ChangeMembership, TypeOK
  <2>. QED  BY <2>1, <2>2 DEF OwnerInv, AtMostOneOwner, OwnerIsNeverOffboarded
<1>3. CASE FilingKind
  BY <1>3 DEF FilingKind, ArchiveConversation, UnarchiveConversation, OwnerInv, AtMostOneOwner,
     OwnerIsNeverOffboarded, TypeOK, MemberStates
<1>4. CASE RoleKind
  <2>. PICK r \in requests : \/ FinishTransfer(r)
                             \/ \E newRole \in Roles : FinishUpdateRole(r, newRole)
    BY <1>4 DEF RoleKind
  <2>1. r.user \in Users /\ r.target \in Users
    BY DEF TypeOK, Request
  <2>2. CASE FinishTransfer(r)
    BY <2>1, <2>2 DEF FinishTransfer, OwnerInv, AtMostOneOwner, OwnerIsNeverOffboarded, TypeOK,
       MemberStates
  <2>3. ASSUME NEW newRole \in Roles, FinishUpdateRole(r, newRole)
        PROVE  OwnerInv'
    BY <2>1, <2>3 DEF FinishUpdateRole, OwnerInv, AtMostOneOwner, OwnerIsNeverOffboarded, TypeOK
  <2>. QED  BY <2>2, <2>3
<1>5. CASE CloseKind \/ BlockKind
  BY <1>5 DEF CloseKind, BlockKind, FinishClose, FinishBlock, OwnerInv, AtMostOneOwner,
     OwnerIsNeverOffboarded, TypeOK
<1>6. CASE OtherKind
  BY <1>6 DEF OtherKind, membershipVars, OwnerInv, AtMostOneOwner, OwnerIsNeverOffboarded
<1>. QED  BY StepKinds, <1>1, <1>2, <1>3, <1>4, <1>5, <1>6

\* OwnerInv: whatever transfers, role changes, removals and Commits run at once, a group
\* never has two owners and its owner is never put out of it by someone else.
THEOREM OwnersSafe == Spec => [](AtMostOneOwner /\ OwnerIsNeverOffboarded)
<1>1. Init => OwnerInv
  BY DEF Init, OwnerInv, AtMostOneOwner, OwnerIsNeverOffboarded, MemberStates
<1>2. TypeOK /\ OwnerInv /\ [Next]_vars => OwnerInv'
  BY NextOwner
<1>. QED  BY <1>1, <1>2, TypeCorrect, PTL DEF Spec, OwnerInv

\* OwnerIsNeverOffboarded: the same, of the owner alone (assertOwnerCanLeave and the role checks under the lock).
THEOREM OwnersStay == Spec => []OwnerIsNeverOffboarded
  BY OwnersSafe, PTL

-----------------------------------------------------------------------------
(* The Commit log.                                                           *)

LogInv == OneCommitPerEpoch /\ (HasRoster => epoch > 0)

\* Every step keeps one Commit per epoch already passed.
LEMMA NextLog ==
  ASSUME TypeOK, LogInv, [Next]_vars
  PROVE  LogInv'
<1>1. CASE CommitKind
  <2>. PICK sender \in Devices, base \in Nat, external \in BOOLEAN, founder \in BOOLEAN,
            added \in SUBSET Devices, removed \in SUBSET Devices :
         ApplyCommit(base, sender, external, founder, added, removed)
    BY <1>1 DEF CommitKind
  <2>. DEFINE c == [epoch |-> base, sender |-> sender, external |-> external,
                    founder |-> founder, added |-> added, removed |-> removed]
  <2>1. /\ epoch \in Nat /\ epoch' = epoch + 1 /\ base = epoch
        /\ handshakes' = handshakes \cup {c} /\ c.epoch = base
    BY DEF TypeOK, ApplyCommit
  <2>2. \A h \in handshakes : h.epoch \in Nat
    BY DEF TypeOK, Handshake
  <2>. HIDE DEF c
  <2>3. (\A h \in handshakes : h.epoch < epoch)'
    BY <2>1, <2>2 DEF LogInv, OneCommitPerEpoch
  <2>4. (\A e \in 0 .. epoch - 1 : \E h \in handshakes : h.epoch = e)'
    BY <2>1 DEF LogInv, OneCommitPerEpoch
  <2>5. (\A g, h \in handshakes : g.epoch = h.epoch => g = h)'
    BY <2>1, <2>2 DEF LogInv, OneCommitPerEpoch
  <2>. QED  BY <2>1, <2>3, <2>4, <2>5 DEF LogInv, OneCommitPerEpoch
<1>2. CASE CloseKind
  BY <1>2 DEF CloseKind, FinishClose, HasRoster, LogInv, OneCommitPerEpoch
<1>3. CASE ChangeKind \/ FilingKind \/ RoleKind \/ BlockKind \/ OtherKind
  BY <1>3 DEF ChangeKind, FilingKind, RoleKind, BlockKind, OtherKind, FinishTransfer,
     FinishUpdateRole, FinishBlock, groupVars, HasRoster, LogInv, OneCommitPerEpoch
<1>. QED  BY StepKinds, <1>1, <1>2, <1>3

\* LogInv is an invariant.
LEMMA LogInvHolds == Spec => []LogInv
<1>1. Init => LogInv
  BY DEF Init, LogInv, OneCommitPerEpoch, HasRoster
<1>2. TypeOK /\ LogInv /\ [Next]_vars => LogInv'
  BY NextLog
<1>. QED  BY <1>1, <1>2, TypeCorrect, PTL DEF Spec

\* OneCommitPerEpoch: however many devices submit Commits for the same epoch, one wins and
\* the log stays gapless.
THEOREM LogSafe == Spec => []OneCommitPerEpoch
<1>1. LogInv => OneCommitPerEpoch
  BY DEF LogInv
<1>. QED  BY <1>1, LogInvHolds, PTL

-----------------------------------------------------------------------------
(* Leaves.                                                                   *)

\* The leaves after a Commit.
LEMMA CommitLeaves ==
  ASSUME TypeOK, NEW base \in Nat, NEW sender \in Devices, NEW external, NEW founder \in BOOLEAN,
         NEW added \in SUBSET Devices, NEW removed \in SUBSET Devices,
         ApplyCommit(base, sender, external, founder, added, removed)
  PROVE  ActiveLeaves' = ((ActiveLeaves \ removed) \cup added)
                           \cup (IF founder THEN {sender} ELSE {})
<1>1. epoch + 1 # Live /\ \A x \in roster : x \in Leaf
  BY DEF TypeOK, Live
<1>. DEFINE ended == {IF x.device \in removed /\ x.removed = Live
                      THEN [x EXCEPT !.removed = epoch + 1] ELSE x : x \in roster}
            new == {[device |-> d, added |-> epoch + 1, removed |-> Live] : d \in added}
            first == IF founder THEN {[device |-> sender, added |-> 0, removed |-> Live]} ELSE {}
            live(rows) == {x.device : x \in {y \in rows : y.removed = Live}}
<1>2. roster' = (ended \cup new) \cup first
  BY DEF ApplyCommit, RosterAfterCommit
<1>3. live(ended) = ActiveLeaves \ removed
  BY <1>1 DEF ActiveLeaves, Leaf
<1>4. live(new) = added
  <2>1. \A x \in new : x.removed = Live /\ x.device \in added
    OBVIOUS
  <2>2. ASSUME NEW d \in added
        PROVE  \E x \in new : x.removed = Live /\ x.device = d
    <3>. DEFINE x == [device |-> d, added |-> epoch + 1, removed |-> Live]
    <3>1. x \in new /\ x.removed = Live /\ x.device = d
      OBVIOUS
    <3>. QED  BY <3>1
  <2>. HIDE DEF new
  <2>. QED  BY <2>1, <2>2
<1>5. live(first) = IF founder THEN {sender} ELSE {}
  <2>1. CASE founder
    <3>1. first = {[device |-> sender, added |-> 0, removed |-> Live]}
      BY <2>1
    <3>2. \A x \in first : x.removed = Live /\ x.device = sender
      BY <3>1
    <3>3. \E x \in first : x.removed = Live /\ x.device = sender
      BY <3>1
    <3>. HIDE DEF first
    <3>. QED  BY <2>1, <3>2, <3>3
  <2>2. CASE ~founder
    BY <2>2
  <2>. QED  BY <2>1, <2>2
<1>6. ActiveLeaves' = live(roster')
  BY DEF ActiveLeaves
<1>. HIDE DEF ended, new, first
<1>7. live((ended \cup new) \cup first) = (live(ended) \cup live(new)) \cup live(first)
  OBVIOUS
<1>. QED  BY <1>2, <1>3, <1>4, <1>5, <1>6, <1>7

\* The leaves after a closing owner's were retired.
LEMMA CloseLeaves ==
  ASSUME TypeOK, NEW r \in requests, FinishClose(r)
  PROVE  ActiveLeaves' = {d \in ActiveLeaves : UserOf[d] # r.user}
<1>1. r.epoch \in Nat /\ r.epoch # Live /\ \A x \in roster : x \in Leaf
  BY DEF TypeOK, Request, Live
<1>2. roster' = {IF x \in OwnLiveLeaves(r.user) THEN [x EXCEPT !.removed = r.epoch] ELSE x
                 : x \in roster}
  BY DEF FinishClose
<1>. QED  BY <1>1, <1>2 DEF ActiveLeaves, OwnLiveLeaves, Leaf

\* What a Commit makes of user u, by whether they have a device in the group afterwards.
LEMMA CommitUser ==
  ASSUME TypeOK, NEW base \in Nat, NEW sender \in Devices, NEW external, NEW founder \in BOOLEAN,
         NEW added \in SUBSET Devices, NEW removed \in SUBSET Devices, NEW u \in Users,
         ApplyCommit(base, sender, external, founder, added, removed)
  PROVE  /\ state'[u] = "LEAVING" => state[u] = "LEAVING" /\ HasLeaf(u)'
         /\ /\ HasLeaf(u)'
            /\ \/ \E d \in added : UserOf[d] = u
               \/ state[u] \in {"PENDING", "LEAVING"} \cup MemberStates
            => state'[u] \in {"PENDING", "LEAVING"} \cup MemberStates
         /\ state[u] \notin MemberStates /\ state'[u] \in MemberStates => HasLeaf(u)'
<1>1. HasLeaf(u)' = \E d \in ((ActiveLeaves \ removed) \cup added)
                                \cup (IF founder THEN {sender} ELSE {}) : UserOf[d] = u
  BY CommitLeaves DEF HasLeaf
<1>2. PICK a, f, h \in BOOLEAN :
        /\ CommitEvent(u, sender, added, removed, founder)
             = CommitEventFor(state[u], a, f, h, founder)
        /\ a = \E d \in added : UserOf[d] = u
        /\ f => ~h
        /\ h = HasLeaf(u)'
        /\ a => h
  <2>. DEFINE a == \E d \in added : UserOf[d] = u
              lost == \E d \in removed : UserOf[d] = u
  <2>1. CommitEvent(u, sender, added, removed, founder)
          = CommitEventFor(state[u], a, lost /\ ~HasLeaf(u)', HasLeaf(u)', founder)
    BY <1>1 DEF CommitEvent
  <2>2. a \in BOOLEAN /\ (lost /\ ~HasLeaf(u)') \in BOOLEAN /\ HasLeaf(u)' \in BOOLEAN
    BY DEF HasLeaf
  <2>3. a => HasLeaf(u)'
    BY <1>1
  <2>. QED  BY <2>1, <2>2, <2>3
<1>. DEFINE event == CommitEventFor(state[u], a, f, h, founder)
<1>3. /\ state'[u] # "illegal"
      /\ state'[u] = IF event = "none" THEN state[u]
                     ELSE ResolveMembershipTransition(state[u], event, TRUE)
  BY <1>2 DEF ApplyCommit, StateAfterCommit
<1>4. state[u] \in MembershipFrom
  BY DEF TypeOK
<1>5. /\ state'[u] = "LEAVING" => state[u] = "LEAVING" /\ h
      /\ /\ h
         /\ a \/ state[u] \in {"PENDING", "LEAVING"} \cup MemberStates
         => state'[u] \in {"PENDING", "LEAVING"} \cup MemberStates
      /\ state[u] \notin MemberStates /\ state'[u] \in MemberStates => h
  <2>1. (a => h) /\ (f => ~h)
    BY <1>2
  <2>. QED
    BY <1>3, <1>4, <2>1
       DEF CommitEventFor, ResolveMembershipTransition, Outcome, MemberStates, CommitAdded,
           CommitRemoved, GroupActivated, IsEntitledToLeaf, EntitledToLeafStates,
           MlsOnlyEvents, MembershipFrom, ParticipantStates
<1>. QED  BY <1>2, <1>5

\* The same, of a membership event: it leaves the leaves alone.
LEMMA ChangeUser ==
  ASSUME TypeOK, NEW u \in Users, NEW event \in MembershipEvents \ MlsOnlyEvents,
         ChangeMembership(u, event)
  PROVE  /\ state'[u] = "LEAVING" => HasLeaf(u) \/ state[u] = "LEAVING"
         /\ HasLeaf(u) /\ state[u] \in {"PENDING", "LEAVING"} \cup MemberStates
            => state'[u] \in {"PENDING", "LEAVING"} \cup MemberStates
         /\ HasRoster /\ state[u] \notin MemberStates /\ state'[u] \in MemberStates
            => HasLeaf(u) \/ state[u] = "LEAVING"
<1>1. PICK m, l \in BOOLEAN :
        /\ Planned(u, event) = PlanMembershipChange(role[u], state[u], event, m, l)
        /\ m = HasRoster
        /\ l = HasLeaf(u)
        /\ l => m
  <2>1. HasRoster \in BOOLEAN /\ HasLeaf(u) \in BOOLEAN /\ (HasLeaf(u) => HasRoster)
    BY DEF HasRoster, HasLeaf, ActiveLeaves
  <2>2. (HasRoster /\ HasLeaf(u)) = HasLeaf(u)
    BY <2>1
  <2>. QED  BY <2>1, <2>2 DEF Planned
<1>2. state'[u] = Planned(u, event) /\ state'[u] # "illegal" /\ state[u] \in MembershipFrom
  BY DEF ChangeMembership, TypeOK
<1>3. /\ state'[u] = "LEAVING" => l \/ state[u] = "LEAVING"
      /\ l /\ state[u] \in {"PENDING", "LEAVING"} \cup MemberStates
         => state'[u] \in {"PENDING", "LEAVING"} \cup MemberStates
      /\ m /\ state[u] \notin MemberStates /\ state'[u] \in MemberStates
         => l \/ state[u] = "LEAVING"
  <2>1. state'[u] = PlanMembershipChange(role[u], state[u], event, m, l) /\ (l => m)
    BY <1>1, <1>2
  <2>. QED
    BY <1>2, <2>1, ZenonT(40)
       DEF PlanMembershipChange, ResolveMembershipTransition, CollapsedWhenNotMls,
           Outcome, MembershipEvents, MlsOnlyEvents, MembershipFrom, ParticipantStates,
           MemberStates, AddDirect, AddInvite, AcceptAnswer, DeclineAnswer, Remove
<1>. QED  BY <1>1, <1>3

\* A Commit asks for nothing and sends nothing.
LEMMA CommitKeeps ==
  ASSUME CommitStep
  PROVE  requests' = requests /\ messages' = messages
<1>1. ASSUME NEW base, NEW sender, NEW external, NEW founder, NEW added, NEW removed,
             ApplyCommit(base, sender, external, founder, added, removed)
      PROVE  requests' = requests /\ messages' = messages
  BY <1>1 DEF ApplyCommit
<1>. QED
  BY <1>1 DEF CommitStep, AcceptFoundingCommit, AcceptMemberCommit, AcceptExternalJoin

\* Blocking is asked for in direct chats only.
BlocksAreDirect == \A r \in requests : r.op = "block" => Kind = "DIRECT"

LEMMA NextBlocks ==
  ASSUME BlocksAreDirect, [Next]_vars
  PROVE  BlocksAreDirect'
<1>1. CASE CommitStep
  BY <1>1, CommitKeeps DEF BlocksAreDirect
<1>2. CASE DeviceStep
  BY <1>2 DEF DeviceStep, Admit, Refuse, RegisterDevice, RevokeDevice, SendMessage, BlocksAreDirect
<1>3. CASE MembershipStep
  BY <1>3 DEF MembershipStep, AddMember, RemoveMember, AcceptInvite, DeclineInvite,
     ArchiveConversation, UnarchiveConversation, BlocksAreDirect
<1>4. CASE BeginStep
  <2>. PICK u \in Users :
         \/ BeginLeave(u)
         \/ \E v \in Users : BeginTransfer(u, v)
         \/ \E v \in Users : BeginUpdateRole(u, v)
         \/ BeginExpire(u)
         \/ BeginBlock(u)
         \/ \E v \in Users : BeginRequestAgain(u, v)
         \/ BeginReopen(u)
    BY <1>4 DEF BeginStep
  <2>1. ASSUME NEW op \in {"close", "leave", "transfer", "role", "expire", "requestAgain",
                          "reopen"}, NEW w, NEW v, NEW e, Begin(op, w, v, e)
        PROVE  BlocksAreDirect'
    BY <2>1 DEF Begin, BlocksAreDirect
  <2>2. CASE BeginLeave(u)
    <3>1. Begin("close", u, u, epoch) \/ Begin("leave", u, u, 0)
      BY <2>2 DEF BeginLeave
    <3>. QED  BY <2>1, <3>1
  <2>3. CASE \E v \in Users : BeginTransfer(u, v)
    BY <2>1, <2>3 DEF BeginTransfer
  <2>4. CASE \E v \in Users : BeginUpdateRole(u, v)
    BY <2>1, <2>4 DEF BeginUpdateRole
  <2>5. CASE BeginExpire(u)
    BY <2>1, <2>5 DEF BeginExpire
  <2>6. CASE BeginBlock(u)
    BY <2>6 DEF BeginBlock, Begin, BlocksAreDirect
  <2>7. CASE \E v \in Users : BeginRequestAgain(u, v)
    BY <2>1, <2>7 DEF BeginRequestAgain
  <2>8. CASE BeginReopen(u)
    BY <2>1, <2>8 DEF BeginReopen
  <2>. QED  BY <2>2, <2>3, <2>4, <2>5, <2>6, <2>7, <2>8
<1>5. CASE FinishStep
  BY <1>5 DEF FinishStep, FinishLeave, FinishClose, FinishTransfer, FinishUpdateRole,
     FinishExpire, FinishBlock, FinishRequestAgain, FinishReopen, Abandon, Finish, BlocksAreDirect
<1>6. CASE UNCHANGED vars
  BY <1>6 DEF vars, BlocksAreDirect
<1>. QED  BY <1>1, <1>2, <1>3, <1>4, <1>5, <1>6 DEF Next

\* In a group every leaf has an owner who belongs, and in any conversation someone being
\* removed has a leaf.
LeafInv ==
  /\ BlocksAreDirect
  /\ LeavingHasLeafToRemove
  /\ Kind = "GROUP" => LeafOwnersBelong

LEMMA NextLeaf ==
  ASSUME TypeOK, LeafInv, [Next]_vars
  PROVE  LeafInv'
<1>. USE DevicesHaveOwners
<1>0. BlocksAreDirect'
  BY NextBlocks DEF LeafInv
<1>1. CASE CommitKind
  <2>. PICK sender \in Devices, base \in Nat, external \in BOOLEAN, founder \in BOOLEAN,
            added \in SUBSET Devices, removed \in SUBSET Devices :
         /\ ApplyCommit(base, sender, external, founder, added, removed)
         /\ founder => state[UserOf[sender]] = "ACTIVE"
    BY <1>1 DEF CommitKind
  <2>1. ASSUME NEW u \in Users, state'[u] = "LEAVING"
        PROVE  HasLeaf(u)'
    BY <2>1, CommitUser
  <2>2. ASSUME Kind = "GROUP", NEW d \in ActiveLeaves'
        PROVE  state'[UserOf[d]] \in {"PENDING", "LEAVING"} \cup MemberStates
    <3>1. d \in ((ActiveLeaves \ removed) \cup added) \cup (IF founder THEN {sender} ELSE {})
      BY <2>2, CommitLeaves
    <3>2. \A x \in ActiveLeaves : x \in Devices
      BY DEF TypeOK, ActiveLeaves, Leaf
    <3>3. UserOf[d] \in Users /\ HasLeaf(UserOf[d])'
      BY <2>2, <3>1, <3>2 DEF HasLeaf
    <3>4. \/ \E x \in added : UserOf[x] = UserOf[d]
          \/ state[UserOf[d]] \in {"PENDING", "LEAVING"} \cup MemberStates
      BY <2>2, <3>1 DEF LeafInv, LeafOwnersBelong, MemberStates
    <3>. QED  BY <3>3, <3>4, CommitUser
  <2>. QED
    BY <1>0, <2>1, <2>2 DEF LeafInv, LeavingHasLeafToRemove, LeafOwnersBelong
<1>2. CASE ChangeKind
  <2>. PICK u \in Users, event \in MembershipEvents \ MlsOnlyEvents :
         ChangeMembership(u, event) /\ UNCHANGED groupVars
    BY <1>2 DEF ChangeKind
  <2>1. \A v \in Users \ {u} : state'[v] = state[v]
    BY DEF ChangeMembership, TypeOK
  <2>2. ActiveLeaves' = ActiveLeaves /\ \A v \in Users : HasLeaf(v)' = HasLeaf(v)
    BY DEF groupVars, ActiveLeaves, HasLeaf
  <2>3. /\ state'[u] = "LEAVING" => HasLeaf(u) \/ state[u] = "LEAVING"
        /\ HasLeaf(u) /\ state[u] \in {"PENDING", "LEAVING"} \cup MemberStates
           => state'[u] \in {"PENDING", "LEAVING"} \cup MemberStates
    BY ChangeUser
  <2>4. LeavingHasLeafToRemove'
    BY <2>1, <2>2, <2>3 DEF LeafInv, LeavingHasLeafToRemove
  <2>5. Kind = "GROUP" => LeafOwnersBelong'
    <3>1. \A d \in ActiveLeaves : d \in Devices
      BY DEF TypeOK, ActiveLeaves, Leaf
    <3>. QED  BY <2>1, <2>2, <2>3, <3>1 DEF LeafInv, LeafOwnersBelong, HasLeaf
  <2>. QED  BY <1>0, <2>4, <2>5 DEF LeafInv
<1>3. CASE FilingKind
  <2>1. ActiveLeaves' = ActiveLeaves /\ \A v \in Users : HasLeaf(v)' = HasLeaf(v)
    BY <1>3 DEF FilingKind, groupVars, ActiveLeaves, HasLeaf
  <2>2. \A d \in ActiveLeaves : UserOf[d] \in Users
    BY DEF TypeOK, ActiveLeaves, Leaf
  <2>. QED
    BY <1>0, <1>3, <2>1, <2>2 DEF FilingKind, ArchiveConversation, UnarchiveConversation, TypeOK,
       LeafInv, LeavingHasLeafToRemove, LeafOwnersBelong, MemberStates
<1>4. CASE RoleKind \/ OtherKind
  BY <1>0, <1>4 DEF RoleKind, OtherKind, FinishTransfer, FinishUpdateRole, membershipVars,
     groupVars, LeafInv, LeavingHasLeafToRemove, LeafOwnersBelong, ActiveLeaves, HasLeaf
<1>5. CASE CloseKind
  <2>. PICK r \in requests : FinishClose(r)
    BY <1>5 DEF CloseKind
  <2>1. ActiveLeaves' = {d \in ActiveLeaves : UserOf[d] # r.user}
    BY CloseLeaves
  <2>2. /\ state'[r.user] = "DECLINED"
        /\ \A v \in Users \ {r.user} : state'[v] = state[v] /\ HasLeaf(v)' = HasLeaf(v)
    BY <2>1 DEF FinishClose, TypeOK, Request, HasLeaf
  <2>3. \A d \in ActiveLeaves : UserOf[d] \in Users
    BY DEF TypeOK, ActiveLeaves, Leaf
  <2>. QED
    BY <1>0, <2>1, <2>2, <2>3 DEF LeafInv, LeavingHasLeafToRemove, LeafOwnersBelong
<1>6. CASE BlockKind
  <2>. PICK r \in requests : FinishBlock(r)
    BY <1>6 DEF BlockKind
  <2>1. Kind # "GROUP"
    BY DEF FinishBlock, LeafInv, BlocksAreDirect
  <2>2. /\ state'[r.user] = "DECLINED"
        /\ \A v \in Users \ {r.user} : state'[v] = state[v] /\ HasLeaf(v)' = HasLeaf(v)
    BY DEF FinishBlock, TypeOK, Request, HasLeaf, ActiveLeaves, groupVars
  <2>. QED  BY <1>0, <2>1, <2>2 DEF LeafInv, LeavingHasLeafToRemove
<1>. QED  BY StepKinds, <1>1, <1>2, <1>3, <1>4, <1>5, <1>6

\* LeafInv is an invariant.
LEMMA LeafInvHolds == Spec => []LeafInv
<1>1. Init => LeafInv
  BY DEF Init, LeafInv, BlocksAreDirect, LeavingHasLeafToRemove, LeafOwnersBelong, ActiveLeaves,
     HasLeaf
<1>2. TypeOK /\ LeafInv /\ [Next]_vars => LeafInv'
  BY NextLeaf
<1>. QED  BY <1>1, <1>2, TypeCorrect, PTL DEF Spec

\* LeavingHasLeafToRemove: whoever is mid-removal has a leaf, so a Commit can end it.
THEOREM RemovalsCanEnd == Spec => []LeavingHasLeafToRemove
<1>1. LeafInv => LeavingHasLeafToRemove
  BY DEF LeafInv
<1>. QED  BY <1>1, LeafInvHolds, PTL

\* LeafOwnersBelong, of groups: no outsider holds a leaf.  Direct chats do not have it, as
\* blocking an unanswered request shows.
THEOREM LeavesBelong ==
  ASSUME Kind = "GROUP"
  PROVE  Spec => []LeafOwnersBelong
<1>1. LeafInv => LeafOwnersBelong
  BY DEF LeafInv
<1>. QED  BY <1>1, LeafInvHolds, PTL

\* Only sending a message adds one.
LEMMA SendOrKeep ==
  ASSUME [Next]_vars
  PROVE  \/ messages' = messages
         \/ \E d \in Devices, e \in 0 .. epoch : SendMessage(d, e)
<1>1. CASE CommitStep
  BY <1>1, CommitKeeps
<1>2. CASE DeviceStep
  BY <1>2 DEF DeviceStep, Admit, Refuse, RegisterDevice, RevokeDevice
<1>3. CASE MembershipStep
  BY <1>3 DEF MembershipStep, AddMember, RemoveMember, AcceptInvite, DeclineInvite,
     ArchiveConversation, UnarchiveConversation
<1>4. CASE BeginStep
  BY <1>4 DEF BeginStep, BeginLeave, BeginTransfer, BeginUpdateRole, BeginExpire,
     BeginBlock, BeginRequestAgain, BeginReopen, Begin
<1>5. CASE FinishStep
  BY <1>5 DEF FinishStep, FinishLeave, FinishClose, FinishTransfer, FinishUpdateRole,
     FinishExpire, FinishBlock, FinishRequestAgain, FinishReopen, Abandon
<1>6. CASE UNCHANGED vars
  BY <1>6 DEF vars
<1>. QED  BY <1>1, <1>2, <1>3, <1>4, <1>5, <1>6 DEF Next

\* SentOnlyToEntitledLeaves, of groups: while a message is accepted nobody is mid-removal,
\* and then every leaf's owner is entitled to it.
THEOREM SendsSafe ==
  ASSUME Kind = "GROUP"
  PROVE  Spec => SentOnlyToEntitledLeaves
<1>1. TypeOK /\ LeafInv /\ [Next]_vars => SendIsEntitled
  <2>. SUFFICES ASSUME TypeOK, LeafInv, [Next]_vars, messages' # messages
                PROVE  \A d \in ActiveLeaves : IsEntitledToLeaf(state[UserOf[d]])
    BY DEF SendIsEntitled
  <2>1. PICK d \in Devices, e \in 0 .. epoch : SendMessage(d, e)
    BY SendOrKeep
  <2>2. \A x \in ActiveLeaves : UserOf[x] \in Users
    BY DevicesHaveOwners DEF TypeOK, ActiveLeaves, Leaf
  <2>3. \A u \in Users : state[u] # "LEAVING"
    BY <2>1 DEF SendMessage, MembershipChangePending
  <2>. QED
    BY <2>2, <2>3 DEF LeafInv, LeafOwnersBelong, MemberStates, IsEntitledToLeaf,
       EntitledToLeafStates
<1>. QED  BY <1>1, TypeCorrect, LeafInvHolds, PTL DEF Spec, SentOnlyToEntitledLeaves

\* MembersAreAdmittedByCommit: once the conversation is encrypted nobody becomes a member
\* unless a device of theirs is in the group.
THEOREM AdmissionSafe == Spec => MembersAreAdmittedByCommit
<1>1. TypeOK /\ LeafInv /\ [Next]_vars => NewMembersHaveLeaves
  <2>. SUFFICES ASSUME TypeOK, LeafInv, [Next]_vars, HasRoster', NEW u \in Users,
                       state[u] \notin MemberStates, state'[u] \in MemberStates
                PROVE  HasLeaf(u)'
    BY DEF NewMembersHaveLeaves
  <2>1. CASE CommitKind
    <3>. PICK sender \in Devices, base \in Nat, external \in BOOLEAN, founder \in BOOLEAN,
              added \in SUBSET Devices, removed \in SUBSET Devices :
           ApplyCommit(base, sender, external, founder, added, removed)
      BY <2>1 DEF CommitKind
    <3>. QED  BY CommitUser
  <2>2. CASE ChangeKind
    <3>. PICK v \in Users, event \in MembershipEvents \ MlsOnlyEvents :
           ChangeMembership(v, event) /\ UNCHANGED groupVars
      BY <2>2 DEF ChangeKind
    <3>1. HasRoster /\ HasLeaf(u)' = HasLeaf(u)
      BY DEF groupVars, HasRoster, HasLeaf, ActiveLeaves
    <3>2. u = v
      BY DEF ChangeMembership, TypeOK
    <3>3. HasLeaf(u) \/ state[u] = "LEAVING"
      BY <3>1, <3>2, ChangeUser
    <3>. QED  BY <3>1, <3>3 DEF LeafInv, LeavingHasLeafToRemove
  <2>3. CASE FilingKind \/ RoleKind \/ CloseKind \/ BlockKind \/ OtherKind
    BY <2>3 DEF FilingKind, RoleKind, CloseKind, BlockKind, OtherKind, ArchiveConversation,
       UnarchiveConversation, FinishTransfer, FinishUpdateRole, FinishClose, FinishBlock,
       membershipVars, TypeOK, MemberStates
  <2>. QED  BY StepKinds, <2>1, <2>2, <2>3
<1>. QED  BY <1>1, TypeCorrect, LeafInvHolds, PTL DEF Spec, MembersAreAdmittedByCommit

-----------------------------------------------------------------------------
(* The roster's history.                                                     *)

\* No row starts or ends later than now, and nobody closes a group at a later epoch.
HistoryInv ==
  /\ \A x \in roster : x.added <= epoch /\ (x.removed = Live \/ x.removed <= epoch)
  /\ \A r \in requests : r.epoch <= epoch

\* The leaves at the current epoch are the leaves still there.
LEMMA LeavesNow == TypeOK /\ HistoryInv => \A k \in Nat : k = epoch => LeavesAtEpoch(k) = ActiveLeaves
<1>. SUFFICES ASSUME TypeOK, HistoryInv, NEW k \in Nat, k = epoch
              PROVE  LeavesAtEpoch(k) = ActiveLeaves
  OBVIOUS
<1>1. \A x \in roster : /\ x.added <= k
                        /\ x.removed = Live \/ x.removed > k <=> x.removed = Live
  BY DEF TypeOK, HistoryInv, Leaf, Live
<1>. QED  BY <1>1 DEF LeavesAtEpoch, ActiveLeaves

\* Once there is a roster, a Commit does not change what the leaves were.
LEMMA CommitKeepsHistory ==
  ASSUME TypeOK, HistoryInv, NEW base \in Nat, NEW sender \in Devices, NEW external,
         NEW added \in SUBSET Devices, NEW removed \in SUBSET Devices,
         ApplyCommit(base, sender, external, FALSE, added, removed),
         NEW k \in 0 .. epoch
  PROVE  LeavesAtEpoch(k)' = LeavesAtEpoch(k)
<1>. DEFINE ended == {IF x.device \in removed /\ x.removed = Live
                      THEN [x EXCEPT !.removed = epoch + 1] ELSE x : x \in roster}
            new == {[device |-> d, added |-> epoch + 1, removed |-> Live] : d \in added}
            in(x) == x.added <= k /\ (x.removed = Live \/ x.removed > k)
            at(rows) == {x.device : x \in {y \in rows : in(y)}}
<1>1. epoch \in Nat /\ k \in Nat /\ k <= epoch /\ roster \subseteq Leaf
  BY DEF TypeOK
<1>2. roster' = ended \cup new
  BY DEF ApplyCommit, RosterAfterCommit
<1>3. \A x \in new : ~in(x)
  BY <1>1
<1>4. \A x \in roster : [x EXCEPT !.removed = epoch + 1].device = x.device
  BY <1>1 DEF Leaf
<1>5. \A x \in roster : x.removed = Live => (in([x EXCEPT !.removed = epoch + 1]) <=> in(x))
  BY <1>1 DEF Leaf, Live
<1>8. at(ended) = at(roster)
  <2>. HIDE DEF in
  <2>. DEFINE row(y) == IF y.device \in removed /\ y.removed = Live
                        THEN [y EXCEPT !.removed = epoch + 1] ELSE y
  <2>0. ended = {row(y) : y \in roster} /\ \A y \in roster : row(y).device = y.device /\ (in(row(y)) <=> in(y))
    BY <1>4, <1>5
  <2>. HIDE DEF ended, row
  <2>1. ASSUME NEW x \in ended, in(x) PROVE \E y \in roster : in(y) /\ y.device = x.device
    BY <2>0, <2>1
  <2>2. ASSUME NEW y \in roster, in(y) PROVE \E x \in ended : in(x) /\ x.device = y.device
    BY <2>0, <2>2
  <2>. QED  BY <2>1, <2>2
<1>6. LeavesAtEpoch(k)' = at(roster') /\ LeavesAtEpoch(k) = at(roster)
  BY DEF LeavesAtEpoch
<1>. HIDE DEF ended, new, in
<1>7. at(ended \cup new) = at(ended)
  BY <1>3
<1>. QED  BY <1>2, <1>8, <1>6, <1>7

\* Rows and requests never get ahead of the epoch.
LEMMA NextHistory ==
  ASSUME TypeOK, HistoryInv, [Next]_vars
  PROVE  HistoryInv'
<1>1. /\ epoch \in Nat /\ epoch' \in Nat /\ epoch <= epoch'
      /\ \A x \in roster : x.added \in Nat /\ x.removed \in Nat \cup {Live}
      /\ \A r \in requests : r.epoch \in Nat
  <2>1. epoch' = epoch \/ epoch' = epoch + 1
    BY StepKinds DEF CommitKind, ChangeKind, FilingKind, RoleKind, CloseKind, BlockKind, OtherKind, ApplyCommit,
       FinishTransfer, FinishUpdateRole, FinishClose, FinishBlock, groupVars
  <2>. QED  BY <2>1 DEF TypeOK, Leaf, Request
<1>2. \A x \in roster' : x.added <= epoch' /\ (x.removed = Live \/ x.removed <= epoch')
  <2>1. CASE CommitKind
    <3>. PICK sender \in Devices, base \in Nat, external \in BOOLEAN, founder \in BOOLEAN,
              added \in SUBSET Devices, removed \in SUBSET Devices :
           ApplyCommit(base, sender, external, founder, added, removed)
      BY <2>1 DEF CommitKind
    <3>1. /\ epoch' = epoch + 1
          /\ roster' = RosterAfterCommit(sender, added, removed, founder)
      BY DEF ApplyCommit
    <3>2. \A x \in roster : /\ x \in Leaf
                            /\ x.added <= epoch /\ (x.removed = Live \/ x.removed <= epoch)
      BY DEF TypeOK, HistoryInv
    <3>. QED  BY <1>1, <3>1, <3>2 DEF RosterAfterCommit, Leaf
  <2>2. CASE CloseKind
    <3>. PICK r \in requests : FinishClose(r)
      BY <2>2 DEF CloseKind
    <3>1. /\ epoch' = epoch /\ r.epoch <= epoch
          /\ roster' = {IF x \in OwnLiveLeaves(r.user) THEN [x EXCEPT !.removed = r.epoch] ELSE x : x \in roster}
      BY DEF FinishClose, HistoryInv
    <3>2. \A x \in roster : /\ x \in Leaf
                            /\ x.added <= epoch /\ (x.removed = Live \/ x.removed <= epoch)
      BY DEF TypeOK, HistoryInv
    <3>. QED  BY <3>1, <3>2 DEF Leaf
  <2>3. CASE ChangeKind \/ FilingKind \/ RoleKind \/ BlockKind \/ OtherKind
    <3>1. roster' = roster /\ epoch' = epoch
      BY <2>3 DEF ChangeKind, FilingKind, RoleKind, BlockKind, OtherKind, FinishTransfer, FinishUpdateRole,
         FinishBlock, groupVars
    <3>. QED  BY <3>1 DEF HistoryInv
  <2>. QED  BY StepKinds, <2>1, <2>2, <2>3
<1>3. \A r \in requests' : r \in requests \/ r.epoch = 0 \/ r.epoch = epoch
  <2>1. ASSUME NEW op, NEW u, NEW v, NEW e \in {0, epoch}, Begin(op, u, v, e)
        PROVE  \A r \in requests' : r \in requests \/ r.epoch = 0 \/ r.epoch = epoch
    BY <2>1 DEF Begin
  <2>2. CASE CommitStep
    BY <2>2, CommitKeeps
  <2>3. CASE DeviceStep
    BY <2>3 DEF DeviceStep, Admit, Refuse, RegisterDevice, RevokeDevice, SendMessage
  <2>4. CASE MembershipStep
    BY <2>4 DEF MembershipStep, AddMember, RemoveMember, AcceptInvite, DeclineInvite,
       ArchiveConversation, UnarchiveConversation
  <2>5. CASE BeginStep
    BY <2>1, <2>5 DEF BeginStep, BeginLeave, BeginTransfer, BeginUpdateRole, BeginExpire, BeginBlock,
       BeginRequestAgain, BeginReopen
  <2>6. CASE FinishStep
    BY <2>6 DEF FinishStep, FinishLeave, FinishClose, FinishTransfer, FinishUpdateRole,
       FinishExpire, FinishBlock, FinishRequestAgain, FinishReopen, Abandon, Finish
  <2>7. CASE UNCHANGED vars
    BY <2>7 DEF vars
  <2>. QED  BY <2>2, <2>3, <2>4, <2>5, <2>6, <2>7 DEF Next
<1>4. \A r \in requests' : r.epoch <= epoch'
  BY <1>1, <1>3 DEF HistoryInv
<1>. QED  BY <1>2, <1>4 DEF HistoryInv

\* What is replayed from h, devices of S aside.
Replays(h, S) ==
  LeavesAtEpoch(h.epoch + 1) \ S
    = (((IF h.founder THEN {h.sender} ELSE LeavesAtEpoch(h.epoch)) \ h.removed) \cup h.added) \ S

\* Every step keeps the roster a replay of the log.
LEMMA NextReplays ==
  ASSUME TypeOK, TypeOK', LogInv, HistoryInv, HistoryInv', RosterReplaysLog, [Next]_vars
  PROVE  RosterReplaysLog'
<1>1. \A h \in handshakes : Replays(h, retired)
  BY DEF RosterReplaysLog, Replays
<1>2. \A h \in handshakes : h.epoch \in Nat /\ h.epoch < epoch
  BY DEF TypeOK, Handshake, LogInv, OneCommitPerEpoch
<1>. SUFFICES ASSUME NEW h \in handshakes' PROVE Replays(h, retired)'
  BY DEF RosterReplaysLog, Replays
<1>3. CASE CommitKind
  <2>. PICK sender \in Devices, base \in Nat, external \in BOOLEAN, founder \in BOOLEAN,
            added \in SUBSET Devices, removed \in SUBSET Devices :
         /\ ApplyCommit(base, sender, external, founder, added, removed)
         /\ founder => ~HasRoster /\ base = 0 /\ removed = {}
    BY <1>3 DEF CommitKind
  <2>. DEFINE c == [epoch |-> base, sender |-> sender, external |-> external,
                    founder |-> founder, added |-> added, removed |-> removed]
  <2>1. /\ epoch = base /\ epoch' = epoch + 1 /\ epoch \in Nat /\ retired' = retired
        /\ handshakes' = handshakes \cup {c}
    BY DEF ApplyCommit, TypeOK
  <2>2. LeavesAtEpoch(base + 1)' = ((ActiveLeaves \ removed) \cup added)
                                      \cup (IF founder THEN {sender} ELSE {})
    <3>1. (\A k \in Nat : k = epoch => LeavesAtEpoch(k) = ActiveLeaves)'
      BY LeavesNow, PTL
    <3>2. base + 1 \in Nat /\ base + 1 = epoch'
      BY <2>1
    <3>3. LeavesAtEpoch(base + 1)' = ActiveLeaves'
      BY <3>1, <3>2
    <3>4. ActiveLeaves' = ((ActiveLeaves \ removed) \cup added) \cup (IF founder THEN {sender} ELSE {})
      BY CommitLeaves
    <3>. QED  BY <3>3, <3>4
  <2>3. CASE founder
    <3>1. epoch = 0 /\ removed = {} /\ roster = {}
      BY <2>1, <2>3 DEF HasRoster
    <3>2. h = c
      BY <1>2, <2>1, <3>1
    <3>3. ActiveLeaves = {}
      BY <3>1 DEF ActiveLeaves
    <3>. QED  BY <2>1, <2>2, <2>3, <3>1, <3>2, <3>3 DEF Replays
  <2>4. CASE ~founder
    <3>1. \A k \in 0 .. epoch : LeavesAtEpoch(k)' = LeavesAtEpoch(k)
      BY <2>4, CommitKeepsHistory
    <3>2. CASE h \in handshakes
      <4>1. h.epoch \in 0 .. epoch /\ h.epoch + 1 \in 0 .. epoch
        BY <1>2, <2>1, <3>2
      <4>. QED  BY <1>1, <2>1, <3>1, <3>2, <4>1 DEF Replays
    <3>3. CASE h = c
      <4>1. LeavesAtEpoch(base)' = ActiveLeaves
        BY <2>1, <3>1, LeavesNow
      <4>. QED  BY <2>1, <2>2, <2>4, <3>3, <4>1 DEF Replays
    <3>. QED  BY <2>1, <3>2, <3>3
  <2>. QED  BY <2>3, <2>4
<1>4. CASE CloseKind
  <2>. PICK r \in requests : FinishClose(r)
    BY <1>4 DEF CloseKind
  <2>1. /\ handshakes' = handshakes
        /\ roster' = {IF x \in OwnLiveLeaves(r.user) THEN [x EXCEPT !.removed = r.epoch] ELSE x : x \in roster}
        /\ retired' = retired \cup {x.device : x \in OwnLiveLeaves(r.user)}
    BY DEF FinishClose
  <2>2. ASSUME NEW k PROVE LeavesAtEpoch(k)' \ retired' = LeavesAtEpoch(k) \ retired'
    <3>. DEFINE own == OwnLiveLeaves(r.user)
                in(x) == x.added <= k /\ (x.removed = Live \/ x.removed > k)
    <3>1. \A x \in roster : [x EXCEPT !.removed = r.epoch].device = x.device
      BY DEF TypeOK, Leaf
    <3>2. LeavesAtEpoch(k) = {x.device : x \in {y \in roster : in(y)}}
          /\ LeavesAtEpoch(k)' = {x.device : x \in {y \in roster' : in(y)}}
      BY DEF LeavesAtEpoch
    <3>. HIDE DEF own, in
    <3>3. ASSUME NEW d \in LeavesAtEpoch(k)', d \notin retired' PROVE d \in LeavesAtEpoch(k)
      <4>1. PICK x \in roster' : in(x) /\ x.device = d
        BY <3>2, <3>3
      <4>2. PICK y \in roster : x = IF y \in own THEN [y EXCEPT !.removed = r.epoch] ELSE y
        BY <2>1, <4>1 DEF own
      <4>3. y.device = d /\ y \notin own
        BY <2>1, <3>1, <3>3, <4>1, <4>2 DEF own
      <4>. QED  BY <3>2, <4>1, <4>2, <4>3
    <3>4. ASSUME NEW d \in LeavesAtEpoch(k), d \notin retired' PROVE d \in LeavesAtEpoch(k)'
      BY <2>1, <3>1, <3>2, <3>4 DEF own
    <3>. QED  BY <3>3, <3>4
  <2>3. Replays(h, retired)
    BY <1>1, <2>1
  <2>4. retired \subseteq retired'
    BY <2>1
  <2>. DEFINE before == IF h.founder THEN {h.sender} ELSE LeavesAtEpoch(h.epoch)
              after == IF h.founder THEN {h.sender} ELSE LeavesAtEpoch(h.epoch)'
  <2>5. before \ retired' = after \ retired'
    BY <2>2
  <2>6. LeavesAtEpoch(h.epoch + 1)' \ retired' = LeavesAtEpoch(h.epoch + 1) \ retired'
    BY <2>2
  <2>7. LeavesAtEpoch(h.epoch + 1) \ retired = ((before \ h.removed) \cup h.added) \ retired
    BY <2>3 DEF Replays
  <2>8. LeavesAtEpoch(h.epoch + 1) \ retired' = ((before \ h.removed) \cup h.added) \ retired'
    BY <2>4, <2>7
  <2>. SUFFICES LeavesAtEpoch(h.epoch + 1)' \ retired' = ((after \ h.removed) \cup h.added) \ retired'
    BY DEF Replays
  <2>. HIDE DEF before, after
  <2>. QED  BY <2>5, <2>6, <2>8
<1>5. CASE ChangeKind \/ FilingKind \/ RoleKind \/ BlockKind \/ OtherKind
  <2>1. UNCHANGED groupVars
    BY <1>5 DEF ChangeKind, FilingKind, RoleKind, BlockKind, OtherKind, FinishTransfer, FinishUpdateRole,
       FinishBlock
  <2>. QED  BY <1>1, <2>1 DEF Replays, LeavesAtEpoch, groupVars
<1>. QED  BY StepKinds, <1>3, <1>4, <1>5

\* RosterReplaysLog: at every epoch the roster table says what the Commits accepted so far make of the group, so a
\* member that applies the log ends with the leaves the table has (applyCommit in the Commit acceptance, whose rows
\* end and start at the next epoch); leaves a closing owner retired aside.
THEOREM RosterSafe == Spec => []RosterReplaysLog
<1>1. Init => HistoryInv /\ RosterReplaysLog
  BY DEF Init, HistoryInv, RosterReplaysLog
<1>2. TypeOK /\ TypeOK' /\ LogInv /\ HistoryInv /\ RosterReplaysLog /\ [Next]_vars => HistoryInv' /\ RosterReplaysLog'
  BY NextHistory, NextReplays
<1>. QED  BY <1>1, <1>2, TypeCorrect, LogInvHolds, PTL DEF Spec

-----------------------------------------------------------------------------
(* Refinement.                                                               *)

\* A step of the conversation is a step of the promise, or a stutter.
LEMMA StepKeepsPromise ==
  ASSUME TypeOK, LogInv, [Next]_vars
  PROVE  [Promise!Next]_<<epoch, handshakes, ActiveLeaves>>
<1>1. CASE CommitKind
  <2>. PICK sender \in Devices, base \in Nat, external \in BOOLEAN, founder \in BOOLEAN,
            added \in SUBSET Devices, removed \in SUBSET Devices :
         /\ ApplyCommit(base, sender, external, founder, added, removed)
         /\ AddedDevicesAuthorized(added)
         /\ removed \subseteq ActiveLeaves
         /\ founder => ~HasRoster /\ base = 0
         /\ ~founder => HasRoster
    BY <1>1 DEF CommitKind
  <2>. DEFINE c == [epoch |-> epoch, sender |-> sender, external |-> external,
                    founder |-> epoch = 0, added |-> added, removed |-> removed]
  <2>1. epoch = base /\ epoch' = epoch + 1 /\ founder = (epoch = 0)
    BY DEF ApplyCommit, LogInv, TypeOK
  <2>2. handshakes' = handshakes \cup {c}
    BY <2>1 DEF ApplyCommit
  <2>3. ActiveLeaves' = ((ActiveLeaves \ c.removed) \cup c.added)
                          \cup (IF c.founder THEN {c.sender} ELSE {})
    <3>1. ActiveLeaves' = ((ActiveLeaves \ removed) \cup added)
                            \cup (IF founder THEN {sender} ELSE {})
      BY CommitLeaves
    <3>2. c.removed = removed /\ c.added = added /\ c.sender = sender /\ c.founder = founder
      BY <2>1
    <3>. QED  BY <3>1, <3>2
  <2>4. added \in SUBSET (Devices \ ActiveLeaves) /\ removed \in SUBSET ActiveLeaves
    BY DEF AddedDevicesAuthorized
  <2>5. Promise!Accept(c)
    BY <2>1, <2>2, <2>3 DEF Promise!Accept
  <2>. QED  BY <2>4, <2>5 DEF Promise!Next
<1>2. CASE CloseKind
  <2>. PICK r \in requests : FinishClose(r)
    BY <1>2 DEF CloseKind
  <2>. DEFINE S == {d \in ActiveLeaves : UserOf[d] = r.user}
  <2>1. ActiveLeaves' = ActiveLeaves \ S
    BY CloseLeaves
  <2>2. Promise!Retire(S)
    BY <2>1 DEF Promise!Retire, FinishClose
  <2>3. S \in SUBSET ActiveLeaves
    OBVIOUS
  <2>. QED  BY <2>2, <2>3 DEF Promise!Next
<1>3. CASE ChangeKind \/ FilingKind \/ RoleKind \/ BlockKind \/ OtherKind
  BY <1>3 DEF ChangeKind, FilingKind, RoleKind, BlockKind, OtherKind, FinishTransfer,
     FinishUpdateRole, FinishBlock, groupVars, ActiveLeaves
<1>. QED  BY StepKinds, <1>1, <1>2, <1>3

\* PromiseKept: the tables implement EncryptedGroup, a log of one Commit per epoch that is
\* never rewritten and leaves that change only as it says, or by being retired.
THEOREM Refinement == Spec => PromiseKept
<1>1. Init => Promise!Init
  BY DEF Init, Promise!Init, ActiveLeaves
<1>2. TypeOK /\ LogInv /\ [Next]_vars => [Promise!Next]_<<epoch, handshakes, ActiveLeaves>>
  BY StepKeepsPromise
<1>. QED  BY <1>1, <1>2, TypeCorrect, LogInvHolds, PTL DEF Spec, PromiseKept, Promise!Spec
=============================================================================
