------------------------------- MODULE MlsGroup -------------------------------
(***************************************************************************)
(* One conversation as the server stores it: the participants' states and  *)
(* roles, the MLS epoch with its log of accepted Commits, the roster of     *)
(* device leaves, and the messages accepted.  Every action is one database  *)
(* transaction (all of them take the conversation's row lock) or one read   *)
(* made before such a transaction; what a request read outside the lock is  *)
(* kept in admitted and requests until its transaction runs.                *)
(***************************************************************************)
EXTENDS Integers, FiniteSets, MembershipRules

CONSTANTS
  Users,             \* the people who may take part
  Devices,           \* their chat devices
  UserOf,            \* the owner of each device
  InitialDevices,    \* the devices registered before the conversation starts
  Creator,           \* who started the conversation
  Kind,              \* "GROUP" or "DIRECT"
  MaxGroupMembers,   \* the seats of a group
  MaxDevicesPerCommit, \* how many devices one Commit may add, and remove
  MaxEpoch,          \* bound: Commits accepted
  MaxChanges,        \* bound: membership and device changes requested
  MaxRequests,       \* bound: requests between their read and their write
  MaxMessages        \* bound: messages accepted

ASSUME DevicesHaveOwners == UserOf \in [Devices -> Users]
ASSUME CreatorIsUser == Creator \in Users
ASSUME KindAssumption == Kind \in {"GROUP", "DIRECT"}
ASSUME UsersFinite == IsFiniteSet(Users)
ASSUME MaxGroupMembersAssumption == MaxGroupMembers \in Nat
ASSUME BoundsAssumption ==
  /\ MaxDevicesPerCommit \in Nat
  /\ MaxEpoch \in Nat
  /\ MaxChanges \in Nat
  /\ MaxRequests \in Nat
  /\ MaxMessages \in Nat

VARIABLES
  state,      \* participant state of each user, "NONE" without a row
  role,       \* participant role of each user
  epoch,      \* ChatConversation.mlsEpoch
  roster,     \* MlsGroupMember rows
  handshakes, \* MlsHandshake rows
  device,     \* ChatDevice of each device id: absent, active or revoked
  admitted,   \* devices with a request past its check that the device is active
  requests,   \* membership requests past their unlocked reads
  messages,   \* accepted messages, with what they were encrypted under
  retired,    \* history: devices whose leaf left the roster without a Commit
  changes     \* how many changes were requested so far (bounded)

vars == <<state, role, epoch, roster, handshakes, device, admitted, requests,
          messages, retired, changes>>
membershipVars == <<state, role>>
groupVars == <<epoch, roster, handshakes, retired>>

Live == -1    \* removedEpoch of a leaf still in the group

Leaf == [device : Devices, added : Nat, removed : Nat \cup {Live}]
Handshake == [epoch : Nat, sender : Devices, external : BOOLEAN, founder : BOOLEAN,
              added : SUBSET Devices, removed : SUBSET Devices]
Request == [op : {"leave", "close", "transfer", "role", "expire", "block",
                  "requestAgain", "reopen"},
            user : Users, target : Users, epoch : Nat]
Message == [sender : Devices, epoch : Nat, at : Nat, to : SUBSET Users]

-----------------------------------------------------------------------------
(* Reads of the roster.                                                      *)

HasRoster == roster # {}
ActiveLeaves == {r.device : r \in {x \in roster : x.removed = Live}}
LeavesAtEpoch(e) ==
  {r.device : r \in {x \in roster : /\ x.added <= e
                                    /\ x.removed = Live \/ x.removed > e}}
HasLeaf(u) == \E d \in ActiveLeaves : UserOf[d] = u
DeviceIsGone(d) == device[d] # "active"

\* Everyone entitled to a leaf holds a seat, invitees included.
SeatHolders(st) == {u \in Users : IsEntitledToLeaf(st[u])}

-----------------------------------------------------------------------------
(* Accepting a Commit.                                                       *)

\* (Mutant: removed leaves end one epoch early.)
RosterRemovedEarly(sender, added, removed, founder) ==
  {IF r.device \in removed /\ r.removed = Live
   THEN [r EXCEPT !.removed = epoch] ELSE r : r \in roster}
  \cup {[device |-> d, added |-> epoch + 1, removed |-> Live] : d \in added}
  \cup (IF founder THEN {[device |-> sender, added |-> 0, removed |-> Live]} ELSE {})

\* The leaves after a Commit: rows leave at epoch + 1 and new rows start there;
\* the founder's own leaf is in the group from epoch 0.
RosterAfterCommit(sender, added, removed, founder) ==
  {IF r.device \in removed /\ r.removed = Live
   THEN [r EXCEPT !.removed = epoch + 1] ELSE r : r \in roster}
  \cup {[device |-> d, added |-> epoch + 1, removed |-> Live] : d \in added}
  \cup (IF founder THEN {[device |-> sender, added |-> 0, removed |-> Live]} ELSE {})

\* The one membership event an accepted Commit completes for user u.
CommitEvent(u, sender, added, removed, founder) ==
  LET after == (ActiveLeaves \ removed) \cup added \cup (IF founder THEN {sender} ELSE {})
      hasDevice == \E d \in after : UserOf[d] = u
      lostDevice == \E d \in removed : UserOf[d] = u
  IN CommitEventFor(state[u], \E d \in added : UserOf[d] = u,
                    lostDevice /\ ~hasDevice, hasDevice, founder)

StateAfterCommit(sender, added, removed, founder) ==
  [u \in Users |->
     LET event == CommitEvent(u, sender, added, removed, founder)
     IN IF event = "none" THEN state[u]
        ELSE ResolveMembershipTransition(state[u], event, TRUE)]

AddedDevicesAuthorized(added) ==
  \A d \in added : /\ device[d] = "active"
                   /\ d \notin ActiveLeaves
                   /\ IsEntitledToLeaf(state[UserOf[d]])

RemovedDevicesRemovable(removed) ==
  \A d \in removed : /\ d \in ActiveLeaves
                     /\ IsLeafRemovable(state[UserOf[d]], DeviceIsGone(d))

DeclarationIsConsistent(sender, added, removed) ==
  /\ added \cap removed = {}
  /\ sender \notin added \cup removed
  /\ Cardinality(added) <= MaxDevicesPerCommit
  /\ Cardinality(removed) <= MaxDevicesPerCommit

ApplyCommitKeepingRemoved(base, sender, external, founder, added, removed) ==
  /\ epoch = base
  /\ epoch < MaxEpoch
  /\ epoch' = epoch + 1
  /\ handshakes' = handshakes \cup
       {[epoch |-> base, sender |-> sender, external |-> external, founder |-> founder,
         added |-> added, removed |-> removed]}
  /\ roster' = RosterAfterCommit(sender, added, {}, founder)
  /\ state' = StateAfterCommit(sender, added, removed, founder)
  /\ \A u \in Users : state'[u] # "illegal"
  /\ admitted' = admitted \ {sender}
  /\ UNCHANGED <<role, device, requests, messages, retired, changes>>

\* The transaction every accepted Commit runs: the epoch is compared and set,
\* then roster, participants and the handshake row change with it.
ApplyCommit(base, sender, external, founder, added, removed) ==
  /\ epoch = base
  /\ epoch < MaxEpoch
  /\ epoch' = epoch + 1
  /\ handshakes' = handshakes \cup
       {[epoch |-> base, sender |-> sender, external |-> external, founder |-> founder,
         added |-> added, removed |-> removed]}
  /\ roster' = RosterAfterCommit(sender, added, removed, founder)
  /\ state' = StateAfterCommit(sender, added, removed, founder)
  /\ \A u \in Users : state'[u] # "illegal"
  /\ admitted' = admitted \ {sender}
  /\ UNCHANGED <<role, device, requests, messages, retired, changes>>

\* Requests between their first check and their transaction.
InFlight == Cardinality(admitted) + Cardinality(requests)

\* The request of device d got past assertOwnActiveDevice (or, for a message,
\* assertSessionLinkedToActiveDevice) and waits for its transaction.
Admit(d) ==
  /\ device[d] = "active"
  /\ d \notin admitted
  /\ InFlight < MaxRequests
  /\ admitted' = admitted \cup {d}
  /\ UNCHANGED <<membershipVars, groupVars, device, requests, messages, changes>>

\* It was refused, lost its race for the epoch, or its process died first.
Refuse(d) ==
  /\ d \in admitted
  /\ admitted' = admitted \ {d}
  /\ UNCHANGED <<membershipVars, groupVars, device, requests, messages, changes>>

\* The first Commit of a conversation creates the group with its sender as founder.
AcceptFoundingCommit(d, base, added) ==
  /\ d \in admitted
  /\ DeclarationIsConsistent(d, added, {})
  /\ ~HasRoster
  /\ base = 0
  /\ state[UserOf[d]] = "ACTIVE"
  /\ AddedDevicesAuthorized(added)
  /\ ApplyCommit(base, d, FALSE, TRUE, added, {})

\* A Commit from a device in the group, adding and removing other devices.
AcceptMemberCommit(d, base, added, removed) ==
  /\ d \in admitted
  /\ DeclarationIsConsistent(d, added, removed)
  /\ HasRoster
  /\ d \in ActiveLeaves
  /\ state[UserOf[d]] = "ACTIVE"
  /\ AddedDevicesAuthorized(added)
  /\ RemovedDevicesRemovable(removed)
  /\ ApplyCommit(base, d, FALSE, FALSE, added, removed)

\* A device outside the group adds itself; a resync replaces its own leaf instead.
AcceptExternalJoin(d, base, resync) ==
  /\ d \in admitted
  /\ HasRoster
  /\ resync => d \in ActiveLeaves
  /\ IsEntitledToLeaf(state[UserOf[d]])
  /\ LET added == IF resync THEN {} ELSE {d}
     IN /\ AddedDevicesAuthorized(added)
        /\ ApplyCommit(base, d, TRUE, FALSE, added, {})

-----------------------------------------------------------------------------
(* Membership changes.                                                       *)

Count == changes < MaxChanges /\ changes' = changes + 1

\* (Mutant: the change is planned as if there were no MLS group.)
PlannedWithoutGroup(u, event) ==
  PlanMembershipChange(role[u], state[u], event, FALSE, FALSE)

\* The state user u gets from a membership event, under the lock.
Planned(u, event) ==
  PlanMembershipChange(role[u], state[u], event, HasRoster, HasRoster /\ HasLeaf(u))


ChangeMembership(u, event) ==
  /\ Planned(u, event) # "illegal"
  /\ state' = [state EXCEPT ![u] = Planned(u, event)]
  /\ role' = [role EXCEPT ![u] = RoleAfter(role[u], state[u], Planned(u, event))]

\* The actor is still an active member with one of these roles, under the lock.
ActsAs(actor, allowed) == state[actor] = "ACTIVE" /\ role[actor] \in allowed

AddMember(actor, u, event) ==
  /\ Kind = "GROUP"
  /\ u # actor
  /\ event \in {"ADD_DIRECT", "ADD_INVITE"}
  /\ ActsAs(actor, Roles)
  /\ ChangeMembership(u, event)
  /\ state' # state => Cardinality(SeatHolders(state')) <= MaxGroupMembers
  /\ Count
  /\ UNCHANGED <<groupVars, device, admitted, requests, messages>>

RemoveMember(actor, u) ==
  /\ Kind = "GROUP"
  /\ u # actor
  /\ ActsAs(actor, GroupManagerRoles)
  /\ ChangeMembership(u, "REMOVE")
  /\ Count
  /\ UNCHANGED <<groupVars, device, admitted, requests, messages>>

AcceptInvite(u) ==
  /\ ChangeMembership(u, "ACCEPT_INVITE")
  /\ Count
  /\ UNCHANGED <<groupVars, device, admitted, requests, messages>>

DeclineInvite(u) ==
  /\ ChangeMembership(u, "DECLINE_INVITE")
  /\ Count
  /\ UNCHANGED <<groupVars, device, admitted, requests, messages>>

\* Archiving takes no lock: it is one write conditional on the state it leaves.
ArchiveConversation(u) ==
  /\ state[u] = "ACTIVE"
  /\ state' = [state EXCEPT ![u] = "ARCHIVED"]
  /\ Count
  /\ UNCHANGED <<role, groupVars, device, admitted, requests, messages>>

UnarchiveConversation(u) ==
  /\ state[u] = "ARCHIVED"
  /\ state' = [state EXCEPT ![u] = "ACTIVE"]
  /\ Count
  /\ UNCHANGED <<role, groupVars, device, admitted, requests, messages>>

-----------------------------------------------------------------------------
(* Requests that read before they take the lock.  Begin is the read with its *)
(* early returns; Finish is the transaction.                                 *)

Begin(op, u, target, e) ==
  /\ InFlight < MaxRequests
  /\ Count
  /\ requests' = requests \cup
       {[op |-> op, user |-> u, target |-> target, epoch |-> e]}
  /\ UNCHANGED <<membershipVars, groupVars, device, admitted, messages>>

Finish(r) == requests' = requests \ {r}

\* A refusal under the lock, a failed transaction, or a process that died.
Abandon(r) ==
  /\ Finish(r)
  /\ UNCHANGED <<membershipVars, groupVars, device, admitted, messages, changes>>

OthersActive(u) == \E v \in Users \ {u} : state[v] = "ACTIVE"

BeginLeave(u) ==
  /\ Kind = "GROUP"
  /\ state[u] = "ACTIVE"
  /\ IF role[u] = "OWNER"
     THEN ~OthersActive(u) /\ Begin("close", u, u, epoch)
     ELSE Begin("leave", u, u, 0)

FinishLeave(r) ==
  /\ r.op = "leave"
  /\ ChangeMembership(r.user, "REMOVE")
  /\ Finish(r)
  /\ UNCHANGED <<groupVars, device, admitted, messages, changes>>

\* What closeSoleOwnerGroup requires under the lock.
CloseAllowed(r) ==
  /\ r.op = "close"
  /\ ActsAs(r.user, {"OWNER"})
  /\ ~OthersActive(r.user)

OwnLiveLeaves(u) == {x \in roster : x.removed = Live /\ UserOf[x.device] = u}

\* The table's CHECK: a leaf is removed after the epoch it was added at.
EpochsCheck(rows, removedEpoch) == \A x \in rows : removedEpoch > x.added

\* The owner is declined and their leaves retired at the epoch read before the
\* lock, with no Commit; a violated CHECK fails the whole transaction.
FinishClose(r) ==
  /\ CloseAllowed(r)
  /\ EpochsCheck(OwnLiveLeaves(r.user), r.epoch)
  /\ state' = [state EXCEPT ![r.user] = "DECLINED"]
  /\ roster' = {IF x \in OwnLiveLeaves(r.user) THEN [x EXCEPT !.removed = r.epoch] ELSE x
                : x \in roster}
  /\ retired' = retired \cup {x.device : x \in OwnLiveLeaves(r.user)}
  /\ Finish(r)
  /\ UNCHANGED <<role, epoch, handshakes, device, admitted, messages, changes>>

BeginTransfer(u, v) ==
  /\ Kind = "GROUP"
  /\ u # v
  /\ ActsAs(u, {"OWNER"})
  /\ state[v] = "ACTIVE"
  /\ Begin("transfer", u, v, 0)

\* (Mutant: nobody counts how many rows the demotion matched.)
FinishTransferUncounted(r) ==
  /\ r.op = "transfer"
  /\ state[r.target] = "ACTIVE"
  /\ role' = [role EXCEPT ![r.target] = "OWNER",
                          ![r.user] = IF @ = "OWNER" THEN "ADMIN" ELSE @]
  /\ Finish(r)
  /\ UNCHANGED <<state, groupVars, device, admitted, messages, changes>>

\* Each write only matches the row it checked; both must match.
FinishTransfer(r) ==
  /\ r.op = "transfer"
  /\ state[r.target] = "ACTIVE"
  /\ role[r.user] = "OWNER"
  /\ role' = [role EXCEPT ![r.target] = "OWNER", ![r.user] = "ADMIN"]
  /\ Finish(r)
  /\ UNCHANGED <<state, groupVars, device, admitted, messages, changes>>

BeginUpdateRole(u, v) ==
  /\ Kind = "GROUP"
  /\ u # v
  /\ ActsAs(u, {"OWNER"})
  /\ state[v] = "ACTIVE"
  /\ role[v] # "OWNER"
  /\ Begin("role", u, v, 0)

FinishUpdateRole(r, newRole) ==
  /\ r.op = "role"
  /\ newRole \in {"ADMIN", "MEMBER"}
  /\ ActsAs(r.user, {"OWNER"})
  /\ role' = [role EXCEPT ![r.target] = newRole]
  /\ Finish(r)
  /\ UNCHANGED <<state, groupVars, device, admitted, messages, changes>>

\* The daily sweep read u as an invitee whose invite ran out.
BeginExpire(u) ==
  /\ state[u] = "PENDING"
  /\ Begin("expire", u, u, 0)

FinishExpire(r) ==
  /\ r.op = "expire"
  /\ ChangeMembership(r.user, "EXPIRE_INVITE")
  /\ Finish(r)
  /\ UNCHANGED <<groupVars, device, admitted, messages, changes>>

\* Direct chats only: blocking the other side of a request not answered yet.
BeginBlock(u) ==
  /\ Kind = "DIRECT"
  /\ state[u] = "PENDING"
  /\ Begin("block", u, u, 0)

\* One unconditional write, under no lock.
FinishBlock(r) ==
  /\ r.op = "block"
  /\ state' = [state EXCEPT ![r.user] = "DECLINED"]
  /\ Finish(r)
  /\ UNCHANGED <<role, groupVars, device, admitted, messages, changes>>

BeginRequestAgain(u, v) ==
  /\ Kind = "DIRECT"
  /\ u # v
  /\ state[u] = "ACTIVE"
  /\ state[v] = "DECLINED"
  /\ Begin("requestAgain", u, v, 0)

FinishRequestAgain(r) ==
  /\ r.op = "requestAgain"
  /\ ChangeMembership(r.target, "ADD_INVITE")
  /\ Finish(r)
  /\ UNCHANGED <<groupVars, device, admitted, messages, changes>>

BeginReopen(u) ==
  /\ Kind = "DIRECT"
  /\ state[u] \in {"DECLINED", "LEAVING"}
  /\ Begin("reopen", u, u, 0)

FinishReopen(r) ==
  /\ r.op = "reopen"
  /\ ChangeMembership(r.user, "ADD_DIRECT")
  /\ Finish(r)
  /\ UNCHANGED <<groupVars, device, admitted, messages, changes>>

-----------------------------------------------------------------------------
(* Devices, and messages.                                                    *)

RegisterDevice(d) ==
  /\ device[d] = "absent"
  /\ device' = [device EXCEPT ![d] = "active"]
  /\ Count
  /\ UNCHANGED <<membershipVars, groupVars, admitted, requests, messages>>

RevokeDevice(d) ==
  /\ device[d] = "active"
  /\ device' = [device EXCEPT ![d] = "revoked"]
  /\ Count
  /\ UNCHANGED <<membershipVars, groupVars, admitted, requests, messages>>

\* (Mutant: the sender does not look for a removal in progress.)
NoChangeEverPending == FALSE


MembershipChangePending == \E u \in Users : state[u] = "LEAVING"

\* A working device of a member, or of someone joining, that is not in the group yet.
MemberDeviceMissingFromGroup ==
  /\ ActiveLeaves # {}
  /\ \E d \in Devices : /\ device[d] = "active"
                        /\ state[UserOf[d]] \in MemberStates \cup {"JOINING"}
                        /\ d \notin ActiveLeaves

\* Device d's ciphertext was made under epoch e, which other devices' Commits may have
\* left behind by now; a device encrypts only after its own Commits, under one lock.
SendMessage(d, e) ==
  /\ d \in admitted
  /\ HasRoster
  /\ e \in 0 .. epoch
  /\ d \in LeavesAtEpoch(e)
  /\ \A h \in handshakes : h.sender = d => e > h.epoch
  /\ state[UserOf[d]] = "ACTIVE"
  /\ ~MembershipChangePending
  /\ ~MemberDeviceMissingFromGroup
  /\ Cardinality(messages) < MaxMessages
  /\ messages' = messages \cup
       {[sender |-> d, epoch |-> e, at |-> epoch,
         to |-> {u \in Users : u = UserOf[d] \/ IsStateDeliveryEligible(Kind, state[u])}]}
  /\ admitted' = admitted \ {d}
  /\ UNCHANGED <<membershipVars, groupVars, device, requests, changes>>

-----------------------------------------------------------------------------
Init ==
  /\ state \in [Users -> {"NONE", "PENDING", "ACTIVE"}]
  /\ state[Creator] = "ACTIVE"
  /\ \E u \in Users \ {Creator} : state[u] # "NONE"
  /\ Cardinality(SeatHolders(state)) <= MaxGroupMembers
  /\ Kind = "DIRECT" => \A u \in Users : state[u] # "NONE"
  /\ role = [u \in Users |->
                IF Kind = "GROUP" /\ u = Creator THEN "OWNER" ELSE "MEMBER"]
  /\ epoch = 0
  /\ roster = {}
  /\ handshakes = {}
  /\ device = [d \in Devices |-> IF d \in InitialDevices THEN "active" ELSE "absent"]
  /\ admitted = {}
  /\ requests = {}
  /\ messages = {}
  /\ retired = {}
  /\ changes = 0

CommitStep ==
  \E d \in Devices, base \in 0 .. epoch :
    \/ \E added \in SUBSET Devices : AcceptFoundingCommit(d, base, added)
    \/ \E added, removed \in SUBSET Devices : AcceptMemberCommit(d, base, added, removed)
    \/ \E resync \in BOOLEAN : AcceptExternalJoin(d, base, resync)

DeviceStep ==
  \E d \in Devices :
    \/ Admit(d)
    \/ Refuse(d)
    \/ RegisterDevice(d)
    \/ RevokeDevice(d)
    \/ \E e \in 0 .. epoch : SendMessage(d, e)

MembershipStep ==
  \E u \in Users :
    \/ \E v \in Users, event \in {"ADD_DIRECT", "ADD_INVITE"} : AddMember(u, v, event)
    \/ \E v \in Users : RemoveMember(u, v)
    \/ AcceptInvite(u)
    \/ DeclineInvite(u)
    \/ ArchiveConversation(u)
    \/ UnarchiveConversation(u)

BeginStep ==
  \E u \in Users :
    \/ BeginLeave(u)
    \/ \E v \in Users : BeginTransfer(u, v)
    \/ \E v \in Users : BeginUpdateRole(u, v)
    \/ BeginExpire(u)
    \/ BeginBlock(u)
    \/ \E v \in Users : BeginRequestAgain(u, v)
    \/ BeginReopen(u)

FinishStep ==
  \E r \in requests :
    \/ FinishLeave(r)
    \/ FinishClose(r)
    \/ FinishTransfer(r)
    \/ \E newRole \in Roles : FinishUpdateRole(r, newRole)
    \/ FinishExpire(r)
    \/ FinishBlock(r)
    \/ FinishRequestAgain(r)
    \/ FinishReopen(r)
    \/ Abandon(r)

Next == CommitStep \/ DeviceStep \/ MembershipStep \/ BeginStep \/ FinishStep

Spec == Init /\ [][Next]_vars

-----------------------------------------------------------------------------
(* Properties.                                                               *)

\* Every variable holds values of its column's type.
TypeOK ==
  /\ state \in [Users -> MembershipFrom]
  /\ role \in [Users -> Roles]
  /\ epoch \in Nat
  /\ roster \subseteq Leaf
  /\ handshakes \subseteq Handshake
  /\ device \in [Devices -> {"absent", "active", "revoked"}]
  /\ admitted \subseteq Devices
  /\ requests \subseteq Request
  /\ messages \subseteq Message
  /\ retired \subseteq Devices
  /\ changes \in Nat

\* No outsider holds a leaf: the owner of every device in the group is a member, an
\* invitee, or being removed; someone still joining, declined or unknown holds none
\* (membership-state-machine.ts:46-49, the integrity check mls-outsider-leaf).
LeafOwnersBelong ==
  \A d \in ActiveLeaves :
    state[UserOf[d]] \in {"PENDING", "LEAVING"} \cup MemberStates

\* Someone mid-removal still has a leaf to remove, so there is a Commit that can end
\* the removal; otherwise sends into the conversation would be refused for good.
LeavingHasLeafToRemove ==
  \A u \in Users : state[u] = "LEAVING" => HasLeaf(u)

\* The roster table agrees with the log: what it says were the leaves at one epoch,
\* changed by the Commit accepted there, are the leaves at the next one (devices whose
\* leaf a closing owner retired without a Commit aside).  A member applies the log and
\* compares its tree with the table, so a difference would stop it.
RosterReplaysLog ==
  \A h \in handshakes :
    LET before == IF h.founder THEN {h.sender} ELSE LeavesAtEpoch(h.epoch)
    IN LeavesAtEpoch(h.epoch + 1) \ retired
         = ((before \ h.removed) \cup h.added) \ retired

\* The tables implement the promise of EncryptedGroup.
Promise == INSTANCE EncryptedGroup WITH log <- handshakes, leaves <- ActiveLeaves
PromiseKept == Promise!Spec

\* One Commit won each epoch below the current one.
OneCommitPerEpoch ==
  /\ \A h \in handshakes : h.epoch < epoch
  /\ \A e \in 0 .. epoch - 1 : \E h \in handshakes : h.epoch = e
  /\ \A g, h \in handshakes : g.epoch = h.epoch => g = h

\* Two transfers, a role change and a removal at once never leave a group with two
\* owners.
AtMostOneOwner ==
  \A u, v \in Users : role[u] = "OWNER" /\ role[v] = "OWNER" => u = v

\* An owner is never offboarded by a removal, an expiry or a Commit: they stay a
\* member until they close the group themselves.
OwnerIsNeverOffboarded ==
  \A u \in Users :
    role[u] = "OWNER" => state[u] \in MemberStates \cup {"JOINING", "DECLINED"}

\* In an encrypted conversation nobody becomes a member without a device in the group:
\* joining completes only with a Commit, a reverted removal only while the leaf is there.
NewMembersHaveLeaves ==
  HasRoster' => \A u \in Users :
    state[u] \notin MemberStates /\ state'[u] \in MemberStates => HasLeaf(u)'
MembersAreAdmittedByCommit == [][NewMembersHaveLeaves]_vars

\* What is sent under the current epoch goes to no leaf whose owner is not entitled to
\* one: a removal asked for before the send is either done or stops the send.
SendIsEntitled ==
  messages' # messages => \A d \in ActiveLeaves : IsEntitledToLeaf(state[UserOf[d]])
SentOnlyToEntitledLeaves == [][SendIsEntitled]_vars
=============================================================================
