--------------------------- MODULE MembershipRules ---------------------------
(***************************************************************************)
(* The pure rules of conversation membership: which participant states may *)
(* hold a leaf of the MLS group, and what each membership event does to a   *)
(* participant.  No storage and no locking: those are in MlsGroup.          *)
(***************************************************************************)
EXTENDS Naturals, FiniteSets

ParticipantStates ==
  {"PENDING", "JOINING", "ACTIVE", "ARCHIVED", "BLOCKED", "LEAVING", "DECLINED"}

\* "NONE" stands for a user without a participant row.
MembershipFrom == ParticipantStates \cup {"NONE"}

Roles == {"OWNER", "ADMIN", "MEMBER"}
GroupManagerRoles == {"OWNER", "ADMIN"}

EntitledToLeafStates == {"PENDING", "JOINING", "ACTIVE", "ARCHIVED", "BLOCKED"}
MemberStates == {"ACTIVE", "ARCHIVED", "BLOCKED"}

IsEntitledToLeaf(s) == s \in EntitledToLeafStates
IsLeafRemovable(ownerState, deviceIsGone) ==
  deviceIsGone \/ ~IsEntitledToLeaf(ownerState)

-----------------------------------------------------------------------------
(* The transition table, one operator per row.  A row that does not list    *)
(* the state it is asked about answers "illegal"; a no-op answers the state *)
(* itself.                                                                  *)

AddDirect(from) ==
  IF from \in {"NONE", "DECLINED", "PENDING"} THEN "JOINING"
  ELSE IF from = "LEAVING" THEN "ACTIVE"
  ELSE from

AddInvite(from) ==
  IF from \in {"NONE", "DECLINED", "LEAVING"} THEN "PENDING" ELSE from

AcceptAnswer(from) == IF from = "PENDING" THEN "JOINING" ELSE "illegal"
DeclineAnswer(from) == IF from = "PENDING" THEN "LEAVING" ELSE "illegal"

Remove(from) ==
  IF from \in {"PENDING", "ACTIVE", "ARCHIVED", "BLOCKED"} THEN "LEAVING"
  ELSE IF from = "JOINING" THEN "DECLINED"
  ELSE from

CommitAdded(from) ==
  IF from = "JOINING" THEN "ACTIVE"
  ELSE IF IsEntitledToLeaf(from) THEN from
  ELSE "illegal"

CommitRemoved(from) ==
  IF from \in {"LEAVING", "DECLINED"} THEN "DECLINED" ELSE "illegal"

GroupActivated(from) ==
  IF from = "ACTIVE" THEN "JOINING"
  ELSE IF from = "NONE" THEN "illegal"
  ELSE from

Outcome(event, from) ==
  CASE event = "ADD_DIRECT"      -> AddDirect(from)
    [] event = "ADD_INVITE"      -> AddInvite(from)
    [] event = "ACCEPT_INVITE"   -> AcceptAnswer(from)
    [] event = "DECLINE_INVITE"  -> DeclineAnswer(from)
    [] event = "EXPIRE_INVITE"   -> DeclineAnswer(from)
    [] event = "REMOVE"          -> Remove(from)
    [] event = "COMMIT_ADDED"    -> CommitAdded(from)
    [] event = "COMMIT_REMOVED"  -> CommitRemoved(from)
    [] event = "GROUP_ACTIVATED" -> GroupActivated(from)

MlsOnlyEvents == {"COMMIT_ADDED", "COMMIT_REMOVED", "GROUP_ACTIVATED"}
MembershipEvents ==
  {"ADD_DIRECT", "ADD_INVITE", "ACCEPT_INVITE", "DECLINE_INVITE", "EXPIRE_INVITE", "REMOVE"}
    \cup MlsOnlyEvents

\* Without an MLS group joining is immediate and leaving is final.
CollapsedWhenNotMls(s) ==
  IF s = "JOINING" THEN "ACTIVE" ELSE IF s = "LEAVING" THEN "DECLINED" ELSE s

ResolveMembershipTransition(from, event, mlsActive) ==
  IF mlsActive THEN Outcome(event, from)
  ELSE IF event \in MlsOnlyEvents THEN "illegal"
  ELSE IF Outcome(event, from) = from THEN from
  ELSE CollapsedWhenNotMls(Outcome(event, from))

\* (Mutants: the owner is removed like anyone else; nobody asks for a leaf.)
PlanRemovingOwners(role, from, event, mlsActive, hasLeaf) ==
  LET to == ResolveMembershipTransition(from, event, mlsActive)
  IN IF to # from /\ ((to = "LEAVING" /\ ~hasLeaf) \/ (to = "JOINING" /\ hasLeaf))
     THEN ResolveMembershipTransition(from, event, FALSE) ELSE to

PlanIgnoringLeaves(role, from, event, mlsActive, hasLeaf) ==
  IF role = "OWNER" /\ event = "REMOVE" /\ from # "NONE" THEN from
  ELSE ResolveMembershipTransition(from, event, mlsActive)

(* What a requested membership event does to one participant.  An owner is  *)
(* never removed, and a change that would wait for a Commit collapses when  *)
(* there is none to wait for: someone leaving who holds no leaf, someone    *)
(* joining who already holds one.                                           *)
PlanMembershipChange(role, from, event, mlsActive, hasLeaf) ==
  LET to == ResolveMembershipTransition(from, event, mlsActive)
      noCommitNeeded == /\ to # from
                        /\ \/ to = "LEAVING" /\ ~hasLeaf
                           \/ to = "JOINING" /\ hasLeaf
  IN IF role = "OWNER" /\ event = "REMOVE" /\ from # "NONE" THEN from
     ELSE IF noCommitNeeded THEN ResolveMembershipTransition(from, event, FALSE)
     ELSE to

\* Coming back after a decline, or being asked again mid-removal, starts as a MEMBER.
RoleAfter(role, from, to) ==
  IF to # from /\ (from \in {"NONE", "DECLINED"} \/ (from = "LEAVING" /\ to = "PENDING"))
  THEN "MEMBER" ELSE role

\* (Mutant: losing the last device does not finish a removal.)
CommitEventNeverRemoves(s, added, fullyRemoved, hasDevice, groupJustActivated) ==
  IF added THEN "COMMIT_ADDED"
  ELSE IF groupJustActivated /\ s = "ACTIVE" /\ ~hasDevice THEN "GROUP_ACTIVATED"
  ELSE "none"

(* The event an accepted Commit completes for one user; the first rule that *)
(* applies wins, and "none" means the Commit leaves the user alone.         *)
CommitEventFor(s, added, fullyRemoved, hasDevice, groupJustActivated) ==
  IF added THEN "COMMIT_ADDED"
  ELSE IF s \in {"LEAVING", "DECLINED"} /\ fullyRemoved THEN "COMMIT_REMOVED"
  ELSE IF s = "LEAVING" /\ ~hasDevice THEN "COMMIT_REMOVED"
  ELSE IF groupJustActivated /\ s = "ACTIVE" /\ ~hasDevice THEN "GROUP_ACTIVATED"
  ELSE "none"

\* Delivery eligibility of a participant, by conversation type.
IsStateDeliveryEligible(kind, s) ==
  IF kind = "GROUP" THEN s \in {"ACTIVE", "ARCHIVED"}
  ELSE s \notin {"NONE", "DECLINED", "BLOCKED"}
=============================================================================
