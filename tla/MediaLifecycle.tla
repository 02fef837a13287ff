---------------------------- MODULE MediaLifecycle ----------------------------
(***************************************************************************)
(* Uploaded media from its signature to its deletion.  The backend keeps a  *)
(* MediaUpload row, the provider (Cloudinary) keeps the asset, and messages *)
(* and single-image slots (an avatar, a group photo, the branding of a      *)
(* game) point at the row.  Every request and job reads the row, calls the  *)
(* provider and writes the row in separate steps, between which the others  *)
(* run, and may die after any of them.                                      *)
(***************************************************************************)
EXTENDS Naturals, FiniteSets

CONSTANTS
  Pictures,      \* uploads for a single-image slot: AVATAR, GROUP_PHOTO, GAME_ICON, GAME_BANNER
  Attachments,   \* uploads for messages: CHAT, COMMUNITY
  Slots,         \* what shows one picture: a user, a group, a game
  Handlers,      \* requests served at the same time
  Jobs,          \* the hourly jobs of every backend process
  MaxFaults      \* bound: provider errors and crashes together

Uploads == Pictures \cup Attachments
Actors == Handlers \cup Jobs
None == "none"

ASSUME UploadsAssumption == Pictures \cap Attachments = {} /\ None \notin Uploads
ASSUME ActorsAssumption == Handlers \cap Jobs = {}
ASSUME FaultsAssumption == MaxFaults \in Nat

VARIABLES
  media,     \* MediaUpload.status
  assets,    \* the uploads whose asset exists at the provider
  due,       \* unused uploads a day old, and others whose row was not written for an hour: the jobs may take them
  slot,      \* the upload each slot points at: User.avatarMediaUploadId and the like
  message,   \* the message of each attachment: NONE, SENT or DELETED
  link,      \* attachments that have a ChatMessageMedia row
  task,      \* what each actor is doing
  faults     \* provider errors and crashes so far (bounded)

pointers == <<slot, message, link>>
mediaVars == <<media, assets, due, pointers, task, faults>>

Statuses == {"ABSENT", "INITIATED", "UPLOADED", "CLEANING", "ATTACHED", "RELEASE_FAILED", "DELETED"}
Unused == {"INITIATED", "UPLOADED"}
Releasable == {"ATTACHED", "RELEASE_FAILED"}

\* `read` is the status the actor saw first, `before` what the slot it fills pointed at.
NoTask == [job |-> "none", at |-> "none", on |-> None, read |-> "ABSENT", before |-> None, slot |-> None]

-----------------------------------------------------------------------------
(* Steps of a task.                                                          *)

Doing(a, job, at) == task[a].job = job /\ task[a].at = at
IsFree(a) == task[a] = NoTask

Starts(a, job, at, u) ==
  /\ IsFree(a)
  /\ task' = [task EXCEPT ![a] = [NoTask EXCEPT !.job = job, !.at = at, !.on = u]]
StartsKnowing(a, job, at, u) ==
  /\ IsFree(a)
  /\ task' = [task EXCEPT ![a] = [NoTask EXCEPT !.job = job, !.at = at, !.on = u, !.read = media[u]]]
Continues(a, at) == task' = [task EXCEPT ![a].at = at]
Ends(a) == task' = [task EXCEPT ![a] = NoTask]

\* Every write sets the row's updatedAt; an unused upload is due by its createdAt.
Write(us, status) ==
  /\ media' = [u \in Uploads |-> IF u \in us THEN status ELSE media[u]]
  /\ due' = IF status \in Unused THEN due ELSE due \ us

\* An update whose WHERE names the statuses it may start from.
WriteIf(u, from, status) ==
  IF media[u] \in from THEN Write({u}, status) ELSE UNCHANGED <<media, due>>

\* The provider deletes the asset, or answers with an error.
Destroyed(u) == assets' = assets \ {u} /\ UNCHANGED faults
ProviderFails == faults < MaxFaults /\ faults' = faults + 1 /\ UNCHANGED assets

Crash(a) ==
  /\ ~IsFree(a)
  /\ faults < MaxFaults
  /\ faults' = faults + 1
  /\ Ends(a)
  /\ UNCHANGED <<media, assets, due, pointers>>

-----------------------------------------------------------------------------
(* Uploading.                                                                *)

CreateUploadSignature(u) ==
  /\ media[u] = "ABSENT"
  /\ Write({u}, "INITIATED")
  /\ UNCHANGED <<assets, pointers, task, faults>>

\* The browser sends the file straight to the provider.
PutAsset(u) ==
  /\ u \notin due
  /\ media[u] = "INITIATED"
  /\ assets' = assets \cup {u}
  /\ UNCHANGED <<media, due, pointers, task, faults>>

\* confirmUpload: the row is INITIATED and the provider has the asset; a confirmation of the same asset again is
\* answered from the row.
BeginConfirm(a, u) ==
  /\ media[u] = "INITIATED"
  /\ u \in assets
  /\ Starts(a, "confirm", "mark", u)
  /\ UNCHANGED <<media, assets, due, pointers, faults>>

\* Conditional: a row that cleanup claimed meanwhile is not revived.
FinishConfirm(a) ==
  /\ Doing(a, "confirm", "mark")
  /\ WriteIf(task[a].on, {"INITIATED"}, "UPLOADED")
  /\ Ends(a)
  /\ UNCHANGED <<assets, pointers, faults>>

\* Time, where a job looks at it.
BecomesDue(u) ==
  /\ media[u] \in Unused \cup {"CLEANING", "RELEASE_FAILED"} \/ (media[u] = "ATTACHED" /\ u \in Pictures)
  /\ u \notin due
  /\ due' = due \cup {u}
  /\ UNCHANGED <<media, assets, pointers, task, faults>>

-----------------------------------------------------------------------------
(* Attaching.                                                                *)

\* Message and attachments in one transaction, which claims all of the uploads or none.
Send(us) ==
  /\ us # {}
  /\ \A u \in us : media[u] = "UPLOADED"
  /\ Write(us, "ATTACHED")
  /\ message' = [u \in Attachments |-> IF u \in us THEN "SENT" ELSE message[u]]
  /\ link' = link \cup us
  /\ UNCHANGED <<assets, slot, task, faults>>

\* UserAvatarRepository.replace and clear, and the same for group photos and branding: the claim, a read of what
\* the slot points at, and a swap only if it still points at that.  None clears the slot.
BeginSwap(a, s, u) ==
  /\ u # None => media[u] = "UPLOADED"
  /\ IsFree(a)
  /\ task' = [task EXCEPT ![a] =
       [NoTask EXCEPT !.job = "swap", !.at = "swap", !.on = u, !.before = slot[s], !.slot = s]]
  /\ UNCHANGED <<media, assets, due, pointers, faults>>

\* Committed, the actor goes on to release what the slot pointed at before.
Swap(a) ==
  /\ Doing(a, "swap", "swap")
  /\ LET t == task[a]
     IN IF slot[t.slot] = t.before /\ (t.on # None => media[t.on] = "UPLOADED")
        THEN /\ slot' = [slot EXCEPT ![t.slot] = t.on]
             /\ IF t.on = None THEN UNCHANGED <<media, due>> ELSE Write({t.on}, "ATTACHED")
             /\ task' = [task EXCEPT ![a] =
                  IF t.before = None THEN NoTask
                  ELSE [NoTask EXCEPT !.job = "replaced", !.at = "check", !.on = t.before]]
        ELSE Ends(a) /\ UNCHANGED <<media, due, slot>>
  /\ UNCHANGED <<assets, message, link, faults>>

\* deleteMessage: the message is cleared, then its attachments are released.
Unsend(a, u) ==
  /\ message[u] = "SENT"
  /\ message' = [message EXCEPT ![u] = "DELETED"]
  /\ Starts(a, "unsent", "check", u)
  /\ UNCHANGED <<media, assets, due, slot, link, faults>>

-----------------------------------------------------------------------------
(* Releasing what nothing shows any more: destroyAttachedCloudinaryAsset and what its callers write after it. *)

Releases == {"replaced", "unsent", "retry"}
IsReleasing(a, at) == \E job \in Releases : Doing(a, job, at)

\* Nothing to do unless the row is still to be released; an unsent message loses its link all the same.
CheckRelease(a) ==
  /\ IsReleasing(a, "check")
  /\ LET u == task[a].on
     IN IF media[u] \in Releasable
        THEN Continues(a, "destroy") /\ UNCHANGED link
        ELSE /\ Ends(a)
             /\ link' = IF task[a].job = "unsent" THEN link \ {u} ELSE link
  /\ UNCHANGED <<media, assets, due, slot, message, faults>>

Release(a) ==
  /\ IsReleasing(a, "destroy")
  /\ \/ Destroyed(task[a].on) /\ Continues(a, "finish")
     \/ ProviderFails /\ Continues(a, "flag")
  /\ UNCHANGED <<media, due, pointers>>

\* releaseAttachedUpload writes the row by its id; the others conditionally, together with dropping the link.
FinishRelease(a) ==
  /\ IsReleasing(a, "finish")
  /\ LET u == task[a].on
     IN IF task[a].job = "replaced"
        THEN Write({u}, "DELETED") /\ UNCHANGED link
        ELSE WriteIf(u, Releasable, "DELETED") /\ link' = link \ {u}
  /\ Ends(a)
  /\ UNCHANGED <<assets, slot, message, faults>>

FlagRelease(a) ==
  /\ IsReleasing(a, "flag")
  /\ WriteIf(task[a].on, Releasable, "RELEASE_FAILED")
  /\ Ends(a)
  /\ UNCHANGED <<assets, pointers, faults>>

\* MediaReleaseRetryService: failed releases, and pictures no slot points at any more.
IsOrphaned(u) == media[u] = "ATTACHED" /\ u \in Pictures /\ \A s \in Slots : slot[s] # u

BeginRetry(a, u) ==
  /\ u \in due
  /\ media[u] = "RELEASE_FAILED" \/ IsOrphaned(u)
  /\ Starts(a, "retry", "check", u)
  /\ UNCHANGED <<media, assets, due, pointers, faults>>

-----------------------------------------------------------------------------
(* Deleting what was never used.                                             *)

\* removePendingUpload, by the owner.
BeginRemove(a, u) ==
  /\ media[u] \in Unused
  /\ StartsKnowing(a, "remove", "claim", u)
  /\ UNCHANGED <<media, assets, due, pointers, faults>>

\* (Mutant: what an earlier cleanup left behind is not looked for.)
FoundOnceOnly == Unused

\* MediaCleanupService: what was not attached within a day, or what an earlier cleanup left behind.
FoundByCleanup == Unused \cup {"CLEANING"}

BeginCleanup(a, u) ==
  /\ u \in due
  /\ media[u] \in FoundByCleanup
  /\ StartsKnowing(a, "cleanup", "claim", u)
  /\ UNCHANGED <<media, assets, due, pointers, faults>>

\* (Mutant: a claim does not look at the status.)
ClaimAny(a) == TRUE

\* claimForCleanup and reclaimStaleCleanup: only from the status the actor expects, so that no message can
\* attach what is being deleted, and one of two jobs wins.
MayClaim(a) ==
  LET u == task[a].on
  IN IF task[a].read = "CLEANING" THEN media[u] = "CLEANING" /\ u \in due ELSE media[u] \in Unused

\* The owner's request deletes the asset of an upload it saw confirmed; cleanup always does.
DeletesAsset(a) == task[a].job = "cleanup" \/ task[a].read = "UPLOADED"

ClaimUpload(a) ==
  /\ Doing(a, "remove", "claim") \/ Doing(a, "cleanup", "claim")
  /\ IF MayClaim(a)
     THEN /\ Write({task[a].on}, "CLEANING")
          /\ Continues(a, IF DeletesAsset(a) THEN "destroy" ELSE "finish")
     ELSE Ends(a) /\ UNCHANGED <<media, due>>
  /\ UNCHANGED <<assets, pointers, faults>>

\* After an error the row stays CLEANING.
Destroy(a) ==
  /\ Doing(a, "remove", "destroy") \/ Doing(a, "cleanup", "destroy")
  /\ \/ Destroyed(task[a].on) /\ Continues(a, "finish")
     \/ ProviderFails /\ Ends(a)
  /\ UNCHANGED <<media, due, pointers>>

MarkDeleted(a) ==
  /\ Doing(a, "remove", "finish") \/ Doing(a, "cleanup", "finish")
  /\ Write({task[a].on}, "DELETED")
  /\ Ends(a)
  /\ UNCHANGED <<assets, pointers, faults>>

-----------------------------------------------------------------------------
MediaInit ==
  /\ media = [u \in Uploads |-> "ABSENT"]
  /\ assets = {} /\ due = {}
  /\ slot = [s \in Slots |-> None]
  /\ message = [u \in Attachments |-> "NONE"]
  /\ link = {}
  /\ task = [a \in Actors |-> NoTask]
  /\ faults = 0

Proceed(a) ==
  \/ FinishConfirm(a) \/ Swap(a)
  \/ CheckRelease(a) \/ Release(a) \/ FinishRelease(a) \/ FlagRelease(a)
  \/ ClaimUpload(a) \/ Destroy(a) \/ MarkDeleted(a)

JobStarts(a, u) == BeginCleanup(a, u) \/ BeginRetry(a, u)

MediaNext ==
  \/ \E u \in Uploads : CreateUploadSignature(u) \/ PutAsset(u) \/ BecomesDue(u)
  \/ \E us \in SUBSET Attachments : Send(us)
  \/ \E a \in Handlers, u \in Uploads : BeginConfirm(a, u) \/ BeginRemove(a, u)
  \/ \E a \in Handlers, u \in Pictures \cup {None}, s \in Slots : BeginSwap(a, s, u)
  \/ \E a \in Handlers, u \in Attachments : Unsend(a, u)
  \/ \E a \in Jobs, u \in Uploads : BeginCleanup(a, u) \/ BeginRetry(a, u)
  \/ \E a \in Actors : Proceed(a) \/ Crash(a)

MediaSpec == MediaInit /\ [][MediaNext]_mediaVars

\* What was begun goes on, time passes, and the hourly jobs get to every upload that waits for them.
Fairness ==
  /\ \A a \in Actors : WF_mediaVars(Proceed(a))
  /\ \A u \in Uploads : /\ WF_mediaVars(BecomesDue(u))
                        /\ SF_mediaVars(\E a \in Jobs : JobStarts(a, u))
FairMediaSpec == MediaSpec /\ Fairness

-----------------------------------------------------------------------------
(* Properties.                                                               *)

Task == [job : {"none", "confirm", "swap", "remove", "cleanup"} \cup Releases,
         at : {"none", "mark", "swap", "check", "destroy", "finish", "flag", "claim"},
         on : Uploads \cup {None}, read : Statuses, before : Uploads \cup {None}, slot : Slots \cup {None}]

\* The rows, the provider's assets and what every actor is doing are of their types.
MediaTypeOK ==
  /\ media \in [Uploads -> Statuses]
  /\ assets \subseteq Uploads /\ due \subseteq Uploads
  /\ slot \in [Slots -> Pictures \cup {None}]
  /\ message \in [Attachments -> {"NONE", "SENT", "DELETED"}]
  /\ link \subseteq Attachments
  /\ task \in [Actors -> Task]
  /\ faults \in 0 .. MaxFaults

Shown == {u \in Uploads : (\E s \in Slots : slot[s] = u) \/ (u \in Attachments /\ message[u] = "SENT")}

\* Whatever a message or a slot shows still has its asset, and its row says that it is attached: no deletion by
\* its owner, by a job, or on behalf of what showed it before ever takes it away.
ShownMediaExists == \A u \in Shown : media[u] = "ATTACHED" /\ u \in assets

\* Uploads that were never used, whose deletion or release failed or was cut short by a crash, and pictures that
\* were replaced, are deleted in the end.
Waste(u) == media[u] \in Unused \cup {"CLEANING", "RELEASE_FAILED"} \/ IsOrphaned(u)
WasteIsDeleted == \A u \in Uploads : Waste(u) ~> ~Waste(u)
=============================================================================
