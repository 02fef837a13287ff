------------------------------- MODULE ChatBackup -------------------------------
(***************************************************************************)
(* The encrypted backup of one user: a key row, and one blob per message    *)
(* within a quota.  Storing, replacing and deleting hold the user's          *)
(* advisory lock for their transaction; turning on, challenges, scheduling   *)
(* and cancelling write the key row without it.                              *)
(***************************************************************************)
EXTENDS Naturals, FiniteSets

CONSTANTS
  Clients,        \* the user's clients
  Messages, Quota, \* messages that may be backed up, and how many blobs fit
  Delay,          \* DELETION_DELAY_MS
  MaxTime, MaxKeys, MaxNonces

ASSUME MessagesAssumption == IsFiniteSet(Messages)
ASSUME BackupAssumption == Quota \in Nat /\ Delay \in Nat \ {0} /\ {MaxTime, MaxKeys, MaxNonces} \subseteq Nat

VARIABLES
  now,
  key,      \* ChatBackupKey: version 0 is no row
  keys,     \* keys made so far
  nonces,   \* challenges issued so far
  blobs,    \* ChatBackupBlob rows: the message, and the key its text is encrypted with
  request,  \* the request of each client
  job       \* the daily deletion

backupVars == <<now, key, keys, nonces, blobs, request, job>>

Never == 0   \* deletionScheduledAt: 0 is null
NoKey == [version |-> 0, scheduled |-> Never, challenge |-> 0]
Fresh(v) == [NoKey EXCEPT !.version = v]
NoRequest == [at |-> "none", version |-> 0, nonce |-> 0, messages |-> {}]
NoRun == [at |-> "none", now |-> 0, found |-> 0]

Exists == key.version # 0
Idle(c) == request[c].at = "none"
Replies(c) == request' = [request EXCEPT ![c] = NoRequest]

\* The advisory lock is free: the job is the only one that holds it for more than a step.
LockIsFree == job.at # "deleting"

-----------------------------------------------------------------------------
(* The key.                                                                  *)

\* The client found no key; the primary key decides between two.
TurnOn(c) ==
  /\ Idle(c)
  /\ ~Exists
  /\ keys < MaxKeys
  /\ key' = Fresh(keys + 1)
  /\ keys' = keys + 1
  /\ UNCHANGED <<now, nonces, blobs, request, job>>

\* A client that knows the key asks for a challenge, which replaces the one before, to do `what` with it.
Challenge(c, what) ==
  /\ Idle(c)
  /\ Exists
  /\ nonces < MaxNonces
  /\ nonces' = nonces + 1
  /\ key' = [key EXCEPT !.challenge = nonces + 1]
  /\ request' = [request EXCEPT ![c] =
       [at |-> what, version |-> key.version, nonce |-> nonces + 1, messages |-> {}]]
  /\ UNCHANGED <<now, keys, blobs, job>>

\* (Mutant: the proof is checked against the key the client began with.)
ProofOfThen(c) == TRUE

\* verifyProofAndMutate, under the lock: the challenge is the live one, and the proof is made with the current secret.
Proves(c) == Exists /\ key.challenge = request[c].nonce /\ key.version = request[c].version

Replace(c) ==
  /\ request[c].at = "replace"
  /\ LockIsFree
  /\ Proves(c)
  /\ keys < MaxKeys
  /\ key' = Fresh(keys + 1)
  /\ keys' = keys + 1
  /\ blobs' = {}
  /\ Replies(c)
  /\ UNCHANGED <<now, nonces, job>>

DeleteNow(c) ==
  /\ request[c].at = "delete"
  /\ LockIsFree
  /\ Proves(c)
  /\ key' = NoKey
  /\ blobs' = {}
  /\ Replies(c)
  /\ UNCHANGED <<now, keys, nonces, job>>

\* The challenge is missing, used or expired, or the proof is wrong.
Refuse(c) ==
  /\ ~Idle(c)
  /\ Replies(c)
  /\ UNCHANGED <<now, key, keys, nonces, blobs, job>>

-----------------------------------------------------------------------------
(* Deletion without a proof: after a delay, in which whoever has one may cancel it. *)

ScheduleDeletion ==
  /\ Exists
  /\ key.scheduled = Never
  /\ key' = [key EXCEPT !.scheduled = now + Delay]
  /\ UNCHANGED <<now, keys, nonces, blobs, request, job>>

\* assertProof consumes the challenge, against the secret that was read before.
ProveCancel(c) ==
  /\ request[c].at = "cancel"
  /\ Exists
  /\ key.challenge = request[c].nonce
  /\ key' = [key EXCEPT !.challenge = 0]
  /\ request' = [request EXCEPT ![c].at = "proved"]
  /\ UNCHANGED <<now, keys, nonces, blobs, job>>

\* Writes the row, if there is one, without the lock.
CancelDeletion(c) ==
  /\ request[c].at = "proved"
  /\ key' = [key EXCEPT !.scheduled = Never]
  /\ Replies(c)
  /\ UNCHANGED <<now, keys, nonces, blobs, job>>

IsDue(t) == Exists /\ key.scheduled # Never /\ key.scheduled <= t

\* The job reads the time, and who is due.
FindDue ==
  /\ job.at = "none"
  /\ IsDue(now)
  /\ job' = [at |-> "found", now |-> now, found |-> key.version]
  /\ UNCHANGED <<now, key, keys, nonces, blobs, request>>

\* deleteAll takes the lock, and looks again ...
BeginDelete ==
  /\ job.at = "found"
  /\ job' = IF IsDue(job.now) THEN [job EXCEPT !.at = "deleting"] ELSE NoRun
  /\ UNCHANGED <<now, key, keys, nonces, blobs, request>>

\* ... and deletes.
EndDelete ==
  /\ job.at = "deleting"
  /\ key' = NoKey
  /\ blobs' = {}
  /\ job' = NoRun
  /\ UNCHANGED <<now, keys, nonces, request>>

-----------------------------------------------------------------------------
(* Blobs.                                                                    *)

\* The key was there when the request was checked.
BeginUpload(c, messages) ==
  /\ Idle(c)
  /\ Exists
  /\ messages # {}
  /\ request' = [request EXCEPT ![c] = [at |-> "upload", version |-> key.version, nonce |-> 0, messages |-> messages]]
  /\ UNCHANGED <<now, key, keys, nonces, blobs, job>>

Stored == {b.message : b \in blobs}

\* (Mutant: the key and the quota are those of the request's check.)
HadRoom(new) == Cardinality(blobs) < Quota

\* Under the lock.
HasRoom(new) == Exists /\ Cardinality(blobs) + Cardinality(new) <= Quota

\* What is stored already is skipped.
StoreWithinQuota(c) ==
  LET new == request[c].messages \ Stored
  IN /\ request[c].at = "upload"
     /\ LockIsFree
     /\ HasRoom(new)
     /\ blobs' = blobs \cup {[message |-> m, version |-> request[c].version] : m \in new}
     /\ Replies(c)
     /\ UNCHANGED <<now, key, keys, nonces, job>>

Tick == now < MaxTime /\ now' = now + 1 /\ UNCHANGED <<key, keys, nonces, blobs, request, job>>

-----------------------------------------------------------------------------
BackupInit ==
  /\ now = 1
  /\ key = NoKey
  /\ keys = 0 /\ nonces = 0
  /\ blobs = {}
  /\ request = [c \in Clients |-> NoRequest]
  /\ job = NoRun

BackupNext ==
  \/ \E c \in Clients :
       \/ TurnOn(c) \/ Replace(c) \/ DeleteNow(c) \/ ProveCancel(c) \/ CancelDeletion(c) \/ StoreWithinQuota(c) \/ Refuse(c)
       \/ \E what \in {"replace", "delete", "cancel"} : Challenge(c, what)
       \/ \E messages \in SUBSET Messages : BeginUpload(c, messages)
  \/ ScheduleDeletion \/ FindDue \/ BeginDelete \/ EndDelete \/ Tick

BackupSpec == BackupInit /\ [][BackupNext]_backupVars

-----------------------------------------------------------------------------
(* Properties.                                                               *)

\* "Races cannot overshoot or orphan blobs": whatever is uploaded while the backup is replaced, deleted or filled.
NoOvershootNoOrphans ==
  /\ Cardinality(blobs) <= Quota
  /\ ~Exists => blobs = {}

\* A backup goes away only with a proof made for it, or with the deletion that found it due: neither a client that
\* acts on what it saw of an earlier backup nor a job that found one due touches what was turned on since.
BackupGoesWithItsProof ==
  [][key.version # 0 /\ key'.version # key.version =>
       \/ job.at = "deleting" /\ job.found = key.version
       \/ \E c \in Clients : request[c].at \in {"replace", "delete"} /\ request[c].version = key.version /\ request'[c] = NoRequest]_backupVars
=============================================================================
