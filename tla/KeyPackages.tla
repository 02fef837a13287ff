---------------------------- MODULE KeyPackages ----------------------------
(***************************************************************************)
(* The key packages of one device (chat-devices): uploaded by its owner,   *)
(* handed one by one to whoever wants to add the device to a group.  A     *)
(* claim is a loop of awaited statements (find a candidate, take it if it  *)
(* is still free, read it back), so claims, the owner's uploads, the       *)
(* hourly cleanup and a revocation of the device interleave between them.  *)
(*                                                                         *)
(* A SINGLE_USE package protects forward secrecy only while it is given to *)
(* one claimer; the LAST_RESORT package is the reusable fallback.          *)
(***************************************************************************)
EXTENDS Naturals, FiniteSets

CONSTANTS
  Packages,          \* rows of mls_key_packages
  LastResorts,       \* those of kind LAST_RESORT
  Claims,            \* calls of claimForDevice
  NoPackage,
  MaxClaimAttempts   \* MAX_CLAIM_ATTEMPTS

ASSUME LastResortsArePackages == LastResorts \subseteq Packages
ASSUME NotAPackage == NoPackage \notin Packages
ASSUME AttemptsAreNatural == MaxClaimAttempts \in Nat

SingleUse == Packages \ LastResorts

VARIABLES
  row,       \* of each package: absent, stored, claimed (claimedAt set) or deleted
  expired,   \* packages whose expiresAt has passed
  revoked,   \* the device's revokedAt is set
  claim      \* of each call: where it is, the candidate or the package it holds, triedIds

vars == <<row, expired, revoked, claim>>

RowStates == {"absent", "stored", "claimed", "deleted"}

Claim == [at : {"idle", "finding", "taking", "reading", "falling back", "answered"},
          package : Packages \cup {NoPackage},
          tried : SUBSET Packages]

-----------------------------------------------------------------------------
\* The owner's upload. That the device is active was asserted before the packages were
\* verified, so the insertion may follow a revocation.
Upload(p) ==
  /\ row[p] = "absent"
  /\ row' = [row EXCEPT ![p] = "stored"]
  /\ UNCHANGED <<expired, revoked, claim>>

Expire(p) ==
  /\ row[p] \in {"stored", "claimed"}
  /\ expired' = expired \cup {p}
  /\ UNCHANGED <<row, revoked, claim>>

\* The hourly job deletes every expired row, claimed or not.
DeleteExpired ==
  /\ \E p \in expired : row[p] # "deleted"
  /\ row' = [p \in Packages |-> IF p \in expired THEN "deleted" ELSE row[p]]
  /\ UNCHANGED <<expired, revoked, claim>>

\* Revocation by the owner, by the dormancy job or by an eviction.
RevokeDevice ==
  /\ ~revoked
  /\ revoked' = TRUE
  /\ UNCHANGED <<row, expired, claim>>

-----------------------------------------------------------------------------
\* The device was among the active devices listed for the claim.
BeginClaim(c) ==
  /\ claim[c].at = "idle"
  /\ ~revoked
  /\ claim' = [claim EXCEPT ![c].at = "finding"]
  /\ UNCHANGED <<row, expired, revoked>>

Candidates(c) ==
  {p \in SingleUse \ (expired \cup claim[c].tried) : row[p] = "stored" /\ ~revoked}

\* The loop makes one attempt per package it has set aside. The rows of one upload share their
\* createdAt, so which of them comes first is open.
FindCandidate(c) ==
  /\ claim[c].at = "finding"
  /\ Cardinality(claim[c].tried) < MaxClaimAttempts
  /\ \E p \in Candidates(c) :
       claim' = [claim EXCEPT ![c].at = "taking", ![c].package = p]
  /\ UNCHANGED <<row, expired, revoked>>

GiveUpSingleUse(c) ==
  /\ claim[c].at = "finding"
  /\ Candidates(c) = {} \/ Cardinality(claim[c].tried) >= MaxClaimAttempts
  /\ claim' = [claim EXCEPT ![c].at = "falling back", ![c].package = NoPackage]
  /\ UNCHANGED <<row, expired, revoked>>

\* (Mutant: the update matches the row by its id alone.)
TakeById(c) ==
  LET p == claim[c].package IN
  /\ claim[c].at = "taking"
  /\ row[p] # "deleted" /\ ~revoked
  /\ row' = [row EXCEPT ![p] = "claimed"]
  /\ claim' = [claim EXCEPT ![c].at = "reading"]
  /\ UNCHANGED <<expired, revoked>>

\* (Mutant: the update does not look at the device again.)
TakeFromAnyDevice(c) ==
  LET p == claim[c].package IN
  /\ claim[c].at = "taking"
  /\ row[p] = "stored"
  /\ row' = [row EXCEPT ![p] = "claimed"]
  /\ claim' = [claim EXCEPT ![c].at = "reading"]
  /\ UNCHANGED <<expired, revoked>>

\* The update is conditional on the row still being free and the device still active.
Take(c) ==
  LET p == claim[c].package IN
  /\ claim[c].at = "taking"
  /\ row[p] = "stored" /\ ~revoked
  /\ row' = [row EXCEPT ![p] = "claimed"]
  /\ claim' = [claim EXCEPT ![c].at = "reading"]
  /\ UNCHANGED <<expired, revoked>>

SetAside(c) ==
  LET p == claim[c].package IN
  /\ claim[c].at = "taking"
  /\ row[p] # "stored" \/ revoked
  /\ claim' = [claim EXCEPT ![c].at = "finding", ![c].package = NoPackage,
                            ![c].tried = claim[c].tried \cup {p}]
  /\ UNCHANGED <<row, expired, revoked>>

\* The taken row is read back for its payload; the cleanup may have deleted it, and a null
\* result falls back like an empty pool.
ReadTaken(c) ==
  /\ claim[c].at = "reading"
  /\ claim' = IF row[claim[c].package] = "deleted"
              THEN [claim EXCEPT ![c].at = "falling back", ![c].package = NoPackage]
              ELSE [claim EXCEPT ![c].at = "answered"]
  /\ UNCHANGED <<row, expired, revoked>>

Fallbacks == {p \in LastResorts \ expired : row[p] = "stored" /\ ~revoked}

FallBack(c) ==
  /\ claim[c].at = "falling back"
  /\ \E p \in Fallbacks \cup {NoPackage} :
       /\ p = NoPackage => Fallbacks = {}
       /\ claim' = [claim EXCEPT ![c].at = "answered", ![c].package = p]
  /\ UNCHANGED <<row, expired, revoked>>

-----------------------------------------------------------------------------
Init ==
  /\ row \in [Packages -> {"absent", "stored"}]
  /\ expired = {}
  /\ revoked = FALSE
  /\ claim = [c \in Claims |-> [at |-> "idle", package |-> NoPackage, tried |-> {}]]

ClaimStep(c) ==
  FindCandidate(c) \/ GiveUpSingleUse(c) \/ Take(c) \/ SetAside(c) \/ ReadTaken(c) \/ FallBack(c)

Next ==
  \/ \E p \in Packages : Upload(p) \/ Expire(p)
  \/ DeleteExpired
  \/ RevokeDevice
  \/ \E c \in Claims : BeginClaim(c) \/ ClaimStep(c)

Spec == Init /\ [][Next]_vars

-----------------------------------------------------------------------------
\* Rows and calls are what the tables and the loop can hold: a call has a SINGLE_USE candidate in
\* hand from finding it until it is taken or set aside, and none while it looks for another.
TypeOK ==
  /\ row \in [Packages -> RowStates]
  /\ expired \subseteq Packages
  /\ revoked \in BOOLEAN
  /\ claim \in [Claims -> Claim]
  /\ \A c \in Claims :
       /\ claim[c].at \in {"idle", "finding", "falling back"} => claim[c].package = NoPackage
       /\ claim[c].at \in {"taking", "reading"} => claim[c].package \in SingleUse

Holds(c, p) == claim[c].at \in {"reading", "answered"} /\ claim[c].package = p

\* A SINGLE_USE package is given to one claimer only, however the claims interleave
\* (claimSingleUseKeyPackage: the conditional update decides).
SingleUseGivenOnce ==
  \A c, d \in Claims, p \in SingleUse : Holds(c, p) /\ Holds(d, p) => c = d

\* A claimer sets a package aside only when it is of no use to anybody any more: so a call falls
\* back to the reusable package (or to nothing) with no package passed over
\* (claimSingleUseKeyPackage, "retrying past concurrent claimers until the pool is exhausted").
SetAsideIsUseless ==
  revoked \/ \A c \in Claims : \A p \in claim[c].tried : row[p] # "stored"

\* A revoked device loses no more packages: a claim under way stops at the revocation
\* (the update's device condition).
RevokedGivesNothing ==
  [][revoked => \A p \in Packages : row'[p] = "claimed" => row[p] = "claimed"]_vars
=============================================================================
