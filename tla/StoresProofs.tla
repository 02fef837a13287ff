------------------------------ MODULE StoresProofs ------------------------------
(***************************************************************************)
(* Theorems of what clients leave with the backend: the key packages of a   *)
(* device (KeyPackages), the encrypted backup of a user (ChatBackup) and    *)
(* uploaded media (MediaLifecycle), each for any values of its constants.   *)
(* The three share no state: each has its own specification.                *)
(***************************************************************************)
EXTENDS KeyPackages, ChatBackup, MediaLifecycle, FiniteSetTheorems, TLAPS

-----------------------------------------------------------------------------
(* Key packages, for any packages, any number of claims and any limit on the *)
(* attempts.  The inductive invariant adds to the properties that a package  *)
(* some call holds is no longer free (HeldIsTaken): the conditional update   *)
(* then cannot succeed for a second call.                                    *)

HeldIsTaken ==
  \A c \in Claims, p \in SingleUse : Holds(c, p) => row[p] \in {"claimed", "deleted"}

\* A candidate is a row that was found; a row that was set aside has left the pool for good.
CandidateWasStored ==
  \A c \in Claims : claim[c].at = "taking" => row[claim[c].package] # "absent"

TriedIsGone ==
  revoked \/ \A c \in Claims : \A p \in claim[c].tried : row[p] \in {"claimed", "deleted"}

IInv == TypeOK /\ HeldIsTaken /\ SingleUseGivenOnce /\ CandidateWasStored /\ TriedIsGone

\* The cardinality of triedIds is only compared with the limit and never used in the proofs.
LEMMA TypeInit == Init => TypeOK
<1>1. SUFFICES ASSUME Init PROVE TypeOK
  OBVIOUS
<1>2. row \in [Packages -> RowStates] /\ expired \subseteq Packages /\ revoked \in BOOLEAN
  BY <1>1 DEF Init, RowStates
<1>. QED  BY <1>1, <1>2 DEF Init, TypeOK, Claim

Places == {"idle", "finding", "taking", "reading", "falling back", "answered"}

\* A call moves to another place, with another package or the one it has.
Moves(c, at, p) ==
  \/ claim' = [claim EXCEPT ![c].at = at, ![c].package = p]
  \/ claim' = [claim EXCEPT ![c].at = at] /\ p = claim[c].package

Fits(at, p) ==
  /\ at \in {"idle", "finding", "falling back"} => p = NoPackage
  /\ at \in {"taking", "reading"} => p \in SingleUse

LEMMA RecordWritten ==
  ASSUME claim \in [Claims -> Claim], NEW c \in Claims, NEW new \in Claim, claim' = [claim EXCEPT ![c] = new]
  PROVE  claim' \in [Claims -> Claim] /\ claim'[c] = new /\ \A d \in Claims \ {c} : claim'[d] = claim[d]
OBVIOUS

LEMMA CallMoves ==
  ASSUME claim \in [Claims -> Claim], NEW c \in Claims, NEW at \in Places, NEW p \in Packages \cup {NoPackage},
         Moves(c, at, p)
  PROVE  claim' \in [Claims -> Claim] /\ claim'[c].at = at /\ claim'[c].package = p
         /\ \A d \in Claims \ {c} : claim'[d] = claim[d]
<1>0. claim[c] \in Claim
  OBVIOUS
<1>1. CASE claim' = [claim EXCEPT ![c].at = at, ![c].package = p]
  <2>. DEFINE new == [claim[c] EXCEPT !.at = at, !.package = p]
  <2>1. new \in Claim /\ new.at = at /\ new.package = p
    BY <1>0 DEF Claim, Places
  <2>2. claim' = [claim EXCEPT ![c] = new]
    BY <1>1
  <2>. HIDE DEF new
  <2>3. claim' \in [Claims -> Claim] /\ claim'[c] = new /\ \A d \in Claims \ {c} : claim'[d] = claim[d]
    BY <2>1, <2>2, RecordWritten, Zenon
  <2>. QED  BY <2>1, <2>3
<1>2. CASE claim' = [claim EXCEPT ![c].at = at] /\ p = claim[c].package
  <2>. DEFINE new == [claim[c] EXCEPT !.at = at]
  <2>1. new \in Claim /\ new.at = at /\ new.package = claim[c].package
    BY <1>0 DEF Claim, Places
  <2>2. claim' = [claim EXCEPT ![c] = new]
    BY <1>2
  <2>. HIDE DEF new
  <2>3. claim' \in [Claims -> Claim] /\ claim'[c] = new /\ \A d \in Claims \ {c} : claim'[d] = claim[d]
    BY <2>1, <2>2, RecordWritten, Zenon
  <2>. QED  BY <1>2, <2>1, <2>3
<1>. QED  BY <1>1, <1>2 DEF Moves

LEMMA CallSetsAside ==
  ASSUME claim \in [Claims -> Claim], NEW c \in Claims, NEW tried \in SUBSET Packages,
         claim' = [claim EXCEPT ![c].at = "finding", ![c].package = NoPackage, ![c].tried = tried]
  PROVE  claim' \in [Claims -> Claim] /\ claim'[c].at = "finding" /\ claim'[c].package = NoPackage
         /\ \A d \in Claims \ {c} : claim'[d] = claim[d]
<1>. DEFINE new == [claim[c] EXCEPT !.at = "finding", !.package = NoPackage, !.tried = tried]
<1>1. new \in Claim /\ new.at = "finding" /\ new.package = NoPackage
  BY DEF Claim
<1>2. claim' = [claim EXCEPT ![c] = new]
  OBVIOUS
<1>. HIDE DEF new
<1>3. claim' \in [Claims -> Claim] /\ claim'[c] = new /\ \A d \in Claims \ {c} : claim'[d] = claim[d]
  BY <1>1, <1>2, RecordWritten, Zenon
<1>. QED  BY <1>1, <1>3

LEMMA ClaimWritten ==
  ASSUME TypeOK, NEW c \in Claims, NEW at \in Places, NEW p \in Packages \cup {NoPackage},
         Moves(c, at, p), Fits(at, p), row' \in [Packages -> RowStates], UNCHANGED <<expired, revoked>>
  PROVE  TypeOK'
<1>1. claim \in [Claims -> Claim]
  BY DEF TypeOK
<1>2. claim' \in [Claims -> Claim] /\ claim'[c].at = at /\ claim'[c].package = p
      /\ \A d \in Claims \ {c} : claim'[d] = claim[d]
  BY <1>1, CallMoves, Zenon
<1>. QED  BY <1>2 DEF TypeOK, Fits

LEMMA TypeStep == TypeOK /\ [Next]_vars => TypeOK'
<1>. SUFFICES ASSUME TypeOK, [Next]_vars PROVE TypeOK'
  OBVIOUS
<1>0. row \in [Packages -> RowStates] /\ \A c \in Claims : claim[c].package \in Packages \cup {NoPackage}
  BY DEF TypeOK, Claim
<1>1. ASSUME NEW p \in Packages, Upload(p) \/ Expire(p) PROVE TypeOK'
  BY <1>1 DEF TypeOK, Upload, Expire, RowStates
<1>2. CASE DeleteExpired \/ RevokeDevice
  <2>1. row' \in [Packages -> RowStates] /\ revoked' \in BOOLEAN
    BY <1>2 DEF TypeOK, DeleteExpired, RevokeDevice, RowStates
  <2>2. UNCHANGED <<expired, claim>>
    BY <1>2 DEF DeleteExpired, RevokeDevice
  <2>. QED  BY <2>1, <2>2 DEF TypeOK
<1>3. ASSUME NEW c \in Claims, BeginClaim(c) PROVE TypeOK'
  <2>1. claim[c].package = NoPackage
    BY <1>3 DEF TypeOK, BeginClaim
  <2>. QED  BY <1>0, <1>3, <2>1, ClaimWritten DEF Places, Moves, Fits, BeginClaim
<1>4. ASSUME NEW c \in Claims, FindCandidate(c) PROVE TypeOK'
  <2>1. PICK p \in Candidates(c) :
          claim' = [claim EXCEPT ![c].at = "taking", ![c].package = p]
    BY <1>4 DEF FindCandidate
  <2>2. p \in SingleUse /\ p \in Packages
    BY <2>1 DEF Candidates, SingleUse
  <2>3. UNCHANGED <<row, expired, revoked>>
    BY <1>4 DEF FindCandidate
  <2>. QED  BY <1>0, <2>1, <2>2, <2>3, ClaimWritten DEF Places, Moves, Fits
<1>5. ASSUME NEW c \in Claims, Take(c) PROVE TypeOK'
  <2>1. claim[c].package \in SingleUse
    BY <1>5 DEF TypeOK, Take
  <2>2. row' \in [Packages -> RowStates]
    BY <1>0, <1>5 DEF Take, RowStates
  <2>. QED  BY <1>0, <1>5, <2>1, <2>2, ClaimWritten DEF Places, Moves, Fits, Take
<1>6. ASSUME NEW c \in Claims, SetAside(c) PROVE TypeOK'
  <2>1. claim[c].package \in Packages /\ claim[c].tried \subseteq Packages
    BY <1>6 DEF TypeOK, SetAside, SingleUse, Claim
  <2>2. claim \in [Claims -> Claim] /\ UNCHANGED <<row, expired, revoked>>
    BY <1>6 DEF TypeOK, SetAside
  <2>. DEFINE tried == claim[c].tried \cup {claim[c].package}
  <2>3. claim' = [claim EXCEPT ![c].at = "finding", ![c].package = NoPackage, ![c].tried = tried]
    BY <1>6 DEF SetAside
  <2>4. tried \in SUBSET Packages
    BY <2>1
  <2>. HIDE DEF tried
  <2>5. claim' \in [Claims -> Claim] /\ claim'[c].at = "finding" /\ claim'[c].package = NoPackage
        /\ \A d \in Claims \ {c} : claim'[d] = claim[d]
    BY <2>2, <2>3, <2>4, CallSetsAside, Zenon
  <2>. QED  BY <2>2, <2>5 DEF TypeOK
<1>7. ASSUME NEW c \in Claims, ReadTaken(c) PROVE TypeOK'
  BY <1>0, <1>7, ClaimWritten DEF Places, Moves, Fits, ReadTaken
<1>8. ASSUME NEW c \in Claims, FallBack(c) PROVE TypeOK'
  <2>1. PICK p \in Fallbacks \cup {NoPackage} :
          claim' = [claim EXCEPT ![c].at = "answered", ![c].package = p]
    BY <1>8 DEF FallBack
  <2>2. p \in Packages \cup {NoPackage}
    BY <2>1, LastResortsArePackages DEF Fallbacks
  <2>3. UNCHANGED <<row, expired, revoked>>
    BY <1>8 DEF FallBack
  <2>. QED  BY <1>0, <2>1, <2>2, <2>3, ClaimWritten DEF Places, Moves, Fits
<1>9. ASSUME NEW c \in Claims, GiveUpSingleUse(c) PROVE TypeOK'
  BY <1>0, <1>9, ClaimWritten DEF Places, Moves, Fits, GiveUpSingleUse
<1>10. CASE UNCHANGED vars
  BY <1>10 DEF TypeOK, vars
<1>. QED  BY <1>1, <1>2, <1>3, <1>4, <1>5, <1>6, <1>7, <1>8, <1>9, <1>10 DEF Next, ClaimStep

-----------------------------------------------------------------------------
\* A row that has left the pool never returns to it.
LEMMA GoneStaysGone ==
  TypeOK /\ [Next]_vars =>
    /\ \A p \in Packages : row[p] \in {"claimed", "deleted"} => row'[p] \in {"claimed", "deleted"}
    /\ \A p \in Packages : row[p] # "stored" /\ row'[p] = "stored" => row[p] = "absent"
<1>. SUFFICES ASSUME TypeOK, [Next]_vars, NEW p \in Packages
              PROVE  /\ row[p] \in {"claimed", "deleted"} => row'[p] \in {"claimed", "deleted"}
                     /\ row[p] # "stored" /\ row'[p] = "stored" => row[p] = "absent"
  OBVIOUS
<1>1. ASSUME NEW q \in Packages, Upload(q) \/ Expire(q)
      PROVE  /\ row[p] \in {"claimed", "deleted"} => row'[p] \in {"claimed", "deleted"}
             /\ row[p] # "stored" /\ row'[p] = "stored" => row[p] = "absent"
  BY <1>1 DEF TypeOK, Upload, Expire
<1>2. CASE DeleteExpired
  BY <1>2 DEF TypeOK, DeleteExpired
<1>3. ASSUME NEW c \in Claims, Take(c)
      PROVE  /\ row[p] \in {"claimed", "deleted"} => row'[p] \in {"claimed", "deleted"}
             /\ row[p] # "stored" /\ row'[p] = "stored" => row[p] = "absent"
  BY <1>3 DEF TypeOK, Take
<1>4. CASE UNCHANGED row
  BY <1>4
<1>. QED  BY <1>1, <1>2, <1>3, <1>4 DEF Next, ClaimStep, RevokeDevice, BeginClaim, FindCandidate,
            GiveUpSingleUse, SetAside, ReadTaken, FallBack, vars

\* What a call holds after a step it held before, unless the step is its own successful update,
\* which finds the row free and leaves it claimed.
LEMMA NewHolder ==
  ASSUME TypeOK, [Next]_vars, NEW c \in Claims, NEW p \in SingleUse, Holds(c, p)'
  PROVE  Holds(c, p) \/ (Take(c) /\ claim[c].package = p)
<1>1. p \in Packages /\ p \notin LastResorts /\ p # NoPackage
  BY NotAPackage DEF SingleUse
<1>2. CASE UNCHANGED claim
  BY <1>2 DEF Holds
<1>3. ASSUME NEW d \in Claims, BeginClaim(d) \/ GiveUpSingleUse(d) \/ SetAside(d)
      PROVE  Holds(c, p)
  <2>1. CASE BeginClaim(d)
    BY <2>1 DEF TypeOK, Claim, Holds, BeginClaim
  <2>2. CASE GiveUpSingleUse(d)
    BY <2>2 DEF TypeOK, Claim, Holds, GiveUpSingleUse
  <2>3. CASE SetAside(d)
    BY <2>3 DEF TypeOK, Claim, Holds, SetAside
  <2>. QED  BY <1>3, <2>1, <2>2, <2>3
<1>7. ASSUME NEW d \in Claims, FindCandidate(d)
      PROVE  Holds(c, p)
  <2>1. PICK q \in Candidates(d) :
          claim' = [claim EXCEPT ![d].at = "taking", ![d].package = q]
    BY <1>7 DEF FindCandidate
  <2>. QED  BY <2>1 DEF TypeOK, Claim, Holds
<1>4. ASSUME NEW d \in Claims, Take(d)
      PROVE  Holds(c, p) \/ (Take(c) /\ claim[c].package = p)
  BY <1>4 DEF TypeOK, Claim, Holds, Take
<1>5. ASSUME NEW d \in Claims, ReadTaken(d)
      PROVE  Holds(c, p)
  BY <1>1, <1>5 DEF TypeOK, Claim, Holds, ReadTaken
<1>6. ASSUME NEW d \in Claims, FallBack(d)
      PROVE  Holds(c, p)
  <2>1. PICK q \in Fallbacks \cup {NoPackage} :
          claim' = [claim EXCEPT ![d].at = "answered", ![d].package = q]
    BY <1>6 DEF FallBack
  <2>2. q # p
    BY <1>1, <2>1 DEF Fallbacks
  <2>3. CASE c = d
    BY <2>1, <2>2, <2>3, ZenonT(40) DEF TypeOK, Claim, Holds
  <2>4. CASE c # d
    BY <2>1, <2>4 DEF TypeOK, Claim, Holds
  <2>. QED  BY <2>3, <2>4
<1>. QED  BY <1>2, <1>3, <1>4, <1>5, <1>6, <1>7 DEF Next, ClaimStep, Upload, Expire,
            DeleteExpired, RevokeDevice, vars

LEMMA GivenOnceStep ==
  TypeOK /\ HeldIsTaken /\ SingleUseGivenOnce /\ [Next]_vars
    => HeldIsTaken' /\ SingleUseGivenOnce'
<1>. SUFFICES ASSUME TypeOK, HeldIsTaken, SingleUseGivenOnce, [Next]_vars
              PROVE  HeldIsTaken' /\ SingleUseGivenOnce'
  OBVIOUS
<1>1. ASSUME NEW c \in Claims, NEW p \in SingleUse, Holds(c, p)'
      PROVE  row'[p] \in {"claimed", "deleted"}
  <2>1. CASE Holds(c, p)
    BY <2>1, GoneStaysGone DEF HeldIsTaken, SingleUse
  <2>2. CASE Take(c) /\ claim[c].package = p
    BY <2>2 DEF Take, TypeOK, SingleUse
  <2>. QED  BY <1>1, <2>1, <2>2, NewHolder
<1>2. ASSUME NEW c \in Claims, NEW d \in Claims, NEW p \in SingleUse, Holds(c, p)', Holds(d, p)'
      PROVE  c = d
  <2>1. Holds(c, p) \/ (Take(c) /\ claim[c].package = p)
    BY <1>2, NewHolder
  <2>2. Holds(d, p) \/ (Take(d) /\ claim[d].package = p)
    BY <1>2, NewHolder
  \* Whoever takes p finds it stored, so nobody holds it.
  <2>3. ASSUME NEW e \in Claims, NEW f \in Claims, Take(e), claim[e].package = p
        PROVE  ~Holds(f, p)
    BY <2>3 DEF Take, HeldIsTaken
  <2>4. CASE Holds(c, p) /\ Holds(d, p)
    BY <2>4 DEF SingleUseGivenOnce
  <2>5. CASE Take(c) /\ Take(d)
    \* One step moves one claim.
    <3>1. claim[c].at = "taking" /\ claim'[c].at = "reading"
      <4>1. claim[c].at = "taking" /\ claim' = [claim EXCEPT ![c].at = "reading"]
        BY <2>5 DEF Take
      <4>2. claim \in [Claims -> Claim] /\ claim[c] \in Claim
        BY DEF TypeOK
      <4>. QED  BY <4>1, <4>2 DEF Claim
    <3>2. c # d => claim'[c] = claim[c]
      BY <2>5 DEF Take, TypeOK
    <3>. QED  BY <3>1, <3>2
  <2>6. CASE Holds(c, p) /\ Take(d) /\ claim[d].package = p
    BY <2>3, <2>6
  <2>7. CASE Holds(d, p) /\ Take(c) /\ claim[c].package = p
    BY <2>3, <2>7
  <2>. QED  BY <2>1, <2>2, <2>4, <2>5, <2>6, <2>7
<1>. QED  BY <1>1, <1>2 DEF HeldIsTaken, SingleUseGivenOnce

\* A row that is not absent never is again.
LEMMA NeverAbsentAgain ==
  TypeOK /\ [Next]_vars => \A p \in Packages : row[p] # "absent" => row'[p] # "absent"
<1>. SUFFICES ASSUME TypeOK, [Next]_vars, NEW p \in Packages, row[p] # "absent"
              PROVE  row'[p] # "absent"
  OBVIOUS
<1>1. ASSUME NEW q \in Packages, Upload(q) \/ Expire(q)
      PROVE  row'[p] # "absent"
  BY <1>1 DEF TypeOK, Upload, Expire
<1>2. CASE DeleteExpired
  BY <1>2 DEF TypeOK, DeleteExpired
<1>3. ASSUME NEW c \in Claims, Take(c)
      PROVE  row'[p] # "absent"
  BY <1>3 DEF TypeOK, Take
<1>4. CASE UNCHANGED row
  BY <1>4
<1>. QED  BY <1>1, <1>2, <1>3, <1>4 DEF Next, ClaimStep, RevokeDevice, BeginClaim, FindCandidate,
            GiveUpSingleUse, SetAside, ReadTaken, FallBack, vars

\* A revocation is final.
LEMMA RevokedForGood == [Next]_vars /\ revoked => revoked'
BY DEF Next, ClaimStep, Upload, Expire, DeleteExpired, RevokeDevice, BeginClaim, FindCandidate,
       GiveUpSingleUse, Take, SetAside, ReadTaken, FallBack, vars

LEMMA CandidateStep ==
  TypeOK /\ CandidateWasStored /\ [Next]_vars => CandidateWasStored'
<1>. SUFFICES ASSUME TypeOK, CandidateWasStored, [Next]_vars,
                     NEW c \in Claims, claim'[c].at = "taking"
              PROVE  row'[claim'[c].package] # "absent"
  BY DEF CandidateWasStored
<1>1. ASSUME claim'[c].at = claim[c].at, claim'[c].package = claim[c].package
      PROVE  row'[claim'[c].package] # "absent"
  <2>1. claim[c].package \in Packages
    BY <1>1 DEF TypeOK, SingleUse
  <2>. QED  BY <1>1, <2>1, NeverAbsentAgain DEF CandidateWasStored
<1>2. ASSUME NEW d \in Claims, FindCandidate(d)
      PROVE  row'[claim'[c].package] # "absent"
  <2>1. PICK q \in Candidates(d) :
          claim' = [claim EXCEPT ![d].at = "taking", ![d].package = q]
    BY <1>2 DEF FindCandidate
  <2>2. row'[q] = "stored"
    BY <1>2, <2>1 DEF FindCandidate, Candidates
  <2>3. CASE c = d
    BY <2>1, <2>2, <2>3 DEF TypeOK, Claim
  <2>4. CASE c # d
    BY <1>1, <2>1, <2>4 DEF TypeOK, Claim
  <2>. QED  BY <2>3, <2>4
<1>3. ASSUME NEW d \in Claims,
             BeginClaim(d) \/ GiveUpSingleUse(d) \/ Take(d) \/ SetAside(d) \/ ReadTaken(d) \/ FallBack(d)
      PROVE  claim'[c].at = claim[c].at /\ claim'[c].package = claim[c].package
  <2>1. CASE BeginClaim(d)
    BY <2>1 DEF TypeOK, Claim, BeginClaim
  <2>2. CASE GiveUpSingleUse(d)
    BY <2>2 DEF TypeOK, Claim, GiveUpSingleUse
  <2>3. CASE Take(d)
    BY <2>3 DEF TypeOK, Claim, Take
  <2>4. CASE SetAside(d)
    BY <2>4 DEF TypeOK, Claim, SetAside
  <2>5. CASE ReadTaken(d)
    BY <2>5 DEF TypeOK, Claim, ReadTaken
  <2>6. CASE FallBack(d)
    BY <2>6 DEF TypeOK, Claim, FallBack
  <2>. QED  BY <1>3, <2>1, <2>2, <2>3, <2>4, <2>5, <2>6
<1>4. CASE UNCHANGED claim
  BY <1>1, <1>4
<1>. QED  BY <1>1, <1>2, <1>3, <1>4 DEF Next, ClaimStep, Upload, Expire, DeleteExpired,
            RevokeDevice, vars

\* Only SetAside adds to what a call has tried.
LEMMA NewlyTried ==
  ASSUME TypeOK, [Next]_vars, NEW c \in Claims, NEW p \in claim'[c].tried
  PROVE  p \in claim[c].tried \/ (SetAside(c) /\ p = claim[c].package)
<1>1. ASSUME NEW d \in Claims, SetAside(d)
      PROVE  p \in claim[c].tried \/ (SetAside(c) /\ p = claim[c].package)
  BY <1>1 DEF TypeOK, Claim, SetAside
<1>2. ASSUME NEW d \in Claims,
             \/ BeginClaim(d) \/ FindCandidate(d) \/ GiveUpSingleUse(d)
             \/ Take(d) \/ ReadTaken(d) \/ FallBack(d)
      PROVE  p \in claim[c].tried
  <2>1. \/ \E a : claim' = [claim EXCEPT ![d].at = a]
        \/ \E a, q : claim' = [claim EXCEPT ![d].at = a, ![d].package = q]
    BY <1>2, Zenon DEF BeginClaim, FindCandidate, GiveUpSingleUse, Take, ReadTaken, FallBack
  <2>2. claim[d] \in Claim /\ claim \in [Claims -> Claim]
    BY DEF TypeOK
  <2>3. ASSUME NEW a, claim' = [claim EXCEPT ![d].at = a] PROVE claim'[c].tried = claim[c].tried
    BY <2>2, <2>3 DEF Claim
  <2>4. ASSUME NEW a, NEW q, claim' = [claim EXCEPT ![d].at = a, ![d].package = q]
        PROVE  claim'[c].tried = claim[c].tried
    <3>1. CASE c = d
      BY <2>2, <2>4, <3>1 DEF Claim
    <3>2. CASE c # d
      BY <2>2, <2>4, <3>2
    <3>. QED  BY <3>1, <3>2
  <2>. QED  BY <2>1, <2>3, <2>4
<1>3. CASE UNCHANGED claim
  BY <1>3
<1>. QED  BY <1>1, <1>2, <1>3 DEF Next, ClaimStep, Upload, Expire, DeleteExpired,
            RevokeDevice, vars

LEMMA TriedStep ==
  TypeOK /\ CandidateWasStored /\ TriedIsGone /\ [Next]_vars => TriedIsGone'
<1>. SUFFICES ASSUME TypeOK, CandidateWasStored, TriedIsGone, [Next]_vars, ~revoked',
                     NEW c \in Claims, NEW p \in claim'[c].tried
              PROVE  row'[p] \in {"claimed", "deleted"}
  BY DEF TriedIsGone
<1>1. ~revoked
  BY RevokedForGood
<1>2. p \in Packages /\ row[p] \in {"claimed", "deleted"}
  <2>1. CASE p \in claim[c].tried
    BY <1>1, <2>1 DEF TriedIsGone, TypeOK, Claim
  <2>2. CASE SetAside(c) /\ p = claim[c].package
    <3>1. p \in Packages /\ row[p] \in RowStates
      BY <2>2 DEF SetAside, TypeOK, SingleUse
    <3>2. row[p] # "absent" /\ row[p] # "stored"
      BY <1>1, <2>2 DEF SetAside, CandidateWasStored
    <3>. QED  BY <3>1, <3>2 DEF RowStates
  <2>. QED  BY <2>1, <2>2, NewlyTried
<1>. QED  BY <1>2, GoneStaysGone

-----------------------------------------------------------------------------
LEMMA InvariantHolds == Spec => []IInv
<1>1. Init => IInv
  <2>1. ASSUME Init
        PROVE  HeldIsTaken /\ SingleUseGivenOnce /\ CandidateWasStored /\ TriedIsGone
    BY <2>1 DEF Init, HeldIsTaken, SingleUseGivenOnce, CandidateWasStored, TriedIsGone, Holds
  <2>. QED  BY <2>1, TypeInit DEF IInv
<1>2. IInv /\ [Next]_vars => IInv'
  BY TypeStep, GivenOnceStep, CandidateStep, TriedStep DEF IInv
<1>. QED  BY <1>1, <1>2, PTL DEF Spec

\* TypeOK: rows and calls hold what the tables and the loop can hold.
THEOREM KeyPackagesTypeCorrect == Spec => []TypeOK
<1>1. IInv => TypeOK
  BY DEF IInv
<1>. QED  BY <1>1, InvariantHolds, PTL

\* SingleUseGivenOnce: however many claims race for a device, no two are answered with the same
\* SINGLE_USE package.
THEOREM SingleUseSafe == Spec => []SingleUseGivenOnce
<1>1. IInv => SingleUseGivenOnce
  BY DEF IInv
<1>. QED  BY <1>1, InvariantHolds, PTL

\* SetAsideIsUseless: a claim passes over a package only when nobody can have it any more.
THEOREM SetAsideSafe == Spec => []SetAsideIsUseless
<1>1. IInv => SetAsideIsUseless
  BY DEF IInv, TriedIsGone, SetAsideIsUseless
<1>. QED  BY <1>1, InvariantHolds, PTL

\* RevokedGivesNothing: after the revocation of the device no package becomes claimed, whatever
\* the claims under way had found before.
THEOREM RevocationSafe == Spec => RevokedGivesNothing
<1>1. TypeOK /\ [Next]_vars
        => [revoked => \A p \in Packages : row'[p] = "claimed" => row[p] = "claimed"]_vars
  <2>. SUFFICES ASSUME TypeOK, Next, revoked, NEW p \in Packages, row'[p] = "claimed"
                PROVE  row[p] = "claimed"
    BY DEF vars
  <2>1. ASSUME NEW q \in Packages, Upload(q) \/ Expire(q) PROVE row[p] = "claimed"
    BY <2>1 DEF TypeOK, Upload, Expire
  <2>2. CASE DeleteExpired
    BY <2>2 DEF TypeOK, DeleteExpired
  <2>3. ASSUME NEW c \in Claims, Take(c) PROVE FALSE
    BY <2>3 DEF Take
  <2>4. CASE UNCHANGED row
    BY <2>4
  <2>. QED  BY <2>1, <2>2, <2>3, <2>4 DEF Next, ClaimStep, RevokeDevice, BeginClaim,
            FindCandidate, GiveUpSingleUse, SetAside, ReadTaken, FallBack
<1>. QED  BY <1>1, KeyPackagesTypeCorrect, PTL DEF Spec, RevokedGivesNothing

-----------------------------------------------------------------------------
(* The backup.  Room and orphans are settled under the lock; that a backup    *)
(* ends with its own proof rests on what the job knows between finding a      *)
(* backup due and deleting it (FoundWasDue).                                  *)

KeyRow == [version : Nat, scheduled : Nat, challenge : Nat]
RequestRow == [at : {"none", "replace", "delete", "cancel", "proved", "upload"}, version : Nat, nonce : Nat,
               messages : SUBSET Messages]
Run == [at : {"none", "found", "deleting"}, now : Nat, found : Nat]

BackupTyped ==
  /\ {now, keys, nonces} \subseteq Nat
  /\ key \in KeyRow
  /\ request \in [Clients -> RequestRow]
  /\ job \in Run
  /\ IsFiniteSet(blobs)

\* What the job found due is deleted at once, is not due any more, or was turned on since and is scheduled, if at
\* all, for later than the job looked for.
FoundWasDue ==
  /\ job.at # "none" => job.now <= now
  /\ job.at = "found" /\ key.version # job.found => ~IsDue(job.now)
  /\ job.at = "deleting" => Exists /\ key.version = job.found

BackupInv == BackupTyped /\ NoOvershootNoOrphans /\ FoundWasDue

LEMMA BackupInvInit == BackupInit => BackupInv
<1>. SUFFICES ASSUME BackupInit PROVE BackupInv
  OBVIOUS
<1>1. BackupTyped
  BY FS_EmptySet DEF BackupInit, BackupTyped, KeyRow, RequestRow, Run, NoKey, NoRequest, NoRun, Never
<1>2. NoOvershootNoOrphans
  BY FS_EmptySet, BackupAssumption DEF BackupInit, NoOvershootNoOrphans
<1>3. FoundWasDue
  BY DEF BackupInit, FoundWasDue, NoRun
<1>. QED  BY <1>1, <1>2, <1>3 DEF BackupInv

\* What is stored is no more than what was asked to be.
LEMMA StoredFits ==
  ASSUME BackupTyped, NEW c \in Clients, StoreWithinQuota(c)
  PROVE  IsFiniteSet(blobs') /\ Cardinality(blobs') <= Quota
<1>. DEFINE new == request[c].messages \ Stored
            blob == [m \in new |-> [message |-> m, version |-> request[c].version]]
            added == {[message |-> m, version |-> request[c].version] : m \in new}
<1>1. new \subseteq Messages
  BY DEF BackupTyped, RequestRow
<1>2. IsFiniteSet(new)
  BY <1>1, MessagesAssumption, FS_Subset
<1>3. Cardinality(new) \in Nat /\ Cardinality(blobs) \in Nat
  BY <1>2, FS_CardinalityType DEF BackupTyped
<1>4. blob \in Surjection(new, added)
  BY DEF Surjection
<1>5. blobs' = blobs \cup added /\ HasRoom(new)
  BY DEF StoreWithinQuota
<1>. HIDE DEF added, blob, new
<1>6. IsFiniteSet(added) /\ Cardinality(added) <= Cardinality(new)
  BY <1>2, <1>4, FS_Surjection
<1>7. IsFiniteSet(blobs) /\ Cardinality(blobs \cap added) \in Nat /\ Cardinality(added) \in Nat
  BY <1>6, FS_Subset, FS_CardinalityType DEF BackupTyped
<1>8. /\ IsFiniteSet(blobs \cup added)
      /\ Cardinality(blobs \cup added) = Cardinality(blobs) + Cardinality(added) - Cardinality(blobs \cap added)
  BY <1>6, <1>7, FS_Union
<1>9. Cardinality(blobs \cup added) <= Quota
  BY <1>3, <1>5, <1>6, <1>7, <1>8, BackupAssumption DEF HasRoom
<1>. QED  BY <1>5, <1>8, <1>9

LEMMA BackupTypedStep == BackupTyped /\ [BackupNext]_backupVars => BackupTyped'
<1>. SUFFICES ASSUME BackupTyped, [BackupNext]_backupVars PROVE BackupTyped'
  OBVIOUS
<1>0. /\ now \in Nat /\ keys \in Nat /\ nonces \in Nat /\ Delay \in Nat
      /\ key \in KeyRow /\ job \in Run /\ NoRun \in Run /\ NoKey \in KeyRow
  BY BackupAssumption DEF BackupTyped, NoRun, Run, NoKey, KeyRow, Never
<1>1. now' \in Nat /\ keys' \in Nat /\ nonces' \in Nat /\ key' \in KeyRow /\ job' \in Run
  <2>1. ASSUME NEW c \in Clients, TurnOn(c) \/ Replace(c) \/ DeleteNow(c)
        PROVE  now' \in Nat /\ keys' \in Nat /\ nonces' \in Nat /\ key' \in KeyRow /\ job' \in Run
    BY <1>0, <2>1 DEF TurnOn, Replace, DeleteNow, Fresh, KeyRow
  <2>2. ASSUME NEW c \in Clients,
               \/ ProveCancel(c) \/ CancelDeletion(c)
                    \/ \E what \in {"replace", "delete", "cancel"} : Challenge(c, what)
        PROVE  now' \in Nat /\ keys' \in Nat /\ nonces' \in Nat /\ key' \in KeyRow /\ job' \in Run
    BY <1>0, <2>2 DEF ProveCancel, CancelDeletion, Challenge, KeyRow, Never
  <2>3. ASSUME NEW c \in Clients,
               StoreWithinQuota(c) \/ Refuse(c) \/ \E messages \in SUBSET Messages : BeginUpload(c, messages)
        PROVE  UNCHANGED <<now, keys, nonces, key, job>>
    BY <2>3 DEF StoreWithinQuota, Refuse, BeginUpload
  <2>4. CASE ScheduleDeletion \/ EndDelete \/ Tick
    BY <1>0, <2>4 DEF ScheduleDeletion, EndDelete, Tick, KeyRow
  <2>5. CASE FindDue \/ BeginDelete
    BY <1>0, <2>5 DEF FindDue, BeginDelete, KeyRow, Run
  <2>. QED  BY <1>0, <2>1, <2>2, <2>3, <2>4, <2>5 DEF BackupNext, backupVars
<1>3. request' \in [Clients -> RequestRow]
  <2>1. NoRequest \in RequestRow
    BY DEF NoRequest, RequestRow
  <2>2. ASSUME NEW c \in Clients, Replies(c) PROVE request' \in [Clients -> RequestRow]
    BY <2>1, <2>2 DEF Replies, BackupTyped
  <2>3. ASSUME NEW c \in Clients, NEW what \in {"replace", "delete", "cancel"}, Challenge(c, what)
        PROVE  request' \in [Clients -> RequestRow]
    BY <2>3 DEF Challenge, BackupTyped, KeyRow, RequestRow
  <2>4. ASSUME NEW c \in Clients, NEW messages \in SUBSET Messages, BeginUpload(c, messages)
        PROVE  request' \in [Clients -> RequestRow]
    BY <2>4 DEF BeginUpload, BackupTyped, KeyRow, RequestRow
  <2>5. ASSUME NEW c \in Clients, ProveCancel(c) PROVE request' \in [Clients -> RequestRow]
    BY <2>5 DEF ProveCancel, BackupTyped, RequestRow
  <2>6. CASE UNCHANGED request
    BY <2>6 DEF BackupTyped
  <2>. QED
    BY <2>2, <2>3, <2>4, <2>5, <2>6 DEF BackupNext, backupVars, TurnOn, Replace, DeleteNow, CancelDeletion,
         StoreWithinQuota,
         Refuse, ScheduleDeletion, FindDue, BeginDelete, EndDelete, Tick
<1>5. IsFiniteSet(blobs')
  BY StoredFits, FS_EmptySet
     DEF BackupTyped, BackupNext, backupVars, TurnOn, Replace, DeleteNow, ProveCancel, CancelDeletion,
         Refuse, Challenge, BeginUpload, ScheduleDeletion, FindDue, BeginDelete, EndDelete, Tick
<1>. QED  BY <1>1, <1>3, <1>5 DEF BackupTyped

LEMMA RoomStep == BackupTyped /\ NoOvershootNoOrphans /\ [BackupNext]_backupVars => NoOvershootNoOrphans'
<1>. SUFFICES ASSUME BackupTyped, NoOvershootNoOrphans, [BackupNext]_backupVars PROVE NoOvershootNoOrphans'
  OBVIOUS
<1>1. ASSUME NEW c \in Clients, StoreWithinQuota(c) PROVE NoOvershootNoOrphans'
  <2>1. Exists'
    BY <1>1 DEF StoreWithinQuota, HasRoom, Exists
  <2>. QED  BY <1>1, <2>1, StoredFits DEF NoOvershootNoOrphans
<1>2. CASE blobs' = {}
  BY <1>2, FS_EmptySet, BackupAssumption DEF NoOvershootNoOrphans
<1>3. CASE UNCHANGED blobs /\ (Exists => Exists')
  BY <1>3 DEF NoOvershootNoOrphans
<1>4. ASSUME NEW c \in Clients, TurnOn(c) PROVE UNCHANGED blobs /\ (Exists => Exists')
  BY <1>4 DEF TurnOn
<1>5. ASSUME NEW c \in Clients,
             \/ ProveCancel(c) \/ CancelDeletion(c) \/ Refuse(c)
             \/ \E what \in {"replace", "delete", "cancel"} : Challenge(c, what)
             \/ \E messages \in SUBSET Messages : BeginUpload(c, messages)
      PROVE  UNCHANGED blobs /\ (Exists => Exists')
  BY <1>5 DEF BackupTyped, KeyRow, Exists, ProveCancel, CancelDeletion, Refuse, Challenge, BeginUpload
<1>6. CASE ScheduleDeletion \/ FindDue \/ BeginDelete \/ Tick \/ UNCHANGED backupVars
  BY <1>3, <1>6 DEF BackupTyped, KeyRow, Exists, ScheduleDeletion, FindDue, BeginDelete, Tick, backupVars
<1>. QED
  BY <1>1, <1>2, <1>3, <1>4, <1>5, <1>6 DEF BackupNext, Replace, DeleteNow, EndDelete

LEMMA FoundStep == BackupTyped /\ FoundWasDue /\ [BackupNext]_backupVars => FoundWasDue'
<1>. SUFFICES ASSUME BackupTyped, FoundWasDue, [BackupNext]_backupVars PROVE FoundWasDue'
  OBVIOUS
<1>0. /\ key \in KeyRow /\ job \in Run /\ now \in Nat /\ keys \in Nat /\ Delay \in Nat \ {0}
  BY BackupAssumption DEF BackupTyped
<1>1. CASE UNCHANGED <<now, job, key>>
  BY <1>1 DEF FoundWasDue, IsDue, Exists
<1>2. ASSUME NEW c \in Clients, TurnOn(c) \/ Replace(c) \/ DeleteNow(c) PROVE FoundWasDue'
  <2>1. UNCHANGED <<now, job>> /\ key'.scheduled = Never
    BY <1>2 DEF TurnOn, Replace, DeleteNow, Fresh, NoKey
  <2>2. job.at # "deleting"
    BY <1>2 DEF TurnOn, Replace, DeleteNow, LockIsFree, FoundWasDue
  <2>. QED  BY <2>1, <2>2 DEF FoundWasDue, IsDue
<1>3. ASSUME NEW c \in Clients,
             ProveCancel(c) \/ CancelDeletion(c) \/ \E what \in {"replace", "delete", "cancel"} : Challenge(c, what)
      PROVE  FoundWasDue'
  <2>1. /\ UNCHANGED <<now, job>> /\ key'.version = key.version
        /\ key'.scheduled = key.scheduled \/ key'.scheduled = Never
    BY <1>0, <1>3 DEF ProveCancel, CancelDeletion, Challenge, KeyRow
  <2>. QED  BY <2>1 DEF FoundWasDue, IsDue, Exists
<1>4. CASE ScheduleDeletion
  <2>1. UNCHANGED <<now, job>> /\ key'.version = key.version /\ key'.scheduled = now + Delay
    BY <1>0, <1>4 DEF ScheduleDeletion, KeyRow
  <2>2. job.at # "none" => ~(key'.scheduled <= job.now)
    BY <1>0, <2>1 DEF FoundWasDue, Run
  <2>. QED  BY <2>1, <2>2 DEF FoundWasDue, IsDue, Exists
<1>5. CASE FindDue
  BY <1>0, <1>5 DEF FindDue, FoundWasDue
<1>6. CASE BeginDelete
  BY <1>0, <1>6 DEF BeginDelete, FoundWasDue, IsDue, Exists, NoRun, Run
<1>7. CASE EndDelete
  BY <1>7 DEF EndDelete, FoundWasDue, NoRun
<1>8. CASE Tick
  BY <1>0, <1>8 DEF Tick, FoundWasDue, IsDue, Exists, Run
<1>. QED
  BY <1>1, <1>2, <1>3, <1>4, <1>5, <1>6, <1>7, <1>8
     DEF BackupNext, backupVars, StoreWithinQuota, Refuse, BeginUpload

\* The inductive invariant of the backup: types, room, orphans, and what the deletion job knows.
THEOREM BackupInvariant == BackupSpec => []BackupInv
<1>1. BackupInv /\ [BackupNext]_backupVars => BackupInv'
  BY BackupTypedStep, RoomStep, FoundStep DEF BackupInv
<1>. QED  BY BackupInvInit, <1>1, PTL DEF BackupSpec

\* NoOvershootNoOrphans: whatever uploads race a replacement, a deletion or each other, the blobs stay within the quota
\* and none is left without a key (storeWithinQuota and its lock).
THEOREM QuotaSafe == BackupSpec => []NoOvershootNoOrphans
BY BackupInvariant, PTL DEF BackupInv

\* BackupGoesWithItsProof: a backup goes away with a proof made for it, or by the deletion that found it due; the job
\* looks again under the lock with the time it began at, and what was turned on since is not due then.
THEOREM BackupEndsSafe == BackupSpec => BackupGoesWithItsProof
<1>. DEFINE Proved == \/ job.at = "deleting" /\ job.found = key.version
                      \/ \E c \in Clients : request[c].at \in {"replace", "delete"} /\ request[c].version = key.version
                                            /\ request'[c] = NoRequest
<1>1. ASSUME BackupInv, [BackupNext]_backupVars, key.version # 0, key'.version # key.version PROVE Proved
  <2>0. key \in KeyRow /\ request \in [Clients -> RequestRow]
    BY <1>1 DEF BackupInv, BackupTyped
  <2>1. ASSUME NEW c \in Clients, Replace(c) \/ DeleteNow(c) PROVE Proved
    BY <2>0, <2>1 DEF Replace, DeleteNow, Proves, Replies
  <2>2. CASE EndDelete
    BY <1>1, <2>2 DEF BackupInv, FoundWasDue, EndDelete
  <2>3. ASSUME NEW c \in Clients,
               \/ TurnOn(c) \/ ProveCancel(c) \/ CancelDeletion(c) \/ StoreWithinQuota(c) \/ Refuse(c)
               \/ \E what \in {"replace", "delete", "cancel"} : Challenge(c, what)
               \/ \E messages \in SUBSET Messages : BeginUpload(c, messages)
        PROVE  FALSE
    BY <1>1, <2>0, <2>3 DEF KeyRow, TurnOn, Exists, ProveCancel, CancelDeletion, StoreWithinQuota, Refuse, Challenge,
         BeginUpload
  <2>4. CASE ScheduleDeletion \/ FindDue \/ BeginDelete \/ Tick \/ UNCHANGED backupVars
    BY <1>1, <2>0, <2>4 DEF KeyRow, ScheduleDeletion, FindDue, BeginDelete, Tick, backupVars
  <2>. QED  BY <1>1, <2>1, <2>2, <2>3, <2>4 DEF BackupNext
<1>2. BackupInv /\ [BackupNext]_backupVars => [key.version # 0 /\ key'.version # key.version => Proved]_backupVars
  BY <1>1
<1>. QED  BY BackupInvariant, <1>2, PTL DEF BackupSpec, BackupGoesWithItsProof

-----------------------------------------------------------------------------
(* Media.  That what is shown is there rests on what every task may rely on   *)
(* between its steps (Relies).                                                *)

\* No two slots point at one picture.
SlotsDiffer == \A s, t \in Slots : slot[s] # None /\ slot[s] = slot[t] => s = t

ConfirmedExists == \A u \in Uploads : media[u] = "UPLOADED" => u \in assets

Over == {"ATTACHED", "RELEASE_FAILED", "DELETED"}
Claimed == {"CLEANING", "DELETED"}

\* What each kind of task may rely on, whatever the others do between its steps: the asset that is being confirmed
\* is there as long as the row waits for it; a swap knows its slot; what is released is shown no more, and its row
\* will never be attached again; and what was claimed for deletion stays claimed, or is deleted.
Relies(t) ==
  /\ t.job = "confirm" =>
       t.on \in Uploads /\ media[t.on] # "ABSENT" /\ (media[t.on] = "INITIATED" => t.on \in assets)
  /\ t.job = "swap" => t.slot \in Slots /\ {t.on, t.before} \subseteq Pictures \cup {None}
  /\ t.job \in Releases => t.on \in Uploads \ Shown /\ media[t.on] \in Over
  /\ t.job \in {"remove", "cleanup"} =>
       t.on \in Uploads /\ (t.at \in {"destroy", "finish"} => media[t.on] \in Claimed)

TasksRely == \A a \in Actors : Relies(task[a])

MediaInv == MediaTypeOK /\ ShownMediaExists /\ SlotsDiffer /\ ConfirmedExists /\ TasksRely

\* What a step does to an upload.
Keeps(u) ==
  /\ media[u] # "ABSENT" =>
       /\ media'[u] # "ABSENT"
       /\ media'[u] = "INITIATED" => media[u] = "INITIATED" /\ (u \in assets => u \in assets')
  /\ media[u] \in Over /\ u \notin Shown => media'[u] \in Over /\ u \notin Shown'
  /\ media[u] \in Claimed => media'[u] \in Claimed
  /\ media'[u] = "UPLOADED" => u \in assets'
  /\ u \in Shown' => media'[u] = "ATTACHED" /\ u \in assets'

LEMMA MediaInvInit == MediaInit => MediaInv
<1>. SUFFICES ASSUME MediaInit PROVE MediaInv
  OBVIOUS
<1>1. MediaTypeOK
  BY FaultsAssumption DEF MediaInit, MediaTypeOK, Task, NoTask, Statuses
<1>2. Shown = {}
  BY UploadsAssumption DEF MediaInit, Shown, Uploads
<1>3. TasksRely
  BY DEF MediaInit, TasksRely, Relies, NoTask, Releases
<1>. QED  BY <1>1, <1>2, <1>3 DEF MediaInv, ShownMediaExists, SlotsDiffer, ConfirmedExists, MediaInit

-----------------------------------------------------------------------------
(* Rows, assets and what is shown.                                           *)

\* An upload that a step leaves alone.
LEMMA Untouched ==
  ASSUME MediaInv, NEW u \in Uploads, media'[u] = media[u], u \in assets => u \in assets', u \in Shown' => u \in Shown
  PROVE  Keeps(u)
BY DEF MediaInv, ShownMediaExists, ConfirmedExists, Keeps

\* What waits to be attached is not shown, and is nobody's to release.
LEMMA Waiting ==
  ASSUME MediaInv, NEW u \in Uploads, media[u] # "ATTACHED"
  PROVE  u \notin Shown
BY DEF MediaInv, ShownMediaExists

LEMMA SameShown ==
  ASSUME UNCHANGED <<slot, message>>
  PROVE  Shown' = Shown
BY DEF Shown

LEMMA UploadKeeps ==
  ASSUME MediaInv, NEW v \in Uploads, CreateUploadSignature(v) \/ PutAsset(v) \/ BecomesDue(v), NEW u \in Uploads
  PROVE  Keeps(u)
<1>1. Shown' = Shown
  BY SameShown DEF CreateUploadSignature, PutAsset, BecomesDue, pointers
<1>2. CASE CreateUploadSignature(v)
  <2>1. media'[u] = (IF u = v THEN "INITIATED" ELSE media[u]) /\ media[v] = "ABSENT" /\ assets' = assets
    BY <1>2 DEF CreateUploadSignature, Write
  <2>2. CASE u = v
    BY <1>1, <2>1, <2>2, Waiting DEF Keeps, Over, Claimed
  <2>3. CASE u # v
    BY <1>1, <2>1, <2>3, Untouched
  <2>. QED  BY <2>2, <2>3
<1>3. CASE PutAsset(v) \/ BecomesDue(v)
  BY <1>1, <1>3, Untouched DEF PutAsset, BecomesDue
<1>. QED  BY <1>2, <1>3

LEMMA SendKeeps ==
  ASSUME MediaInv, NEW us \in SUBSET Attachments, Send(us), NEW u \in Uploads
  PROVE  Keeps(u)
<1>1. us \subseteq Uploads /\ \A v \in us : media[v] = "UPLOADED"
  BY DEF Send, Uploads
<1>2. media'[u] = (IF u \in us THEN "ATTACHED" ELSE media[u]) /\ assets' = assets
  BY DEF Send, Write
<1>3. u \in Shown' => u \in Shown \/ u \in us
  BY DEF Send, Shown
<1>4. CASE u \in us
  BY <1>1, <1>2, <1>4, Waiting DEF Keeps, Over, Claimed, MediaInv, ConfirmedExists
<1>5. CASE u \notin us
  BY <1>2, <1>3, <1>5, Untouched
<1>. QED  BY <1>4, <1>5

LEMMA SwapKeeps ==
  ASSUME MediaInv, NEW a \in Actors, Swap(a), NEW u \in Uploads
  PROVE  Keeps(u)
<1>. DEFINE t == task[a]
<1>0. /\ t.slot \in Slots /\ t.on \in Pictures \cup {None}
      /\ slot \in [Slots -> Pictures \cup {None}] /\ media \in [Uploads -> Statuses]
  BY DEF MediaInv, MediaTypeOK, TasksRely, Relies, Swap, Doing
<1>1. UNCHANGED <<assets, message>>
  BY DEF Swap
<1>2. CASE UNCHANGED <<media, slot>>
  BY <1>1, <1>2, SameShown, Untouched
<1>3. CASE /\ t.on # None => media[t.on] = "UPLOADED"
           /\ slot' = [slot EXCEPT ![t.slot] = t.on]
           /\ IF t.on = None THEN UNCHANGED media ELSE Write({t.on}, "ATTACHED")
  <2>1. ASSUME u \in Shown', u # t.on PROVE u \in Shown
    BY <1>0, <1>1, <1>3, <2>1, UploadsAssumption DEF Shown
  <2>2. media'[u] = IF t.on # None /\ u = t.on THEN "ATTACHED" ELSE media[u]
    BY <1>3 DEF Write
  <2>3. CASE u = t.on
    <3>1. media[u] = "UPLOADED" /\ media'[u] = "ATTACHED"
      BY <1>3, <2>2, <2>3, UploadsAssumption
    <3>. QED  BY <1>1, <3>1 DEF Keeps, Over, Claimed, MediaInv, ConfirmedExists
  <2>4. CASE u # t.on
    BY <1>1, <2>1, <2>2, <2>4, Untouched
  <2>. QED  BY <2>3, <2>4
<1>. QED  BY <1>2, <1>3 DEF Swap

\* The other steps of a task touch the upload it is on, and nothing that is shown.
LEMMA TaskKeeps ==
  ASSUME MediaInv, NEW a \in Actors, Proceed(a), ~Swap(a), NEW u \in Uploads
  PROVE  Keeps(u)
<1>. DEFINE on == task[a].on
<1>0. Relies(task[a])
  BY DEF MediaInv, TasksRely
<1>1. Shown' = Shown
  BY SameShown DEF Proceed, FinishConfirm, CheckRelease, Release, FinishRelease, FlagRelease, ClaimUpload, Destroy,
       MarkDeleted, pointers
<1>2. CASE u # on
  <2>1. media'[u] = media[u] /\ (u \in assets => u \in assets')
    BY <1>2 DEF Proceed, FinishConfirm, CheckRelease, Release, FinishRelease, FlagRelease, ClaimUpload, Destroy,
       MarkDeleted, Write, WriteIf, Destroyed, ProviderFails
  <2>. QED  BY <1>1, <2>1, Untouched
<1>3. CASE u = on
  <2>1. CASE FinishConfirm(a)
    <3>1. assets' = assets /\ media'[u] = IF media[u] = "INITIATED" THEN "UPLOADED" ELSE media[u]
      BY <1>3, <2>1 DEF FinishConfirm, WriteIf, Write
    <3>2. media[u] = "INITIATED" => u \in assets /\ u \notin Shown
      BY <1>0, <1>3, <2>1, Waiting DEF FinishConfirm, Doing, Relies
    <3>. QED  BY <1>1, <3>1, <3>2, Untouched DEF Keeps, Over, Claimed
  <2>2. CASE CheckRelease(a)
    BY <1>1, <2>2, Untouched DEF CheckRelease
  <2>3. CASE Release(a) \/ FinishRelease(a) \/ FlagRelease(a)
    <3>1. u \notin Shown /\ media[u] \in Over
      BY <1>0, <1>3, <2>3 DEF Release, FinishRelease, FlagRelease, IsReleasing, Doing, Relies
    <3>2. media'[u] \in Over
      BY <1>3, <2>3, <3>1 DEF Release, FinishRelease, FlagRelease, Write, WriteIf, Over
    <3>3. media[u] \in Claimed => media'[u] \in Claimed
      BY <1>3, <2>3 DEF Release, FinishRelease, FlagRelease, Write, WriteIf, Releasable, Claimed
    <3>. QED  BY <1>1, <3>1, <3>2, <3>3 DEF Keeps, Over
  <2>4. CASE ClaimUpload(a)
    <3>1. assets' = assets
      BY <2>4 DEF ClaimUpload
    <3>2. CASE media'[u] = media[u]
      BY <1>1, <3>1, <3>2, Untouched
    <3>3. CASE media[u] \in Unused \cup {"CLEANING"} /\ media'[u] = "CLEANING"
      BY <1>1, <3>3, Waiting DEF Keeps, Over, Claimed, Unused
    <3>. QED  BY <1>3, <2>4, <3>2, <3>3 DEF ClaimUpload, MayClaim, Write
  <2>5. CASE Destroy(a) \/ MarkDeleted(a)
    <3>1. media[u] \in Claimed
      BY <1>0, <1>3, <2>5 DEF Destroy, MarkDeleted, Doing, Relies
    <3>2. media'[u] = media[u] \/ media'[u] = "DELETED"
      BY <1>3, <2>5 DEF Destroy, MarkDeleted, Write
    <3>. QED  BY <1>1, <3>1, <3>2, Waiting DEF Keeps, Over, Claimed
  <2>. QED  BY <2>1, <2>2, <2>3, <2>4, <2>5 DEF Proceed
<1>. QED  BY <1>2, <1>3

LEMMA MovesKeep ==
  ASSUME MediaInv, [MediaNext]_mediaVars, NEW u \in Uploads
  PROVE  Keeps(u)
<1>1. ASSUME UNCHANGED <<media, assets, slot>>, \A v \in Attachments : message'[v] = "SENT" => message[v] = "SENT"
      PROVE  Keeps(u)
  <2>1. u \in Shown' => u \in Shown
    BY <1>1 DEF Shown
  <2>. QED  BY <1>1, <2>1, Untouched
<1>2. ASSUME NEW a \in Handlers, NEW v \in Attachments, Unsend(a, v) PROVE Keeps(u)
  <2>1. message' = [message EXCEPT ![v] = "DELETED"] /\ message \in [Attachments -> {"NONE", "SENT", "DELETED"}]
    BY <1>2 DEF Unsend, MediaInv, MediaTypeOK
  <2>. QED  BY <1>1, <1>2, <2>1 DEF Unsend
<1>3. CASE \/ \E a \in Handlers, v \in Uploads : BeginConfirm(a, v) \/ BeginRemove(a, v)
           \/ \E a \in Handlers, v \in Pictures \cup {None}, s \in Slots : BeginSwap(a, s, v)
           \/ \E a \in Jobs, v \in Uploads : BeginCleanup(a, v) \/ BeginRetry(a, v)
           \/ \E a \in Actors : Crash(a)
           \/ UNCHANGED mediaVars
  BY <1>1, <1>3 DEF BeginConfirm, BeginRemove, BeginSwap, BeginCleanup, BeginRetry, Crash, mediaVars, pointers
<1>. QED
  BY <1>2, <1>3, UploadKeeps, SendKeeps, SwapKeeps, TaskKeeps DEF MediaNext

-----------------------------------------------------------------------------
(* Tasks.                                                                    *)

LEMMA KeptRelies ==
  ASSUME MediaInv, [MediaNext]_mediaVars, NEW a \in Actors, task'[a] = task[a]
  PROVE  Relies(task[a])'
<1>1. Relies(task[a])
  BY DEF MediaInv, TasksRely
<1>2. task[a].on \in Uploads => Keeps(task[a].on)
  BY MovesKeep
<1>. QED  BY <1>1, <1>2 DEF Relies, Keeps

LEMMA FreshRelies ==
  ASSUME NEW a \in Actors, task'[a] = NoTask
  PROVE  Relies(task[a])'
BY DEF Relies, NoTask, Releases

\* Who starts.
LEMMA StartsRely ==
  ASSUME MediaInv, [MediaNext]_mediaVars, NEW a \in Actors,
         \/ \E u \in Uploads : BeginConfirm(a, u) \/ BeginRemove(a, u) \/ BeginCleanup(a, u) \/ BeginRetry(a, u)
         \/ \E u \in Pictures \cup {None}, s \in Slots : BeginSwap(a, s, u)
         \/ \E u \in Attachments : Unsend(a, u)
  PROVE  Relies(task[a])' /\ \A b \in Actors \ {a} : task'[b] = task[b]
<1>0. task \in [Actors -> Task] /\ slot \in [Slots -> Pictures \cup {None}] /\ Attachments \subseteq Uploads
  BY DEF MediaInv, MediaTypeOK, Uploads
<1>1. ASSUME NEW u \in Uploads, BeginConfirm(a, u) PROVE Relies(task[a])'
  <2>1. task'[a].job = "confirm" /\ task'[a].on = u /\ UNCHANGED <<media, assets>>
    BY <1>0, <1>1 DEF BeginConfirm, Starts, NoTask
  <2>. QED  BY <1>1, <2>1 DEF Relies, BeginConfirm, Releases
<1>2. ASSUME NEW u \in Uploads, BeginRemove(a, u) \/ BeginCleanup(a, u) PROVE Relies(task[a])'
  <2>1. task'[a].job \in {"remove", "cleanup"} /\ task'[a].on = u /\ task'[a].at = "claim"
    <3>1. CASE BeginRemove(a, u)
      BY <1>0, <3>1 DEF BeginRemove, StartsKnowing, NoTask
    <3>2. CASE BeginCleanup(a, u)
      BY <1>0, <3>2 DEF BeginCleanup, StartsKnowing, NoTask
    <3>. QED  BY <1>2, <3>1, <3>2
  <2>. QED  BY <2>1 DEF Relies, Releases
<1>3. ASSUME NEW u \in Uploads, BeginRetry(a, u) PROVE Relies(task[a])'
  <2>1. task'[a].job = "retry" /\ task'[a].on = u /\ UNCHANGED <<media, slot, message>>
    BY <1>0, <1>3 DEF BeginRetry, Starts, NoTask, pointers
  <2>2. media[u] \in Over /\ u \notin Shown
    <3>1. CASE media[u] = "RELEASE_FAILED"
      BY <3>1, Waiting DEF Over
    <3>2. CASE IsOrphaned(u)
      BY <3>2, UploadsAssumption DEF IsOrphaned, Shown, Over
    <3>. QED  BY <1>3, <3>1, <3>2 DEF BeginRetry
  <2>3. u \notin Shown'
    BY <2>1, <2>2, SameShown
  <2>. QED  BY <2>1, <2>2, <2>3 DEF Relies, Releases
<1>4. ASSUME NEW u \in Pictures \cup {None}, NEW s \in Slots, BeginSwap(a, s, u) PROVE Relies(task[a])'
  <2>1. task'[a].job = "swap" /\ task'[a].on = u /\ task'[a].before = slot[s] /\ task'[a].slot = s
    BY <1>0, <1>4 DEF BeginSwap, NoTask
  <2>. QED  BY <1>0, <2>1 DEF Relies, Releases
<1>5. ASSUME NEW u \in Attachments, Unsend(a, u) PROVE Relies(task[a])'
  <2>1. task'[a].job = "unsent" /\ task'[a].on = u /\ UNCHANGED <<media, slot>> /\ message'[u] = "DELETED"
    BY <1>0, <1>5 DEF Unsend, Starts, NoTask, MediaInv, MediaTypeOK
  <2>2. media[u] = "ATTACHED" /\ u \in Uploads
    BY <1>0, <1>5 DEF Unsend, MediaInv, ShownMediaExists, Shown
  <2>3. u \notin Shown'
    BY <1>0, <2>1, UploadsAssumption DEF Shown, Uploads
  <2>. QED  BY <2>1, <2>2, <2>3 DEF Relies, Releases, Over
<1>6. \A b \in Actors \ {a} : task'[b] = task[b]
  BY <1>0 DEF BeginConfirm, BeginRemove, BeginCleanup, BeginRetry, BeginSwap, Unsend, Starts, StartsKnowing
<1>. QED  BY <1>1, <1>2, <1>3, <1>4, <1>5, <1>6

\* Who goes on, ends or dies.
LEMMA StepsRely ==
  ASSUME MediaInv, [MediaNext]_mediaVars, NEW a \in Actors, Proceed(a) \/ Crash(a)
  PROVE  Relies(task[a])' /\ \A b \in Actors \ {a} : task'[b] = task[b]
<1>0. task \in [Actors -> Task] /\ Relies(task[a]) /\ slot \in [Slots -> Pictures \cup {None}]
  BY DEF MediaInv, MediaTypeOK, TasksRely
<1>1. \A b \in Actors \ {a} : task'[b] = task[b]
  BY <1>0 DEF Proceed, Crash, FinishConfirm, Swap, CheckRelease, Release, FinishRelease, FlagRelease, ClaimUpload,
       Destroy,
       MarkDeleted, Continues, Ends
<1>2. ASSUME Ends(a) PROVE Relies(task[a])'
  BY <1>0, <1>2, FreshRelies DEF Ends
<1>3. ASSUME NEW at, Continues(a, at) PROVE task'[a] = [task[a] EXCEPT !.at = at]
  BY <1>0, <1>3 DEF Continues
<1>4. task[a].on \in Uploads => Keeps(task[a].on)
  BY MovesKeep
<1>5. ASSUME NEW at, Continues(a, at), IsReleasing(a, "check") \/ IsReleasing(a, "destroy") PROVE Relies(task[a])'
  <2>1. task'[a].job = task[a].job /\ task'[a].on = task[a].on /\ task[a].job \in Releases
    BY <1>0, <1>3, <1>5 DEF IsReleasing, Doing, Task
  <2>. QED  BY <1>0, <1>4, <2>1 DEF Relies, Keeps, Releases
<1>6. CASE Swap(a)
  <2>. DEFINE t == task[a]
  <2>1. CASE Ends(a) \/ task'[a] = NoTask
    BY <1>1, <1>2, <2>1, FreshRelies
  <2>2. CASE /\ slot[t.slot] = t.before /\ t.before # None
             /\ t.on # None => media[t.on] = "UPLOADED"
             /\ slot' = [slot EXCEPT ![t.slot] = t.on]
             /\ IF t.on = None THEN UNCHANGED media ELSE Write({t.on}, "ATTACHED")
             /\ task'[a] = [NoTask EXCEPT !.job = "replaced", !.at = "check", !.on = t.before]
    <3>1. task'[a].job = "replaced" /\ task'[a].on = t.before
      BY <2>2 DEF NoTask
    <3>2. t.slot \in Slots /\ t.before \in Pictures /\ t.on \in Pictures \cup {None}
      BY <1>0, <1>6, <2>2 DEF Swap, Doing, Relies
    <3>3. t.before \in Uploads /\ t.before \notin Attachments /\ t.before \in Shown
      BY <2>2, <3>2, UploadsAssumption DEF Uploads, Shown
    <3>4. media[t.before] = "ATTACHED"
      BY <3>3 DEF MediaInv, ShownMediaExists
    <3>5. t.on # t.before
      BY <2>2, <3>4
    <3>6. media'[t.before] = "ATTACHED"
      BY <2>2, <3>3, <3>4, <3>5 DEF Write
    <3>7. ASSUME NEW s \in Slots PROVE slot'[s] # t.before
      BY <1>0, <2>2, <3>2, <3>5 DEF MediaInv, SlotsDiffer
    <3>8. t.before \notin Shown'
      BY <3>3, <3>7 DEF Shown
    <3>. QED  BY <1>1, <3>1, <3>3, <3>6, <3>8 DEF Relies, Releases, Over
  <2>. QED  BY <1>0, <1>6, <2>1, <2>2 DEF Swap
<1>7. CASE ClaimUpload(a)
  <2>1. task[a].job \in {"remove", "cleanup"} /\ task[a].on \in Uploads
    BY <1>0, <1>7 DEF ClaimUpload, Doing, Relies
  <2>2. ASSUME Write({task[a].on}, "CLEANING"), NEW at, Continues(a, at) PROVE Relies(task[a])'
    <3>1. media'[task[a].on] = "CLEANING"
      BY <2>1, <2>2 DEF Write
    <3>2. task'[a].job = task[a].job /\ task'[a].on = task[a].on
      BY <1>0, <1>3, <2>2 DEF Task
    <3>. QED  BY <2>1, <3>1, <3>2 DEF Relies, Releases, Claimed
  <2>. QED  BY <1>1, <1>2, <1>7, <2>2 DEF ClaimUpload
<1>8. CASE Destroy(a)
  <2>1. task[a].job \in {"remove", "cleanup"} /\ task[a].on \in Uploads /\ media[task[a].on] \in Claimed
        /\ media' = media
    BY <1>0, <1>8 DEF Destroy, Doing, Relies
  <2>2. ASSUME Continues(a, "finish") PROVE Relies(task[a])'
    <3>1. task'[a].job = task[a].job /\ task'[a].on = task[a].on
      BY <1>0, <1>3, <2>2 DEF Task
    <3>. QED  BY <2>1, <3>1 DEF Relies, Releases
  <2>. QED  BY <1>1, <1>2, <1>8, <2>2 DEF Destroy
<1>. QED
  BY <1>1, <1>2, <1>5, <1>6, <1>7, <1>8
     DEF Proceed, Crash, FinishConfirm, CheckRelease, Release, FinishRelease, FlagRelease, MarkDeleted

LEMMA TasksStep == MediaInv /\ [MediaNext]_mediaVars => TasksRely'
<1>. SUFFICES ASSUME MediaInv, [MediaNext]_mediaVars, NEW b \in Actors PROVE Relies(task[b])'
  BY DEF TasksRely
<1>1. ASSUME task' = task PROVE Relies(task[b])'
  BY <1>1, KeptRelies
<1>2. ASSUME NEW a \in Actors, Relies(task[a])', \A c \in Actors \ {a} : task'[c] = task[c] PROVE Relies(task[b])'
  BY <1>2, KeptRelies
<1>3. CASE \/ \E u \in Uploads : CreateUploadSignature(u) \/ PutAsset(u) \/ BecomesDue(u)
           \/ \E us \in SUBSET Attachments : Send(us)
           \/ UNCHANGED mediaVars
  BY <1>1, <1>3 DEF CreateUploadSignature, PutAsset, BecomesDue, Send, mediaVars
<1>. QED  BY <1>2, <1>3, StartsRely, StepsRely DEF MediaNext, Actors

-----------------------------------------------------------------------------
(* Types and slots.                                                          *)

LEMMA WriteTyped ==
  ASSUME MediaTypeOK, NEW us, NEW status \in Statuses, Write(us, status)
  PROVE  media' \in [Uploads -> Statuses] /\ due' \subseteq Uploads
BY DEF MediaTypeOK, Write

LEMMA RowsTyped ==
  ASSUME MediaInv, [MediaNext]_mediaVars
  PROVE  media' \in [Uploads -> Statuses] /\ due' \subseteq Uploads
<1>0. MediaTypeOK /\ {"INITIATED", "UPLOADED", "CLEANING", "ATTACHED", "RELEASE_FAILED", "DELETED"} \subseteq Statuses
  BY DEF MediaInv, Statuses
<1>1. CASE UNCHANGED <<media, due>>
  BY <1>0, <1>1 DEF MediaTypeOK
<1>2. ASSUME NEW us, NEW status \in Statuses, Write(us, status)
      PROVE  media' \in [Uploads -> Statuses] /\ due' \subseteq Uploads
  BY <1>0, <1>2, WriteTyped
<1>3. ASSUME NEW u \in Uploads, BecomesDue(u) PROVE media' \in [Uploads -> Statuses] /\ due' \subseteq Uploads
  BY <1>0, <1>3 DEF BecomesDue, MediaTypeOK
<1>4. ASSUME NEW a \in Actors, Proceed(a) \/ Crash(a) PROVE media' \in [Uploads -> Statuses] /\ due' \subseteq Uploads
  BY <1>0, <1>1, <1>2, <1>4 DEF Proceed, Crash, FinishConfirm, Swap, CheckRelease, Release, FinishRelease,
       FlagRelease,
       ClaimUpload, Destroy, MarkDeleted, WriteIf
<1>5. CASE \/ \E u \in Uploads : PutAsset(u)
           \/ \E a \in Handlers, u \in Uploads : BeginConfirm(a, u) \/ BeginRemove(a, u)
           \/ \E a \in Handlers, u \in Pictures \cup {None}, s \in Slots : BeginSwap(a, s, u)
           \/ \E a \in Handlers, u \in Attachments : Unsend(a, u)
           \/ \E a \in Jobs, u \in Uploads : BeginCleanup(a, u) \/ BeginRetry(a, u)
           \/ UNCHANGED mediaVars
  BY <1>1, <1>5 DEF PutAsset, BeginConfirm, BeginRemove, BeginSwap, Unsend, BeginCleanup, BeginRetry, mediaVars
<1>6. ASSUME NEW u \in Uploads, CreateUploadSignature(u)
      PROVE  media' \in [Uploads -> Statuses] /\ due' \subseteq Uploads
  BY <1>0, <1>2, <1>6 DEF CreateUploadSignature
<1>7. ASSUME NEW us, Send(us) PROVE media' \in [Uploads -> Statuses] /\ due' \subseteq Uploads
  BY <1>0, <1>2, <1>7 DEF Send
<1>. QED  BY <1>3, <1>4, <1>5, <1>6, <1>7 DEF MediaNext

LEMMA TasksTyped ==
  ASSUME MediaInv, [MediaNext]_mediaVars
  PROVE  task' \in [Actors -> Task]
<1>0. task \in [Actors -> Task] /\ media \in [Uploads -> Statuses] /\ slot \in [Slots -> Pictures \cup {None}]
  BY DEF MediaInv, MediaTypeOK
<1>1. ASSUME NEW a \in Actors, NEW t \in Task, task' = [task EXCEPT ![a] = t] PROVE task' \in [Actors -> Task]
  BY <1>0, <1>1
<1>2. NoTask \in Task
  BY DEF NoTask, Task, Statuses
<1>3. ASSUME NEW a \in Actors, NEW at \in {"destroy", "finish", "flag"}, Continues(a, at)
      PROVE  task' \in [Actors -> Task]
  <2>1. [task[a] EXCEPT !.at = at] \in Task
    BY <1>0 DEF Task
  <2>. QED  BY <1>0, <1>1, <1>3, <2>1 DEF Continues
<1>4. ASSUME NEW a \in Actors, Ends(a) PROVE task' \in [Actors -> Task]
  BY <1>1, <1>2, <1>4 DEF Ends
<1>5. ASSUME NEW a \in Actors, NEW u \in Uploads,
             BeginConfirm(a, u) \/ BeginRemove(a, u) \/ BeginCleanup(a, u) \/ BeginRetry(a, u)
      PROVE  task' \in [Actors -> Task]
  BY <1>0, <1>1, <1>5 DEF BeginConfirm, BeginRemove, BeginCleanup, BeginRetry, Starts, StartsKnowing, NoTask, Task,
       Releases, Statuses
<1>6. ASSUME NEW a \in Actors, NEW u \in Attachments, Unsend(a, u) PROVE task' \in [Actors -> Task]
  BY <1>0, <1>1, <1>6 DEF Unsend, Starts, NoTask, Task, Releases, Statuses, Uploads
<1>7. ASSUME NEW a \in Actors, NEW u \in Pictures \cup {None}, NEW s \in Slots, BeginSwap(a, s, u)
      PROVE  task' \in [Actors -> Task]
  BY <1>0, <1>1, <1>7 DEF BeginSwap, NoTask, Task, Statuses, Uploads
<1>8. ASSUME NEW a \in Actors, Swap(a) PROVE task' \in [Actors -> Task]
  <2>1. [NoTask EXCEPT !.job = "replaced", !.at = "check", !.on = task[a].before] \in Task
    BY <1>0 DEF NoTask, Task, Releases, Statuses
  <2>. QED  BY <1>1, <1>2, <1>4, <1>8, <2>1 DEF Swap
<1>9. ASSUME NEW a \in Actors, Proceed(a) \/ Crash(a) PROVE task' \in [Actors -> Task]
  BY <1>3, <1>4, <1>8, <1>9 DEF Proceed, Crash, FinishConfirm, CheckRelease, Release, FinishRelease, FlagRelease,
       ClaimUpload, Destroy, MarkDeleted
<1>10. CASE \/ \E u \in Uploads : CreateUploadSignature(u) \/ PutAsset(u) \/ BecomesDue(u)
            \/ \E us \in SUBSET Attachments : Send(us)
            \/ UNCHANGED mediaVars
  BY <1>0, <1>10 DEF CreateUploadSignature, PutAsset, BecomesDue, Send, mediaVars
<1>. QED  BY <1>5, <1>6, <1>7, <1>9, <1>10 DEF MediaNext, Actors

LEMMA SlotsStep ==
  ASSUME MediaInv, [MediaNext]_mediaVars
  PROVE  slot' \in [Slots -> Pictures \cup {None}] /\ SlotsDiffer'
<1>0. slot \in [Slots -> Pictures \cup {None}]
  BY DEF MediaInv, MediaTypeOK
<1>1. CASE UNCHANGED slot
  BY <1>0, <1>1 DEF MediaInv, SlotsDiffer
<1>2. ASSUME NEW a \in Actors, Swap(a), slot' # slot
      PROVE  slot' \in [Slots -> Pictures \cup {None}] /\ SlotsDiffer'
  <2>. DEFINE t == task[a]
  <2>1. /\ t.slot \in Slots /\ t.on \in Pictures \cup {None}
        /\ slot' = [slot EXCEPT ![t.slot] = t.on]
        /\ t.on # None => media[t.on] = "UPLOADED"
    BY <1>2 DEF MediaInv, TasksRely, Relies, Swap, Doing
  <2>2. \A s \in Slots : t.on # None => slot[s] # t.on
    BY <2>1, Waiting DEF Shown, Uploads
  <2>. QED  BY <1>0, <2>1, <2>2 DEF MediaInv, SlotsDiffer
<1>3. ASSUME NEW a \in Actors, Proceed(a), ~Swap(a) PROVE UNCHANGED slot
  BY <1>3 DEF Proceed, FinishConfirm, CheckRelease, Release, FinishRelease, FlagRelease, ClaimUpload, Destroy,
       MarkDeleted, pointers
<1>. QED
  BY <1>1, <1>2, <1>3 DEF MediaNext, mediaVars, pointers, CreateUploadSignature, PutAsset, BecomesDue, Send,
       BeginConfirm, BeginRemove,
     BeginSwap, Unsend, BeginCleanup, BeginRetry, Crash

LEMMA RestTyped ==
  ASSUME MediaInv, [MediaNext]_mediaVars
  PROVE  /\ assets' \subseteq Uploads /\ link' \subseteq Attachments /\ faults' \in 0 .. MaxFaults
         /\ message' \in [Attachments -> {"NONE", "SENT", "DELETED"}]
<1>0. /\ assets \subseteq Uploads /\ link \subseteq Attachments /\ faults \in 0 .. MaxFaults
      /\ message \in [Attachments -> {"NONE", "SENT", "DELETED"}]
  BY DEF MediaInv, MediaTypeOK
<1>1. ASSUME NEW us \in SUBSET Attachments, Send(us)
      PROVE  /\ UNCHANGED <<assets, faults>> /\ link' \subseteq Attachments
             /\ message' \in [Attachments -> {"NONE", "SENT", "DELETED"}]
  BY <1>0, <1>1 DEF Send
<1>2. ASSUME NEW a \in Handlers, NEW u \in Attachments, Unsend(a, u)
      PROVE  UNCHANGED <<assets, faults, link>> /\ message' \in [Attachments -> {"NONE", "SENT", "DELETED"}]
  BY <1>0, <1>2 DEF Unsend
<1>3. ASSUME NEW a \in Actors, Proceed(a) \/ Crash(a)
      PROVE  /\ assets' \subseteq assets /\ link' \subseteq link /\ UNCHANGED message
             /\ UNCHANGED faults \/ (faults < MaxFaults /\ faults' = faults + 1)
  BY <1>3 DEF Proceed, Crash, FinishConfirm, Swap, CheckRelease, Release, FinishRelease, FlagRelease, ClaimUpload,
       Destroy,
       MarkDeleted, Destroyed, ProviderFails, pointers
<1>4. CASE \/ \E u \in Uploads : CreateUploadSignature(u) \/ PutAsset(u) \/ BecomesDue(u)
           \/ \E a \in Handlers, u \in Uploads : BeginConfirm(a, u) \/ BeginRemove(a, u)
           \/ \E a \in Handlers, u \in Pictures \cup {None}, s \in Slots : BeginSwap(a, s, u)
           \/ \E a \in Jobs, u \in Uploads : BeginCleanup(a, u) \/ BeginRetry(a, u)
           \/ UNCHANGED mediaVars
  BY <1>0, <1>4 DEF CreateUploadSignature, PutAsset, BecomesDue, BeginConfirm, BeginRemove, BeginSwap, BeginCleanup,
       BeginRetry, mediaVars, pointers
<1>5. ASSUME UNCHANGED faults \/ (faults < MaxFaults /\ faults' = faults + 1) PROVE faults' \in 0 .. MaxFaults
  BY <1>0, <1>5, FaultsAssumption
<1>. QED  BY <1>0, <1>1, <1>2, <1>3, <1>4, <1>5 DEF MediaNext

\* The inductive invariant of media: types, what is shown, and what the tasks rely on.
THEOREM MediaInvariant == MediaSpec => []MediaInv
<1>1. ASSUME MediaInv, [MediaNext]_mediaVars PROVE MediaInv'
  <2>1. MediaTypeOK'
    BY <1>1, RowsTyped, TasksTyped, SlotsStep, RestTyped DEF MediaTypeOK
  <2>2. ShownMediaExists' /\ ConfirmedExists'
    <3>1. Shown' \subseteq Uploads
      BY DEF Shown
    <3>. QED  BY <1>1, <3>1, MovesKeep DEF Keeps, ShownMediaExists, ConfirmedExists
  <2>. QED  BY <1>1, <2>1, <2>2, TasksStep, SlotsStep DEF MediaInv
<1>. QED  BY <1>1, MediaInvInit, PTL DEF MediaSpec

\* ShownMediaExists: what a message or a slot shows has its asset and an ATTACHED row, whatever confirmations, swaps,
\* releases, cleanups and crashes run between the steps of each other.
THEOREM MediaSafe == MediaSpec => []ShownMediaExists
BY MediaInvariant, PTL DEF MediaInv
=============================================================================
