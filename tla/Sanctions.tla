------------------------------- MODULE Sanctions -------------------------------
(***************************************************************************)
(* Decisions about one account: findings, the sanctions that rest on them,  *)
(* and appeals.  Every transaction takes the account's advisory lock before  *)
(* it decides, so that what each does after it is one step; the job that     *)
(* expires sanctions does not, and skips the rows others hold.  Time passes  *)
(* between the steps, and a sanction ends by the clock whether its row says   *)
(* so or not.                                                                *)
(***************************************************************************)
EXTENDS Naturals, FiniteSets

CONSTANTS
  Sanctions, Findings,   \* rows that may be made
  Staff,                 \* who decides
  WorksFor,              \* the workspace each decides in
  Requests,              \* request keys, each for one intended decision
  Types,                 \* the sanctions used
  Durations, MaxTime,    \* in days
  MaxAdjusted            \* adjustments of one sanction

Community == "COMMUNITY"
Platform == "PLATFORM"
AllTypes == {"WARNING", "COMMUNITY_RESTRICTION", "COMMUNITY_BAN", "PLATFORM_SUSPENSION"}
NoFinding == "no finding"
Nobody == "nobody"

ASSUME StaffAssumption == WorksFor \in [Staff -> {Community, Platform}] /\ Nobody \notin Staff
ASSUME TypesAssumption == Types \subseteq AllTypes
ASSUME TimeAssumption == MaxTime \in Nat /\ MaxAdjusted \in Nat /\ Durations \subseteq Nat \ {0}
ASSUME FindingsAssumption == NoFinding \notin Findings \cup Requests

VARIABLES
  now,
  finding,   \* ModerationViolation rows
  sanction,  \* ModerationSanction rows
  appeal     \* ModerationAppeal rows: at most one of a sanction

vars == <<now, finding, sanction, appeal>>

Unwritten == [status |-> "ABSENT", type |-> "WARNING", scope |-> Platform, finding |-> NoFinding, request |-> NoFinding,
              issuer |-> Nobody, adjusters |-> {}, starts |-> 0, ends |-> 0]

\* Warnings have no end.
HasEnded(s) == sanction[s].type # "WARNING" /\ sanction[s].ends <= now

IsActive(s) == sanction[s].status = "ACTIVE"

\* What the row says, and the clock.
IsEffective(s) == IsActive(s) /\ ~HasEnded(s)

\* A sanction belongs to the workspace it was decided in; the platform's staff reach every one.
MayReach(m, scope) == WorksFor[m] = Platform \/ scope = Community

TypesOf(scope) ==
  Types \cap (IF scope = Community THEN AllTypes \ {"PLATFORM_SUSPENSION"} ELSE {"WARNING", "PLATFORM_SUSPENSION"})

-----------------------------------------------------------------------------
(* Findings and sanctions.                                                   *)

\* The case, and its content as it was, have no finding that stands.  (One case: one finding at a time.)
Confirm(m, v) ==
  /\ finding[v].status = "ABSENT"
  /\ \A w \in Findings : finding[w].status # "STANDS"
  /\ finding' = [finding EXCEPT ![v] = [status |-> "STANDS", scope |-> WorksFor[m]]]
  /\ UNCHANGED <<now, sanction, appeal>>

\* (Mutant: the key of the request is not looked up.)
AnyRequest(q) == TRUE

IsNewRequest(q) == \A s \in Sanctions : sanction[s].status = "ABSENT" \/ sanction[s].request # q

\* None is named, or one of this workspace that was not reversed.
FindingStands(m, v) == v # NoFinding => finding[v].status = "STANDS" /\ finding[v].scope = WorksFor[m]

\* A request that comes again gets the record of its first time, whatever became of it.
Issue(m, s, type, days, v, q) ==
  /\ sanction[s].status = "ABSENT"
  /\ type \in TypesOf(WorksFor[m])
  /\ IsNewRequest(q)
  /\ type # "WARNING" =>
       \A other \in Sanctions :
         sanction[other].type = type /\ sanction[other].scope = WorksFor[m] => ~IsEffective(other)
  /\ FindingStands(m, v)
  /\ sanction' = [sanction EXCEPT ![s] =
       [status |-> "ACTIVE", type |-> type, scope |-> WorksFor[m], finding |-> v, request |-> q, issuer |-> m,
        adjusters |-> {}, starts |-> now, ends |-> IF type = "WARNING" THEN 0 ELSE now + days]]
  /\ UNCHANGED <<now, finding, appeal>>

\* revokeTx: what has ended meanwhile is expired, and what is over stays as it is.
Revoked(s) ==
  IF sanction[s].status # "ACTIVE" THEN sanction[s]
  ELSE [sanction[s] EXCEPT !.status = IF HasEnded(s) THEN "EXPIRED" ELSE "REVOKED"]

Revoke(m, s) ==
  /\ MayReach(m, sanction[s].scope)
  /\ IsEffective(s)
  /\ sanction' = [sanction EXCEPT ![s] = Revoked(s)]
  /\ UNCHANGED <<now, finding, appeal>>

\* (Mutant: the clock is not asked.)
IsNotExpired(s) == sanction[s].type # "WARNING" /\ IsActive(s)

\* Only a temporary sanction that is still in force can be adjusted.
IsAdjustable(s) == sanction[s].type # "WARNING" /\ IsEffective(s)

\* A new length, counted from the start.
Adjust(m, s, days) ==
  /\ MayReach(m, sanction[s].scope)
  /\ IsAdjustable(s)
  /\ sanction[s].starts + days > now
  /\ Cardinality(sanction[s].adjusters) < MaxAdjusted
  /\ sanction' = [sanction EXCEPT ![s].ends = sanction[s].starts + days, ![s].adjusters = @ \cup {m}]
  /\ UNCHANGED <<now, finding, appeal>>

-----------------------------------------------------------------------------
(* Reversals and appeals.                                                    *)

\* (Mutant: the sanctions of the finding are left.)
LeaveConsequences(v, first) == [s \in Sanctions |-> IF s = first THEN Revoked(s) ELSE sanction[s]]

\* reverseTx, after the sanction under appeal: every sanction that rests on the finding.
RevokeConsequences(v, first) ==
  [s \in Sanctions |-> IF s = first \/ (v # NoFinding /\ sanction[s].finding = v) THEN Revoked(s) ELSE sanction[s]]

Reversed(v) == [w \in Findings |-> IF w = v THEN [finding[w] EXCEPT !.status = "REVERSED"] ELSE finding[w]]

\* Reversing again does nothing new.
ReverseViolation(m, v) ==
  /\ finding[v].status # "ABSENT"
  /\ MayReach(m, finding[v].scope)
  /\ finding' = Reversed(v)
  /\ sanction' = RevokeConsequences(v, NoFinding)
  /\ UNCHANGED <<now, appeal>>

\* Also of a sanction that has expired.
Appeal(s) ==
  /\ sanction[s].status \in {"ACTIVE", "EXPIRED"}
  /\ appeal[s] = "NONE"
  /\ appeal' = [appeal EXCEPT ![s] = "PENDING"]
  /\ UNCHANGED <<now, finding, sanction>>

MayReject(m, s) == m # sanction[s].issuer /\ m \notin sanction[s].adjusters

Reject(m, s) ==
  /\ MayReach(m, sanction[s].scope)
  /\ MayReject(m, s)
  /\ appeal[s] = "PENDING"
  /\ appeal' = [appeal EXCEPT ![s] = "REJECTED"]
  /\ UNCHANGED <<now, finding, sanction>>

\* The sanction, and if the reviewer says so the finding with all that rests on it.
Accept(m, s, reverses) ==
  LET v == IF reverses THEN sanction[s].finding ELSE NoFinding
  IN /\ MayReach(m, sanction[s].scope)
     /\ appeal[s] = "PENDING"
     /\ v # NoFinding => MayReach(m, finding[v].scope)
     /\ sanction' = RevokeConsequences(v, s)
     /\ finding' = Reversed(v)
     /\ appeal' = [appeal EXCEPT ![s] = "ACCEPTED"]
     /\ UNCHANGED now

-----------------------------------------------------------------------------
(* The clock.                                                                *)

\* The job's round: some of those that are due, for it skips rows that are locked.
Expire(S) ==
  /\ S # {}
  /\ \A s \in S : IsActive(s) /\ HasEnded(s)
  /\ sanction' = [s \in Sanctions |-> IF s \in S THEN [sanction[s] EXCEPT !.status = "EXPIRED"] ELSE sanction[s]]
  /\ UNCHANGED <<now, finding, appeal>>

Tick == now < MaxTime /\ now' = now + 1 /\ UNCHANGED <<finding, sanction, appeal>>

-----------------------------------------------------------------------------
Init ==
  /\ now = 0
  /\ finding = [v \in Findings |-> [status |-> "ABSENT", scope |-> Platform]]
  /\ sanction = [s \in Sanctions |-> Unwritten]
  /\ appeal = [s \in Sanctions |-> "NONE"]

Next ==
  \/ \E m \in Staff, v \in Findings : Confirm(m, v) \/ ReverseViolation(m, v)
  \/ \E m \in Staff, s \in Sanctions, type \in Types, days \in Durations, v \in Findings \cup {NoFinding},
        q \in Requests : Issue(m, s, type, days, v, q)
  \/ \E m \in Staff, s \in Sanctions : Revoke(m, s) \/ Reject(m, s)
  \/ \E m \in Staff, s \in Sanctions, days \in Durations : Adjust(m, s, days)
  \/ \E m \in Staff, s \in Sanctions, reverses \in BOOLEAN : Accept(m, s, reverses)
  \/ \E s \in Sanctions : Appeal(s)
  \/ \E S \in SUBSET Sanctions : Expire(S)
  \/ Tick

Spec == Init /\ [][Next]_vars

-----------------------------------------------------------------------------
(* Properties.                                                               *)

SanctionRow ==
  [status : {"ABSENT", "ACTIVE", "EXPIRED", "REVOKED"}, type : AllTypes, scope : {Community, Platform},
   finding : Findings \cup {NoFinding}, request : Requests \cup {NoFinding}, issuer : Staff \cup {Nobody},
   adjusters : SUBSET Staff, starts : Nat, ends : Nat]

\* Every variable holds rows of its table.
TypeOK ==
  /\ now \in Nat
  /\ finding \in [Findings -> [status : {"ABSENT", "STANDS", "REVERSED"}, scope : {Community, Platform}]]
  /\ sanction \in [Sanctions -> SanctionRow]
  /\ appeal \in [Sanctions -> {"NONE", "PENDING", "ACCEPTED", "REJECTED"}]

\* "Consequences attached to this finding must not survive its reversal", in whatever order sanctions, appeals and
\* reversals of the finding come.
ReversalReachesConsequences ==
  \A s \in Sanctions : IsActive(s) /\ sanction[s].finding # NoFinding => finding[sanction[s].finding].status = "STANDS"

\* What SanctionAccessService finds when the account asks for something.
Restricts(s) == sanction[s].status = "ACTIVE" /\ sanction[s].type # "WARNING" /\ sanction[s].ends > now

\* An account has at most one sanction of a kind in force in a workspace, although some are lengthened, and some
\* ended by the clock alone.
OneSanctionInForce ==
  \A s, t \in Sanctions :
    /\ Restricts(s) /\ Restricts(t)
    /\ sanction[s].type = sanction[t].type /\ sanction[s].scope = sanction[t].scope
    => s = t

IsDecided(q) == \E s \in Sanctions : sanction[s].request = q
IsInForce(q) == \E s \in Sanctions : sanction[s].request = q /\ Restricts(s)

\* A decision whose sanction ended, by whatever way, never restricts the account again: not when it is adjusted, nor
\* when its request is retried.
DecisionsEndForGood ==
  [][\A q \in Requests : IsDecided(q) /\ ~IsInForce(q) => ~IsInForce(q)']_vars

=============================================================================
