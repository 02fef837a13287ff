---------------------------- MODULE ModerationCases ----------------------------
(***************************************************************************)
(* Reports and the cases they are gathered in: reporters join the active    *)
(* case of a content or open one, moderators claim, assign and close it,    *)
(* and who stops being a moderator hands their cases back.  Transactions    *)
(* run at READ COMMITTED: what one reads may have changed when it writes,   *)
(* unless it locked the row.                                                *)
(***************************************************************************)
EXTENDS Naturals, FiniteSets

CONSTANTS
  Cases, Reporters, Targets,
  Moderators,
  Games, Platform,   \* the scopes: a game's moderators, and the platform's (a role of the user)
  ScopeOf,           \* the scope of each target's cases
  Candidates,        \* pairs of a moderator and a scope that may be granted
  Admin,             \* a moderator of the platform for good
  MaxTries           \* attempts of one report

Scopes == Games \cup {Platform}
Nobody == "nobody"
NoCase == "no case"

ASSUME ScopesAssumption == ScopeOf \in [Targets -> Scopes] /\ Platform \notin Games
ASSUME ReportersAssumption == IsFiniteSet(Reporters) /\ Targets # {} /\ MaxTries \in Nat \ {0}
ASSUME CandidatesAssumption ==
  /\ Candidates \subseteq Moderators \X Scopes
  /\ Admin \in Moderators /\ <<Admin, Platform>> \notin Candidates
ASSUME NamesAssumption == Nobody \notin Moderators /\ NoCase \notin Cases

VARIABLES
  case,       \* ModerationCase rows
  reports,    \* the reporters of each case's Report rows
  moderates,  \* GameModerator rows, and with Platform the users' roles
  removal,    \* open transactions that end such a right
  filing      \* the report each reporter is about to file

vars == <<case, reports, moderates, removal, filing>>

Active == {"OPEN", "IN_REVIEW"}
Statuses == Active \cup {"ABSENT", "RESOLVED", "DISMISSED"}

NoRow == [status |-> "ABSENT", target |-> CHOOSE t \in Targets : TRUE, assignee |-> Nobody, count |-> 0]
NoRemoval == [at |-> "none", keeps |-> {}]
NotFiling == [at |-> "none", target |-> CHOOSE t \in Targets : TRUE, found |-> NoCase, tries |-> 0]

IsActive(c) == case[c].status \in Active
ActiveCases(t) == {c \in Cases : IsActive(c) /\ case[c].target = t}
Scope(c) == ScopeOf[case[c].target]

-----------------------------------------------------------------------------
(* Filing a report.                                                          *)

\* The active case of the target, if there is one: read without a lock.
FindCase(r, t) ==
  /\ filing[r].at = "none"
  /\ filing' = [filing EXCEPT ![r] =
       [at |-> "file", target |-> t, tries |-> 1,
        found |-> IF ActiveCases(t) = {} THEN NoCase ELSE CHOOSE c \in ActiveCases(t) : TRUE]]
  /\ UNCHANGED <<case, reports, moderates, removal>>

Files(r, c) ==
  /\ reports' = [reports EXCEPT ![c] = @ \cup {r}]
  /\ filing' = [filing EXCEPT ![r] = NotFiling]

\* (Mutant: the status is not read again under the lock.)
FoundCase(c) == TRUE

\* SELECT ... FOR UPDATE of a case that is still active.
StillActive(c) == IsActive(c)

\* Joins the case it found; a second report of the same reporter is refused.
Join(r) ==
  LET c == filing[r].found
  IN /\ filing[r].at = "file"
     /\ c # NoCase
     /\ StillActive(c)
     /\ r \notin reports[c]
     /\ case' = [case EXCEPT ![c].count = @ + 1]
     /\ Files(r, c)
     /\ UNCHANGED <<moderates, removal>>

\* (Mutant: no partial unique index.)
NoIndex(t) == TRUE

\* The partial unique index moderation_cases_open_target_key.
IndexAllows(t) == ActiveCases(t) = {}

OpenCase(r, c) ==
  /\ filing[r].at = "file"
  /\ filing[r].found = NoCase
  /\ IndexAllows(filing[r].target)
  /\ case[c].status = "ABSENT"
  /\ case' = [case EXCEPT ![c] = [NoRow EXCEPT !.status = "OPEN", !.target = filing[r].target, !.count = 1]]
  /\ Files(r, c)
  /\ UNCHANGED <<moderates, removal>>

\* Closed while waiting for its lock, or opened by another reporter first: a new transaction starts over.
TryAgain(r) ==
  LET f == filing[r]
  IN /\ f.at = "file"
     /\ IF f.found = NoCase THEN ~IndexAllows(f.target) ELSE ~StillActive(f.found)
     /\ filing' = [filing EXCEPT ![r] =
          IF f.tries >= MaxTries THEN NotFiling
          ELSE [f EXCEPT !.tries = @ + 1,
                         !.found = IF ActiveCases(f.target) = {} THEN NoCase
                                   ELSE CHOOSE c \in ActiveCases(f.target) : TRUE]]
     /\ UNCHANGED <<case, reports, moderates, removal>>

\* Refused as a duplicate, or failed.
GiveUp(r) ==
  /\ filing[r].at = "file"
  /\ filing' = [filing EXCEPT ![r] = NotFiling]
  /\ UNCHANGED <<case, reports, moderates, removal>>

-----------------------------------------------------------------------------
(* Working a case.                                                           *)

MayModerate(m, c) == <<m, Platform>> \in moderates \/ <<m, Scope(c)>> \in moderates

IsOpen(m, s) == removal[<<m, s>>].at # "none"

\* lockModerationActor: the user's row, and unless the role is enough the row of the game, held FOR SHARE.
HoldsRights(m, c) ==
  /\ ~IsOpen(m, Platform)
  /\ <<m, Platform>> \in moderates \/ (<<m, Scope(c)>> \in moderates /\ ~IsOpen(m, Scope(c)))

\* An assignee's row of the game is locked whatever their role.
IsEligible(m, c) == MayModerate(m, c) /\ ~IsOpen(m, Platform) /\ ~IsOpen(m, Scope(c))

Claim(m, c) ==
  /\ HoldsRights(m, c)
  /\ case[c].status = "OPEN"
  /\ case' = [case EXCEPT ![c].status = "IN_REVIEW", ![c].assignee = m]
  /\ UNCHANGED <<reports, moderates, removal, filing>>

Assign(m, c, assignee) ==
  /\ HoldsRights(m, c)
  /\ IsEligible(assignee, c)
  /\ IsActive(c)
  /\ case' = [case EXCEPT ![c].status = "IN_REVIEW", ![c].assignee = assignee]
  /\ UNCHANGED <<reports, moderates, removal, filing>>

Finalize(m, c, status) ==
  /\ HoldsRights(m, c)
  /\ IsActive(c)
  /\ case' = [case EXCEPT ![c].status = status]
  /\ UNCHANGED <<reports, moderates, removal, filing>>

-----------------------------------------------------------------------------
(* Rights of moderators.                                                     *)

\* releaseModeratorCases: unassigned and open again.
Released(m, scopes) ==
  [c \in Cases |-> IF IsActive(c) /\ case[c].assignee = m /\ Scope(c) \in scopes
                   THEN [case[c] EXCEPT !.status = "OPEN", !.assignee = Nobody] ELSE case[c]]

Grant(m, s) ==
  /\ <<m, s>> \in Candidates
  /\ <<m, s>> \notin moderates
  /\ ~IsOpen(m, Platform)
  /\ moderates' = moderates \cup {<<m, s>>}
  /\ UNCHANGED <<case, reports, removal, filing>>

\* The row is deleted, or the role written, and locked until the transaction ends.
BeginRemoval(m, s) ==
  /\ <<m, s>> \in moderates
  /\ m # Admin
  /\ ~IsOpen(m, s)
  /\ removal' = [removal EXCEPT ![<<m, s>>].at = "begun"]
  /\ UNCHANGED <<case, reports, moderates, filing>>

\* (Mutant: a moderator who loses the role hands back no case of a game.)
KeepsGames(m, s) == IF s = Platform THEN Games ELSE {g \in {s} : <<m, Platform>> \in moderates}

\* The scopes whose cases they may go on with, as it is read here: with the role every game, without it the
\* games they still moderate.
Keeps(m, s) ==
  IF s = Platform THEN {g \in Games : <<m, g>> \in moderates}
  ELSE {g \in {s} : <<m, Platform>> \in moderates}

ReadOtherRights(m, s) ==
  /\ removal[<<m, s>>].at = "begun"
  /\ removal' = [removal EXCEPT ![<<m, s>>] = [at |-> "read", keeps |-> Keeps(m, s)]]
  /\ UNCHANGED <<case, reports, moderates, filing>>

CommitRemoval(m, s) ==
  /\ removal[<<m, s>>].at = "read"
  /\ moderates' = moderates \ {<<m, s>>}
  /\ case' = Released(m, (IF s = Platform THEN Scopes ELSE {s}) \ removal[<<m, s>>].keeps)
  /\ removal' = [removal EXCEPT ![<<m, s>>] = NoRemoval]
  /\ UNCHANGED <<reports, filing>>

\* A sanction of a moderator by an administrator: their cases in its scope, platform sanctions in every scope.
Sanction(m, s) ==
  /\ m # Admin
  /\ case' = Released(m, IF s = Platform THEN Scopes ELSE {s})
  /\ UNCHANGED <<reports, moderates, removal, filing>>

-----------------------------------------------------------------------------
Init ==
  /\ case = [c \in Cases |-> NoRow]
  /\ reports = [c \in Cases |-> {}]
  /\ moderates = Candidates \cup {<<Admin, Platform>>}
  /\ removal = [x \in Moderators \X Scopes |-> NoRemoval]
  /\ filing = [r \in Reporters |-> NotFiling]

Next ==
  \/ \E r \in Reporters, t \in Targets : FindCase(r, t)
  \/ \E r \in Reporters : Join(r) \/ TryAgain(r) \/ GiveUp(r)
  \/ \E r \in Reporters, c \in Cases : OpenCase(r, c)
  \/ \E m \in Moderators, c \in Cases : Claim(m, c)
  \/ \E m, assignee \in Moderators, c \in Cases : Assign(m, c, assignee)
  \/ \E m \in Moderators, c \in Cases, status \in {"RESOLVED", "DISMISSED"} : Finalize(m, c, status)
  \/ \E m \in Moderators, s \in Scopes :
       Grant(m, s) \/ BeginRemoval(m, s) \/ ReadOtherRights(m, s) \/ CommitRemoval(m, s) \/ Sanction(m, s)

Spec == Init /\ [][Next]_vars

-----------------------------------------------------------------------------
(* Properties.                                                               *)

CaseRow == [status : Statuses, target : Targets, assignee : Moderators \cup {Nobody}, count : Nat]
Filing == [at : {"none", "file"}, target : Targets, found : Cases \cup {NoCase}, tries : 0 .. MaxTries]

\* Every variable holds rows of its table.
TypeOK ==
  /\ case \in [Cases -> CaseRow]
  /\ reports \in [Cases -> SUBSET Reporters]
  /\ moderates \subseteq Moderators \X Scopes
  /\ removal \in [Moderators \X Scopes -> [at : {"none", "begun", "read"}, keeps : SUBSET Games]]
  /\ filing \in [Reporters -> Filing]

\* However many report a content at once, and whoever closes its case meanwhile, it has at most one active case.
OneActiveCasePerTarget ==
  \A c, d \in Cases : IsActive(c) /\ IsActive(d) /\ case[c].target = case[d].target => c = d

\* A complaint never ends in a case that was closed, where nobody would see it; and each case counts each of its
\* reporters once.
ReportsJoinActiveCases ==
  [][\A c \in Cases :
       /\ reports'[c] # reports[c] => IsActive(c)' /\ (IsActive(c) \/ case[c].status = "ABSENT")
       /\ case'[c].count = Cardinality(reports'[c])]_vars

\* An active case is assigned to nobody, or to somebody who may moderate it.
AssigneesCanModerate == \A c \in Cases : IsActive(c) => case[c].assignee = Nobody \/ MayModerate(case[c].assignee, c)
=============================================================================
