---------------------------- MODULE ModerationProofs ----------------------------
(***************************************************************************)
(* Theorems of moderation: the cases reports are gathered in                *)
(* (ModerationCases), for any reporters, contents, moderators and scopes,   *)
(* and the analysis of what is reported (ModerationAnalysis), for any       *)
(* texts, workers and policy runners.  The two share no state: each has its *)
(* own specification.  The steps that work a case (Working) neither open    *)
(* one nor touch the reports; what they share is argued once.               *)
(***************************************************************************)
EXTENDS ModerationCases, ModerationAnalysis, FiniteSetTheorems, SequenceTheorems, TLAPS

\* A case counts its reporters, and what is not a case yet has none.
CountsReports ==
  \A c \in Cases : /\ case[c].count = Cardinality(reports[c])
                   /\ case[c].status = "ABSENT" => reports[c] = {}

IInv == TypeOK /\ OneActiveCasePerTarget /\ CountsReports

\* The step worked case c: it is about the same content, and active only if it was.
IsWorked(c) ==
  /\ case'[c] \in CaseRow
  /\ case'[c].target = case[c].target /\ case'[c].count = case[c].count
  /\ case'[c].status \in Active => case[c].status \in Active
  /\ case'[c].status = "ABSENT" <=> case[c].status = "ABSENT"

Working ==
  \/ \E m \in Moderators, c \in Cases : Claim(m, c)
  \/ \E m, assignee \in Moderators, c \in Cases : Assign(m, c, assignee)
  \/ \E m \in Moderators, c \in Cases, status \in {"RESOLVED", "DISMISSED"} : Finalize(m, c, status)
  \/ \E m \in Moderators, s \in Scopes : CommitRemoval(m, s) \/ Sanction(m, s)

\* The steps that write neither cases nor reports.
Aside ==
  \/ \E r \in Reporters, t \in Targets : FindCase(r, t)
  \/ \E r \in Reporters : TryAgain(r) \/ GiveUp(r)
  \/ \E m \in Moderators, s \in Scopes : Grant(m, s) \/ BeginRemoval(m, s) \/ ReadOtherRights(m, s)
  \/ UNCHANGED vars

LEMMA StepKinds ==
  [Next]_vars => \/ Working \/ Aside
                 \/ \E r \in Reporters : Join(r)
                 \/ \E r \in Reporters, c \in Cases : OpenCase(r, c)
BY DEF Next, Working, Aside

-----------------------------------------------------------------------------
(* What each kind of step does to cases and reports.                         *)

LEMMA ReleasedRows ==
  ASSUME TypeOK, NEW m, NEW scopes
  PROVE  /\ Released(m, scopes) \in [Cases -> CaseRow]
         /\ \A c \in Cases :
              /\ Released(m, scopes)[c].target = case[c].target /\ Released(m, scopes)[c].count = case[c].count
              /\ Released(m, scopes)[c].status \in Active <=> case[c].status \in Active
              /\ Released(m, scopes)[c].status = "ABSENT" <=> case[c].status = "ABSENT"
<1>1. ASSUME NEW c \in Cases
      PROVE  /\ Released(m, scopes)[c] \in CaseRow
             /\ Released(m, scopes)[c].target = case[c].target /\ Released(m, scopes)[c].count = case[c].count
             /\ Released(m, scopes)[c].status \in Active <=> case[c].status \in Active
             /\ Released(m, scopes)[c].status = "ABSENT" <=> case[c].status = "ABSENT"
  <2>1. case[c] \in CaseRow
    BY DEF TypeOK
  <2>2. Released(m, scopes)[c] = IF IsActive(c) /\ case[c].assignee = m /\ Scope(c) \in scopes
                                 THEN [case[c] EXCEPT !.status = "OPEN", !.assignee = Nobody] ELSE case[c]
    BY DEF Released
  <2>. QED  BY <2>1, <2>2 DEF CaseRow, IsActive, Active, Statuses
<1>. QED  BY <1>1 DEF Released

LEMMA WorkingIsWork ==
  ASSUME TypeOK, Working
  PROVE  /\ case' \in [Cases -> CaseRow]
         /\ \A c \in Cases : IsWorked(c)
         /\ UNCHANGED <<reports, filing>>
<1>1. case \in [Cases -> CaseRow]
  BY DEF TypeOK
<1>2. ASSUME NEW m \in Moderators, NEW d \in Cases, Claim(m, d)
      PROVE  case' \in [Cases -> CaseRow] /\ \A c \in Cases : IsWorked(c)
  BY <1>1, <1>2 DEF Claim, IsWorked, CaseRow, Statuses, Active
<1>3. ASSUME NEW m \in Moderators, NEW d \in Cases, NEW assignee \in Moderators, Assign(m, d, assignee)
      PROVE  case' \in [Cases -> CaseRow] /\ \A c \in Cases : IsWorked(c)
  BY <1>1, <1>3 DEF Assign, IsActive, IsWorked, CaseRow, Statuses, Active
<1>4. ASSUME NEW m \in Moderators, NEW d \in Cases, NEW status \in {"RESOLVED", "DISMISSED"}, Finalize(m, d, status)
      PROVE  case' \in [Cases -> CaseRow] /\ \A c \in Cases : IsWorked(c)
  BY <1>1, <1>4 DEF Finalize, IsActive, IsWorked, CaseRow, Statuses, Active
<1>5. ASSUME NEW m, NEW scopes, case' = Released(m, scopes)
      PROVE  case' \in [Cases -> CaseRow] /\ \A c \in Cases : IsWorked(c)
  BY <1>5, ReleasedRows DEF IsWorked
<1>6. ASSUME NEW m \in Moderators, NEW s \in Scopes, CommitRemoval(m, s) \/ Sanction(m, s)
      PROVE  case' \in [Cases -> CaseRow] /\ \A c \in Cases : IsWorked(c)
  BY <1>5, <1>6 DEF CommitRemoval, Sanction
<1>7. UNCHANGED <<reports, filing>>
  BY DEF Working, Claim, Assign, Finalize, CommitRemoval, Sanction
<1>. QED  BY <1>2, <1>3, <1>4, <1>6, <1>7 DEF Working

LEMMA AsideIsAside == Aside => UNCHANGED <<case, reports>>
BY DEF Aside, FindCase, TryAgain, GiveUp, Grant, BeginRemoval, ReadOtherRights, vars

\* A report joins a case that is active: the count follows the reporters, one by one.
LEMMA Joined ==
  ASSUME TypeOK, CountsReports, NEW r \in Reporters, Join(r)
  PROVE  \E c \in Cases :
           /\ IsActive(c)
           /\ case' = [case EXCEPT ![c].count = case[c].count + 1]
           /\ case' \in [Cases -> CaseRow]
           /\ reports' = [reports EXCEPT ![c] = reports[c] \cup {r}]
           /\ case'[c].count = Cardinality(reports'[c])
<1>. DEFINE c == filing[r].found
<1>1. /\ c \in Cases /\ IsActive(c) /\ r \notin reports[c]
      /\ case' = [case EXCEPT ![c].count = case[c].count + 1]
      /\ reports' = [reports EXCEPT ![c] = reports[c] \cup {r}]
  BY DEF Join, Files, StillActive, TypeOK, Filing
<1>. HIDE DEF c
<1>2. case[c] \in CaseRow /\ case \in [Cases -> CaseRow] /\ reports \in [Cases -> SUBSET Reporters]
  BY <1>1 DEF TypeOK
<1>3. IsFiniteSet(reports[c])
  BY <1>1, <1>2, ReportersAssumption, FS_Subset
<1>4. Cardinality(reports[c] \cup {r}) = Cardinality(reports[c]) + 1
  BY <1>1, <1>3, FS_AddElement
<1>5. case'[c].count = case[c].count + 1 /\ reports'[c] = reports[c] \cup {r} /\ case' \in [Cases -> CaseRow]
  BY <1>1, <1>2 DEF CaseRow
<1>. QED  BY <1>1, <1>4, <1>5 DEF CountsReports

\* A first report opens a case of a content that has no active one.
LEMMA Opened ==
  ASSUME TypeOK, CountsReports, NEW r \in Reporters, NEW c \in Cases, OpenCase(r, c)
  PROVE  /\ case' \in [Cases -> CaseRow]
         /\ case[c].status = "ABSENT" /\ case'[c].status = "OPEN" /\ case'[c].target = filing[r].target
         /\ case'[c].assignee = Nobody
         /\ case'[c].count = Cardinality(reports'[c])
         /\ \A d \in Cases \ {c} : case'[d] = case[d] /\ reports'[d] = reports[d]
         /\ ActiveCases(filing[r].target) = {}
<1>1. case \in [Cases -> CaseRow] /\ reports \in [Cases -> SUBSET Reporters] /\ filing[r].target \in Targets
  BY DEF TypeOK, Filing
<1>. DEFINE new == [NoRow EXCEPT !.status = "OPEN", !.target = filing[r].target, !.count = 1]
<1>2. /\ case' = [case EXCEPT ![c] = new] /\ case[c].status = "ABSENT"
      /\ reports' = [reports EXCEPT ![c] = reports[c] \cup {r}]
      /\ ActiveCases(filing[r].target) = {}
  BY DEF OpenCase, Files, IndexAllows
<1>3. new \in CaseRow /\ new.status = "OPEN" /\ new.target = filing[r].target /\ new.count = 1 /\ new.assignee = Nobody
  BY <1>1 DEF NoRow, CaseRow, Statuses, Active
<1>. HIDE DEF new
<1>4. /\ case'[c] = new /\ case' \in [Cases -> CaseRow] /\ reports'[c] = reports[c] \cup {r}
      /\ \A d \in Cases \ {c} : case'[d] = case[d] /\ reports'[d] = reports[d]
  BY <1>1, <1>2, <1>3
<1>5. Cardinality(reports'[c]) = 1
  <2>1. reports'[c] = {r}
    BY <1>2, <1>4 DEF CountsReports
  <2>. QED  BY <2>1, FS_Singleton
<1>. QED  BY <1>2, <1>3, <1>4, <1>5

-----------------------------------------------------------------------------
(* Types.                                                                    *)

LEMMA TypeInit == Init => TypeOK
<1>. SUFFICES ASSUME Init PROVE TypeOK
  OBVIOUS
<1>1. NoRow \in CaseRow
  BY ReportersAssumption DEF NoRow, CaseRow, Statuses, Active
<1>2. NotFiling \in Filing
  BY ReportersAssumption DEF NotFiling, Filing
<1>3. moderates \subseteq Moderators \X Scopes
  BY CandidatesAssumption DEF Init, Scopes
<1>. QED  BY <1>1, <1>2, <1>3 DEF Init, TypeOK, NoRemoval

RemovalRow == [at : {"none", "begun", "read"}, keeps : SUBSET Games]

LEMMA FilingStep == TypeOK /\ [Next]_vars => filing' \in [Reporters -> Filing]
<1>. SUFFICES ASSUME TypeOK, [Next]_vars PROVE filing' \in [Reporters -> Filing]
  OBVIOUS
<1>1. filing \in [Reporters -> Filing] /\ NotFiling \in Filing
  BY ReportersAssumption DEF TypeOK, NotFiling, Filing
<1>. DEFINE found(t) == IF ActiveCases(t) = {} THEN NoCase ELSE CHOOSE c \in ActiveCases(t) : TRUE
<1>2. ASSUME NEW t PROVE found(t) \in Cases \cup {NoCase}
  BY DEF ActiveCases
<1>3. ASSUME NEW r \in Reporters, NEW t \in Targets, FindCase(r, t) PROVE filing' \in [Reporters -> Filing]
  <2>1. filing' = [filing EXCEPT ![r] = [at |-> "file", target |-> t, tries |-> 1, found |-> found(t)]]
    BY <1>3 DEF FindCase
  <2>2. [at |-> "file", target |-> t, tries |-> 1, found |-> found(t)] \in Filing
    BY <1>2, ReportersAssumption DEF Filing
  <2>. QED  BY <1>1, <2>1, <2>2
<1>4. ASSUME NEW r \in Reporters, TryAgain(r) PROVE filing' \in [Reporters -> Filing]
  <2>. DEFINE f == filing[r]
              again == [f EXCEPT !.tries = f.tries + 1, !.found = found(f.target)]
  <2>1. filing' = [filing EXCEPT ![r] = IF f.tries >= MaxTries THEN NotFiling ELSE again]
    BY <1>4 DEF TryAgain
  <2>2. f \in Filing
    BY <1>1
  <2>3. f.tries < MaxTries => again \in Filing
    <3>1. found(f.target) \in Cases \cup {NoCase}
      BY <1>2
    <3>. HIDE DEF f, found
    <3>2. f.tries < MaxTries => f.tries + 1 \in 0 .. MaxTries
      BY <2>2, ReportersAssumption DEF Filing
    <3>. QED  BY <2>2, <3>1, <3>2 DEF Filing
  <2>4. f.tries \in Nat /\ MaxTries \in Nat
    BY <2>2, ReportersAssumption DEF Filing
  <2>. HIDE DEF f, again
  <2>5. (IF f.tries >= MaxTries THEN NotFiling ELSE again) \in Filing
    BY <1>1, <2>3, <2>4
  <2>. QED  BY <1>1, <2>1, <2>5
<1>5. ASSUME NEW r \in Reporters, GiveUp(r) \/ Join(r) PROVE filing' \in [Reporters -> Filing]
  BY <1>1, <1>5 DEF GiveUp, Join, Files
<1>6. ASSUME NEW r \in Reporters, NEW c \in Cases, OpenCase(r, c) PROVE filing' \in [Reporters -> Filing]
  BY <1>1, <1>6 DEF OpenCase, Files
<1>7. CASE UNCHANGED filing
  BY <1>1, <1>7
<1>. QED
  BY <1>3, <1>4, <1>5, <1>6, <1>7
     DEF Next, Claim, Assign, Finalize, Grant, BeginRemoval, ReadOtherRights, CommitRemoval, Sanction, vars

LEMMA RightsStep ==
  TypeOK /\ [Next]_vars => moderates' \subseteq Moderators \X Scopes
     /\ removal' \in [Moderators \X Scopes -> RemovalRow]
<1>. SUFFICES ASSUME TypeOK, [Next]_vars
              PROVE  moderates' \subseteq Moderators \X Scopes /\ removal' \in [Moderators \X Scopes -> RemovalRow]
  OBVIOUS
<1>1. moderates \subseteq Moderators \X Scopes /\ removal \in [Moderators \X Scopes -> RemovalRow]
  BY DEF TypeOK, RemovalRow
<1>2. ASSUME NEW m \in Moderators, NEW s \in Scopes, Grant(m, s) \/ CommitRemoval(m, s)
      PROVE  moderates' \subseteq Moderators \X Scopes
  BY <1>1, <1>2 DEF Grant, CommitRemoval
<1>3. ASSUME NEW m \in Moderators, NEW s \in Scopes, BeginRemoval(m, s)
      PROVE  removal' \in [Moderators \X Scopes -> RemovalRow]
  BY <1>1, <1>3 DEF BeginRemoval, RemovalRow
<1>4. ASSUME NEW m \in Moderators, NEW s \in Scopes, ReadOtherRights(m, s)
      PROVE  removal' \in [Moderators \X Scopes -> RemovalRow]
  <2>1. Keeps(m, s) \subseteq Games
    BY DEF Keeps, Scopes
  <2>2. [at |-> "read", keeps |-> Keeps(m, s)] \in RemovalRow
    BY <2>1 DEF RemovalRow
  <2>. QED  BY <1>1, <1>4, <2>2 DEF ReadOtherRights
<1>5. ASSUME NEW m \in Moderators, NEW s \in Scopes, CommitRemoval(m, s)
      PROVE  removal' \in [Moderators \X Scopes -> RemovalRow]
  <2>1. NoRemoval \in RemovalRow
    BY DEF NoRemoval, RemovalRow
  <2>. QED  BY <1>1, <1>5, <2>1 DEF CommitRemoval
<1>6. CASE UNCHANGED <<moderates, removal>>
  BY <1>1, <1>6
<1>. QED
  BY <1>1, <1>2, <1>3, <1>4, <1>5, <1>6
     DEF Next, FindCase, Join, TryAgain, GiveUp, OpenCase, Files, Claim, Assign, Finalize, Grant, BeginRemoval,
         ReadOtherRights, CommitRemoval, Sanction, vars

LEMMA RowsStep ==
  TypeOK /\ CountsReports /\ [Next]_vars => case' \in [Cases -> CaseRow] /\ reports' \in [Cases -> SUBSET Reporters]
<1>. SUFFICES ASSUME TypeOK, CountsReports, [Next]_vars
              PROVE  case' \in [Cases -> CaseRow] /\ reports' \in [Cases -> SUBSET Reporters]
  OBVIOUS
<1>1. case \in [Cases -> CaseRow] /\ reports \in [Cases -> SUBSET Reporters]
  BY DEF TypeOK
<1>2. CASE Working
  BY <1>1, <1>2, WorkingIsWork
<1>3. CASE Aside
  BY <1>1, <1>3, AsideIsAside
<1>4. ASSUME NEW r \in Reporters, Join(r) PROVE case' \in [Cases -> CaseRow] /\ reports' \in [Cases -> SUBSET Reporters]
  BY <1>1, <1>4, Joined
<1>5. ASSUME NEW r \in Reporters, NEW c \in Cases, OpenCase(r, c)
      PROVE  case' \in [Cases -> CaseRow] /\ reports' \in [Cases -> SUBSET Reporters]
  <2>1. reports' = [reports EXCEPT ![c] = reports[c] \cup {r}]
    BY <1>5 DEF OpenCase, Files
  <2>. QED  BY <1>1, <1>5, <2>1, Opened
<1>. QED  BY <1>2, <1>3, <1>4, <1>5, StepKinds

LEMMA TypeStep == TypeOK /\ CountsReports /\ [Next]_vars => TypeOK'
BY RowsStep, RightsStep, FilingStep DEF TypeOK, RemovalRow

-----------------------------------------------------------------------------
(* The invariant.                                                            *)

LEMMA OneActiveStep == TypeOK /\ OneActiveCasePerTarget /\ CountsReports /\ [Next]_vars => OneActiveCasePerTarget'
<1>. SUFFICES ASSUME TypeOK, OneActiveCasePerTarget, CountsReports, [Next]_vars,
                     NEW c \in Cases, NEW d \in Cases, IsActive(c)', IsActive(d)', case'[c].target = case'[d].target
              PROVE  c = d
  BY DEF OneActiveCasePerTarget
<1>1. CASE Working
  BY <1>1, WorkingIsWork DEF IsWorked, IsActive, OneActiveCasePerTarget
<1>2. CASE Aside
  BY <1>2, AsideIsAside DEF IsActive, OneActiveCasePerTarget
<1>3. ASSUME NEW r \in Reporters, Join(r) PROVE c = d
  <2>1. PICK e \in Cases : case' = [case EXCEPT ![e].count = case[e].count + 1]
    BY <1>3, Joined
  <2>2. \A f \in Cases : case'[f].status = case[f].status /\ case'[f].target = case[f].target
    BY <2>1 DEF TypeOK, CaseRow
  <2>. QED  BY <2>2 DEF IsActive, OneActiveCasePerTarget
<1>4. ASSUME NEW r \in Reporters, NEW e \in Cases, OpenCase(r, e) PROVE c = d
  <2>1. \A f \in Cases \ {e} : case'[f] = case[f] /\ (IsActive(f) => case[f].target # case'[e].target)
    BY <1>4, Opened DEF ActiveCases
  <2>. QED  BY <2>1 DEF IsActive, OneActiveCasePerTarget
<1>. QED  BY <1>1, <1>2, <1>3, <1>4, StepKinds

LEMMA CountsStep == TypeOK /\ CountsReports /\ [Next]_vars => CountsReports'
<1>. SUFFICES ASSUME TypeOK, CountsReports, [Next]_vars, NEW c \in Cases
              PROVE  case'[c].count = Cardinality(reports'[c]) /\ (case'[c].status = "ABSENT" => reports'[c] = {})
  BY DEF CountsReports
<1>1. CASE Working
  BY <1>1, WorkingIsWork DEF IsWorked, CountsReports
<1>2. CASE Aside
  BY <1>2, AsideIsAside DEF CountsReports
<1>3. ASSUME NEW r \in Reporters, Join(r)
      PROVE  case'[c].count = Cardinality(reports'[c]) /\ (case'[c].status = "ABSENT" => reports'[c] = {})
  <2>1. PICK e \in Cases : /\ IsActive(e)
                           /\ case' = [case EXCEPT ![e].count = case[e].count + 1]
                           /\ reports' = [reports EXCEPT ![e] = reports[e] \cup {r}]
                           /\ case'[e].count = Cardinality(reports'[e])
    BY <1>3, Joined
  <2>2. case'[e].status # "ABSENT" /\ (c # e => case'[c] = case[c] /\ reports'[c] = reports[c])
    BY <2>1 DEF TypeOK, CaseRow, IsActive, Active
  <2>. QED  BY <2>1, <2>2 DEF CountsReports
<1>4. ASSUME NEW r \in Reporters, NEW e \in Cases, OpenCase(r, e)
      PROVE  case'[c].count = Cardinality(reports'[c]) /\ (case'[c].status = "ABSENT" => reports'[c] = {})
  BY <1>4, Opened DEF CountsReports
<1>. QED  BY <1>1, <1>2, <1>3, <1>4, StepKinds

LEMMA Invariant == Spec => []IInv
<1>1. Init => OneActiveCasePerTarget /\ CountsReports
  BY FS_EmptySet DEF Init, NoRow, OneActiveCasePerTarget, CountsReports, IsActive, Active
<1>2. Init => IInv
  BY <1>1, TypeInit DEF IInv
<1>3. IInv /\ [Next]_vars => IInv'
  BY TypeStep, OneActiveStep, CountsStep DEF IInv
<1>. QED  BY <1>2, <1>3, PTL DEF Spec

-----------------------------------------------------------------------------
(* Theorems about cases.                                                     *)

\* Every row keeps its type.
THEOREM TypeCorrect == Spec => []TypeOK
BY Invariant, PTL DEF IInv

\* However many report a content at once, it has one active case at most: the partial unique index decides
\* (create in reports.repository.ts).
THEOREM OneActive == Spec => []OneActiveCasePerTarget
BY Invariant, PTL DEF IInv

\* A report enters a case only while it is active, and each case counts its reporters (create in
\* reports.repository.ts).
THEOREM ReportsSafe == Spec => ReportsJoinActiveCases
<1>1. IInv /\ [Next]_vars =>
        [\A c \in Cases : /\ reports'[c] # reports[c] => IsActive(c)' /\ (IsActive(c) \/ case[c].status = "ABSENT")
                          /\ case'[c].count = Cardinality(reports'[c])]_vars
  <2>. SUFFICES ASSUME IInv, [Next]_vars, NEW c \in Cases
                PROVE  /\ reports'[c] # reports[c] => IsActive(c)' /\ (IsActive(c) \/ case[c].status = "ABSENT")
                       /\ case'[c].count = Cardinality(reports'[c])
    OBVIOUS
  <2>0. TypeOK /\ CountsReports
    BY DEF IInv
  <2>1. case'[c].count = Cardinality(reports'[c])
    BY <2>0, CountsStep DEF CountsReports
  <2>2. CASE Working \/ Aside
    BY <2>0, <2>1, <2>2, WorkingIsWork, AsideIsAside
  <2>3. ASSUME NEW r \in Reporters, Join(r), reports'[c] # reports[c] PROVE IsActive(c)' /\ IsActive(c)
    <3>1. PICK e \in Cases : /\ IsActive(e)
                             /\ case' = [case EXCEPT ![e].count = case[e].count + 1]
                             /\ reports' = [reports EXCEPT ![e] = reports[e] \cup {r}]
      BY <2>0, <2>3, Joined
    <3>2. c = e /\ case'[c].status = case[c].status
      BY <2>0, <2>3, <3>1 DEF TypeOK, CaseRow
    <3>. QED  BY <3>1, <3>2 DEF IsActive
  <2>4. ASSUME NEW r \in Reporters, NEW e \in Cases, OpenCase(r, e), reports'[c] # reports[c]
        PROVE  IsActive(c)' /\ case[c].status = "ABSENT"
    BY <2>0, <2>4, Opened DEF IsActive, Active
  <2>. QED  BY <2>1, <2>2, <2>3, <2>4, StepKinds
<1>. QED  BY <1>1, Invariant, PTL DEF Spec, ReportsJoinActiveCases

-----------------------------------------------------------------------------
(* Assignees.                                                                *)

\* Of a moderator with the role and a game's rights, the transactions that end each of them read the other.
OneRight(m) == m = Admin \/ \A g \in Games : ~(<<m, Platform>> \in Candidates /\ <<m, g>> \in Candidates)

\* Rights are granted to candidates, and one is there until the transaction that ends it commits; it keeps nothing
\* for who has no other.
RightsInv ==
  /\ moderates \subseteq Candidates \cup {<<Admin, Platform>>}
  /\ \A m \in Moderators, s \in Scopes :
       /\ removal[<<m, s>>].at # "none" => m # Admin /\ <<m, s>> \in moderates
       /\ removal[<<m, s>>].at = "read" /\ OneRight(m) => removal[<<m, s>>].keeps = {}

\* The assignee of c may moderate it, or is one whose rights can end both at once.
Assigned(c) ==
  IsActive(c) => \/ case[c].assignee = Nobody
                 \/ MayModerate(case[c].assignee, c)
                 \/ ~OneRight(case[c].assignee)

AssigneesInv == RightsInv /\ \A c \in Cases : Assigned(c)

\* With one right, nothing else is kept when it is read.
LEMMA KeepsNothing ==
  ASSUME RightsInv, NEW m \in Moderators, NEW s \in Scopes, removal[<<m, s>>].at = "begun", OneRight(m)
  PROVE  Keeps(m, s) = {}
<1>1. /\ <<m, s>> \in moderates /\ m # Admin
      /\ \A x \in Scopes : <<m, x>> \in moderates => <<m, x>> \in Candidates
  BY DEF RightsInv
<1>2. Platform \in Scopes /\ \A g \in Games : g \in Scopes /\ g # Platform
  BY ScopesAssumption DEF Scopes
<1>3. \A g \in Games : ~(<<m, Platform>> \in moderates /\ <<m, g>> \in moderates)
  BY <1>1, <1>2 DEF OneRight
<1>4. CASE s = Platform
  BY <1>1, <1>3, <1>4 DEF Keeps
<1>5. CASE s \in Games
  BY <1>1, <1>2, <1>3, <1>5 DEF Keeps
<1>. QED  BY <1>4, <1>5 DEF Scopes

LEMMA RightsInvStep == TypeOK /\ RightsInv /\ [Next]_vars => RightsInv'
<1>. SUFFICES ASSUME TypeOK, RightsInv, [Next]_vars PROVE RightsInv'
  OBVIOUS
<1>1. removal \in [Moderators \X Scopes -> RemovalRow]
  BY DEF TypeOK, RemovalRow
<1>2. CASE UNCHANGED <<moderates, removal>>
  BY <1>2 DEF RightsInv
<1>3. ASSUME NEW m \in Moderators, NEW s \in Scopes, Grant(m, s) PROVE RightsInv'
  BY <1>3 DEF Grant, RightsInv
<1>4. ASSUME NEW m \in Moderators, NEW s \in Scopes, BeginRemoval(m, s) PROVE RightsInv'
  <2>1. \A n \in Moderators, x \in Scopes :
          removal'[<<n, x>>] = IF n = m /\ x = s THEN [removal[<<m, s>>] EXCEPT !.at = "begun"] ELSE removal[<<n, x>>]
    BY <1>1, <1>4 DEF BeginRemoval
  <2>2. removal'[<<m, s>>].at = "begun"
    BY <1>1, <2>1 DEF RemovalRow
  <2>. QED  BY <1>4, <2>1, <2>2 DEF BeginRemoval, RightsInv
<1>5. ASSUME NEW m \in Moderators, NEW s \in Scopes, ReadOtherRights(m, s) PROVE RightsInv'
  <2>1. \A n \in Moderators, x \in Scopes :
          removal'[<<n, x>>] = IF n = m /\ x = s THEN [at |-> "read", keeps |-> Keeps(m, s)] ELSE removal[<<n, x>>]
    BY <1>1, <1>5 DEF ReadOtherRights
  <2>2. OneRight(m) => Keeps(m, s) = {}
    BY <1>5, KeepsNothing DEF ReadOtherRights
  <2>. QED  BY <1>5, <2>1, <2>2 DEF ReadOtherRights, RightsInv
<1>6. ASSUME NEW m \in Moderators, NEW s \in Scopes, CommitRemoval(m, s) PROVE RightsInv'
  <2>1. \A n \in Moderators, x \in Scopes :
          removal'[<<n, x>>] = IF n = m /\ x = s THEN NoRemoval ELSE removal[<<n, x>>]
    BY <1>1, <1>6 DEF CommitRemoval
  <2>. QED  BY <1>6, <2>1 DEF CommitRemoval, RightsInv, NoRemoval
<1>. QED
  BY <1>2, <1>3, <1>4, <1>5, <1>6
     DEF Next, FindCase, Join, TryAgain, GiveUp, OpenCase, Claim, Assign, Finalize, Sanction, vars

\* What is released, or handed back by a right that ends, stays with nobody.
LEMMA ReleasedAssigned ==
  ASSUME TypeOK, NEW m \in Moderators, NEW scopes, case' = Released(m, scopes), NEW c \in Cases, Assigned(c),
         \A n \in Moderators : n # m \/ Scope(c) \notin scopes => (MayModerate(n, c) => MayModerate(n, c)')
  PROVE  Assigned(c)'
<1>1. case[c] \in CaseRow
  BY DEF TypeOK
<1>2. case'[c] = IF IsActive(c) /\ case[c].assignee = m /\ Scope(c) \in scopes
                 THEN [case[c] EXCEPT !.status = "OPEN", !.assignee = Nobody] ELSE case[c]
  BY DEF Released
<1>3. CASE IsActive(c) /\ case[c].assignee = m /\ Scope(c) \in scopes
  BY <1>1, <1>2, <1>3 DEF Assigned, CaseRow
<1>4. CASE ~(IsActive(c) /\ case[c].assignee = m /\ Scope(c) \in scopes)
  <2>1. case'[c] = case[c]
    BY <1>2, <1>4
  <2>2. SUFFICES ASSUME IsActive(c), case[c].assignee # Nobody, OneRight(case[c].assignee)
                 PROVE  MayModerate(case[c].assignee, c)'
    BY <2>1 DEF Assigned, IsActive, OneRight
  <2>3. MayModerate(case[c].assignee, c) /\ case[c].assignee \in Moderators
    BY <1>1, <2>2 DEF Assigned, CaseRow
  <2>4. ASSUME NEW n \in Moderators, case[c].assignee = n PROVE MayModerate(case[c].assignee, c)'
    BY <1>4, <2>1, <2>2, <2>3, <2>4 DEF MayModerate
  <2>. QED  BY <2>3, <2>4
<1>. QED  BY <1>3, <1>4

LEMMA AssignedStep ==
  ASSUME TypeOK, CountsReports, AssigneesInv, [Next]_vars, NEW c \in Cases
  PROVE  Assigned(c)'
<1>1. Assigned(c) /\ RightsInv /\ case[c] \in CaseRow /\ case \in [Cases -> CaseRow]
  BY DEF AssigneesInv, TypeOK
<1>2. ASSUME case'[c] = case[c], \A n \in Moderators : MayModerate(n, c) => MayModerate(n, c)'
      PROVE  Assigned(c)'
  BY <1>1, <1>2 DEF Assigned, IsActive, CaseRow, OneRight
<1>3. ASSUME UNCHANGED <<case, moderates>> PROVE Assigned(c)'
  BY <1>1, <1>3 DEF Assigned, IsActive, MayModerate, Scope
<1>4. ASSUME NEW r \in Reporters, Join(r) PROVE Assigned(c)'
  <2>1. PICK d \in Cases : case' = [case EXCEPT ![d].count = case[d].count + 1]
    BY <1>4, Joined DEF AssigneesInv
  <2>2. case'[c].status = case[c].status /\ case'[c].target = case[c].target /\ case'[c].assignee = case[c].assignee
    BY <1>1, <2>1 DEF CaseRow
  <2>3. moderates' = moderates
    BY <1>4 DEF Join
  <2>. QED  BY <1>1, <2>2, <2>3 DEF Assigned, IsActive, MayModerate, Scope
<1>5. ASSUME NEW r \in Reporters, NEW d \in Cases, OpenCase(r, d) PROVE Assigned(c)'
  <2>1. CASE c = d
    BY <1>5, <2>1, Opened DEF Assigned
  <2>2. CASE c # d
    <3>1. case'[c] = case[c] /\ moderates' = moderates
      BY <1>5, <2>2, Opened DEF OpenCase
    <3>. QED  BY <1>1, <3>1 DEF Assigned, IsActive, MayModerate, Scope
  <2>. QED  BY <2>1, <2>2
<1>6. ASSUME NEW m \in Moderators, NEW d \in Cases, MayModerate(m, d), UNCHANGED moderates,
             case' = [case EXCEPT ![d].status = "IN_REVIEW", ![d].assignee = m]
      PROVE  Assigned(c)'
  <2>1. case'[c].target = case[c].target /\ (c # d => case'[c] = case[c]) /\ (c = d => case'[c].assignee = m)
    BY <1>1, <1>6 DEF CaseRow
  <2>. QED  BY <1>1, <1>6, <2>1 DEF Assigned, IsActive, MayModerate, Scope
<1>7. ASSUME NEW m \in Moderators, NEW d \in Cases, Claim(m, d) PROVE Assigned(c)'
  <2>1. MayModerate(m, d)
    BY <1>7 DEF Claim, HoldsRights, MayModerate
  <2>. QED  BY <1>6, <1>7, <2>1 DEF Claim
<1>8. ASSUME NEW m \in Moderators, NEW d \in Cases, NEW assignee \in Moderators, Assign(m, d, assignee)
      PROVE  Assigned(c)'
  BY <1>6, <1>8 DEF Assign, IsEligible
<1>9. ASSUME NEW m \in Moderators, NEW d \in Cases, NEW status \in {"RESOLVED", "DISMISSED"}, Finalize(m, d, status)
      PROVE  Assigned(c)'
  <2>1. /\ case' = [case EXCEPT ![d].status = status] /\ moderates' = moderates
        /\ status \notin Active
    BY <1>9 DEF Finalize, Active
  <2>2. (c # d => case'[c] = case[c]) /\ (c = d => case'[c].status \notin Active)
    BY <1>1, <2>1 DEF CaseRow
  <2>. QED  BY <1>1, <2>1, <2>2 DEF Assigned, IsActive, MayModerate, Scope
<1>10. ASSUME NEW m \in Moderators, NEW s \in Scopes, Grant(m, s) PROVE Assigned(c)'
  <2>1. case' = case /\ moderates \subseteq moderates'
    BY <1>10 DEF Grant
  <2>. QED  BY <1>2, <2>1 DEF MayModerate, Scope
<1>11. ASSUME NEW m \in Moderators, NEW s \in Scopes, CommitRemoval(m, s) PROVE Assigned(c)'
  <2>. DEFINE scopes == (IF s = Platform THEN Scopes ELSE {s}) \ removal[<<m, s>>].keeps
  <2>1. /\ removal[<<m, s>>].at = "read" /\ moderates' = moderates \ {<<m, s>>}
        /\ case' = Released(m, scopes)
    BY <1>11 DEF CommitRemoval
  <2>2. Scope(c) \in Scopes /\ Scope(c)' = Scope(c)
    BY <1>1, <2>1, ReleasedRows, ScopesAssumption DEF Scope, CaseRow, AssigneesInv
  <2>3. ASSUME NEW n \in Moderators, n # m PROVE MayModerate(n, c) => MayModerate(n, c)'
    BY <2>1, <2>2, <2>3 DEF MayModerate
  <2>4. CASE OneRight(m)
    <3>1. removal[<<m, s>>].keeps = {}
      BY <1>1, <2>1, <2>4 DEF RightsInv
    <3>2. Scope(c) \notin scopes => s # Platform /\ Scope(c) # s
      BY <2>2, <3>1
    <3>3. ASSUME Scope(c) \notin scopes PROVE MayModerate(m, c) => MayModerate(m, c)'
      BY <2>1, <2>2, <3>2, <3>3 DEF MayModerate
    <3>. HIDE DEF scopes
    <3>. QED  BY <1>1, <2>1, <2>3, <3>3, ReleasedAssigned
  <2>5. CASE ~OneRight(m)
    <3>. HIDE DEF scopes
    <3>1. CASE case'[c].assignee = m
      BY <2>5, <3>1 DEF Assigned, OneRight
    <3>2. CASE case'[c].assignee # m
      <4>1. case'[c] = IF IsActive(c) /\ case[c].assignee = m /\ Scope(c) \in scopes
                       THEN [case[c] EXCEPT !.status = "OPEN", !.assignee = Nobody] ELSE case[c]
        BY <2>1 DEF Released
      <4>2. case'[c].assignee = Nobody \/ (case'[c] = case[c] /\ case[c].assignee # m)
        BY <1>1, <3>2, <4>1 DEF CaseRow
      <4>3. case[c].assignee \in Moderators \cup {Nobody}
        BY <1>1 DEF CaseRow
      <4>4. ASSUME NEW n \in Moderators, n # m, case[c].assignee = n, case'[c] = case[c] PROVE Assigned(c)'
        BY <1>1, <2>3, <4>4 DEF Assigned, IsActive, OneRight, MayModerate
      <4>. QED  BY <4>2, <4>3, <4>4 DEF Assigned
    <3>. QED  BY <3>1, <3>2
  <2>. QED  BY <2>4, <2>5
<1>12. ASSUME NEW m \in Moderators, NEW s \in Scopes, Sanction(m, s) PROVE Assigned(c)'
  <2>. DEFINE scopes == IF s = Platform THEN Scopes ELSE {s}
  <2>1. case' = Released(m, scopes) /\ moderates' = moderates
    BY <1>12 DEF Sanction
  <2>. HIDE DEF scopes
  <2>2. Scope(c)' = Scope(c)
    BY <2>1, ReleasedRows DEF Scope, AssigneesInv
  <2>3. ASSUME NEW n \in Moderators PROVE MayModerate(n, c) => MayModerate(n, c)'
    BY <2>1, <2>2 DEF MayModerate
  <2>. QED  BY <1>1, <2>1, <2>3, ReleasedAssigned
<1>13. CASE Aside
  BY <1>3, <1>10, <1>13 DEF Aside, FindCase, TryAgain, GiveUp, BeginRemoval, ReadOtherRights, vars
<1>14. CASE Working
  BY <1>7, <1>8, <1>9, <1>11, <1>12, <1>14 DEF Working
<1>. QED  BY <1>4, <1>5, <1>13, <1>14, StepKinds

LEMMA AssigneesInvariant == Spec => []AssigneesInv
<1>1. Init => AssigneesInv
  BY ScopesAssumption DEF Init, NoRow, NoRemoval, AssigneesInv, RightsInv, Assigned, IsActive, Active
<1>2. IInv /\ AssigneesInv /\ [Next]_vars => AssigneesInv'
  BY RightsInvStep, AssignedStep DEF IInv, AssigneesInv
<1>. QED  BY <1>1, <1>2, Invariant, PTL DEF Spec

\* Every case is, if it is active.
AssignedByRight == \A c \in Cases : Assigned(c)

\* Whoever an active case is assigned to may moderate it, whatever rights end or are granted meanwhile, unless they
\* are one to whom both the role and a game's rights are ever granted: then two transactions may each keep the cases
\* because of the right the other one is ending (releaseModeratorCases in release-moderator-cases.ts).
THEOREM AssigneesWithOneRight == Spec => []AssignedByRight
<1>1. AssigneesInv => AssignedByRight
  BY DEF AssigneesInv, AssignedByRight
<1>. QED  BY <1>1, AssigneesInvariant, PTL

\* So where nobody has both, a case is never left with somebody who cannot work on it.
THEOREM AssigneesSafe ==
  ASSUME \A m \in Moderators : OneRight(m)
  PROVE  Spec => []AssigneesCanModerate
<1>1. TypeOK /\ AssigneesInv => AssigneesCanModerate
  BY DEF TypeOK, CaseRow, AssigneesInv, Assigned, AssigneesCanModerate
<1>. QED  BY <1>1, AssigneesInvariant, TypeCorrect, PTL

-----------------------------------------------------------------------------
(* The analysis of what the reports of a case are about.  An evaluation gives *)
(* back what its analysis found (EvaluationsFollow) because the result a      *)
(* runner loaded is the one that stays (RunnersKnow).                         *)

Finding == Evidence \cup {NoEvidence}
AnalysisRow == [text : Texts, status : {"PENDING", "SUCCEEDED", "FAILED"}, result : Finding]
EvaluationRow == [status : {"ABSENT", "PENDING", "SUCCEEDED", "UNSUPPORTED", "FAILED"}, attempts : Nat,
                  lease : {"none", "held", "expired"}, output : Finding]
ClaimRow == [job : Nat, attempt : Nat, found : Finding]
WorkerRow == [at : {"idle", "classified", "published"}, job : Nat, outcome : Outcomes \cup {NoEvidence}]

AnalysisTyped ==
  /\ text \in Texts \cup {Gone}
  /\ snapshots \subseteq Texts
  /\ analyses \in Seq(AnalysisRow)
  /\ offset \in Nat
  /\ results \subseteq [job : AllJobs, outcome : Outcomes]
  /\ worker \in [Workers -> WorkerRow]
  /\ evaluation \in [AllJobs -> EvaluationRow]
  /\ runner \in [Runners -> ClaimRow]

\* A text is analysed once, so that there are no more analyses than texts.
TextsDiffer == \A i, j \in Jobs : analyses[i].text = analyses[j].text => i = j

\* What is being classified and what was answered was asked for.
WorkWasAsked ==
  /\ \A w \in Workers : worker[w].at = "classified" => worker[w].job \in Jobs /\ worker[w].outcome \in Outcomes
  /\ \A e \in results : e.job \in Jobs

\* An evaluation begins when its analysis has succeeded, is under a lease only while it waits, and gives back what
\* the analysis found.
EvaluationsFollow ==
  \A j \in AllJobs :
    /\ evaluation[j].status # "ABSENT" => j \in Jobs /\ analyses[j].status = "SUCCEEDED"
    /\ evaluation[j].status # "PENDING" => evaluation[j].lease = "none"
    /\ evaluation[j].status = "SUCCEEDED" => evaluation[j].output = analyses[j].result

\* What a runner loaded is the result that the analysis keeps.
RunnersKnow ==
  \A r \in Runners : IsBusy(r) =>
    /\ runner[r].job \in Jobs
    /\ analyses[runner[r].job].status = "SUCCEEDED"
    /\ runner[r].found = analyses[runner[r].job].result

AnalysisInv == AnalysisTyped /\ TextsDiffer /\ WorkWasAsked /\ EvaluationsFollow /\ RunnersKnow

LEMMA JobsAreAllJobs ==
  ASSUME AnalysisTyped, TextsDiffer
  PROVE  Jobs \subseteq AllJobs /\ Len(analyses) \in Nat /\ Cardinality(Texts) \in Nat
         /\ \A j \in Jobs : analyses[j] \in AnalysisRow
<1>1. analyses \in Seq(AnalysisRow) /\ Len(analyses) \in Nat /\ Cardinality(Texts) \in Nat
  BY TextsAssumption, FS_CardinalityType DEF AnalysisTyped
<1>2. \A j \in Jobs : analyses[j] \in AnalysisRow
  BY <1>1 DEF Jobs
<1>. DEFINE textOf == [j \in Jobs |-> analyses[j].text]
<1>3. textOf \in Injection(Jobs, Texts)
  BY <1>2 DEF Injection, IsInjective, TextsDiffer, AnalysisRow
<1>. HIDE DEF textOf
<1>4. Cardinality(Jobs) <= Cardinality(Texts)
  BY <1>3, TextsAssumption, FS_Injection
<1>5. Cardinality(Jobs) = Len(analyses)
  <2>1. Cardinality(1 .. Len(analyses)) = IF 1 > Len(analyses) THEN 0 ELSE Len(analyses) - 1 + 1
    <3>1. 1 \in Int /\ Len(analyses) \in Int
      BY <1>1
    <3>. QED  BY <3>1, FS_Interval, Zenon
  <2>. QED  BY <1>1, <2>1 DEF Jobs
<1>. QED  BY <1>1, <1>2, <1>4, <1>5 DEF Jobs, AllJobs

LEMMA AnalysisInvInit == AnalysisInit => AnalysisInv
<1>. SUFFICES ASSUME AnalysisInit PROVE AnalysisInv
  OBVIOUS
<1>1. analyses \in Seq(AnalysisRow) /\ Len(analyses) <= 1
  <2>1. CASE Legacy = {}
    BY <2>1 DEF AnalysisInit
  <2>2. CASE Legacy # {}
    <3>1. PICK t \in Legacy, e \in Supported : analyses = <<[text |-> t, status |-> "SUCCEEDED", result |-> e]>>
      BY <2>2 DEF AnalysisInit
    <3>2. [text |-> t, status |-> "SUCCEEDED", result |-> e] \in AnalysisRow
      BY TextsAssumption, EvidenceAssumption DEF AnalysisRow, Finding
    <3>. QED  BY <3>1, <3>2
  <2>. QED  BY <2>1, <2>2
<1>2. Len(analyses) \in Nat
  BY <1>1
<1>3. text \in Texts
  BY TextsAssumption DEF AnalysisInit
<1>4. NoEvaluation \in EvaluationRow /\ NoClaim \in ClaimRow /\ Idle \in WorkerRow
  BY DEF NoEvaluation, EvaluationRow, NoClaim, ClaimRow, Idle, WorkerRow, Finding
<1>5. AnalysisTyped
  BY <1>1, <1>2, <1>3, <1>4 DEF AnalysisInit, AnalysisTyped
<1>6. TextsDiffer
  BY <1>1, <1>2 DEF TextsDiffer, Jobs
<1>7. WorkWasAsked /\ EvaluationsFollow /\ RunnersKnow
  BY DEF AnalysisInit, WorkWasAsked, EvaluationsFollow, RunnersKnow, Idle, NoEvaluation, IsBusy
<1>. QED  BY <1>5, <1>6, <1>7 DEF AnalysisInv

-----------------------------------------------------------------------------
(* The requests of moderators and reporters, and the workers.                *)

\* An analysis that a report asks for is of a text that none is of.
LEMMA FiledStep ==
  ASSUME AnalysisInv, NEW t \in Texts, FileReport(t)
  PROVE  AnalysisInv'
<1>0. /\ analyses \in Seq(AnalysisRow) /\ Len(analyses) \in Nat
      /\ \A j \in Jobs : analyses[j] \in AnalysisRow
  BY JobsAreAllJobs DEF AnalysisInv, AnalysisTyped
<1>. DEFINE new == AnalysisOf(t, "PENDING")
<1>1. /\ UNCHANGED <<text, offset, results, worker, evaluation, runner>> /\ snapshots' \subseteq snapshots
      /\ analyses' = analyses \/ (analyses' = Append(analyses, new) /\ \A j \in Jobs : analyses[j].text # t)
  BY DEF FileReport, content, kafka
<1>2. new \in AnalysisRow /\ new.text = t
  BY DEF AnalysisOf, AnalysisRow, Finding
<1>. HIDE DEF new
<1>3. /\ analyses' \in Seq(AnalysisRow) /\ Jobs \subseteq Jobs'
      /\ \A j \in Jobs : analyses'[j] = analyses[j]
      /\ \A j \in Jobs' \ Jobs : analyses'[j] = new /\ j = Len(analyses) + 1 /\ \A i \in Jobs : analyses[i].text # t
  <2>1. CASE analyses' = analyses
    BY <1>0, <2>1 DEF Jobs
  <2>2. CASE analyses' = Append(analyses, new) /\ \A j \in Jobs : analyses[j].text # t
    BY <1>0, <1>2, <2>2 DEF Jobs
  <2>. QED  BY <1>1, <2>1, <2>2
<1>4. AnalysisTyped'
  BY <1>1, <1>3 DEF AnalysisInv, AnalysisTyped
<1>5. TextsDiffer'
  BY <1>2, <1>3 DEF AnalysisInv, TextsDiffer
<1>6. WorkWasAsked'
  BY <1>1, <1>3 DEF AnalysisInv, WorkWasAsked
<1>7. EvaluationsFollow'
  BY <1>1, <1>3 DEF AnalysisInv, EvaluationsFollow
<1>8. RunnersKnow'
  BY <1>1, <1>3 DEF AnalysisInv, RunnersKnow, IsBusy
<1>. QED  BY <1>4, <1>5, <1>6, <1>7, <1>8 DEF AnalysisInv

LEMMA CaseStep ==
  ASSUME AnalysisInv,
         (\E t \in Texts \cup {Gone} : Edit(t)) \/ Close \/ TakeSnapshot \/ UNCHANGED analysisVars
  PROVE  AnalysisInv'
<1>1. UNCHANGED <<analyses, offset, results, worker, evaluation, runner>>
  BY DEF Edit, Close, TakeSnapshot, analysisVars, kafka
<1>2. text' \in Texts \cup {Gone} /\ snapshots' \subseteq Texts
  BY DEF AnalysisInv, AnalysisTyped, Edit, Close, TakeSnapshot, analysisVars
<1>. QED
  BY <1>1, <1>2 DEF AnalysisInv, AnalysisTyped, TextsDiffer, WorkWasAsked, EvaluationsFollow, RunnersKnow, Jobs,
       IsBusy

LEMMA WorkerStepSafe ==
  ASSUME AnalysisInv, NEW w \in Workers, WorkerStep(w) \/ Rebalance(w) \/ Crash(w)
  PROVE  AnalysisInv'
<1>0. /\ worker \in [Workers -> WorkerRow] /\ results \subseteq [job : AllJobs, outcome : Outcomes] /\ offset \in Nat
      /\ Jobs \subseteq AllJobs /\ Jobs \subseteq Nat
  BY JobsAreAllJobs DEF AnalysisInv, AnalysisTyped, Jobs
<1>1. UNCHANGED <<text, snapshots, analyses, evaluation, runner>>
  BY DEF WorkerStep, Classify, Publish, Commit, Cancel, Rebalance, Crash, content
<1>. DEFINE Kept == /\ worker' \in [Workers -> WorkerRow]
                    /\ \A v \in Workers : worker'[v].at = "classified" =>
                         worker'[v].job \in Jobs /\ worker'[v].outcome \in Outcomes
                    /\ results' \subseteq [job : AllJobs, outcome : Outcomes]
                    /\ \A e \in results' : e.job \in Jobs
                    /\ offset' \in Nat
<1>2. Idle \in WorkerRow /\ Idle.at = "idle"
  BY DEF Idle, WorkerRow
<1>3. Kept
  <2>1. ASSUME NEW o \in Outcomes, Classify(w, o) PROVE Kept
    <3>. DEFINE new == [at |-> "classified", job |-> NextRequest, outcome |-> o]
    <3>1. new \in WorkerRow /\ new.job \in Jobs /\ new.outcome \in Outcomes
      BY <1>0, <2>1 DEF Classify, WorkerRow
    <3>2. worker' = [worker EXCEPT ![w] = new] /\ UNCHANGED <<results, offset>>
      BY <2>1 DEF Classify
    <3>. HIDE DEF new
    <3>. QED  BY <1>0, <3>1, <3>2 DEF AnalysisInv, WorkWasAsked
  <2>2. CASE Publish(w)
    <3>. DEFINE new == [worker[w] EXCEPT !.at = "published", !.outcome = NoEvidence]
                e == [job |-> worker[w].job, outcome |-> worker[w].outcome]
    <3>1. new \in WorkerRow /\ new.at = "published"
      BY <1>0 DEF WorkerRow
    <3>2. worker' = [worker EXCEPT ![w] = new] /\ results' = results \cup {e} /\ UNCHANGED offset
      BY <2>2 DEF Publish
    <3>3. e \in [job : AllJobs, outcome : Outcomes] /\ e.job \in Jobs
      BY <1>0, <2>2 DEF Publish, AnalysisInv, WorkWasAsked
    <3>. HIDE DEF new, e
    <3>. QED  BY <1>0, <3>1, <3>2, <3>3 DEF AnalysisInv, WorkWasAsked
  <2>3. CASE Commit(w) \/ Cancel(w) \/ Crash(w)
    <3>1. worker' = [worker EXCEPT ![w] = Idle] /\ UNCHANGED results /\ offset' \in Nat
      BY <1>0, <2>3 DEF Commit, Cancel, Crash, WorkerRow
    <3>. QED  BY <1>0, <1>2, <3>1 DEF AnalysisInv, WorkWasAsked
  <2>4. CASE Rebalance(w)
    BY <1>0, <2>4 DEF Rebalance, AnalysisInv, WorkWasAsked
  <2>. QED  BY <2>1, <2>2, <2>3, <2>4 DEF WorkerStep
<1>. QED
  BY <1>1, <1>3 DEF AnalysisInv, AnalysisTyped, TextsDiffer, WorkWasAsked, EvaluationsFollow, RunnersKnow, Jobs,
       IsBusy

-----------------------------------------------------------------------------
(* Results, evaluations and runners.                                         *)

\* The first result of an analysis: none began to evaluate it.
LEMMA IngestSafe ==
  ASSUME AnalysisInv, NEW e \in results, Ingest(e)
  PROVE  AnalysisInv'
<1>. DEFINE j == e.job
            row == [analyses[j] EXCEPT !.status = IF e.outcome = Failed THEN "FAILED" ELSE "SUCCEEDED",
                                       !.result = IF e.outcome = Failed THEN NoEvidence ELSE e.outcome]
<1>0. /\ analyses \in Seq(AnalysisRow) /\ Jobs \subseteq AllJobs /\ evaluation \in [AllJobs -> EvaluationRow]
      /\ j \in Jobs /\ e.outcome \in Outcomes /\ analyses[j] \in AnalysisRow /\ analyses[j].status = "PENDING"
  BY JobsAreAllJobs DEF AnalysisInv, AnalysisTyped, WorkWasAsked, Ingest, IsFirstResult
<1>1. row \in AnalysisRow /\ row.text = analyses[j].text /\ (e.outcome # Failed => row.status = "SUCCEEDED")
  BY <1>0 DEF AnalysisRow, Finding, Outcomes
<1>2. analyses' = [analyses EXCEPT ![j] = row]
  BY DEF Ingest
<1>. HIDE DEF row
<1>3. /\ analyses' \in Seq(AnalysisRow) /\ Jobs' = Jobs /\ analyses'[j] = row
      /\ \A i \in Jobs \ {j} : analyses'[i] = analyses[i]
  <2>1. /\ analyses' \in Seq(AnalysisRow) /\ Len(analyses') = Len(analyses)
        /\ \A i \in 1 .. Len(analyses) : analyses'[i] = IF i = j THEN row ELSE analyses[i]
    BY <1>0, <1>1, <1>2, ExceptSeq DEF Jobs
  <2>. QED  BY <1>0, <2>1 DEF Jobs
<1>4. evaluation[j].status = "ABSENT"
  BY <1>0 DEF AnalysisInv, EvaluationsFollow
<1>5. Enqueued \in EvaluationRow /\ Enqueued.status = "PENDING"
  BY DEF Enqueued, NoEvaluation, EvaluationRow, Finding
<1>6. /\ evaluation' = evaluation \/ (evaluation' = [evaluation EXCEPT ![j] = Enqueued] /\ e.outcome # Failed)
      /\ UNCHANGED <<text, snapshots, offset, results, worker, runner>>
  BY DEF Ingest, content, kafka
<1>7. AnalysisTyped'
  BY <1>0, <1>3, <1>5, <1>6 DEF AnalysisInv, AnalysisTyped
<1>8. TextsDiffer'
  BY <1>0, <1>1, <1>3 DEF AnalysisInv, TextsDiffer
<1>9. WorkWasAsked'
  BY <1>3, <1>6 DEF AnalysisInv, WorkWasAsked
<1>10. EvaluationsFollow'
  <2>. SUFFICES ASSUME NEW i \in AllJobs
                PROVE  /\ evaluation'[i].status # "ABSENT" => i \in Jobs' /\ analyses'[i].status = "SUCCEEDED"
                       /\ evaluation'[i].status # "PENDING" => evaluation'[i].lease = "none"
                       /\ evaluation'[i].status = "SUCCEEDED" => evaluation'[i].output = analyses'[i].result
    BY DEF EvaluationsFollow
  <2>1. CASE i = j
    <3>1. evaluation[i].lease = "none"
      BY <1>4, <2>1 DEF AnalysisInv, EvaluationsFollow
    <3>2. CASE evaluation' = evaluation
      BY <1>4, <2>1, <3>1, <3>2
    <3>3. CASE evaluation' = [evaluation EXCEPT ![j] = Enqueued] /\ e.outcome # Failed
      <4>1. evaluation'[i] = Enqueued /\ i \in Jobs' /\ analyses'[i].status = "SUCCEEDED"
        BY <1>0, <1>1, <1>3, <2>1, <3>3
      <4>. QED  BY <1>5, <4>1
    <3>. QED  BY <1>6, <3>2, <3>3, Zenon
  <2>2. CASE i # j
    <3>1. evaluation'[i] = evaluation[i]
      BY <1>0, <1>6, <2>2
    <3>2. i \in Jobs => i \in Jobs' /\ analyses'[i] = analyses[i]
      BY <1>3, <2>2
    <3>. QED  BY <3>1, <3>2 DEF AnalysisInv, EvaluationsFollow
  <2>. QED  BY <2>1, <2>2
<1>11. RunnersKnow'
  BY <1>0, <1>3, <1>6 DEF AnalysisInv, RunnersKnow, IsBusy
<1>. QED  BY <1>7, <1>8, <1>9, <1>10, <1>11 DEF AnalysisInv

\* Only evaluations and claims change.
LEMMA EvaluationStep ==
  ASSUME AnalysisInv, UNCHANGED <<content, analyses, kafka>>,
         evaluation' \in [AllJobs -> EvaluationRow], runner' \in [Runners -> ClaimRow], EvaluationsFollow', RunnersKnow'
  PROVE  AnalysisInv'
BY DEF AnalysisInv, AnalysisTyped, TextsDiffer, WorkWasAsked, Jobs, content, kafka

LEMMA RowChange ==
  ASSUME AnalysisInv, UNCHANGED analyses, NEW j \in Jobs, NEW new \in EvaluationRow,
         evaluation' = [evaluation EXCEPT ![j] = new],
         analyses[j].status = "SUCCEEDED",
         new.status # "PENDING" => new.lease = "none",
         new.status = "SUCCEEDED" => new.output = analyses[j].result
  PROVE  evaluation' \in [AllJobs -> EvaluationRow] /\ EvaluationsFollow'
BY JobsAreAllJobs DEF AnalysisInv, AnalysisTyped, EvaluationsFollow, Jobs

LEMMA UnclaimedStep ==
  ASSUME AnalysisInv, NEW j \in Jobs,
         Reconcile(j) \/ LeaseExpires(j) \/ \E r \in Runners : Exhaust(r, j)
  PROVE  AnalysisInv'
<1>0. UNCHANGED <<content, analyses, kafka, runner>> /\ j \in AllJobs /\ evaluation[j] \in EvaluationRow
  BY JobsAreAllJobs DEF Reconcile, LeaseExpires, Exhaust, AnalysisInv, AnalysisTyped
<1>1. evaluation' \in [AllJobs -> EvaluationRow] /\ EvaluationsFollow'
  <2>1. CASE Reconcile(j)
    <3>1. Enqueued \in EvaluationRow /\ Enqueued.status = "PENDING"
      BY DEF Enqueued, NoEvaluation, EvaluationRow, Finding
    <3>. QED  BY <1>0, <2>1, <3>1, RowChange DEF Reconcile
  <2>2. CASE LeaseExpires(j)
    <3>. DEFINE new == [evaluation[j] EXCEPT !.lease = "expired"]
    <3>1. evaluation[j].status = "PENDING"
      BY <1>0, <2>2 DEF LeaseExpires, AnalysisInv, EvaluationsFollow
    <3>2. new \in EvaluationRow /\ new.status = "PENDING" /\ evaluation' = [evaluation EXCEPT ![j] = new]
      BY <1>0, <2>2, <3>1 DEF LeaseExpires, EvaluationRow
    <3>3. analyses[j].status = "SUCCEEDED"
      BY <1>0, <3>1 DEF AnalysisInv, EvaluationsFollow
    <3>. HIDE DEF new
    <3>. QED  BY <1>0, <3>2, <3>3, RowChange
  <2>3. ASSUME NEW r \in Runners, Exhaust(r, j)
        PROVE  evaluation' \in [AllJobs -> EvaluationRow] /\ EvaluationsFollow'
    <3>. DEFINE new == [evaluation[j] EXCEPT !.status = "FAILED", !.lease = "none"]
    <3>1. evaluation[j].status = "PENDING"
      BY <2>3 DEF Exhaust, IsClaimable
    <3>2. /\ new \in EvaluationRow /\ new.status = "FAILED" /\ new.lease = "none"
          /\ evaluation' = [evaluation EXCEPT ![j] = new]
      BY <1>0, <2>3 DEF Exhaust, EvaluationRow
    <3>3. analyses[j].status = "SUCCEEDED"
      BY <1>0, <3>1 DEF AnalysisInv, EvaluationsFollow
    <3>. HIDE DEF new
    <3>. QED  BY <1>0, <3>2, <3>3, RowChange
  <2>. QED  BY <2>1, <2>2, <2>3
<1>2. runner' \in [Runners -> ClaimRow] /\ RunnersKnow'
  BY <1>0 DEF AnalysisInv, AnalysisTyped, RunnersKnow, Jobs, IsBusy
<1>. QED  BY <1>0, <1>1, <1>2, EvaluationStep

LEMMA ClaimSafe ==
  ASSUME AnalysisInv, NEW r \in Runners, NEW j \in Jobs, ClaimEvaluation(r, j)
  PROVE  AnalysisInv'
<1>. DEFINE new == [evaluation[j] EXCEPT !.attempts = evaluation[j].attempts + 1, !.lease = "held"]
            claim == [job |-> j, attempt |-> evaluation[j].attempts + 1, found |-> analyses[j].result]
<1>0. /\ UNCHANGED <<content, analyses, kafka>> /\ j \in AllJobs /\ j \in Nat /\ evaluation[j] \in EvaluationRow
      /\ runner \in [Runners -> ClaimRow] /\ analyses[j] \in AnalysisRow /\ evaluation[j].status = "PENDING"
  BY JobsAreAllJobs DEF ClaimEvaluation, IsClaimable, AnalysisInv, AnalysisTyped, Jobs
<1>1. analyses[j].status = "SUCCEEDED"
  BY <1>0 DEF AnalysisInv, EvaluationsFollow
<1>2. new \in EvaluationRow /\ new.status = "PENDING" /\ evaluation' = [evaluation EXCEPT ![j] = new]
  <2>1. evaluation[j].attempts + 1 \in Nat
    BY <1>0 DEF EvaluationRow
  <2>2. new \in EvaluationRow /\ new.status = "PENDING"
    BY <1>0, <2>1 DEF EvaluationRow
  <2>3. evaluation' = [evaluation EXCEPT ![j] = new]
    BY DEF ClaimEvaluation
  <2>. QED  BY <2>2, <2>3
<1>3. /\ claim \in ClaimRow /\ runner' = [runner EXCEPT ![r] = claim]
      /\ claim.job = j /\ claim.found = analyses[j].result
  BY <1>0 DEF ClaimEvaluation, ClaimRow, EvaluationRow, AnalysisRow
<1>. HIDE DEF new, claim
<1>4. evaluation' \in [AllJobs -> EvaluationRow] /\ EvaluationsFollow'
  BY <1>0, <1>1, <1>2, RowChange
<1>5. runner' \in [Runners -> ClaimRow] /\ RunnersKnow'
  BY <1>0, <1>1, <1>3 DEF AnalysisInv, RunnersKnow, Jobs, IsBusy
<1>. QED  BY <1>0, <1>4, <1>5, EvaluationStep

\* A claim is given back, and its row settled, put back or left alone.
LEMMA DoneSafe ==
  ASSUME AnalysisInv, NEW r \in Runners, Succeed(r) \/ Unsupported(r) \/ Retry(r) \/ Abandon(r)
  PROVE  AnalysisInv'
<1>. DEFINE j == runner[r].job
<1>0. /\ UNCHANGED <<content, analyses, kafka>> /\ runner' = [runner EXCEPT ![r] = NoClaim]
      /\ runner \in [Runners -> ClaimRow] /\ evaluation \in [AllJobs -> EvaluationRow] /\ Jobs \subseteq AllJobs
      /\ j \in Jobs /\ analyses[j].status = "SUCCEEDED" /\ runner[r].found = analyses[j].result
  BY JobsAreAllJobs DEF Succeed, Unsupported, Retry, Abandon, HoldsLease, Done, AnalysisInv, AnalysisTyped,
       RunnersKnow
<1>1. NoClaim \in ClaimRow
  BY DEF NoClaim, ClaimRow, Finding
<1>2. runner' \in [Runners -> ClaimRow] /\ RunnersKnow'
  BY <1>0, <1>1 DEF AnalysisInv, RunnersKnow, Jobs, IsBusy
<1>3. ASSUME NEW status \in {"PENDING", "SUCCEEDED", "UNSUPPORTED", "FAILED"}, NEW output \in Finding,
             Settle(r, status, output), status = "SUCCEEDED" => output = analyses[j].result
      PROVE  evaluation' \in [AllJobs -> EvaluationRow] /\ EvaluationsFollow'
  <2>. DEFINE new == [evaluation[j] EXCEPT !.status = status, !.lease = "none", !.output = output]
  <2>1. evaluation' = [evaluation EXCEPT ![j] = new]
    BY <1>3 DEF Settle
  <2>2. new \in EvaluationRow /\ new.status = status /\ new.lease = "none" /\ new.output = output
    BY <1>0 DEF EvaluationRow
  <2>. HIDE DEF new
  <2>. QED  BY <1>0, <1>3, <2>1, <2>2, RowChange
<1>4. NoEvidence \in Finding /\ Supported \subseteq Finding
  BY EvidenceAssumption DEF Finding
<1>5. CASE Abandon(r)
  <2>1. evaluation' = evaluation
    BY <1>5 DEF Abandon
  <2>2. evaluation' \in [AllJobs -> EvaluationRow] /\ EvaluationsFollow'
    BY <1>0, <2>1 DEF AnalysisInv, EvaluationsFollow, Jobs
  <2>. QED  BY <1>0, <1>2, <2>2, EvaluationStep
<1>6. CASE Succeed(r) \/ Unsupported(r) \/ Retry(r)
  <2>1. evaluation' \in [AllJobs -> EvaluationRow] /\ EvaluationsFollow'
    BY <1>0, <1>3, <1>4, <1>6 DEF Succeed, Unsupported, Retry
  <2>. QED  BY <1>0, <1>2, <2>1, EvaluationStep
<1>. QED  BY <1>5, <1>6

\* The inductive invariant of the analysis: types, and how evaluations and claims follow results.
THEOREM AnalysisInvariant == AnalysisSpec => []AnalysisInv
<1>1. AnalysisInv /\ [AnalysisNext]_analysisVars => AnalysisInv'
  BY FiledStep, CaseStep, WorkerStepSafe, IngestSafe, UnclaimedStep, ClaimSafe, DoneSafe DEF AnalysisNext, RunnerStep
<1>. QED  BY <1>1, AnalysisInvInit, PTL DEF AnalysisSpec

\* What CURRENT stands for.
LEMMA CurrentIsSupported ==
  ASSUME AnalysisInv, Advisory = "CURRENT"
  PROVE  \E j \in Jobs : analyses[j].text = text /\ evaluation[j].output \in Supported
<1>1. /\ Newest # 0 /\ analyses[Newest].text = text /\ analyses[Newest].result \in Supported
      /\ evaluation[Newest].status \notin {"ABSENT", "PENDING", "FAILED", "UNSUPPORTED"}
  BY DEF Advisory, IsAboutTheText
<1>2. Newest \in Jobs /\ Newest \in AllJobs
  BY <1>1, JobsAreAllJobs DEF AnalysisInv, Newest, Jobs
<1>3. evaluation[Newest].status = "SUCCEEDED"
  BY <1>1, <1>2 DEF AnalysisInv, AnalysisTyped, EvaluationRow
<1>. QED  BY <1>1, <1>2, <1>3 DEF AnalysisInv, EvaluationsFollow

\* AdviceIsAboutTheText: what a moderator is shown was computed from the one accepted result for the text as it is now,
\* with any workers and runners, whatever came late or twice.
THEOREM AdviceSafe == AnalysisSpec => []AdviceIsAboutTheText
<1>1. AnalysisInv => AdviceIsAboutTheText
  BY JobsAreAllJobs, CurrentIsSupported DEF AnalysisInv, EvaluationsFollow, AdviceIsAboutTheText
<1>. QED  BY <1>1, AnalysisInvariant, PTL

LEMMA SettledStays ==
  ASSUME AnalysisInv, [AnalysisNext]_analysisVars, NEW j \in Jobs, evaluation[j].status \in Settled
  PROVE  evaluation'[j] = evaluation[j]
<1>0. /\ j \in AllJobs /\ evaluation \in [AllJobs -> EvaluationRow] /\ evaluation[j].lease = "none"
  BY JobsAreAllJobs DEF AnalysisInv, AnalysisTyped, EvaluationsFollow, Settled
<1>1. ASSUME NEW i, i # j, NEW new, evaluation' = [evaluation EXCEPT ![i] = new] PROVE evaluation'[j] = evaluation[j]
  BY <1>0, <1>1
<1>2. ASSUME NEW e \in results, Ingest(e) PROVE evaluation'[j] = evaluation[j]
  BY <1>0, <1>2 DEF Ingest, Settled
<1>3. ASSUME NEW i \in Jobs, Reconcile(i) \/ LeaseExpires(i) \/ \E r \in Runners : ClaimEvaluation(r, i) \/ Exhaust(r, i)
      PROVE  evaluation'[j] = evaluation[j]
  BY <1>0, <1>3 DEF Reconcile, LeaseExpires, ClaimEvaluation, Exhaust, IsClaimable, Settled
<1>4. ASSUME NEW r \in Runners, Succeed(r) \/ Unsupported(r) \/ Retry(r) \/ Abandon(r)
      PROVE  evaluation'[j] = evaluation[j]
  BY <1>0, <1>4 DEF Succeed, Unsupported, Retry, Abandon, HoldsLease, Settle, Settled
<1>5. ASSUME UNCHANGED evaluation PROVE evaluation'[j] = evaluation[j]
  BY <1>5
<1>6. CASE \/ \E t \in Texts \cup {Gone} : Edit(t)
           \/ Close \/ TakeSnapshot
           \/ \E t \in Texts : FileReport(t)
           \/ \E w \in Workers : WorkerStep(w) \/ Rebalance(w) \/ Crash(w)
           \/ UNCHANGED analysisVars
  BY <1>6 DEF Edit, Close, TakeSnapshot, FileReport, WorkerStep, Classify, Publish, Commit, Cancel, Rebalance, Crash,
       analysisVars
<1>. QED  BY <1>2, <1>3, <1>4, <1>6 DEF AnalysisNext, RunnerStep

\* SettledAdviceStays: a settled evaluation is never written again: its lease is gone, and every writer asks for one.
THEOREM SettledSafe == AnalysisSpec => SettledAdviceStays
<1>1. AnalysisInv /\ [AnalysisNext]_analysisVars
        => [\A j \in Jobs : evaluation[j].status \in Settled => evaluation'[j] = evaluation[j]]_analysisVars
  BY SettledStays
<1>. QED  BY <1>1, AnalysisInvariant, PTL DEF AnalysisSpec, SettledAdviceStays
=============================================================================
