---------------------------- MODULE SanctionsProofs ----------------------------
(***************************************************************************)
(* Theorems of Sanctions, for any findings, sanctions, staff and requests.  *)
(* Most steps only end sanctions (Lapses); what they share is argued once.  *)
(* The inductive invariant adds to the properties that a row not yet        *)
(* written answers no request (UnwrittenAnswersNothing).                    *)
(***************************************************************************)
EXTENDS Sanctions, TLAPS

UnwrittenAnswersNothing == \A s \in Sanctions : sanction[s].status = "ABSENT" => sanction[s].request = NoFinding

IInv == TypeOK /\ ReversalReachesConsequences /\ OneSanctionInForce /\ UnwrittenAnswersNothing

\* A row that was at most ended by the step: what it says of its decision is as it was.
Lapses(s) ==
  /\ sanction'[s] \in SanctionRow
  /\ sanction'[s] # sanction[s] => sanction'[s].status # "ACTIVE"
  /\ sanction'[s].status = "ABSENT" <=> sanction[s].status = "ABSENT"
  /\ sanction'[s].request = sanction[s].request

\* The steps that issue no sanction and adjust none.
Ending ==
  \/ \E m \in Staff, v \in Findings : Confirm(m, v) \/ ReverseViolation(m, v)
  \/ \E m \in Staff, s \in Sanctions : Revoke(m, s) \/ Reject(m, s)
  \/ \E m \in Staff, s \in Sanctions, reverses \in BOOLEAN : Accept(m, s, reverses)
  \/ \E s \in Sanctions : Appeal(s)
  \/ \E S \in SUBSET Sanctions : Expire(S)
  \/ Tick
  \/ UNCHANGED vars

Issuing ==
  \E m \in Staff, s \in Sanctions, type \in Types, days \in Durations, v \in Findings \cup {NoFinding}, q \in Requests :
    Issue(m, s, type, days, v, q)

Adjusting == \E m \in Staff, s \in Sanctions, days \in Durations : Adjust(m, s, days)

LEMMA StepKinds == [Next]_vars => Ending \/ Issuing \/ Adjusting
BY DEF Next, Ending, Issuing, Adjusting

-----------------------------------------------------------------------------
(* What each kind of step does to the rows.                                  *)

LEMMA RevokedLapses ==
  ASSUME TypeOK, NEW s \in Sanctions
  PROVE  /\ Revoked(s) \in SanctionRow
         /\ Revoked(s).status # "ACTIVE"
         /\ Revoked(s).status = "ABSENT" <=> sanction[s].status = "ABSENT"
         /\ Revoked(s).request = sanction[s].request
BY DEF TypeOK, SanctionRow, Revoked

LEMMA EndingLapses ==
  ASSUME TypeOK, Ending
  PROVE  /\ sanction' \in [Sanctions -> SanctionRow]
         /\ \A s \in Sanctions : Lapses(s)
         /\ now' \in Nat /\ now <= now'
<1>1. sanction \in [Sanctions -> SanctionRow] /\ now \in Nat
  BY DEF TypeOK
<1>2. now' \in Nat /\ now <= now'
  BY <1>1 DEF Ending, Confirm, ReverseViolation, Revoke, Reject, Accept, Appeal, Expire, Tick, vars
<1>3. SUFFICES sanction' \in [Sanctions -> SanctionRow] /\ \A s \in Sanctions : Lapses(s)
  BY <1>2
<1>4. CASE UNCHANGED sanction
  BY <1>1, <1>4 DEF Lapses
<1>5. ASSUME NEW v, NEW first, sanction' = RevokeConsequences(v, first)
      PROVE  sanction' \in [Sanctions -> SanctionRow] /\ \A s \in Sanctions : Lapses(s)
  <2>1. ASSUME NEW s \in Sanctions PROVE sanction'[s] = sanction[s] \/ sanction'[s] = Revoked(s)
    BY <1>5 DEF RevokeConsequences
  <2>2. \A s \in Sanctions : Lapses(s)
    BY <1>1, <2>1, RevokedLapses DEF Lapses
  <2>. QED  BY <1>5, <2>2 DEF RevokeConsequences, Lapses
<1>6. ASSUME NEW m \in Staff, NEW s \in Sanctions, Revoke(m, s)
      PROVE  sanction' \in [Sanctions -> SanctionRow] /\ \A t \in Sanctions : Lapses(t)
  <2>1. Revoked(s) \in SanctionRow
    BY RevokedLapses
  <2>2. sanction' = [sanction EXCEPT ![s] = Revoked(s)]
    BY <1>6 DEF Revoke
  <2>3. ASSUME NEW t \in Sanctions PROVE sanction'[t] = sanction[t] \/ sanction'[t] = Revoked(t)
    BY <1>1, <2>2
  <2>. QED  BY <1>1, <2>1, <2>2, <2>3, RevokedLapses DEF Lapses
<1>7. ASSUME NEW S \in SUBSET Sanctions, Expire(S)
      PROVE  sanction' \in [Sanctions -> SanctionRow] /\ \A t \in Sanctions : Lapses(t)
  <2>1. ASSUME NEW t \in Sanctions
        PROVE  sanction'[t] = IF t \in S THEN [sanction[t] EXCEPT !.status = "EXPIRED"] ELSE sanction[t]
    BY <1>7 DEF Expire
  <2>2. ASSUME NEW t \in Sanctions PROVE Lapses(t)
    BY <1>1, <1>7, <2>1 DEF Lapses, Expire, IsActive, SanctionRow
  <2>. QED  BY <1>7, <2>2 DEF Expire, Lapses
<1>8. ASSUME NEW m \in Staff, NEW v \in Findings, ReverseViolation(m, v)
      PROVE  sanction' = RevokeConsequences(v, NoFinding)
  BY <1>8 DEF ReverseViolation
<1>9. ASSUME NEW m \in Staff, NEW s \in Sanctions, NEW reverses \in BOOLEAN, Accept(m, s, reverses)
      PROVE  sanction' = RevokeConsequences(IF reverses THEN sanction[s].finding ELSE NoFinding, s)
  BY <1>9 DEF Accept
<1>. QED
  BY <1>4, <1>5, <1>6, <1>7, <1>8, <1>9 DEF Ending, Confirm, Reject, Appeal, Tick, vars

\* The row that is written: nothing like it is in force, and its request is new.
LEMMA Issued ==
  ASSUME TypeOK, NEW m \in Staff, NEW s \in Sanctions, NEW type \in Types, NEW days \in Durations,
         NEW v \in Findings \cup {NoFinding}, NEW q \in Requests, Issue(m, s, type, days, v, q)
  PROVE  /\ sanction' \in [Sanctions -> SanctionRow]
         /\ sanction[s].status = "ABSENT" /\ sanction'[s].status = "ACTIVE"
         /\ sanction'[s].type = type /\ sanction'[s].scope = WorksFor[m]
         /\ sanction'[s].finding = v /\ sanction'[s].request = q
         /\ \A t \in Sanctions \ {s} : sanction'[t] = sanction[t]
<1>1. type \in AllTypes /\ WorksFor[m] \in {Community, Platform} /\ now \in Nat /\ days \in Nat
  BY TypesAssumption, StaffAssumption, TimeAssumption DEF TypeOK
<1>2. sanction \in [Sanctions -> SanctionRow]
  BY DEF TypeOK
<1>. DEFINE new == [status |-> "ACTIVE", type |-> type, scope |-> WorksFor[m], finding |-> v, request |-> q, issuer |-> m,
                    adjusters |-> {}, starts |-> now, ends |-> IF type = "WARNING" THEN 0 ELSE now + days]
<1>3. sanction' = [sanction EXCEPT ![s] = new] /\ sanction[s].status = "ABSENT"
  BY DEF Issue
<1>4. new \in SanctionRow
  BY <1>1 DEF SanctionRow
<1>. HIDE DEF new
<1>5. sanction'[s] = new /\ sanction' \in [Sanctions -> SanctionRow] /\ \A t \in Sanctions \ {s} : sanction'[t] = sanction[t]
  BY <1>2, <1>3, <1>4
<1>. QED  BY <1>3, <1>5 DEF new

\* Only the end and the adjusters of a sanction in force change.
LEMMA Adjusted ==
  ASSUME TypeOK, NEW m \in Staff, NEW s \in Sanctions, NEW days \in Durations, Adjust(m, s, days)
  PROVE  /\ sanction' \in [Sanctions -> SanctionRow]
         /\ IsAdjustable(s)
         /\ \A t \in Sanctions :
              /\ sanction'[t].status = sanction[t].status /\ sanction'[t].type = sanction[t].type
              /\ sanction'[t].scope = sanction[t].scope /\ sanction'[t].finding = sanction[t].finding
              /\ sanction'[t].request = sanction[t].request
              /\ t # s => sanction'[t] = sanction[t]
         /\ UNCHANGED <<now, finding, appeal>>
<1>1. sanction \in [Sanctions -> SanctionRow] /\ days \in Nat
  BY TimeAssumption DEF TypeOK
<1>. DEFINE new == [sanction[s] EXCEPT !.ends = sanction[s].starts + days, !.adjusters = sanction[s].adjusters \cup {m}]
<1>2. sanction' = [sanction EXCEPT ![s] = new] /\ IsAdjustable(s) /\ UNCHANGED <<now, finding, appeal>>
  BY DEF Adjust
<1>3. /\ new \in SanctionRow
      /\ new.status = sanction[s].status /\ new.type = sanction[s].type /\ new.scope = sanction[s].scope
      /\ new.finding = sanction[s].finding /\ new.request = sanction[s].request
  <2>1. sanction[s] \in SanctionRow /\ m \in Staff
    BY <1>1
  <2>2. sanction[s].starts + days \in Nat /\ sanction[s].adjusters \cup {m} \in SUBSET Staff
    BY <1>1, <2>1 DEF SanctionRow
  <2>. QED  BY <2>1, <2>2 DEF SanctionRow
<1>. HIDE DEF new
<1>. QED  BY <1>1, <1>2, <1>3

-----------------------------------------------------------------------------
(* Types.                                                                    *)

FindingRow == [status : {"ABSENT", "STANDS", "REVERSED"}, scope : {Community, Platform}]
AppealState == {"NONE", "PENDING", "ACCEPTED", "REJECTED"}

LEMMA TypeInit == Init => TypeOK
BY DEF Init, TypeOK, SanctionRow, Unwritten, AllTypes

LEMMA ReversedRows ==
  ASSUME TypeOK, NEW v
  PROVE  Reversed(v) \in [Findings -> FindingRow]
BY DEF TypeOK, Reversed, FindingRow

LEMMA TypeStep == TypeOK /\ [Next]_vars => TypeOK'
<1>. SUFFICES ASSUME TypeOK, [Next]_vars PROVE TypeOK'
  OBVIOUS
<1>1. finding \in [Findings -> FindingRow] /\ appeal \in [Sanctions -> AppealState]
  BY DEF TypeOK, FindingRow, AppealState
<1>2. sanction' \in [Sanctions -> SanctionRow] /\ now' \in Nat
  <2>1. CASE Ending
    BY <2>1, EndingLapses
  <2>2. CASE Issuing
    <3>1. UNCHANGED now /\ now \in Nat
      BY <2>2 DEF Issuing, Issue, TypeOK
    <3>. QED  BY <2>2, <3>1, Issued DEF Issuing
  <2>3. CASE Adjusting
    BY <2>3, Adjusted DEF Adjusting, TypeOK
  <2>. QED  BY <2>1, <2>2, <2>3, StepKinds
<1>3. finding' \in [Findings -> FindingRow]
  <2>1. CASE UNCHANGED finding
    BY <1>1, <2>1
  <2>2. ASSUME NEW m \in Staff, NEW v \in Findings, Confirm(m, v) PROVE finding' \in [Findings -> FindingRow]
    BY <1>1, <2>2, StaffAssumption DEF Confirm, FindingRow
  <2>3. ASSUME NEW m \in Staff, NEW v \in Findings, ReverseViolation(m, v) PROVE finding' \in [Findings -> FindingRow]
    BY <2>3, ReversedRows DEF ReverseViolation
  <2>4. ASSUME NEW m \in Staff, NEW s \in Sanctions, NEW reverses \in BOOLEAN, Accept(m, s, reverses)
        PROVE  finding' \in [Findings -> FindingRow]
    BY <2>4, ReversedRows DEF Accept
  <2>. QED  BY <2>1, <2>2, <2>3, <2>4, ZenonT(40) DEF Next, Issue, Revoke, Reject, Adjust, Appeal, Expire, Tick, vars
<1>4. appeal' \in [Sanctions -> AppealState]
  BY <1>1, ZenonT(40) DEF Next, Confirm, ReverseViolation, Issue, Revoke, Reject, Adjust, Accept, Appeal, Expire, Tick, vars, AppealState
<1>. QED  BY <1>2, <1>3, <1>4 DEF TypeOK, FindingRow, AppealState

-----------------------------------------------------------------------------
(* The invariant.                                                            *)

LEMMA ReversalStep == TypeOK /\ ReversalReachesConsequences /\ [Next]_vars => ReversalReachesConsequences'
<1>. SUFFICES ASSUME TypeOK, ReversalReachesConsequences, [Next]_vars,
                     NEW s \in Sanctions, sanction'[s].status = "ACTIVE", sanction'[s].finding # NoFinding
              PROVE  finding'[sanction'[s].finding].status = "STANDS"
  BY DEF ReversalReachesConsequences, IsActive
<1>0. finding \in [Findings -> FindingRow] /\ sanction \in [Sanctions -> SanctionRow]
  BY DEF TypeOK, FindingRow
<1>1. CASE Ending
  <2>1. sanction'[s] = sanction[s]
    BY <1>1, EndingLapses DEF Lapses
  <2>2. finding[sanction[s].finding].status = "STANDS" /\ sanction[s].finding \in Findings
    BY <1>0, <2>1 DEF ReversalReachesConsequences, IsActive, SanctionRow
  <2>3. CASE UNCHANGED finding
    BY <2>1, <2>2, <2>3
  <2>4. ASSUME NEW m \in Staff, NEW v \in Findings, Confirm(m, v) PROVE v # sanction[s].finding
    BY <2>2, <2>4 DEF Confirm
  <2>5. ASSUME NEW v, NEW first, sanction' = RevokeConsequences(v, first), v # NoFinding PROVE v # sanction[s].finding
    BY <2>1, <2>5, RevokedLapses DEF RevokeConsequences
  <2>6. ASSUME NEW m \in Staff, NEW v \in Findings, Confirm(m, v) PROVE finding'[sanction[s].finding].status = "STANDS"
    BY <1>0, <2>2, <2>4, <2>6 DEF Confirm
  <2>7. ASSUME NEW v, v # sanction[s].finding, finding' = Reversed(v) PROVE finding'[sanction[s].finding].status = "STANDS"
    BY <2>2, <2>7 DEF Reversed
  <2>8. ASSUME NEW m \in Staff, NEW v \in Findings, ReverseViolation(m, v)
        PROVE  finding'[sanction[s].finding].status = "STANDS"
    BY <2>5, <2>7, <2>8, FindingsAssumption DEF ReverseViolation
  <2>9. ASSUME NEW m \in Staff, NEW t \in Sanctions, NEW reverses \in BOOLEAN, Accept(m, t, reverses)
        PROVE  finding'[sanction[s].finding].status = "STANDS"
    <3>. DEFINE v == IF reverses THEN sanction[t].finding ELSE NoFinding
    <3>1. sanction' = RevokeConsequences(v, t) /\ finding' = Reversed(v)
      BY <2>9 DEF Accept
    <3>2. v # sanction[s].finding
      BY <2>1, <2>5, <3>1
    <3>. QED  BY <2>7, <3>1, <3>2
  <2>10. finding'[sanction[s].finding].status = "STANDS"
    BY <1>1, <2>1, <2>2, <2>3, <2>6, <2>8, <2>9 DEF Ending, Revoke, Reject, Appeal, Expire, Tick, vars
  <2>. QED  BY <2>1, <2>10
<1>2. ASSUME NEW m \in Staff, NEW t \in Sanctions, NEW type \in Types, NEW days \in Durations,
             NEW v \in Findings \cup {NoFinding}, NEW q \in Requests, Issue(m, t, type, days, v, q)
      PROVE  finding'[sanction'[s].finding].status = "STANDS"
  <2>1. UNCHANGED finding /\ FindingStands(m, v)
    BY <1>2 DEF Issue
  <2>2. CASE s = t
    BY <1>2, <2>1, <2>2, Issued DEF FindingStands
  <2>3. CASE s # t
    BY <1>2, <2>1, <2>3, Issued DEF ReversalReachesConsequences, IsActive
  <2>. QED  BY <2>2, <2>3
<1>3. CASE Adjusting
  BY <1>3, Adjusted DEF Adjusting, ReversalReachesConsequences, IsActive
<1>. QED  BY <1>1, <1>2, <1>3, StepKinds DEF Issuing

\* Nothing that lapses is in force after the step unless it was before.
LEMMA LapsedIsNotInForce ==
  ASSUME TypeOK, NEW s \in Sanctions, Lapses(s), now' \in Nat, now <= now', Restricts(s)'
  PROVE  sanction'[s] = sanction[s] /\ Restricts(s)
<1>1. sanction'[s] = sanction[s]
  BY DEF Lapses, Restricts
<1>2. sanction[s].ends \in Nat /\ now \in Nat
  BY DEF TypeOK, SanctionRow
<1>. QED  BY <1>1, <1>2 DEF Restricts

LEMMA OneStep == TypeOK /\ OneSanctionInForce /\ [Next]_vars => OneSanctionInForce'
<1>. SUFFICES ASSUME TypeOK, OneSanctionInForce, [Next]_vars,
                     NEW s \in Sanctions, NEW t \in Sanctions, Restricts(s)', Restricts(t)',
                     sanction'[s].type = sanction'[t].type, sanction'[s].scope = sanction'[t].scope
              PROVE  s = t
  BY DEF OneSanctionInForce
<1>1. CASE Ending
  BY <1>1, EndingLapses, LapsedIsNotInForce DEF OneSanctionInForce
<1>2. ASSUME NEW m \in Staff, NEW n \in Sanctions, NEW type \in Types, NEW days \in Durations,
             NEW v \in Findings \cup {NoFinding}, NEW q \in Requests, Issue(m, n, type, days, v, q)
      PROVE  s = t
  <2>1. now' = now
    BY <1>2 DEF Issue
  <2>2. ASSUME NEW o \in Sanctions \ {n}, Restricts(o)' PROVE Restricts(o) /\ sanction'[o] = sanction[o]
    BY <1>2, <2>1, <2>2, Issued DEF Restricts
  <2>3. ASSUME NEW o \in Sanctions \ {n}, Restricts(o)', Restricts(n)'
        PROVE  ~(sanction'[o].type = sanction'[n].type /\ sanction'[o].scope = sanction'[n].scope)
    <3>1. type # "WARNING" /\ sanction'[n].type = type /\ sanction'[n].scope = WorksFor[m]
      BY <1>2, <2>3, Issued DEF Restricts
    <3>2. sanction[o].ends \in Nat /\ now \in Nat
      BY DEF TypeOK, SanctionRow
    <3>3. Restricts(o) /\ sanction'[o] = sanction[o]
      BY <2>2, <2>3
    <3>4. IsEffective(o)
      BY <3>2, <3>3 DEF Restricts, IsEffective, IsActive, HasEnded
    <3>. QED  BY <1>2, <3>1, <3>3, <3>4 DEF Issue
  <2>. QED  BY <2>2, <2>3 DEF OneSanctionInForce
<1>3. ASSUME NEW m \in Staff, NEW a \in Sanctions, NEW days \in Durations, Adjust(m, a, days) PROVE s = t
  <2>1. ASSUME NEW o \in Sanctions, Restricts(o)'
        PROVE  Restricts(o) /\ sanction'[o].type = sanction[o].type /\ sanction'[o].scope = sanction[o].scope
    <3>1. sanction[o].ends \in Nat /\ now \in Nat /\ now' = now
      BY <1>3, Adjusted DEF TypeOK, SanctionRow
    <3>2. o # a => sanction'[o] = sanction[o]
      BY <1>3, Adjusted
    <3>3. IsAdjustable(a)
      BY <1>3, Adjusted
    <3>4. /\ sanction'[o].status = sanction[o].status /\ sanction'[o].type = sanction[o].type
          /\ sanction'[o].scope = sanction[o].scope
      BY <1>3, Adjusted
    <3>. QED  BY <2>1, <3>1, <3>2, <3>3, <3>4 DEF Restricts, IsAdjustable, IsEffective, IsActive, HasEnded
  <2>. QED  BY <2>1 DEF OneSanctionInForce
<1>. QED  BY <1>1, <1>2, <1>3, StepKinds DEF Issuing, Adjusting

LEMMA UnwrittenStep == TypeOK /\ UnwrittenAnswersNothing /\ [Next]_vars => UnwrittenAnswersNothing'
<1>. SUFFICES ASSUME TypeOK, UnwrittenAnswersNothing, [Next]_vars, NEW s \in Sanctions, sanction'[s].status = "ABSENT"
              PROVE  sanction'[s].request = NoFinding
  BY DEF UnwrittenAnswersNothing
<1>1. CASE Ending
  BY <1>1, EndingLapses DEF Lapses, UnwrittenAnswersNothing
<1>2. CASE Issuing
  BY <1>2, Issued DEF Issuing, UnwrittenAnswersNothing
<1>3. CASE Adjusting
  BY <1>3, Adjusted DEF Adjusting, UnwrittenAnswersNothing
<1>. QED  BY <1>1, <1>2, <1>3, StepKinds

LEMMA Invariant == Spec => []IInv
<1>1. Init => IInv
  <2>1. Init => \A s \in Sanctions : sanction[s].status = "ABSENT" /\ sanction[s].request = NoFinding
    BY DEF Init, Unwritten
  <2>. QED  BY <2>1, TypeInit DEF IInv, ReversalReachesConsequences, OneSanctionInForce, UnwrittenAnswersNothing, IsActive, Restricts
<1>2. IInv /\ [Next]_vars => IInv'
  BY TypeStep, ReversalStep, OneStep, UnwrittenStep DEF IInv
<1>. QED  BY <1>1, <1>2, PTL DEF Spec

-----------------------------------------------------------------------------
(* Theorems.                                                                 *)

\* Every row keeps its type.
THEOREM TypeCorrect == Spec => []TypeOK
BY Invariant, PTL DEF IInv

\* No sanction stays in force that rests on a finding which was reversed, directly or through an appeal
\* (reverseTx in enforcement.service.ts).
THEOREM ReversalSafe == Spec => []ReversalReachesConsequences
BY Invariant, PTL DEF IInv

\* An account never has two sanctions of a kind in force in one workspace, although the job that expires rows lags
\* behind the clock and sanctions are lengthened (sanction and adjust in enforcement.service.ts).
THEOREM OneInForce == Spec => []OneSanctionInForce
BY Invariant, PTL DEF IInv

\* A decision that is over stays over: a request retried with its key finds its record, and what has ended cannot be
\* adjusted (sanction and adjust in enforcement.service.ts).
THEOREM DecisionsSafe == Spec => DecisionsEndForGood
<1>1. IInv /\ [Next]_vars => [\A q \in Requests : IsDecided(q) /\ ~IsInForce(q) => ~IsInForce(q)']_vars
  <2>. SUFFICES ASSUME IInv, [Next]_vars, NEW q \in Requests, IsDecided(q),
                       NEW s \in Sanctions, sanction'[s].request = q, Restricts(s)'
                PROVE  IsInForce(q)
    BY DEF IsInForce
  <2>0. TypeOK
    BY DEF IInv
  <2>1. CASE Ending
    <3>1. sanction'[s] = sanction[s] /\ Restricts(s)
      BY <2>0, <2>1, EndingLapses, LapsedIsNotInForce
    <3>. QED  BY <3>1 DEF IsInForce
  <2>2. ASSUME NEW m \in Staff, NEW n \in Sanctions, NEW type \in Types, NEW days \in Durations,
               NEW v \in Findings \cup {NoFinding}, NEW r \in Requests, Issue(m, n, type, days, v, r)
        PROVE  IsInForce(q)
    <3>1. r # q
      BY <2>2, FindingsAssumption DEF Issue, IsNewRequest, IsDecided, IInv, UnwrittenAnswersNothing
    <3>2. now' = now
      BY <2>2 DEF Issue
    <3>3. sanction'[n].request = r
      BY <2>0, <2>2, Issued
    <3>4. s # n
      BY <3>1, <3>3
    <3>5. sanction'[s] = sanction[s]
      BY <2>0, <2>2, <3>4, Issued
    <3>. QED  BY <3>2, <3>5 DEF IsInForce, Restricts
  <2>3. ASSUME NEW m \in Staff, NEW a \in Sanctions, NEW days \in Durations, Adjust(m, a, days) PROVE IsInForce(q)
    <3>1. sanction[s].ends \in Nat /\ now \in Nat /\ now' = now
      BY <2>0, <2>3, Adjusted DEF TypeOK, SanctionRow
    <3>2. s # a => sanction'[s] = sanction[s]
      BY <2>0, <2>3, Adjusted
    <3>3. IsAdjustable(a)
      BY <2>0, <2>3, Adjusted
    <3>4. /\ sanction'[s].status = sanction[s].status /\ sanction'[s].type = sanction[s].type
          /\ sanction'[s].request = sanction[s].request
      BY <2>0, <2>3, Adjusted
    <3>5. Restricts(s)
      BY <3>1, <3>2, <3>3, <3>4 DEF Restricts, IsAdjustable, IsEffective, IsActive, HasEnded
    <3>. QED  BY <3>4, <3>5 DEF IsInForce
  <2>. QED  BY <2>1, <2>2, <2>3, StepKinds DEF Issuing, Adjusting
<1>. QED  BY <1>1, Invariant, PTL DEF Spec, DecisionsEndForGood
=============================================================================
