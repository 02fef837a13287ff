------------------------- MODULE DeviceLoginsProofs -------------------------
(***************************************************************************)
(* Theorems of DeviceLogins, for any finite set of devices, any logins,    *)
(* calls and limit.  Three inductive invariants on top of the types:       *)
(* a registration about to create has made room and is the only one        *)
(* (CapInv), a relink under way looked at a dead device (RelinkInv), and   *)
(* a revocation under way still has every login it owes (RevokeInv).       *)
(***************************************************************************)
EXTENDS DeviceLogins, FiniteSetTheorems, TLAPS

-----------------------------------------------------------------------------
(* Types. *)

LEMMA TypeInit == Init => TypeOK
<1>. SUFFICES ASSUME Init PROVE TypeOK
  OBVIOUS
<1>1. registration \in [Devices -> Registration]
  BY DEF Init, Registration, NotRegistering
<1>2. link \in [LinkRequests -> Link]
  BY DEF Init, Link
<1>3. signOut \in [SignOuts -> SignOut]
  BY DEF Init, SignOut
<1>4. /\ status \in [Devices -> {"absent", "active", "revoked"}]
      /\ live \subseteq Logins
      /\ linked \in [Logins -> Devices \cup {NoDevice}]
  BY DEF Init
<1>7. age \in [Devices -> Recent .. Dormant]
  <2>1. Recent \in Recent .. Dormant
    BY DEF Recent, Dormant
  <2>2. age = [d \in Devices |-> Recent]
    BY DEF Init
  <2>. QED  BY <2>1, <2>2
<1>8. lateLinks \subseteq Logins \X Devices
  BY DEF Init
<1>5. \A d \in Devices : registration[d].victim # NoDevice => registration[d].at = "creating"
  BY DEF Init, NotRegistering
<1>6. /\ \A r \in LinkRequests : link[r].at = "idle"
      /\ \A r \in SignOuts : signOut[r].at = "idle"
  BY DEF Init
<1>. QED  BY <1>1, <1>2, <1>3, <1>4, <1>5, <1>6, <1>7, <1>8 DEF TypeOK

LEMMA RegistrationTypeStep ==
  ASSUME TypeOK, NEW d \in Devices,
         \/ LockAccount(d) \/ CountDevices(d) \/ ChooseVictim(d) \/ CreateDevice(d)
         \/ RefuseRegistration(d) \/ Touch(d) \/ TimePasses(d)
  PROVE  TypeOK'
<1>1. CASE LockAccount(d) \/ CountDevices(d) \/ RefuseRegistration(d)
  <2>1. registration' \in [Devices -> Registration]
    <3>1. CASE LockAccount(d)
      BY <3>1 DEF LockAccount, TypeOK, Registration
    <3>2. CASE CountDevices(d)
      BY <3>2 DEF CountDevices, TypeOK, Registration
    <3>3. CASE RefuseRegistration(d)
      BY <3>3 DEF RefuseRegistration, NotRegistering, TypeOK, Registration
    <3>. QED  BY <1>1, <3>1, <3>2, <3>3
  <2>2. \A e \in Devices : registration'[e].victim # NoDevice => registration'[e].at = "creating"
    <3>1. CASE LockAccount(d)
      BY <3>1 DEF LockAccount, TypeOK, Registration
    <3>2. CASE CountDevices(d)
      BY <3>2 DEF CountDevices, TypeOK, Registration
    <3>3. CASE RefuseRegistration(d)
      BY <3>3 DEF RefuseRegistration, NotRegistering, TypeOK, Registration
    <3>. QED  BY <1>1, <3>1, <3>2, <3>3
  <2>3. UNCHANGED <<deviceVars, loginVars, link, signOut>>
    BY <1>1 DEF LockAccount, CountDevices, RefuseRegistration
  <2>. QED  BY <2>1, <2>2, <2>3 DEF TypeOK, deviceVars, loginVars
<1>2. CASE ChooseVictim(d)
  <2>1. PICK e \in Devices :
          registration' = [registration EXCEPT ![d] = [at |-> "creating", victim |-> e]]
    BY <1>2 DEF ChooseVictim, Stalest, Active
  <2>. QED  BY <1>2, <2>1 DEF ChooseVictim, TypeOK, Registration, deviceVars, loginVars
<1>3. CASE CreateDevice(d)
  <2>1. status' \in [Devices -> {"absent", "active", "revoked"}] /\ age' \in [Devices -> Recent .. Dormant]
    BY <1>3 DEF CreateDevice, TypeOK, Recent, Dormant
  <2>2. registration' = [registration EXCEPT ![d] = NotRegistering]
    BY <1>3 DEF CreateDevice
  <2>3. UNCHANGED <<loginVars, link, signOut>>
    BY <1>3 DEF CreateDevice
  <2>. QED  BY <2>1, <2>2, <2>3 DEF TypeOK, Registration, NotRegistering, loginVars
<1>4. CASE Touch(d) \/ TimePasses(d)
  <2>1. age' \in [Devices -> Recent .. Dormant]
    BY <1>4, AgeBound DEF Touch, TimePasses, TypeOK, Recent, Dormant
  <2>2. UNCHANGED <<status, registration, loginVars, link, signOut>>
    BY <1>4 DEF Touch, TimePasses
  <2>. QED  BY <2>1, <2>2 DEF TypeOK, loginVars
<1>. QED  BY <1>1, <1>2, <1>3, <1>4

\* What one link request does: it moves its own record, and may write the link of its login.
LEMMA LinkMoves ==
  ASSUME TypeOK, NEW r \in LinkRequests,
         LinkSession(r) \/ ReadLinkedDevice(r) \/ CheckLinkedDevice(r) \/ RelinkSession(r)
  PROVE  /\ link[r].at \in {"linking", "reading", "checking", "relinking"}
         /\ link[r].login \in Logins /\ link[r].device \in Devices
         /\ \/ UNCHANGED <<linked, lateLinks>>
            \/ /\ link[r].login \in live
               /\ NoteLink(link[r].login, link[r].device)
               /\ \/ LinkSession(r) /\ linked[link[r].login] = NoDevice
                  \/ RelinkSession(r) /\ linked[link[r].login] = link[r].current
         /\ UNCHANGED <<deviceVars, registration, live, signOut>>
<1>1. CASE LinkSession(r)
  BY <1>1 DEF LinkSession, TypeOK
<1>2. CASE ReadLinkedDevice(r)
  BY <1>2 DEF ReadLinkedDevice, TypeOK, loginVars
<1>3. CASE CheckLinkedDevice(r)
  BY <1>3 DEF CheckLinkedDevice, TypeOK, loginVars
<1>4. CASE RelinkSession(r)
  BY <1>4 DEF RelinkSession, TypeOK
<1>. QED  BY <1>1, <1>2, <1>3, <1>4

LEMMA NoteLinkType ==
  ASSUME TypeOK, NEW s \in Logins, NEW d \in Devices, NoteLink(s, d)
  PROVE  linked' \in [Logins -> Devices \cup {NoDevice}] /\ lateLinks' \subseteq Logins \X Devices
BY DEF NoteLink, TypeOK

LEMMA LinkTypeStep ==
  ASSUME TypeOK, NEW r \in LinkRequests,
         \/ \E s \in Logins, d \in Devices : BeginLink(r, s, d)
         \/ LinkSession(r) \/ ReadLinkedDevice(r) \/ CheckLinkedDevice(r) \/ RelinkSession(r)
  PROVE  TypeOK'
<1>1. ASSUME NEW s \in Logins, NEW d \in Devices, BeginLink(r, s, d)
      PROVE  TypeOK'
  BY <1>1 DEF BeginLink, TypeOK, Link, deviceVars, loginVars
<1>2. CASE LinkSession(r) \/ ReadLinkedDevice(r) \/ CheckLinkedDevice(r) \/ RelinkSession(r)
  <2>1. linked' \in [Logins -> Devices \cup {NoDevice}] /\ lateLinks' \subseteq Logins \X Devices
    <3>1. CASE UNCHANGED <<linked, lateLinks>>
      BY <3>1 DEF TypeOK
    <3>2. CASE NoteLink(link[r].login, link[r].device)
      BY <1>2, <3>2, LinkMoves, NoteLinkType
    <3>. QED  BY <1>2, <3>1, <3>2, LinkMoves
  <2>2. link' \in [LinkRequests -> Link]
    <3>1. CASE LinkSession(r)
      BY <3>1 DEF LinkSession, TypeOK, Link
    <3>2. CASE ReadLinkedDevice(r)
      <4>1. linked[link[r].login] \in Devices \cup {NoDevice}
        BY <1>2, LinkMoves DEF TypeOK
      <4>2. PICK a \in {"over", "checking"}, q \in Devices \cup {NoDevice} :
              link' = [link EXCEPT ![r].at = a, ![r].current = q]
        BY <3>2, <4>1 DEF ReadLinkedDevice
      <4>. DEFINE k == [link[r] EXCEPT !.at = a, !.current = q]
      <4>3. link[r] \in Link /\ link \in [LinkRequests -> Link]
        BY DEF TypeOK
      <4>4. k \in Link
        BY <4>3 DEF Link
      <4>5. link' = [link EXCEPT ![r] = k]
        BY <4>2
      <4>. QED  BY <4>3, <4>4, <4>5
    <3>3. CASE CheckLinkedDevice(r)
      BY <3>3 DEF CheckLinkedDevice, TypeOK, Link
    <3>4. CASE RelinkSession(r)
      BY <3>4 DEF RelinkSession, TypeOK, Link
    <3>. QED  BY <1>2, <3>1, <3>2, <3>3, <3>4
  <2>3. ASSUME NEW q \in LinkRequests
        PROVE  /\ link'[q].at # "idle" => link'[q].login \in Logins /\ link'[q].device \in Devices
               /\ link'[q].at \in {"checking", "relinking"} => link'[q].current \in Devices
    <3>1. CASE q # r
      <4>1. link'[q] = link[q]
        BY <1>2, <3>1 DEF TypeOK, LinkSession, ReadLinkedDevice, CheckLinkedDevice, RelinkSession
      <4>. QED  BY <4>1 DEF TypeOK
    <3>2. CASE q = r
      <4>1. link[r] \in Link /\ link \in [LinkRequests -> Link]
        BY DEF TypeOK
      <4>2. link'[r].login = link[r].login /\ link'[r].device = link[r].device
        <5>1. CASE LinkSession(r)
          BY <4>1, <5>1 DEF LinkSession, Link
        <5>2. CASE ReadLinkedDevice(r)
          BY <4>1, <5>2 DEF ReadLinkedDevice, Link
        <5>3. CASE CheckLinkedDevice(r)
          BY <4>1, <5>3 DEF CheckLinkedDevice, Link
        <5>4. CASE RelinkSession(r)
          BY <4>1, <5>4 DEF RelinkSession, Link
        <5>. QED  BY <1>2, <5>1, <5>2, <5>3, <5>4
      <4>3. link'[r].at \in {"checking", "relinking"} => link'[r].current \in Devices
        <5>1. CASE LinkSession(r)
          BY <4>1, <5>1 DEF LinkSession, Link
        <5>2. CASE ReadLinkedDevice(r)
          <6>1. linked[link[r].login] \in Devices \cup {NoDevice}
            BY <1>2, LinkMoves DEF TypeOK
          <6>. QED  BY <4>1, <5>2, <6>1 DEF ReadLinkedDevice, Link
        <5>3. CASE CheckLinkedDevice(r)
          <6>1. link[r].current \in Devices
            BY <5>3 DEF CheckLinkedDevice, TypeOK
          <6>. QED  BY <4>1, <5>3, <6>1 DEF CheckLinkedDevice, Link
        <5>4. CASE RelinkSession(r)
          BY <4>1, <5>4 DEF RelinkSession, Link
        <5>. QED  BY <1>2, <5>1, <5>2, <5>3, <5>4
      <4>. QED  BY <1>2, <3>2, <4>2, <4>3, LinkMoves
    <3>. QED  BY <3>1, <3>2
  <2>. QED  BY <1>2, <2>1, <2>2, <2>3, LinkMoves DEF TypeOK, deviceVars
<1>. QED  BY <1>1, <1>2

\* What one sign-out does to the rest of the state, and where it may come from.
LEMMA SignOutMoves ==
  ASSUME TypeOK, NEW r \in SignOuts,
         \/ RevokeDevice(r) \/ AskAboutCaller(r) \/ ListLogins(r) \/ Report(r) \/ SignOutFails(r)
         \/ \E s \in Logins : EndLogin(r, s) \/ LoginSurvives(r, s)
  PROVE  /\ signOut[r].at # "idle"
         /\ signOut[r].caller \in Logins /\ signOut[r].device \in Devices
         /\ UNCHANGED <<age, registration, linked, lateLinks, link>>
         /\ status' \in {status, [status EXCEPT ![signOut[r].device] = "revoked"]}
         /\ live' \subseteq live
         /\ \E q \in SignOut : /\ signOut' = [signOut EXCEPT ![r] = q]
                               /\ q.kind = signOut[r].kind
                               /\ q.device = signOut[r].device
                               /\ q.caller = signOut[r].caller
<1>1. signOut[r] \in SignOut /\ signOut \in [SignOuts -> SignOut]
  BY DEF TypeOK
<1>2. signOut[r].at # "idle"
  BY DEF RevokeDevice, AskAboutCaller, ListLogins, Report, SignOutFails, EndLogin, LoginSurvives
<1>3. signOut[r].caller \in Logins /\ signOut[r].device \in Devices
  BY <1>2 DEF TypeOK
<1>4. CASE RevokeDevice(r)
  <2>. DEFINE q == [signOut[r] EXCEPT !.at = "asking"]
  <2>1. q \in SignOut /\ q.kind = signOut[r].kind /\ q.device = signOut[r].device
        /\ q.caller = signOut[r].caller
    BY <1>1 DEF SignOut
  <2>2. signOut' = [signOut EXCEPT ![r] = q]
    BY <1>4 DEF RevokeDevice
  <2>. QED  BY <1>2, <1>3, <1>4, <2>1, <2>2 DEF RevokeDevice, loginVars
<1>5. CASE AskAboutCaller(r)
  <2>1. PICK k \in SUBSET Logins :
          signOut' = [signOut EXCEPT ![r].at = "listing", ![r].spared = k]
    BY <1>3, <1>5 DEF AskAboutCaller
  <2>. DEFINE q == [signOut[r] EXCEPT !.at = "listing", !.spared = k]
  <2>2. q \in SignOut /\ q.kind = signOut[r].kind /\ q.device = signOut[r].device
        /\ q.caller = signOut[r].caller
    BY <1>1 DEF SignOut
  <2>3. signOut' = [signOut EXCEPT ![r] = q]
    BY <2>1
  <2>. QED  BY <1>2, <1>3, <1>5, <2>2, <2>3 DEF AskAboutCaller, deviceVars, loginVars
<1>6. CASE ListLogins(r)
  <2>1. PICK k \in SUBSET Logins :
          signOut' = [signOut EXCEPT ![r].at = "ending", ![r].ending = k]
    BY <1>6 DEF ListLogins, TypeOK
  <2>. DEFINE q == [signOut[r] EXCEPT !.at = "ending", !.ending = k]
  <2>2. q \in SignOut /\ q.kind = signOut[r].kind /\ q.device = signOut[r].device
        /\ q.caller = signOut[r].caller
    BY <1>1 DEF SignOut
  <2>3. signOut' = [signOut EXCEPT ![r] = q]
    BY <2>1
  <2>. QED  BY <1>2, <1>3, <1>6, <2>2, <2>3 DEF ListLogins, deviceVars, loginVars
<1>7. CASE Report(r) \/ SignOutFails(r)
  <2>1. PICK a \in {"done", "failed"} : signOut' = [signOut EXCEPT ![r].at = a]
    BY <1>7 DEF Report, SignOutFails
  <2>. DEFINE q == [signOut[r] EXCEPT !.at = a]
  <2>2. q \in SignOut /\ q.kind = signOut[r].kind /\ q.device = signOut[r].device
        /\ q.caller = signOut[r].caller
    BY <1>1 DEF SignOut
  <2>3. signOut' = [signOut EXCEPT ![r] = q]
    BY <2>1
  <2>. QED  BY <1>2, <1>3, <1>7, <2>2, <2>3 DEF Report, SignOutFails, deviceVars, loginVars
<1>8. ASSUME NEW s \in Logins, EndLogin(r, s)
      PROVE  /\ UNCHANGED <<age, registration, linked, lateLinks, link>>
             /\ status' = status /\ live' \subseteq live
             /\ \E q \in SignOut : /\ signOut' = [signOut EXCEPT ![r] = q]
                                   /\ q.kind = signOut[r].kind
                                   /\ q.device = signOut[r].device
                                   /\ q.caller = signOut[r].caller
  <2>. DEFINE q == [signOut[r] EXCEPT !.ending = signOut[r].ending \ {s}]
  <2>1. q \in SignOut /\ q.kind = signOut[r].kind /\ q.device = signOut[r].device
        /\ q.caller = signOut[r].caller
    BY <1>1 DEF SignOut
  <2>2. signOut' = [signOut EXCEPT ![r] = q]
    BY <1>8 DEF EndLogin
  <2>. QED  BY <1>8, <2>1, <2>2 DEF EndLogin, deviceVars
<1>9. ASSUME NEW s \in Logins, LoginSurvives(r, s)
      PROVE  /\ UNCHANGED <<age, registration, linked, lateLinks, link>>
             /\ status' = status /\ live' \subseteq live
             /\ \E q \in SignOut : /\ signOut' = [signOut EXCEPT ![r] = q]
                                   /\ q.kind = signOut[r].kind
                                   /\ q.device = signOut[r].device
                                   /\ q.caller = signOut[r].caller
  <2>. DEFINE q == [signOut[r] EXCEPT !.ending = signOut[r].ending \ {s},
                                      !.survivors = signOut[r].survivors \cup {s}]
  <2>1. q \in SignOut /\ q.kind = signOut[r].kind /\ q.device = signOut[r].device
        /\ q.caller = signOut[r].caller
    BY <1>1 DEF SignOut
  <2>2. signOut' = [signOut EXCEPT ![r] = q]
    BY <1>9 DEF LoginSurvives
  <2>. QED  BY <1>9, <2>1, <2>2 DEF LoginSurvives, deviceVars, loginVars
<1>. QED  BY <1>2, <1>3, <1>4, <1>5, <1>6, <1>7, <1>8, <1>9

LEMMA SignOutTypeStep ==
  ASSUME TypeOK, NEW r \in SignOuts,
         \/ RevokeDevice(r) \/ AskAboutCaller(r) \/ ListLogins(r) \/ Report(r) \/ SignOutFails(r)
         \/ \E s \in Logins : EndLogin(r, s) \/ LoginSurvives(r, s)
  PROVE  TypeOK'
<1>1. PICK q \in SignOut : /\ signOut' = [signOut EXCEPT ![r] = q]
                           /\ q.device = signOut[r].device
                           /\ q.caller = signOut[r].caller
  BY SignOutMoves
<1>2. /\ signOut' \in [SignOuts -> SignOut]
      /\ \A p \in SignOuts :
           signOut'[p].at # "idle" => signOut'[p].caller \in Logins /\ signOut'[p].device \in Devices
  BY <1>1, SignOutMoves DEF TypeOK
<1>3. status' \in [Devices -> {"absent", "active", "revoked"}] /\ live' \subseteq Logins
  BY SignOutMoves DEF TypeOK
<1>4. UNCHANGED <<age, registration, linked, lateLinks, link>>
  BY SignOutMoves
<1>. QED  BY <1>2, <1>3, <1>4 DEF TypeOK

LEMMA TypeStep == TypeOK /\ [Next]_vars => TypeOK'
<1>. SUFFICES ASSUME TypeOK, [Next]_vars PROVE TypeOK'
  OBVIOUS
<1>1. ASSUME NEW d \in Devices,
             \/ LockAccount(d) \/ CountDevices(d) \/ ChooseVictim(d) \/ CreateDevice(d)
             \/ RefuseRegistration(d) \/ Touch(d) \/ TimePasses(d)
      PROVE  TypeOK'
  BY <1>1, RegistrationTypeStep
<1>2. CASE RetireDormantDevices
  <2>1. status' \in [Devices -> {"absent", "active", "revoked"}]
    BY <1>2 DEF RetireDormantDevices, TypeOK
  <2>. QED  BY <1>2, <2>1 DEF RetireDormantDevices, TypeOK, loginVars
<1>3. ASSUME NEW r \in LinkRequests,
             \/ \E s \in Logins, d \in Devices : BeginLink(r, s, d)
             \/ LinkSession(r) \/ ReadLinkedDevice(r) \/ CheckLinkedDevice(r) \/ RelinkSession(r)
      PROVE  TypeOK'
  BY <1>3, LinkTypeStep
<1>4. ASSUME NEW r \in SignOuts, NEW kind \in {"revoke", "sign out"}, NEW d \in Devices,
             NEW s \in Logins, BeginSignOut(r, kind, d, s)
      PROVE  TypeOK'
  <2>1. PICK a \in {"revoking", "asking"} :
          signOut' = [signOut EXCEPT ![r].at = a, ![r].kind = kind, ![r].device = d, ![r].caller = s]
    BY <1>4 DEF BeginSignOut
  <2>. DEFINE q == [signOut[r] EXCEPT !.at = a, !.kind = kind, !.device = d, !.caller = s]
  <2>4. signOut[r] \in SignOut /\ signOut \in [SignOuts -> SignOut]
    BY DEF TypeOK
  <2>5. q \in SignOut /\ q.caller = s /\ q.device = d
    BY <2>4 DEF SignOut
  <2>6. signOut' = [signOut EXCEPT ![r] = q]
    BY <2>1
  <2>. HIDE DEF q
  <2>2. signOut' \in [SignOuts -> SignOut]
    BY <2>4, <2>5, <2>6
  <2>3. \A p \in SignOuts :
          signOut'[p].at # "idle" => signOut'[p].caller \in Logins /\ signOut'[p].device \in Devices
    BY <2>4, <2>5, <2>6 DEF TypeOK
  <2>. QED  BY <1>4, <2>2, <2>3 DEF BeginSignOut, TypeOK, deviceVars, loginVars
<1>5. ASSUME NEW r \in SignOuts,
             \/ RevokeDevice(r) \/ AskAboutCaller(r) \/ ListLogins(r) \/ Report(r) \/ SignOutFails(r)
             \/ \E s \in Logins : EndLogin(r, s) \/ LoginSurvives(r, s)
      PROVE  TypeOK'
  BY <1>5, SignOutTypeStep
<1>6. CASE UNCHANGED vars
  BY <1>6 DEF vars, deviceVars, loginVars, TypeOK
<1>. QED  BY <1>1, <1>2, <1>3, <1>4, <1>5, <1>6 DEF Next

\* TypeOK: rows and calls hold what they may.
THEOREM DeviceLoginsTypeCorrect == Spec => []TypeOK
BY TypeInit, TypeStep, PTL DEF Spec

-----------------------------------------------------------------------------
(* The limit on active devices. *)

\* One registration at a time, which is that of a device that does not exist yet.
OneAtATime ==
  \A d, e \in Devices : registration[d].at # "none" /\ registration[e].at # "none" => d = e

NewIsAbsent == \A d \in Devices : registration[d].at # "none" => status[d] = "absent"

\* A sign-out is about a device that exists.
SignedOutIsKnown == \A r \in SignOuts : signOut[r].at # "idle" => status[signOut[r].device] # "absent"

\* A registration about to create leaves room for its device.
RoomMade ==
  \A d \in Devices : registration[d].at = "creating" =>
    Cardinality(Active \ {registration[d].victim}) < MaxActiveDevices

CapInv == OneAtATime /\ NewIsAbsent /\ SignedOutIsKnown /\ RoomMade /\ CapHolds

Registering(d) ==
  LockAccount(d) \/ CountDevices(d) \/ ChooseVictim(d) \/ CreateDevice(d) \/ RefuseRegistration(d)

\* Outside registrations devices only get revoked.
LEMMA OnlyRevocations ==
  ASSUME TypeOK, SignedOutIsKnown, [Next]_vars, ~\E d \in Devices : Registering(d)
  PROVE  /\ UNCHANGED registration
         /\ \A d \in Devices : status'[d] # status[d]
                                 => status[d] # "absent" /\ status'[d] = "revoked"
<1>1. ASSUME NEW d \in Devices, Touch(d) \/ TimePasses(d)
      PROVE  UNCHANGED <<registration, status>>
  BY <1>1 DEF Touch, TimePasses
<1>2. CASE RetireDormantDevices
  BY <1>2 DEF RetireDormantDevices, Active, TypeOK
<1>3. ASSUME NEW r \in LinkRequests,
             \/ \E s \in Logins, d \in Devices : BeginLink(r, s, d)
             \/ LinkSession(r) \/ ReadLinkedDevice(r) \/ CheckLinkedDevice(r) \/ RelinkSession(r)
      PROVE  UNCHANGED <<registration, status>>
  BY <1>3 DEF BeginLink, LinkSession, ReadLinkedDevice, CheckLinkedDevice, RelinkSession, deviceVars
<1>4. ASSUME NEW r \in SignOuts, NEW kind \in {"revoke", "sign out"}, NEW d \in Devices,
             NEW s \in Logins, BeginSignOut(r, kind, d, s)
      PROVE  UNCHANGED <<registration, status>>
  BY <1>4 DEF BeginSignOut, deviceVars
<1>5. ASSUME NEW r \in SignOuts,
             \/ RevokeDevice(r) \/ AskAboutCaller(r) \/ ListLogins(r) \/ Report(r) \/ SignOutFails(r)
             \/ \E s \in Logins : EndLogin(r, s) \/ LoginSurvives(r, s)
      PROVE  /\ UNCHANGED registration
             /\ \A d \in Devices : status'[d] # status[d]
                                     => status[d] # "absent" /\ status'[d] = "revoked"
  <2>1. /\ signOut[r].device \in Devices
        /\ signOut[r].at # "idle"
        /\ UNCHANGED registration
        /\ status' \in {status, [status EXCEPT ![signOut[r].device] = "revoked"]}
    BY <1>5, SignOutMoves
  <2>. QED  BY <2>1 DEF TypeOK, SignedOutIsKnown
<1>6. CASE UNCHANGED vars
  BY <1>6 DEF vars, deviceVars
<1>. QED  BY <1>1, <1>2, <1>3, <1>4, <1>5, <1>6 DEF Next, Registering

\* What registrations do to the table of devices.
LEMMA OnlyCreations ==
  ASSUME TypeOK, NEW d \in Devices, Registering(d)
  PROVE  /\ UNCHANGED signOut
         /\ registration[d].at = "none" => LockAccount(d)
         /\ UNCHANGED status \/ (CreateDevice(d) /\ registration[d].at = "creating")
         /\ \A e \in Devices : e # d => registration'[e] = registration[e]
<1>1. CASE CreateDevice(d)
  BY <1>1 DEF CreateDevice, TypeOK, Registration
<1>2. CASE LockAccount(d) \/ CountDevices(d) \/ ChooseVictim(d) \/ RefuseRegistration(d)
  <2>1. UNCHANGED <<status, signOut>> /\ \A e \in Devices : e # d => registration'[e] = registration[e]
    <3>1. CASE LockAccount(d)
      BY <3>1 DEF LockAccount, TypeOK, deviceVars
    <3>2. CASE CountDevices(d)
      BY <3>2 DEF CountDevices, TypeOK, deviceVars
    <3>3. CASE ChooseVictim(d)
      BY <3>3 DEF ChooseVictim, TypeOK, deviceVars
    <3>4. CASE RefuseRegistration(d)
      BY <3>4 DEF RefuseRegistration, TypeOK, deviceVars
    <3>. QED  BY <1>2, <3>1, <3>2, <3>3, <3>4
  <2>2. registration[d].at = "none" => LockAccount(d)
    BY <1>2 DEF CountDevices, ChooseVictim, RefuseRegistration
  <2>. QED  BY <2>1, <2>2
<1>. QED  BY <1>1, <1>2 DEF Registering

LEMMA ExclusionStep ==
  TypeOK /\ OneAtATime /\ NewIsAbsent /\ SignedOutIsKnown /\ [Next]_vars
    => OneAtATime' /\ NewIsAbsent' /\ SignedOutIsKnown'
<1>. SUFFICES ASSUME TypeOK, OneAtATime, NewIsAbsent, SignedOutIsKnown, [Next]_vars
              PROVE  OneAtATime' /\ NewIsAbsent' /\ SignedOutIsKnown'
  OBVIOUS
<1>1. ASSUME NEW d \in Devices, Registering(d)
      PROVE  OneAtATime' /\ NewIsAbsent'
  <2>1. \A e \in Devices : e # d => registration[e].at = "none" /\ registration'[e].at = "none"
    <3>1. CASE registration[d].at = "none"
      BY <1>1, <3>1, OnlyCreations DEF LockAccount
    <3>2. CASE registration[d].at # "none"
      BY <1>1, <3>2, OnlyCreations DEF OneAtATime
    <3>. QED  BY <3>1, <3>2
  <2>2. registration'[d].at # "none" => status'[d] = "absent"
    <3>1. CASE CreateDevice(d)
      BY <3>1 DEF CreateDevice, TypeOK, Registration, NotRegistering
    <3>2. CASE UNCHANGED status
      BY <1>1, <3>2, OnlyCreations DEF NewIsAbsent, LockAccount
    <3>. QED  BY <1>1, <3>1, <3>2, OnlyCreations
  <2>. QED  BY <2>1, <2>2 DEF OneAtATime, NewIsAbsent
<1>2. ASSUME ~\E d \in Devices : Registering(d)
      PROVE  OneAtATime' /\ NewIsAbsent'
  BY <1>2, OnlyRevocations DEF OneAtATime, NewIsAbsent
<1>3. \A d \in Devices : status[d] # "absent" => status'[d] # "absent"
  <2>1. ASSUME NEW e \in Devices, CreateDevice(e)
        PROVE  \A d \in Devices : status[d] # "absent" => status'[d] # "absent"
    BY <2>1 DEF CreateDevice, TypeOK
  <2>2. ASSUME NEW e \in Devices, Registering(e)
        PROVE  \A d \in Devices : status[d] # "absent" => status'[d] # "absent"
    BY <2>1, <2>2, OnlyCreations
  <2>3. ASSUME ~\E d \in Devices : Registering(d)
        PROVE  \A d \in Devices : status[d] # "absent" => status'[d] # "absent"
    BY <2>3, OnlyRevocations
  <2>. QED  BY <2>2, <2>3
<1>4. SignedOutIsKnown'
  <2>. SUFFICES ASSUME NEW r \in SignOuts, signOut'[r].at # "idle"
                PROVE  status'[signOut'[r].device] # "absent"
    BY DEF SignedOutIsKnown
  <2>1. CASE signOut'[r] = signOut[r]
    BY <1>3, <2>1 DEF SignedOutIsKnown, TypeOK
  <2>2. ASSUME NEW q \in SignOuts, NEW kind \in {"revoke", "sign out"}, NEW d \in Devices,
               NEW s \in Logins, BeginSignOut(q, kind, d, s)
        PROVE  signOut'[r] = signOut[r] \/ status'[signOut'[r].device] # "absent"
    <3>1. CASE q = r
      <4>1. signOut[r] \in SignOut /\ signOut \in [SignOuts -> SignOut]
        BY DEF TypeOK
      <4>2. signOut'[r].device = d
        BY <2>2, <3>1, <4>1 DEF BeginSignOut, SignOut
      <4>. QED  BY <2>2, <4>2 DEF BeginSignOut, deviceVars
    <3>2. CASE q # r
      BY <2>2, <3>2 DEF BeginSignOut, TypeOK
    <3>. QED  BY <3>1, <3>2
  <2>3. ASSUME NEW q \in SignOuts,
             \/ RevokeDevice(q) \/ AskAboutCaller(q) \/ ListLogins(q) \/ Report(q) \/ SignOutFails(q)
             \/ \E s \in Logins : EndLogin(q, s) \/ LoginSurvives(q, s)
        PROVE  signOut'[r] = signOut[r] \/ status'[signOut'[r].device] # "absent"
    <3>1. PICK k \in SignOut : signOut' = [signOut EXCEPT ![q] = k] /\ k.device = signOut[q].device
      BY <2>3, SignOutMoves
    <3>2. signOut[q].at # "idle" /\ signOut[q].device \in Devices
      BY <2>3, SignOutMoves
    <3>3. CASE q = r
      BY <1>3, <3>1, <3>2, <3>3 DEF SignedOutIsKnown, TypeOK
    <3>4. CASE q # r
      BY <3>1, <3>4 DEF TypeOK
    <3>. QED  BY <3>3, <3>4
  <2>4. ASSUME NEW d \in Devices,
               \/ LockAccount(d) \/ CountDevices(d) \/ ChooseVictim(d) \/ CreateDevice(d)
               \/ RefuseRegistration(d) \/ Touch(d) \/ TimePasses(d)
        PROVE  signOut' = signOut
    BY <2>4, OnlyCreations DEF Registering, Touch, TimePasses
  <2>5. ASSUME NEW q \in LinkRequests,
               \/ \E s \in Logins, d \in Devices : BeginLink(q, s, d)
               \/ LinkSession(q) \/ ReadLinkedDevice(q) \/ CheckLinkedDevice(q) \/ RelinkSession(q)
        PROVE  signOut' = signOut
    BY <2>5 DEF BeginLink, LinkSession, ReadLinkedDevice, CheckLinkedDevice, RelinkSession
  <2>6. CASE RetireDormantDevices \/ UNCHANGED vars
    BY <2>1, <2>6 DEF RetireDormantDevices, vars
  <2>. QED  BY <2>1, <2>2, <2>3, <2>4, <2>5, <2>6 DEF Next
<1>. QED  BY <1>1, <1>2, <1>4

\* Cardinalities of sets of devices.
LEMMA DeviceCount ==
  ASSUME NEW S \in SUBSET Devices, NEW T \in SUBSET Devices, NEW d \in Devices
  PROVE  /\ Cardinality(S) \in Nat
         /\ S \subseteq T => Cardinality(S) <= Cardinality(T)
         /\ Cardinality(S \cup {d}) <= Cardinality(S) + 1
         /\ d \in S => Cardinality(S \ {d}) = Cardinality(S) - 1
<1>1. IsFiniteSet(S) /\ IsFiniteSet(T)
  BY DevicesAreFinite, FS_Subset
<1>. QED  BY <1>1, FS_CardinalityType, FS_Subset, FS_AddElement, FS_RemoveElement, SMTT(20)

LEMMA CapStep == TypeOK /\ CapInv /\ [Next]_vars => CapInv'
<1>. SUFFICES ASSUME TypeOK, CapInv, [Next]_vars
              PROVE  RoomMade' /\ CapHolds'
  BY ExclusionStep DEF CapInv
<1>. USE DEF CapInv
<1>0. Active \in SUBSET Devices /\ Active' \in SUBSET Devices /\ MaxActiveDevices \in Nat
  BY CapIsPositive DEF Active
<1>1. ASSUME ~\E d \in Devices : Registering(d)
      PROVE  RoomMade' /\ CapHolds'
  <2>1. UNCHANGED registration /\ Active' \subseteq Active
    BY <1>1, OnlyRevocations DEF Active
  <2>2. CapHolds'
    <3>1. IsFiniteSet(Active)
      BY <1>0, DevicesAreFinite, FS_Subset
    <3>2. /\ Cardinality(Active') <= Cardinality(Active)
          /\ Cardinality(Active') \in Nat /\ Cardinality(Active) \in Nat
      BY <2>1, <3>1, FS_Subset, FS_CardinalityType
    <3>. QED  BY <1>0, <3>2 DEF CapHolds
  <2>3. ASSUME NEW d \in Devices, registration'[d].at = "creating"
        PROVE  Cardinality(Active' \ {registration'[d].victim}) < MaxActiveDevices
    <3>. DEFINE v == registration[d].victim
    <3>1. Cardinality(Active \ {v}) < MaxActiveDevices
      BY <2>1, <2>3 DEF RoomMade
    <3>2. /\ Active' \ {v} \in SUBSET Devices /\ Active \ {v} \in SUBSET Devices
          /\ Active' \ {v} \subseteq Active \ {v}
      BY <1>0, <2>1
    <3>3. /\ Cardinality(Active' \ {v}) <= Cardinality(Active \ {v})
          /\ Cardinality(Active' \ {v}) \in Nat /\ Cardinality(Active \ {v}) \in Nat
      BY <2>3, <3>2, DeviceCount
    <3>. QED  BY <1>0, <2>1, <3>1, <3>3
  <2>. QED  BY <2>2, <2>3 DEF RoomMade
<1>2. ASSUME NEW d \in Devices, CreateDevice(d)
      PROVE  RoomMade' /\ CapHolds'
  <2>. DEFINE v == registration[d].victim
  <2>1. Cardinality(Active \ {v}) < MaxActiveDevices
    BY <1>2 DEF CreateDevice, RoomMade
  <2>2. Active' \subseteq (Active \ {v}) \cup {d}
    BY <1>2 DEF CreateDevice, Active, TypeOK
  <2>3. (Active \ {v}) \in SUBSET Devices /\ (Active \ {v}) \cup {d} \in SUBSET Devices
    BY <1>0
  <2>4. /\ Cardinality(Active') <= Cardinality((Active \ {v}) \cup {d})
        /\ Cardinality((Active \ {v}) \cup {d}) <= Cardinality(Active \ {v}) + 1
        /\ Cardinality(Active') \in Nat /\ Cardinality(Active \ {v}) \in Nat
        /\ Cardinality((Active \ {v}) \cup {d}) \in Nat
    BY <1>0, <2>2, <2>3, DeviceCount
  <2>5. CapHolds'
    BY <1>0, <2>1, <2>4 DEF CapHolds
  <2>6. \A e \in Devices : registration'[e].at # "creating"
    <3>1. \A e \in Devices : e # d => registration'[e] = registration[e] /\ registration[e].at = "none"
      BY <1>2, OnlyCreations DEF Registering, OneAtATime, CreateDevice
    <3>2. registration'[d] = NotRegistering
      BY <1>2 DEF CreateDevice, TypeOK
    <3>. QED  BY <3>1, <3>2 DEF NotRegistering
  <2>. QED  BY <2>5, <2>6 DEF RoomMade
<1>3. ASSUME NEW d \in Devices,
             LockAccount(d) \/ CountDevices(d) \/ ChooseVictim(d) \/ RefuseRegistration(d)
      PROVE  RoomMade' /\ CapHolds'
  <2>1. UNCHANGED status /\ Active' = Active
    BY <1>3 DEF LockAccount, CountDevices, ChooseVictim, RefuseRegistration, deviceVars, Active
  <2>2. CapHolds'
    BY <2>1 DEF CapHolds
  <2>3. ASSUME NEW e \in Devices, registration'[e].at = "creating", e # d
        PROVE  FALSE
    BY <1>3, <2>3, OnlyCreations DEF Registering, OneAtATime, LockAccount
  <2>4. ASSUME registration'[d].at = "creating"
        PROVE  Cardinality(Active \ {registration'[d].victim}) < MaxActiveDevices
    <3>. USE <2>4
    <3>0. registration \in [Devices -> Registration] /\ registration[d] \in Registration
      BY DEF TypeOK
    <3>1. CASE LockAccount(d)
      BY <3>0, <3>1 DEF LockAccount, Registration
    <3>2. CASE CountDevices(d)
      <4>1. Cardinality(Active) < MaxActiveDevices
        <5>1. Cardinality(Active) \in Nat
          BY <1>0, DeviceCount
        <5>. QED  BY <1>0, <3>0, <3>2, <5>1 DEF CountDevices, Registration
      <4>2. registration'[d].victim = NoDevice
        BY <3>0, <3>2 DEF CountDevices, Registration, TypeOK
      <4>3. Active \ {NoDevice} = Active
        BY <1>0, NotADevice
      <4>. QED  BY <4>1, <4>2, <4>3
    <3>3. CASE ChooseVictim(d)
      <4>1. PICK v \in Active :
              registration' = [registration EXCEPT ![d] = [at |-> "creating", victim |-> v]]
        BY <3>3 DEF ChooseVictim, Stalest
      <4>2. registration'[d].victim = v
        BY <3>0, <4>1
      <4>3. Cardinality(Active \ {v}) = Cardinality(Active) - 1 /\ Cardinality(Active) \in Nat
        BY <1>0, <4>1, DeviceCount
      <4>. QED  BY <1>0, <4>2, <4>3 DEF CapHolds
    <3>4. CASE RefuseRegistration(d)
      BY <3>0, <3>4 DEF RefuseRegistration, NotRegistering
    <3>. QED  BY <1>3, <3>1, <3>2, <3>3, <3>4
  <2>. QED  BY <2>1, <2>2, <2>3, <2>4 DEF RoomMade
<1>. QED  BY <1>1, <1>2, <1>3 DEF Registering

LEMMA CapInit == Init => CapInv
<1>. SUFFICES ASSUME Init PROVE CapInv
  OBVIOUS
<1>1. OneAtATime /\ NewIsAbsent /\ SignedOutIsKnown /\ RoomMade
  BY DEF Init, OneAtATime, NewIsAbsent, SignedOutIsKnown, RoomMade, NotRegistering
<1>2. Active = {}
  BY DEF Init, Active
<1>3. CapHolds
  BY <1>2, FS_EmptySet, CapIsPositive DEF CapHolds
<1>. QED  BY <1>1, <1>3 DEF CapInv

\* CapHolds: registrations that race each other, revocations and the nightly job never take an
\* account over its limit.
THEOREM CapSafe == Spec => []CapHolds
<1>1. Spec => []CapInv
  BY CapInit, CapStep, DeviceLoginsTypeCorrect, PTL DEF Spec
<1>2. CapInv => CapHolds
  BY DEF CapInv
<1>. QED  BY <1>1, <1>2, PTL

-----------------------------------------------------------------------------
(* Links of logins. *)

\* A revoked device stays revoked.
LEMMA RevokedForGood ==
  ASSUME TypeOK, CapInv, [Next]_vars, NEW d \in Devices, status[d] = "revoked"
  PROVE  status'[d] = "revoked"
<1>1. ASSUME NEW e \in Devices, Registering(e)
      PROVE  status'[d] = "revoked"
  <2>1. CASE UNCHANGED status
    BY <2>1
  <2>2. CASE CreateDevice(e) /\ registration[e].at = "creating"
    <3>1. status[e] = "absent"
      BY <2>2 DEF CapInv, NewIsAbsent
    <3>. QED  BY <2>2, <3>1 DEF CreateDevice, TypeOK
  <2>. QED  BY <1>1, <2>1, <2>2, OnlyCreations
<1>2. ASSUME ~\E e \in Devices : Registering(e)
      PROVE  status'[d] = "revoked"
  BY <1>2, OnlyRevocations DEF CapInv
<1>. QED  BY <1>1, <1>2

\* A request about to relink has seen that the device its login is linked to is dead.
RelinkInv == \A r \in LinkRequests : link[r].at = "relinking" => status[link[r].current] = "revoked"

\* A link is only looked at when there is one, so the device looked at exists.
LinkedIsKnown ==
  /\ \A s \in Logins : linked[s] # NoDevice => status[linked[s]] # "absent"
  /\ \A r \in LinkRequests :
       /\ link[r].at # "idle" => status[link[r].device] # "absent"
       /\ link[r].at = "checking" => status[link[r].current] # "absent"

LinkInv == LinkedIsKnown /\ RelinkInv

LEMMA KnownForGood ==
  ASSUME TypeOK, CapInv, [Next]_vars, NEW d \in Devices, status[d] # "absent"
  PROVE  status'[d] # "absent"
<1>1. ASSUME NEW e \in Devices, Registering(e)
      PROVE  status'[d] # "absent"
  <2>1. CASE UNCHANGED status
    BY <2>1
  <2>2. CASE CreateDevice(e)
    BY <2>2 DEF CreateDevice, TypeOK
  <2>. QED  BY <1>1, <2>1, <2>2, OnlyCreations
<1>2. ASSUME ~\E e \in Devices : Registering(e)
      PROVE  status'[d] # "absent"
  BY <1>2, OnlyRevocations DEF CapInv
<1>. QED  BY <1>1, <1>2

\* Steps that are not of a link request leave requests and links alone.
LEMMA OnlyLinkRequests ==
  ASSUME TypeOK, [Next]_vars,
         ~\E r \in LinkRequests :
            \/ \E s \in Logins, d \in Devices : BeginLink(r, s, d)
            \/ LinkSession(r) \/ ReadLinkedDevice(r) \/ CheckLinkedDevice(r) \/ RelinkSession(r)
  PROVE  UNCHANGED <<link, linked, lateLinks>>
<1>1. ASSUME NEW d \in Devices,
             \/ LockAccount(d) \/ CountDevices(d) \/ ChooseVictim(d) \/ CreateDevice(d)
             \/ RefuseRegistration(d) \/ Touch(d) \/ TimePasses(d)
      PROVE  UNCHANGED <<link, linked, lateLinks>>
  BY <1>1 DEF LockAccount, CountDevices, ChooseVictim, CreateDevice, RefuseRegistration, Touch,
     TimePasses, loginVars
<1>2. CASE RetireDormantDevices \/ UNCHANGED vars
  BY <1>2 DEF RetireDormantDevices, vars, loginVars
<1>3. ASSUME NEW r \in SignOuts, NEW kind \in {"revoke", "sign out"}, NEW d \in Devices,
             NEW s \in Logins, BeginSignOut(r, kind, d, s)
      PROVE  UNCHANGED <<link, linked, lateLinks>>
  BY <1>3 DEF BeginSignOut, loginVars
<1>4. ASSUME NEW r \in SignOuts,
             \/ RevokeDevice(r) \/ AskAboutCaller(r) \/ ListLogins(r) \/ Report(r) \/ SignOutFails(r)
             \/ \E s \in Logins : EndLogin(r, s) \/ LoginSurvives(r, s)
      PROVE  UNCHANGED <<link, linked, lateLinks>>
  BY <1>4, SignOutMoves
<1>. QED  BY <1>1, <1>2, <1>3, <1>4 DEF Next

\* The three fields of a request after its step.
LEMMA LinkFields ==
  ASSUME TypeOK, NEW r \in LinkRequests,
         LinkSession(r) \/ ReadLinkedDevice(r) \/ CheckLinkedDevice(r) \/ RelinkSession(r)
  PROVE  /\ \A q \in LinkRequests : q # r => link'[q] = link[q]
         /\ link'[r].device = link[r].device
         /\ link'[r].at = "checking" =>
              /\ link'[r].current = linked[link[r].login]
              /\ linked[link[r].login] # NoDevice
         /\ link'[r].at = "relinking" =>
              /\ link'[r].current = link[r].current
              /\ link[r].at = "checking" /\ status[link[r].current] # "active"
<1>1. link[r] \in Link /\ link \in [LinkRequests -> Link]
  BY DEF TypeOK
<1>2. CASE LinkSession(r)
  BY <1>1, <1>2 DEF LinkSession, Link
<1>3. CASE ReadLinkedDevice(r)
  BY <1>1, <1>3 DEF ReadLinkedDevice, Link
<1>4. CASE CheckLinkedDevice(r)
  BY <1>1, <1>4 DEF CheckLinkedDevice, Link
<1>5. CASE RelinkSession(r)
  BY <1>1, <1>5 DEF RelinkSession, Link
<1>. QED  BY <1>2, <1>3, <1>4, <1>5

LEMMA LinkStep == TypeOK /\ CapInv /\ LinkInv /\ [Next]_vars => LinkInv'
<1>. SUFFICES ASSUME TypeOK, CapInv, LinkInv, [Next]_vars PROVE LinkInv'
  OBVIOUS
<1>. USE DEF LinkInv
<1>0. \A d \in Devices : /\ status[d] # "absent" => status'[d] # "absent"
                         /\ status[d] = "revoked" => status'[d] = "revoked"
  BY KnownForGood, RevokedForGood
<1>1. ASSUME UNCHANGED <<link, linked>>
      PROVE  LinkInv'
  BY <1>0, <1>1 DEF LinkedIsKnown, RelinkInv, TypeOK
<1>2. ASSUME NEW r \in LinkRequests, NEW s \in Logins, NEW d \in Devices, BeginLink(r, s, d)
      PROVE  LinkInv'
  <2>1. status[d] = "active" /\ UNCHANGED <<status, linked>>
    BY <1>2 DEF BeginLink, deviceVars, loginVars
  <2>2. /\ \A q \in LinkRequests : q # r => link'[q] = link[q]
        /\ link'[r].at = "linking" /\ link'[r].device = d
    BY <1>2 DEF BeginLink, TypeOK
  <2>. QED  BY <2>1, <2>2 DEF LinkedIsKnown, RelinkInv
<1>3. ASSUME NEW r \in LinkRequests,
             LinkSession(r) \/ ReadLinkedDevice(r) \/ CheckLinkedDevice(r) \/ RelinkSession(r)
      PROVE  LinkInv'
  <2>1. UNCHANGED status /\ link[r].login \in Logins /\ link[r].device \in Devices
        /\ link[r].at # "idle"
    BY <1>3, LinkMoves DEF deviceVars
  <2>2. linked' \in {linked, [linked EXCEPT ![link[r].login] = link[r].device]}
    BY <1>3, LinkMoves DEF NoteLink
  <2>3. \A s \in Logins : linked'[s] # NoDevice => status[linked'[s]] # "absent"
    BY <2>1, <2>2 DEF LinkedIsKnown, TypeOK
  <2>4. ASSUME NEW q \in LinkRequests
        PROVE  /\ link'[q].at # "idle" => status[link'[q].device] # "absent"
               /\ link'[q].at = "checking" => status[link'[q].current] # "absent"
               /\ link'[q].at = "relinking" => status[link'[q].current] = "revoked"
    <3>1. CASE q # r
      BY <1>3, <3>1, LinkFields DEF LinkedIsKnown, RelinkInv
    <3>2. CASE q = r
      <4>1. link'[r].at = "relinking" => status[link'[r].current] = "revoked"
        <5>1. link[r].at = "checking" => link[r].current \in Devices
          BY DEF TypeOK
        <5>. QED  BY <1>3, <5>1, LinkFields DEF LinkedIsKnown, TypeOK
      <4>2. link'[r].at = "checking" => status[link'[r].current] # "absent"
        BY <1>3, <2>1, LinkFields DEF LinkedIsKnown
      <4>. QED  BY <1>3, <2>1, <3>2, <4>1, <4>2, LinkFields DEF LinkedIsKnown
    <3>. QED  BY <3>1, <3>2
  <2>. QED  BY <2>1, <2>3, <2>4 DEF LinkedIsKnown, RelinkInv
<1>. QED  BY <1>1, <1>2, <1>3, OnlyLinkRequests

LEMMA LinkInvHolds == Spec => [](TypeOK /\ CapInv /\ LinkInv)
<1>1. Init => LinkInv
  <2>. SUFFICES ASSUME Init PROVE LinkInv
    OBVIOUS
  <2>1. \A r \in LinkRequests : link[r].at = "idle"
    BY DEF Init
  <2>2. \A s \in Logins : linked[s] = NoDevice
    BY DEF Init
  <2>. QED  BY <2>1, <2>2 DEF LinkInv, LinkedIsKnown, RelinkInv
<1>. QED  BY <1>1, CapInit, CapStep, LinkStep, DeviceLoginsTypeCorrect, PTL DEF Spec

\* LinksMoveOnlyOffDeadDevices: whatever the requests that race for a login, its link moves only
\* off a device that is revoked by then.
THEOREM LinksSafe == Spec => LinksMoveOnlyOffDeadDevices
<1>1. TypeOK /\ CapInv /\ LinkInv /\ [Next]_vars
        => [\A s \in Logins :
              linked'[s] # linked[s] => linked[s] = NoDevice \/ status[linked[s]] = "revoked"]_vars
  <2>. SUFFICES ASSUME TypeOK, LinkInv, Next, NEW s \in Logins, linked'[s] # linked[s]
                PROVE  linked[s] = NoDevice \/ status[linked[s]] = "revoked"
    BY DEF vars
  <2>1. PICK r \in LinkRequests :
          LinkSession(r) \/ ReadLinkedDevice(r) \/ CheckLinkedDevice(r) \/ RelinkSession(r)
    BY OnlyLinkRequests DEF BeginLink, loginVars
  <2>2. /\ linked' = [linked EXCEPT ![link[r].login] = link[r].device]
        /\ \/ linked[link[r].login] = NoDevice
           \/ RelinkSession(r) /\ linked[link[r].login] = link[r].current
    BY <2>1, LinkMoves DEF NoteLink
  <2>3. s = link[r].login
    BY <2>2 DEF TypeOK
  <2>. QED  BY <2>2, <2>3 DEF RelinkSession, LinkInv, RelinkInv
<1>. QED  BY <1>1, LinkInvHolds, PTL DEF Spec, LinksMoveOnlyOffDeadDevices

-----------------------------------------------------------------------------
(* What a revocation owes. *)

\* The logins in a device whose link was written while the device was active.
Owed(s, d) == s \in live /\ linked[s] = d /\ <<s, d>> \notin lateLinks

\* The same in the next state.
OwedNext(s, d) == s \in live' /\ linked'[s] = d /\ <<s, d>> \notin lateLinks'

\* A revocation under way has killed the device and has not lost sight of a login it owes.
RevokeInv ==
  \A r \in SignOuts : signOut[r].kind = "revoke" =>
    LET q == signOut[r] IN
    /\ q.at \in {"asking", "listing", "ending", "done"} => status[q.device] = "revoked"
    /\ q.at = "listing" => \A s \in q.spared : ~Owed(s, q.device)
    /\ q.at = "ending" => \A s \in Logins : Owed(s, q.device) => s \in q.ending \cup q.survivors
    /\ q.at = "done" => \A s \in Logins : ~Owed(s, q.device)

\* A dead device gains no login that would be owed.
LEMMA OwedShrinks ==
  ASSUME TypeOK, CapInv, [Next]_vars, NEW s \in Logins, NEW d \in Devices,
         status[d] = "revoked", OwedNext(s, d)
  PROVE  Owed(s, d)
<1>1. live' \subseteq live
  <2>1. ASSUME NEW e \in Devices,
             \/ LockAccount(e) \/ CountDevices(e) \/ ChooseVictim(e) \/ CreateDevice(e)
             \/ RefuseRegistration(e) \/ Touch(e) \/ TimePasses(e)
        PROVE  live' = live
    BY <2>1 DEF LockAccount, CountDevices, ChooseVictim, CreateDevice, RefuseRegistration, Touch,
       TimePasses, loginVars
  <2>2. CASE RetireDormantDevices \/ UNCHANGED vars
    BY <2>2 DEF RetireDormantDevices, vars, loginVars
  <2>3. ASSUME NEW r \in LinkRequests,
             \/ \E t \in Logins, e \in Devices : BeginLink(r, t, e)
             \/ LinkSession(r) \/ ReadLinkedDevice(r) \/ CheckLinkedDevice(r) \/ RelinkSession(r)
        PROVE  live' = live
    BY <2>3, LinkMoves DEF BeginLink, loginVars
  <2>4. ASSUME NEW r \in SignOuts, NEW kind \in {"revoke", "sign out"}, NEW e \in Devices,
               NEW t \in Logins, BeginSignOut(r, kind, e, t)
        PROVE  live' = live
    BY <2>4 DEF BeginSignOut, loginVars
  <2>5. ASSUME NEW r \in SignOuts,
             \/ RevokeDevice(r) \/ AskAboutCaller(r) \/ ListLogins(r) \/ Report(r) \/ SignOutFails(r)
             \/ \E t \in Logins : EndLogin(r, t) \/ LoginSurvives(r, t)
        PROVE  live' \subseteq live
    BY <2>5, SignOutMoves
  <2>. QED  BY <2>1, <2>2, <2>3, <2>4, <2>5 DEF Next
<1>2. ASSUME UNCHANGED <<linked, lateLinks>>
      PROVE  Owed(s, d)
  BY <1>1, <1>2 DEF Owed, OwedNext
<1>3. ASSUME NEW r \in LinkRequests, NEW t \in Logins, NEW e \in Devices, BeginLink(r, t, e)
      PROVE  Owed(s, d)
  BY <1>2, <1>3 DEF BeginLink, loginVars
<1>4. ASSUME NEW r \in LinkRequests,
             LinkSession(r) \/ ReadLinkedDevice(r) \/ CheckLinkedDevice(r) \/ RelinkSession(r)
      PROVE  Owed(s, d)
  <2>1. CASE NoteLink(link[r].login, link[r].device)
    <3>1. link[r].login \in Logins /\ link[r].device \in Devices
      BY <1>4, LinkMoves
    <3>2. CASE link[r].device = d
      BY <1>1, <2>1, <3>1, <3>2 DEF NoteLink, Owed, OwedNext, TypeOK
    <3>3. CASE link[r].device # d
      <4>1. linked[s] = d
        BY <2>1, <3>1, <3>3 DEF NoteLink, Owed, OwedNext, TypeOK
      <4>2. <<s, d>> \notin lateLinks
        BY <2>1, <3>3 DEF NoteLink, Owed, OwedNext
      <4>. QED  BY <1>1, <4>1, <4>2 DEF Owed, OwedNext
    <3>. QED  BY <3>2, <3>3
  <2>. QED  BY <1>2, <1>4, <2>1, LinkMoves
<1>. QED  BY <1>2, <1>3, <1>4, OnlyLinkRequests

\* What a revocation holds on to stays enough while others move.
LEMMA RevokeElsewhere ==
  ASSUME TypeOK, CapInv, RevokeInv, [Next]_vars, NEW r \in SignOuts,
         signOut[r].kind = "revoke", signOut'[r] = signOut[r]
  PROVE  /\ signOut[r].at \in {"asking", "listing", "ending", "done"}
              => status'[signOut[r].device] = "revoked"
         /\ signOut[r].at = "listing" => \A s \in signOut[r].spared : ~OwedNext(s, signOut[r].device)
         /\ signOut[r].at = "ending" =>
              \A s \in Logins : OwedNext(s, signOut[r].device)
                => s \in signOut[r].ending \cup signOut[r].survivors
         /\ signOut[r].at = "done" => \A s \in Logins : ~OwedNext(s, signOut[r].device)
<1>. DEFINE d == signOut[r].device
<1>1. CASE signOut[r].at \in {"asking", "listing", "ending", "done"}
  <2>1. d \in Devices /\ signOut[r].spared \subseteq Logins
    BY <1>1 DEF TypeOK, SignOut
  <2>2. status[d] = "revoked"
    BY <1>1 DEF RevokeInv
  <2>3. status'[d] = "revoked"
    BY <2>1, <2>2, RevokedForGood
  <2>4. \A s \in Logins : OwedNext(s, d) => Owed(s, d)
    BY <2>1, <2>2, OwedShrinks
  <2>. QED  BY <2>1, <2>3, <2>4 DEF RevokeInv
<1>2. CASE signOut[r].at \notin {"asking", "listing", "ending", "done"}
  BY <1>2
<1>. QED  BY <1>1, <1>2

\* What the revocation must hold after a step, for the record it then has.
Keeps(q) ==
  /\ q.at \in {"asking", "listing", "ending", "done"} => status'[q.device] = "revoked"
  /\ q.at = "listing" => \A s \in q.spared : ~OwedNext(s, q.device)
  /\ q.at = "ending" => \A s \in Logins : OwedNext(s, q.device) => s \in q.ending \cup q.survivors
  /\ q.at = "done" => \A s \in Logins : ~OwedNext(s, q.device)

\* The steps of a revocation, one by one.
LEMMA RevokeHere ==
  ASSUME TypeOK, CapInv, RevokeInv, [Next]_vars, NEW r \in SignOuts,
         signOut[r].kind = "revoke",
         \/ RevokeDevice(r) \/ AskAboutCaller(r) \/ ListLogins(r) \/ Report(r) \/ SignOutFails(r)
         \/ \E s \in Logins : EndLogin(r, s) \/ LoginSurvives(r, s)
  PROVE  Keeps(signOut'[r])
<1>. DEFINE o == signOut[r]
            d == signOut[r].device
<1>1. /\ signOut[r] \in SignOut /\ signOut \in [SignOuts -> SignOut]
      /\ d \in Devices
  BY SignOutMoves DEF TypeOK
<1>2. UNCHANGED <<linked, lateLinks>> /\ live' \subseteq live
  BY SignOutMoves
<1>3. \A s \in Logins : OwedNext(s, d) => Owed(s, d)
  BY <1>2 DEF Owed, OwedNext
<1>4. o.at \in {"asking", "listing", "ending"} => status[d] = "revoked" /\ status'[d] = "revoked"
  <2>1. o.at \in {"asking", "listing", "ending"} => status[d] = "revoked"
    BY DEF RevokeInv
  <2>. QED  BY <1>1, <2>1, RevokedForGood
<1>5. CASE RevokeDevice(r)
  <2>1. signOut'[r].at = "asking" /\ signOut'[r].device = d
    BY <1>1, <1>5 DEF RevokeDevice, SignOut
  <2>2. status'[d] = "revoked"
    BY <1>1, <1>5 DEF RevokeDevice, TypeOK
  <2>. QED  BY <2>1, <2>2 DEF Keeps
<1>6. CASE AskAboutCaller(r)
  <2>. DEFINE own == o.caller \in live /\ linked[o.caller] = d
  <2>1. PICK k \in SUBSET {o.caller} :
          /\ signOut' = [signOut EXCEPT ![r].at = "listing", ![r].spared = k]
          /\ own => k = {}
    BY <1>6 DEF AskAboutCaller
  <2>2. signOut'[r].at = "listing" /\ signOut'[r].device = d /\ signOut'[r].spared = k
    BY <1>1, <2>1 DEF SignOut
  <2>3. o.at = "asking"
    BY <1>6 DEF AskAboutCaller
  <2>4. \A s \in k : ~OwedNext(s, d)
    BY <1>2, <2>1 DEF OwedNext
  <2>. QED  BY <1>4, <2>2, <2>3, <2>4 DEF Keeps
<1>7. CASE ListLogins(r)
  <2>. DEFINE k == {s \in live \ o.spared : linked[s] = d}
  <2>1. signOut' = [signOut EXCEPT ![r].at = "ending", ![r].ending = k] /\ o.at = "listing"
    BY <1>7 DEF ListLogins
  <2>2. \A s \in Logins : OwedNext(s, d) => s \in k
    BY <1>3, <2>1 DEF RevokeInv, Owed
  <2>. HIDE DEF k
  <2>3. signOut'[r].at = "ending" /\ signOut'[r].device = d /\ signOut'[r].ending = k
    BY <1>1, <2>1 DEF SignOut
  <2>. QED  BY <1>4, <2>1, <2>2, <2>3 DEF Keeps
<1>8. ASSUME NEW t \in Logins, EndLogin(r, t)
      PROVE  Keeps(signOut'[r])
  <2>1. /\ o.at = "ending" /\ live' = live \ {t}
        /\ signOut' = [signOut EXCEPT ![r].ending = o.ending \ {t}]
    BY <1>8 DEF EndLogin
  <2>2. \A s \in Logins : OwedNext(s, d) => s \in (o.ending \ {t}) \cup o.survivors
    BY <1>3, <2>1 DEF RevokeInv, OwedNext
  <2>3. /\ signOut'[r].at = "ending" /\ signOut'[r].device = d
        /\ signOut'[r].ending = o.ending \ {t} /\ signOut'[r].survivors = o.survivors
    BY <1>1, <2>1 DEF SignOut
  <2>. QED  BY <1>4, <2>1, <2>2, <2>3 DEF Keeps
<1>9. ASSUME NEW t \in Logins, LoginSurvives(r, t)
      PROVE  Keeps(signOut'[r])
  <2>1. /\ o.at = "ending"
        /\ signOut' = [signOut EXCEPT ![r].ending = o.ending \ {t},
                                      ![r].survivors = o.survivors \cup {t}]
    BY <1>9 DEF LoginSurvives
  <2>2. \A s \in Logins : OwedNext(s, d) => s \in (o.ending \ {t}) \cup (o.survivors \cup {t})
    BY <1>3, <2>1 DEF RevokeInv
  <2>3. /\ signOut'[r].at = "ending" /\ signOut'[r].device = d
        /\ signOut'[r].ending = o.ending \ {t} /\ signOut'[r].survivors = o.survivors \cup {t}
    BY <1>1, <2>1 DEF SignOut
  <2>. QED  BY <1>4, <2>1, <2>2, <2>3 DEF Keeps
<1>10. CASE Report(r)
  <2>1. PICK a \in {"done", "failed"} :
          /\ signOut' = [signOut EXCEPT ![r].at = a]
          /\ a = "done" => o.survivors = {}
          /\ o.at = "ending" /\ o.ending = {}
    BY <1>10 DEF Report
  <2>2. signOut'[r].at = a /\ signOut'[r].device = d
    BY <1>1, <2>1 DEF SignOut
  <2>3. a = "done" => \A s \in Logins : ~OwedNext(s, d)
    BY <1>3, <2>1 DEF RevokeInv
  <2>. QED  BY <1>4, <2>1, <2>2, <2>3 DEF Keeps
<1>11. CASE SignOutFails(r)
  <2>1. signOut'[r].at = "failed"
    BY <1>1, <1>11 DEF SignOutFails, SignOut
  <2>. QED  BY <2>1 DEF Keeps
<1>. QED  BY <1>5, <1>6, <1>7, <1>8, <1>9, <1>10, <1>11

LEMMA RevokeStep == TypeOK /\ CapInv /\ RevokeInv /\ [Next]_vars => RevokeInv'
<1>. SUFFICES ASSUME TypeOK, CapInv, RevokeInv, [Next]_vars,
                     NEW r \in SignOuts, signOut'[r].kind = "revoke"
              PROVE  Keeps(signOut'[r])
  BY DEF RevokeInv, Keeps, Owed, OwedNext
<1>0. signOut[r] \in SignOut /\ signOut \in [SignOuts -> SignOut]
  BY DEF TypeOK
<1>1. CASE signOut'[r] = signOut[r]
  BY <1>1, RevokeElsewhere DEF Keeps
<1>2. ASSUME NEW q \in SignOuts, NEW kind \in {"revoke", "sign out"}, NEW d \in Devices,
             NEW s \in Logins, BeginSignOut(q, kind, d, s)
      PROVE  Keeps(signOut'[r])
  <2>1. CASE q # r
    BY <1>1, <1>2, <2>1 DEF BeginSignOut, TypeOK
  <2>2. CASE q = r
    <3>1. signOut'[r].kind = kind
          /\ signOut'[r].at = IF kind = "revoke" THEN "revoking" ELSE "asking"
      BY <1>0, <1>2, <2>2 DEF BeginSignOut, SignOut
    <3>. QED  BY <3>1 DEF Keeps
  <2>. QED  BY <2>1, <2>2
<1>3. ASSUME NEW q \in SignOuts,
             \/ RevokeDevice(q) \/ AskAboutCaller(q) \/ ListLogins(q) \/ Report(q) \/ SignOutFails(q)
             \/ \E s \in Logins : EndLogin(q, s) \/ LoginSurvives(q, s)
      PROVE  Keeps(signOut'[r])
  <2>1. PICK k \in SignOut : signOut' = [signOut EXCEPT ![q] = k] /\ k.kind = signOut[q].kind
    BY <1>3, SignOutMoves
  <2>2. CASE q # r
    BY <1>0, <1>1, <2>1, <2>2
  <2>3. CASE q = r
    <3>1. signOut[r].kind = "revoke"
      BY <1>0, <2>1, <2>3
    <3>. QED  BY <1>3, <2>3, <3>1, RevokeHere
  <2>. QED  BY <2>2, <2>3
<1>4. ASSUME NEW d \in Devices,
             \/ LockAccount(d) \/ CountDevices(d) \/ ChooseVictim(d) \/ CreateDevice(d)
             \/ RefuseRegistration(d) \/ Touch(d) \/ TimePasses(d)
      PROVE  signOut' = signOut
  BY <1>4, OnlyCreations DEF Registering, Touch, TimePasses
<1>5. ASSUME NEW q \in LinkRequests,
             \/ \E s \in Logins, d \in Devices : BeginLink(q, s, d)
             \/ LinkSession(q) \/ ReadLinkedDevice(q) \/ CheckLinkedDevice(q) \/ RelinkSession(q)
      PROVE  signOut' = signOut
  BY <1>5 DEF BeginLink, LinkSession, ReadLinkedDevice, CheckLinkedDevice, RelinkSession
<1>6. CASE RetireDormantDevices \/ UNCHANGED vars
  BY <1>1, <1>6 DEF RetireDormantDevices, vars
<1>. QED  BY <1>1, <1>2, <1>3, <1>4, <1>5, <1>6 DEF Next

\* RevocationEndsItsLogins: a revocation that reports success has ended every login that was in
\* the device, or the login has moved off it; the calls it races with only matter if they write a
\* link after the revocation.
THEOREM RevocationSafe == Spec => []RevocationEndsItsLogins
<1>1. Init => RevokeInv
  <2>. SUFFICES ASSUME Init PROVE RevokeInv
    OBVIOUS
  <2>1. \A r \in SignOuts : signOut[r].at = "idle"
    BY DEF Init
  <2>. QED  BY <2>1 DEF RevokeInv
<1>2. Spec => []RevokeInv
  BY <1>1, CapInit, CapStep, RevokeStep, DeviceLoginsTypeCorrect, PTL DEF Spec
<1>3. TypeOK /\ RevokeInv => RevocationEndsItsLogins
  BY DEF TypeOK, RevokeInv, RevocationEndsItsLogins, Revoked, Owed
<1>. QED  BY <1>2, <1>3, DeviceLoginsTypeCorrect, PTL
=============================================================================
