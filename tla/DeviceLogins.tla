---------------------------- MODULE DeviceLogins ----------------------------
(***************************************************************************)
(* The chat devices of one account and the logins that are in them         *)
(* (chat-devices, auth/session-terminator).  A registration is one         *)
(* transaction under the account's row lock, which only registrations      *)
(* take; touching, retiring and revoking devices, and linking and ending   *)
(* logins, are awaited statements without that lock, so everything else    *)
(* comes in between.                                                       *)
(***************************************************************************)
EXTENDS Naturals, FiniteSets

CONSTANTS
  Devices,            \* client-supplied ids of chat_devices
  Logins,             \* rows of session
  LinkRequests,       \* calls of linkSessionToDevice
  SignOuts,           \* calls of revokeDevice and signOutDevice
  NoDevice, NoLogin,
  MaxActiveDevices,   \* MAX_ACTIVE_DEVICES_PER_USER
  MaxAge              \* bound: how far devices age in a run (Dormant: they may be retired)

ASSUME DevicesAreFinite == IsFiniteSet(Devices)
ASSUME NotADevice == NoDevice \notin Devices
ASSUME NotALogin == NoLogin \notin Logins
ASSUME CapIsPositive == MaxActiveDevices \in Nat \ {0}

\* The two cutoffs on lastSeenAt cut the age of a device in three: used recently, idle for
\* CAP_EVICTION_MIN_IDLE_MS, dormant for RETIRE_UNSEEN_AFTER_MS.
Recent == 0
Idle == 1
Dormant == 2

ASSUME AgeBound == MaxAge \in Recent .. Dormant

VARIABLES
  status,         \* of each device: absent, active or revoked (revokedAt set)
  age,            \* of each device: how long ago its lastSeenAt is
  registration,   \* of each device: where the transaction registering it is
  live,           \* the logins that have not ended
  linked,         \* of each login: its chatDeviceId
  link,           \* of each link request: where it is, and what it read
  signOut,        \* of each sign-out: where it is, and what it read
  lateLinks       \* history: <<login, device>> written when the device was already revoked

deviceVars == <<status, age>>
loginVars == <<live, linked, lateLinks>>
vars == <<deviceVars, registration, loginVars, link, signOut>>

Active == {d \in Devices : status[d] = "active"}

-----------------------------------------------------------------------------
(* Registration: createDeviceWithinCap. *)

Registration == [at : {"none", "counting", "choosing", "creating"},
                 victim : Devices \cup {NoDevice}]

NotRegistering == [at |-> "none", victim |-> NoDevice]

\* (Mutant: the account's row is not locked.)
LockNothing(d) ==
  /\ status[d] = "absent" /\ registration[d].at = "none"
  /\ registration' = [registration EXCEPT ![d].at = "counting"]
  /\ UNCHANGED <<deviceVars, loginVars, link, signOut>>

\* A device id that exists is a conflict and the transaction ends.
LockAccount(d) ==
  /\ \A e \in Devices : registration[e].at = "none"
  /\ status[d] = "absent"
  /\ registration' = [registration EXCEPT ![d].at = "counting"]
  /\ UNCHANGED <<deviceVars, loginVars, link, signOut>>

CountDevices(d) ==
  /\ registration[d].at = "counting"
  /\ registration' = [registration EXCEPT ![d].at =
       IF Cardinality(Active) >= MaxActiveDevices THEN "choosing" ELSE "creating"]
  /\ UNCHANGED <<deviceVars, loginVars, link, signOut>>

Stalest == {e \in Active : \A f \in Active : age[f] <= age[e]}

\* The least recently seen device gives up its place if it is idle enough.
ChooseVictim(d) ==
  /\ registration[d].at = "choosing"
  /\ \E e \in Stalest :
       /\ age[e] >= Idle
       /\ registration' = [registration EXCEPT ![d] = [at |-> "creating", victim |-> e]]
  /\ UNCHANGED <<deviceVars, loginVars, link, signOut>>

CreateDevice(d) ==
  LET r == registration[d] IN
  /\ r.at = "creating"
  /\ status' = [e \in Devices |-> IF e = d THEN "active"
                                  ELSE IF e = r.victim THEN "revoked" ELSE status[e]]
  /\ age' = [age EXCEPT ![d] = Recent]
  /\ registration' = [registration EXCEPT ![d] = NotRegistering]
  /\ UNCHANGED <<loginVars, link, signOut>>

\* The limit is reached and every device is in use, or the transaction fails: nothing is written.
RefuseRegistration(d) ==
  /\ registration[d].at # "none"
  /\ registration' = [registration EXCEPT ![d] = NotRegistering]
  /\ UNCHANGED <<deviceVars, loginVars, link, signOut>>

-----------------------------------------------------------------------------
(* Use and disuse of devices. *)

\* Any call that asserts its device is active notes that the device was seen.
Touch(d) ==
  /\ status[d] = "active"
  /\ age[d] # Recent
  /\ age' = [age EXCEPT ![d] = Recent]
  /\ UNCHANGED <<status, registration, loginVars, link, signOut>>

TimePasses(d) ==
  /\ status[d] = "active"
  /\ age[d] < MaxAge
  /\ age' = [age EXCEPT ![d] = age[d] + 1]
  /\ UNCHANGED <<status, registration, loginVars, link, signOut>>

\* The nightly job, one statement.
RetireDormantDevices ==
  /\ \E d \in Active : age[d] = Dormant
  /\ status' = [d \in Devices |-> IF d \in Active /\ age[d] = Dormant THEN "revoked" ELSE status[d]]
  /\ UNCHANGED <<age, registration, loginVars, link, signOut>>

-----------------------------------------------------------------------------
(* Linking a login to the device it is in: linkSessionToDevice. *)

Link == [at : {"idle", "linking", "reading", "checking", "relinking", "over"},
         login : Logins \cup {NoLogin},
         device : Devices \cup {NoDevice},
         current : Devices \cup {NoDevice}]

NoteLink(s, d) ==
  /\ linked' = [linked EXCEPT ![s] = d]
  /\ lateLinks' = IF status[d] = "active" THEN lateLinks \ {<<s, d>>}
                  ELSE lateLinks \cup {<<s, d>>}

\* The request is authenticated by its login, and its device is asserted to be active.
BeginLink(r, s, d) ==
  /\ link[r].at = "idle"
  /\ s \in live /\ status[d] = "active"
  /\ link' = [link EXCEPT ![r] = [at |-> "linking", login |-> s, device |-> d, current |-> NoDevice]]
  /\ UNCHANGED <<deviceVars, registration, loginVars, signOut>>

\* linkSession: only where no device is linked yet.
LinkSession(r) ==
  LET s == link[r].login
      free == s \in live /\ linked[s] = NoDevice IN
  /\ link[r].at = "linking"
  /\ link' = [link EXCEPT ![r].at = IF free THEN "over" ELSE "reading"]
  /\ IF free THEN NoteLink(s, link[r].device) ELSE UNCHANGED <<linked, lateLinks>>
  /\ UNCHANGED <<deviceVars, registration, live, signOut>>

\* The login has ended, or is linked to the device already, or to another one.
ReadLinkedDevice(r) ==
  LET s == link[r].login IN
  /\ link[r].at = "reading"
  /\ link' = [link EXCEPT
       ![r].at = IF s \notin live \/ linked[s] \in {NoDevice, link[r].device}
                 THEN "over" ELSE "checking",
       ![r].current = IF s \in live THEN linked[s] ELSE NoDevice]
  /\ UNCHANGED <<deviceVars, registration, loginVars, signOut>>

CheckLinkedDevice(r) ==
  /\ link[r].at = "checking"
  /\ link' = [link EXCEPT ![r].at = IF status[link[r].current] = "active" THEN "over" ELSE "relinking"]
  /\ UNCHANGED <<deviceVars, registration, loginVars, signOut>>

\* (Mutant: the update matches the login alone.)
RelinkAnyway(r) ==
  LET s == link[r].login IN
  /\ link[r].at = "relinking"
  /\ link' = [link EXCEPT ![r].at = "over"]
  /\ IF s \in live THEN NoteLink(s, link[r].device) ELSE UNCHANGED <<linked, lateLinks>>
  /\ UNCHANGED <<deviceVars, registration, live, signOut>>

\* relinkSession: conditional on the device that was looked at.
RelinkSession(r) ==
  LET s == link[r].login IN
  /\ link[r].at = "relinking"
  /\ link' = [link EXCEPT ![r].at = "over"]
  /\ IF s \in live /\ linked[s] = link[r].current
     THEN NoteLink(s, link[r].device) ELSE UNCHANGED <<linked, lateLinks>>
  /\ UNCHANGED <<deviceVars, registration, live, signOut>>

-----------------------------------------------------------------------------
(* Ending the logins of a device: revokeDevice and signOutDevice. *)

SignOut == [at : {"idle", "revoking", "asking", "listing", "ending", "done", "failed"},
            kind : {"revoke", "sign out"},
            device : Devices \cup {NoDevice},
            caller : Logins \cup {NoLogin},
            spared : SUBSET Logins,      \* the caller's own login, unless it is in the device
            ending : SUBSET Logins,
            survivors : SUBSET Logins]   \* logins whose deletion was rejected

BeginSignOut(r, kind, d, s) ==
  /\ signOut[r].at = "idle"
  /\ s \in live /\ status[d] # "absent"
  /\ signOut' = [signOut EXCEPT ![r].at = IF kind = "revoke" THEN "revoking" ELSE "asking",
                                ![r].kind = kind, ![r].device = d, ![r].caller = s]
  /\ UNCHANGED <<deviceVars, registration, loginVars, link>>

\* A device revoked before stays so.
RevokeDevice(r) ==
  /\ signOut[r].at = "revoking"
  /\ status' = [status EXCEPT ![signOut[r].device] = "revoked"]
  /\ signOut' = [signOut EXCEPT ![r].at = "asking"]
  /\ UNCHANGED <<age, registration, loginVars, link>>

\* findLoginsOfDevice, its first query.
AskAboutCaller(r) ==
  LET q == signOut[r]
      own == q.caller \in live /\ linked[q.caller] = q.device IN
  /\ q.at = "asking"
  /\ signOut' = [signOut EXCEPT ![r].at = "listing",
                                ![r].spared = IF own THEN {} ELSE {q.caller}]
  /\ UNCHANGED <<deviceVars, registration, loginVars, link>>

\* findLoginsOfDevice, its second query.
ListLogins(r) ==
  LET q == signOut[r] IN
  /\ q.at = "listing"
  /\ signOut' = [signOut EXCEPT ![r].at = "ending",
       ![r].ending = {s \in live \ q.spared : linked[s] = q.device}]
  /\ UNCHANGED <<deviceVars, registration, loginVars, link>>

\* The deletions run side by side; one that is rejected does not stop the others.
EndLogin(r, s) ==
  /\ signOut[r].at = "ending" /\ s \in signOut[r].ending
  /\ live' = live \ {s}
  /\ signOut' = [signOut EXCEPT ![r].ending = signOut[r].ending \ {s}]
  /\ UNCHANGED <<deviceVars, registration, linked, lateLinks, link>>

LoginSurvives(r, s) ==
  /\ signOut[r].at = "ending" /\ s \in signOut[r].ending
  /\ signOut' = [signOut EXCEPT ![r].ending = signOut[r].ending \ {s},
                                ![r].survivors = signOut[r].survivors \cup {s}]
  /\ UNCHANGED <<deviceVars, registration, loginVars, link>>

\* (Mutant: the rejected deletions are not looked for.)
ReportSuccess(r) ==
  /\ signOut[r].at = "ending" /\ signOut[r].ending = {}
  /\ signOut' = [signOut EXCEPT ![r].at = "done"]
  /\ UNCHANGED <<deviceVars, registration, loginVars, link>>

\* The caller is told of success only when every login was ended.
Report(r) ==
  /\ signOut[r].at = "ending" /\ signOut[r].ending = {}
  /\ signOut' = [signOut EXCEPT ![r].at = IF signOut[r].survivors = {} THEN "done" ELSE "failed"]
  /\ UNCHANGED <<deviceVars, registration, loginVars, link>>

\* The process stops, or a query fails.
SignOutFails(r) ==
  /\ signOut[r].at \in {"revoking", "asking", "listing", "ending"}
  /\ signOut' = [signOut EXCEPT ![r].at = "failed"]
  /\ UNCHANGED <<deviceVars, registration, loginVars, link>>

-----------------------------------------------------------------------------
Init ==
  /\ status = [d \in Devices |-> "absent"]
  /\ age = [d \in Devices |-> Recent]
  /\ registration = [d \in Devices |-> NotRegistering]
  /\ live = Logins
  /\ linked = [s \in Logins |-> NoDevice]
  /\ link = [r \in LinkRequests |->
               [at |-> "idle", login |-> NoLogin, device |-> NoDevice, current |-> NoDevice]]
  /\ signOut = [r \in SignOuts |->
                  [at |-> "idle", kind |-> "sign out", device |-> NoDevice, caller |-> NoLogin,
                   spared |-> {}, ending |-> {}, survivors |-> {}]]
  /\ lateLinks = {}

Next ==
  \/ \E d \in Devices :
       \/ LockAccount(d) \/ CountDevices(d) \/ ChooseVictim(d) \/ CreateDevice(d)
       \/ RefuseRegistration(d) \/ Touch(d) \/ TimePasses(d)
  \/ RetireDormantDevices
  \/ \E r \in LinkRequests :
       \/ \E s \in Logins, d \in Devices : BeginLink(r, s, d)
       \/ LinkSession(r) \/ ReadLinkedDevice(r) \/ CheckLinkedDevice(r) \/ RelinkSession(r)
  \/ \E r \in SignOuts :
       \/ \E kind \in {"revoke", "sign out"}, d \in Devices, s \in Logins :
            BeginSignOut(r, kind, d, s)
       \/ RevokeDevice(r) \/ AskAboutCaller(r) \/ ListLogins(r) \/ Report(r) \/ SignOutFails(r)
       \/ \E s \in Logins : EndLogin(r, s) \/ LoginSurvives(r, s)

Spec == Init /\ [][Next]_vars

-----------------------------------------------------------------------------
\* Rows and calls hold what their columns and fields may; a call has read what its place in the
\* code says it has.
TypeOK ==
  /\ status \in [Devices -> {"absent", "active", "revoked"}]
  /\ age \in [Devices -> Recent .. Dormant]
  /\ registration \in [Devices -> Registration]
  /\ live \subseteq Logins
  /\ linked \in [Logins -> Devices \cup {NoDevice}]
  /\ link \in [LinkRequests -> Link]
  /\ signOut \in [SignOuts -> SignOut]
  /\ lateLinks \subseteq Logins \X Devices
  /\ \A d \in Devices : registration[d].victim # NoDevice => registration[d].at = "creating"
  /\ \A r \in LinkRequests :
       /\ link[r].at # "idle" => link[r].login \in Logins /\ link[r].device \in Devices
       /\ link[r].at \in {"checking", "relinking"} => link[r].current \in Devices
  /\ \A r \in SignOuts :
       signOut[r].at # "idle" => signOut[r].caller \in Logins /\ signOut[r].device \in Devices

\* An account never has more active devices than the limit, whatever is registered, revoked and
\* retired side by side (createDeviceWithinCap: "so concurrent registrations cannot overshoot the
\* cap").
CapHolds == Cardinality(Active) <= MaxActiveDevices

\* A login moves from one device to another only when the first is dead, however many requests
\* race (relinkSession: "only relinkSession moves it, and only off a dead device").
LinksMoveOnlyOffDeadDevices ==
  [][\A s \in Logins :
       linked'[s] # linked[s] => linked[s] = NoDevice \/ status[linked[s]] = "revoked"]_vars

Revoked(r) == signOut[r].at = "done" /\ signOut[r].kind = "revoke"

\* When the revocation of a device has reported success, the logins that were in the device when
\* it was revoked have ended, the caller's too, or have moved off it; only a login whose link was
\* written after the revocation can be left.
RevocationEndsItsLogins ==
  \A r \in SignOuts : Revoked(r) =>
    \A s \in live : linked[s] = signOut[r].device => <<s, signOut[r].device>> \in lateLinks
=============================================================================
