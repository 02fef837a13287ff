----------------------------- MODULE MlsClients -----------------------------
(***************************************************************************)
(* The sync engines of the devices of one conversation: browser tabs that   *)
(* share their device's saved group through a lock, keep what they submit   *)
(* on disk until they know its outcome, and join, follow, change, use and   *)
(* wipe the group.  Tabs die in any place and requests time out; the        *)
(* server's log of Commits is here as far as a client sees it.              *)
(***************************************************************************)
EXTENDS Integers, FiniteSets, Sequences

CONSTANTS
  Devices, Tabs,
  DeviceOf,    \* the device a tab belongs to
  MaxEpoch, MaxBuilt, MaxTasks, MaxSends, MaxFaults

ASSUME TabsAssumption == DeviceOf \in [Tabs -> Devices]
ASSUME BoundsAssumption == {MaxEpoch, MaxBuilt, MaxTasks, MaxSends, MaxFaults} \subseteq Nat

VARIABLES
  log,       \* the server's MlsHandshake rows: log[e + 1] is the Commit of epoch e
  welcomes,  \* its MlsWelcome rows
  active,    \* whether the owner of a device is an ACTIVE participant
  net,       \* requests whose sender no longer waits, and that may still arrive
  disk,      \* what each device has saved
  tab,       \* the memory of each tab
  spent,     \* Welcomes whose key package is deleted
  sent,      \* history: the messages encrypted
  gaveUp,    \* history: Commits whose record went without their outcome being known
  built,     \* ids used for groups and Commits
  tasks,     \* tasks started that are not part of another
  faults

vars == <<log, welcomes, active, net, disk, tab, spent, sent, gaveUp, built, tasks, faults>>
serverVars == <<log, welcomes>>
historyVars == <<sent, gaveUp>>

\* A group state: its epoch, the Commit (or the creation) that made it, the next generation to send with.
Session == [epoch : Nat \cup {-1}, tip : Nat, gen : Nat]
NoSession == [epoch |-> -1, tip |-> 0, gen |-> 0]
\* A Commit: of which epoch and on which state; `life` counts the wipes of its device before it.
Commit == [id : Nat, by : Devices, epoch : Nat \cup {-1}, base : Nat, added : SUBSET Devices,
           external : BOOLEAN, life : Nat]
NoCommit == [id |-> 0]
Post(c) == [epoch |-> c.epoch + 1, tip |-> c.id, gen |-> 0]

FreshTab == [cached |-> NoSession, stale |-> FALSE, known |-> FALSE, refused |-> FALSE,
             task |-> "none", at |-> "idle", rest |-> <<>>,
             hand |-> NoSession, commit |-> NoCommit, then |-> "none"]

MyDisk(t) == disk[DeviceOf[t]]
At(t, place) == tab[t].at = place
Saves(t, field, value) == disk' = [disk EXCEPT ![DeviceOf[t]][field] = value]
Becomes(t, m) == tab' = [tab EXCEPT ![t] = m]

\* The session cache.get gives: the cached one, else the saved one.
Current(t) == IF tab[t].cached # NoSession THEN tab[t].cached ELSE MyDisk(t).state

-----------------------------------------------------------------------------
(* The server.                                                               *)

LogIds == {log[i].id : i \in DOMAIN log}
LeavesAt(e) ==
  UNION {log[i].added \cup (IF log[i].external \/ i = 1 THEN {log[i].by} ELSE {}) :
         i \in {j \in DOMAIN log : j <= e}}

\* At the live epoch: a member's Commit adds who is not there, the first founds, a join fits the snapshot.
Fits(c) ==
  IF c.external THEN log # <<>> /\ c.base = log[Len(log)].id
  ELSE /\ log = <<>> \/ c.by \in LeavesAt(Len(log))
       /\ c.added \cap LeavesAt(Len(log)) = {}

\* A participant who is not ACTIVE is refused before anything is compared; a join needs less.
Answer(c) ==
  CASE ~c.external /\ ~active[c.by] -> "refused"
    [] c.epoch < Len(log) -> IF log[c.epoch + 1] = c THEN "duplicate" ELSE "conflict"
    [] OTHER -> IF c.epoch = Len(log) /\ Fits(c) THEN "accepted" ELSE "refused"

Delivered(c) ==
  IF Answer(c) = "accepted"
  THEN /\ log' = Append(log, c)
       /\ welcomes' = welcomes \cup {[device |-> d, epoch |-> c.epoch + 1, tip |-> c.id] : d \in c.added}
  ELSE UNCHANGED serverVars

\* (Mutant: a device that is in the group takes its Commit for accepted.)
AppearsAsLeaf(c) == Answer(c) \in {"accepted", "duplicate"} \/ c.by \in LeavesAt(Len(log))

\* The answer to sending the same bytes again tells whether the log has them.
ServerHas(c) == Answer(c) \in {"accepted", "duplicate"}

\* A request nobody waits for any more.
Arrive(c) ==
  /\ c \in net
  /\ net' = net \ {c}
  /\ Delivered(c)
  /\ UNCHANGED <<active, disk, tab, spent, historyVars, built, tasks, faults>>

\* A request that timed out may still arrive; what the log has already would only be a duplicate.
Lingers(c) == net' = net \cup (IF c.id \in LogIds THEN {} ELSE {c})

\* A member whose engine is not shown: its Commits, the first or a join among them, come in one step.
Peers == Devices \ {DeviceOf[t] : t \in Tabs}

PeerCommits(p, added) ==
  LET joins == log # <<>> /\ p \notin LeavesAt(Len(log))
      c == [id |-> built + 1, by |-> p, epoch |-> Len(log),
            base |-> IF log = <<>> THEN built + 1 ELSE log[Len(log)].id,   \* the first: a group just made
            added |-> IF joins THEN {} ELSE added \ LeavesAt(Len(log)), external |-> joins, life |-> 0]
  IN /\ Len(log) < MaxEpoch
     /\ built < MaxBuilt
     /\ built' = built + 1
     /\ Answer(c) = "accepted"
     /\ Delivered(c)
     /\ UNCHANGED <<active, net, disk, tab, spent, historyVars, tasks, faults>>

Fault == faults < MaxFaults /\ faults' = faults + 1

\* The participant archives the chat, or takes it up again.
ChangeStanding(d) ==
  /\ Fault
  /\ active' = [active EXCEPT ![d] = ~@]
  /\ UNCHANGED <<serverVars, net, disk, tab, spent, historyVars, built, tasks>>

\* A tab is closed or reloaded, in any place: its memory and its lock are gone.
Crash(t) ==
  /\ Fault
  /\ tab[t] # FreshTab
  /\ Becomes(t, FreshTab)
  /\ UNCHANGED <<serverVars, active, net, disk, spent, historyVars, built, tasks>>

-----------------------------------------------------------------------------
(* Tasks: each holds the device's lock from Begin to its end.                *)

Tasks == {"ensure", "create", "seed", "send", "sync", "change", "join", "welcome", "recover", "forget"}

FirstStep(task) ==
  CASE task = "create" -> "create"
    [] task = "join" -> "look"
    [] task = "welcome" -> "welcome"
    [] task \in {"recover", "forget"} -> "forget"
    [] OTHER -> "settle"

LockIsFree(d) == \A t \in Tabs : DeviceOf[t] = d => At(t, "idle")

\* (Mutant: what other tabs saved is not noticed.)
NeverStale(t) == FALSE

\* dropIfStale: the cached session is not the one last saved.
IsStale(t) == tab[t].stale

\* What a tab starts by itself; the rest follows from it.
MayStart(t, task) ==
  CASE task \in {"sync", "change"} -> TRUE
    [] task = "join" -> MyDisk(t).state = NoSession
    [] task = "welcome" -> \E w \in welcomes : w.device = DeviceOf[t]
    [] task = "ensure" -> Cardinality(sent) < MaxSends
    [] task = "recover" -> tab[t].refused
    [] OTHER -> FALSE

Done(m, rest) == [m EXCEPT !.task = "none", !.at = "idle", !.rest = rest,
                           !.hand = NoSession, !.commit = NoCommit, !.then = "none"]

\* What a send does when one of its steps failed; joining is best effort.
Failed(m) ==
  Done(m, CASE m.task = "seed" -> <<"forget">>
            [] m.task \in {"welcome", "join"} -> m.rest
            [] OTHER -> <<>>)

Dropped(m) == [m EXCEPT !.cached = NoSession, !.stale = FALSE]

\* There is no group: a first send makes one, everything else fails.
NoGroup(m) == IF m.task = "ensure" THEN Done(m, <<"create", "seed", "send">>) ELSE Failed(m)

\* There is a group: a first send only looked for it.
Ready(m) == IF m.task = "ensure" THEN Done(m, <<"send">>) ELSE [m EXCEPT !.at = "work"]

\* The end of openSession, with no Commit left to settle: the group is loaded, or a join is left to
\* settle.  These reads need no step of their own: nobody else writes the disk under the lock.
Opened(m, d) ==
  LET s == IF m.cached # NoSession THEN m.cached ELSE disk[d].state
      known == [m EXCEPT !.known = TRUE, !.cached = s]
  IN CASE s # NoSession -> Ready(known)
       [] s = NoSession /\ disk[d].join # NoCommit -> [known EXCEPT !.at = "open"]
       [] OTHER -> NoGroup(known)

\* openSession looks for a record first, unless this tab believes there is none.
Opening(m, d) ==
  IF m.known \/ disk[d].pending = NoCommit THEN Opened(m, d) ELSE [m EXCEPT !.at = "settle"]

Begin(t, task) ==
  LET m == [tab[t] EXCEPT
              !.cached = IF IsStale(t) THEN NoSession ELSE @,
              !.stale = FALSE,
              !.task = task,
              !.at = FirstStep(task),
              !.rest = CASE task = "recover" -> <<"join">> [] @ = <<>> -> <<>> [] OTHER -> Tail(@)]
  IN /\ LockIsFree(DeviceOf[t])
     /\ IF tab[t].rest = <<>>
        THEN MayStart(t, task) /\ tasks < MaxTasks /\ tasks' = tasks + 1
        ELSE task = Head(tab[t].rest) /\ UNCHANGED tasks
     /\ Becomes(t, IF m.at = "settle" THEN Opening(m, DeviceOf[t]) ELSE m)
     /\ UNCHANGED <<serverVars, active, net, disk, spent, historyVars, built, faults>>

\* A new stamp is on disk: it is not the one any other tab remembers with its session.
Stamped(t, m) ==
  tab' = [x \in Tabs |->
            CASE x = t -> m
              [] x # t /\ DeviceOf[x] = DeviceOf[t] -> [tab[x] EXCEPT !.stale = tab[x].cached # NoSession]
              [] OTHER -> tab[x]]

\* The task goes on to save session s, and then to `then`.  The stamp is written before the state, and
\* together with the step before it: if the tab dies in between, the others only load again what they have.
Persists(t, m, s, then) == Stamped(t, [m EXCEPT !.hand = s, !.at = "save", !.then = then])

\* What comes after the last save of a task: what had gone wrong with the group is cleared.
AfterSave(m) ==
  CASE m.then \in {"created", "synced"} -> Done([m EXCEPT !.refused = FALSE], m.rest)
    [] m.then = "raceLost" -> Done(m, <<>>)
    [] m.then = "sent" -> Done(m, m.rest)
    [] OTHER -> [m EXCEPT !.at = m.then]

\* A new group is written over the one there was.
Replaces(t) == tab[t].then = "created" /\ MyDisk(t).state # NoSession

\* An encrypted message goes out once the ratchet is saved.
WriteState(t) ==
  LET s == tab[t].hand IN
  /\ At(t, "save")
  /\ disk' = [disk EXCEPT ![DeviceOf[t]].state = s,
                          ![DeviceOf[t]].life = IF Replaces(t) THEN @ + 1 ELSE @]
  /\ Becomes(t, AfterSave([tab[t] EXCEPT !.cached = s]))
  /\ sent' = IF tab[t].then # "sent" THEN sent
             ELSE LET message(n) == [device |-> DeviceOf[t], life |-> MyDisk(t).life,
                                     tip |-> s.tip, gen |-> s.gen - 1, copy |-> n]
                  IN sent \cup {message(Cardinality({n \in 0 .. MaxSends : message(n) \in sent}))}
  /\ UNCHANGED <<serverVars, active, net, spent, gaveUp, built, tasks, faults>>

-----------------------------------------------------------------------------
(* Opening the group: settle an unfinished Commit, load, settle an unfinished join. *)

GivesUp(c, answer) == gaveUp' = gaveUp \cup (IF answer = "conflict" THEN {} ELSE {c})

HasRecord(t) == At(t, "settle")

DropsRecord(t) ==
  /\ Saves(t, "pending", NoCommit)
  /\ Becomes(t, Opened(tab[t], DeviceOf[t]))

\* The record of a Commit on another epoch than the saved one, which the saved group may not have come to yet.
DropOldRecord(t) ==
  /\ HasRecord(t)
  /\ Current(t).epoch # MyDisk(t).pending.epoch
  /\ DropsRecord(t)
  /\ gaveUp' = gaveUp \cup {c \in {MyDisk(t).pending} : MyDisk(t).state.epoch < c.epoch}
  /\ UNCHANGED <<serverVars, active, net, spent, sent, built, tasks, faults>>

Resubmit(t) ==
  LET c == MyDisk(t).pending IN
  /\ HasRecord(t)
  /\ Current(t).epoch = c.epoch
  /\ Delivered(c)
  /\ IF ServerHas(c)
     THEN Persists(t, tab[t], Post(c), "settled") /\ UNCHANGED <<disk, gaveUp>>
     ELSE DropsRecord(t) /\ GivesUp(c, Answer(c))
  /\ UNCHANGED <<active, net, spent, sent, built, tasks, faults>>

\* No answer: the log tells instead, unless it cannot be read either.
ResubmitLost(t) ==
  LET c == MyDisk(t).pending IN
  /\ Fault
  /\ HasRecord(t)
  /\ Current(t).epoch = c.epoch
  /\ Lingers(c)
  /\ \/ c.id \in LogIds /\ Persists(t, tab[t], Post(c), "settled") /\ UNCHANGED <<disk, gaveUp>>
     \/ c.id \notin LogIds /\ DropsRecord(t) /\ GivesUp(c, "none")
     \/ Becomes(t, Failed(tab[t])) /\ UNCHANGED <<disk, gaveUp>>
  /\ UNCHANGED <<serverVars, active, spent, sent, built, tasks>>

\* The post-Commit state is saved: the record goes last.
DiscardRecord(t) ==
  /\ tab[t].at \in {"settled", "committed"}
  /\ Saves(t, "pending", NoCommit)
  /\ LET m == [tab[t] EXCEPT !.known = TRUE]
     IN Becomes(t, IF At(t, "settled") THEN Opened(m, DeviceOf[t]) ELSE Done(m, m.rest))
  /\ UNCHANGED <<serverVars, active, net, spent, historyVars, built, tasks, faults>>

HasJoin(t) == tab[t].at \in {"open", "look"} /\ Current(t) = NoSession /\ MyDisk(t).join # NoCommit

AdoptsJoin(t) ==
  /\ Persists(t, tab[t], Post(MyDisk(t).join), IF At(t, "open") THEN "rejoined" ELSE "joined")
  /\ UNCHANGED disk

DropsJoin(t) ==
  /\ Saves(t, "join", NoCommit)
  /\ Becomes(t, IF At(t, "open") THEN NoGroup(tab[t]) ELSE tab[t])

\* A join saved before its answer: the same bytes are submitted again.
ResolveJoin(t) ==
  LET c == MyDisk(t).join IN
  /\ HasJoin(t)
  /\ Delivered(c)
  /\ IF ServerHas(c) THEN AdoptsJoin(t) ELSE DropsJoin(t)
  /\ UNCHANGED <<active, net, spent, historyVars, built, tasks, faults>>

ResolveJoinLost(t) ==
  LET c == MyDisk(t).join IN
  /\ Fault
  /\ HasJoin(t)
  /\ Lingers(c)
  /\ \/ c.id \in LogIds /\ AdoptsJoin(t)
     \/ c.id \notin LogIds /\ DropsJoin(t)
     \/ Becomes(t, IF At(t, "open") THEN NoGroup(tab[t]) ELSE Failed(tab[t])) /\ UNCHANGED disk
  /\ UNCHANGED <<serverVars, active, spent, historyVars, built, tasks>>

DiscardJoin(t) ==
  /\ tab[t].at \in {"rejoined", "joined"}
  /\ Saves(t, "join", NoCommit)
  /\ LET m == [tab[t] EXCEPT !.refused = FALSE]
     IN Becomes(t, IF At(t, "rejoined") THEN Ready(m) ELSE Done(m, m.rest))
  /\ UNCHANGED <<serverVars, active, net, spent, historyVars, built, tasks, faults>>

-----------------------------------------------------------------------------
(* What the tasks do once the group is open.                                 *)

Works(t, task) == At(t, "work") /\ tab[t].task = task

\* The advanced ratchet is saved before the ciphertext is used.
Encrypt(t) ==
  /\ Works(t, "send")
  /\ Persists(t, tab[t], [Current(t) EXCEPT !.gen = @ + 1], "sent")
  /\ UNCHANGED <<serverVars, active, net, disk, spent, historyVars, built, tasks, faults>>

\* A session takes the rows after it in order; nobody can process a Commit of their own.
Applies(d, s, rows) ==
  \A i \in DOMAIN rows : /\ rows[i].by # d
                         /\ rows[i].base = IF i = 1 THEN s.tip ELSE rows[i - 1].id

Refuses(m) == Failed([Dropped(m) EXCEPT !.refused = TRUE])

SyncCommits(t) ==
  LET rows == SubSeq(log, Current(t).epoch + 1, Len(log))
      applied == Applies(DeviceOf[t], Current(t), rows)
  IN /\ Works(t, "sync")
     /\ \/ rows = <<>> /\ Becomes(t, Done([tab[t] EXCEPT !.refused = FALSE], tab[t].rest))
        \/ rows # <<>> /\ applied /\ Persists(t, tab[t], Post(log[Len(log)]), "synced")
        \/ ~applied /\ Becomes(t, Refuses(tab[t]))
     /\ UNCHANGED <<serverVars, active, net, disk, spent, historyVars, built, tasks, faults>>

\* (Mutant: the record is left for after the answer.)
StageUnrecorded(t, added) ==
  LET s == Current(t)
      c == [id |-> built + 1, by |-> DeviceOf[t], epoch |-> s.epoch, base |-> s.tip, added |-> added,
            external |-> FALSE, life |-> MyDisk(t).life]
  IN /\ (Works(t, "change") /\ s.epoch > 0) \/ Works(t, "seed")
     /\ added \subseteq Devices \ ({DeviceOf[t]} \cup LeavesAt(s.epoch))
     /\ s.epoch < MaxEpoch
     /\ built < MaxBuilt
     /\ built' = built + 1
     /\ Becomes(t, [tab[t] EXCEPT !.cached = Post(c), !.hand = s, !.commit = c, !.at = "submit"])
     /\ UNCHANGED <<serverVars, active, net, disk, spent, historyVars, tasks, faults>>

\* The Commit is merged in memory, then kept with the state after it, then submitted.  A change is
\* worked out from the roster of the session's epoch, a seed from what the conversation should be.
StageCommit(t, added) ==
  LET s == Current(t)
      c == [id |-> built + 1, by |-> DeviceOf[t], epoch |-> s.epoch, base |-> s.tip, added |-> added,
            external |-> FALSE, life |-> MyDisk(t).life]
  IN /\ (Works(t, "change") /\ s.epoch > 0) \/ Works(t, "seed")
     /\ added \subseteq Devices \ ({DeviceOf[t]} \cup LeavesAt(s.epoch))
     /\ s.epoch < MaxEpoch
     /\ built < MaxBuilt
     /\ built' = built + 1
     /\ Saves(t, "pending", c)
     /\ gaveUp' = gaveUp \cup ({MyDisk(t).pending} \ {NoCommit})
     /\ Becomes(t, [tab[t] EXCEPT !.known = FALSE, !.cached = Post(c), !.hand = s, !.commit = c, !.at = "submit"])
     /\ UNCHANGED <<serverVars, active, net, spent, sent, tasks, faults>>

\* The work was for another epoch, or there is nothing to do, or MLS refuses to stage it.
StageNothing(t) ==
  /\ Works(t, "change") \/ Works(t, "seed")
  /\ Becomes(t, Failed(tab[t]))
  /\ UNCHANGED <<serverVars, active, net, disk, spent, historyVars, built, tasks, faults>>

SubmitAccepted(t) ==
  /\ At(t, "submit")
  /\ ServerHas(tab[t].commit)
  /\ Delivered(tab[t].commit)
  /\ Persists(t, tab[t], Post(tab[t].commit), "committed")
  /\ UNCHANGED <<active, net, disk, spent, historyVars, built, tasks, faults>>

SubmitRefused(t) ==
  /\ At(t, "submit")
  /\ Answer(tab[t].commit) = "refused"
  /\ Saves(t, "pending", NoCommit)
  /\ Becomes(t, Failed([Dropped(tab[t]) EXCEPT !.known = TRUE]))
  /\ UNCHANGED <<serverVars, active, net, spent, historyVars, built, tasks, faults>>

\* Another Commit won the epoch.  A group that has just been made is another group than the
\* winner's and goes; else the winner is applied to the state before.
SubmitConflict(t) ==
  LET c == tab[t].commit
      m == [Dropped(tab[t]) EXCEPT !.known = TRUE]
      winner == log[c.epoch + 1]
      fresh == m.task = "seed" /\ c.epoch = 0
      applied == Applies(c.by, m.hand, <<winner>>)
  IN /\ At(t, "submit")
     /\ Answer(c) = "conflict"
     /\ Saves(t, "pending", NoCommit)
     /\ CASE fresh -> Becomes(t, [m EXCEPT !.task = "forget", !.at = "forget", !.rest = <<"welcome", "join">> \o @])
          [] ~fresh /\ applied -> Persists(t, m, Post(winner), "raceLost")
          [] OTHER -> Becomes(t, Refuses(m))
     /\ UNCHANGED <<serverVars, active, net, spent, historyVars, built, tasks, faults>>

\* No answer: the request may arrive or have arrived; the record stays.
SubmitLost(t) ==
  /\ Fault
  /\ At(t, "submit")
  /\ Lingers(tab[t].commit)
  /\ Becomes(t, Failed(Dropped(tab[t])))
  /\ UNCHANGED <<serverVars, active, disk, spent, historyVars, built, tasks>>

\* A group of this device alone, whatever was saved before.
CreateGroup(t) ==
  /\ At(t, "create")
  /\ built < MaxBuilt
  /\ built' = built + 1
  /\ Persists(t, tab[t], [epoch |-> 0, tip |-> built + 1, gen |-> 0], "created")
  /\ UNCHANGED <<serverVars, active, net, disk, spent, historyVars, tasks, faults>>

-----------------------------------------------------------------------------
(* Joining from a snapshot, joining from a Welcome, and wiping.              *)

LookHasState(t) ==
  /\ At(t, "look")
  /\ Current(t) # NoSession
  /\ Becomes(t, Done([tab[t] EXCEPT !.cached = Current(t)], tab[t].rest))
  /\ UNCHANGED <<serverVars, active, net, disk, spent, historyVars, built, tasks, faults>>

\* The external Commit is built from the snapshot of the current epoch, and kept before it goes out.
BuildJoin(t) ==
  LET c == [id |-> built + 1, by |-> DeviceOf[t], epoch |-> Len(log), base |-> log[Len(log)].id, added |-> {},
            external |-> TRUE, life |-> MyDisk(t).life]
  IN /\ At(t, "look")
     /\ Current(t) = NoSession
     /\ MyDisk(t).join = NoCommit
     /\ log # <<>>
     /\ Len(log) < MaxEpoch
     /\ built < MaxBuilt
     /\ built' = built + 1
     /\ Saves(t, "join", c)
     /\ Becomes(t, [tab[t] EXCEPT !.commit = c, !.at = "submitJoin"])
     /\ UNCHANGED <<serverVars, active, net, spent, historyVars, tasks, faults>>

NoSnapshot(t) ==
  /\ At(t, "look")
  /\ Current(t) = NoSession
  /\ MyDisk(t).join = NoCommit
  /\ Becomes(t, Failed(tab[t]))
  /\ UNCHANGED <<serverVars, active, net, disk, spent, historyVars, built, tasks, faults>>

SubmitJoin(t) ==
  LET c == tab[t].commit IN
  /\ At(t, "submitJoin")
  /\ Delivered(c)
  /\ IF Answer(c) = "accepted"
     THEN Persists(t, tab[t], Post(c), "joined") /\ UNCHANGED disk
     ELSE Saves(t, "join", NoCommit) /\ Becomes(t, Done(tab[t], tab[t].rest))
  /\ UNCHANGED <<active, net, spent, historyVars, built, tasks, faults>>

SubmitJoinLost(t) ==
  /\ Fault
  /\ At(t, "submitJoin")
  /\ Lingers(tab[t].commit)
  /\ Becomes(t, Failed(tab[t]))
  /\ UNCHANGED <<serverVars, active, disk, spent, historyVars, built, tasks>>

Joined(w) == [epoch |-> w.epoch, tip |-> w.tip, gen |-> 0]
WelcomesFor(t) == {w \in welcomes : w.device = DeviceOf[t]}

NoWelcome(t) ==
  /\ At(t, "welcome")
  /\ \A w \in WelcomesFor(t) : w \in spent /\ Current(t) = NoSession
  /\ Becomes(t, Done(tab[t], tab[t].rest))
  /\ UNCHANGED <<serverVars, active, net, disk, spent, historyVars, built, tasks, faults>>

\* Only a Welcome to a newer epoch than the saved one is taken, and its group is saved before its key package goes.
JoinFromWelcome(t, w) ==
  /\ At(t, "welcome")
  /\ w \in WelcomesFor(t) \ spent
  /\ w.epoch > Current(t).epoch
  /\ Persists(t, tab[t], Joined(w), "spend")
  /\ UNCHANGED <<serverVars, active, net, disk, spent, historyVars, built, tasks, faults>>

\* The package of a Welcome that was used is deleted, but for a last-resort package; and a tab that
\* loaded the packages before still holds its copy.
MaySpend(t, s) == \E gone \in SUBSET {w \in WelcomesFor(t) : Joined(w) = s} : spent' = spent \cup gone

StaleWelcome(t, w) ==
  /\ At(t, "welcome")
  /\ w \in WelcomesFor(t)
  /\ Current(t) # NoSession
  /\ w \in spent \/ w.epoch <= Current(t).epoch
  /\ MaySpend(t, Joined(w))
  /\ Becomes(t, [tab[t] EXCEPT !.cached = Current(t), !.hand = Joined(w), !.at = "consume"])
  /\ UNCHANGED <<serverVars, active, net, disk, historyVars, built, tasks, faults>>

SpendKeyPackage(t) ==
  /\ At(t, "spend")
  /\ MaySpend(t, tab[t].hand)
  /\ Becomes(t, [tab[t] EXCEPT !.refused = FALSE, !.at = "consume"])
  /\ UNCHANGED <<serverVars, active, net, disk, historyVars, built, tasks, faults>>

ConsumeWelcome(t) ==
  /\ At(t, "consume")
  /\ welcomes' = {w \in welcomes : ~(w.device = DeviceOf[t] /\ Joined(w) = tab[t].hand)}
  /\ Becomes(t, Done(tab[t], tab[t].rest))
  /\ UNCHANGED <<log, active, net, disk, spent, historyVars, built, tasks, faults>>

\* forgetConversationLocked, one awaited deletion after the other.
ForgetState(t) ==
  /\ At(t, "forget")
  /\ disk' = [disk EXCEPT ![DeviceOf[t]].state = NoSession,
                          ![DeviceOf[t]].life = @ + 1]
  /\ Becomes(t, [Dropped(tab[t]) EXCEPT !.at = "forgetStamp"])
  /\ UNCHANGED <<serverVars, active, net, spent, historyVars, built, tasks, faults>>

ForgetStamp(t) ==
  /\ At(t, "forgetStamp")
  /\ Stamped(t, [tab[t] EXCEPT !.at = "forgetCommit"])
  /\ UNCHANGED <<serverVars, active, net, disk, spent, historyVars, built, tasks, faults>>

ForgetCommit(t) ==
  /\ At(t, "forgetCommit")
  /\ Saves(t, "pending", NoCommit)
  /\ Becomes(t, [tab[t] EXCEPT !.known = TRUE, !.at = "forgetJoin"])
  /\ UNCHANGED <<serverVars, active, net, spent, historyVars, built, tasks, faults>>

ForgetJoin(t) ==
  /\ At(t, "forgetJoin")
  /\ Saves(t, "join", NoCommit)
  /\ LET m == [tab[t] EXCEPT !.refused = @ /\ tab[t].task = "recover"]   \* it stays up until the rejoin works
     IN Becomes(t, Done(m, m.rest))
  /\ UNCHANGED <<serverVars, active, net, spent, historyVars, built, tasks, faults>>

-----------------------------------------------------------------------------
Init ==
  /\ log = <<>>
  /\ welcomes = {}
  /\ active = [d \in Devices |-> TRUE]
  /\ net = {}
  /\ disk = [d \in Devices |-> [state |-> NoSession, pending |-> NoCommit,
                                join |-> NoCommit, life |-> 0]]
  /\ tab = [t \in Tabs |-> FreshTab]
  /\ spent = {}
  /\ sent = {}
  /\ gaveUp = {}
  /\ built = 0
  /\ tasks = 0
  /\ faults = 0

ServerStep ==
  \/ \E c \in net : Arrive(c)
  \/ \E p \in Peers : \E added \in SUBSET (Devices \ {p}) : PeerCommits(p, added)
  \/ \E d \in Devices \ Peers : ChangeStanding(d)

OpenStep(t) ==
  DropOldRecord(t) \/ Resubmit(t) \/ ResubmitLost(t) \/ DiscardRecord(t)
  \/ ResolveJoin(t) \/ ResolveJoinLost(t) \/ DiscardJoin(t)

WorkStep(t) ==
  \/ Encrypt(t) \/ SyncCommits(t) \/ StageNothing(t) \/ CreateGroup(t)
  \/ \E added \in SUBSET Devices : StageCommit(t, added)
  \/ SubmitAccepted(t) \/ SubmitRefused(t) \/ SubmitConflict(t) \/ SubmitLost(t)

JoinStep(t) ==
  \/ LookHasState(t) \/ BuildJoin(t) \/ NoSnapshot(t) \/ SubmitJoin(t) \/ SubmitJoinLost(t)
  \/ NoWelcome(t) \/ SpendKeyPackage(t) \/ ConsumeWelcome(t)
  \/ \E w \in welcomes : JoinFromWelcome(t, w) \/ StaleWelcome(t, w)

ForgetStep(t) == ForgetState(t) \/ ForgetStamp(t) \/ ForgetCommit(t) \/ ForgetJoin(t)

TabStep(t) ==
  \/ Crash(t) \/ \E task \in Tasks : Begin(t, task)
  \/ OpenStep(t) \/ WriteState(t) \/ WorkStep(t) \/ JoinStep(t) \/ ForgetStep(t)

Next == ServerStep \/ \E t \in Tabs : TabStep(t)

Spec == Init /\ [][Next]_vars

-----------------------------------------------------------------------------
(* Properties.                                                               *)

\* Every record on disk, in memory and on the server has its fields.
TypeOK ==
  /\ log \in Seq(Commit)
  /\ welcomes \subseteq [device : Devices, epoch : Nat, tip : Nat]
  /\ spent \subseteq [device : Devices, epoch : Nat, tip : Nat]
  /\ active \in [Devices -> BOOLEAN]
  /\ net \subseteq Commit
  /\ disk \in [Devices -> [state : Session, pending : Commit \cup {NoCommit},
                           join : Commit \cup {NoCommit}, life : Nat]]
  /\ {built, tasks, faults} \subseteq Nat

\* What a device has saved past the first epoch is the state the server's log leads to: whichever of a
\* tab's writes was the last before it died, whoever won the epoch, and whatever was resubmitted, the
\* device is on the branch everybody is on (syncEngine.ts:210, selfJoiner.ts:128).
SavedStateIsOnTheLog ==
  \A d \in Devices :
    LET s == disk[d].state
    IN s.epoch > 0 => s.epoch <= Len(log) /\ log[s.epoch].id = s.tip

\* A device cannot process its own Commit (syncEngine.ts:210).  While the log has one on the state it
\* has saved, it still has the record that gives it the state after it, unless it gave that record up
\* with the outcome unknown (refused since it is not ACTIVE, not in the log yet, written over by a tab
\* that did not look, or found when no group or an older one was saved), or lost it in a wipe.
OwnCommitCanBeSettled ==
  \A i \in DOMAIN log :
    LET c == log[i]
        saved == disk[c.by]
    IN ~c.external /\ saved.state.tip = c.base /\ saved.life = c.life
       => saved.pending = c \/ c \in gaveUp

\* No two messages of a device are encrypted under the same generation of the same state: neither two
\* tabs nor a tab that died between its writes use one again (crossTabLock.ts:5; groupSessionCache.ts:112).
\* (After a wipe that itself died an old join can be adopted again, hence `life`.)
GenerationsUsedOnce == \A m \in sent : m.copy = 0
=============================================================================
