--------------------------- MODULE MlsClientsProofs ---------------------------
(***************************************************************************)
(* Theorems of MlsClients, for any number of devices, tabs, Commits, sends  *)
(* and faults.  A step is told apart by what it does to the group a device  *)
(* has saved: it leaves it (Quiet), announces another one with a new stamp  *)
(* (Persisted), writes it (WriteState) or deletes it (ForgetState).         *)
(***************************************************************************)
EXTENDS MlsClients, FiniteSetTheorems, TLAPS

-----------------------------------------------------------------------------
(* Types.                                                                    *)

DiskRow == [state : Session, pending : Commit \cup {NoCommit}, join : Commit \cup {NoCommit}, life : Nat]

Places == {"idle", "create", "look", "welcome", "forget", "settle", "save", "settled", "committed", "open",
           "rejoined", "joined", "work", "submit", "submitJoin", "spend", "consume",
           "forgetStamp", "forgetCommit", "forgetJoin"}
Goals == {"created", "synced", "raceLost", "sent", "settled", "committed", "rejoined", "joined", "spend"}
GoalsOrNone == Goals \cup {"none"}

TabRow == [cached : Session, stale : BOOLEAN, known : BOOLEAN, refused : BOOLEAN,
           task : Tasks \cup {"none"}, at : Places, rest : Seq(Tasks),
           hand : Session, commit : Commit \cup {NoCommit}, then : GoalsOrNone]

Message == [device : Devices, life : Nat, tip : Nat, gen : Int, copy : Nat]

Types == TypeOK /\ tab \in [Tabs -> TabRow] /\ sent \subseteq Message

-----------------------------------------------------------------------------
(* The invariant.                                                            *)

\* The Commits in the log, on their way, on a disk or in a tab.
Known ==
  {c \in {log[i] : i \in DOMAIN log} \cup net \cup {disk[d].pending : d \in Devices}
         \cup {disk[d].join : d \in Devices} \cup {tab[t].commit : t \in Tabs} : c # NoCommit}

\* An id is used for one Commit, and the log has each at its epoch.
Records ==
  /\ \A c \in Known : c \in Commit /\ c.id \in 1 .. built /\ c.epoch \in Nat
  /\ \A c, e \in Known : c.id = e.id => c = e
  /\ \A i \in DOMAIN log : log[i].epoch = i - 1
  /\ \A w \in welcomes : w.epoch \in DOMAIN log /\ log[w.epoch].id = w.tip

\* A group state, by the log, the Commits and the ids there are: the one the log leads to, or a group just made,
\* which no Commit has made.
SoundIn(s, rows, known, ids) ==
  /\ s.epoch > 0 => s.epoch <= Len(rows) /\ rows[s.epoch].id = s.tip
  /\ s.epoch = 0 => s.tip \in 1 .. ids /\ \A c \in known : c.id # s.tip
  /\ s.epoch = -1 => s = NoSession
Sound(s) == SoundIn(s, log, Known, built)

\* Two tabs of a device are never both at work.
Exclusive ==
  \A t, u \in Tabs : DeviceOf[t] = DeviceOf[u] /\ t # u => At(t, "idle") \/ At(u, "idle")

\* What may be written over the saved state s.
Fitting(s, hand, then) ==
  \/ s = NoSession
  \/ then = "created"
  \/ then = "sent" /\ hand = [s EXCEPT !.gen = @ + 1]
  \/ hand.epoch > s.epoch

\* The tab's session is what is saved, or nothing is: then the group was wiped, by a tab that died
\* before it could tell the others.
InStep(t) == tab[t].cached = NoSession \/ tab[t].cached = MyDisk(t).state \/ MyDisk(t).state = NoSession

Behind(t) == tab[t].cached = NoSession \/ tab[t].stale

TabSafe(t) ==
  /\ ~At(t, "submit") => Sound(tab[t].cached)
  /\ ~At(t, "idle") => ~tab[t].stale
  /\ At(t, "save") => /\ Sound(tab[t].hand) /\ tab[t].hand # NoSession /\ tab[t].then \in Goals
                      /\ Fitting(MyDisk(t).state, tab[t].hand, tab[t].then)
                      /\ \A u \in Tabs : u # t /\ DeviceOf[u] = DeviceOf[t] => Behind(u)
  /\ At(t, "work") \/ At(t, "rejoined") => tab[t].cached # NoSession
  /\ At(t, "settle") => MyDisk(t).pending # NoCommit
  /\ At(t, "submit") => /\ tab[t].commit # NoCommit /\ tab[t].cached = Post(tab[t].commit)
                        /\ MyDisk(t).state = NoSession \/ MyDisk(t).state.epoch = tab[t].commit.epoch
  /\ At(t, "submitJoin") => tab[t].commit # NoCommit /\ MyDisk(t).state = NoSession
  /\ ~tab[t].stale /\ ~At(t, "submit") /\ ~(At(t, "save") /\ tab[t].then = "committed") => InStep(t)

\* What was sent in the life a device is in was sent under an earlier generation of the saved state, or
\* under a state that no Commit can make again.
SentBefore ==
  \A m \in sent :
    LET mine == disk[m.device]
    IN /\ m.tip <= built
       /\ m.life <= mine.life
       /\ m.life = mine.life => /\ mine.state # NoSession
                                /\ m.tip = mine.state.tip => m.gen < mine.state.gen
                                /\ \A c \in Known : c.id = m.tip => c.epoch < mine.state.epoch

IInv ==
  /\ Types
  /\ Records
  /\ Exclusive
  /\ \A d \in Devices : Sound(disk[d].state)
  /\ \A t \in Tabs : TabSafe(t)
  /\ SentBefore
  /\ GenerationsUsedOnce

-----------------------------------------------------------------------------
(* What a step does to the log, the Commits and the ids.                     *)

\* Commits built in this step, one at most.
New(S) == \A c \in S : /\ c \in Commit /\ c.id = built + 1 /\ c.epoch \in Nat /\ built' = built + 1
                       /\ \A e \in S : e = c

Grows ==
  /\ built' \in {built, built + 1}
  /\ \E S : New(S) /\ Known' \subseteq Known \cup S
  /\ \/ log' = log /\ welcomes' \subseteq welcomes
     \/ \E c \in Known' : /\ c.epoch = Len(log) /\ log' = Append(log, c)
                          /\ \A w \in welcomes' : \/ w \in welcomes
                                                  \/ w.device \in Devices /\ w.epoch = c.epoch + 1 /\ w.tip = c.id
                                                     /\ w \in [device : Devices, epoch : Nat, tip : Nat]
  /\ net' \subseteq Commit

LEMMA SessionFacts ==
  /\ NoSession \in Session /\ NoSession.epoch = -1
  /\ NoCommit.id = 0 /\ FreshTab \in TabRow
  /\ FreshTab.at = "idle" /\ FreshTab.cached = NoSession /\ FreshTab.commit = NoCommit /\ FreshTab.stale = FALSE
BY DEF NoSession, Session, NoCommit, FreshTab, TabRow, Places, GoalsOrNone

LEMMA AnswerMeans ==
  ASSUME NEW c
  PROVE  /\ Answer(c) = "accepted" => c.epoch = Len(log)
         /\ Answer(c) = "duplicate" => c.epoch < Len(log) /\ log[c.epoch + 1] = c
         /\ Answer(c) = "conflict" => c.epoch < Len(log)
BY DEF Answer

\* A Commit is known from wherever it is kept.
LEMMA KnownPlaces ==
  /\ \A i \in DOMAIN log : log[i] # NoCommit => log[i] \in Known
  /\ \A c \in net : c # NoCommit => c \in Known
  /\ \A d \in Devices : /\ disk[d].pending # NoCommit => disk[d].pending \in Known
                        /\ disk[d].join # NoCommit => disk[d].join \in Known
  /\ \A t \in Tabs : tab[t].commit # NoCommit => tab[t].commit \in Known
BY DEF Known

\* The log has the Commits it lists, at their epochs.
LEMMA LogRows ==
  ASSUME Types, Records, NEW i \in DOMAIN log
  PROVE  log[i] \in Known /\ log[i] \in Commit /\ log[i].epoch = i - 1 /\ i \in 1 .. Len(log)
<1>1. log[i] \in Commit /\ log[i].epoch = i - 1 /\ i \in 1 .. Len(log) /\ i \in Int
  BY DEF Types, TypeOK, Records
<1>2. log[i] # NoCommit
  BY <1>1 DEF Commit, NoCommit
<1>. QED  BY <1>1, <1>2, KnownPlaces

\* What is anywhere afterwards was somewhere, or is of S.
LEMMA KnownThen ==
  ASSUME Types, Records, NEW S,
         log' = log \/ \E c \in Known \cup S : log' = Append(log, c),
         net' \subseteq net \cup Known \cup S,
         \A d \in Devices : /\ disk'[d].pending \in {disk[d].pending, NoCommit} \cup S
                            /\ disk'[d].join \in {disk[d].join, NoCommit} \cup S,
         \A t \in Tabs : tab'[t].commit \in {tab[t].commit, NoCommit} \cup S
  PROVE  Known' \subseteq Known \cup S
<1>. SUFFICES ASSUME NEW c \in Known' PROVE c \in Known \cup S
  OBVIOUS
<1>1. c # NoCommit
  BY DEF Known
<1>2. ASSUME NEW i \in DOMAIN log', c = log'[i] PROVE c \in Known \cup S
  <2>1. CASE log' = log
    BY <1>2, <2>1, LogRows
  <2>2. ASSUME NEW e \in Known \cup S, log' = Append(log, e) PROVE c \in Known \cup S
    <3>1. i \in DOMAIN log \/ log'[i] = e
      BY <1>2, <2>2 DEF Types, TypeOK
    <3>2. i \in DOMAIN log => log'[i] = log[i]
      BY <2>2 DEF Types, TypeOK
    <3>. QED  BY <1>2, <2>2, <3>1, <3>2, LogRows
  <2>. QED  BY <2>1, <2>2
<1>3. CASE c \in net'
  BY <1>1, <1>3, KnownPlaces
<1>4. ASSUME NEW d \in Devices, c = disk'[d].pending \/ c = disk'[d].join PROVE c \in Known \cup S
  BY <1>1, <1>4, KnownPlaces
<1>5. ASSUME NEW t \in Tabs, c = tab'[t].commit PROVE c \in Known \cup S
  BY <1>1, <1>5, KnownPlaces
<1>. QED  BY <1>2, <1>3, <1>4, <1>5 DEF Known

LEMMA GrowsRecords ==
  ASSUME Types, Records, Grows
  PROVE  Records' /\ built' \in Nat /\ log' \in Seq(Commit)
         /\ welcomes' \subseteq [device : Devices, epoch : Nat, tip : Nat] /\ net' \subseteq Commit
<1>. PICK S : New(S) /\ Known' \subseteq Known \cup S
  BY DEF Grows
<1>1. built \in Nat /\ built' \in Nat /\ built <= built'
  BY DEF Grows, Types, TypeOK
<1>2. \A c \in Known' : c \in Commit /\ c.id \in 1 .. built' /\ c.epoch \in Nat
  BY <1>1 DEF Records, New
<1>3. \A c, e \in Known' : c.id = e.id => c = e
  BY <1>1 DEF Records, New
<1>4. CASE log' = log /\ welcomes' \subseteq welcomes
  BY <1>1, <1>2, <1>3, <1>4 DEF Records, Types, TypeOK, Grows
<1>5. ASSUME NEW c \in Known', c.epoch = Len(log), log' = Append(log, c),
             \A w \in welcomes' : \/ w \in welcomes
                                  \/ w.device \in Devices /\ w.epoch = c.epoch + 1 /\ w.tip = c.id
                                     /\ w \in [device : Devices, epoch : Nat, tip : Nat]
      PROVE  Records' /\ log' \in Seq(Commit) /\ welcomes' \subseteq [device : Devices, epoch : Nat, tip : Nat]
  <2>1. log \in Seq(Commit) /\ c \in Commit
    BY <1>2 DEF Types, TypeOK
  <2>2. /\ log' \in Seq(Commit) /\ DOMAIN log' = 1 .. Len(log) + 1 /\ log'[Len(log) + 1] = c
        /\ DOMAIN log = 1 .. Len(log) /\ \A i \in DOMAIN log : log'[i] = log[i]
    BY <1>5, <2>1
  <2>3. \A i \in DOMAIN log' : log'[i].epoch = i - 1
    BY <1>5, <2>2 DEF Records
  <2>4. \A w \in welcomes' : w.epoch \in DOMAIN log' /\ log'[w.epoch].id = w.tip
    BY <1>5, <2>1, <2>2 DEF Records
  <2>. QED  BY <1>2, <1>3, <1>5, <2>2, <2>3, <2>4 DEF Records, Types, TypeOK
<1>. QED  BY <1>1, <1>4, <1>5 DEF Grows

\* A sound group state stays one.
LEMMA SoundStays ==
  ASSUME Types, Records, Grows, NEW s \in Session, SoundIn(s, log, Known, built)
  PROVE  SoundIn(s, log', Known', built')
<1>. PICK S : New(S) /\ Known' \subseteq Known \cup S
  BY DEF Grows
<1>1. built \in Nat /\ built' \in Nat /\ built <= built'
  BY DEF Grows, Types, TypeOK
<1>2. log \in Seq(Commit) /\ (log' = log \/ \E c : log' = Append(log, c))
  BY DEF Grows, Types, TypeOK
<1>3. ASSUME NEW i \in 1 .. Len(log) PROVE i <= Len(log') /\ log'[i] = log[i]
  BY <1>2
<1>4. s.epoch > 0 => s.epoch <= Len(log') /\ log'[s.epoch].id = s.tip
  BY <1>2, <1>3 DEF SoundIn, Session
<1>5. s.epoch = 0 => s.tip \in 1 .. built' /\ \A c \in Known' : c.id # s.tip
  BY <1>1 DEF SoundIn, New
<1>. QED  BY <1>4, <1>5 DEF SoundIn

-----------------------------------------------------------------------------
(* What a step of tab t does to the tabs and the disk of its device.         *)

\* The disk of t's device gets these records; its group and the other disks stay.
DiskTo(t, pending, join) ==
  /\ disk' \in [Devices -> DiskRow]
  /\ \A d \in Devices \ {DeviceOf[t]} : disk'[d] = disk[d]
  /\ disk'[DeviceOf[t]].state = MyDisk(t).state /\ disk'[DeviceOf[t]].life = MyDisk(t).life
  /\ disk'[DeviceOf[t]].pending = pending /\ disk'[DeviceOf[t]].join = join

\* No other tab of the device is at work.
Holds(t) == \A u \in Tabs : u # t /\ DeviceOf[u] = DeviceOf[t] => At(u, "idle")

\* The other tabs stay, but that some hear of a new stamp.
OthersKept(t) ==
  \A u \in Tabs \ {t} :
    \/ tab'[u] = tab[u]
    \/ DeviceOf[u] = DeviceOf[t] /\ tab'[u] = [tab[u] EXCEPT !.stale = tab[u].cached # NoSession]

\* A row of t that has no group to save.
Calm(t, m, pending) ==
  /\ m.at # "save"
  /\ m.at # "idle" => ~m.stale
  /\ \/ m.at = "submit" \/ m.cached = NoSession \/ m.cached = MyDisk(t).state
     \/ m.cached = tab[t].cached /\ ~At(t, "submit") /\ ~At(t, "save") /\ (tab[t].stale => m.stale)
  /\ m.at \in {"work", "rejoined"} => m.cached # NoSession
  /\ m.at = "settle" => pending # NoCommit
  /\ m.at = "submit" => m.commit # NoCommit /\ m.cached = Post(m.commit) /\ (MyDisk(t).state = NoSession \/ MyDisk(t).state.epoch = m.commit.epoch)
  /\ m.at = "submitJoin" => m.commit # NoCommit /\ MyDisk(t).state = NoSession

\* Tab t goes on without a word about the group.
Quiet(t) ==
  /\ Holds(t) \/ (Becomes(t, FreshTab) /\ disk' = disk)
  /\ tab' \in [Tabs -> TabRow] /\ OthersKept(t) /\ sent' = sent
  /\ \E pending, join : DiskTo(t, pending, join) /\ Calm(t, tab'[t], pending)

\* Tab t has a group to save, and every other tab has heard of it.
Persisted(t) ==
  /\ Holds(t) /\ ~At(t, "idle")
  /\ tab' \in [Tabs -> TabRow] /\ OthersKept(t) /\ sent' = sent
  /\ \E pending, join : DiskTo(t, pending, join)
  /\ \A u \in Tabs : u # t /\ DeviceOf[u] = DeviceOf[t] => Behind(u)'
  /\ tab'[t].at = "save" /\ ~tab'[t].stale /\ tab'[t].hand # NoSession /\ tab'[t].then \in Goals
  /\ SoundIn(tab'[t].hand, log', Known', built') /\ SoundIn(tab'[t].cached, log', Known', built')
  /\ \/ tab'[t].then = "committed" \/ tab'[t].cached = NoSession
     \/ tab'[t].cached = tab[t].cached /\ ~At(t, "submit") /\ ~At(t, "save")
  /\ Fitting(MyDisk(t).state, tab'[t].hand, tab'[t].then)

\* Each step of a tab but the writing of its group is one of the two.
Kind(t) == Grows /\ (Quiet(t) \/ Persisted(t))

LEMMA Here ==
  ASSUME IInv, NEW t \in Tabs
  PROVE  /\ DeviceOf[t] \in Devices /\ tab[t] \in TabRow /\ MyDisk(t) \in DiskRow /\ TabSafe(t)
         /\ MyDisk(t) = disk[DeviceOf[t]] /\ Sound(MyDisk(t).state) /\ built \in Nat
         /\ tab \in [Tabs -> TabRow] /\ disk \in [Devices -> DiskRow]
BY TabsAssumption DEF IInv, Types, TypeOK, MyDisk, DiskRow

\* At work, a tab is alone in it.
LEMMA AtWork ==
  ASSUME IInv, NEW t \in Tabs, ~At(t, "idle")
  PROVE  Holds(t) /\ ~tab[t].stale
BY DEF IInv, Exclusive, Holds, At, TabSafe

\* Its session, unless it has just made another one, is what is saved; or nothing is saved.
LEMMA CurrentIsSaved ==
  ASSUME IInv, NEW t \in Tabs, ~At(t, "idle"), ~At(t, "submit"), ~At(t, "save")
  PROVE  /\ MyDisk(t).state = NoSession \/ Current(t) = MyDisk(t).state
         /\ Current(t) = NoSession => MyDisk(t).state = NoSession
         /\ Current(t) \in Session /\ Sound(Current(t))
<1>1. TabSafe(t) /\ Sound(MyDisk(t).state) /\ tab[t] \in TabRow /\ MyDisk(t) \in DiskRow
  BY Here
<1>2. InStep(t) /\ Sound(tab[t].cached)
  BY <1>1 DEF TabSafe, At
<1>. QED  BY <1>1, <1>2 DEF Current, InStep, TabRow, DiskRow

LEMMA SavesPending ==
  ASSUME IInv, NEW t \in Tabs, NEW c \in Commit \cup {NoCommit}, Saves(t, "pending", c)
  PROVE  DiskTo(t, c, MyDisk(t).join)
<1>1. disk' = [disk EXCEPT ![DeviceOf[t]] = [MyDisk(t) EXCEPT !.pending = c]]
  BY DEF Saves, MyDisk
<1>2. [MyDisk(t) EXCEPT !.pending = c] \in DiskRow
  BY Here DEF DiskRow
<1>3. disk'[DeviceOf[t]] = [MyDisk(t) EXCEPT !.pending = c]
  BY <1>1, Here
<1>. QED  BY <1>1, <1>2, <1>3, Here DEF DiskTo, DiskRow

LEMMA SavesJoin ==
  ASSUME IInv, NEW t \in Tabs, NEW c \in Commit \cup {NoCommit}, Saves(t, "join", c)
  PROVE  DiskTo(t, MyDisk(t).pending, c)
<1>1. disk' = [disk EXCEPT ![DeviceOf[t]] = [MyDisk(t) EXCEPT !.join = c]]
  BY DEF Saves, MyDisk
<1>2. [MyDisk(t) EXCEPT !.join = c] \in DiskRow
  BY Here DEF DiskRow
<1>3. disk'[DeviceOf[t]] = [MyDisk(t) EXCEPT !.join = c]
  BY <1>1, Here
<1>. QED  BY <1>1, <1>2, <1>3, Here DEF DiskTo, DiskRow

LEMMA SavesNothing ==
  ASSUME IInv, NEW t \in Tabs, disk' = disk
  PROVE  DiskTo(t, MyDisk(t).pending, MyDisk(t).join)
BY Here DEF DiskTo, MyDisk

\* A new row of t.
LEMMA Becoming ==
  ASSUME IInv, NEW t \in Tabs, NEW m \in TabRow, Becomes(t, m)
  PROVE  tab' \in [Tabs -> TabRow] /\ tab'[t] = m /\ OthersKept(t) /\ \A u \in Tabs \ {t} : tab'[u] = tab[u]
BY Here DEF Becomes, OthersKept

\* The same, and the others hear of a new stamp.
LEMMA Stamping ==
  ASSUME IInv, NEW t \in Tabs, NEW m \in TabRow, Stamped(t, m)
  PROVE  /\ tab' \in [Tabs -> TabRow] /\ tab'[t] = m /\ OthersKept(t)
         /\ \A u \in Tabs : u # t /\ DeviceOf[u] = DeviceOf[t] => Behind(u)'
         /\ \A u \in Tabs \ {t} : tab'[u].commit = tab[u].commit
<1>1. \A x \in Tabs : tab'[x] = CASE x = t -> m
                                [] x # t /\ DeviceOf[x] = DeviceOf[t] -> [tab[x] EXCEPT !.stale = tab[x].cached # NoSession]
                                [] OTHER -> tab[x]
  BY DEF Stamped
<1>2. \A x \in Tabs : tab[x] \in TabRow /\ [tab[x] EXCEPT !.stale = tab[x].cached # NoSession] \in TabRow
  BY Here DEF TabRow
<1>3. tab' = [x \in Tabs |-> tab'[x]]
  BY DEF Stamped
<1>4. ASSUME NEW x \in Tabs, x # t
      PROVE  /\ tab'[x] = IF DeviceOf[x] = DeviceOf[t] THEN [tab[x] EXCEPT !.stale = tab[x].cached # NoSession] ELSE tab[x]
             /\ tab'[x] \in TabRow
             /\ tab'[x].commit = tab[x].commit /\ tab'[x].cached = tab[x].cached
             /\ DeviceOf[x] = DeviceOf[t] => tab'[x].stale = (tab[x].cached # NoSession)
  BY <1>1, <1>2, <1>4 DEF TabRow
<1>5. tab'[t] = m
  BY <1>1
<1>6. tab' \in [Tabs -> TabRow]
  BY <1>3, <1>4, <1>5
<1>. QED  BY <1>4, <1>5, <1>6 DEF OthersKept, Behind

\* The server took a Commit it was sent, or nothing.
Told ==
  \/ log' = log /\ welcomes' \subseteq welcomes
  \/ \E c \in Known : Delivered(c)

\* A Commit the server takes is known afterwards, and its Welcomes lead to it.
LEMMA DeliveredGrows ==
  ASSUME Types, NEW c \in Commit, c.epoch \in Nat, Delivered(c)
  PROVE  \/ log' = log /\ welcomes' \subseteq welcomes
         \/ /\ c \in Known' /\ c.epoch = Len(log) /\ log' = Append(log, c)
            /\ \A w \in welcomes' : \/ w \in welcomes
                                    \/ w.device \in Devices /\ w.epoch = c.epoch + 1 /\ w.tip = c.id
                                       /\ w \in [device : Devices, epoch : Nat, tip : Nat]
<1>1. CASE Answer(c) = "accepted"
  <2>1. /\ c.epoch = Len(log) /\ log' = Append(log, c) /\ log \in Seq(Commit)
        /\ welcomes' = welcomes \cup {[device |-> d, epoch |-> c.epoch + 1, tip |-> c.id] : d \in c.added}
    BY <1>1, AnswerMeans DEF Delivered, Types, TypeOK
  <2>2. c.added \subseteq Devices /\ c.id \in Nat /\ c # NoCommit
    BY DEF Commit, NoCommit
  <2>3. \A d \in c.added : [device |-> d, epoch |-> c.epoch + 1, tip |-> c.id] \in [device : Devices, epoch : Nat, tip : Nat]
    BY <2>2
  <2>4. Len(log) + 1 \in DOMAIN log' /\ log'[Len(log) + 1] = c
    BY <2>1
  <2>5. c \in Known'
    BY <2>2, <2>4 DEF Known
  <2>. QED  BY <2>1, <2>2, <2>3, <2>5
<1>2. CASE Answer(c) # "accepted"
  BY <1>2 DEF Delivered, serverVars
<1>. QED  BY <1>1, <1>2

\* Where the records may go.
LEMMA GrowsIf ==
  ASSUME Types, Records, NEW S, New(S) \/ S \subseteq Known, built' \in {built, built + 1},
         \A d \in Devices : /\ disk'[d].pending \in {disk[d].pending, NoCommit} \cup S
                            /\ disk'[d].join \in {disk[d].join, NoCommit} \cup S,
         \A u \in Tabs : tab'[u].commit \in {tab[u].commit, NoCommit} \cup S,
         net' \subseteq net \cup Known,
         \/ log' = log /\ welcomes' \subseteq welcomes
         \/ \E c \in Known \cup S : Delivered(c)
  PROVE  Grows
<1>1. \A c \in Known \cup S : c \in Commit /\ c.epoch \in Nat
  BY DEF Records, New
<1>2. net' \subseteq Commit /\ net' \subseteq net \cup Known \cup S
  BY <1>1 DEF Types, TypeOK
<1>3. log' = log \/ \E c \in Known \cup S : log' = Append(log, c)
  BY <1>1, DeliveredGrows
<1>4. Known' \subseteq Known \cup S
  BY <1>2, <1>3, KnownThen
<1>5. \E R : New(R) /\ Known' \subseteq Known \cup R
  <2>1. New({})
    BY DEF New
  <2>2. S \subseteq Known => Known' \subseteq Known \cup {}
    BY <1>4
  <2>. QED  BY <1>4, <2>1, <2>2
<1>6. \/ log' = log /\ welcomes' \subseteq welcomes
      \/ \E c \in Known' : /\ c.epoch = Len(log) /\ log' = Append(log, c)
                           /\ \A w \in welcomes' : \/ w \in welcomes
                                                   \/ w.device \in Devices /\ w.epoch = c.epoch + 1 /\ w.tip = c.id
                                                      /\ w \in [device : Devices, epoch : Nat, tip : Nat]
  BY <1>1, DeliveredGrows
<1>. QED  BY <1>2, <1>5, <1>6 DEF Grows

\* How the records of t's device and tab may change with them.
LEMMA GrowsBy ==
  ASSUME IInv, NEW t \in Tabs, NEW S, NEW pending, NEW join, DiskTo(t, pending, join),
         New(S) \/ S \subseteq Known,
         built' \in {built, built + 1},
         pending \in {MyDisk(t).pending, NoCommit} \cup S, join \in {MyDisk(t).join, NoCommit} \cup S,
         tab'[t].commit \in {tab[t].commit, NoCommit} \cup S, \A u \in Tabs \ {t} : tab'[u].commit = tab[u].commit,
         net' \subseteq net \cup Known, Told
  PROVE  Grows
<1>1. Types /\ Records /\ MyDisk(t) = disk[DeviceOf[t]]
  BY Here DEF IInv
<1>2. \A d \in Devices : /\ disk'[d].pending \in {disk[d].pending, NoCommit} \cup S
                         /\ disk'[d].join \in {disk[d].join, NoCommit} \cup S
  BY <1>1 DEF DiskTo
<1>3. \A u \in Tabs : tab'[u].commit \in {tab[u].commit, NoCommit} \cup S
  OBVIOUS
<1>. QED  BY <1>1, <1>2, <1>3, GrowsIf DEF Told

-----------------------------------------------------------------------------
(* The rows a task goes on with, or ends with.                               *)

LEMMA DoneRow ==
  ASSUME NEW m \in TabRow, NEW rest \in Seq(Tasks)
  PROVE  /\ Done(m, rest) \in TabRow /\ Done(m, rest).at = "idle"
         /\ Done(m, rest).cached = m.cached /\ Done(m, rest).stale = m.stale /\ Done(m, rest).commit = NoCommit
BY SessionFacts DEF Done, TabRow, Places, GoalsOrNone

LEMMA FailedRow ==
  ASSUME NEW m \in TabRow
  PROVE  /\ Failed(m) \in TabRow /\ Failed(m).at = "idle"
         /\ Failed(m).cached = m.cached /\ Failed(m).stale = m.stale /\ Failed(m).commit = NoCommit
<1>1. m.rest \in Seq(Tasks) /\ <<"forget">> \in Seq(Tasks) /\ <<>> \in Seq(Tasks)
  BY DEF TabRow, Tasks
<1>2. PICK rest \in Seq(Tasks) : Failed(m) = Done(m, rest)
  BY <1>1 DEF Failed
<1>. QED  BY <1>2, DoneRow

LEMMA NoGroupRow ==
  ASSUME NEW m \in TabRow
  PROVE  /\ NoGroup(m) \in TabRow /\ NoGroup(m).at = "idle"
         /\ NoGroup(m).cached = m.cached /\ NoGroup(m).stale = m.stale /\ NoGroup(m).commit = NoCommit
<1>1. <<"create", "seed", "send">> \in Seq(Tasks)
  BY DEF Tasks
<1>. QED  BY <1>1, DoneRow, FailedRow DEF NoGroup

LEMMA ReadyRow ==
  ASSUME NEW m \in TabRow
  PROVE  /\ Ready(m) \in TabRow /\ Ready(m).at \in {"idle", "work"}
         /\ Ready(m).cached = m.cached /\ Ready(m).stale = m.stale /\ Ready(m).commit \in {m.commit, NoCommit}
<1>1. <<"send">> \in Seq(Tasks)
  BY DEF Tasks
<1>2. [m EXCEPT !.at = "work"] \in TabRow
  BY DEF TabRow, Places
<1>. QED  BY <1>1, <1>2, DoneRow DEF Ready, TabRow

LEMMA OpenedRow ==
  ASSUME NEW m \in TabRow, NEW d \in Devices, disk[d] \in DiskRow
  PROVE  /\ Opened(m, d) \in TabRow /\ Opened(m, d).at \in {"idle", "work", "open"}
         /\ Opened(m, d).cached = IF m.cached # NoSession THEN m.cached ELSE disk[d].state
         /\ Opened(m, d).at = "work" => Opened(m, d).cached # NoSession
         /\ Opened(m, d).stale = m.stale /\ Opened(m, d).commit \in {m.commit, NoCommit}
<1>. DEFINE s == IF m.cached # NoSession THEN m.cached ELSE disk[d].state
            k == [m EXCEPT !.known = TRUE, !.cached = s]
            o == [k EXCEPT !.at = "open"]
<1>0. ASSUME NEW r \in TabRow
      PROVE  LET o2 == [r EXCEPT !.at = "open"]
             IN o2 \in TabRow /\ o2.cached = r.cached /\ o2.stale = r.stale /\ o2.commit = r.commit /\ o2.at = "open"
  BY DEF TabRow, Places
<1>1. s \in Session
  BY DEF TabRow, DiskRow
<1>2. k \in TabRow /\ k.cached = s /\ k.stale = m.stale /\ k.commit = m.commit
  BY <1>1 DEF TabRow
<1>3. o \in TabRow /\ o.cached = s /\ o.stale = m.stale /\ o.commit = m.commit /\ o.at = "open"
  <2>. HIDE DEF k
  <2>. QED  BY <1>0, <1>2
<1>4. Opened(m, d) = CASE s # NoSession -> Ready(k)
                       [] s = NoSession /\ disk[d].join # NoCommit -> o
                       [] OTHER -> NoGroup(k)
  BY DEF Opened
<1>. HIDE DEF k, o
<1>. QED  BY <1>2, <1>3, <1>4, ReadyRow, NoGroupRow

LEMMA OpeningRow ==
  ASSUME NEW m \in TabRow, NEW d \in Devices, disk[d] \in DiskRow
  PROVE  /\ Opening(m, d) \in TabRow /\ Opening(m, d).at \in {"idle", "work", "open", "settle"}
         /\ Opening(m, d).cached \in {m.cached, disk[d].state}
         /\ Opening(m, d).at = "work" => Opening(m, d).cached # NoSession
         /\ Opening(m, d).at = "settle" => disk[d].pending # NoCommit
         /\ Opening(m, d).stale = m.stale /\ Opening(m, d).commit \in {m.commit, NoCommit}
<1>1. [m EXCEPT !.at = "settle"] \in TabRow
  BY DEF TabRow, Places
<1>. QED  BY <1>1, OpenedRow DEF Opening, TabRow

LEMMA DroppedRow ==
  ASSUME NEW m \in TabRow
  PROVE  /\ Dropped(m) \in TabRow /\ Dropped(m).cached = NoSession /\ Dropped(m).stale = FALSE
         /\ Dropped(m).commit = m.commit /\ Dropped(m).at = m.at /\ Dropped(m).rest = m.rest
         /\ Dropped(m).hand = m.hand /\ Dropped(m).task = m.task
BY SessionFacts DEF Dropped, TabRow

\* A task that ends with the session it has, or none.
LEMMA CalmEnd ==
  ASSUME IInv, NEW t \in Tabs, NEW m \in TabRow, NEW pending, m.at = "idle",
         \/ m.cached = NoSession \/ m.cached = MyDisk(t).state
         \/ m.cached = tab[t].cached /\ m.stale = tab[t].stale /\ ~At(t, "submit") /\ ~At(t, "save")
  PROVE  Calm(t, m, pending)
BY DEF Calm

\* A step of a tab at work that writes no group and answers nothing.
LEMMA QuietStep ==
  ASSUME IInv, NEW t \in Tabs, NEW m \in TabRow, NEW pending, NEW join,
         Holds(t), DiskTo(t, pending, join), Becomes(t, m), sent' = sent, Calm(t, m, pending)
  PROVE  Quiet(t)
BY Becoming DEF Quiet

\* Nor does it build a Commit.
LEMMA QuietLocal ==
  ASSUME IInv, NEW t \in Tabs, NEW m \in TabRow,
         NEW pending \in {MyDisk(t).pending, NoCommit}, NEW join \in {MyDisk(t).join, NoCommit},
         Holds(t), DiskTo(t, pending, join), Becomes(t, m), Calm(t, m, pending), m.commit \in {tab[t].commit, NoCommit},
         UNCHANGED <<sent, built>>, net' \subseteq net \cup Known, Told
  PROVE  Kind(t)
<1>1. tab'[t] = m /\ \A u \in Tabs \ {t} : tab'[u] = tab[u]
  BY Becoming
<1>2. {} \subseteq Known
  OBVIOUS
<1>3. Grows
  BY <1>1, <1>2, GrowsBy
<1>. QED  BY <1>3, QuietStep DEF Kind

-----------------------------------------------------------------------------
(* Each step of a tab is quiet, or announces a group it saves.               *)

LEMMA CrashKind == ASSUME IInv, NEW t \in Tabs, Crash(t) PROVE Kind(t)
<1>1. DiskTo(t, MyDisk(t).pending, MyDisk(t).join)
  BY SavesNothing DEF Crash
<1>2. tab' \in [Tabs -> TabRow] /\ tab'[t] = FreshTab /\ OthersKept(t) /\ \A u \in Tabs \ {t} : tab'[u] = tab[u]
  BY SessionFacts, Becoming DEF Crash
<1>3. Calm(t, FreshTab, MyDisk(t).pending)
  BY SessionFacts DEF Calm
<1>4. Quiet(t)
  BY <1>1, <1>2, <1>3 DEF Quiet, Crash, historyVars
<1>5. Grows
  <2>1. {} \subseteq Known
    OBVIOUS
  <2>. QED  BY <1>1, <1>2, <2>1, SessionFacts, GrowsBy DEF Crash, serverVars, Told
<1>. QED  BY <1>4, <1>5 DEF Kind

LEMMA BeginKind ==
  ASSUME IInv, NEW t \in Tabs, NEW task \in Tasks, Begin(t, task)
  PROVE  /\ Kind(t) /\ Holds(t)
         /\ tab'[t].at \in {"create", "look", "welcome", "forget", "idle", "work", "open", "settle"}
<1>. DEFINE m == [tab[t] EXCEPT
                    !.cached = IF IsStale(t) THEN NoSession ELSE tab[t].cached,
                    !.stale = FALSE,
                    !.task = task,
                    !.at = FirstStep(task),
                    !.rest = CASE task = "recover" -> <<"join">>
                               [] tab[t].rest = <<>> -> <<>>
                               [] OTHER -> Tail(tab[t].rest)]
            n == IF m.at = "settle" THEN Opening(m, DeviceOf[t]) ELSE m
<1>1. Becomes(t, n) /\ LockIsFree(DeviceOf[t]) /\ UNCHANGED <<log, welcomes, disk, net, sent, built>>
  BY DEF Begin, serverVars, historyVars
<1>2. tab[t] \in TabRow /\ DeviceOf[t] \in Devices /\ disk[DeviceOf[t]] \in DiskRow
  BY Here
<1>3. FirstStep(task) \in {"create", "look", "welcome", "forget", "settle"}
  BY DEF FirstStep
<1>4. (CASE task = "recover" -> <<"join">> [] tab[t].rest = <<>> -> <<>> [] OTHER -> Tail(tab[t].rest)) \in Seq(Tasks)
  <2>1. <<"join">> \in Seq(Tasks) /\ <<>> \in Seq(Tasks) /\ tab[t].rest \in Seq(Tasks)
    BY <1>2 DEF TabRow, Tasks
  <2>2. tab[t].rest # <<>> => Tail(tab[t].rest) \in Seq(Tasks)
    BY <2>1
  <2>. QED  BY <2>1, <2>2
<1>5. /\ m \in TabRow /\ m.at \in {"create", "look", "welcome", "forget", "settle"} /\ m.stale = FALSE
      /\ m.cached = (IF tab[t].stale THEN NoSession ELSE tab[t].cached) /\ m.commit = tab[t].commit
  BY <1>2, <1>3, <1>4, SessionFacts DEF TabRow, Places, IsStale
<1>. HIDE DEF m
<1>6. /\ n \in TabRow /\ n.at \in {"create", "look", "welcome", "forget", "idle", "work", "open", "settle"}
      /\ n.cached \in {m.cached, disk[DeviceOf[t]].state}
      /\ n.at = "work" => n.cached # NoSession
      /\ n.at = "settle" => disk[DeviceOf[t]].pending # NoCommit
      /\ n.stale = FALSE /\ n.commit \in {tab[t].commit, NoCommit}
  BY <1>2, <1>5, OpeningRow
<1>. HIDE DEF n
<1>7. At(t, "idle") /\ Holds(t)
  BY <1>1 DEF LockIsFree, Holds
<1>8. Calm(t, n, MyDisk(t).pending)
  BY <1>5, <1>6, <1>7 DEF Calm, At, MyDisk
<1>9. DiskTo(t, MyDisk(t).pending, MyDisk(t).join)
  BY <1>1, SavesNothing
<1>10. tab'[t] = n
  BY <1>1, <1>6, Becoming
<1>. QED  BY <1>1, <1>6, <1>7, <1>8, <1>9, <1>10, QuietLocal DEF Told

\* What a tab at work may keep in its row while it goes on.
Stays(t, m) ==
  /\ m \in TabRow /\ m.commit \in {tab[t].commit, NoCommit} /\ m.stale = tab[t].stale
  /\ m.cached \in {tab[t].cached, MyDisk(t).state, NoSession}
  /\ m.at \in Places \ {"save", "submit", "submitJoin", "settle"}
  /\ m.at \in {"work", "rejoined"} => m.cached # NoSession

LEMMA StaysCalm ==
  ASSUME IInv, NEW t \in Tabs, NEW m, ~At(t, "idle"), ~At(t, "submit"), ~At(t, "save"), Stays(t, m), NEW pending
  PROVE  Calm(t, m, pending)
BY AtWork DEF Calm, Stays

\* A step of a tab that is at work, on its own.
LEMMA StaysQuiet ==
  ASSUME IInv, NEW t \in Tabs, NEW m, ~At(t, "idle"), ~At(t, "submit"), ~At(t, "save"), Stays(t, m),
         NEW pending \in {MyDisk(t).pending, NoCommit}, NEW join \in {MyDisk(t).join, NoCommit},
         DiskTo(t, pending, join), Becomes(t, m),
         UNCHANGED <<sent, built>>, net' \subseteq net \cup Known, Told
  PROVE  Kind(t)
BY StaysCalm, AtWork, QuietLocal DEF Stays

LEMMA OpenedStays ==
  ASSUME IInv, NEW t \in Tabs, NEW m, m \in TabRow, m.commit \in {tab[t].commit, NoCommit},
         m.stale = tab[t].stale, m.cached = tab[t].cached
  PROVE  Stays(t, Opened(m, DeviceOf[t]))
<1>1. DeviceOf[t] \in Devices /\ disk[DeviceOf[t]] \in DiskRow
  BY Here
<1>. QED  BY <1>1, OpenedRow DEF Stays, Places, MyDisk

LEMMA DropOldRecordKind == ASSUME IInv, NEW t \in Tabs, DropOldRecord(t) PROVE Kind(t)
<1>1. /\ At(t, "settle") /\ Saves(t, "pending", NoCommit) /\ Becomes(t, Opened(tab[t], DeviceOf[t]))
      /\ UNCHANGED <<log, welcomes, net, sent, built>>
  BY DEF DropOldRecord, HasRecord, DropsRecord, serverVars
<1>2. Stays(t, Opened(tab[t], DeviceOf[t]))
  BY OpenedStays, Here
<1>3. DiskTo(t, NoCommit, MyDisk(t).join)
  BY <1>1, SavesPending
<1>. QED  BY <1>1, <1>2, <1>3, StaysQuiet DEF At, Told

LEMMA DiscardRecordKind == ASSUME IInv, NEW t \in Tabs, DiscardRecord(t) PROVE Kind(t)
<1>. DEFINE m == [tab[t] EXCEPT !.known = TRUE]
            n == IF At(t, "settled") THEN Opened(m, DeviceOf[t]) ELSE Done(m, m.rest)
<1>1. /\ tab[t].at \in {"settled", "committed"} /\ Saves(t, "pending", NoCommit) /\ Becomes(t, n)
      /\ UNCHANGED <<log, welcomes, net, sent, built>>
  BY DEF DiscardRecord, serverVars, historyVars
<1>2. m \in TabRow /\ m.rest \in Seq(Tasks) /\ m.commit = tab[t].commit /\ m.stale = tab[t].stale /\ m.cached = tab[t].cached
  BY Here DEF TabRow
<1>. HIDE DEF m
<1>3. Stays(t, Opened(m, DeviceOf[t]))
  BY <1>2, OpenedStays
<1>4. Stays(t, Done(m, m.rest))
  BY <1>2, DoneRow DEF Stays, Places
<1>5. Stays(t, n)
  BY <1>3, <1>4
<1>. HIDE DEF n
<1>6. DiskTo(t, NoCommit, MyDisk(t).join)
  BY <1>1, SavesPending
<1>. QED  BY <1>1, <1>5, <1>6, StaysQuiet DEF At, Told

LEMMA DiscardJoinKind == ASSUME IInv, NEW t \in Tabs, DiscardJoin(t) PROVE Kind(t)
<1>. DEFINE m == [tab[t] EXCEPT !.refused = FALSE]
            n == IF At(t, "rejoined") THEN Ready(m) ELSE Done(m, m.rest)
<1>1. /\ tab[t].at \in {"rejoined", "joined"} /\ Saves(t, "join", NoCommit) /\ Becomes(t, n)
      /\ UNCHANGED <<log, welcomes, net, sent, built>>
  BY DEF DiscardJoin, serverVars, historyVars
<1>2. m \in TabRow /\ m.rest \in Seq(Tasks) /\ m.commit = tab[t].commit /\ m.stale = tab[t].stale /\ m.cached = tab[t].cached
  BY Here DEF TabRow
<1>. HIDE DEF m
<1>3. /\ At(t, "rejoined") => Stays(t, Ready(m))
      /\ Stays(t, Done(m, m.rest))
  BY <1>2, Here, ReadyRow, DoneRow DEF Stays, Places, TabSafe
<1>4. Stays(t, n)
  BY <1>3
<1>. HIDE DEF n
<1>5. DiskTo(t, MyDisk(t).pending, NoCommit)
  BY <1>1, SavesJoin
<1>. QED  BY <1>1, <1>4, <1>5, StaysQuiet DEF At, Told

\* Whatever a tab at work has, the Commit it is about is known.
LEMMA RecordKnown ==
  ASSUME NEW t \in Tabs, DeviceOf[t] \in Devices
  PROVE  /\ MyDisk(t).pending # NoCommit => MyDisk(t).pending \in Known
         /\ MyDisk(t).join # NoCommit => MyDisk(t).join \in Known
         /\ tab[t].commit # NoCommit => tab[t].commit \in Known
BY KnownPlaces DEF MyDisk

\* The state after a Commit the server has is the one the log leads to.
LEMMA PostOfLogged ==
  ASSUME Types, Records, NEW c \in Known, NEW ids, NEW known,
         \/ Delivered(c) /\ ServerHas(c)
         \/ log' = log /\ c.id \in LogIds
  PROVE  /\ Post(c) \in Session /\ Post(c) # NoSession /\ Post(c).epoch = c.epoch + 1
         /\ SoundIn(Post(c), log', known, ids)
<1>1. c \in Commit /\ c.epoch \in Nat /\ c.id \in Nat /\ log \in Seq(Commit)
  BY DEF Records, Types, TypeOK
<1>2. Post(c) = [epoch |-> c.epoch + 1, tip |-> c.id, gen |-> 0] /\ Post(c) \in Session /\ Post(c).epoch > 0
  BY <1>1 DEF Post, Session
<1>3. Post(c) # NoSession
  BY <1>1, <1>2 DEF NoSession
<1>4. c.epoch + 1 <= Len(log') /\ log'[c.epoch + 1].id = c.id
  <2>1. CASE log' = log /\ c.id \in LogIds
    <3>1. PICK i \in DOMAIN log : log[i].id = c.id
      BY <2>1 DEF LogIds
    <3>2. log[i] \in Known /\ log[i].epoch = i - 1 /\ i \in 1 .. Len(log)
      BY LogRows
    <3>3. log[i] = c
      BY <3>1, <3>2 DEF Records
    <3>. QED  BY <1>1, <2>1, <3>2, <3>3
  <2>2. CASE Delivered(c) /\ ServerHas(c)
    <3>1. CASE Answer(c) = "accepted"
      BY <1>1, <2>2, <3>1, AnswerMeans DEF Delivered
    <3>2. CASE Answer(c) = "duplicate"
      BY <1>1, <2>2, <3>2, AnswerMeans DEF Delivered, serverVars
    <3>. QED  BY <2>2, <3>1, <3>2 DEF ServerHas
  <2>. QED  BY <2>1, <2>2
<1>. QED  BY <1>1, <1>2, <1>3, <1>4 DEF SoundIn

\* A tab at work announces that it saves s.
LEMMA PersistsKind ==
  ASSUME IInv, NEW t \in Tabs, NEW m \in TabRow, NEW s \in Session, NEW then \in Goals,
         NEW pending \in {MyDisk(t).pending, NoCommit}, NEW join \in {MyDisk(t).join, NoCommit},
         Persists(t, m, s, then), DiskTo(t, pending, join),
         ~At(t, "idle"), ~At(t, "save"), m.commit \in {tab[t].commit, NoCommit}, ~m.stale,
         \/ m.cached = NoSession
         \/ m.cached = tab[t].cached /\ ~At(t, "submit")
         \/ m.cached = s /\ then = "committed",
         sent' = sent, built' \in {built, built + 1}, net' \subseteq net \cup Known, Told,
         s # NoSession, Grows => SoundIn(s, log', Known', built'), Fitting(MyDisk(t).state, s, then)
  PROVE  Kind(t)
<1>. DEFINE n == [m EXCEPT !.hand = s, !.at = "save", !.then = then]
<1>1. /\ n \in TabRow /\ n.hand = s /\ n.at = "save" /\ n.then = then /\ n.cached = m.cached
      /\ n.commit = m.commit /\ n.stale = FALSE
  BY DEF TabRow, Places, GoalsOrNone
<1>2. Stamped(t, n)
  BY DEF Persists
<1>. HIDE DEF n
<1>3. /\ tab' \in [Tabs -> TabRow] /\ tab'[t] = n /\ OthersKept(t)
      /\ \A u \in Tabs : u # t /\ DeviceOf[u] = DeviceOf[t] => Behind(u)'
      /\ \A u \in Tabs \ {t} : tab'[u].commit = tab[u].commit
  BY <1>1, <1>2, Stamping
<1>4. Grows
  <2>1. {} \subseteq Known
    OBVIOUS
  <2>. QED  BY <1>1, <1>3, <2>1, GrowsBy
<1>5. SoundIn(m.cached, log', Known', built')
  <2>1. CASE m.cached = NoSession
    BY <2>1, SessionFacts DEF SoundIn
  <2>2. CASE m.cached = tab[t].cached /\ ~At(t, "submit")
    <3>1. tab[t].cached \in Session /\ SoundIn(tab[t].cached, log, Known, built)
      BY <2>2, Here DEF TabSafe, Sound, TabRow
    <3>. QED  BY <1>4, <2>2, <3>1, SoundStays DEF IInv
  <2>3. CASE m.cached = s
    BY <1>4, <2>3
  <2>. QED  BY <2>1, <2>2, <2>3
<1>6. Persisted(t)
  BY <1>1, <1>3, <1>4, <1>5, AtWork DEF Persisted
<1>. QED  BY <1>4, <1>6 DEF Kind

\* A tab that adopts a Commit the server has.
Adopts(t, c, then) == Persists(t, tab[t], Post(c), then)

LEMMA AdoptsKind ==
  ASSUME IInv, NEW t \in Tabs, NEW c \in Known, NEW then \in Goals,
         ~At(t, "idle"), ~At(t, "save"), At(t, "submit") => then = "committed" /\ c = tab[t].commit,
         Adopts(t, c, then),
         MyDisk(t).state = NoSession \/ MyDisk(t).state.epoch = c.epoch,
         disk' = disk, sent' = sent, built' = built, net' \subseteq net \cup Known,
         \/ Delivered(c) /\ ServerHas(c)
         \/ log' = log /\ welcomes' = welcomes /\ c.id \in LogIds
  PROVE  Kind(t)
<1>1. Types /\ Records
  BY DEF IInv
<1>2. Post(c) \in Session /\ Post(c) # NoSession /\ Post(c).epoch = c.epoch + 1 /\ SoundIn(Post(c), log', Known', built')
  BY <1>1, PostOfLogged
<1>3. c.epoch \in Nat
  BY <1>1 DEF Records
<1>4. Fitting(MyDisk(t).state, Post(c), then)
  BY <1>2, <1>3 DEF Fitting
<1>5. DiskTo(t, MyDisk(t).pending, MyDisk(t).join)
  BY SavesNothing
<1>6. Told
  BY DEF Told
<1>7. tab[t] \in TabRow /\ ~tab[t].stale /\ (At(t, "submit") => tab[t].cached = Post(tab[t].commit))
  BY Here, AtWork DEF TabSafe
<1>8. PICK m, s : m = tab[t] /\ s = Post(c)
  OBVIOUS
<1>9. Persists(t, m, s, then)
  BY <1>8 DEF Adopts
<1>10. PICK pending, join : pending = MyDisk(t).pending /\ join = MyDisk(t).join
  OBVIOUS
<1>. QED  BY <1>2, <1>4, <1>5, <1>6, <1>7, <1>8, <1>9, <1>10, PersistsKind

\* What every step of a tab but those that leave the lock says of it.
LEMMA ResubmitFits ==
  ASSUME IInv, NEW t \in Tabs, HasRecord(t), Current(t).epoch = MyDisk(t).pending.epoch
  PROVE  /\ ~At(t, "idle") /\ ~At(t, "save") /\ ~At(t, "submit")
         /\ MyDisk(t).pending \in Known
         /\ MyDisk(t).state = NoSession \/ MyDisk(t).state.epoch = MyDisk(t).pending.epoch
<1>1. At(t, "settle") /\ ~At(t, "idle") /\ ~At(t, "save") /\ ~At(t, "submit")
  BY DEF HasRecord, At
<1>2. MyDisk(t).pending # NoCommit /\ DeviceOf[t] \in Devices
  BY <1>1, Here DEF TabSafe
<1>. QED  BY <1>1, <1>2, RecordKnown, CurrentIsSaved

\* The record goes, and the group is opened.
LEMMA DropsRecordKind ==
  ASSUME IInv, NEW t \in Tabs, At(t, "settle"), DropsRecord(t),
         UNCHANGED <<sent, built>>, net' \subseteq net \cup Known, Told
  PROVE  Kind(t)
<1>1. Saves(t, "pending", NoCommit) /\ Becomes(t, Opened(tab[t], DeviceOf[t]))
  BY DEF DropsRecord
<1>2. Stays(t, Opened(tab[t], DeviceOf[t]))
  BY OpenedStays, Here
<1>3. DiskTo(t, NoCommit, MyDisk(t).join)
  BY <1>1, SavesPending
<1>. QED  BY <1>1, <1>2, <1>3, StaysQuiet DEF At

\* The task ends in failure, whatever the server did.
LEMMA FailsKind ==
  ASSUME IInv, NEW t \in Tabs, ~At(t, "idle"), ~At(t, "submit"), ~At(t, "save"), Becomes(t, Failed(tab[t])),
         UNCHANGED <<disk, sent, built>>, net' \subseteq net \cup Known, Told
  PROVE  Kind(t)
<1>1. Stays(t, Failed(tab[t]))
  BY Here, FailedRow DEF Stays, Places
<1>2. DiskTo(t, MyDisk(t).pending, MyDisk(t).join)
  BY SavesNothing
<1>. QED  BY <1>1, <1>2, StaysQuiet

LEMMA ResubmitKind == ASSUME IInv, NEW t \in Tabs, Resubmit(t) PROVE Kind(t)
<1>. PICK c : c = MyDisk(t).pending
  OBVIOUS
<1>1. /\ HasRecord(t) /\ Current(t).epoch = c.epoch /\ Delivered(c) /\ UNCHANGED <<net, sent, built>>
      /\ \/ ServerHas(c) /\ Adopts(t, c, "settled") /\ disk' = disk
         \/ DropsRecord(t)
  BY DEF Resubmit, Adopts
<1>2. /\ ~At(t, "idle") /\ ~At(t, "save") /\ ~At(t, "submit") /\ c \in Known
      /\ MyDisk(t).state = NoSession \/ MyDisk(t).state.epoch = c.epoch
  BY <1>1, ResubmitFits
<1>3. CASE ServerHas(c) /\ Adopts(t, c, "settled") /\ disk' = disk
  <2>1. "settled" \in Goals
    BY DEF Goals
  <2>. QED  BY <1>1, <1>2, <1>3, <2>1, AdoptsKind
<1>4. CASE DropsRecord(t)
  BY <1>1, <1>2, <1>4, DropsRecordKind DEF Told, HasRecord
<1>. QED  BY <1>1, <1>3, <1>4

LEMMA ResubmitLostKind == ASSUME IInv, NEW t \in Tabs, ResubmitLost(t) PROVE Kind(t)
<1>. PICK c : c = MyDisk(t).pending
  OBVIOUS
<1>1. /\ HasRecord(t) /\ Current(t).epoch = c.epoch /\ Lingers(c) /\ UNCHANGED <<log, welcomes, sent, built>>
      /\ \/ c.id \in LogIds /\ Adopts(t, c, "settled") /\ disk' = disk
         \/ DropsRecord(t)
         \/ Becomes(t, Failed(tab[t])) /\ disk' = disk
  BY DEF ResubmitLost, serverVars, Adopts
<1>2. /\ ~At(t, "idle") /\ ~At(t, "save") /\ ~At(t, "submit") /\ c \in Known
      /\ MyDisk(t).state = NoSession \/ MyDisk(t).state.epoch = c.epoch
  BY <1>1, ResubmitFits
<1>3. net' \subseteq net \cup Known /\ Told
  BY <1>1, <1>2 DEF Lingers, Told
<1>4. CASE c.id \in LogIds /\ Adopts(t, c, "settled") /\ disk' = disk
  <2>1. "settled" \in Goals
    BY DEF Goals
  <2>. QED  BY <1>1, <1>2, <1>3, <1>4, <2>1, AdoptsKind
<1>5. CASE DropsRecord(t)
  BY <1>1, <1>3, <1>5, DropsRecordKind DEF HasRecord
<1>6. CASE Becomes(t, Failed(tab[t])) /\ disk' = disk
  BY <1>1, <1>2, <1>3, <1>6, FailsKind
<1>. QED  BY <1>1, <1>4, <1>5, <1>6

LEMMA JoinFits ==
  ASSUME IInv, NEW t \in Tabs, HasJoin(t)
  PROVE  /\ ~At(t, "idle") /\ ~At(t, "save") /\ ~At(t, "submit")
         /\ MyDisk(t).join \in Known /\ MyDisk(t).state = NoSession /\ tab[t].cached = NoSession
<1>1. tab[t].at \in {"open", "look"} /\ Current(t) = NoSession /\ MyDisk(t).join # NoCommit
  BY DEF HasJoin
<1>2. ~At(t, "idle") /\ ~At(t, "save") /\ ~At(t, "submit")
  BY <1>1 DEF At
<1>. QED  BY <1>1, <1>2, Here, RecordKnown, CurrentIsSaved DEF Current

LEMMA DropsJoinKind ==
  ASSUME IInv, NEW t \in Tabs, HasJoin(t), DropsJoin(t),
         UNCHANGED <<sent, built>>, net' \subseteq net \cup Known, Told
  PROVE  Kind(t)
<1>. DEFINE m == IF At(t, "open") THEN NoGroup(tab[t]) ELSE tab[t]
<1>1. Saves(t, "join", NoCommit) /\ Becomes(t, m)
  BY DEF DropsJoin
<1>2. Stays(t, m)
  <2>1. tab[t] \in TabRow /\ (At(t, "open") \/ At(t, "look"))
    BY Here DEF HasJoin, At
  <2>2. At(t, "open") => Stays(t, NoGroup(tab[t]))
    BY <2>1, NoGroupRow DEF Stays, Places
  <2>3. At(t, "look") => Stays(t, tab[t])
    BY <2>1 DEF Stays, Places, At
  <2>. QED  BY <2>1, <2>2, <2>3
<1>. HIDE DEF m
<1>3. DiskTo(t, MyDisk(t).pending, NoCommit)
  BY <1>1, SavesJoin
<1>. QED  BY <1>1, <1>2, <1>3, JoinFits, StaysQuiet

LEMMA AdoptsJoinKind ==
  ASSUME IInv, NEW t \in Tabs, HasJoin(t), AdoptsJoin(t), sent' = sent, built' = built, net' \subseteq net \cup Known,
         \/ Delivered(MyDisk(t).join) /\ ServerHas(MyDisk(t).join)
         \/ log' = log /\ welcomes' = welcomes /\ MyDisk(t).join.id \in LogIds
  PROVE  Kind(t)
<1>. PICK c : c = MyDisk(t).join
  OBVIOUS
<1>1. PICK then \in {"rejoined", "joined"} : Adopts(t, c, then) /\ disk' = disk
  BY DEF AdoptsJoin, Adopts
<1>2. then \in Goals
  BY DEF Goals
<1>3. \/ Delivered(c) /\ ServerHas(c)
      \/ log' = log /\ welcomes' = welcomes /\ c.id \in LogIds
  OBVIOUS
<1>. QED  BY <1>1, <1>2, <1>3, JoinFits, AdoptsKind

LEMMA ResolveJoinKind == ASSUME IInv, NEW t \in Tabs, ResolveJoin(t) PROVE Kind(t)
<1>1. /\ HasJoin(t) /\ Delivered(MyDisk(t).join) /\ UNCHANGED <<net, sent, built>>
      /\ \/ ServerHas(MyDisk(t).join) /\ AdoptsJoin(t)
         \/ DropsJoin(t)
  BY DEF ResolveJoin, historyVars
<1>2. Told
  BY <1>1, JoinFits DEF Told
<1>. QED  BY <1>1, <1>2, AdoptsJoinKind, DropsJoinKind

LEMMA ResolveJoinLostKind == ASSUME IInv, NEW t \in Tabs, ResolveJoinLost(t) PROVE Kind(t)
<1>. DEFINE m == IF At(t, "open") THEN NoGroup(tab[t]) ELSE Failed(tab[t])
<1>1. /\ HasJoin(t) /\ Lingers(MyDisk(t).join) /\ UNCHANGED <<log, welcomes, sent, built>>
      /\ \/ MyDisk(t).join.id \in LogIds /\ AdoptsJoin(t)
         \/ DropsJoin(t)
         \/ Becomes(t, m) /\ disk' = disk
  BY DEF ResolveJoinLost, serverVars, historyVars
<1>2. net' \subseteq net \cup Known /\ Told
  BY <1>1, JoinFits DEF Lingers, Told
<1>3. CASE Becomes(t, m) /\ disk' = disk
  <2>1. Stays(t, m)
    BY Here, NoGroupRow, FailedRow DEF Stays, Places
  <2>2. DiskTo(t, MyDisk(t).pending, MyDisk(t).join)
    BY <1>3, SavesNothing
  <2>. HIDE DEF m
  <2>. QED  BY <1>1, <1>2, <1>3, <2>1, <2>2, JoinFits, StaysQuiet
<1>. QED  BY <1>1, <1>2, <1>3, AdoptsJoinKind, DropsJoinKind

LEMMA RefusesRow ==
  ASSUME NEW m \in TabRow
  PROVE  /\ Refuses(m) \in TabRow /\ Refuses(m).at = "idle"
         /\ Refuses(m).cached = NoSession /\ Refuses(m).stale = FALSE /\ Refuses(m).commit = NoCommit
<1>. DEFINE n == [Dropped(m) EXCEPT !.refused = TRUE]
<1>1. n \in TabRow /\ n.cached = NoSession /\ n.stale = FALSE
  BY DroppedRow DEF TabRow
<1>. HIDE DEF n
<1>2. Refuses(m) = Failed(n)
  BY DEF n, Refuses
<1>. QED  BY <1>1, <1>2, FailedRow

\* A task that ends without its session, from wherever.
LEMMA EndsKind ==
  ASSUME IInv, NEW t \in Tabs, NEW m \in TabRow, ~At(t, "idle"), m.at = "idle", m.cached = NoSession, m.commit = NoCommit,
         NEW pending \in {MyDisk(t).pending, NoCommit}, NEW join \in {MyDisk(t).join, NoCommit},
         DiskTo(t, pending, join), Becomes(t, m),
         sent' = sent, built' = built, net' \subseteq net \cup Known, Told
  PROVE  Kind(t)
<1>1. Calm(t, m, pending)
  BY CalmEnd
<1>. QED  BY <1>1, AtWork, QuietLocal

LEMMA AtPlace ==
  ASSUME NEW t \in Tabs, NEW place, At(t, place), place \notin {"idle", "save", "submit"}
  PROVE  ~At(t, "idle") /\ ~At(t, "save") /\ ~At(t, "submit")
BY DEF At

LEMMA EncryptKind == ASSUME IInv, NEW t \in Tabs, Encrypt(t) PROVE Kind(t)
<1>. PICK s, m : s = [Current(t) EXCEPT !.gen = @ + 1] /\ m = tab[t]
  OBVIOUS
<1>1. /\ At(t, "work") /\ Persists(t, m, s, "sent")
      /\ UNCHANGED <<log, welcomes, net, disk, sent, built>>
  BY DEF Encrypt, Works, serverVars, historyVars
<1>2. ~At(t, "idle") /\ ~At(t, "save") /\ ~At(t, "submit")
  BY <1>1, AtPlace
<1>3. /\ MyDisk(t).state = NoSession \/ Current(t) = MyDisk(t).state
      /\ Current(t) \in Session /\ Sound(Current(t)) /\ Current(t) # NoSession
  BY <1>1, <1>2, CurrentIsSaved, Here DEF TabSafe, Current
<1>4. s \in Session /\ s.epoch = Current(t).epoch /\ s.tip = Current(t).tip /\ Current(t).epoch # -1
  BY <1>3 DEF Session, Sound, SoundIn
<1>5. s # NoSession
  BY <1>4 DEF NoSession
<1>6. SoundIn(s, log, Known, built)
  BY <1>3, <1>4, <1>5 DEF Sound, SoundIn
<1>7. Grows => SoundIn(s, log', Known', built')
  BY <1>4, <1>6, SoundStays DEF IInv
<1>8. Fitting(MyDisk(t).state, s, "sent")
  BY <1>3 DEF Fitting
<1>9. DiskTo(t, MyDisk(t).pending, MyDisk(t).join) /\ Told /\ "sent" \in Goals
  BY <1>1, SavesNothing DEF Told, Goals
<1>10. PICK pending, join : pending = MyDisk(t).pending /\ join = MyDisk(t).join
  OBVIOUS
<1>11. m \in TabRow /\ m.commit = tab[t].commit /\ ~m.stale /\ m.cached = tab[t].cached
  BY <1>2, Here, AtWork
<1>. QED  BY <1>1, <1>2, <1>4, <1>5, <1>7, <1>8, <1>9, <1>10, <1>11, PersistsKind

LEMMA SyncCommitsKind == ASSUME IInv, NEW t \in Tabs, SyncCommits(t) PROVE Kind(t)
<1>. DEFINE rows == SubSeq(log, Current(t).epoch + 1, Len(log))
            done == Done([tab[t] EXCEPT !.refused = FALSE], tab[t].rest)
<1>1. /\ At(t, "work") /\ UNCHANGED <<log, welcomes, net, disk, sent, built>>
      /\ \/ Becomes(t, done)
         \/ rows # <<>> /\ Persists(t, tab[t], Post(log[Len(log)]), "synced")
         \/ Becomes(t, Refuses(tab[t]))
  BY DEF SyncCommits, Works, serverVars, historyVars
<1>2. ~At(t, "idle") /\ ~At(t, "save") /\ ~At(t, "submit")
  BY <1>1, AtPlace
<1>3. DiskTo(t, MyDisk(t).pending, MyDisk(t).join) /\ Told
  BY <1>1, SavesNothing DEF Told
<1>4. tab[t] \in TabRow /\ ~tab[t].stale /\ log \in Seq(Commit)
  BY <1>2, Here, AtWork DEF IInv, Types, TypeOK
<1>5. CASE Becomes(t, done)
  <2>1. [tab[t] EXCEPT !.refused = FALSE] \in TabRow /\ tab[t].rest \in Seq(Tasks)
    BY <1>4 DEF TabRow
  <2>2. Stays(t, done)
    BY <1>4, <2>1, DoneRow DEF Stays, Places, TabRow
  <2>. HIDE DEF done
  <2>. QED  BY <1>1, <1>2, <1>3, <1>5, <2>2, StaysQuiet
<1>6. CASE Becomes(t, Refuses(tab[t]))
  BY <1>1, <1>2, <1>3, <1>4, <1>6, RefusesRow, EndsKind
<1>7. CASE rows # <<>> /\ Persists(t, tab[t], Post(log[Len(log)]), "synced")
  <2>1. PICK c : c = log[Len(log)]
    OBVIOUS
  <2>2. /\ MyDisk(t).state = NoSession \/ Current(t) = MyDisk(t).state
        /\ Current(t) \in Session
    BY <1>2, CurrentIsSaved
  <2>3. Len(log) \in Nat /\ Current(t).epoch \in Int /\ Current(t).epoch + 1 <= Len(log) /\ Current(t).epoch >= -1
    BY <1>4, <1>7, <2>2 DEF Session
  <2>4. Len(log) \in DOMAIN log
    <3>1. Current(t) # NoSession
      BY <1>1, Here DEF TabSafe, Current
    <3>2. Current(t).epoch # -1
      BY <1>2, <3>1, CurrentIsSaved DEF Sound, SoundIn
    <3>. QED  BY <1>4, <2>3, <3>2
  <2>5. c \in Known /\ c \in Commit /\ c.epoch = Len(log) - 1 /\ c.id \in LogIds
    BY <2>1, <2>4, LogRows DEF IInv, LogIds
  <2>6. /\ Post(c) \in Session /\ Post(c) # NoSession /\ Post(c).epoch = c.epoch + 1
        /\ SoundIn(Post(c), log', Known', built')
    BY <1>1, <2>5, PostOfLogged DEF IInv
  <2>7. Fitting(MyDisk(t).state, Post(c), "synced")
    BY <2>2, <2>3, <2>5, <2>6 DEF Fitting
  <2>8. PICK m, s, pending, join : m = tab[t] /\ s = Post(c) /\ pending = MyDisk(t).pending /\ join = MyDisk(t).join
    OBVIOUS
  <2>9. Persists(t, m, s, "synced") /\ "synced" \in Goals
    BY <1>7, <2>1, <2>8 DEF Goals
  <2>. QED  BY <1>1, <1>2, <1>3, <1>4, <2>6, <2>7, <2>8, <2>9, PersistsKind
<1>. QED  BY <1>1, <1>5, <1>6, <1>7

LEMMA StageNothingKind == ASSUME IInv, NEW t \in Tabs, StageNothing(t) PROVE Kind(t)
<1>1. At(t, "work") /\ Becomes(t, Failed(tab[t])) /\ UNCHANGED <<log, welcomes, net, disk, sent, built>>
  BY DEF StageNothing, Works, serverVars, historyVars
<1>. QED  BY <1>1, AtPlace, FailsKind DEF Told

\* A group is no Commit.
LEMMA CreatesNoCommit == ASSUME IInv, NEW t \in Tabs, CreateGroup(t) PROVE Known' \subseteq Known
<1>. PICK m, s : m = tab[t] /\ s = [epoch |-> 0, tip |-> built + 1, gen |-> 0]
  OBVIOUS
<1>. DEFINE n == [m EXCEPT !.hand = s, !.at = "save", !.then = "created"]
<1>1. Stamped(t, n) /\ UNCHANGED <<log, net, disk>>
  BY DEF CreateGroup, Persists, serverVars
<1>2. m \in TabRow /\ s \in Session
  BY Here DEF Session
<1>3. n \in TabRow /\ n.commit = m.commit
  <2>1. "created" \in GoalsOrNone
    BY DEF Goals, GoalsOrNone
  <2>. QED  BY <1>2, <2>1 DEF TabRow, Places
<1>. HIDE DEF n
<1>4. \A u \in Tabs : tab'[u].commit = tab[u].commit
  BY <1>1, <1>3, Stamping
<1>5. \A d \in Devices : disk'[d].pending = disk[d].pending /\ disk'[d].join = disk[d].join
  BY <1>1
<1>6. Known' \subseteq Known \cup {}
  BY <1>1, <1>4, <1>5, KnownThen DEF IInv
<1>. QED  BY <1>6

LEMMA CreateGroupKind == ASSUME IInv, NEW t \in Tabs, CreateGroup(t) PROVE Kind(t)
<1>. PICK m, s : m = tab[t] /\ s = [epoch |-> 0, tip |-> built + 1, gen |-> 0]
  OBVIOUS
<1>1. /\ At(t, "create") /\ Persists(t, m, s, "created") /\ built' = built + 1
      /\ UNCHANGED <<log, welcomes, net, disk, sent>>
  BY DEF CreateGroup, serverVars, historyVars
<1>2. ~At(t, "idle") /\ ~At(t, "save") /\ ~At(t, "submit")
  BY <1>1, AtPlace
<1>3. built \in Nat /\ Types /\ Records
  BY Here DEF IInv
<1>4. s \in Session /\ s # NoSession /\ s.epoch = 0 /\ s.tip = built + 1
  BY <1>3 DEF Session, NoSession
<1>5. DiskTo(t, MyDisk(t).pending, MyDisk(t).join) /\ Told /\ "created" \in Goals
  BY <1>1, SavesNothing DEF Told, Goals
<1>6. SoundIn(s, log', Known', built')
  <2>1. Known' \subseteq Known
    BY CreatesNoCommit
  <2>. QED  BY <1>1, <1>3, <1>4, <2>1 DEF SoundIn, Records
<1>7. Fitting(MyDisk(t).state, s, "created")
  BY DEF Fitting
<1>8. PICK pending, join : pending = MyDisk(t).pending /\ join = MyDisk(t).join
  OBVIOUS
<1>9. m \in TabRow /\ m.commit = tab[t].commit /\ ~m.stale /\ m.cached = tab[t].cached
  BY <1>2, Here, AtWork
<1>. QED  BY <1>1, <1>2, <1>4, <1>5, <1>6, <1>7, <1>8, <1>9, PersistsKind

LEMMA StageCommitKind ==
  ASSUME IInv, NEW t \in Tabs, NEW added \in SUBSET Devices, StageCommit(t, added)
  PROVE  Kind(t)
<1>. PICK s : s = Current(t)
  OBVIOUS
<1>. PICK c : c = [id |-> built + 1, by |-> DeviceOf[t], epoch |-> s.epoch, base |-> s.tip, added |-> added,
                   external |-> FALSE, life |-> MyDisk(t).life]
  OBVIOUS
<1>. DEFINE m == [tab[t] EXCEPT !.known = FALSE, !.cached = Post(c), !.hand = s, !.commit = c, !.at = "submit"]
<1>1. /\ At(t, "work") /\ built' = built + 1 /\ Saves(t, "pending", c) /\ Becomes(t, m)
      /\ UNCHANGED <<log, welcomes, net, sent>>
  BY DEF StageCommit, Works, serverVars
<1>2. ~At(t, "idle") /\ ~At(t, "save") /\ ~At(t, "submit")
  BY <1>1, AtPlace
<1>3. /\ tab[t] \in TabRow /\ ~tab[t].stale /\ built \in Nat /\ DeviceOf[t] \in Devices /\ MyDisk(t) \in DiskRow
      /\ MyDisk(t).state = NoSession \/ s = MyDisk(t).state
      /\ s \in Session /\ Sound(s) /\ s # NoSession
  BY <1>1, <1>2, Here, AtWork, CurrentIsSaved DEF TabSafe, Current
<1>4. s.epoch \in Nat /\ s.tip \in Nat
  BY <1>3 DEF Session, Sound, SoundIn
<1>5. c \in Commit /\ c.id = built + 1 /\ c.epoch = s.epoch /\ c # NoCommit
  BY <1>3, <1>4 DEF Commit, NoCommit, DiskRow
<1>6. Post(c) \in Session
  BY <1>3, <1>4, <1>5 DEF Post, Session
<1>7. m \in TabRow /\ m.at = "submit" /\ m.commit = c /\ m.cached = Post(c) /\ m.stale = FALSE
  BY <1>3, <1>5, <1>6 DEF TabRow, Places
<1>. HIDE DEF m
<1>8. DiskTo(t, c, MyDisk(t).join)
  BY <1>1, <1>5, SavesPending
<1>9. tab'[t] = m /\ \A u \in Tabs \ {t} : tab'[u] = tab[u]
  BY <1>1, <1>7, Becoming
<1>10. New({c})
  BY <1>1, <1>4, <1>5 DEF New
<1>11. PICK join : join = MyDisk(t).join
  OBVIOUS
<1>12. Grows
  BY <1>1, <1>7, <1>8, <1>9, <1>10, <1>11, GrowsBy DEF Told
<1>13. Calm(t, m, c)
  BY <1>3, <1>5, <1>7 DEF Calm
<1>14. Quiet(t)
  BY <1>1, <1>2, <1>7, <1>8, <1>11, <1>13, AtWork, QuietStep
<1>. QED  BY <1>12, <1>14 DEF Kind

\* At "submit" there is a Commit on the state that is saved, if one is.
LEMMA SubmitFits ==
  ASSUME IInv, NEW t \in Tabs, At(t, "submit")
  PROVE  /\ ~At(t, "idle") /\ ~At(t, "save")
         /\ tab[t].commit \in Known /\ tab[t].commit \in Commit /\ tab[t].commit.epoch \in Nat
         /\ MyDisk(t).state = NoSession \/ MyDisk(t).state.epoch = tab[t].commit.epoch
<1>1. tab[t].commit \in Known
  BY Here, RecordKnown DEF TabSafe
<1>. QED  BY <1>1, Here DEF TabSafe, At, IInv, Records

LEMMA SubmitAcceptedKind == ASSUME IInv, NEW t \in Tabs, SubmitAccepted(t) PROVE Kind(t)
<1>. PICK c : c = tab[t].commit
  OBVIOUS
<1>1. /\ At(t, "submit") /\ ServerHas(c) /\ Delivered(c) /\ Adopts(t, c, "committed")
      /\ UNCHANGED <<net, disk, sent, built>>
  BY DEF SubmitAccepted, historyVars, Adopts
<1>2. "committed" \in Goals
  BY DEF Goals
<1>. QED  BY <1>1, <1>2, SubmitFits, AdoptsKind

LEMMA DroppedKnownRow ==
  ASSUME NEW r \in TabRow
  PROVE  LET m == [Dropped(r) EXCEPT !.known = TRUE]
         IN m \in TabRow /\ m.cached = NoSession /\ m.stale = FALSE /\ m.commit = r.commit
BY DroppedRow DEF TabRow

LEMMA SubmitRefusedKind == ASSUME IInv, NEW t \in Tabs, SubmitRefused(t) PROVE Kind(t)
<1>. DEFINE m == [Dropped(tab[t]) EXCEPT !.known = TRUE]
<1>1. /\ At(t, "submit") /\ Saves(t, "pending", NoCommit) /\ Becomes(t, Failed(m))
      /\ UNCHANGED <<log, welcomes, net, sent, built>>
  BY DEF SubmitRefused, serverVars, historyVars
<1>2. m \in TabRow /\ m.cached = NoSession
  BY Here, DroppedKnownRow
<1>. HIDE DEF m
<1>3. Failed(m) \in TabRow /\ Failed(m).at = "idle" /\ Failed(m).cached = NoSession /\ Failed(m).commit = NoCommit
  BY <1>2, FailedRow
<1>4. DiskTo(t, NoCommit, MyDisk(t).join)
  BY <1>1, SavesPending
<1>. QED  BY <1>1, <1>3, <1>4, SubmitFits, EndsKind DEF Told

LEMMA SubmitLostKind == ASSUME IInv, NEW t \in Tabs, SubmitLost(t) PROVE Kind(t)
<1>. DEFINE m == Dropped(tab[t])
<1>1. /\ At(t, "submit") /\ Lingers(tab[t].commit) /\ Becomes(t, Failed(m))
      /\ UNCHANGED <<log, welcomes, disk, sent, built>>
  BY DEF SubmitLost, serverVars, historyVars
<1>2. m \in TabRow /\ m.cached = NoSession
  BY Here, DroppedRow
<1>. HIDE DEF m
<1>3. Failed(m) \in TabRow /\ Failed(m).at = "idle" /\ Failed(m).cached = NoSession /\ Failed(m).commit = NoCommit
  BY <1>2, FailedRow
<1>4. DiskTo(t, MyDisk(t).pending, MyDisk(t).join)
  BY <1>1, SavesNothing
<1>5. net' \subseteq net \cup Known
  BY <1>1, SubmitFits DEF Lingers
<1>. QED  BY <1>1, <1>3, <1>4, <1>5, SubmitFits, EndsKind DEF Told

LEMMA SubmitConflictKind == ASSUME IInv, NEW t \in Tabs, SubmitConflict(t) PROVE Kind(t)
<1>. PICK c, winner : c = tab[t].commit /\ winner = log[c.epoch + 1]
  OBVIOUS
<1>. DEFINE m == [Dropped(tab[t]) EXCEPT !.known = TRUE]
            wipe == [m EXCEPT !.task = "forget", !.at = "forget", !.rest = <<"welcome", "join">> \o m.rest]
<1>1. /\ At(t, "submit") /\ Answer(c) = "conflict" /\ Saves(t, "pending", NoCommit)
      /\ UNCHANGED <<log, welcomes, net, sent, built>>
      /\ \/ Becomes(t, wipe)
         \/ Persists(t, m, Post(winner), "raceLost")
         \/ Becomes(t, Refuses(m))
  BY DEF SubmitConflict, serverVars, historyVars
<1>2. m \in TabRow /\ m.cached = NoSession /\ m.stale = FALSE /\ m.commit = c
  BY Here, DroppedKnownRow
<1>3. DiskTo(t, NoCommit, MyDisk(t).join)
  BY <1>1, SavesPending
<1>4. /\ ~At(t, "idle") /\ ~At(t, "save") /\ c \in Commit /\ c.epoch \in Nat
      /\ MyDisk(t).state = NoSession \/ MyDisk(t).state.epoch = c.epoch
  BY <1>1, SubmitFits
<1>5. CASE Becomes(t, wipe)
  <2>1. <<"welcome", "join">> \o m.rest \in Seq(Tasks)
    BY <1>2 DEF TabRow, Tasks
  <2>2. wipe \in TabRow /\ wipe.at = "forget" /\ wipe.cached = NoSession /\ wipe.commit = c /\ wipe.stale = FALSE
    <3>. HIDE DEF m
    <3>. QED  BY <1>2, <2>1 DEF TabRow, Places, Tasks
  <2>. HIDE DEF wipe, m
  <2>3. Calm(t, wipe, NoCommit)
    BY <2>2 DEF Calm
  <2>. QED  BY <1>1, <1>3, <1>4, <1>5, <2>2, <2>3, AtWork, QuietLocal DEF Told
<1>6. CASE Becomes(t, Refuses(m))
  <2>. HIDE DEF m
  <2>. QED  BY <1>1, <1>2, <1>3, <1>4, <1>6, RefusesRow, EndsKind DEF Told
<1>7. CASE Persists(t, m, Post(winner), "raceLost")
  <2>1. c.epoch + 1 \in DOMAIN log
    BY <1>1, <1>4, AnswerMeans DEF IInv, Types, TypeOK
  <2>2. winner \in Known /\ winner.epoch = c.epoch /\ winner.id \in LogIds
    BY <1>4, <2>1, LogRows DEF IInv, LogIds
  <2>3. /\ Post(winner) \in Session /\ Post(winner) # NoSession /\ Post(winner).epoch = c.epoch + 1
        /\ SoundIn(Post(winner), log', Known', built')
    BY <1>1, <2>2, PostOfLogged DEF IInv
  <2>4. Fitting(MyDisk(t).state, Post(winner), "raceLost")
    BY <1>4, <2>3 DEF Fitting
  <2>5. PICK n, s, join : n = m /\ s = Post(winner) /\ join = MyDisk(t).join
    OBVIOUS
  <2>6. Persists(t, n, s, "raceLost") /\ "raceLost" \in Goals
    BY <1>7, <2>5 DEF Goals
  <2>. HIDE DEF m
  <2>. QED  BY <1>1, <1>2, <1>3, <1>4, <2>3, <2>4, <2>5, <2>6, PersistsKind DEF Told
<1>. QED  BY <1>1, <1>5, <1>6, <1>7

\* A step of a tab on its row alone.
LEMMA RowKind ==
  ASSUME IInv, NEW t \in Tabs, NEW m, ~At(t, "idle"), ~At(t, "submit"), ~At(t, "save"), Stays(t, m), Becomes(t, m),
         disk' = disk, log' = log, welcomes' \subseteq welcomes, net' = net, sent' = sent, built' = built
  PROVE  Kind(t)
<1>1. DiskTo(t, MyDisk(t).pending, MyDisk(t).join)
  BY SavesNothing
<1>. QED  BY <1>1, StaysQuiet DEF Told

LEMMA LookHasStateKind == ASSUME IInv, NEW t \in Tabs, LookHasState(t) PROVE Kind(t)
<1>. DEFINE m == [tab[t] EXCEPT !.cached = Current(t)]
<1>1. /\ At(t, "look") /\ Becomes(t, Done(m, tab[t].rest))
      /\ UNCHANGED <<log, welcomes, net, disk, sent, built>>
  BY DEF LookHasState, serverVars, historyVars
<1>2. ~At(t, "idle") /\ ~At(t, "save") /\ ~At(t, "submit")
  BY <1>1, AtPlace
<1>3. tab[t] \in TabRow /\ Current(t) \in Session /\ Current(t) \in {tab[t].cached, MyDisk(t).state}
  BY <1>2, Here, CurrentIsSaved DEF Current
<1>4. m \in TabRow /\ m.cached = Current(t) /\ m.stale = tab[t].stale /\ tab[t].rest \in Seq(Tasks)
  BY <1>3 DEF TabRow
<1>. HIDE DEF m
<1>5. Stays(t, Done(m, tab[t].rest))
  BY <1>3, <1>4, DoneRow DEF Stays, Places
<1>. QED  BY <1>1, <1>2, <1>5, RowKind

LEMMA BuildJoinKind == ASSUME IInv, NEW t \in Tabs, BuildJoin(t) PROVE Kind(t)
<1>. PICK c : c = [id |-> built + 1, by |-> DeviceOf[t], epoch |-> Len(log), base |-> log[Len(log)].id, added |-> {},
                   external |-> TRUE, life |-> MyDisk(t).life]
  OBVIOUS
<1>. DEFINE m == [tab[t] EXCEPT !.commit = c, !.at = "submitJoin"]
<1>1. /\ At(t, "look") /\ Current(t) = NoSession /\ log # <<>>
      /\ built' = built + 1 /\ Saves(t, "join", c) /\ Becomes(t, m)
      /\ UNCHANGED <<log, welcomes, net, sent>>
  BY DEF BuildJoin, serverVars, historyVars
<1>2. ~At(t, "idle") /\ ~At(t, "save") /\ ~At(t, "submit")
  BY <1>1, AtPlace
<1>3. /\ tab[t] \in TabRow /\ ~tab[t].stale /\ built \in Nat /\ DeviceOf[t] \in Devices /\ MyDisk(t).life \in Nat
      /\ MyDisk(t).state = NoSession /\ tab[t].cached = NoSession
  BY <1>1, <1>2, Here, AtWork, CurrentIsSaved DEF Current, DiskRow
<1>4. Len(log) \in Nat /\ log[Len(log)].id \in Nat
  <2>1. log \in Seq(Commit)
    BY DEF IInv, Types, TypeOK
  <2>2. Len(log) \in DOMAIN log
    BY <1>1, <2>1
  <2>3. log[Len(log)] \in Commit
    BY <2>1, <2>2
  <2>. QED  BY <2>1, <2>3 DEF Commit
<1>5. c \in Commit /\ c.id = built + 1 /\ c.epoch \in Nat /\ c # NoCommit
  BY <1>3, <1>4 DEF Commit, NoCommit
<1>6. m \in TabRow /\ m.at = "submitJoin" /\ m.commit = c /\ m.cached = NoSession /\ m.stale = FALSE
  BY <1>3, <1>5 DEF TabRow, Places
<1>. HIDE DEF m
<1>7. DiskTo(t, MyDisk(t).pending, c)
  BY <1>1, <1>5, SavesJoin
<1>8. tab'[t] = m /\ \A u \in Tabs \ {t} : tab'[u] = tab[u]
  BY <1>1, <1>6, Becoming
<1>9. New({c})
  BY <1>1, <1>5 DEF New
<1>10. PICK pending : pending = MyDisk(t).pending
  OBVIOUS
<1>11. Grows
  BY <1>1, <1>6, <1>7, <1>8, <1>9, <1>10, GrowsBy DEF Told
<1>12. Calm(t, m, pending)
  BY <1>3, <1>5, <1>6 DEF Calm
<1>13. Quiet(t)
  BY <1>1, <1>2, <1>6, <1>7, <1>10, <1>12, AtWork, QuietStep
<1>. QED  BY <1>11, <1>13 DEF Kind

LEMMA NoSnapshotKind == ASSUME IInv, NEW t \in Tabs, NoSnapshot(t) PROVE Kind(t)
<1>1. At(t, "look") /\ Becomes(t, Failed(tab[t])) /\ UNCHANGED <<log, welcomes, net, disk, sent, built>>
  BY DEF NoSnapshot, serverVars, historyVars
<1>. QED  BY <1>1, AtPlace, FailsKind DEF Told

LEMMA SubmitJoinKind == ASSUME IInv, NEW t \in Tabs, SubmitJoin(t) PROVE Kind(t)
<1>. PICK c : c = tab[t].commit
  OBVIOUS
<1>. DEFINE m == Done(tab[t], tab[t].rest)
<1>1. /\ At(t, "submitJoin") /\ Delivered(c) /\ UNCHANGED <<net, sent, built>>
      /\ \/ Answer(c) = "accepted" /\ Adopts(t, c, "joined") /\ disk' = disk
         \/ Saves(t, "join", NoCommit) /\ Becomes(t, m)
  BY DEF SubmitJoin, historyVars, Adopts
<1>2. ~At(t, "idle") /\ ~At(t, "save") /\ ~At(t, "submit")
  BY <1>1, AtPlace
<1>3. c \in Known /\ MyDisk(t).state = NoSession
  BY <1>1, Here, RecordKnown DEF TabSafe
<1>4. CASE Answer(c) = "accepted" /\ Adopts(t, c, "joined") /\ disk' = disk
  <2>1. "joined" \in Goals /\ ServerHas(c)
    BY <1>4 DEF Goals, ServerHas
  <2>. QED  BY <1>1, <1>2, <1>3, <1>4, <2>1, AdoptsKind
<1>5. CASE Saves(t, "join", NoCommit) /\ Becomes(t, m)
  <2>1. Stays(t, m)
    BY Here, DoneRow DEF Stays, Places, TabRow
  <2>. HIDE DEF m
  <2>2. DiskTo(t, MyDisk(t).pending, NoCommit)
    BY <1>5, SavesJoin
  <2>. QED  BY <1>1, <1>2, <1>3, <1>5, <2>1, <2>2, StaysQuiet DEF Told
<1>. QED  BY <1>1, <1>4, <1>5

LEMMA SubmitJoinLostKind == ASSUME IInv, NEW t \in Tabs, SubmitJoinLost(t) PROVE Kind(t)
<1>1. /\ At(t, "submitJoin") /\ Lingers(tab[t].commit) /\ Becomes(t, Failed(tab[t]))
      /\ UNCHANGED <<log, welcomes, disk, sent, built>>
  BY DEF SubmitJoinLost, serverVars, historyVars
<1>2. tab[t].commit \in Known
  BY <1>1, Here, RecordKnown DEF TabSafe
<1>. QED  BY <1>1, <1>2, AtPlace, FailsKind DEF Lingers, Told

LEMMA EndKind ==
  ASSUME IInv, NEW t \in Tabs, ~At(t, "idle"), ~At(t, "submit"), ~At(t, "save"), Becomes(t, Done(tab[t], tab[t].rest)),
         disk' = disk, log' = log, welcomes' \subseteq welcomes, net' = net, sent' = sent, built' = built
  PROVE  Kind(t)
<1>1. Stays(t, Done(tab[t], tab[t].rest))
  BY Here, DoneRow DEF Stays, Places, TabRow
<1>. QED  BY <1>1, RowKind

LEMMA NoWelcomeKind == ASSUME IInv, NEW t \in Tabs, NoWelcome(t) PROVE Kind(t)
<1>1. At(t, "welcome") /\ Becomes(t, Done(tab[t], tab[t].rest)) /\ UNCHANGED <<log, welcomes, net, disk, sent, built>>
  BY DEF NoWelcome, serverVars, historyVars
<1>. QED  BY <1>1, AtPlace, EndKind

LEMMA ConsumeWelcomeKind == ASSUME IInv, NEW t \in Tabs, ConsumeWelcome(t) PROVE Kind(t)
<1>1. /\ At(t, "consume") /\ Becomes(t, Done(tab[t], tab[t].rest)) /\ welcomes' \subseteq welcomes
      /\ UNCHANGED <<log, net, disk, sent, built>>
  BY DEF ConsumeWelcome, historyVars
<1>. QED  BY <1>1, AtPlace, EndKind

LEMMA SpendKeyPackageKind == ASSUME IInv, NEW t \in Tabs, SpendKeyPackage(t) PROVE Kind(t)
<1>. DEFINE m == [tab[t] EXCEPT !.refused = FALSE, !.at = "consume"]
<1>1. At(t, "spend") /\ Becomes(t, m) /\ UNCHANGED <<log, welcomes, net, disk, sent, built>>
  BY DEF SpendKeyPackage, serverVars, historyVars
<1>2. Stays(t, m)
  BY Here DEF Stays, Places, TabRow
<1>. HIDE DEF m
<1>. QED  BY <1>1, <1>2, AtPlace, RowKind

\* A Welcome leads to a state of the log.
LEMMA WelcomeRows ==
  ASSUME IInv, NEW w \in welcomes
  PROVE  /\ Joined(w) \in Session /\ Joined(w).epoch = w.epoch /\ w.epoch \in Nat \ {0}
         /\ Joined(w) # NoSession /\ SoundIn(Joined(w), log, Known, built)
<1>1. w.epoch \in DOMAIN log /\ log[w.epoch].id = w.tip /\ log \in Seq(Commit)
      /\ w \in [device : Devices, epoch : Nat, tip : Nat]
  BY DEF IInv, Types, TypeOK, Records
<1>2. w.epoch \in Nat \ {0} /\ w.epoch <= Len(log) /\ w.tip \in Nat
  BY <1>1
<1>. QED  BY <1>1, <1>2 DEF Joined, Session, NoSession, SoundIn

LEMMA JoinFromWelcomeKind == ASSUME IInv, NEW t \in Tabs, NEW w \in welcomes, JoinFromWelcome(t, w) PROVE Kind(t)
<1>. PICK m, s, pending, join : /\ m = tab[t] /\ s = Joined(w)
                                /\ pending = MyDisk(t).pending /\ join = MyDisk(t).join
  OBVIOUS
<1>1. /\ At(t, "welcome") /\ w.epoch > Current(t).epoch /\ Persists(t, m, s, "spend")
      /\ UNCHANGED <<log, welcomes, net, disk, sent, built>>
  BY DEF JoinFromWelcome, serverVars, historyVars
<1>2. ~At(t, "idle") /\ ~At(t, "save") /\ ~At(t, "submit")
  BY <1>1, AtPlace
<1>3. s \in Session /\ s.epoch = w.epoch /\ s # NoSession /\ SoundIn(s, log, Known, built)
  BY WelcomeRows
<1>4. Grows => SoundIn(s, log', Known', built')
  BY <1>3, SoundStays DEF IInv
<1>5. Fitting(MyDisk(t).state, s, "spend")
  BY <1>1, <1>2, <1>3, CurrentIsSaved DEF Fitting
<1>6. DiskTo(t, pending, join) /\ Told /\ "spend" \in Goals
  BY <1>1, SavesNothing DEF Told, Goals
<1>7. m \in TabRow /\ m.commit = tab[t].commit /\ ~m.stale /\ m.cached = tab[t].cached
  BY <1>2, Here, AtWork
<1>. QED  BY <1>1, <1>2, <1>3, <1>4, <1>5, <1>6, <1>7, PersistsKind

LEMMA StaleWelcomeKind == ASSUME IInv, NEW t \in Tabs, NEW w \in welcomes, StaleWelcome(t, w) PROVE Kind(t)
<1>. DEFINE m == [tab[t] EXCEPT !.cached = Current(t), !.hand = Joined(w), !.at = "consume"]
<1>1. At(t, "welcome") /\ Becomes(t, m) /\ UNCHANGED <<log, welcomes, net, disk, sent, built>>
  BY DEF StaleWelcome, serverVars, historyVars
<1>2. ~At(t, "idle") /\ ~At(t, "save") /\ ~At(t, "submit")
  BY <1>1, AtPlace
<1>3. tab[t] \in TabRow /\ Current(t) \in Session /\ Current(t) \in {tab[t].cached, MyDisk(t).state} /\ Joined(w) \in Session
  BY <1>2, Here, CurrentIsSaved, WelcomeRows DEF Current
<1>4. Stays(t, m)
  BY <1>3 DEF Stays, Places, TabRow
<1>. HIDE DEF m
<1>. QED  BY <1>1, <1>2, <1>4, RowKind

LEMMA ForgetStampKind == ASSUME IInv, NEW t \in Tabs, ForgetStamp(t) PROVE Kind(t)
<1>. PICK m : m = [tab[t] EXCEPT !.at = "forgetCommit"]
  OBVIOUS
<1>1. At(t, "forgetStamp") /\ Stamped(t, m) /\ UNCHANGED <<log, welcomes, net, disk, sent, built>>
  BY DEF ForgetStamp, serverVars, historyVars
<1>2. ~At(t, "idle") /\ ~At(t, "save") /\ ~At(t, "submit")
  BY <1>1, AtPlace
<1>3. Stays(t, m)
  BY Here, ZenonT(40) DEF Stays, Places, TabRow
<1>4. m \in TabRow /\ m.commit \in {tab[t].commit, NoCommit}
  BY <1>3 DEF Stays
<1>. PICK pending, join : pending = MyDisk(t).pending /\ join = MyDisk(t).join
  OBVIOUS
<1>5. DiskTo(t, pending, join) /\ Told
  BY <1>1, SavesNothing DEF Told
<1>6. /\ tab' \in [Tabs -> TabRow] /\ tab'[t] = m /\ OthersKept(t)
      /\ \A u \in Tabs \ {t} : tab'[u].commit = tab[u].commit
  BY <1>1, <1>4, Stamping
<1>7. {} \subseteq Known
  OBVIOUS
<1>8. Grows
  BY <1>1, <1>4, <1>5, <1>6, <1>7, GrowsBy
<1>9. Quiet(t)
  BY <1>1, <1>2, <1>3, <1>5, <1>6, StaysCalm, AtWork DEF Quiet
<1>. QED  BY <1>8, <1>9 DEF Kind

LEMMA ForgetCommitKind == ASSUME IInv, NEW t \in Tabs, ForgetCommit(t) PROVE Kind(t)
<1>. DEFINE m == [tab[t] EXCEPT !.known = TRUE, !.at = "forgetJoin"]
<1>1. /\ At(t, "forgetCommit") /\ Saves(t, "pending", NoCommit) /\ Becomes(t, m)
      /\ UNCHANGED <<log, welcomes, net, sent, built>>
  BY DEF ForgetCommit, serverVars, historyVars
<1>2. Stays(t, m)
  BY Here DEF Stays, Places, TabRow
<1>. HIDE DEF m
<1>3. DiskTo(t, NoCommit, MyDisk(t).join)
  BY <1>1, SavesPending
<1>. QED  BY <1>1, <1>2, <1>3, AtPlace, StaysQuiet DEF Told

LEMMA ForgetJoinKind == ASSUME IInv, NEW t \in Tabs, ForgetJoin(t) PROVE Kind(t)
<1>. DEFINE m == [tab[t] EXCEPT !.refused = @ /\ tab[t].task = "recover"]
            n == Done(m, m.rest)
<1>1. /\ At(t, "forgetJoin") /\ Saves(t, "join", NoCommit) /\ Becomes(t, n)
      /\ UNCHANGED <<log, welcomes, net, sent, built>>
  BY DEF ForgetJoin, serverVars, historyVars
<1>2. m \in TabRow /\ m.rest \in Seq(Tasks) /\ m.cached = tab[t].cached /\ m.stale = tab[t].stale
  BY Here DEF TabRow
<1>3. Stays(t, n)
  <2>. HIDE DEF m
  <2>. QED  BY <1>2, DoneRow DEF Stays, Places
<1>. HIDE DEF n
<1>4. DiskTo(t, MyDisk(t).pending, NoCommit)
  BY <1>1, SavesJoin
<1>. QED  BY <1>1, <1>3, <1>4, AtPlace, StaysQuiet DEF Told

-----------------------------------------------------------------------------
(* The invariant, kept by each kind of step.                                 *)

Saved == \A d \in Devices : Sound(disk[d].state)

LEMMA SavedStays ==
  ASSUME IInv, Grows, NEW d \in Devices, disk'[d].state = disk[d].state
  PROVE  Sound(disk[d].state)'
<1>1. disk[d].state \in Session /\ SoundIn(disk[d].state, log, Known, built)
  BY DEF IInv, Types, TypeOK, Sound
<1>2. SoundIn(disk[d].state, log', Known', built')
  BY <1>1, SoundStays DEF IInv
<1>. QED  BY <1>2 DEF Sound

LEMMA CachedStays ==
  ASSUME IInv, Grows, NEW u \in Tabs, NEW s, s = tab[u].cached, ~At(u, "submit")
  PROVE  SoundIn(s, log', Known', built')
<1>1. tab[u].cached \in Session /\ SoundIn(tab[u].cached, log, Known, built)
  BY Here DEF TabSafe, Sound, TabRow
<1>. QED  BY <1>1, SoundStays DEF IInv

\* What was sent stays before what is saved.
LEMMA SentStays ==
  ASSUME IInv, Grows, sent' = sent,
         \A d \in Devices : disk'[d].state = disk[d].state /\ disk'[d].life = disk[d].life
  PROVE  SentBefore'
<1>1. PICK S : New(S) /\ Known' \subseteq Known \cup S
  BY DEF Grows
<1>2. built \in Nat /\ (built' = built \/ built' = built + 1) /\ sent \subseteq Message /\ SentBefore
  BY DEF Grows, IInv, Types, TypeOK
<1>. SUFFICES ASSUME NEW m \in sent
              PROVE  /\ m.tip <= built' /\ m.life <= disk[m.device].life
                     /\ m.life = disk[m.device].life
                        => /\ disk[m.device].state # NoSession
                           /\ m.tip = disk[m.device].state.tip => m.gen < disk[m.device].state.gen
                           /\ \A c \in Known' : c.id = m.tip => c.epoch < disk[m.device].state.epoch
  BY <1>2 DEF SentBefore, Message
<1>3. m.tip <= built /\ m.tip \in Nat
  BY <1>2 DEF SentBefore, Message
<1>4. \A c \in Known' : c.id = m.tip => c \in Known
  BY <1>1, <1>2, <1>3 DEF New
<1>. QED  BY <1>2, <1>3, <1>4 DEF SentBefore

\* A tab that nothing has happened to, but to its neighbours' memory.
LEMMA UntouchedTab ==
  ASSUME IInv, Grows, NEW u \in Tabs, tab'[u] = tab[u], disk'[DeviceOf[u]] = disk[DeviceOf[u]],
         \A v \in Tabs : DeviceOf[v] = DeviceOf[u] => tab'[v] = tab[v] \/ tab'[v] = FreshTab
  PROVE  TabSafe(u)'
<1>1. TabSafe(u) /\ tab[u] \in TabRow
  BY Here
<1>2. ~At(u, "submit") => Sound(tab[u].cached)'
  BY CachedStays DEF Sound
<1>3. At(u, "save") => Sound(tab[u].hand)'
  <2>1. At(u, "save") => tab[u].hand \in Session /\ SoundIn(tab[u].hand, log, Known, built)
    BY <1>1 DEF TabSafe, Sound, TabRow
  <2>2. At(u, "save") => SoundIn(tab[u].hand, log', Known', built')
    BY <2>1, SoundStays DEF IInv
  <2>. QED  BY <2>2 DEF Sound
<1>4. \A v \in Tabs : DeviceOf[v] = DeviceOf[u] /\ Behind(v) => Behind(v)'
  BY SessionFacts DEF Behind
<1>5. MyDisk(u)' = MyDisk(u) /\ \A place : At(u, place)' <=> At(u, place)
  BY DEF MyDisk, At
<1>6. InStep(u)' <=> InStep(u)
  BY <1>5 DEF InStep
<1>. QED  BY <1>1, <1>2, <1>3, <1>4, <1>5, <1>6 DEF TabSafe

\* A tab at rest, on whose device another one is at work.
LEMMA IdleTab ==
  ASSUME IInv, Grows, NEW u \in Tabs, At(u, "idle"),
         tab'[u] = tab[u] \/ tab'[u] = [tab[u] EXCEPT !.stale = tab[u].cached # NoSession],
         Behind(u)' \/ disk'[DeviceOf[u]].state \in {disk[DeviceOf[u]].state, NoSession}
  PROVE  TabSafe(u)'
<1>1. TabSafe(u) /\ tab[u] \in TabRow /\ tab[u].at = "idle"
  BY Here DEF At
<1>2. /\ tab'[u].at = "idle" /\ tab'[u].cached = tab[u].cached
      /\ tab'[u].stale = tab[u].stale \/ tab'[u].stale = (tab[u].cached # NoSession)
  BY <1>1 DEF TabRow
<1>3. Sound(tab[u].cached)'
  BY <1>1, <1>2, CachedStays DEF Sound, At
<1>4. ~tab'[u].stale => InStep(u)'
  BY <1>1, <1>2 DEF TabSafe, At, InStep, Behind, MyDisk
<1>5. At(u, "idle")' /\ \A place : place # "idle" => ~At(u, place)'
  BY <1>2 DEF At
<1>. QED  BY <1>3, <1>4, <1>5 DEF TabSafe

LEMMA ExclusiveStays ==
  ASSUME IInv, NEW t \in Tabs, Holds(t) \/ Becomes(t, FreshTab), OthersKept(t), tab' \in [Tabs -> TabRow]
  PROVE  Exclusive'
<1>. SUFFICES ASSUME NEW a \in Tabs, NEW b \in Tabs, DeviceOf[a] = DeviceOf[b], a # b,
                     tab'[a].at # "idle", tab'[b].at # "idle"
              PROVE  FALSE
  BY DEF Exclusive, At
<1>1. \A u \in Tabs \ {t} : tab'[u].at = tab[u].at
  BY Here DEF OthersKept, TabRow
<1>2. CASE Holds(t)
  BY <1>1, <1>2 DEF Holds, At, IInv, Exclusive
<1>3. CASE Becomes(t, FreshTab)
  <2>1. tab'[t].at = "idle"
    BY <1>3, SessionFacts, Becoming
  <2>. QED  BY <1>1, <2>1 DEF At, IInv, Exclusive
<1>. QED  BY <1>2, <1>3

\* The tabs but t, after a quiet step or one that announces a group.
LEMMA OthersSafe ==
  ASSUME IInv, Grows, NEW t \in Tabs, Holds(t), OthersKept(t), NEW pending, NEW join, DiskTo(t, pending, join),
         NEW u \in Tabs, u # t
  PROVE  TabSafe(u)'
<1>1. CASE DeviceOf[u] = DeviceOf[t]
  BY <1>1, IdleTab DEF Holds, OthersKept, DiskTo, MyDisk
<1>2. CASE DeviceOf[u] # DeviceOf[t]
  <2>1. DeviceOf[u] \in Devices /\ disk'[DeviceOf[u]] = disk[DeviceOf[u]]
    BY <1>2, Here DEF DiskTo
  <2>2. \A v \in Tabs : DeviceOf[v] = DeviceOf[u] => tab'[v] = tab[v]
    BY <1>2 DEF OthersKept
  <2>. QED  BY <2>1, <2>2, UntouchedTab
<1>. QED  BY <1>1, <1>2

\* The invariant but for the parts of the type that no group depends on.
Core ==
  /\ disk \in [Devices -> DiskRow] /\ tab \in [Tabs -> TabRow] /\ sent \subseteq Message
  /\ Exclusive /\ Saved /\ (\A t \in Tabs : TabSafe(t)) /\ SentBefore /\ GenerationsUsedOnce

LEMMA QuietSafe == ASSUME IInv, NEW t \in Tabs, Grows, Quiet(t) PROVE Core'
<1>1. PICK pending, join : DiskTo(t, pending, join) /\ Calm(t, tab'[t], pending)
  BY DEF Quiet
<1>2. /\ Holds(t) \/ (Becomes(t, FreshTab) /\ disk' = disk)
      /\ tab' \in [Tabs -> TabRow] /\ OthersKept(t) /\ sent' = sent /\ tab'[t] \in TabRow
  BY DEF Quiet
<1>3. \A d \in Devices : disk'[d].state = disk[d].state /\ disk'[d].life = disk[d].life
  BY <1>1 DEF DiskTo, MyDisk
<1>4. Exclusive'
  BY <1>2, ExclusiveStays
<1>5. Saved' /\ SentBefore' /\ GenerationsUsedOnce'
  <2>1. \A d \in Devices : Sound(disk[d].state)'
    BY <1>3, SavedStays
  <2>. QED  BY <1>2, <1>3, <2>1, SentStays DEF Saved, GenerationsUsedOnce, IInv
<1>6. TabSafe(t)'
  <2>1. MyDisk(t)' = disk'[DeviceOf[t]] /\ MyDisk(t)'.state = MyDisk(t).state /\ MyDisk(t)'.pending = pending
    BY <1>1 DEF DiskTo, MyDisk
  <2>2. tab'[t].at # "submit" => SoundIn(tab'[t].cached, log', Known', built')
    <3>1. CASE tab'[t].cached = NoSession
      BY <3>1, SessionFacts DEF SoundIn
    <3>2. CASE tab'[t].cached = MyDisk(t).state
      BY <1>3, <3>2, Here, SavedStays DEF Sound, MyDisk
    <3>3. CASE tab'[t].cached = tab[t].cached /\ ~At(t, "submit")
      BY <3>3, CachedStays
    <3>. QED  BY <1>1, <3>1, <3>2, <3>3 DEF Calm
  <2>3. ~tab'[t].stale /\ tab'[t].at # "submit" => InStep(t)'
    BY <1>1, <1>2, <2>1, Here DEF Calm, TabSafe, InStep, At
  <2>. QED  BY <1>1, <2>1, <2>2, <2>3 DEF TabSafe, At, Calm, Sound
<1>7. ASSUME NEW u \in Tabs, u # t PROVE TabSafe(u)'
  <2>1. CASE Holds(t)
    BY <1>1, <1>2, <1>7, <2>1, OthersSafe
  <2>2. CASE Becomes(t, FreshTab) /\ disk' = disk
    <3>1. \A v \in Tabs : v # t => tab'[v] = tab[v]
      BY <2>2, SessionFacts, Becoming
    <3>2. tab'[t] = FreshTab
      BY <2>2, SessionFacts, Becoming
    <3>. QED  BY <1>7, <2>2, <3>1, <3>2, UntouchedTab
  <2>. QED  BY <1>2, <2>1, <2>2
<1>8. disk' \in [Devices -> DiskRow] /\ sent' \subseteq Message
  BY <1>1, <1>2 DEF DiskTo, IInv, Types
<1>. QED  BY <1>2, <1>4, <1>5, <1>6, <1>7, <1>8 DEF Core

LEMMA PersistedSafe == ASSUME IInv, NEW t \in Tabs, Grows, Persisted(t) PROVE Core'
<1>1. PICK pending, join : DiskTo(t, pending, join)
  BY DEF Persisted
<1>2. Holds(t) /\ tab' \in [Tabs -> TabRow] /\ OthersKept(t) /\ sent' = sent /\ tab'[t] \in TabRow
  BY DEF Persisted
<1>3. \A d \in Devices : disk'[d].state = disk[d].state /\ disk'[d].life = disk[d].life
  BY <1>1 DEF DiskTo, MyDisk
<1>4. Exclusive'
  BY <1>2, ExclusiveStays
<1>5. Saved' /\ SentBefore' /\ GenerationsUsedOnce'
  <2>1. \A d \in Devices : Sound(disk[d].state)'
    BY <1>3, SavedStays
  <2>. QED  BY <1>2, <1>3, <2>1, SentStays DEF Saved, GenerationsUsedOnce, IInv
<1>6. TabSafe(t)'
  <2>1. MyDisk(t)'.state = MyDisk(t).state
    BY <1>1 DEF DiskTo, MyDisk
  <2>2. tab'[t].then # "committed" => InStep(t)'
    BY <2>1, Here, AtWork DEF Persisted, TabSafe, InStep, At
  <2>3. At(t, "save")' /\ \A place : place # "save" => ~At(t, place)'
    BY DEF Persisted, At
  <2>. QED  BY <2>1, <2>2, <2>3 DEF Persisted, TabSafe, Sound
<1>7. ASSUME NEW u \in Tabs, u # t PROVE TabSafe(u)'
  BY <1>1, <1>2, <1>7, OthersSafe
<1>8. disk' \in [Devices -> DiskRow] /\ sent' \subseteq Message
  BY <1>1, <1>2 DEF DiskTo, IInv, Types
<1>. QED  BY <1>2, <1>4, <1>5, <1>6, <1>7, <1>8 DEF Core

\* A step that only writes or deletes a group adds no Commit.
LEMMA GrowsStill ==
  ASSUME IInv, log' = log, welcomes' = welcomes, net' = net, built' \in {built, built + 1},
         \A d \in Devices : disk'[d].pending = disk[d].pending /\ disk'[d].join = disk[d].join,
         \A u \in Tabs : tab'[u].commit \in {tab[u].commit, NoCommit}
  PROVE  Grows /\ Known' \subseteq Known
<1>1. Types /\ Records
  BY DEF IInv
<1>2. \A d \in Devices : /\ disk'[d].pending \in {disk[d].pending, NoCommit} \cup {}
                         /\ disk'[d].join \in {disk[d].join, NoCommit} \cup {}
  OBVIOUS
<1>3. \A u \in Tabs : tab'[u].commit \in {tab[u].commit, NoCommit} \cup {}
  OBVIOUS
<1>4. Known' \subseteq Known \cup {}
  BY <1>1, <1>2, <1>3, KnownThen
<1>5. New({}) /\ net' \subseteq Commit
  BY <1>1 DEF New, Types, TypeOK
<1>. QED  BY <1>4, <1>5 DEF Grows

LEMMA AfterSaveRow ==
  ASSUME NEW m \in TabRow, m.then \in Goals
  PROVE  /\ AfterSave(m) \in TabRow /\ AfterSave(m).at \in {"idle", "settled", "committed", "rejoined", "joined", "spend"}
         /\ AfterSave(m).cached = m.cached /\ AfterSave(m).stale = m.stale /\ AfterSave(m).commit \in {m.commit, NoCommit}
<1>. DEFINE n == [m EXCEPT !.refused = FALSE]
<1>1. n \in TabRow /\ n.cached = m.cached /\ n.stale = m.stale /\ m.rest \in Seq(Tasks)
  BY DEF TabRow
<1>0. <<>> \in Seq(Tasks)
  OBVIOUS
<1>. HIDE DEF n
<1>2. CASE m.then \in {"created", "synced"}
  BY <1>1, <1>2, DoneRow DEF AfterSave, n
<1>3. CASE m.then = "raceLost"
  BY <1>0, <1>3, DoneRow DEF AfterSave
<1>4. CASE m.then = "sent"
  BY <1>1, <1>4, DoneRow DEF AfterSave
<1>5. CASE m.then \in {"settled", "committed", "rejoined", "joined", "spend"}
  <2>1. AfterSave(m) = [m EXCEPT !.at = m.then]
    BY <1>5 DEF AfterSave
  <2>. QED  BY <1>5, <2>1 DEF TabRow, Places
<1>. QED  BY <1>2, <1>3, <1>4, <1>5 DEF Goals

\* The tabs but t, after a step of t that changed what is saved.
LEMMA OthersSafeAfterWrite ==
  ASSUME IInv, Grows, NEW t \in Tabs, Holds(t), NEW m \in TabRow, Becomes(t, m),
         \A d \in Devices : d # DeviceOf[t] => disk'[d] = disk[d],
         \/ \A v \in Tabs : v # t /\ DeviceOf[v] = DeviceOf[t] => Behind(v)
         \/ disk'[DeviceOf[t]].state = NoSession,
         NEW u \in Tabs, u # t
  PROVE  TabSafe(u)'
<1>1. \A v \in Tabs : v # t => tab'[v] = tab[v]
  BY Becoming
<1>2. CASE DeviceOf[u] = DeviceOf[t]
  <2>1. At(u, "idle")
    BY <1>2 DEF Holds
  <2>2. Behind(u)' <=> Behind(u)
    BY <1>1 DEF Behind
  <2>. QED  BY <1>1, <1>2, <2>1, <2>2, IdleTab
<1>3. CASE DeviceOf[u] # DeviceOf[t]
  BY <1>1, <1>3, Here, UntouchedTab
<1>. QED  BY <1>2, <1>3

\* The group of t's device is replaced by s, in the life n.
Writes(t, s, n) == disk' = [disk EXCEPT ![DeviceOf[t]].state = s, ![DeviceOf[t]].life = n]

LEMMA WritesGroup ==
  ASSUME IInv, NEW t \in Tabs, NEW s \in Session, NEW n \in Nat, Writes(t, s, n)
  PROVE  /\ disk' \in [Devices -> DiskRow]
         /\ disk'[DeviceOf[t]].state = s /\ disk'[DeviceOf[t]].life = n
         /\ \A d \in Devices : d # DeviceOf[t] => disk'[d] = disk[d]
         /\ \A d \in Devices : disk'[d].pending = disk[d].pending /\ disk'[d].join = disk[d].join
<1>1. PICK old, new : old = disk[DeviceOf[t]] /\ new = [old EXCEPT !.state = s, !.life = n]
  OBVIOUS
<1>2. old \in DiskRow
  BY <1>1, Here
<1>3. new \in DiskRow /\ new.state = s /\ new.life = n /\ new.pending = old.pending /\ new.join = old.join
  BY <1>1, <1>2 DEF DiskRow
<1>4. disk' = [disk EXCEPT ![DeviceOf[t]] = new]
  BY <1>1, <1>2, Here DEF DiskRow, Writes
<1>. QED  BY <1>1, <1>3, <1>4, Here

LEMMA ForgetStateSafe == ASSUME IInv, NEW t \in Tabs, ForgetState(t) PROVE Grows /\ Core'
<1>. PICK n : n = MyDisk(t).life + 1
  OBVIOUS
<1>. DEFINE r == Dropped(tab[t])
            m == [r EXCEPT !.at = "forgetStamp"]
<1>1. /\ At(t, "forget") /\ Becomes(t, m)
      /\ Writes(t, NoSession, n)
      /\ UNCHANGED <<log, welcomes, net, sent, built>>
  BY Here DEF ForgetState, MyDisk, serverVars, historyVars, Writes
<1>2. r \in TabRow /\ r.cached = NoSession /\ r.stale = FALSE /\ r.commit = tab[t].commit
  BY Here, DroppedRow
<1>3. m \in TabRow /\ m.at = "forgetStamp" /\ m.cached = NoSession /\ m.stale = FALSE /\ m.commit = tab[t].commit
  <2>. HIDE DEF r
  <2>. QED  BY <1>2 DEF TabRow, Places
<1>. HIDE DEF m, r
<1>4. n = MyDisk(t).life + 1 /\ MyDisk(t).life \in Nat /\ n \in Nat
  BY Here DEF DiskRow
<1>5. /\ disk' \in [Devices -> DiskRow]
      /\ disk'[DeviceOf[t]].state = NoSession /\ disk'[DeviceOf[t]].life = n
      /\ \A d \in Devices : d # DeviceOf[t] => disk'[d] = disk[d]
      /\ \A d \in Devices : disk'[d].pending = disk[d].pending /\ disk'[d].join = disk[d].join
  BY <1>1, <1>4, SessionFacts, WritesGroup
<1>6. tab' \in [Tabs -> TabRow] /\ tab'[t] = m /\ OthersKept(t) /\ \A u \in Tabs : u # t => tab'[u] = tab[u]
  BY <1>1, <1>3, Becoming
<1>7. Grows /\ Known' \subseteq Known
  BY <1>1, <1>3, <1>5, <1>6, GrowsStill
<1>8. Holds(t)
  BY <1>1, AtPlace, AtWork
<1>9. Exclusive'
  BY <1>6, <1>8, ExclusiveStays
<1>10. Saved'
  <2>1. \A d \in Devices : d # DeviceOf[t] => Sound(disk[d].state)'
    BY <1>5, <1>7, SavedStays
  <2>2. Sound(disk[DeviceOf[t]].state)'
    BY <1>5, SessionFacts DEF Sound, SoundIn
  <2>. QED  BY <2>1, <2>2 DEF Saved
<1>11. SentBefore'
  <2>. SUFFICES ASSUME NEW k \in sent
                PROVE  /\ k.tip <= built /\ k.life <= disk'[k.device].life
                       /\ k.life = disk'[k.device].life
                          => /\ disk'[k.device].state # NoSession
                             /\ k.tip = disk'[k.device].state.tip => k.gen < disk'[k.device].state.gen
                             /\ \A c \in Known' : c.id = k.tip => c.epoch < disk'[k.device].state.epoch
    BY <1>1 DEF SentBefore
  <2>1. k.device \in Devices /\ k.life \in Nat
    BY DEF IInv, Types, Message
  <2>2. CASE k.device = DeviceOf[t]
    <3>1. k.tip <= built /\ k.life <= MyDisk(t).life
      BY <2>2 DEF IInv, SentBefore, MyDisk
    <3>. QED  BY <1>4, <1>5, <2>1, <2>2, <3>1
  <2>3. CASE k.device # DeviceOf[t]
    BY <1>5, <1>7, <2>1, <2>3 DEF IInv, SentBefore
  <2>. QED  BY <2>2, <2>3
<1>12. TabSafe(t)'
  <2>1. tab'[t].cached = NoSession /\ tab'[t].at = "forgetStamp" /\ tab'[t].stale = FALSE
    BY <1>3, <1>6
  <2>2. SoundIn(tab'[t].cached, log', Known', built')
    BY <2>1, SessionFacts DEF SoundIn
  <2>. QED  BY <2>1, <2>2 DEF TabSafe, At, Sound, InStep
<1>13. ASSUME NEW u \in Tabs, u # t PROVE TabSafe(u)'
  BY <1>1, <1>3, <1>5, <1>7, <1>8, <1>13, OthersSafeAfterWrite
<1>14. GenerationsUsedOnce' /\ sent' \subseteq Message
  BY <1>1 DEF GenerationsUsedOnce, IInv, Types
<1>. QED  BY <1>5, <1>6, <1>7, <1>9, <1>10, <1>11, <1>12, <1>13, <1>14 DEF Core

-----------------------------------------------------------------------------
(* Writing the group, and the messages that go out with it.                  *)

\* What is written is another state than any message of this life was sent under, or a later generation of it.
LEMMA HandIsNew ==
  ASSUME IInv, NEW t \in Tabs, At(t, "save"), NEW k \in sent, k.device = DeviceOf[t], k.life = MyDisk(t).life
  PROVE  tab[t].then # "created" /\ k.tip = tab[t].hand.tip => k.gen < tab[t].hand.gen - (IF tab[t].then = "sent" THEN 1 ELSE 0)
<1>. PICK s, h : s = MyDisk(t).state /\ h = tab[t].hand
  OBVIOUS
<1>1. /\ s \in Session /\ h \in Session /\ h # NoSession /\ k \in Message
      /\ SoundIn(h, log, Known, built) /\ Fitting(s, h, tab[t].then)
  BY Here DEF TabSafe, Sound, DiskRow, TabRow, IInv, Types
<1>2. s # NoSession /\ (k.tip = s.tip => k.gen < s.gen) /\ (\A c \in Known : c.id = k.tip => c.epoch < s.epoch)
  BY DEF IInv, SentBefore, MyDisk
<1>. SUFFICES ASSUME tab[t].then # "created", k.tip = h.tip
              PROVE  k.gen < h.gen - (IF tab[t].then = "sent" THEN 1 ELSE 0)
  OBVIOUS
<1>3. CASE tab[t].then = "sent" /\ h = [s EXCEPT !.gen = @ + 1]
  BY <1>1, <1>2, <1>3 DEF Session, Message
<1>4. CASE h.epoch > s.epoch
  <2>1. (h.epoch > 0 /\ h.epoch \in Nat) \/ h.epoch = 0
    BY <1>1, <1>4 DEF Session
  <2>2. h.epoch # 0
    <3>1. s.epoch # -1
      BY <1>2, Here DEF Sound, SoundIn
    <3>. QED  BY <1>1, <1>4, <3>1 DEF Session
  <2>3. h.epoch \in DOMAIN log /\ log[h.epoch].id = h.tip
    BY <1>1, <2>1, <2>2 DEF SoundIn, IInv, Types, TypeOK
  <2>4. log[h.epoch] \in Known /\ log[h.epoch].epoch = h.epoch - 1
    BY <2>3, LogRows DEF IInv
  <2>5. h.epoch - 1 < s.epoch
    BY <1>2, <2>3, <2>4
  <2>. QED  BY <1>1, <1>4, <2>5 DEF Session
<1>. QED  BY <1>1, <1>2, <1>3, <1>4 DEF Fitting

\* Every Commit with the id of a sound state is of the epoch before it.
LEMMA TipIsLast ==
  ASSUME IInv, NEW s \in Session, s # NoSession, SoundIn(s, log, Known, built)
  PROVE  s.epoch \in Nat /\ s.tip <= built /\ \A c \in Known : c.id = s.tip => c.epoch < s.epoch
<1>1. s.epoch \in Nat /\ built \in Nat /\ Records
  BY DEF SoundIn, Session, IInv, Types, TypeOK
<1>2. CASE s.epoch = 0
  BY <1>1, <1>2 DEF SoundIn
<1>3. CASE s.epoch > 0
  <2>1. s.epoch \in DOMAIN log /\ log[s.epoch].id = s.tip
    BY <1>1, <1>3 DEF SoundIn, IInv, Types, TypeOK
  <2>2. log[s.epoch] \in Known /\ log[s.epoch].epoch = s.epoch - 1
    BY <2>1, LogRows DEF IInv
  <2>. QED  BY <1>1, <2>1, <2>2 DEF Records
<1>. QED  BY <1>1, <1>2, <1>3

LEMMA WriteStateSafe == ASSUME IInv, NEW t \in Tabs, WriteState(t) PROVE Grows /\ Core'
<1>. PICK d, h, then, s, life : /\ d = DeviceOf[t] /\ h = tab[t].hand /\ then = tab[t].then
                                /\ s = MyDisk(t).state /\ life = MyDisk(t).life
  OBVIOUS
<1>. PICK n : n = IF then = "created" /\ s # NoSession THEN life + 1 ELSE life
  OBVIOUS
<1>. DEFINE r == [tab[t] EXCEPT !.cached = h]
            m == AfterSave(r)
            message(x) == [device |-> d, life |-> life, tip |-> h.tip, gen |-> h.gen - 1, copy |-> x]
            copies == {x \in 0 .. MaxSends : message(x) \in sent}
            new == message(Cardinality(copies))
<1>1. /\ At(t, "save") /\ Becomes(t, m)
      /\ Writes(t, h, n)
      /\ sent' = IF then = "sent" THEN sent \cup {new} ELSE sent
      /\ UNCHANGED <<log, welcomes, net, built>>
  BY Here DEF WriteState, MyDisk, serverVars, Replaces, Writes
<1>2. /\ d \in Devices /\ tab[t] \in TabRow /\ s \in Session /\ h \in Session /\ h # NoSession /\ life \in Nat
      /\ then \in Goals /\ SoundIn(h, log, Known, built) /\ Fitting(s, h, then)
  BY <1>1, Here DEF TabSafe, Sound, DiskRow, TabRow
<1>3. r \in TabRow /\ r.cached = h /\ r.then = then /\ r.stale = tab[t].stale /\ r.commit = tab[t].commit
  BY <1>2 DEF TabRow
<1>. HIDE DEF r
<1>4. /\ m \in TabRow /\ m.at \in {"idle", "settled", "committed", "rejoined", "joined", "spend"}
      /\ m.cached = h /\ m.stale = tab[t].stale /\ m.commit \in {tab[t].commit, NoCommit}
  BY <1>2, <1>3, AfterSaveRow
<1>. HIDE DEF m
<1>5. /\ disk' \in [Devices -> DiskRow] /\ disk'[d].state = h /\ disk'[d].life = n
      /\ \A e \in Devices : e # d => disk'[e] = disk[e]
      /\ \A e \in Devices : disk'[e].pending = disk[e].pending /\ disk'[e].join = disk[e].join
  <2>1. n \in Nat
    BY <1>2
  <2>. QED  BY <1>1, <1>2, <2>1, WritesGroup
<1>6. tab' \in [Tabs -> TabRow] /\ tab'[t] = m /\ OthersKept(t) /\ \A u \in Tabs : u # t => tab'[u] = tab[u]
  BY <1>1, <1>4, Becoming
<1>7. Grows /\ Known' \subseteq Known
  BY <1>1, <1>4, <1>5, <1>6, GrowsStill
<1>8. Holds(t) /\ ~tab[t].stale
  BY <1>1, AtWork DEF At
<1>9. Exclusive'
  BY <1>6, <1>8, ExclusiveStays
<1>10. SoundIn(h, log', Known', built')
  BY <1>2, <1>7, SoundStays DEF IInv
<1>11. Saved'
  <2>1. \A e \in Devices : e # d => Sound(disk[e].state)'
    BY <1>5, <1>7, SavedStays
  <2>2. Sound(disk[d].state)'
    BY <1>5, <1>10 DEF Sound
  <2>. QED  BY <2>1, <2>2 DEF Saved
<1>12. h.epoch \in Nat /\ h.tip <= built /\ h.tip \in Nat /\ h.gen \in Nat /\ \A c \in Known : c.id = h.tip => c.epoch < h.epoch
  BY <1>2, TipIsLast DEF Session
<1>13. ASSUME NEW k \in sent, k.device = d, k.life = n
       PROVE  /\ then # "created" /\ s # NoSession /\ k.life = life
              /\ k.tip = h.tip => k.gen < h.gen - (IF then = "sent" THEN 1 ELSE 0)
              /\ \A c \in Known : c.id = k.tip => c.epoch < h.epoch
  <2>1. k.life <= life /\ (k.life = life => s # NoSession /\ \A c \in Known : c.id = k.tip => c.epoch < s.epoch)
    BY <1>13 DEF IInv, SentBefore, MyDisk
  <2>2. then # "created" /\ s # NoSession /\ k.life = life
    BY <1>2, <1>13, <2>1
  <2>3. k.tip = h.tip => k.gen < h.gen - (IF then = "sent" THEN 1 ELSE 0)
    BY <1>1, <1>13, <2>2, HandIsNew
  <2>4. s.epoch <= h.epoch
    BY <1>2, <2>2 DEF Fitting, Session
  <2>5. \A c \in Known : c.epoch \in Nat
    BY DEF IInv, Records
  <2>. QED  BY <1>2, <1>12, <2>1, <2>2, <2>3, <2>4, <2>5 DEF Session
<1>14. then = "sent" => copies = {} /\ new.copy = 0
  <2>1. ASSUME then = "sent", NEW x \in copies PROVE FALSE
    <3>1. message(x) \in sent /\ n = life
      BY <2>1
    <3>2. PICK k \in sent : k = message(x)
      BY <3>1
    <3>3. k.device = d /\ k.life = n /\ k.tip = h.tip /\ k.gen = h.gen - 1
      BY <3>1, <3>2
    <3>4. k.gen < h.gen - 1
      BY <1>13, <2>1, <3>2, <3>3
    <3>. QED  BY <1>12, <3>3, <3>4
  <2>2. then = "sent" => copies = {}
    BY <2>1
  <2>3. Cardinality({}) = 0
    BY FS_EmptySet
  <2>. QED  BY <2>2, <2>3
<1>15. /\ new.device = d /\ new.life = life /\ new.tip = h.tip /\ new.gen = h.gen - 1
       /\ (then = "sent" => new \in Message)
  <2>1. new.copy = Cardinality(copies)
    OBVIOUS
  <2>2. then = "sent" => Cardinality(copies) \in Nat
    BY <1>14, <2>1
  <2>. QED  BY <1>2, <1>12, <2>2 DEF Message
<1>. HIDE DEF new
<1>16. sent' \subseteq Message /\ GenerationsUsedOnce'
  BY <1>1, <1>14, <1>15 DEF IInv, Types, GenerationsUsedOnce
<1>17. SentBefore'
  <2>. SUFFICES ASSUME NEW k \in sent'
                PROVE  /\ k.tip <= built /\ k.life <= disk'[k.device].life
                       /\ k.life = disk'[k.device].life
                          => /\ disk'[k.device].state # NoSession
                             /\ k.tip = disk'[k.device].state.tip => k.gen < disk'[k.device].state.gen
                             /\ \A c \in Known' : c.id = k.tip => c.epoch < disk'[k.device].state.epoch
    BY <1>1 DEF SentBefore
  <2>1. CASE k \in sent /\ k.device # d
    BY <1>5, <1>7, <2>1 DEF IInv, SentBefore, Types, Message
  <2>2. CASE k \in sent /\ k.device = d
    <3>1. k.tip <= built /\ k.life <= life /\ k.life \in Nat /\ k.gen \in Int
      BY <2>2 DEF IInv, SentBefore, MyDisk, Types, Message
    <3>2. k.life <= n
      BY <1>2, <3>1
    <3>3. k.life = n => /\ k.tip = h.tip => k.gen < h.gen
                        /\ \A c \in Known : c.id = k.tip => c.epoch < h.epoch
      BY <1>12, <1>13, <2>2, <3>1
    <3>. QED  BY <1>2, <1>5, <1>7, <2>2, <3>1, <3>2, <3>3
  <2>3. CASE then = "sent" /\ k = new
    <3>1. n = life
      BY <2>3
    <3>. QED  BY <1>2, <1>5, <1>7, <1>12, <1>15, <2>3, <3>1
  <2>. QED  BY <1>1, <2>1, <2>2, <2>3
<1>18. TabSafe(t)'
  <2>1. /\ tab'[t].cached = h /\ tab'[t].at \in {"idle", "settled", "committed", "rejoined", "joined", "spend"}
        /\ MyDisk(t)'.state = h /\ ~tab'[t].stale
    BY <1>4, <1>5, <1>6, <1>8 DEF MyDisk
  <2>. QED  BY <1>2, <1>10, <2>1 DEF TabSafe, At, Sound, InStep
<1>19. ASSUME NEW u \in Tabs, u # t PROVE TabSafe(u)'
  <2>1. \A v \in Tabs : v # t /\ DeviceOf[v] = DeviceOf[t] => Behind(v)
    BY <1>1, Here DEF TabSafe
  <2>. QED  BY <1>1, <1>4, <1>5, <1>7, <1>8, <1>19, <2>1, OthersSafeAfterWrite
<1>. QED  BY <1>5, <1>6, <1>7, <1>9, <1>11, <1>16, <1>17, <1>18, <1>19 DEF Core

-----------------------------------------------------------------------------
(* The other steps, and all of them.                                         *)

\* A step in which no tab has a part.
LEMMA ElsewhereSafe == ASSUME IInv, Grows, tab' = tab, disk' = disk, sent' = sent PROVE Core'
<1>1. \A t \in Tabs : TabSafe(t)'
  BY UntouchedTab
<1>2. Saved' /\ SentBefore'
  BY SavedStays, SentStays DEF Saved
<1>3. Exclusive' /\ GenerationsUsedOnce'
  BY DEF IInv, Exclusive, At, GenerationsUsedOnce
<1>. QED  BY <1>1, <1>2, <1>3 DEF Core, IInv, Types, TypeOK, DiskRow

LEMMA ArriveSafe == ASSUME IInv, NEW c \in net, Arrive(c) PROVE Grows /\ Core'
<1>1. net' \subseteq net /\ Delivered(c) /\ UNCHANGED <<disk, tab, sent, built>>
  BY DEF Arrive, historyVars
<1>2. Types /\ Records
  BY DEF IInv
<1>3. c \in Known
  <2>1. c # NoCommit
    BY <1>2 DEF Types, TypeOK, Commit, NoCommit
  <2>. QED  BY <2>1, KnownPlaces
<1>4. {} \subseteq Known
  OBVIOUS
<1>5. Grows
  BY <1>1, <1>2, <1>3, <1>4, GrowsIf
<1>. QED  BY <1>1, <1>5, ElsewhereSafe

LEMMA PeerCommitsSafe ==
  ASSUME IInv, NEW p \in Devices, NEW added \in SUBSET Devices, PeerCommits(p, added)
  PROVE  Grows /\ Core'
<1>. PICK joins : joins = (log # <<>> /\ p \notin LeavesAt(Len(log)))
  OBVIOUS
<1>. PICK c : c = [id |-> built + 1, by |-> p, epoch |-> Len(log),
                   base |-> IF log = <<>> THEN built + 1 ELSE log[Len(log)].id,
                   added |-> IF joins THEN {} ELSE added \ LeavesAt(Len(log)), external |-> joins, life |-> 0]
  OBVIOUS
<1>1. Delivered(c) /\ built' = built + 1 /\ UNCHANGED <<net, disk, tab, sent>>
  BY DEF PeerCommits, historyVars
<1>2. Types /\ Records /\ built \in Nat /\ log \in Seq(Commit)
  BY DEF IInv, Types, TypeOK
<1>3. log # <<>> => log[Len(log)].id \in Nat
  <2>1. log # <<>> => log[Len(log)] \in Commit
    BY <1>2
  <2>. QED  BY <2>1 DEF Commit
<1>4. c \in Commit /\ c.epoch \in Nat /\ c.id = built + 1
  <2>1. Len(log) \in Nat /\ joins \in BOOLEAN
    BY <1>2
  <2>. QED  BY <1>2, <1>3, <2>1 DEF Commit
<1>5. New({c})
  BY <1>1, <1>4 DEF New
<1>6. c \in Known \cup {c}
  OBVIOUS
<1>7. Grows
  BY <1>1, <1>2, <1>5, <1>6, GrowsIf
<1>. QED  BY <1>1, <1>7, ElsewhereSafe

LEMMA ChangeStandingSafe == ASSUME IInv, NEW d \in Devices, ChangeStanding(d) PROVE Grows /\ Core'
<1>1. UNCHANGED <<log, welcomes, net, disk, tab, sent, built>>
  BY DEF ChangeStanding, serverVars, historyVars
<1>2. Types /\ Records /\ {} \subseteq Known
  BY DEF IInv
<1>3. Grows
  BY <1>1, <1>2, GrowsIf
<1>. QED  BY <1>1, <1>3, ElsewhereSafe

\* What no group depends on, after a step of a tab.
Side ==
  /\ active' = active /\ spent' \subseteq spent \cup welcomes
  /\ tasks' \in {tasks, tasks + 1} /\ faults' \in {faults, faults + 1}

LEMMA OpenSide == ASSUME NEW t \in Tabs, OpenStep(t) PROVE Side
<1>1. CASE DropOldRecord(t) \/ DiscardRecord(t) \/ DiscardJoin(t)
  BY <1>1 DEF DropOldRecord, DiscardRecord, DiscardJoin, Side
<1>2. CASE Resubmit(t) \/ ResolveJoin(t)
  BY <1>2 DEF Resubmit, ResolveJoin, Side
<1>3. CASE ResubmitLost(t) \/ ResolveJoinLost(t)
  BY <1>3 DEF ResubmitLost, ResolveJoinLost, Fault, Side
<1>. QED  BY <1>1, <1>2, <1>3 DEF OpenStep

LEMMA WorkSide == ASSUME NEW t \in Tabs, WorkStep(t) PROVE Side
<1>1. CASE Encrypt(t) \/ SyncCommits(t) \/ StageNothing(t) \/ CreateGroup(t)
  BY <1>1 DEF Encrypt, SyncCommits, StageNothing, CreateGroup, Side
<1>2. CASE \E added \in SUBSET Devices : StageCommit(t, added)
  BY <1>2 DEF StageCommit, Side
<1>3. CASE SubmitAccepted(t) \/ SubmitRefused(t) \/ SubmitConflict(t)
  BY <1>3 DEF SubmitAccepted, SubmitRefused, SubmitConflict, Side
<1>4. CASE SubmitLost(t)
  BY <1>4 DEF SubmitLost, Fault, Side
<1>. QED  BY <1>1, <1>2, <1>3, <1>4 DEF WorkStep

LEMMA JoinSide == ASSUME NEW t \in Tabs, JoinStep(t) PROVE Side
<1>1. CASE LookHasState(t) \/ BuildJoin(t) \/ NoSnapshot(t) \/ SubmitJoin(t)
  BY <1>1 DEF LookHasState, BuildJoin, NoSnapshot, SubmitJoin, Side
<1>2. CASE SubmitJoinLost(t)
  BY <1>2 DEF SubmitJoinLost, Fault, Side
<1>3. CASE NoWelcome(t) \/ ConsumeWelcome(t)
  BY <1>3 DEF NoWelcome, ConsumeWelcome, Side
<1>4. CASE SpendKeyPackage(t)
  BY <1>4 DEF SpendKeyPackage, MaySpend, WelcomesFor, Side
<1>5. CASE \E w \in welcomes : JoinFromWelcome(t, w)
  BY <1>5 DEF JoinFromWelcome, Side
<1>6. CASE \E w \in welcomes : StaleWelcome(t, w)
  BY <1>6 DEF StaleWelcome, MaySpend, WelcomesFor, Side
<1>. QED  BY <1>1, <1>2, <1>3, <1>4, <1>5, <1>6 DEF JoinStep

LEMMA TabSide == ASSUME NEW t \in Tabs, TabStep(t) PROVE Side
<1>1. CASE Crash(t)
  BY <1>1 DEF Crash, Fault, Side
<1>2. CASE \E task \in Tasks : Begin(t, task)
  BY <1>2 DEF Begin, Side
<1>3. CASE WriteState(t)
  BY <1>3 DEF WriteState, Side
<1>4. CASE ForgetStep(t)
  BY <1>4 DEF ForgetStep, ForgetState, ForgetStamp, ForgetCommit, ForgetJoin, Side
<1>. QED  BY <1>1, <1>2, <1>3, <1>4, OpenSide, WorkSide, JoinSide DEF TabStep

LEMMA OpenSafe == ASSUME IInv, NEW t \in Tabs, OpenStep(t) PROVE Kind(t)
BY DropOldRecordKind, ResubmitKind, ResubmitLostKind, DiscardRecordKind, ResolveJoinKind, ResolveJoinLostKind,
   DiscardJoinKind DEF OpenStep

LEMMA WorkSafe == ASSUME IInv, NEW t \in Tabs, WorkStep(t) PROVE Kind(t)
BY EncryptKind, SyncCommitsKind, StageNothingKind, CreateGroupKind, StageCommitKind,
   SubmitAcceptedKind, SubmitRefusedKind, SubmitConflictKind, SubmitLostKind DEF WorkStep

LEMMA JoinSafe == ASSUME IInv, NEW t \in Tabs, JoinStep(t) PROVE Kind(t)
BY LookHasStateKind, BuildJoinKind, NoSnapshotKind, SubmitJoinKind, SubmitJoinLostKind, NoWelcomeKind,
   SpendKeyPackageKind, ConsumeWelcomeKind, JoinFromWelcomeKind, StaleWelcomeKind DEF JoinStep

LEMMA TabSafeStep == ASSUME IInv, NEW t \in Tabs, TabStep(t) PROVE Grows /\ Core'
<1>1. Kind(t) => Grows /\ Core'
  BY QuietSafe, PersistedSafe DEF Kind
<1>2. CASE ForgetStep(t)
  BY <1>1, <1>2, ForgetStateSafe, ForgetStampKind, ForgetCommitKind, ForgetJoinKind DEF ForgetStep
<1>. QED  BY <1>1, <1>2, CrashKind, BeginKind, OpenSafe, WorkSafe, JoinSafe, WriteStateSafe DEF TabStep

LEMMA IInvFrom ==
  ASSUME IInv, Grows, Core', active' \in [Devices -> BOOLEAN], spent' \subseteq spent \cup welcomes,
         tasks' \in Nat, faults' \in Nat
  PROVE  IInv'
<1>1. Types /\ Records
  BY DEF IInv
<1>2. Records' /\ built' \in Nat /\ log' \in Seq(Commit) /\ net' \subseteq Commit
      /\ welcomes' \subseteq [device : Devices, epoch : Nat, tip : Nat]
  BY <1>1, GrowsRecords
<1>3. disk' \in [Devices -> DiskRow] /\ tab' \in [Tabs -> TabRow] /\ sent' \subseteq Message
  BY DEF Core
<1>4. spent' \subseteq [device : Devices, epoch : Nat, tip : Nat]
  BY <1>1 DEF Types, TypeOK
<1>5. Types'
  BY <1>2, <1>3, <1>4 DEF Types, TypeOK, DiskRow
<1>. QED  BY <1>2, <1>5 DEF IInv, Core, Saved

LEMMA InitSafe == Init => IInv
<1>. SUFFICES ASSUME Init PROVE IInv
  OBVIOUS
<1>1. Known = {}
  BY SessionFacts DEF Init, Known
<1>2. Types
  <2>1. NoSession \in Session /\ NoCommit \in Commit \cup {NoCommit} /\ FreshTab \in TabRow
    BY SessionFacts
  <2>. QED  BY <2>1 DEF Init, Types, TypeOK
<1>3. Records
  BY <1>1 DEF Init, Records
<1>4. \A d \in Devices : disk[d].state = NoSession
  BY DEF Init
<1>5. Sound(NoSession)
  BY SessionFacts DEF Sound, SoundIn
<1>6. \A d \in Devices : Sound(disk[d].state)
  BY <1>4, <1>5 DEF Sound
<1>7. \A t \in Tabs : tab[t] = FreshTab
  BY DEF Init
<1>8. \A t \in Tabs : TabSafe(t)
  BY <1>5, <1>7, SessionFacts DEF TabSafe, At, InStep, Sound
<1>9. Exclusive
  BY <1>7, SessionFacts DEF Exclusive, At
<1>10. SentBefore /\ GenerationsUsedOnce
  BY DEF Init, SentBefore, GenerationsUsedOnce
<1>. QED  BY <1>2, <1>3, <1>6, <1>8, <1>9, <1>10 DEF IInv

LEMMA NextSafe == IInv /\ [Next]_vars => IInv'
<1>. SUFFICES ASSUME IInv, [Next]_vars PROVE IInv'
  OBVIOUS
<1>1. /\ active \in [Devices -> BOOLEAN] /\ tasks \in Nat /\ faults \in Nat
      /\ Peers \subseteq Devices
  BY DEF IInv, Types, TypeOK, Peers
<1>2. ASSUME NEW t \in Tabs, TabStep(t) PROVE IInv'
  <2>1. Grows /\ Core' /\ Side
    BY <1>2, TabSafeStep, TabSide
  <2>. QED  BY <1>1, <2>1, IInvFrom DEF Side
<1>3. ASSUME NEW c \in net, Arrive(c) PROVE IInv'
  BY <1>1, <1>3, ArriveSafe, IInvFrom DEF Arrive
<1>4. ASSUME NEW p \in Peers, NEW added \in SUBSET (Devices \ {p}), PeerCommits(p, added) PROVE IInv'
  <2>1. Grows /\ Core'
    BY <1>1, <1>4, PeerCommitsSafe
  <2>. QED  BY <1>1, <1>4, <2>1, IInvFrom DEF PeerCommits
<1>5. ASSUME NEW d \in Devices \ Peers, ChangeStanding(d) PROVE IInv'
  <2>1. Grows /\ Core'
    BY <1>5, ChangeStandingSafe
  <2>2. active' \in [Devices -> BOOLEAN] /\ spent' = spent /\ tasks' = tasks /\ faults' = faults + 1
    BY <1>1, <1>5 DEF ChangeStanding, Fault
  <2>. QED  BY <1>1, <2>1, <2>2, IInvFrom
<1>6. CASE UNCHANGED vars
  <2>1. UNCHANGED <<log, welcomes, active, net, disk, tab, spent, sent, built, tasks, faults>>
    BY <1>6 DEF vars
  <2>2. Types /\ Records /\ {} \subseteq Known
    BY DEF IInv
  <2>3. Grows
    BY <2>1, <2>2, GrowsIf
  <2>. QED  BY <1>1, <2>1, <2>3, ElsewhereSafe, IInvFrom
<1>. QED  BY <1>2, <1>3, <1>4, <1>5, <1>6 DEF Next, ServerStep

-----------------------------------------------------------------------------
(* The theorems.                                                             *)

\* The inductive invariant of the sync engines holds in every behaviour, whatever the number of devices, of
\* tabs to a device, of Commits and of faults (groupSessionCache.ts:112-169; syncEngine.ts:60-234).
THEOREM ClientsInvariant == Spec => []IInv
BY InitSafe, NextSafe, PTL DEF Spec

\* Every record on disk, in memory and on the server has its fields.
THEOREM ClientsTyped == Spec => []TypeOK
<1>1. IInv => TypeOK
  BY DEF IInv, Types
<1>. QED  BY <1>1, ClientsInvariant, PTL

\* The group a device has saved past the first epoch is the one the server's log leads to, in whichever order its
\* tabs wrote, died and settled what was left (syncEngine.ts:210; selfJoiner.ts:128).
THEOREM SavedSafe == Spec => []SavedStateIsOnTheLog
<1>1. IInv => SavedStateIsOnTheLog
  BY DEF IInv, SavedStateIsOnTheLog, Sound, SoundIn
<1>. QED  BY <1>1, ClientsInvariant, PTL

\* No two messages of a device go out under the same generation of the same group state
\* (crossTabLock.ts:5; groupSessionCache.ts:112).
THEOREM GenerationsSafe == Spec => []GenerationsUsedOnce
<1>1. IInv => GenerationsUsedOnce
  BY DEF IInv
<1>. QED  BY <1>1, ClientsInvariant, PTL

-----------------------------------------------------------------------------
(* A device's own Commits: while the log has one, or may still get it, that its saved group has not come to, *)
(* it has the record, or gave it up.                                                                           *)

\* A record is a Commit of its device, and a join is external.
RecordsOwned ==
  \A d \in Devices : /\ disk[d].pending # NoCommit => disk[d].pending.by = d /\ ~disk[d].pending.external
                     /\ disk[d].join # NoCommit => disk[d].join.external

\* What a Commit was built on: a state that only earlier Commits have led to.
Rooted ==
  \A c \in Known :
    /\ c.by \notin Peers => c.life <= disk[c.by].life
    /\ ~c.external => c.base \in 1 .. built
    /\ ~c.external /\ c.by \notin Peers => \A e \in Known : e.id = c.base => e.epoch < c.epoch

\* The log has the Commit, or may still accept it.
LandsIn(c, requests, rows) == (c \in requests /\ c.epoch >= Len(rows)) \/ \E i \in DOMAIN rows : rows[i] = c
Lands(c) == LandsIn(c, net, log)
LandsThen(c) == LandsIn(c, net', log')

\* Before a tab lets the record of its device go, its Commit has not landed, or its group is saved, or wiped.
RecordSafe(t) ==
  LET p == MyDisk(t).pending IN
  /\ At(t, "submit") => p = tab[t].commit /\ ~Lands(p)
  /\ At(t, "submitJoin") => tab[t].commit.external
  /\ p # NoCommit =>
       /\ At(t, "save") /\ tab[t].then \in {"settled", "committed"} => tab[t].hand.epoch > p.epoch
       /\ At(t, "settled") \/ At(t, "committed") => MyDisk(t).state.epoch > p.epoch
       /\ At(t, "forgetStamp") \/ At(t, "forgetCommit") => p.life < MyDisk(t).life

Settled(c) ==
  LET mine == disk[c.by]
  IN c.life = mine.life => mine.pending = c \/ c \in gaveUp \/ mine.state.epoch > c.epoch

Owned(c) == ~c.external /\ c.by \notin Peers

OwnInv ==
  /\ IInv
  /\ RecordsOwned /\ Rooted
  /\ \A t \in Tabs : RecordSafe(t)
  /\ \A d \in Peers : disk[d].state = NoSession
  /\ \A c \in Known : Owned(c) /\ Lands(c) => Settled(c)

LEMMA LandsNext ==
  ASSUME Types, NEW e, e \in Commit \/ (log' = log /\ net' \subseteq net),
         log' = log \/ log' = Append(log, e), net' \subseteq net \cup {e}, NEW c, LandsThen(c)
  PROVE  Lands(c) \/ c = e
<1>1. log \in Seq(Commit) /\ Len(log) \in Nat
  BY DEF Types, TypeOK
<1>2. CASE log' = log
  <2>1. net' \subseteq net \cup {e}
    OBVIOUS
  <2>. QED  BY <1>2, <2>1 DEF Lands, LandsThen, LandsIn
<1>3. CASE log' = Append(log, e) /\ e \in Commit
  <2>1. /\ Len(log') = Len(log) + 1 /\ DOMAIN log' = 1 .. Len(log) + 1 /\ DOMAIN log = 1 .. Len(log)
        /\ log'[Len(log) + 1] = e /\ \A i \in DOMAIN log : log'[i] = log[i]
    BY <1>1, <1>3
  <2>2. ASSUME NEW i \in DOMAIN log', log'[i] = c PROVE Lands(c) \/ c = e
    BY <1>1, <2>1, <2>2 DEF Lands, LandsThen, LandsIn
  <2>3. ASSUME c \in net', c.epoch >= Len(log') PROVE Lands(c) \/ c = e
    <3>1. CASE c \in net
      <4>1. c.epoch \in Int
        BY <3>1 DEF Types, TypeOK, Commit
      <4>. QED  BY <1>1, <2>1, <2>3, <3>1, <4>1 DEF Lands, LandsThen, LandsIn
    <3>. QED  BY <2>3, <3>1
  <2>. QED  BY <2>2, <2>3 DEF Lands, LandsThen, LandsIn
<1>. QED  BY <1>2, <1>3

LEMMA LandsDelivered ==
  ASSUME Types, NEW e \in Commit, Delivered(e), net' \subseteq net, NEW c, LandsThen(c)
  PROVE  Lands(c) \/ c = e
<1>1. log' = log \/ log' = Append(log, e)
  BY DEF Delivered, serverVars
<1>. QED  BY <1>1, LandsNext

LEMMA LandsStays ==
  ASSUME Types, log' = log, net' \subseteq net, NEW c, LandsThen(c)
  PROVE  Lands(c)
BY DEF Lands, LandsThen, LandsIn

\* No Commit is built in the step.
LEMMA NoNewRecords ==
  ASSUME Types, Grows, built' = built
  PROVE  Known' \subseteq Known
<1>1. PICK S : New(S) /\ Known' \subseteq Known \cup S
  BY DEF Grows
<1>2. built \in Nat
  BY DEF Types, TypeOK
<1>. QED  BY <1>1, <1>2 DEF New

\* What a step of t does to the records and to what it will let go.
Passes(t) ==
  LET d == DeviceOf[t]
      p == disk[d].pending
      q == disk'[d]
  IN /\ gaveUp \subseteq gaveUp'
     /\ \A e \in Devices \ {d} : disk'[e] = disk[e]
     /\ q.life > disk[d].life
        \/ /\ q.life = disk[d].life /\ q.state.epoch >= disk[d].state.epoch
           /\ q.pending = p \/ p = NoCommit \/ p \in gaveUp' \/ ~LandsThen(p) \/ q.state.epoch > p.epoch \/ p.life # q.life
     /\ q.pending # NoCommit => q.pending.by = d /\ ~q.pending.external
     /\ q.join # NoCommit => q.join.external
     /\ \A c \in Known' : LandsThen(c) => Lands(c) \/ c.external \/ c = p
     /\ \A c \in Known' \ Known : /\ c.by = d /\ c.life <= q.life /\ ~LandsThen(c)
                                  /\ ~c.external => /\ c.base \in 1 .. built
                                                    /\ \A e \in Known : e.id = c.base => e.epoch < c.epoch
     /\ RecordSafe(t)'

\* Tab t takes the step, under the lock or by dying.
Moves(t) ==
  /\ Grows
  /\ \A u \in Tabs \ {t} : /\ tab'[u].at = tab[u].at /\ tab'[u].commit = tab[u].commit
                           /\ tab'[u].hand = tab[u].hand /\ tab'[u].then = tab[u].then
  /\ Holds(t) \/ (disk' = disk /\ log' = log /\ net' = net)

LEMMA OwnStays ==
  ASSUME OwnInv, IInv', NEW t \in Tabs, Moves(t), Passes(t)
  PROVE  OwnInv'
<1>. DEFINE d == DeviceOf[t]
<1>1. /\ IInv /\ Types /\ Records /\ RecordsOwned /\ Rooted /\ d \in Devices /\ d \notin Peers /\ built \in Nat
      /\ Records' /\ Grows /\ Peers' = Peers /\ Peers \subseteq Devices
  BY Here DEF OwnInv, IInv, Peers, Moves
<1>2. \A e \in Devices \ {d} : disk'[e] = disk[e]
  BY DEF Passes
<1>3. RecordsOwned'
  BY <1>1, <1>2 DEF Passes, RecordsOwned
<1>4. built' \in Nat /\ built <= built'
  BY <1>1 DEF Grows
<1>5. PICK S : New(S) /\ Known' \subseteq Known \cup S
  BY <1>1 DEF Grows
<1>6. \A c \in Known' \ Known : c.id = built + 1
  BY <1>5 DEF New
<1>7. \A e \in Devices : disk[e].life \in Nat /\ disk'[e].life \in Nat
  BY DEF OwnInv, IInv, Types, TypeOK
<1>8. disk[d].life <= disk'[d].life
  BY <1>1, <1>7 DEF Passes
<1>9. \A c \in Known \cup Known' : c \in Commit /\ c.epoch \in Nat /\ c.by \in Devices /\ c.life \in Nat /\ c.base \in Nat
  BY <1>1 DEF Records, Commit
<1>10. Rooted'
  <2>. SUFFICES ASSUME NEW c \in Known'
                PROVE  /\ c.by \notin Peers => c.life <= disk'[c.by].life
                       /\ ~c.external => c.base \in 1 .. built'
                       /\ ~c.external /\ c.by \notin Peers => \A e \in Known' : e.id = c.base => e.epoch < c.epoch
    BY <1>1 DEF Rooted
  <2>1. CASE c \in Known
    <3>1. c.by \notin Peers => c.life <= disk'[c.by].life
      BY <1>1, <1>2, <1>7, <1>8, <1>9, <2>1 DEF Rooted
    <3>2. ~c.external => c.base \in 1 .. built
      BY <1>1, <2>1 DEF Rooted
    <3>3. ~c.external => \A e \in Known' : e.id = c.base => e \in Known
      BY <1>1, <1>6, <3>2
    <3>. QED  BY <1>1, <1>4, <2>1, <3>1, <3>2, <3>3 DEF Rooted
  <2>2. CASE c \notin Known
    <3>1. /\ c.by = d /\ c.life <= disk'[d].life
          /\ ~c.external => c.base \in 1 .. built /\ \A e \in Known : e.id = c.base => e.epoch < c.epoch
      BY <2>2 DEF Passes
    <3>2. ~c.external => \A e \in Known' : e.id = c.base => e \in Known
      BY <1>1, <1>6, <3>1
    <3>. QED  BY <1>1, <1>4, <3>1, <3>2
  <2>. QED  BY <2>1, <2>2
<1>11. \A e \in Peers : disk'[e].state = NoSession
  BY <1>1, <1>2 DEF OwnInv
<1>12. ASSUME NEW c \in Known', Owned(c), LandsThen(c) PROVE Settled(c)'
  <2>1. c \in Known
    BY <1>12 DEF Passes
  <2>2. Lands(c) \/ c = disk[d].pending
    BY <1>12 DEF Passes, Owned
  <2>3. Settled(c)
    BY <2>1, <2>2, <1>1, <1>12 DEF OwnInv, Settled, RecordsOwned, Known
  <2>4. CASE c.by # d
    BY <1>2, <1>9, <2>1, <2>3, <2>4 DEF Settled, Passes
  <2>5. CASE c.by = d
    <3>1. c.life <= disk[d].life
      BY <1>1, <2>1, <2>5 DEF Rooted
    <3>2. CASE disk'[d].life > disk[d].life
      BY <1>7, <1>9, <1>1, <2>1, <2>5, <3>1, <3>2 DEF Settled
    <3>3. CASE disk'[d].life = disk[d].life
      <4>. DEFINE q == disk'[d]
                  p == disk[d].pending
      <4>1. /\ q.state.epoch >= disk[d].state.epoch
            /\ q.pending = p \/ p = NoCommit \/ p \in gaveUp' \/ ~LandsThen(p) \/ q.state.epoch > p.epoch \/ p.life # q.life
        BY <1>1, <1>7, <3>3 DEF Passes
      <4>2. disk[d].state.epoch \in Int /\ q.state.epoch \in Int
        BY <1>1, SMTT(20) DEF OwnInv, IInv, Types, TypeOK, Session
      <4>3. c # NoCommit /\ gaveUp \subseteq gaveUp'
        BY <2>1 DEF Known, Passes
      <4>4. c.life = disk[d].life => p = c \/ c \in gaveUp \/ disk[d].state.epoch > c.epoch
        BY <2>3, <2>5 DEF Settled
      <4>5. c.life = q.life => q.pending = c \/ c \in gaveUp' \/ q.state.epoch > c.epoch
        <5>1. CASE p = c
          BY <1>12, <4>1, <4>3, <5>1
        <5>2. CASE c \in gaveUp
          BY <4>3, <5>2
        <5>3. CASE disk[d].state.epoch > c.epoch
          <6>1. c.epoch \in Int
            BY <1>9, <2>1
          <6>2. q.state.epoch > c.epoch
            BY <4>1, <4>2, <5>3, <6>1
          <6>. QED  BY <6>2
        <5>. QED  BY <3>3, <4>4, <5>1, <5>2, <5>3
      <4>. QED  BY <2>5, <4>5 DEF Settled
    <3>. QED  BY <3>2, <3>3 DEF Passes
  <2>. QED  BY <2>4, <2>5
<1>13. ASSUME NEW u \in Tabs, u # t PROVE RecordSafe(u)'
  <2>1. RecordSafe(u) /\ DeviceOf[u] \in Devices
    BY Here, <1>1 DEF OwnInv
  <2>2. /\ \A place : At(u, place)' <=> At(u, place)
        /\ tab'[u].commit = tab[u].commit /\ tab'[u].hand = tab[u].hand /\ tab'[u].then = tab[u].then
    BY <1>13 DEF Moves, At
  <2>3. CASE DeviceOf[u] = d /\ Holds(t)
    <3>1. \A place : place # "idle" => ~At(u, place)'
      BY <1>13, <2>2, <2>3 DEF Holds, At
    <3>. QED  BY <3>1 DEF RecordSafe
  <2>4. CASE DeviceOf[u] # d
    <3>1. MyDisk(u)' = MyDisk(u)
      BY <1>2, <2>1, <2>4 DEF MyDisk
    <3>2. At(u, "submit") => ~Lands(MyDisk(u).pending)'
      <4>. SUFFICES ASSUME At(u, "submit") PROVE ~Lands(MyDisk(u).pending)'
        OBVIOUS
      <4>1. PICK p : p = MyDisk(u).pending
        OBVIOUS
      <4>2. p # NoCommit /\ p = tab[u].commit /\ ~Lands(p)
        BY <1>1, <2>1, <4>1, Here DEF TabSafe, RecordSafe
      <4>3. p.by = DeviceOf[u] /\ ~p.external
        BY <1>1, <2>1, <4>1, <4>2 DEF RecordsOwned, MyDisk
      <4>4. p \in Known'
        BY <2>2, <4>2 DEF Known
      <4>5. p = disk[d].pending => p.by = d
        BY <1>1, <4>2 DEF RecordsOwned
      <4>6. ~LandsThen(p)
        BY <2>4, <4>2, <4>3, <4>4, <4>5 DEF Passes
      <4>. QED  BY <3>1, <4>1, <4>6 DEF Lands, LandsThen
    <3>. QED  BY <2>1, <2>2, <3>1, <3>2 DEF RecordSafe
  <2>5. CASE disk' = disk /\ log' = log /\ net' = net
    <3>1. MyDisk(u)' = MyDisk(u) /\ (Lands(MyDisk(u).pending)' <=> Lands(MyDisk(u).pending))
      BY <2>5 DEF MyDisk, Lands, LandsIn
    <3>. QED  BY <2>1, <2>2, <3>1 DEF RecordSafe
  <2>. QED  BY <2>3, <2>4, <2>5 DEF Moves
<1>14. RecordSafe(t)'
  BY DEF Passes
<1>15. \A u \in Tabs : RecordSafe(u)'
  BY <1>13, <1>14
<1>16. \A c \in Known' : Owned(c)' /\ Lands(c)' => Settled(c)'
  BY <1>1, <1>12 DEF Owned, Lands, LandsThen
<1>. QED  BY <1>1, <1>3, <1>10, <1>11, <1>15, <1>16 DEF OwnInv

\* Places from which no record is let go at once.
PlainPlaces == Places \ {"save", "submit", "submitJoin", "settled", "committed", "forgetStamp", "forgetCommit"}

LEMMA PlainSafe == ASSUME NEW t \in Tabs, tab'[t].at \in PlainPlaces PROVE RecordSafe(t)'
BY DEF RecordSafe, At, PlainPlaces

LEMMA SavingSafe ==
  ASSUME NEW t \in Tabs, tab'[t].at = "save", tab'[t].then \notin {"settled", "committed"}
  PROVE  RecordSafe(t)'
BY DEF RecordSafe, At

LEMMA RowPersists ==
  ASSUME NEW t \in Tabs, NEW m \in TabRow, NEW s, NEW then, Persists(t, m, s, then)
  PROVE  tab'[t].at = "save" /\ tab'[t].hand = s /\ tab'[t].then = then
BY DEF Persists, Stamped, TabRow

LEMMA MovesKind ==
  ASSUME IInv, NEW t \in Tabs, Kind(t), Holds(t) \/ (disk' = disk /\ log' = log /\ net' = net)
  PROVE  Moves(t)
<1>1. OthersKept(t) /\ Grows
  BY DEF Kind, Quiet, Persisted
<1>2. \A u \in Tabs : tab[u] \in TabRow
  BY Here
<1>. QED  BY <1>1, <1>2 DEF Moves, OthersKept, TabRow

\* A step of t that builds no Commit and writes no group.
LEMMA OwnKeeps ==
  ASSUME OwnInv, IInv', NEW t \in Tabs, Kind(t), Holds(t) \/ (disk' = disk /\ log' = log /\ net' = net),
         gaveUp \subseteq gaveUp', NEW pending, NEW join, DiskTo(t, pending, join), Known' \subseteq Known,
         NEW p, p = MyDisk(t).pending,
         \/ pending = p
         \/ /\ pending = NoCommit
            /\ \/ p = NoCommit \/ p \in gaveUp' \/ ~LandsThen(p)
               \/ MyDisk(t).state.epoch > p.epoch \/ p.life # MyDisk(t).life,
         join \in {MyDisk(t).join, NoCommit},
         \A c \in Known' : LandsThen(c) => Lands(c) \/ c.external \/ c = p,
         RecordSafe(t)'
  PROVE  OwnInv'
<1>1. IInv /\ RecordsOwned
  BY DEF OwnInv
<1>2. DeviceOf[t] \in Devices /\ MyDisk(t) = disk[DeviceOf[t]] /\ MyDisk(t).state.epoch \in Int
  BY <1>1, Here DEF DiskRow, Session
<1>3. Moves(t)
  BY <1>1, MovesKind
<1>4. Passes(t)
  BY <1>1, <1>2 DEF Passes, DiskTo, RecordsOwned
<1>. QED  BY <1>3, <1>4, OwnStays

\* A step of t on its row alone, to a place from which no record is let go.
LEMMA OwnRow ==
  ASSUME OwnInv, IInv', NEW t \in Tabs, Kind(t), Holds(t) \/ (disk' = disk /\ log' = log /\ net' = net),
         disk' = disk, log' = log, net' = net, gaveUp' = gaveUp, Known' \subseteq Known, RecordSafe(t)'
  PROVE  OwnInv'
<1>1. DiskTo(t, MyDisk(t).pending, MyDisk(t).join)
  BY SavesNothing DEF OwnInv
<1>2. PICK pending, join : pending = MyDisk(t).pending /\ join = MyDisk(t).join
  OBVIOUS
<1>3. \A c : LandsThen(c) => Lands(c)
  BY DEF LandsThen, Lands
<1>. QED  BY <1>1, <1>2, <1>3, OwnKeeps

LEMMA OwnRowAt ==
  ASSUME OwnInv, IInv', NEW t \in Tabs, Kind(t), ~At(t, "idle"), tab'[t].at \in PlainPlaces,
         disk' = disk, log' = log, net' = net, gaveUp' = gaveUp, built' = built
  PROVE  OwnInv'
<1>1. RecordSafe(t)' /\ Holds(t) /\ Types /\ Grows
  BY PlainSafe, AtWork DEF OwnInv, IInv, Kind
<1>2. Known' \subseteq Known
  BY <1>1, NoNewRecords
<1>. QED  BY <1>1, <1>2, OwnRow

\* A tab announces a group that settles no record.
LEMMA OwnSaves ==
  ASSUME OwnInv, IInv', NEW t \in Tabs, Kind(t), ~At(t, "idle"),
         NEW m \in TabRow, NEW s, NEW then, Persists(t, m, s, then), then \notin {"settled", "committed"},
         disk' = disk, log' = log, net' = net, gaveUp' = gaveUp, Known' \subseteq Known
  PROVE  OwnInv'
<1>1. RecordSafe(t)' /\ Holds(t)
  BY RowPersists, SavingSafe, AtWork DEF OwnInv
<1>. QED  BY <1>1, OwnRow

LEMMA OwnCrash == ASSUME OwnInv, IInv', NEW t \in Tabs, Crash(t) PROVE OwnInv'
<1>1. IInv /\ Kind(t) /\ Types
  BY CrashKind DEF OwnInv, IInv
<1>2. Becomes(t, FreshTab) /\ UNCHANGED <<disk, log, net, gaveUp, built>>
  BY DEF Crash, serverVars, historyVars
<1>3. tab'[t].at \in PlainPlaces
  BY <1>1, <1>2, SessionFacts, Becoming DEF PlainPlaces, Places
<1>4. RecordSafe(t)' /\ Known' \subseteq Known
  BY <1>1, <1>2, <1>3, PlainSafe, NoNewRecords DEF Kind
<1>. QED  BY <1>1, <1>2, <1>4, OwnRow

LEMMA OwnBegin == ASSUME OwnInv, IInv', NEW t \in Tabs, NEW task \in Tasks, Begin(t, task) PROVE OwnInv'
<1>1. IInv /\ Types /\ UNCHANGED <<disk, log, net, gaveUp, built>>
  BY DEF OwnInv, IInv, Begin, serverVars, historyVars
<1>2. Kind(t) /\ Holds(t) /\ tab'[t].at \in PlainPlaces
  BY <1>1, BeginKind DEF PlainPlaces, Places
<1>3. RecordSafe(t)' /\ Known' \subseteq Known
  BY <1>1, <1>2, PlainSafe, NoNewRecords DEF Kind
<1>. QED  BY <1>1, <1>2, <1>3, OwnRow

\* The record is dropped for a reason, and the tab goes on from a plain place.
LEMMA OwnDrops ==
  ASSUME OwnInv, IInv', NEW t \in Tabs, Kind(t), ~At(t, "idle"), RecordSafe(t)',
         Saves(t, "pending", NoCommit), gaveUp \subseteq gaveUp', built' = built, NEW p, p = MyDisk(t).pending,
         \/ p = NoCommit \/ p \in gaveUp' \/ ~LandsThen(p)
         \/ MyDisk(t).state.epoch > p.epoch \/ p.life # MyDisk(t).life,
         \A c \in Known' : LandsThen(c) => Lands(c) \/ c.external \/ c = p
  PROVE  OwnInv'
<1>1. IInv /\ Types /\ Grows /\ Holds(t)
  BY AtWork DEF OwnInv, IInv, Kind
<1>2. DiskTo(t, NoCommit, MyDisk(t).join)
  BY <1>1, SavesPending
<1>3. PICK join : join = MyDisk(t).join
  OBVIOUS
<1>4. Known' \subseteq Known
  BY <1>1, NoNewRecords
<1>. QED  BY <1>1, <1>2, <1>3, <1>4, OwnKeeps

\* A step of t that leaves its record.
LEMMA OwnKeepsRecord ==
  ASSUME OwnInv, IInv', NEW t \in Tabs, Kind(t), ~At(t, "idle"), disk' = disk \/ Saves(t, "join", NoCommit),
         gaveUp' = gaveUp, built' = built, \A c : LandsThen(c) => Lands(c) \/ c.external \/ c = MyDisk(t).pending,
         RecordSafe(t)'
  PROVE  OwnInv'
<1>1. IInv /\ Types /\ Grows /\ Holds(t)
  BY AtWork DEF OwnInv, IInv, Kind
<1>2. DiskTo(t, MyDisk(t).pending, MyDisk(t).join) \/ DiskTo(t, MyDisk(t).pending, NoCommit)
  BY <1>1, SavesNothing, SavesJoin
<1>3. PICK p, join : p = MyDisk(t).pending /\ join \in {MyDisk(t).join, NoCommit} /\ DiskTo(t, p, join)
  BY <1>2
<1>4. Known' \subseteq Known
  BY <1>1, NoNewRecords
<1>. QED  BY <1>1, <1>3, <1>4, OwnKeeps

\* A step of t that only goes on from one place to another.
LEMMA OwnGoesOn ==
  ASSUME OwnInv, IInv', NEW t \in Tabs, Kind(t), ~At(t, "idle"), NEW m \in TabRow, Becomes(t, m), m.at \in PlainPlaces,
         UNCHANGED <<disk, log, net, gaveUp, built>>
  PROVE  OwnInv'
<1>1. tab'[t] = m
  BY Becoming DEF OwnInv
<1>. QED  BY <1>1, OwnRowAt

LEMMA OwnFails ==
  ASSUME OwnInv, IInv', NEW t \in Tabs, Kind(t), ~At(t, "idle"), NEW m \in TabRow, Becomes(t, Failed(m)),
         UNCHANGED <<disk, log, net, gaveUp, built>>
  PROVE  OwnInv'
<1>1. Failed(m) \in TabRow /\ Failed(m).at \in PlainPlaces
  BY FailedRow DEF PlainPlaces, Places
<1>. QED  BY <1>1, OwnGoesOn

LEMMA OwnEnds ==
  ASSUME OwnInv, IInv', NEW t \in Tabs, Kind(t), ~At(t, "idle"), NEW m \in TabRow, NEW rest \in Seq(Tasks),
         Becomes(t, Done(m, rest)), UNCHANGED <<disk, log, net, gaveUp, built>>
  PROVE  OwnInv'
<1>1. Done(m, rest) \in TabRow /\ Done(m, rest).at \in PlainPlaces
  BY DoneRow DEF PlainPlaces, Places
<1>. QED  BY <1>1, OwnGoesOn

LEMMA OwnStageNothing == ASSUME OwnInv, IInv', NEW t \in Tabs, StageNothing(t) PROVE OwnInv'
<1>1. At(t, "work") /\ Becomes(t, Failed(tab[t])) /\ UNCHANGED <<disk, log, net, gaveUp, built>>
  BY DEF StageNothing, Works, serverVars, historyVars
<1>2. IInv /\ Kind(t) /\ ~At(t, "idle") /\ tab[t] \in TabRow
  BY <1>1, StageNothingKind, AtPlace, Here DEF OwnInv
<1>. QED  BY <1>1, <1>2, OwnFails

LEMMA OwnNoSnapshot == ASSUME OwnInv, IInv', NEW t \in Tabs, NoSnapshot(t) PROVE OwnInv'
<1>1. At(t, "look") /\ Becomes(t, Failed(tab[t])) /\ UNCHANGED <<disk, log, net, gaveUp, built>>
  BY DEF NoSnapshot, serverVars, historyVars
<1>2. IInv /\ Kind(t) /\ ~At(t, "idle") /\ tab[t] \in TabRow
  BY <1>1, NoSnapshotKind, AtPlace, Here DEF OwnInv
<1>. QED  BY <1>1, <1>2, OwnFails

LEMMA OwnLookHasState == ASSUME OwnInv, IInv', NEW t \in Tabs, LookHasState(t) PROVE OwnInv'
<1>. DEFINE m == [tab[t] EXCEPT !.cached = Current(t)]
<1>1. At(t, "look") /\ Becomes(t, Done(m, tab[t].rest)) /\ UNCHANGED <<disk, log, net, gaveUp, built>>
  BY DEF LookHasState, serverVars, historyVars
<1>2. IInv /\ Kind(t) /\ ~At(t, "idle") /\ ~At(t, "save") /\ ~At(t, "submit") /\ tab[t] \in TabRow
  BY <1>1, LookHasStateKind, AtPlace, Here DEF OwnInv
<1>3. Current(t) \in Session
  BY <1>2, CurrentIsSaved
<1>4. m \in TabRow /\ tab[t].rest \in Seq(Tasks)
  BY <1>2, <1>3 DEF TabRow
<1>. HIDE DEF m
<1>. QED  BY <1>1, <1>2, <1>4, OwnEnds

LEMMA OwnNoWelcome == ASSUME OwnInv, IInv', NEW t \in Tabs, NoWelcome(t) \/ ConsumeWelcome(t) PROVE OwnInv'
<1>1. /\ At(t, "welcome") \/ At(t, "consume")
      /\ Becomes(t, Done(tab[t], tab[t].rest)) /\ UNCHANGED <<disk, log, net, gaveUp, built>>
  BY DEF NoWelcome, ConsumeWelcome, serverVars, historyVars
<1>2. IInv /\ Kind(t) /\ ~At(t, "idle") /\ tab[t] \in TabRow
  BY <1>1, NoWelcomeKind, ConsumeWelcomeKind, AtPlace, Here DEF OwnInv
<1>3. tab[t].rest \in Seq(Tasks)
  BY <1>2 DEF TabRow
<1>. QED  BY <1>1, <1>2, <1>3, OwnEnds

LEMMA OwnSpends == ASSUME OwnInv, IInv', NEW t \in Tabs, SpendKeyPackage(t) PROVE OwnInv'
<1>. DEFINE m == [tab[t] EXCEPT !.refused = FALSE, !.at = "consume"]
<1>1. At(t, "spend") /\ Becomes(t, m) /\ UNCHANGED <<disk, log, net, gaveUp, built>>
  BY DEF SpendKeyPackage, serverVars, historyVars
<1>2. IInv /\ Kind(t) /\ ~At(t, "idle") /\ tab[t] \in TabRow
  BY <1>1, SpendKeyPackageKind, AtPlace, Here DEF OwnInv
<1>3. m \in TabRow /\ m.at \in PlainPlaces
  BY <1>2 DEF TabRow, PlainPlaces, Places
<1>. HIDE DEF m
<1>. QED  BY <1>1, <1>2, <1>3, OwnGoesOn

LEMMA OwnStaleWelcome == ASSUME OwnInv, IInv', NEW t \in Tabs, NEW w \in welcomes, StaleWelcome(t, w) PROVE OwnInv'
<1>. DEFINE m == [tab[t] EXCEPT !.cached = Current(t), !.hand = Joined(w), !.at = "consume"]
<1>1. At(t, "welcome") /\ Becomes(t, m) /\ UNCHANGED <<disk, log, net, gaveUp, built>>
  BY DEF StaleWelcome, serverVars, historyVars
<1>2. IInv /\ Kind(t) /\ ~At(t, "idle") /\ ~At(t, "save") /\ ~At(t, "submit") /\ tab[t] \in TabRow
  BY <1>1, StaleWelcomeKind, AtPlace, Here DEF OwnInv
<1>3. Current(t) \in Session /\ Joined(w) \in Session
  BY <1>2, CurrentIsSaved, WelcomeRows
<1>4. m \in TabRow /\ m.at \in PlainPlaces
  BY <1>2, <1>3 DEF TabRow, PlainPlaces, Places
<1>. HIDE DEF m
<1>. QED  BY <1>1, <1>2, <1>4, OwnGoesOn

LEMMA OwnEncrypt == ASSUME OwnInv, IInv', NEW t \in Tabs, Encrypt(t) PROVE OwnInv'
<1>. PICK s, m : s = [Current(t) EXCEPT !.gen = @ + 1] /\ m = tab[t]
  OBVIOUS
<1>1. /\ At(t, "work") /\ Persists(t, m, s, "sent")
      /\ UNCHANGED <<log, net, disk, gaveUp, built>>
  BY DEF Encrypt, Works, serverVars, historyVars
<1>2. IInv /\ Types /\ Kind(t) /\ Grows /\ ~At(t, "idle") /\ m \in TabRow
  BY <1>1, EncryptKind, AtPlace, Here DEF OwnInv, IInv, Kind
<1>3. Known' \subseteq Known
  BY <1>1, <1>2, NoNewRecords
<1>. QED  BY <1>1, <1>2, <1>3, OwnSaves

LEMMA OwnSync == ASSUME OwnInv, IInv', NEW t \in Tabs, SyncCommits(t) PROVE OwnInv'
<1>. DEFINE n == [tab[t] EXCEPT !.refused = FALSE]
<1>. PICK m, s : m = tab[t] /\ s = Post(log[Len(log)])
  OBVIOUS
<1>1. /\ At(t, "work") /\ UNCHANGED <<log, net, disk, gaveUp, built>>
      /\ \/ Becomes(t, Done(n, m.rest))
         \/ Persists(t, m, s, "synced")
         \/ Becomes(t, Refuses(m))
  BY DEF SyncCommits, Works, serverVars, historyVars
<1>2. IInv /\ Types /\ Kind(t) /\ Grows /\ ~At(t, "idle") /\ m \in TabRow
  BY <1>1, SyncCommitsKind, AtPlace, Here DEF OwnInv, IInv, Kind
<1>3. n \in TabRow /\ m.rest \in Seq(Tasks)
  BY <1>2 DEF TabRow
<1>. HIDE DEF n
<1>4. Known' \subseteq Known
  BY <1>1, <1>2, NoNewRecords
<1>5. Refuses(m) \in TabRow /\ Refuses(m).at \in PlainPlaces
  BY <1>2, RefusesRow DEF PlainPlaces, Places
<1>6. CASE Persists(t, m, s, "synced")
  BY <1>1, <1>2, <1>4, <1>6, OwnSaves
<1>. QED  BY <1>1, <1>2, <1>3, <1>5, <1>6, OwnEnds, OwnGoesOn

LEMMA OwnJoinFromWelcome ==
  ASSUME OwnInv, IInv', NEW t \in Tabs, NEW w \in welcomes, JoinFromWelcome(t, w)
  PROVE  OwnInv'
<1>. PICK m, s : m = tab[t] /\ s = Joined(w)
  OBVIOUS
<1>1. At(t, "welcome") /\ Persists(t, m, s, "spend") /\ UNCHANGED <<log, net, disk, gaveUp, built>>
  BY DEF JoinFromWelcome, serverVars, historyVars
<1>2. IInv /\ Types /\ Kind(t) /\ Grows /\ ~At(t, "idle") /\ m \in TabRow
  BY <1>1, JoinFromWelcomeKind, AtPlace, Here DEF OwnInv, IInv, Kind
<1>3. Known' \subseteq Known
  BY <1>1, <1>2, NoNewRecords
<1>. QED  BY <1>1, <1>2, <1>3, OwnSaves

LEMMA OwnCreateGroup == ASSUME OwnInv, IInv', NEW t \in Tabs, CreateGroup(t) PROVE OwnInv'
<1>. PICK m, s : m = tab[t] /\ s = [epoch |-> 0, tip |-> built + 1, gen |-> 0]
  OBVIOUS
<1>1. At(t, "create") /\ Persists(t, m, s, "created") /\ UNCHANGED <<log, net, disk, gaveUp>>
  BY DEF CreateGroup, serverVars, historyVars
<1>2. IInv /\ Kind(t) /\ ~At(t, "idle") /\ m \in TabRow
  BY <1>1, CreateGroupKind, AtPlace, Here DEF OwnInv
<1>3. Known' \subseteq Known
  BY <1>2, CreatesNoCommit
<1>. QED  BY <1>1, <1>2, <1>3, OwnSaves

\* A Commit that lost its epoch, or is refused now and is on no way, does not land.
LEMMA LostNeverLands == ASSUME Types, Records, NEW c \in Known, Answer(c) = "conflict" PROVE ~Lands(c)
<1>1. c.epoch < Len(log) /\ log[c.epoch + 1] # c
  BY DEF Answer
<1>2. c.epoch \in Nat /\ Len(log) \in Nat
  BY DEF Records, Types, TypeOK
<1>3. \A i \in DOMAIN log : log[i].epoch = i - 1 /\ i \in Int
  BY LogRows DEF Types, TypeOK
<1>. QED  BY <1>1, <1>2, <1>3 DEF Lands, LandsIn

LEMMA LandsLingers ==
  ASSUME Types, NEW e \in Commit, Lingers(e), log' = log, NEW c, LandsThen(c)
  PROVE  Lands(c) \/ c = e
<1>1. net' \subseteq net \cup {e}
  BY DEF Lingers
<1>. QED  BY <1>1, LandsNext

\* The record a tab looks at.
LEMMA RecordFacts ==
  ASSUME OwnInv, NEW t \in Tabs, HasRecord(t), NEW p, p = MyDisk(t).pending
  PROVE  /\ IInv /\ Types /\ Records /\ p # NoCommit /\ p \in Known /\ p \in Commit /\ p.epoch \in Nat
         /\ ~At(t, "idle") /\ ~At(t, "save") /\ ~At(t, "submit")
         /\ DeviceOf[t] \in Devices /\ disk[DeviceOf[t]] \in DiskRow /\ tab[t] \in TabRow
<1>1. At(t, "settle") /\ IInv /\ Types /\ Records
  BY DEF HasRecord, OwnInv, IInv
<1>2. p # NoCommit /\ DeviceOf[t] \in Devices /\ disk[DeviceOf[t]] \in DiskRow /\ tab[t] \in TabRow
  BY <1>1, Here DEF TabSafe
<1>3. p \in Known
  BY <1>2, RecordKnown
<1>. QED  BY <1>1, <1>2, <1>3, AtPlace DEF Records

LEMMA DropsRecordSafe ==
  ASSUME IInv, NEW t \in Tabs, DropsRecord(t)
  PROVE  RecordSafe(t)' /\ Saves(t, "pending", NoCommit)
<1>1. tab[t] \in TabRow /\ DeviceOf[t] \in Devices /\ disk[DeviceOf[t]] \in DiskRow
  BY Here
<1>2. PICK m : m = Opened(tab[t], DeviceOf[t])
  OBVIOUS
<1>3. m \in TabRow /\ m.at \in PlainPlaces
  BY <1>1, <1>2, OpenedRow DEF PlainPlaces, Places
<1>4. Becomes(t, m) /\ Saves(t, "pending", NoCommit)
  BY <1>2 DEF DropsRecord
<1>5. tab'[t] = m
  BY <1>3, <1>4, Becoming
<1>. QED  BY <1>3, <1>4, <1>5, PlainSafe

LEMMA OwnDropOldRecord == ASSUME OwnInv, IInv', NEW t \in Tabs, DropOldRecord(t) PROVE OwnInv'
<1>. PICK p : p = MyDisk(t).pending
  OBVIOUS
<1>1. /\ HasRecord(t) /\ Current(t).epoch # p.epoch /\ DropsRecord(t)
      /\ gaveUp' = gaveUp \cup {c \in {p} : MyDisk(t).state.epoch < c.epoch}
      /\ UNCHANGED <<log, net, built>>
  BY DEF DropOldRecord, serverVars
<1>2. IInv /\ p.epoch \in Nat /\ ~At(t, "idle") /\ ~At(t, "save") /\ ~At(t, "submit")
  BY <1>1, RecordFacts
<1>3. Kind(t) /\ RecordSafe(t)' /\ Saves(t, "pending", NoCommit)
  BY <1>1, <1>2, DropOldRecordKind, DropsRecordSafe
<1>4. MyDisk(t).state \in Session /\ MyDisk(t).state.epoch \in Int
  BY <1>2, Here DEF DiskRow, Session
<1>5. p \in gaveUp' \/ MyDisk(t).state.epoch > p.epoch
  <2>1. MyDisk(t).state = NoSession => MyDisk(t).state.epoch < p.epoch
    BY <1>2, SessionFacts
  <2>2. MyDisk(t).state # NoSession => MyDisk(t).state.epoch # p.epoch
    BY <1>1, <1>2, CurrentIsSaved
  <2>. QED  BY <1>1, <1>2, <1>4, <2>1, <2>2
<1>6. \A c : LandsThen(c) => Lands(c)
  BY <1>1 DEF LandsThen, Lands
<1>. QED  BY <1>1, <1>2, <1>3, <1>5, <1>6, OwnDrops

\* The record stays until the state after its Commit is saved.
LEMMA OwnAdopts ==
  ASSUME OwnInv, IInv', NEW t \in Tabs, Kind(t), ~At(t, "idle"), NEW p, p = MyDisk(t).pending, p \in Known,
         NEW then, Adopts(t, p, then), disk' = disk, gaveUp' = gaveUp, built' = built,
         \A c : LandsThen(c) => Lands(c) \/ c.external \/ c = p
  PROVE  OwnInv'
<1>1. tab[t] \in TabRow /\ p.epoch \in Nat
  BY Here DEF OwnInv, IInv, Records
<1>2. PICK m, s : m = tab[t] /\ s = Post(p)
  OBVIOUS
<1>3. tab'[t].at = "save" /\ tab'[t].hand = s
  BY <1>1, <1>2, RowPersists DEF Adopts
<1>4. s.epoch > p.epoch
  BY <1>1, <1>2 DEF Post
<1>5. MyDisk(t)' = MyDisk(t)
  BY DEF MyDisk
<1>6. RecordSafe(t)'
  BY <1>3, <1>4, <1>5 DEF RecordSafe, At
<1>. QED  BY <1>6, OwnKeepsRecord

LEMMA OwnResubmit == ASSUME OwnInv, IInv', NEW t \in Tabs, Resubmit(t) PROVE OwnInv'
<1>. PICK p : p = MyDisk(t).pending
  OBVIOUS
<1>1. /\ HasRecord(t) /\ Delivered(p) /\ UNCHANGED <<net, built>>
      /\ \/ ServerHas(p) /\ Adopts(t, p, "settled") /\ disk' = disk /\ gaveUp' = gaveUp
         \/ ~ServerHas(p) /\ DropsRecord(t) /\ GivesUp(p, Answer(p))
  BY DEF Resubmit, Adopts
<1>2. IInv /\ Types /\ Records /\ p \in Known /\ p \in Commit /\ ~At(t, "idle")
  BY <1>1, RecordFacts
<1>3. \A c : LandsThen(c) => Lands(c) \/ c.external \/ c = p
  BY <1>1, <1>2, LandsDelivered
<1>4. Kind(t)
  BY <1>2, ResubmitKind
<1>5. CASE ServerHas(p) /\ Adopts(t, p, "settled") /\ disk' = disk /\ gaveUp' = gaveUp
  BY <1>1, <1>2, <1>3, <1>4, <1>5, OwnAdopts
<1>6. CASE ~ServerHas(p) /\ DropsRecord(t) /\ GivesUp(p, Answer(p))
  <2>1. RecordSafe(t)' /\ Saves(t, "pending", NoCommit)
    BY <1>2, <1>6, DropsRecordSafe
  <2>2. gaveUp \subseteq gaveUp' /\ (p \in gaveUp' \/ Answer(p) = "conflict")
    BY <1>6 DEF GivesUp
  <2>3. Answer(p) = "conflict" => ~LandsThen(p)
    <3>1. Answer(p) = "conflict" => log' = log
      BY <1>1 DEF Delivered, serverVars
    <3>. QED  BY <1>1, <1>2, <3>1, LostNeverLands, LandsStays
  <2>. QED  BY <1>1, <1>2, <1>3, <1>4, <2>1, <2>2, <2>3, OwnDrops
<1>. QED  BY <1>1, <1>5, <1>6

LEMMA OwnResubmitLost == ASSUME OwnInv, IInv', NEW t \in Tabs, ResubmitLost(t) PROVE OwnInv'
<1>. PICK p : p = MyDisk(t).pending
  OBVIOUS
<1>1. /\ HasRecord(t) /\ Lingers(p) /\ UNCHANGED <<log, built>>
      /\ \/ Adopts(t, p, "settled") /\ disk' = disk /\ gaveUp' = gaveUp
         \/ DropsRecord(t) /\ GivesUp(p, "none")
         \/ Becomes(t, Failed(tab[t])) /\ disk' = disk /\ gaveUp' = gaveUp
  BY DEF ResubmitLost, serverVars, Adopts
<1>2. IInv /\ Types /\ Records /\ p \in Known /\ p \in Commit /\ ~At(t, "idle") /\ tab[t] \in TabRow
  BY <1>1, RecordFacts
<1>3. \A c : LandsThen(c) => Lands(c) \/ c.external \/ c = p
  BY <1>1, <1>2, LandsLingers
<1>4. Kind(t)
  BY <1>2, ResubmitLostKind
<1>5. CASE Adopts(t, p, "settled") /\ disk' = disk /\ gaveUp' = gaveUp
  BY <1>1, <1>2, <1>3, <1>4, <1>5, OwnAdopts
<1>6. CASE DropsRecord(t) /\ GivesUp(p, "none")
  <2>1. RecordSafe(t)' /\ Saves(t, "pending", NoCommit)
    BY <1>2, <1>6, DropsRecordSafe
  <2>2. gaveUp \subseteq gaveUp' /\ p \in gaveUp'
    BY <1>6 DEF GivesUp
  <2>. QED  BY <1>1, <1>2, <1>3, <1>4, <2>1, <2>2, OwnDrops
<1>7. CASE Becomes(t, Failed(tab[t])) /\ disk' = disk /\ gaveUp' = gaveUp
  <2>1. Failed(tab[t]) \in TabRow /\ Failed(tab[t]).at \in PlainPlaces
    BY <1>2, FailedRow DEF PlainPlaces, Places
  <2>2. tab'[t].at \in PlainPlaces
    BY <1>2, <1>7, <2>1, Becoming
  <2>3. RecordSafe(t)'
    BY <2>2, PlainSafe
  <2>. QED  BY <1>1, <1>2, <1>3, <1>4, <1>7, <2>3, OwnKeepsRecord
<1>. QED  BY <1>1, <1>5, <1>6, <1>7

LEMMA OwnDiscardRecord == ASSUME OwnInv, IInv', NEW t \in Tabs, DiscardRecord(t) PROVE OwnInv'
<1>. PICK p : p = MyDisk(t).pending
  OBVIOUS
<1>. DEFINE r == [tab[t] EXCEPT !.known = TRUE]
            m == IF At(t, "settled") THEN Opened(r, DeviceOf[t]) ELSE Done(r, r.rest)
<1>1. /\ At(t, "settled") \/ At(t, "committed")
      /\ Saves(t, "pending", NoCommit) /\ Becomes(t, m) /\ UNCHANGED <<log, net, gaveUp, built>>
  BY DEF DiscardRecord, serverVars, historyVars, At
<1>2. /\ IInv /\ ~At(t, "idle") /\ DeviceOf[t] \in Devices /\ disk[DeviceOf[t]] \in DiskRow
      /\ r \in TabRow /\ r.rest \in Seq(Tasks)
  BY <1>1, AtPlace, Here DEF OwnInv, TabRow
<1>3. m \in TabRow /\ m.at \in PlainPlaces
  <2>. HIDE DEF r
  <2>. QED  BY <1>2, OpenedRow, DoneRow DEF PlainPlaces, Places
<1>. HIDE DEF m, r
<1>4. tab'[t].at \in PlainPlaces
  BY <1>1, <1>2, <1>3, Becoming
<1>5. RecordSafe(t)' /\ Kind(t)
  BY <1>2, <1>4, PlainSafe, DiscardRecordKind
<1>6. p = NoCommit \/ MyDisk(t).state.epoch > p.epoch
  BY <1>1 DEF OwnInv, RecordSafe
<1>7. \A c : LandsThen(c) => Lands(c)
  BY <1>1 DEF LandsThen, Lands
<1>. QED  BY <1>1, <1>2, <1>5, <1>6, <1>7, OwnDrops

\* A tab that waits for the answer to its Commit has it on disk, and not in the log.
LEMMA SubmittedFacts ==
  ASSUME OwnInv, NEW t \in Tabs, At(t, "submit"), NEW p, p = MyDisk(t).pending
  PROVE  /\ IInv /\ Types /\ Records /\ p = tab[t].commit /\ ~Lands(p) /\ p \in Known /\ p \in Commit
         /\ ~At(t, "idle") /\ tab[t] \in TabRow
BY SubmitFits, Here DEF OwnInv, IInv, RecordSafe

LEMMA OwnSubmitAccepted == ASSUME OwnInv, IInv', NEW t \in Tabs, SubmitAccepted(t) PROVE OwnInv'
<1>. PICK p : p = MyDisk(t).pending
  OBVIOUS
<1>1. At(t, "submit") /\ Delivered(tab[t].commit) /\ Adopts(t, tab[t].commit, "committed")
      /\ UNCHANGED <<net, disk, gaveUp, built>>
  BY DEF SubmitAccepted, historyVars, Adopts
<1>2. IInv /\ Types /\ p = tab[t].commit /\ p \in Known /\ p \in Commit /\ ~At(t, "idle")
  BY <1>1, SubmittedFacts
<1>3. Kind(t) /\ Delivered(p) /\ Adopts(t, p, "committed")
  BY <1>1, <1>2, SubmitAcceptedKind
<1>4. \A c : LandsThen(c) => Lands(c) \/ c.external \/ c = p
  BY <1>1, <1>2, <1>3, LandsDelivered
<1>. QED  BY <1>1, <1>2, <1>3, <1>4, OwnAdopts

LEMMA OwnSubmitRefused == ASSUME OwnInv, IInv', NEW t \in Tabs, SubmitRefused(t) PROVE OwnInv'
<1>. PICK p : p = MyDisk(t).pending
  OBVIOUS
<1>. DEFINE m == [Dropped(tab[t]) EXCEPT !.known = TRUE]
<1>1. /\ At(t, "submit") /\ Saves(t, "pending", NoCommit) /\ Becomes(t, Failed(m))
      /\ UNCHANGED <<log, net, gaveUp, built>>
  BY DEF SubmitRefused, serverVars, historyVars
<1>2. IInv /\ ~Lands(p) /\ ~At(t, "idle") /\ tab[t] \in TabRow
  BY <1>1, SubmittedFacts
<1>3. m \in TabRow
  BY <1>2, DroppedKnownRow
<1>. HIDE DEF m
<1>4. Failed(m) \in TabRow /\ Failed(m).at \in PlainPlaces
  BY <1>3, FailedRow DEF PlainPlaces, Places
<1>5. tab'[t].at \in PlainPlaces
  BY <1>1, <1>2, <1>4, Becoming
<1>6. RecordSafe(t)' /\ Kind(t)
  BY <1>2, <1>5, PlainSafe, SubmitRefusedKind
<1>7. \A c : LandsThen(c) => Lands(c)
  BY <1>1 DEF LandsThen, Lands
<1>. QED  BY <1>1, <1>2, <1>6, <1>7, OwnDrops

LEMMA OwnSubmitConflict == ASSUME OwnInv, IInv', NEW t \in Tabs, SubmitConflict(t) PROVE OwnInv'
<1>. PICK p, winner : p = MyDisk(t).pending /\ winner = log[tab[t].commit.epoch + 1]
  OBVIOUS
<1>. DEFINE m == [Dropped(tab[t]) EXCEPT !.known = TRUE]
            wipe == [m EXCEPT !.task = "forget", !.at = "forget", !.rest = <<"welcome", "join">> \o m.rest]
<1>1. /\ At(t, "submit") /\ Saves(t, "pending", NoCommit) /\ UNCHANGED <<log, net, gaveUp, built>>
      /\ \/ Becomes(t, wipe)
         \/ Persists(t, m, Post(winner), "raceLost")
         \/ Becomes(t, Refuses(m))
  BY DEF SubmitConflict, serverVars, historyVars
<1>2. IInv /\ ~Lands(p) /\ ~At(t, "idle") /\ tab[t] \in TabRow
  BY <1>1, SubmittedFacts
<1>3. m \in TabRow
  BY <1>2, DroppedKnownRow
<1>4. wipe \in TabRow /\ wipe.at \in PlainPlaces
  <2>1. <<"welcome", "join">> \o m.rest \in Seq(Tasks)
    BY <1>3 DEF TabRow, Tasks
  <2>2. wipe \in TabRow /\ wipe.at = "forget"
    <3>. HIDE DEF m
    <3>. QED  BY <1>3, <2>1 DEF TabRow, Places, Tasks
  <2>3. "forget" \in PlainPlaces
    BY DEF PlainPlaces, Places
  <2>. QED  BY <2>2, <2>3
<1>. HIDE DEF wipe, m
<1>5. Refuses(m) \in TabRow /\ Refuses(m).at \in PlainPlaces
  BY <1>3, RefusesRow DEF PlainPlaces, Places
<1>6. PICK s : s = Post(winner)
  OBVIOUS
<1>7. tab'[t].at \in PlainPlaces \/ (tab'[t].at = "save" /\ tab'[t].then = "raceLost")
  <2>1. CASE Becomes(t, wipe) \/ Becomes(t, Refuses(m))
    BY <1>2, <1>4, <1>5, <2>1, Becoming
  <2>2. CASE Persists(t, m, s, "raceLost")
    BY <1>3, <2>2, RowPersists
  <2>. QED  BY <1>1, <1>6, <2>1, <2>2
<1>8. RecordSafe(t)' /\ Kind(t)
  BY <1>2, <1>7, PlainSafe, SavingSafe, SubmitConflictKind
<1>9. \A c : LandsThen(c) => Lands(c)
  BY <1>1 DEF LandsThen, Lands
<1>. QED  BY <1>1, <1>2, <1>8, <1>9, OwnDrops

LEMMA OwnSubmitLost == ASSUME OwnInv, IInv', NEW t \in Tabs, SubmitLost(t) PROVE OwnInv'
<1>. PICK p : p = MyDisk(t).pending
  OBVIOUS
<1>. DEFINE m == Dropped(tab[t])
<1>1. /\ At(t, "submit") /\ Lingers(tab[t].commit) /\ Becomes(t, Failed(m)) /\ UNCHANGED <<log, disk, gaveUp, built>>
  BY DEF SubmitLost, serverVars, historyVars
<1>2. IInv /\ Types /\ p = tab[t].commit /\ p \in Commit /\ ~At(t, "idle") /\ tab[t] \in TabRow
  BY <1>1, SubmittedFacts
<1>3. m \in TabRow
  BY <1>2, DroppedRow
<1>. HIDE DEF m
<1>4. Failed(m) \in TabRow /\ Failed(m).at \in PlainPlaces
  BY <1>3, FailedRow DEF PlainPlaces, Places
<1>5. tab'[t].at \in PlainPlaces
  BY <1>1, <1>2, <1>4, Becoming
<1>6. RecordSafe(t)' /\ Kind(t) /\ Lingers(p)
  BY <1>1, <1>2, <1>5, PlainSafe, SubmitLostKind
<1>7. \A c : LandsThen(c) => Lands(c) \/ c.external \/ c = p
  BY <1>1, <1>2, <1>6, LandsLingers
<1>. QED  BY <1>1, <1>2, <1>6, <1>7, OwnKeepsRecord

\* A join is sent, or settled: no record of a Commit goes.
LEMMA OwnJoins ==
  ASSUME OwnInv, IInv', NEW t \in Tabs, Kind(t), ~At(t, "idle"), NEW e \in Commit, e.external,
         (Delivered(e) /\ net' = net) \/ (Lingers(e) /\ log' = log),
         disk' = disk \/ Saves(t, "join", NoCommit), gaveUp' = gaveUp, built' = built, RecordSafe(t)'
  PROVE  OwnInv'
<1>1. Types
  BY DEF OwnInv, IInv
<1>2. \A c : LandsThen(c) => Lands(c) \/ c.external
  BY <1>1, LandsDelivered, LandsLingers
<1>. QED  BY <1>2, OwnKeepsRecord

\* The join a tab looks at.
LEMMA JoinFacts ==
  ASSUME OwnInv, NEW t \in Tabs, HasJoin(t), NEW e, e = MyDisk(t).join
  PROVE  /\ IInv /\ e \in Commit /\ e.external /\ ~At(t, "idle") /\ tab[t] \in TabRow
         /\ At(t, "open") \/ At(t, "look")
<1>1. IInv /\ e # NoCommit /\ DeviceOf[t] \in Devices /\ tab[t] \in TabRow /\ e \in Known /\ ~At(t, "idle")
  BY JoinFits, Here DEF OwnInv, HasJoin
<1>2. e.external /\ e \in Commit
  BY <1>1 DEF OwnInv, RecordsOwned, MyDisk, IInv, Records
<1>. QED  BY <1>1, <1>2 DEF HasJoin, At

LEMMA AdoptsJoinRecord ==
  ASSUME IInv, NEW t \in Tabs, tab[t] \in TabRow, AdoptsJoin(t)
  PROVE  RecordSafe(t)' /\ disk' = disk
<1>1. PICK m, s, then : m = tab[t] /\ s = Post(MyDisk(t).join) /\ then = (IF At(t, "open") THEN "rejoined" ELSE "joined")
  OBVIOUS
<1>2. Persists(t, m, s, then) /\ disk' = disk
  BY <1>1 DEF AdoptsJoin
<1>3. tab'[t].at = "save" /\ tab'[t].then = then
  BY <1>1, <1>2, RowPersists
<1>. QED  BY <1>1, <1>2, <1>3, SavingSafe

LEMMA DropsJoinRecord ==
  ASSUME IInv, NEW t \in Tabs, tab[t] \in TabRow, At(t, "open") \/ At(t, "look"), DropsJoin(t)
  PROVE  RecordSafe(t)' /\ Saves(t, "join", NoCommit)
<1>1. NoGroup(tab[t]) \in TabRow /\ NoGroup(tab[t]).at \in PlainPlaces /\ (At(t, "look") => tab[t].at \in PlainPlaces)
  BY NoGroupRow DEF PlainPlaces, Places, At
<1>2. PICK m : m = (IF At(t, "open") THEN NoGroup(tab[t]) ELSE tab[t])
  OBVIOUS
<1>3. m \in TabRow /\ m.at \in PlainPlaces /\ Becomes(t, m) /\ Saves(t, "join", NoCommit)
  BY <1>1, <1>2 DEF DropsJoin
<1>4. tab'[t] = m
  BY <1>3, Becoming
<1>. QED  BY <1>3, <1>4, PlainSafe

LEMMA OwnResolveJoin == ASSUME OwnInv, IInv', NEW t \in Tabs, ResolveJoin(t) PROVE OwnInv'
<1>. PICK e : e = MyDisk(t).join
  OBVIOUS
<1>1. HasJoin(t) /\ Delivered(e) /\ (AdoptsJoin(t) \/ DropsJoin(t)) /\ UNCHANGED <<net, gaveUp, built>>
  BY DEF ResolveJoin, historyVars
<1>2. /\ IInv /\ e \in Commit /\ e.external /\ ~At(t, "idle") /\ tab[t] \in TabRow
      /\ At(t, "open") \/ At(t, "look")
  BY <1>1, JoinFacts
<1>3. RecordSafe(t)' /\ (disk' = disk \/ Saves(t, "join", NoCommit))
  BY <1>1, <1>2, AdoptsJoinRecord, DropsJoinRecord
<1>4. Kind(t)
  BY <1>2, ResolveJoinKind
<1>. QED  BY <1>1, <1>2, <1>3, <1>4, OwnJoins

LEMMA OwnResolveJoinLost == ASSUME OwnInv, IInv', NEW t \in Tabs, ResolveJoinLost(t) PROVE OwnInv'
<1>. PICK e, m : e = MyDisk(t).join /\ m = (IF At(t, "open") THEN NoGroup(tab[t]) ELSE Failed(tab[t]))
  OBVIOUS
<1>1. /\ HasJoin(t) /\ Lingers(e) /\ UNCHANGED <<log, gaveUp, built>>
      /\ AdoptsJoin(t) \/ DropsJoin(t) \/ (Becomes(t, m) /\ disk' = disk)
  BY DEF ResolveJoinLost, serverVars, historyVars
<1>2. /\ IInv /\ e \in Commit /\ e.external /\ ~At(t, "idle") /\ tab[t] \in TabRow
      /\ At(t, "open") \/ At(t, "look")
  BY <1>1, JoinFacts
<1>3. Becomes(t, m) => RecordSafe(t)'
  <2>1. m \in TabRow /\ m.at \in PlainPlaces
    BY <1>2, NoGroupRow, FailedRow DEF PlainPlaces, Places
  <2>. QED  BY <1>2, <2>1, Becoming, PlainSafe
<1>4. RecordSafe(t)' /\ (disk' = disk \/ Saves(t, "join", NoCommit))
  BY <1>1, <1>2, <1>3, AdoptsJoinRecord, DropsJoinRecord
<1>5. Kind(t)
  BY <1>2, ResolveJoinLostKind
<1>. QED  BY <1>1, <1>2, <1>4, <1>5, OwnJoins

\* A tab that waits for the answer to its join.
LEMMA JoiningFacts ==
  ASSUME OwnInv, NEW t \in Tabs, At(t, "submitJoin"), NEW e, e = tab[t].commit
  PROVE  IInv /\ e \in Commit /\ e.external /\ ~At(t, "idle") /\ tab[t] \in TabRow /\ tab[t].rest \in Seq(Tasks)
<1>1. IInv /\ tab[t] \in TabRow /\ e # NoCommit /\ e.external /\ ~At(t, "idle")
  BY Here, AtPlace DEF OwnInv, RecordSafe, TabSafe
<1>. QED  BY <1>1 DEF TabRow

LEMMA OwnSubmitJoin == ASSUME OwnInv, IInv', NEW t \in Tabs, SubmitJoin(t) PROVE OwnInv'
<1>. PICK e, m, s : e = tab[t].commit /\ m = tab[t] /\ s = Post(tab[t].commit)
  OBVIOUS
<1>1. /\ At(t, "submitJoin") /\ Delivered(e) /\ UNCHANGED <<net, gaveUp, built>>
      /\ \/ Persists(t, m, s, "joined") /\ disk' = disk
         \/ Saves(t, "join", NoCommit) /\ Becomes(t, Done(m, m.rest))
  BY DEF SubmitJoin, historyVars
<1>2. IInv /\ e \in Commit /\ e.external /\ ~At(t, "idle") /\ m \in TabRow /\ m.rest \in Seq(Tasks)
  BY <1>1, JoiningFacts
<1>3. Done(m, m.rest) \in TabRow /\ Done(m, m.rest).at \in PlainPlaces
  BY <1>2, DoneRow DEF PlainPlaces, Places
<1>4. RecordSafe(t)' /\ (disk' = disk \/ Saves(t, "join", NoCommit))
  <2>1. CASE Persists(t, m, s, "joined") /\ disk' = disk
    <3>1. tab'[t].at = "save" /\ tab'[t].then = "joined"
      BY <1>2, <2>1, RowPersists
    <3>. QED  BY <2>1, <3>1, SavingSafe
  <2>2. CASE Saves(t, "join", NoCommit) /\ Becomes(t, Done(m, m.rest))
    BY <1>2, <1>3, <2>2, Becoming, PlainSafe
  <2>. QED  BY <1>1, <2>1, <2>2
<1>5. Kind(t)
  BY <1>2, SubmitJoinKind
<1>. QED  BY <1>1, <1>2, <1>4, <1>5, OwnJoins

LEMMA OwnSubmitJoinLost == ASSUME OwnInv, IInv', NEW t \in Tabs, SubmitJoinLost(t) PROVE OwnInv'
<1>. PICK e : e = tab[t].commit
  OBVIOUS
<1>1. At(t, "submitJoin") /\ Lingers(e) /\ Becomes(t, Failed(tab[t])) /\ UNCHANGED <<log, disk, gaveUp, built>>
  BY DEF SubmitJoinLost, serverVars, historyVars
<1>2. IInv /\ e \in Commit /\ e.external /\ ~At(t, "idle") /\ tab[t] \in TabRow
  BY <1>1, JoiningFacts
<1>3. Failed(tab[t]) \in TabRow /\ Failed(tab[t]).at \in PlainPlaces
  BY <1>2, FailedRow DEF PlainPlaces, Places
<1>4. RecordSafe(t)' /\ Kind(t)
  BY <1>1, <1>2, <1>3, Becoming, PlainSafe, SubmitJoinLostKind
<1>. QED  BY <1>1, <1>2, <1>4, OwnJoins

LEMMA OwnDiscardJoin == ASSUME OwnInv, IInv', NEW t \in Tabs, DiscardJoin(t) PROVE OwnInv'
<1>. DEFINE r == [tab[t] EXCEPT !.refused = FALSE]
            m == IF At(t, "rejoined") THEN Ready(r) ELSE Done(r, r.rest)
<1>1. /\ At(t, "rejoined") \/ At(t, "joined")
      /\ Saves(t, "join", NoCommit) /\ Becomes(t, m) /\ UNCHANGED <<log, net, gaveUp, built>>
  BY DEF DiscardJoin, serverVars, historyVars, At
<1>2. IInv /\ ~At(t, "idle") /\ r \in TabRow /\ r.rest \in Seq(Tasks)
  BY <1>1, AtPlace, Here DEF OwnInv, TabRow
<1>3. m \in TabRow /\ m.at \in PlainPlaces
  <2>. HIDE DEF r
  <2>. QED  BY <1>2, ReadyRow, DoneRow DEF PlainPlaces, Places
<1>. HIDE DEF m, r
<1>4. RecordSafe(t)' /\ Kind(t)
  BY <1>1, <1>2, <1>3, Becoming, PlainSafe, DiscardJoinKind
<1>5. \A c : LandsThen(c) => Lands(c)
  BY <1>1 DEF LandsThen, Lands
<1>. QED  BY <1>1, <1>2, <1>4, <1>5, OwnKeepsRecord

LEMMA OwnForgetJoin == ASSUME OwnInv, IInv', NEW t \in Tabs, ForgetJoin(t) PROVE OwnInv'
<1>. DEFINE r == [tab[t] EXCEPT !.refused = @ /\ tab[t].task = "recover"]
            m == Done(r, r.rest)
<1>1. /\ At(t, "forgetJoin") /\ Saves(t, "join", NoCommit) /\ Becomes(t, m)
      /\ UNCHANGED <<log, net, gaveUp, built>>
  BY DEF ForgetJoin, serverVars, historyVars
<1>2. IInv /\ ~At(t, "idle") /\ r \in TabRow /\ r.rest \in Seq(Tasks)
  BY <1>1, AtPlace, Here DEF OwnInv, TabRow
<1>3. m \in TabRow /\ m.at \in PlainPlaces
  <2>. HIDE DEF r
  <2>. QED  BY <1>2, DoneRow DEF PlainPlaces, Places
<1>. HIDE DEF m, r
<1>4. RecordSafe(t)' /\ Kind(t)
  BY <1>1, <1>2, <1>3, Becoming, PlainSafe, ForgetJoinKind
<1>5. \A c : LandsThen(c) => Lands(c)
  BY <1>1 DEF LandsThen, Lands
<1>. QED  BY <1>1, <1>2, <1>4, <1>5, OwnKeepsRecord

LEMMA OwnForgetCommit == ASSUME OwnInv, IInv', NEW t \in Tabs, ForgetCommit(t) PROVE OwnInv'
<1>. PICK p : p = MyDisk(t).pending
  OBVIOUS
<1>. DEFINE m == [tab[t] EXCEPT !.known = TRUE, !.at = "forgetJoin"]
<1>1. /\ At(t, "forgetCommit") /\ Saves(t, "pending", NoCommit) /\ Becomes(t, m)
      /\ UNCHANGED <<log, net, gaveUp, built>>
  BY DEF ForgetCommit, serverVars, historyVars
<1>2. IInv /\ ~At(t, "idle") /\ tab[t] \in TabRow /\ MyDisk(t).life \in Nat
  BY <1>1, AtPlace, Here DEF OwnInv, DiskRow
<1>3. m \in TabRow /\ m.at \in PlainPlaces
  BY <1>2 DEF TabRow, PlainPlaces, Places
<1>. HIDE DEF m
<1>4. RecordSafe(t)' /\ Kind(t)
  BY <1>1, <1>2, <1>3, Becoming, PlainSafe, ForgetCommitKind
<1>5. p = NoCommit \/ p.life # MyDisk(t).life
  <2>1. p # NoCommit => p.life < MyDisk(t).life
    BY <1>1 DEF OwnInv, RecordSafe
  <2>2. p # NoCommit => p.life \in Nat
    BY Here, <1>2 DEF DiskRow, Commit
  <2>. QED  BY <1>2, <2>1, <2>2
<1>6. \A c : LandsThen(c) => Lands(c)
  BY <1>1 DEF LandsThen, Lands
<1>. QED  BY <1>1, <1>2, <1>4, <1>5, <1>6, OwnDrops

LEMMA OwnForgetStamp == ASSUME OwnInv, IInv', NEW t \in Tabs, ForgetStamp(t) PROVE OwnInv'
<1>. PICK m : m = [tab[t] EXCEPT !.at = "forgetCommit"]
  OBVIOUS
<1>1. At(t, "forgetStamp") /\ Stamped(t, m) /\ UNCHANGED <<disk, log, net, gaveUp, built>>
  BY DEF ForgetStamp, serverVars, historyVars
<1>2. IInv /\ ~At(t, "idle") /\ tab[t] \in TabRow
  BY <1>1, AtPlace, Here DEF OwnInv
<1>3. m \in TabRow /\ m.at = "forgetCommit"
  BY <1>2 DEF TabRow, Places
<1>4. tab'[t].at = "forgetCommit"
  BY <1>1, <1>2, <1>3, Stamping
<1>5. MyDisk(t)' = MyDisk(t) /\ (MyDisk(t).pending # NoCommit => MyDisk(t).pending.life < MyDisk(t).life)
  BY <1>1 DEF MyDisk, OwnInv, RecordSafe
<1>6. RecordSafe(t)'
  BY <1>4, <1>5 DEF RecordSafe, At
<1>7. Kind(t) /\ \A c : LandsThen(c) => Lands(c)
  BY <1>1, <1>2, ForgetStampKind DEF LandsThen, Lands
<1>. QED  BY <1>1, <1>2, <1>6, <1>7, OwnKeepsRecord

\* A wipe starts another life: the records of the one before settle nothing any more.
LEMMA OwnForgetState == ASSUME OwnInv, IInv', NEW t \in Tabs, ForgetState(t) PROVE OwnInv'
<1>. PICK d, n, p : d = DeviceOf[t] /\ n = MyDisk(t).life + 1 /\ p = MyDisk(t).pending
  OBVIOUS
<1>. DEFINE r == Dropped(tab[t])
            m == [r EXCEPT !.at = "forgetStamp"]
<1>1. /\ At(t, "forget") /\ Becomes(t, m) /\ Writes(t, NoSession, n)
      /\ UNCHANGED <<log, welcomes, net, gaveUp, built>>
  BY Here DEF OwnInv, ForgetState, MyDisk, serverVars, historyVars, Writes
<1>2. IInv /\ Types /\ Records /\ tab[t] \in TabRow /\ d \in Devices /\ MyDisk(t) = disk[d] /\ disk[d].life \in Nat
  BY Here DEF OwnInv, IInv, DiskRow
<1>3. r \in TabRow /\ r.commit = tab[t].commit
  BY <1>2, DroppedRow
<1>4. m \in TabRow /\ m.at = "forgetStamp" /\ m.commit = tab[t].commit
  <2>. HIDE DEF r
  <2>. QED  BY <1>3 DEF TabRow, Places
<1>. HIDE DEF m, r
<1>5. /\ disk' \in [Devices -> DiskRow] /\ disk'[d].life = n
      /\ \A e \in Devices : e # d => disk'[e] = disk[e]
      /\ \A e \in Devices : disk'[e].pending = disk[e].pending /\ disk'[e].join = disk[e].join
  BY <1>1, <1>2, SessionFacts, WritesGroup
<1>6. tab' \in [Tabs -> TabRow] /\ tab'[t] = m /\ \A u \in Tabs : u # t => tab'[u] = tab[u]
  BY <1>1, <1>2, <1>4, Becoming
<1>7. Grows /\ Known' \subseteq Known
  BY <1>1, <1>2, <1>4, <1>5, <1>6, GrowsStill
<1>8. Moves(t)
  BY <1>1, <1>2, <1>6, <1>7, AtPlace, AtWork DEF Moves
<1>9. n > disk[d].life /\ (p # NoCommit => p \in Known /\ p.by = d /\ ~p.external /\ p.life <= disk[d].life /\ p.life \in Nat)
  <2>1. p # NoCommit => p \in Known /\ p.by = d /\ ~p.external
    BY <1>2, RecordKnown DEF OwnInv, RecordsOwned
  <2>2. d \notin Peers
    BY DEF Peers
  <2>. QED  BY <1>2, <2>1, <2>2 DEF OwnInv, Rooted, Records, Commit
<1>10. RecordSafe(t)'
  <2>1. MyDisk(t)'.pending = p /\ MyDisk(t)'.life = n
    BY <1>2, <1>5 DEF MyDisk
  <2>2. p # NoCommit => p.life < n
    BY <1>2, <1>9
  <2>. QED  BY <1>4, <1>6, <2>1, <2>2 DEF RecordSafe, At
<1>11. Passes(t)
  <2>1. \A c : LandsThen(c) => Lands(c)
    BY <1>1 DEF LandsThen, Lands
  <2>. QED  BY <1>1, <1>2, <1>5, <1>7, <1>9, <1>10, <2>1 DEF Passes, OwnInv, RecordsOwned
<1>. QED  BY <1>8, <1>11, OwnStays

\* A group is written: over an older one, or over none, or it starts another life.
LEMMA OwnWriteState == ASSUME OwnInv, IInv', NEW t \in Tabs, WriteState(t) PROVE OwnInv'
<1>. PICK d, h, then, s, p : /\ d = DeviceOf[t] /\ h = tab[t].hand /\ then = tab[t].then
                             /\ s = MyDisk(t).state /\ p = MyDisk(t).pending
  OBVIOUS
<1>. PICK n : n = IF then = "created" /\ s # NoSession THEN MyDisk(t).life + 1 ELSE MyDisk(t).life
  OBVIOUS
<1>. DEFINE r == [tab[t] EXCEPT !.cached = h]
            m == AfterSave(r)
<1>1. /\ At(t, "save") /\ Becomes(t, m) /\ Writes(t, h, n)
      /\ UNCHANGED <<log, welcomes, net, gaveUp, built>>
  BY Here DEF OwnInv, WriteState, MyDisk, serverVars, Replaces, Writes
<1>2. /\ IInv /\ Types /\ Records /\ d \in Devices /\ tab[t] \in TabRow /\ s \in Session /\ h \in Session
      /\ MyDisk(t) = disk[d] /\ disk[d].life \in Nat /\ then \in Goals /\ Fitting(s, h, then)
  BY <1>1, Here DEF OwnInv, IInv, TabSafe, DiskRow, TabRow
<1>3. r \in TabRow /\ r.cached = h /\ r.then = then /\ r.commit = tab[t].commit
  BY <1>2 DEF TabRow
<1>. HIDE DEF r
<1>4. /\ m \in TabRow /\ m.at \in {"idle", "settled", "committed", "rejoined", "joined", "spend"}
      /\ m.commit \in {tab[t].commit, NoCommit}
  BY <1>2, <1>3, AfterSaveRow
<1>5. m.at \in {"settled", "committed"} => then \in {"settled", "committed"}
  <2>1. r.rest \in Seq(Tasks) /\ <<>> \in Seq(Tasks) /\ [r EXCEPT !.refused = FALSE] \in TabRow
    <3>1. r.rest \in Seq(Tasks) /\ [r EXCEPT !.refused = FALSE] \in TabRow
      BY <1>3 DEF TabRow
    <3>2. <<>> \in Seq(Tasks)
      OBVIOUS
    <3>. QED  BY <3>1, <3>2
  <2>2. CASE then \in {"created", "synced", "raceLost", "sent"}
    BY <1>3, <2>1, <2>2, DoneRow DEF AfterSave
  <2>3. CASE then \notin {"created", "synced", "raceLost", "sent"}
    BY <1>3, <2>3 DEF AfterSave, TabRow
  <2>. QED  BY <2>2, <2>3
<1>. HIDE DEF m
<1>6. /\ disk' \in [Devices -> DiskRow] /\ disk'[d].state = h /\ disk'[d].life = n
      /\ \A e \in Devices : e # d => disk'[e] = disk[e]
      /\ \A e \in Devices : disk'[e].pending = disk[e].pending /\ disk'[e].join = disk[e].join
  <2>1. n \in Nat
    BY <1>2
  <2>. QED  BY <1>1, <1>2, <2>1, WritesGroup
<1>7. tab' \in [Tabs -> TabRow] /\ tab'[t] = m /\ \A u \in Tabs : u # t => tab'[u] = tab[u]
  BY <1>1, <1>2, <1>4, Becoming
<1>8. Grows /\ Known' \subseteq Known
  BY <1>1, <1>2, <1>4, <1>6, <1>7, GrowsStill
<1>9. Moves(t)
  BY <1>1, <1>2, <1>7, <1>8, AtWork DEF Moves, At
<1>10. n > disk[d].life \/ (n = disk[d].life /\ h.epoch >= s.epoch)
  <2>1. CASE then = "created" /\ s # NoSession
    BY <1>2, <2>1
  <2>2. CASE s = NoSession
    BY <1>2, <2>2 DEF NoSession, Session
  <2>3. CASE then # "created" /\ s # NoSession
    BY <1>2, <2>3 DEF Fitting, Session
  <2>. QED  BY <2>1, <2>2, <2>3
<1>11. RecordSafe(t)'
  <2>1. MyDisk(t)'.pending = p /\ MyDisk(t)'.state = h
    BY <1>2, <1>6 DEF MyDisk
  <2>2. p # NoCommit /\ m.at \in {"settled", "committed"} => h.epoch > p.epoch
    BY <1>1, <1>5 DEF OwnInv, RecordSafe
  <2>. QED  BY <1>4, <1>7, <2>1, <2>2 DEF RecordSafe, At
<1>12. Passes(t)
  <2>1. \A c : LandsThen(c) => Lands(c)
    BY <1>1 DEF LandsThen, Lands
  <2>. QED  BY <1>1, <1>2, <1>6, <1>8, <1>10, <1>11, <2>1 DEF Passes, OwnInv, RecordsOwned
<1>. QED  BY <1>9, <1>12, OwnStays

\* What a tab at work builds its Commit on: the state it has saved, if it has one.
LEMMA OwnStageCommit ==
  ASSUME OwnInv, IInv', NEW t \in Tabs, NEW added \in SUBSET Devices, StageCommit(t, added)
  PROVE  OwnInv'
<1>. PICK d, s, p : d = DeviceOf[t] /\ s = Current(t) /\ p = MyDisk(t).pending
  OBVIOUS
<1>. PICK c : c = [id |-> built + 1, by |-> d, epoch |-> s.epoch, base |-> s.tip, added |-> added,
                   external |-> FALSE, life |-> MyDisk(t).life]
  OBVIOUS
<1>. DEFINE m == [tab[t] EXCEPT !.known = FALSE, !.cached = Post(c), !.hand = s, !.commit = c, !.at = "submit"]
<1>1. /\ At(t, "work") /\ built' = built + 1 /\ Saves(t, "pending", c) /\ Becomes(t, m)
      /\ gaveUp' = gaveUp \cup ({p} \ {NoCommit}) /\ UNCHANGED <<log, welcomes, net>>
  BY DEF StageCommit, Works, serverVars
<1>2. /\ IInv /\ Types /\ Records /\ ~At(t, "idle") /\ ~At(t, "save") /\ ~At(t, "submit") /\ Kind(t) /\ Grows
  BY <1>1, AtPlace, StageCommitKind DEF OwnInv, IInv, Kind
<1>3. /\ tab[t] \in TabRow /\ built \in Nat /\ d \in Devices /\ MyDisk(t) = disk[d] /\ disk[d].life \in Nat
      /\ s \in Session /\ Sound(s) /\ s # NoSession
  BY <1>1, <1>2, Here, CurrentIsSaved DEF TabSafe, Current, DiskRow
<1>4. s.epoch \in Nat /\ s.tip \in 1 .. built /\ \A e \in Known : e.id = s.tip => e.epoch < s.epoch
  <2>1. s.epoch \in Nat /\ s.tip <= built /\ \A e \in Known : e.id = s.tip => e.epoch < s.epoch
    BY <1>2, <1>3, TipIsLast DEF Sound
  <2>2. s.tip >= 1
    <3>1. CASE s.epoch = 0
      BY <1>3, <3>1 DEF Sound, SoundIn
    <3>2. CASE s.epoch > 0
      <4>1. s.epoch \in DOMAIN log /\ log[s.epoch].id = s.tip
        BY <1>2, <1>3, <2>1, <3>2 DEF Sound, SoundIn, Types, TypeOK
      <4>. QED  BY <1>2, <1>3, <4>1, LogRows DEF Records
    <3>. QED  BY <2>1, <3>1, <3>2
  <2>. QED  BY <1>3, <2>1, <2>2 DEF Session
<1>5. c \in Commit /\ c.id = built + 1 /\ c.epoch = s.epoch /\ c.base = s.tip /\ c.by = d /\ ~c.external
      /\ c.life = disk[d].life /\ c # NoCommit
  BY <1>3, <1>4 DEF Commit, NoCommit
<1>6. m \in TabRow /\ m.at = "submit" /\ m.commit = c
  <2>1. PICK r, k : r = tab[t] /\ k = Post(c)
    OBVIOUS
  <2>2. r \in TabRow /\ k \in Session /\ s \in Session /\ c \in Commit
    BY <1>3, <1>4, <1>5, <2>1 DEF Post, Session
  <2>3. m = [r EXCEPT !.known = FALSE, !.cached = k, !.hand = s, !.commit = c, !.at = "submit"]
    BY <2>1
  <2>. HIDE DEF m
  <2>. QED  BY <2>2, <2>3 DEF TabRow, Places
<1>. HIDE DEF m
<1>7. DiskTo(t, c, MyDisk(t).join)
  BY <1>1, <1>2, <1>5, SavesPending
<1>8. tab'[t] = m /\ \A u \in Tabs \ {t} : tab'[u] = tab[u]
  BY <1>1, <1>2, <1>6, Becoming
<1>9. Moves(t)
  BY <1>2, AtWork, MovesKind
<1>10. ~LandsThen(c)
  <2>1. c \notin net /\ \A i \in DOMAIN log : log[i] # c
    <3>1. \A e \in Known : e.id # built + 1
      BY <1>2, <1>3 DEF Records
    <3>. QED  BY <1>5, <3>1, KnownPlaces
  <2>. QED  BY <1>1, <2>1 DEF LandsThen, LandsIn
<1>11. Known' \subseteq Known \cup {c}
  <2>1. New({c})
    BY <1>1, <1>4, <1>5 DEF New
  <2>2. \A u \in Tabs : tab'[u].commit \in {tab[u].commit, NoCommit} \cup {c}
    BY <1>6, <1>8
  <2>3. \A e \in Devices : /\ disk'[e].pending \in {disk[e].pending, NoCommit} \cup {c}
                           /\ disk'[e].join \in {disk[e].join, NoCommit} \cup {c}
    BY <1>7 DEF DiskTo, MyDisk
  <2>. QED  BY <1>1, <1>2, <2>2, <2>3, KnownThen
<1>12. RecordSafe(t)'
  <2>1. MyDisk(t)'.pending = c
    BY <1>7 DEF DiskTo, MyDisk
  <2>. QED  BY <1>6, <1>8, <1>10, <2>1 DEF RecordSafe, At, Lands, LandsThen
<1>13. Passes(t)
  <2>1. \A e : LandsThen(e) => Lands(e)
    BY <1>1 DEF LandsThen, Lands
  <2>2. /\ \A e \in Devices \ {d} : disk'[e] = disk[e]
        /\ disk'[d].life = disk[d].life /\ disk'[d].state = disk[d].state
        /\ disk'[d].pending = c /\ disk'[d].join = disk[d].join /\ disk[d].pending = p
    BY <1>3, <1>7 DEF DiskTo
  <2>3. disk[d].join # NoCommit => disk[d].join.external
    BY <1>3 DEF OwnInv, RecordsOwned
  <2>4. disk[d].state.epoch \in Int /\ gaveUp \subseteq gaveUp' /\ (p = NoCommit \/ p \in gaveUp')
    BY <1>1, <1>2, <1>3, Here DEF DiskRow, Session
  <2>5. \A e \in Known' \ Known : e = c
    BY <1>11
  <2>6. disk[d].life <= disk'[d].life /\ disk'[d].state.epoch >= disk[d].state.epoch
    BY <1>3, <2>2, <2>4
  <2>. QED  BY <1>4, <1>5, <1>10, <1>12, <2>1, <2>2, <2>3, <2>4, <2>5, <2>6 DEF Passes
<1>. QED  BY <1>9, <1>13, OwnStays

LEMMA OwnBuildJoin == ASSUME OwnInv, IInv', NEW t \in Tabs, BuildJoin(t) PROVE OwnInv'
<1>. PICK d, p : d = DeviceOf[t] /\ p = MyDisk(t).pending
  OBVIOUS
<1>. PICK c : c = [id |-> built + 1, by |-> d, epoch |-> Len(log), base |-> log[Len(log)].id, added |-> {},
                   external |-> TRUE, life |-> MyDisk(t).life]
  OBVIOUS
<1>. DEFINE m == [tab[t] EXCEPT !.commit = c, !.at = "submitJoin"]
<1>1. /\ At(t, "look") /\ log # <<>> /\ built' = built + 1 /\ Saves(t, "join", c) /\ Becomes(t, m)
      /\ UNCHANGED <<log, welcomes, net, gaveUp>>
  BY DEF BuildJoin, serverVars, historyVars
<1>2. /\ IInv /\ Types /\ Records /\ ~At(t, "idle") /\ Kind(t)
  BY <1>1, AtPlace, BuildJoinKind DEF OwnInv, IInv
<1>3. tab[t] \in TabRow /\ built \in Nat /\ d \in Devices /\ MyDisk(t) = disk[d] /\ disk[d].life \in Nat
  BY <1>2, Here DEF DiskRow
<1>4. Len(log) \in Nat /\ log[Len(log)].id \in Nat
  <2>1. log \in Seq(Commit)
    BY <1>2 DEF Types, TypeOK
  <2>2. Len(log) \in DOMAIN log
    BY <1>1, <2>1
  <2>3. log[Len(log)] \in Commit
    BY <2>1, <2>2
  <2>. QED  BY <2>1, <2>3 DEF Commit
<1>5. c \in Commit /\ c.id = built + 1 /\ c.by = d /\ c.external /\ c.life = disk[d].life
  BY <1>3, <1>4 DEF Commit
<1>6. m \in TabRow /\ m.at = "submitJoin" /\ m.commit = c
  BY <1>3, <1>5 DEF TabRow, Places
<1>. HIDE DEF m
<1>7. DiskTo(t, MyDisk(t).pending, c)
  BY <1>1, <1>2, <1>5, SavesJoin
<1>8. tab'[t] = m /\ \A u \in Tabs \ {t} : tab'[u] = tab[u]
  BY <1>1, <1>2, <1>6, Becoming
<1>9. Moves(t)
  BY <1>2, AtWork, MovesKind
<1>10. ~LandsThen(c)
  <2>1. c # NoCommit /\ \A e \in Known : e.id # built + 1
    BY <1>2, <1>3, <1>5 DEF Records, NoCommit
  <2>2. c \notin net /\ \A i \in DOMAIN log : log[i] # c
    BY <1>5, <2>1, KnownPlaces
  <2>. QED  BY <1>1, <2>2 DEF LandsThen, LandsIn
<1>11. Known' \subseteq Known \cup {c}
  <2>1. \A u \in Tabs : tab'[u].commit \in {tab[u].commit, NoCommit} \cup {c}
    BY <1>6, <1>8
  <2>2. \A e \in Devices : /\ disk'[e].pending \in {disk[e].pending, NoCommit} \cup {c}
                           /\ disk'[e].join \in {disk[e].join, NoCommit} \cup {c}
    BY <1>7 DEF DiskTo, MyDisk
  <2>. QED  BY <1>1, <1>2, <2>1, <2>2, KnownThen
<1>12. RecordSafe(t)'
  BY <1>5, <1>6, <1>8 DEF RecordSafe, At
<1>13. Passes(t)
  <2>1. \A e : LandsThen(e) => Lands(e)
    BY <1>1 DEF LandsThen, Lands
  <2>2. /\ \A e \in Devices \ {d} : disk'[e] = disk[e]
        /\ disk'[d].life = disk[d].life /\ disk'[d].state = disk[d].state
        /\ disk'[d].pending = disk[d].pending /\ disk'[d].join = c
    BY <1>3, <1>7 DEF DiskTo
  <2>3. disk[d].pending # NoCommit => disk[d].pending.by = d /\ ~disk[d].pending.external
    BY <1>3 DEF OwnInv, RecordsOwned
  <2>4. disk[d].state.epoch \in Int /\ gaveUp \subseteq gaveUp'
    BY <1>1, <1>2, <1>3, Here DEF DiskRow, Session
  <2>5. \A e \in Known' \ Known : e = c
    BY <1>11
  <2>6. disk[d].life <= disk'[d].life /\ disk'[d].state.epoch >= disk[d].state.epoch
    BY <1>3, <2>2, <2>4
  <2>. QED  BY <1>5, <1>10, <1>12, <2>1, <2>2, <2>3, <2>4, <2>5, <2>6 DEF Passes
<1>. QED  BY <1>9, <1>13, OwnStays

\* A step in which no tab has a part.
LEMMA OwnElsewhere ==
  ASSUME OwnInv, IInv', Grows, tab' = tab, disk' = disk, gaveUp' = gaveUp,
         \A c \in Known : Owned(c) /\ LandsThen(c) => Lands(c),
         \A c \in Known' \ Known : c.by \in Peers /\ (~c.external => c.base \in 1 .. built')
  PROVE  OwnInv'
<1>1. /\ IInv /\ Records /\ RecordsOwned /\ Rooted /\ built \in Nat /\ built' \in {built, built + 1}
      /\ Peers' = Peers /\ Records'
  BY DEF OwnInv, IInv, Types, TypeOK, Grows, Peers
<1>2. PICK S : New(S) /\ Known' \subseteq Known \cup S
  BY DEF Grows
<1>3. \A c \in Known' \ Known : c.id = built + 1
  BY <1>2 DEF New
<1>4. RecordsOwned'
  BY <1>1 DEF RecordsOwned
<1>5. Rooted'
  <2>. SUFFICES ASSUME NEW c \in Known'
                PROVE  /\ c.by \notin Peers => c.life <= disk[c.by].life
                       /\ ~c.external => c.base \in 1 .. built'
                       /\ ~c.external /\ c.by \notin Peers => \A e \in Known' : e.id = c.base => e.epoch < c.epoch
    BY <1>1 DEF Rooted
  <2>1. CASE c \in Known
    <3>1. ~c.external => c.base \in 1 .. built
      BY <1>1, <2>1 DEF Rooted
    <3>2. ~c.external => \A e \in Known' : e.id = c.base => e \in Known
      BY <1>1, <1>3, <3>1
    <3>. QED  BY <1>1, <2>1, <3>1, <3>2 DEF Rooted
  <2>. QED  BY <2>1
<1>6. ASSUME NEW u \in Tabs PROVE RecordSafe(u)'
  <2>1. RecordSafe(u) /\ DeviceOf[u] \in Devices /\ DeviceOf[u] \notin Peers
    BY Here, <1>1 DEF OwnInv, Peers
  <2>2. At(u, "submit") => ~Lands(MyDisk(u).pending)'
    <3>. SUFFICES ASSUME At(u, "submit") PROVE ~Lands(MyDisk(u).pending)'
      OBVIOUS
    <3>1. PICK p : p = MyDisk(u).pending
      OBVIOUS
    <3>2. p # NoCommit /\ ~Lands(p) /\ p \in Known
      BY <1>1, <3>1, SubmittedFacts, Here DEF TabSafe, RecordSafe
    <3>3. Owned(p)
      BY <1>1, <2>1, <3>1, <3>2 DEF RecordsOwned, MyDisk, Owned
    <3>4. ~LandsThen(p) /\ MyDisk(u)' = MyDisk(u)
      BY <3>2, <3>3 DEF MyDisk
    <3>. QED  BY <3>1, <3>4 DEF Lands, LandsThen
  <2>. QED  BY <2>1, <2>2 DEF RecordSafe, At, MyDisk
<1>7. \A d \in Peers : disk'[d].state = NoSession
  BY DEF OwnInv
<1>8. \A c \in Known' : Owned(c)' /\ Lands(c)' => Settled(c)'
  <2>. SUFFICES ASSUME NEW c \in Known', Owned(c), LandsThen(c) PROVE Settled(c)'
    BY <1>1 DEF Owned, Lands, LandsThen
  <2>1. c \in Known
    BY DEF Owned
  <2>2. Settled(c)
    BY <2>1 DEF OwnInv
  <2>. QED  BY <2>2 DEF Settled
<1>. QED  BY <1>1, <1>4, <1>5, <1>6, <1>7, <1>8 DEF OwnInv

LEMMA OwnArrive == ASSUME OwnInv, IInv', NEW c \in net, Arrive(c) PROVE OwnInv'
<1>1. net' \subseteq net /\ Delivered(c) /\ UNCHANGED <<disk, tab, gaveUp, built>>
  BY DEF Arrive, historyVars
<1>2. IInv /\ Types /\ Grows
  BY ArriveSafe DEF OwnInv, IInv
<1>3. Known' \subseteq Known
  BY <1>1, <1>2, NoNewRecords
<1>4. c \in Commit
  BY <1>2 DEF Types, TypeOK
<1>5. ASSUME NEW e \in Known, LandsThen(e) PROVE Lands(e)
  <2>1. CASE log' = log
    BY <1>1, <1>2, <1>5, <2>1, LandsStays
  <2>2. CASE Answer(c) = "accepted"
    <3>1. Lands(e) \/ e = c
      BY <1>1, <1>2, <1>4, <1>5, LandsDelivered
    <3>2. c.epoch = Len(log) /\ Len(log) \in Nat
      BY <1>2, <2>2, AnswerMeans DEF Types, TypeOK
    <3>. QED  BY <3>1, <3>2 DEF Lands, LandsIn
  <2>. QED  BY <1>1, <2>1, <2>2 DEF Delivered, serverVars
<1>. QED  BY <1>1, <1>2, <1>3, <1>5, OwnElsewhere

LEMMA OwnPeerCommits ==
  ASSUME OwnInv, IInv', NEW p \in Peers, NEW added \in SUBSET (Devices \ {p}), PeerCommits(p, added)
  PROVE  OwnInv'
<1>. PICK joins : joins = (log # <<>> /\ p \notin LeavesAt(Len(log)))
  OBVIOUS
<1>. PICK c : c = [id |-> built + 1, by |-> p, epoch |-> Len(log),
                   base |-> IF log = <<>> THEN built + 1 ELSE log[Len(log)].id,
                   added |-> IF joins THEN {} ELSE added \ LeavesAt(Len(log)), external |-> joins, life |-> 0]
  OBVIOUS
<1>1. Delivered(c) /\ built' = built + 1 /\ UNCHANGED <<net, disk, tab, gaveUp>>
  BY DEF PeerCommits, historyVars
<1>2. /\ IInv /\ Types /\ Records /\ built \in Nat /\ log \in Seq(Commit) /\ p \in Devices
  BY DEF OwnInv, IInv, Types, TypeOK, Peers
<1>3. Grows
  BY <1>2, PeerCommitsSafe
<1>4. c.base \in 1 .. built' /\ c.base \in Nat
  <2>1. log # <<>> => log[Len(log)] \in Known
    <3>1. log # <<>> => Len(log) \in DOMAIN log
      BY <1>2
    <3>. QED  BY <1>2, <3>1, LogRows
  <2>2. log # <<>> => log[Len(log)].id \in 1 .. built
    BY <1>2, <2>1 DEF Records
  <2>. QED  BY <1>1, <1>2, <2>2
<1>5. c \in Commit /\ c.by = p
  <2>1. Len(log) \in Nat /\ joins \in BOOLEAN
    BY <1>2
  <2>. QED  BY <1>2, <1>4, <2>1 DEF Commit
<1>6. Known' \subseteq Known \cup {c}
  <2>1. log' = log \/ log' = Append(log, c)
    BY <1>1 DEF Delivered, serverVars
  <2>2. /\ \A d \in Devices : /\ disk'[d].pending \in {disk[d].pending, NoCommit} \cup {c}
                              /\ disk'[d].join \in {disk[d].join, NoCommit} \cup {c}
        /\ \A t \in Tabs : tab'[t].commit \in {tab[t].commit, NoCommit} \cup {c}
    BY <1>1
  <2>. QED  BY <1>1, <1>2, <2>1, <2>2, KnownThen
<1>7. ASSUME NEW e \in Known, Owned(e), LandsThen(e) PROVE Lands(e)
  <2>1. Lands(e) \/ e = c
    BY <1>1, <1>2, <1>5, <1>7, LandsDelivered
  <2>. QED  BY <1>5, <1>7, <2>1 DEF Owned
<1>8. \A e \in Known' \ Known : e = c
  BY <1>6
<1>. QED  BY <1>1, <1>3, <1>4, <1>5, <1>7, <1>8, OwnElsewhere

\* Nothing a Commit depends on changes.
LEMMA OwnAside ==
  ASSUME OwnInv, IInv', UNCHANGED <<log, welcomes, net, disk, tab, gaveUp, built>>
  PROVE  OwnInv'
<1>1. Types /\ Records /\ {} \subseteq Known
  BY DEF OwnInv, IInv
<1>2. Grows
  BY <1>1, GrowsIf
<1>3. Known' \subseteq Known
  BY <1>1, <1>2, NoNewRecords
<1>4. \A c : LandsThen(c) => Lands(c)
  BY DEF LandsThen, Lands
<1>. QED  BY <1>2, <1>3, <1>4, OwnElsewhere

LEMMA OwnOpenStep == ASSUME OwnInv, IInv', NEW t \in Tabs, OpenStep(t) PROVE OwnInv'
BY OwnDropOldRecord, OwnResubmit, OwnResubmitLost, OwnDiscardRecord, OwnResolveJoin, OwnResolveJoinLost,
   OwnDiscardJoin DEF OpenStep

LEMMA OwnWorkStep == ASSUME OwnInv, IInv', NEW t \in Tabs, WorkStep(t) PROVE OwnInv'
BY OwnEncrypt, OwnSync, OwnStageNothing, OwnCreateGroup, OwnStageCommit,
   OwnSubmitAccepted, OwnSubmitRefused, OwnSubmitConflict, OwnSubmitLost DEF WorkStep

LEMMA OwnJoinStep == ASSUME OwnInv, IInv', NEW t \in Tabs, JoinStep(t) PROVE OwnInv'
BY OwnLookHasState, OwnBuildJoin, OwnNoSnapshot, OwnSubmitJoin, OwnSubmitJoinLost, OwnNoWelcome,
   OwnSpends, OwnJoinFromWelcome, OwnStaleWelcome DEF JoinStep

LEMMA OwnForgetStep == ASSUME OwnInv, IInv', NEW t \in Tabs, ForgetStep(t) PROVE OwnInv'
BY OwnForgetState, OwnForgetStamp, OwnForgetCommit, OwnForgetJoin DEF ForgetStep

LEMMA OwnNext == OwnInv /\ [Next]_vars => OwnInv'
<1>. SUFFICES ASSUME OwnInv, [Next]_vars PROVE OwnInv'
  OBVIOUS
<1>1. IInv'
  BY NextSafe DEF OwnInv
<1>2. ASSUME NEW t \in Tabs, TabStep(t) PROVE OwnInv'
  BY <1>1, <1>2, OwnCrash, OwnBegin, OwnOpenStep, OwnWriteState, OwnWorkStep, OwnJoinStep, OwnForgetStep DEF TabStep
<1>3. ASSUME NEW d \in Devices \ Peers, ChangeStanding(d) PROVE OwnInv'
  <2>1. UNCHANGED <<log, welcomes, net, disk, tab, gaveUp, built>>
    BY <1>3 DEF ChangeStanding, serverVars, historyVars
  <2>. QED  BY <1>1, <2>1, OwnAside
<1>4. CASE ServerStep
  BY <1>1, <1>3, <1>4, OwnArrive, OwnPeerCommits DEF ServerStep
<1>5. CASE UNCHANGED vars
  BY <1>1, <1>5, OwnAside DEF vars
<1>. QED  BY <1>2, <1>4, <1>5 DEF Next

LEMMA OwnInit == Init => OwnInv
<1>. SUFFICES ASSUME Init PROVE OwnInv
  OBVIOUS
<1>1. IInv
  BY InitSafe
<1>2. Known = {}
  BY SessionFacts DEF Init, Known
<1>3. RecordsOwned /\ Rooted
  BY <1>2 DEF Init, RecordsOwned, Rooted
<1>4. \A t \in Tabs : RecordSafe(t)
  <2>1. \A t \in Tabs : At(t, "idle")
    BY SessionFacts DEF Init, At
  <2>. QED  BY <2>1 DEF RecordSafe, At
<1>5. \A d \in Peers : disk[d].state = NoSession
  BY DEF Init, Peers
<1>. QED  BY <1>1, <1>2, <1>3, <1>4, <1>5 DEF OwnInv

LEMMA OwnHolds == OwnInv => OwnCommitCanBeSettled
<1>. SUFFICES ASSUME OwnInv, NEW i \in DOMAIN log,
                     NEW c, c = log[i], ~c.external, disk[c.by].state.tip = c.base, disk[c.by].life = c.life
              PROVE  disk[c.by].pending = c \/ c \in gaveUp
  BY DEF OwnCommitCanBeSettled
<1>1. IInv /\ Types /\ Records /\ Rooted /\ log \in Seq(Commit) /\ built \in Nat
  BY DEF OwnInv, IInv, Types, TypeOK
<1>2. c \in Known /\ c \in Commit /\ Lands(c) /\ c.by \in Devices /\ c.epoch \in Nat
  BY <1>1, LogRows DEF Lands, LandsIn, Commit, Records
<1>3. c.base \in 1 .. built
  BY <1>1, <1>2 DEF Rooted
<1>. PICK s : s = disk[c.by].state
  OBVIOUS
<1>4. s \in Session /\ Sound(s) /\ s.tip = c.base
  BY <1>1, <1>2 DEF IInv, Types, TypeOK
<1>5. s # NoSession
  BY <1>1, <1>3, <1>4 DEF NoSession
<1>6. c.by \notin Peers
  BY <1>5 DEF OwnInv
<1>7. Settled(c)
  BY <1>2, <1>6 DEF OwnInv, Owned
<1>8. ~(s.epoch > c.epoch)
  <2>. SUFFICES ASSUME s.epoch > c.epoch PROVE FALSE
    OBVIOUS
  <2>1. s.epoch \in DOMAIN log /\ log[s.epoch].id = c.base
    BY <1>1, <1>2, <1>4 DEF Sound, SoundIn, Session
  <2>2. log[s.epoch] \in Known /\ log[s.epoch].epoch = s.epoch - 1
    BY <1>1, <2>1, LogRows
  <2>3. s.epoch - 1 < c.epoch
    BY <1>1, <1>2, <1>6, <2>1, <2>2 DEF Rooted
  <2>. QED  BY <1>2, <1>4, <2>3 DEF Session
<1>. QED  BY <1>7, <1>8 DEF Settled

\* While the log has a Commit of a device on the state that device has saved, the device still has its record, gave
\* it up knowingly, or was wiped since: no answer, crash or other tab takes it away (syncEngine.ts:60-234).
THEOREM OwnCommitsSafe == Spec => []OwnCommitCanBeSettled
BY OwnInit, OwnNext, OwnHolds, PTL DEF Spec
=============================================================================
