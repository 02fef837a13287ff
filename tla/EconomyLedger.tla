---------------------------- MODULE EconomyLedger ----------------------------
(***************************************************************************)
(* Reputation and Shards: what likes, comments and check-ins earn, what     *)
(* hiding content takes back and restoring it returns, corrections by an    *)
(* admin, and the cosmetic items whose takedown refunds their owners.       *)
(* A request is one call of a service.  It checks, opens a transaction at   *)
(* READ COMMITTED, waits for row locks one after the other, and commits or  *)
(* rolls back: its writes show to the others when it commits.               *)
(***************************************************************************)
EXTENDS Integers, Sequences, FiniteSets, SequencesExt, FiniteSetsExt

CONSTANTS
  Users,             \* user ids; their order is the order of the locks
  Posts, Comments,   \* content
  Items,             \* cosmetic items
  Author,            \* who wrote which content
  PostOf,            \* the post a comment is on
  Established,       \* users whose likes and comments earn others something
  InitialOwners,     \* who owns which item at first
  Requests,          \* the calls: [op, who, on, arg]; each may be made again
  MaxOpen,           \* bound: transactions open at the same time
  MaxFlips,          \* bound: how often the visibility of a content changes
  MaxAdjustments,    \* bound: corrections by an admin
  LikeSteps, CommentSteps,    \* LIKE_STEPS and COMMENT_STEPS: [upTo, per] points and interactions per point
  Milestones,        \* LIKE_MILESTONE_SHARDS
  InteractionShards, \* SHARDS_PER_COUNTED_INTERACTION
  CheckInShards, DailyShardCap, PayingComments, GiverCap, RefundShards,
  Ranks              \* RANKS, lowest first: [lifetime, keep]

Contents == Posts \cup Comments
Currencies == {"REPUTATION", "SHARDS"}
Scopes == {"COMMUNITY", "PLATFORM"}

ASSUME UsersAssumption == Users \subseteq Nat /\ IsFiniteSet(Users)
ASSUME ContentsAssumption == Posts \cap Comments = {}
ASSUME AuthorAssumption == Author \in [Contents -> Users] /\ PostOf \in [Comments -> Posts]
ASSUME OwnersAssumption == InitialOwners \in [Items -> SUBSET Users]
ASSUME MilestonesAssumption == \A n \in DOMAIN Milestones : n \in Nat /\ Milestones[n] \in Nat
ASSUME StepsAssumption == {LikeSteps, CommentSteps} \subseteq Seq([upTo : Nat, per : Nat \ {0}])
ASSUME AmountsAssumption ==
  /\ {InteractionShards, CheckInShards, DailyShardCap, PayingComments, GiverCap} \subseteq Nat
  /\ RefundShards \in Nat \ {0}

\* What each call is about.  A comment is written once, by its author.
ContentCalls == {"LIKE", "HIDE", "UNHIDE", "REVERSE"}
ItemCalls == {"TAKEDOWN", "REACTIVATE", "GRANT", "EQUIP"}
ASSUME RequestsAssumption ==
  /\ IsFiniteSet(Requests)
  /\ \A r \in Requests :
       /\ r.op \in ContentCalls \cup ItemCalls \cup {"COMMENT", "CHECKIN", "ADJUST"}
       /\ r.op \in ContentCalls => r.on \in Contents
       /\ r.op \in {"HIDE", "UNHIDE", "REVERSE"} => r.arg \in Scopes
       /\ r.op \in ItemCalls => r.on \in Items
       /\ r.op \in {"LIKE", "COMMENT", "CHECKIN", "ADJUST", "GRANT", "EQUIP"} => r.who \in Users
       /\ r.op = "ADJUST" => r.on \in Currencies /\ r.arg \in Int
       /\ r.op = "COMMENT" => r.on \in Comments /\ r.who = Author[r.on]
  /\ \A r, q \in Requests : r.op = "COMMENT" /\ q.op = "COMMENT" /\ r.on = q.on => r = q

VARIABLES
  status,     \* Post.status and Comment.status, ABSENT before the comment is written
  enforced,   \* the scopes of the active ContentEnforcement rows of each content
  flips,      \* how often its visibility changed (bounded)
  likes,      \* PostLike and CommentLike rows
  counted,    \* CountedInteraction rows
  wallet,     \* UserWallet: the cached balances, reputation90d and rank
  today,      \* the DailyEarning rows of the day
  given,      \* the DailyGiverReputation rows of the day
  ledger,     \* LedgerEntry rows
  active, owners, equipped,    \* CosmeticItem.active, UserCosmetic, EquippedCosmetic
  request     \* each request's transaction

contentVars == <<status, enforced, flips, likes>>
bookVars == <<counted, wallet, today, given, ledger>>
cosmeticVars == <<active, owners, equipped>>
vars == <<contentVars, bookVars, cosmeticVars, request>>

-----------------------------------------------------------------------------
(* Rows and rules.                                                           *)

Larger(a, b) == IF a >= b THEN a ELSE b
Smaller(a, b) == IF a <= b THEN a ELSE b

\* The highest rank whose lifetime Reputation and recent Reputation are both there; 0 is STARGAZER.
RankFor(lifetime, recent) ==
  LET reached == {i \in DOMAIN Ranks : lifetime >= Ranks[i].lifetime /\ recent >= Ranks[i].keep}
  IN IF reached = {} THEN 0 ELSE CHOOSE i \in reached : \A j \in reached : j <= i

\* Each step pays a point per so many interactions until the total reaches its limit.
SteppedPoints(count, steps) ==
  LET after[i \in 0 .. Len(steps)] ==
        IF i = 0 THEN [points |-> 0, left |-> count, full |-> TRUE]
        ELSE LET s == after[i - 1]
                 paid == Smaller(steps[i].upTo - s.points, s.left \div steps[i].per)
             IN IF s.full THEN [points |-> s.points + paid, left |-> s.left - paid * steps[i].per,
                                full |-> s.points + paid = steps[i].upTo]
                ELSE s
  IN after[Len(steps)].points

\* (Mutant: the cap limits each award, not the day.)
CapEachAward(base, credited) == Larger(0, Smaller(DailyShardCap, base - credited))

ShardsToCredit(base, credited) == Larger(0, Smaller(DailyShardCap, base) - credited)

NewWallet == [REPUTATION |-> 0, SHARDS |-> 0, recent |-> 0, rank |-> RankFor(0, 0)]
NewDay == [base |-> 0, credited |-> 0, likes |-> 0, fromLikes |-> 0,
           comments |-> 0, fromComments |-> 0, written |-> 0]

AwardReasons == {"LIKE_RECEIVED", "COMMENT_RECEIVED", "LIKE_MILESTONE", "COMMENT_WRITTEN"}
Nothing == "nothing"

\* A row of the ledger, known by its idempotency key.  `award` is the key of the award it revokes or restores,
\* `taken` the revokedAmount of an award while it is revoked, -1 while it is not (revokedAt is null).
Row(key, user, currency, delta, reason, on, award) ==
  [key |-> key, user |-> user, currency |-> currency, delta |-> delta, reason |-> reason,
   on |-> on, award |-> award, taken |-> -1]
Entry(key, user, currency, delta, reason, on) == Row(key, user, currency, delta, reason, on, <<>>)

Keys == {e.key : e \in ledger}

IsAward(e) == e.reason \in AwardReasons
Revoked(e) == IsAward(e) /\ e.taken >= 0

SumOver(entries) == MapThenSumSet(LAMBDA e : e.delta, entries)
Moved(entries, u, currency) == SumOver({e \in entries : e.user = u /\ e.currency = currency})
Recent(entries, u) ==
  Larger(0, SumOver({e \in entries : /\ e.user = u /\ e.currency = "REPUTATION"
                                     /\ IsAward(e) /\ ~Revoked(e)}))

-----------------------------------------------------------------------------
(* Requests and their locks.                                                 *)

Closed == [at |-> "closed", want |-> <<>>, held |-> {}, found |-> {}, saw |-> [u \in Users |-> NewWallet]]
Locks == ({"content"} \X Contents) \cup ({"day", "wallet"} \X Users) \cup ({"item"} \X Items)

IsOpen(r) == request[r].at # "closed"
Free(lock) == \A r \in Requests : lock \notin request[r].held

Ascending(users) == CHOOSE s \in SetToSeqs(users) : \A i, j \in DOMAIN s : i < j => s[i] < s[j]

\* The day or wallet rows of these users, always in the order of their ids.
LocksOf(kind, users) ==
  LET ordered == Ascending(users) IN [i \in DOMAIN ordered |-> <<kind, ordered[i]>>]

\* (Mutant: the commenter's rows before the owner's.)
CommenterFirst(commenter, owner) ==
  <<<<"day", commenter>>, <<"day", owner>>, <<"wallet", commenter>>, <<"wallet", owner>>>>

CommentLocks(commenter, owner) == LocksOf("day", {commenter, owner}) \o LocksOf("wallet", {commenter, owner})

Viewable(p) == status[p] = "PUBLISHED"

\* What a service checks before it opens its transaction.
MayOpen(r) ==
  CASE r.op = "LIKE" -> status[r.on] = "PUBLISHED" /\ (r.on \in Comments => Viewable(PostOf[r.on]))
    [] r.op = "COMMENT" -> status[r.on] = "ABSENT" /\ Viewable(PostOf[r.on])
    [] OTHER -> TRUE

\* (Mutant: equipping an item does not lock it.)
LocksItemButForEquip(r) == r.op \in {"TAKEDOWN", "REACTIVATE", "GRANT"}

LocksItem(r) == r.op \in {"TAKEDOWN", "REACTIVATE", "GRANT", "EQUIP"}

\* The row a transaction locks first: the content, the day, the wallet or the item.
FirstLocks(r) ==
  CASE r.op \in {"LIKE", "HIDE", "UNHIDE", "REVERSE"} -> <<<<"content", r.on>>>>
    [] r.op = "COMMENT" -> <<<<"content", PostOf[r.on]>>>>
    [] r.op = "CHECKIN" -> <<<<"day", r.who>>>>
    [] r.op = "ADJUST" -> <<<<"wallet", r.who>>>>
    [] LocksItem(r) -> <<<<"item", r.on>>>>
    [] OTHER -> <<>>

Open(r) ==
  /\ ~IsOpen(r)
  /\ Cardinality({q \in Requests : IsOpen(q)}) < MaxOpen
  /\ MayOpen(r)
  /\ request' = [request EXCEPT ![r] = [Closed EXCEPT !.at = "locking", !.want = FirstLocks(r)]]
  /\ UNCHANGED <<contentVars, bookVars, cosmeticVars>>

\* Locking a wallet also reads it, as it is then.
Acquire(r) ==
  /\ request[r].want # <<>>
  /\ LET lock == Head(request[r].want)
     IN /\ Free(lock)
        /\ request' = [request EXCEPT
             ![r].want = Tail(@), ![r].held = @ \cup {lock},
             ![r].saw = IF lock[1] = "wallet" THEN [@ EXCEPT ![lock[2]] = wallet[lock[2]]] ELSE @]
  /\ UNCHANGED <<contentVars, bookVars, cosmeticVars>>

\* The transaction ends without an effect: an error, a timeout, a deadlock, a crash.
RollBack(r) ==
  /\ IsOpen(r)
  /\ request' = [request EXCEPT ![r] = Closed]
  /\ UNCHANGED <<contentVars, bookVars, cosmeticVars>>

-----------------------------------------------------------------------------
(* With its first row locked a transaction reads what it needs and decides.  *)

\* A like earns once per person and content, whether or not it was withdrawn in between.
Earns(r) ==
  /\ <<r.who, r.on>> \notin likes
  /\ Author[r.on] # r.who
  /\ r.who \in Established
  /\ <<"LIKE", r.on, r.who>> \notin counted

Publishes(r) ==
  /\ r.op \in {"UNHIDE", "REVERSE"}
  /\ status[r.on] = "HIDDEN"
  /\ r.op = "REVERSE" => enforced[r.on] \subseteq {r.arg}
Hides(r) == r.op = "HIDE" /\ status[r.on] = "PUBLISHED"

Corrections == {e \in ledger : e.reason = "ADMIN_ADJUST"}

\* The guards after the lock (and the bounds MaxAdjustments and MaxFlips); a request that fails one is answered with an error.
Admitted(r) ==
  CASE r.op = "CHECKIN" -> <<"checkin", r.who>> \notin Keys
    [] r.op = "ADJUST" -> request[r].saw[r.who][r.on] + r.arg >= 0 /\ Cardinality(Corrections) < MaxAdjustments
    [] r.op = "HIDE" -> status[r.on] \in {"PUBLISHED", "HIDDEN"} /\ flips[r.on] < MaxFlips
    [] r.op = "UNHIDE" -> /\ status[r.on] # "ABSENT"
                          /\ "PLATFORM" \in enforced[r.on] => r.arg = "PLATFORM"
                          /\ enforced[r.on] # {} \/ status[r.on] = "PUBLISHED"
    [] r.op = "REVERSE" -> status[r.on] # "ABSENT"
    [] r.op = "TAKEDOWN" -> active[r.on]
    [] r.op = "REACTIVATE" -> ~active[r.on]
    [] r.op = "GRANT" -> active[r.on] /\ r.who \notin owners[r.on]
    [] r.op = "EQUIP" -> active[r.on] /\ r.who \in owners[r.on]
    [] OTHER -> TRUE

AwardsOn(c, revoked) ==
  {e \in ledger : e.on = c /\ IsAward(e) /\ (Revoked(e) <=> revoked)}

\* The awards to revoke or to restore, or the owners to refund.
Found(r) ==
  CASE Hides(r) -> AwardsOn(r.on, FALSE)
    [] Publishes(r) -> AwardsOn(r.on, TRUE)
    [] r.op = "TAKEDOWN" -> owners[r.on]
    [] OTHER -> {}

\* The rows it locks from here on: the post whose comment count changes, then days, then wallets.
NextLocks(r) ==
  CASE r.op = "LIKE" /\ Earns(r) -> LocksOf("day", {Author[r.on]}) \o LocksOf("wallet", {Author[r.on]})
    [] r.op = "COMMENT" /\ Author[PostOf[r.on]] # r.who ->
         CommentLocks(r.who, Author[PostOf[r.on]])
    [] r.op = "CHECKIN" -> LocksOf("wallet", {r.who})
    [] r.op \in {"HIDE", "UNHIDE", "REVERSE"} /\ (Hides(r) \/ Publishes(r)) ->
         (IF r.on \in Comments THEN <<<<"content", PostOf[r.on]>>>> ELSE <<>>)
           \o LocksOf("wallet", {e.user : e \in Found(r)})
    [] r.op = "TAKEDOWN" -> LocksOf("wallet", Found(r))
    [] OTHER -> <<>>

Decide(r) ==
  /\ request[r].at = "locking"
  /\ request[r].want = <<>>
  /\ request' = [request EXCEPT ![r] =
       IF Admitted(r) THEN [@ EXCEPT !.at = "decided", !.want = NextLocks(r), !.found = Found(r)]
       ELSE Closed]
  /\ UNCHANGED <<contentVars, bookVars, cosmeticVars>>

-----------------------------------------------------------------------------
(* With all its rows locked a transaction writes and commits.                *)

Commits(r, op) ==
  /\ r.op = op
  /\ request[r].at = "decided"
  /\ request[r].want = <<>>
  /\ request' = [request EXCEPT ![r] = Closed]

\* credit: balances and recent Reputation by increments, the rank from the row as it was locked.
Credited(entries, saw) ==
  [u \in Users |->
     LET reputation == Moved(entries, u, "REPUTATION")
         recent == SumOver({e \in entries : e.user = u /\ e.currency = "REPUTATION" /\ IsAward(e)})
     IN [wallet[u] EXCEPT
           !.REPUTATION = @ + reputation,
           !.SHARDS = @ + Moved(entries, u, "SHARDS"),
           !.recent = @ + recent,
           !.rank = IF reputation = 0 THEN @
                    ELSE RankFor(saw[u].REPUTATION + reputation, Larger(0, saw[u].recent + recent))]]

\* A key that is there already fails the transaction.
Post(r, entries) ==
  /\ \A e \in entries : e.key \notin Keys
  /\ wallet' = Credited(entries, request[r].saw)
  /\ ledger' = ledger \cup entries

Only(condition, entry) == IF condition THEN {entry} ELSE {}

\* awardSteppedReputation and creditCappedShards for one interaction, on the owner's day.
Points(day, counter) ==
  IF counter = "likes" THEN SteppedPoints(day.likes + 1, LikeSteps) - day.fromLikes
  ELSE SteppedPoints(day.comments + 1, CommentSteps) - day.fromComments
HasRoom(owner, giver) == given[owner][giver] < GiverCap
Stepped(day, counter, gained) ==
  IF counter = "likes" THEN [day EXCEPT !.likes = @ + 1, !.fromLikes = @ + gained]
  ELSE [day EXCEPT !.comments = @ + 1, !.fromComments = @ + gained]
WithShards(day, base) ==
  [day EXCEPT !.base = @ + base, !.credited = @ + ShardsToCredit(day.base + base, day.credited)]

Received(r, owner, counter, reason, key) ==
  LET gained == IF HasRoom(owner, r.who) THEN Larger(0, Points(today[owner], counter)) ELSE 0
      stepped == IF HasRoom(owner, r.who) THEN Stepped(today[owner], counter, gained) ELSE today[owner]
      after == WithShards(stepped, InteractionShards)
      shards == after.credited - stepped.credited
  IN [day |-> after, gained |-> gained,
      entries |-> Only(gained > 0, Entry(key \o <<"rep">>, owner, "REPUTATION", gained, reason, r.on))
                    \cup Only(shards > 0, Entry(key \o <<"shards">>, owner, "SHARDS", shards, reason, r.on))]

CommitLike(r) ==
  /\ Commits(r, "LIKE")
  /\ likes' = likes \cup {<<r.who, r.on>>}
  /\ IF ~Earns(r) THEN UNCHANGED bookVars
     ELSE LET owner == Author[r.on]
              received == Received(r, owner, "likes", "LIKE_RECEIVED", <<"like", r.on, r.who>>)
              nth == 1 + Cardinality({i \in counted : i[1] = "LIKE" /\ i[2] = r.on})
              bonus == IF nth \in DOMAIN Milestones THEN Milestones[nth] ELSE 0
          IN /\ counted' = counted \cup {<<"LIKE", r.on, r.who>>}
             /\ today' = [today EXCEPT ![owner] = received.day]
             /\ given' = [given EXCEPT ![owner][r.who] = @ + received.gained]
             /\ Post(r, received.entries \cup
                  Only(bonus > 0, Entry(<<"milestone", r.on, nth>>, owner, "SHARDS", bonus, "LIKE_MILESTONE", r.on)))
  /\ UNCHANGED <<status, enforced, flips, cosmeticVars>>

\* Withdrawing a like takes nothing back; one statement on the content's row.
Unlike(u, c) ==
  /\ <<u, c>> \in likes
  /\ Free(<<"content", c>>)
  /\ likes' = likes \ {<<u, c>>}
  /\ UNCHANGED <<status, enforced, flips, bookVars, cosmeticVars, request>>

CommitComment(r) ==
  /\ Commits(r, "COMMENT")
  /\ status' = [status EXCEPT ![r.on] = "PUBLISHED"]
  /\ LET post == PostOf[r.on]
         owner == Author[post]
         mine == IF today[r.who].written < PayingComments
                 THEN WithShards([today[r.who] EXCEPT !.written = @ + 1], 1) ELSE today[r.who]
         paid == mine.credited - today[r.who].credited
         counts == r.who \in Established /\ <<"COMMENT", post, r.who>> \notin counted
         received == Received(r, owner, "comments", "COMMENT_RECEIVED", <<"comment", post, r.who>>)
         written == Only(paid > 0, Entry(<<"comment-written", r.on>>, r.who, "SHARDS", paid, "COMMENT_WRITTEN", r.on))
     IN IF owner = r.who THEN UNCHANGED bookVars
        ELSE IF ~counts
        THEN /\ today' = [today EXCEPT ![r.who] = mine]
             /\ Post(r, written)
             /\ UNCHANGED <<counted, given>>
        ELSE /\ today' = [today EXCEPT ![r.who] = mine, ![owner] = received.day]
             /\ counted' = counted \cup {<<"COMMENT", post, r.who>>}
             /\ given' = [given EXCEPT ![owner][r.who] = @ + received.gained]
             /\ Post(r, written \cup received.entries)
  /\ UNCHANGED <<enforced, flips, likes, cosmeticVars>>

\* Always written, even at the cap, so that the check-in is remembered.
CommitCheckIn(r) ==
  /\ Commits(r, "CHECKIN")
  /\ LET day == WithShards(today[r.who], CheckInShards)
     IN /\ today' = [today EXCEPT ![r.who] = day]
        /\ Post(r, {Entry(<<"checkin", r.who>>, r.who, "SHARDS", day.credited - today[r.who].credited,
                         "DAILY_CHECKIN", Nothing)})
  /\ UNCHANGED <<contentVars, counted, given, cosmeticVars>>

CommitAdjust(r) ==
  /\ Commits(r, "ADJUST")
  /\ Post(r, {Entry(<<"adjust", Cardinality(Corrections)>>, r.who, r.on, r.arg, "ADMIN_ADJUST", Nothing)})
  /\ UNCHANGED <<contentVars, counted, today, given, cosmeticVars>>

-----------------------------------------------------------------------------
(* Hiding takes back what a content earned, publishing it again returns it.  *)

\* The n-th change of the content's visibility; the real keys are random.
Nth(r) == flips[r.on]

\* What is taken of an award: what its wallet still holds once these were taken back, never below 0.
Taken(award, before, saw) ==
  LET same == {a \in before : a.user = award.user /\ a.currency = award.currency}
  IN Smaller(award.delta, Larger(0, saw[award.user][award.currency] - SumOver(same)))

\* Award after award in this order; that of a user's own is the order of their random ids.
RevokeEntries(r, order) ==
  {LET a == order[i]
       before == {order[j] : j \in 1 .. (i - 1)}
   IN Row(<<"revoke", a.key, Nth(r)>>, a.user, a.currency, 0 - Taken(a, before, request[r].saw), "REVOKED", a.on, a.key) :
     i \in DOMAIN order}

\* (Mutant: the whole award is given back.)
GiveBackAll(award) == award.delta

\* Exactly what was taken.
GivenBack(award) == award.taken

RestoreEntries(r) ==
  {Row(<<"restore", a.key, Nth(r)>>, a.user, a.currency, GivenBack(a), "RESTORED", a.on, a.key) : a \in request[r].found}

\* The awards of these entries are marked with what was taken, or as not revoked.
Marked(entries) ==
  {LET mine == {e \in entries : e.award = a.key}
   IN IF mine = {} THEN a
      ELSE LET e == CHOOSE e \in mine : TRUE
           IN [a EXCEPT !.taken = IF e.reason = "REVOKED" THEN 0 - e.delta ELSE -1] : a \in ledger}

\* (Mutant: the recent Reputation and the rank stay as they were.)
RecountNothing(balances, entries, book) == balances

\* recountRank, for everyone whose Reputation was among the awards.
Recounted(balances, entries, book) ==
  [u \in Users |->
     IF \E e \in entries : e.user = u /\ e.currency = "REPUTATION"
     THEN LET recent == Recent(book, u)
          IN [balances[u] EXCEPT !.recent = recent, !.rank = RankFor(balances[u].REPUTATION, recent)]
     ELSE balances[u]]

Balances(entries) ==
  [u \in Users |-> [wallet[u] EXCEPT !.REPUTATION = @ + Moved(entries, u, "REPUTATION"),
                                     !.SHARDS = @ + Moved(entries, u, "SHARDS")]]

TakeBackOrReturn(entries) ==
  LET book == Marked(entries) \cup entries
  IN /\ ledger' = book
     /\ wallet' = Recounted(Balances(entries), entries, book)

\* (Mutant: a moderator lifts only the restriction of their own scope, and publishes.)
LiftOwnScope(r) == {r.arg}

\* Whatever restrictions are active are lifted together.
Lifted(r) == IF r.op = "REVERSE" THEN {r.arg} ELSE Scopes

CommitHide(r) ==
  /\ Commits(r, "HIDE")
  /\ enforced' = [enforced EXCEPT ![r.on] = @ \cup {r.arg}]
  /\ IF Hides(r)
     THEN /\ status' = [status EXCEPT ![r.on] = "HIDDEN"]
          /\ flips' = [flips EXCEPT ![r.on] = @ + 1]
          /\ \E order \in SetToSeqs(request[r].found) : TakeBackOrReturn(RevokeEntries(r, order))
     ELSE UNCHANGED <<status, flips, wallet, ledger>>
  /\ UNCHANGED <<likes, counted, today, given, cosmeticVars>>

\* A moderator restores the content, or an accepted appeal reverses one restriction.
CommitPublish(r) ==
  /\ Commits(r, "UNHIDE") \/ Commits(r, "REVERSE")
  /\ enforced' = [enforced EXCEPT ![r.on] = @ \ Lifted(r)]
  /\ IF Publishes(r)
     THEN /\ status' = [status EXCEPT ![r.on] = "PUBLISHED"]
          /\ TakeBackOrReturn(RestoreEntries(r))
     ELSE UNCHANGED <<status, wallet, ledger>>
  /\ UNCHANGED <<flips, likes, counted, today, given, cosmeticVars>>

-----------------------------------------------------------------------------
(* Cosmetic items, all for the same slot.                                    *)

\* (Mutant: only those who wear the item are refunded.)
RefundWearers(item, found) == {u \in found : <<u, item>> \in equipped}

\* The idempotency key of a refund names the item and the owner: once ever.
ToRefund(item, found) == {u \in found : <<"takedown", item, u>> \notin Keys}

CommitTakedown(r) ==
  /\ Commits(r, "TAKEDOWN")
  /\ active' = [active EXCEPT ![r.on] = FALSE]
  /\ equipped' = equipped \ (Users \X {r.on})
  /\ Post(r, {Entry(<<"takedown", r.on, u>>, u, "SHARDS", RefundShards, "TAKEDOWN_REFUND", r.on) :
                u \in ToRefund(r.on, request[r].found)})
  /\ UNCHANGED <<contentVars, counted, today, given, owners>>

CommitReactivate(r) ==
  /\ Commits(r, "REACTIVATE")
  /\ active' = [active EXCEPT ![r.on] = TRUE]
  /\ UNCHANGED <<contentVars, bookVars, owners, equipped>>

CommitGrant(r) ==
  /\ Commits(r, "GRANT")
  /\ owners' = [owners EXCEPT ![r.on] = @ \cup {r.who}]
  /\ UNCHANGED <<contentVars, bookVars, active, equipped>>

CommitEquip(r) ==
  /\ Commits(r, "EQUIP")
  /\ equipped' = {e \in equipped : e[1] # r.who} \cup {<<r.who, r.on>>}
  /\ UNCHANGED <<contentVars, bookVars, active, owners>>

Unequip(u) ==
  /\ equipped' = {e \in equipped : e[1] # u}
  /\ UNCHANGED <<contentVars, bookVars, active, owners, request>>

-----------------------------------------------------------------------------
Init ==
  /\ status = [c \in Contents |-> IF c \in Posts THEN "PUBLISHED" ELSE "ABSENT"]
  /\ enforced = [c \in Contents |-> {}]
  /\ flips = [c \in Contents |-> 0]
  /\ likes = {} /\ counted = {}
  /\ wallet = [u \in Users |-> NewWallet]
  /\ today = [u \in Users |-> NewDay]
  /\ given = [u \in Users |-> [v \in Users |-> 0]]
  /\ ledger = {}
  /\ active = [i \in Items |-> TRUE]
  /\ owners = InitialOwners
  /\ equipped = {}
  /\ request = [r \in Requests |-> Closed]

Next ==
  \/ \E r \in Requests : Open(r) \/ Acquire(r) \/ Decide(r) \/ RollBack(r)
  \/ \E r \in Requests : CommitLike(r) \/ CommitComment(r) \/ CommitCheckIn(r) \/ CommitAdjust(r)
  \/ \E r \in Requests : CommitHide(r) \/ CommitPublish(r)
  \/ \E r \in Requests : CommitTakedown(r) \/ CommitReactivate(r) \/ CommitGrant(r) \/ CommitEquip(r)
  \/ \E u \in Users, c \in Contents : Unlike(u, c)
  \/ \E u \in Users : Unequip(u)

Spec == Init /\ [][Next]_vars

-----------------------------------------------------------------------------
(* Properties.                                                               *)

WalletRow == [REPUTATION : Nat, SHARDS : Nat, recent : Nat, rank : 0 .. Len(Ranks)]
DayRow == [base : Nat, credited : Nat, likes : Nat, fromLikes : Nat, comments : Nat, fromComments : Nat, written : Nat]

\* Every variable holds rows of its table; in particular no balance is ever below zero.
TypeOK ==
  /\ status \in [Contents -> {"ABSENT", "PUBLISHED", "HIDDEN"}]
  /\ enforced \in [Contents -> SUBSET Scopes]
  /\ flips \in [Contents -> 0 .. MaxFlips]
  /\ likes \subseteq Users \X Contents
  /\ counted \subseteq {"LIKE", "COMMENT"} \X Contents \X Users
  /\ wallet \in [Users -> WalletRow]
  /\ today \in [Users -> DayRow]
  /\ given \in [Users -> [Users -> Nat]]
  /\ active \in [Items -> BOOLEAN]
  /\ owners \in [Items -> SUBSET Users]
  /\ equipped \subseteq Users \X Items

\* What the REVOKED and RESTORED rows of an award moved is what is taken of it now: hiding and restoring
\* content, however often and whatever was spent meanwhile, neither creates nor loses anything, and nothing
\* stays taken from a content that is published.
RestoreGivesBackWhatWasTaken ==
  \A a \in {e \in ledger : IsAward(e)} :
    /\ SumOver({e \in ledger : e.award = a.key}) = IF Revoked(a) THEN 0 - a.taken ELSE 0
    /\ Revoked(a) => status[a.on] = "HIDDEN"

\* Everything one day credits within the cap, from however many actions at once, is at most the cap, and the
\* day's row counts just what the ledger shows.
DailyCapHolds ==
  \A u \in Users :
    /\ today[u].credited <= DailyShardCap
    /\ today[u].credited = SumOver({e \in ledger :
         /\ e.user = u /\ e.currency = "SHARDS"
         /\ e.reason \in {"LIKE_RECEIVED", "COMMENT_RECEIVED", "COMMENT_WRITTEN", "DAILY_CHECKIN"}})

\* The 90-day Reputation and the rank are what the ledger gives, after every award, revocation and restoration.
RankIsExact ==
  \A u \in Users : /\ wallet[u].recent = Recent(ledger, u)
                   /\ wallet[u].rank = RankFor(wallet[u].REPUTATION, wallet[u].recent)

\* Content is hidden exactly as long as some restriction, of the community or of the platform, is active.
HiddenWhileRestricted == \A c \in Contents : status[c] = "HIDDEN" <=> enforced[c] # {}

\* Nobody wears an item that was taken down.
NobodyWearsRemovedItems == \A e \in equipped : active[e[2]] /\ e[1] \in owners[e[2]]

\* Every owner of an item that was taken down has been refunded for it, and nobody was ever refunded twice.
OwnersRefundedOnce ==
  \A i \in Items, u \in Users :
    LET refunds == {e \in ledger : e.reason = "TAKEDOWN_REFUND" /\ e.on = i /\ e.user = u}
    IN /\ Cardinality(refunds) <= 1
       /\ ~active[i] /\ u \in owners[i] => refunds # {}

\* r waits for a row q holds.
WaitsFor(r, q) == request[r].want # <<>> /\ Head(request[r].want) \in request[q].held

\* No transactions wait for each other: rows are always locked in the same order.
NoDeadlock ==
  \A waiting \in SUBSET {r \in Requests : IsOpen(r)} :
    waiting # {} => \E r \in waiting : \A q \in waiting : ~WaitsFor(r, q)
=============================================================================
