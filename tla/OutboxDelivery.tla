---------------------------- MODULE OutboxDelivery ----------------------------
(***************************************************************************)
(* Domain events on their way from the transaction that records them to the *)
(* notification they cause: the outbox table, the dispatcher of each server *)
(* process, one Kafka partition and the member of the consumer group that   *)
(* reads it.  A dispatcher step ends at each await; the other processes may *)
(* step in between, and a slow call may outlive its claim.                  *)
(***************************************************************************)
EXTENDS Integers, Sequences, FiniteSets

CONSTANTS
  Events,       \* the domain events
  Unsupported,  \* events of a type the dispatcher does not know
  Unusable,     \* events whose payload the consumer can never process
  Processes,    \* the server processes, each with its dispatcher
  NoEvent,      \* nothing being delivered
  BatchSize,    \* BATCH_SIZE
  MaxBatches,   \* MAX_BATCHES_PER_CYCLE
  MaxAttempts,  \* MAX_ATTEMPTS
  MaxFaults,    \* bound: crashes, database errors and rebalances
  MaxRecorded   \* bound: events ever recorded

ASSUME NotAnEvent == NoEvent \notin Events
ASSUME BatchSizeAssumption == BatchSize \in Nat \ {0}
ASSUME MaxBatchesAssumption == MaxBatches \in Nat \ {0}
ASSUME MaxAttemptsAssumption == MaxAttempts \in Nat \ {0}
ASSUME MaxFaultsAssumption == MaxFaults \in Nat
ASSUME MaxRecordedAssumption == MaxRecorded \in Nat

VARIABLES
  status,      \* OutboxEvent.status, "absent" before the row exists
  attempts,    \* OutboxEvent.attemptCount
  delayed,     \* rows whose availableAt is still to come
  stale,       \* rows whose processingAt is older than STALE_PROCESSING_MS
  connected,   \* processes whose Kafka producer has connected
  dispatcher,  \* the polling cycle of each process
  topic,       \* the partition: the events the broker appended
  offset,      \* the offset the consumer group committed
  position,    \* the offset the member with the partition has reached
  delivering,  \* the event whose notifications that member is about to push
  toPush,      \* committed events whose push some process still holds in memory
  processed,   \* ProcessedEvent rows
  effects,     \* history: how often an event's notifications were committed
  pushes,      \* history: how often they were pushed to the sockets
  faults       \* how many faults so far (bounded)

outboxVars == <<status, attempts, delayed, stale>>
consumerVars == <<offset, position, delivering, toPush, processed, effects, pushes>>
vars == <<outboxVars, connected, dispatcher, topic, consumerVars, faults>>

Row == [event : Events, attempts : Nat]    \* a row of a batch, as findReady read it
Idle == [at |-> "idle", batch |-> <<>>, attempt |-> 0, size |-> 0, round |-> 0]
Cycle == [at : {"idle", "read", "batch", "claimed", "sent", "failed"}, batch : Seq(Row),
          attempt : Nat, size : Nat, round : Nat]

-----------------------------------------------------------------------------
(* Recording and dispatching.                                                *)

\* The transaction that changes the database also writes the event's row.
RecordEvent(e) ==
  /\ status[e] = "absent"
  /\ Cardinality({x \in Events : status[x] # "absent"}) < MaxRecorded
  /\ status' = [status EXCEPT ![e] = "PENDING"]
  /\ UNCHANGED <<attempts, delayed, stale, connected, dispatcher, topic, consumerVars, faults>>

Connect(p) ==
  /\ p \notin connected
  /\ connected' = connected \cup {p}
  /\ UNCHANGED <<outboxVars, dispatcher, topic, consumerVars, faults>>

\* (Mutant: a row left in PROCESSING stays there.)
RecoverNothing == UNCHANGED <<status, delayed, stale>>

\* Rows claimed too long ago are available again, whether or not somebody still works on them.
RecoverStaleProcessing ==
  LET recovered == {e \in Events : status[e] = "PROCESSING" /\ e \in stale}
  IN /\ status' = [e \in Events |-> IF e \in recovered THEN "PENDING" ELSE status[e]]
     /\ delayed' = delayed \ recovered
     /\ stale' = stale \ recovered

\* A cycle starts when none runs in the process; without a connection it ends here.
StartCycle(p) ==
  /\ dispatcher[p].at = "idle"
  /\ RecoverStaleProcessing
  /\ dispatcher' = [dispatcher EXCEPT ![p].at = IF p \in connected THEN "read" ELSE "idle"]
  /\ UNCHANGED <<attempts, connected, topic, consumerVars, faults>>

Ready == {e \in Events : status[e] = "PENDING" /\ e \notin delayed}

\* The answers of findReady: the ready rows, BatchSize at most, ordered by their times.
Batches ==
  {s \in UNION {[1 .. n -> Ready] : n \in 0 .. BatchSize} :
     /\ \A i, j \in DOMAIN s : s[i] = s[j] => i = j
     /\ Len(s) = BatchSize \/ \A e \in Ready : \E i \in DOMAIN s : s[i] = e}

\* The rows as they were read: the dispatcher decides later on the count of this moment.
Rows(s) == [i \in DOMAIN s |-> [event |-> s[i], attempts |-> attempts[s[i]]]]

BatchRead(c, s) ==
  [c EXCEPT !.at = "batch", !.batch = Rows(s), !.size = Len(s), !.round = @ + 1]

ReadBatch(p) ==
  /\ dispatcher[p].at = "read"
  /\ \E s \in Batches : dispatcher' = [dispatcher EXCEPT ![p] = BatchRead(@, s)]
  /\ UNCHANGED <<outboxVars, connected, topic, consumerVars, faults>>

\* A full batch means more may be waiting: read on, MaxBatches at most.
EndBatch(p) ==
  /\ dispatcher[p].at = "batch"
  /\ dispatcher[p].batch = <<>>
  /\ dispatcher' = [dispatcher EXCEPT ![p] =
       IF @.size = BatchSize /\ @.round < MaxBatches THEN [@ EXCEPT !.at = "read"] ELSE Idle]
  /\ UNCHANGED <<outboxVars, connected, topic, consumerVars, faults>>

Current(p) == Head(dispatcher[p].batch).event
NextRow(c) == [c EXCEPT !.at = "batch", !.batch = Tail(@), !.attempt = 0]

\* The row is claimed if it still waits; another process may have it by now.
Claim(p) ==
  /\ dispatcher[p].at = "batch"
  /\ dispatcher[p].batch # <<>>
  /\ IF Current(p) \in Ready
     THEN /\ status' = [status EXCEPT ![Current(p)] = "PROCESSING"]
          /\ attempts' = [attempts EXCEPT ![Current(p)] = @ + 1]
          /\ stale' = stale \ {Current(p)}
          /\ dispatcher' = [dispatcher EXCEPT ![p] =
               [@ EXCEPT !.at = "claimed", !.attempt = Head(dispatcher[p].batch).attempts + 1]]
     ELSE /\ dispatcher' = [dispatcher EXCEPT ![p] = NextRow(@)]
          /\ UNCHANGED <<status, attempts, stale>>
  /\ UNCHANGED <<delayed, connected, topic, consumerVars, faults>>

\* A type the dispatcher does not know is failed at once.
RejectUnsupported(p) ==
  /\ dispatcher[p].at = "claimed"
  /\ Current(p) \in Unsupported
  /\ status' = [status EXCEPT ![Current(p)] = "FAILED"]
  /\ dispatcher' = [dispatcher EXCEPT ![p] = NextRow(@)]
  /\ stale' = stale \ {Current(p)}
  /\ UNCHANGED <<attempts, delayed, connected, topic, consumerVars, faults>>

\* (Mutant: the producer does not wait for an acknowledgement.)
SendUnacknowledged(p) ==
  /\ dispatcher[p].at = "claimed"
  /\ Current(p) \notin Unsupported
  /\ topic' \in {topic, Append(topic, Current(p))}
  /\ dispatcher' = [dispatcher EXCEPT ![p].at = "sent"]
  /\ UNCHANGED <<outboxVars, connected, consumerVars, faults>>

\* The broker appends the event and says so, appends it and the answer is lost, or does not.
Send(p) ==
  /\ dispatcher[p].at = "claimed"
  /\ Current(p) \notin Unsupported
  /\ \E appended, acknowledged \in BOOLEAN :
       /\ acknowledged => appended
       /\ topic' = IF appended THEN Append(topic, Current(p)) ELSE topic
       /\ dispatcher' = [dispatcher EXCEPT ![p].at =
            IF acknowledged THEN "sent" ELSE "failed"]
  /\ UNCHANGED <<outboxVars, connected, consumerVars, faults>>

\* The outcome is written whatever the row's status has become meanwhile.
MarkPublished(p) ==
  /\ dispatcher[p].at = "sent"
  /\ status' = [status EXCEPT ![Current(p)] = "PUBLISHED"]
  /\ stale' = stale \ {Current(p)}
  /\ dispatcher' = [dispatcher EXCEPT ![p] = NextRow(@)]
  /\ UNCHANGED <<attempts, delayed, connected, topic, consumerVars, faults>>

\* An error of the database here is caught like an error of the broker.
OutcomeNotWritten(p) ==
  /\ \/ dispatcher[p].at = "sent"
     \/ dispatcher[p].at = "claimed" /\ Current(p) \in Unsupported
  /\ faults < MaxFaults
  /\ faults' = faults + 1
  /\ dispatcher' = [dispatcher EXCEPT ![p].at = "failed"]
  /\ UNCHANGED <<outboxVars, connected, topic, consumerVars>>

\* Given up after MaxAttempts, counted from the row as it was read; retried after a delay before.
MarkFailure(p) ==
  /\ dispatcher[p].at = "failed"
  /\ IF dispatcher[p].attempt >= MaxAttempts
     THEN status' = [status EXCEPT ![Current(p)] = "FAILED"] /\ UNCHANGED delayed
     ELSE /\ status' = [status EXCEPT ![Current(p)] = "PENDING"]
          /\ delayed' = delayed \cup {Current(p)}
  /\ stale' = stale \ {Current(p)}
  /\ dispatcher' = [dispatcher EXCEPT ![p] = NextRow(@)]
  /\ UNCHANGED <<attempts, connected, topic, consumerVars, faults>>

\* A database error outside the send ends the cycle, a crash takes the connection with it;
\* the row stays as it was written last.
CycleFails(p) ==
  /\ dispatcher[p].at # "idle"
  /\ faults < MaxFaults
  /\ faults' = faults + 1
  /\ dispatcher' = [dispatcher EXCEPT ![p] = Idle]
  /\ connected' \in {connected, connected \ {p}}
  /\ UNCHANGED <<outboxVars, topic, consumerVars>>

\* Time passes.
DelayPasses(e) ==
  /\ e \in delayed
  /\ delayed' = delayed \ {e}
  /\ UNCHANGED <<status, attempts, stale, connected, dispatcher, topic, consumerVars, faults>>

ClaimAges(e) ==
  /\ status[e] = "PROCESSING"
  /\ e \notin stale
  /\ stale' = stale \cup {e}
  /\ UNCHANGED <<status, attempts, delayed, connected, dispatcher, topic, consumerVars, faults>>

-----------------------------------------------------------------------------
(* Consuming.                                                                *)

\* (Mutant: the event is processed without looking for an earlier delivery.)
HandleEventUnclaimed(e) ==
  /\ processed' = processed \cup {e}
  /\ effects' = [effects EXCEPT ![e] = @ + 1]
  /\ toPush' = toPush \cup {e}
  /\ delivering' = e
  /\ UNCHANGED position

\* (Mutant: an error of the database is logged and not thrown again.)
HandleEventOrDrop(e) ==
  \/ position' = position + 1 /\ UNCHANGED <<delivering, toPush, processed, effects>>
  \/ e \notin processed /\ HandleEventUnclaimed(e)

\* One transaction claims the event for the consumer and writes its notifications; an event
\* claimed before has none, and one that can never be processed is rolled back and skipped.
HandleEvent(e) ==
  IF e \in Unusable \cup processed
  THEN position' = position + 1 /\ UNCHANGED <<delivering, toPush, processed, effects>>
  ELSE /\ processed' = processed \cup {e}
       /\ effects' = [effects EXCEPT ![e] = @ + 1]
       /\ toPush' = toPush \cup {e}
       /\ delivering' = e
       /\ UNCHANGED position

\* A transaction that fails is rolled back and the message delivered again: nothing changed.
Consume ==
  /\ delivering = NoEvent
  /\ position < Len(topic)
  /\ HandleEvent(topic[position + 1])
  /\ UNCHANGED <<outboxVars, connected, dispatcher, topic, offset, pushes, faults>>

\* The push happens after the commit, in the process that handled the event.
PushNotifications(e) ==
  /\ e \in toPush
  /\ toPush' = toPush \ {e}
  /\ pushes' = [pushes EXCEPT ![e] = @ + 1]
  /\ IF delivering = e
     THEN delivering' = NoEvent /\ position' = position + 1
     ELSE UNCHANGED <<delivering, position>>
  /\ UNCHANGED <<outboxVars, connected, dispatcher, topic, offset, processed, effects, faults>>

CommitOffset ==
  /\ offset < position
  /\ offset' = position
  /\ UNCHANGED <<outboxVars, connected, dispatcher, topic, position, delivering, toPush,
                 processed, effects, pushes, faults>>

\* The partition goes to another member, which starts at the committed offset; pushes that a
\* crashed process held are lost, a member that only lost the partition still makes its own.
Rebalance ==
  /\ faults < MaxFaults
  /\ faults' = faults + 1
  /\ position' = offset
  /\ delivering' = NoEvent
  /\ toPush' \in SUBSET toPush
  /\ UNCHANGED <<outboxVars, connected, dispatcher, topic, offset, processed, effects, pushes>>

-----------------------------------------------------------------------------
Init ==
  /\ status = [e \in Events |-> "absent"]
  /\ attempts = [e \in Events |-> 0]
  /\ delayed = {}
  /\ stale = {}
  /\ connected = {}
  /\ dispatcher = [p \in Processes |-> Idle]
  /\ topic = <<>>
  /\ offset = 0
  /\ position = 0
  /\ delivering = NoEvent
  /\ toPush = {}
  /\ processed = {}
  /\ effects = [e \in Events |-> 0]
  /\ pushes = [e \in Events |-> 0]
  /\ faults = 0

\* What a dispatcher does on its own, once the process runs.
Dispatch(p) ==
  \/ StartCycle(p)
  \/ ReadBatch(p)
  \/ EndBatch(p)
  \/ Claim(p)
  \/ RejectUnsupported(p)
  \/ Send(p)
  \/ MarkPublished(p)
  \/ MarkFailure(p)

Next ==
  \/ \E e \in Events : RecordEvent(e) \/ DelayPasses(e) \/ ClaimAges(e) \/ PushNotifications(e)
  \/ \E p \in Processes : Connect(p) \/ Dispatch(p) \/ OutcomeNotWritten(p) \/ CycleFails(p)
  \/ Consume
  \/ CommitOffset
  \/ Rebalance

Spec == Init /\ [][Next]_vars

\* The poll timer fires again, producers retry connecting, time passes, and the consumer polls.
Fairness ==
  /\ \A p \in Processes : WF_vars(Connect(p)) /\ WF_vars(Dispatch(p))
  /\ \A e \in Events : WF_vars(DelayPasses(e)) /\ WF_vars(ClaimAges(e))
  /\ WF_vars(Consume)
  /\ \A e \in Events : WF_vars(PushNotifications(e))

FairSpec == Spec /\ Fairness

-----------------------------------------------------------------------------
(* Properties.                                                               *)

Sent(e) == \E i \in 1 .. Len(topic) : topic[i] = e

\* Every variable holds values of its column's or field's type.
TypeOK ==
  /\ status \in [Events -> {"absent", "PENDING", "PROCESSING", "PUBLISHED", "FAILED"}]
  /\ attempts \in [Events -> Nat]
  /\ delayed \subseteq Events
  /\ stale \subseteq Events
  /\ connected \subseteq Processes
  /\ dispatcher \in [Processes -> Cycle]
  /\ topic \in Seq(Events)
  /\ offset \in 0 .. Len(topic)
  /\ position \in 0 .. Len(topic)
  /\ delivering \in Events \cup {NoEvent}
  /\ toPush \subseteq Events
  /\ processed \subseteq Events
  /\ effects \in [Events -> Nat]
  /\ pushes \in [Events -> Nat]
  /\ faults \in Nat

\* Nothing is marked published that the broker does not have, though marks are written whatever
\* the row's status has become: every path to the mark goes through an acknowledged send.
PublishedWasSent == \A e \in Events : status[e] = "PUBLISHED" => Sent(e)

\* A supported event is given up only after MaxAttempts claims were counted on its row, however
\* stale the count was on which the dispatcher decided.
GivesUpAfterMaxAttempts ==
  \A e \in Events \ Unsupported : status[e] = "FAILED" => attempts[e] >= MaxAttempts

\* An offset is committed only for messages that were handled: a message the group will never
\* see again has taken effect, unless it never can (its push may be lost with a process).
CommittedOffsetsWereHandled ==
  \A i \in 1 .. offset : topic[i] \in processed \cup Unusable

\* Outbox, partition and consumer together implement EventDelivery: at-least-once publishing
\* and redelivery come down to one effect and at most one push.
Promise == INSTANCE EventDelivery WITH recorded <- {e \in Events : status[e] # "absent"}
PromiseKept == Promise!Spec

\* Every recorded event is settled in the end: published or given up, through crashes, claims
\* that outlive their holders and holders that outlive their claims.
EverySettles ==
  \A e \in Events : status[e] # "absent" ~> [](status[e] \in {"PUBLISHED", "FAILED"})

\* What the broker appended takes effect in the end, unless it can never be processed.
SentTakesEffect == \A e \in Events \ Unusable : Sent(e) ~> effects[e] = 1
=============================================================================
