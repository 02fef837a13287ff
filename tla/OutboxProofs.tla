----------------------------- MODULE OutboxProofs -----------------------------
(***************************************************************************)
(* Theorems about OutboxDelivery for any number of events, processes,      *)
(* attempts and faults.                                                    *)
(***************************************************************************)
EXTENDS OutboxDelivery, SequenceTheorems, TLAPS

-----------------------------------------------------------------------------
(* Type correctness.                                                         *)

\* What findReady answers is a sequence of rows.
LEMMA BatchType ==
  ASSUME TypeOK, NEW s \in Batches
  PROVE  Rows(s) \in Seq(Row) /\ Len(s) \in Nat /\ Len(Rows(s)) = Len(s)
<1>1. PICK n \in 0 .. BatchSize : s \in [1 .. n -> Ready]
  BY DEF Batches
<1>2. \A i \in 1 .. n : s[i] \in Events /\ attempts[s[i]] \in Nat
  BY <1>1 DEF TypeOK, Ready
<1>3. n \in Nat /\ DOMAIN s = 1 .. n /\ Len(s) = n
  BY <1>1, BatchSizeAssumption
<1>4. Rows(s) \in [1 .. n -> Row]
  BY <1>2, <1>3 DEF Rows, Row
<1>5. Len(Rows(s)) = n
  BY <1>3, <1>4
<1>. QED  BY <1>3, <1>4, <1>5, SeqDef

\* The row in hand is a row of the table.
LEMMA CurrentType ==
  ASSUME TypeOK, NEW p \in Processes, dispatcher[p].batch # <<>>
  PROVE  /\ Current(p) \in Events
         /\ Head(dispatcher[p].batch) \in Row
         /\ Tail(dispatcher[p].batch) \in Seq(Row)
<1>1. dispatcher[p].batch \in Seq(Row)
  BY DEF TypeOK, Cycle
<1>2. Head(dispatcher[p].batch) \in Row /\ Tail(dispatcher[p].batch) \in Seq(Row)
  BY <1>1
<1>. QED  BY <1>2 DEF Current, Row

\* Going on to the next row keeps a cycle in its type.
LEMMA NextRowType ==
  ASSUME NEW c \in Cycle, c.batch # <<>>
  PROVE  NextRow(c) \in Cycle
<1>1. Tail(c.batch) \in Seq(Row)
  BY DEF Cycle
<1>. QED  BY <1>1 DEF Cycle, NextRow

\* So does taking a new batch.
LEMMA BatchReadType ==
  ASSUME TypeOK, NEW c \in Cycle, NEW s \in Batches
  PROVE  BatchRead(c, s) \in Cycle /\ BatchRead(c, s).at = "batch"
<1>1. PICK rows \in Seq(Row), size \in Nat, round \in Nat :
        rows = Rows(s) /\ size = Len(s) /\ round = c.round + 1
  BY BatchType DEF Cycle
<1>2. BatchRead(c, s) =
        [c EXCEPT !.at = "batch", !.batch = rows, !.size = size, !.round = round]
  BY <1>1 DEF BatchRead
<1>. QED  BY <1>2 DEF Cycle

\* A process that works on a row has it in its batch.
RowInHand == \A p \in Processes :
  dispatcher[p].at \in {"claimed", "sent", "failed"} => dispatcher[p].batch # <<>>

\* While notifications are about to be pushed, their message is still ahead of the position.
MessageInHand == delivering # NoEvent => position < Len(topic)

TypeInv == TypeOK /\ RowInHand /\ MessageInHand

\* Only its own cycle changes when a dispatcher moves.
LEMMA CycleReplaced ==
  ASSUME TypeInv, NEW p \in Processes, NEW c \in Cycle,
         c.at \in {"claimed", "sent", "failed"} => c.batch # <<>>,
         dispatcher' = [dispatcher EXCEPT ![p] = c]
  PROVE  dispatcher' \in [Processes -> Cycle] /\ RowInHand'
<1>1. dispatcher' \in [Processes -> Cycle]
  BY DEF TypeInv, TypeOK
<1>2. ASSUME NEW q \in Processes, dispatcher'[q].at \in {"claimed", "sent", "failed"}
      PROVE  dispatcher'[q].batch # <<>>
  <2>1. CASE q = p
    BY <1>2, <2>1 DEF TypeInv, TypeOK
  <2>2. CASE q # p
    BY <1>2, <2>2 DEF TypeInv, TypeOK, RowInHand
  <2>. QED  BY <2>1, <2>2
<1>. QED  BY <1>1, <1>2 DEF RowInHand

\* A dispatcher's step keeps its cycle in its type.
LEMMA CycleType ==
  ASSUME TypeInv, NEW p \in Processes, Dispatch(p)
  PROVE  dispatcher' \in [Processes -> Cycle] /\ RowInHand'
<1>. DEFINE d == dispatcher[p]
<1>0. d \in Cycle /\ 0 \in Nat
  BY DEF TypeInv, TypeOK
<1>1. CASE StartCycle(p)
  <2>. DEFINE c == [d EXCEPT !.at = IF p \in connected THEN "read" ELSE "idle"]
  <2>1. dispatcher' = [dispatcher EXCEPT ![p] = c]
    BY <1>1 DEF StartCycle
  <2>2. c \in Cycle /\ c.at \in {"read", "idle"}
    BY <1>0 DEF Cycle
  <2>. QED  BY <2>1, <2>2, CycleReplaced
<1>2. CASE ReadBatch(p)
  <2>1. PICK s \in Batches : dispatcher' = [dispatcher EXCEPT ![p] = BatchRead(d, s)]
    BY <1>2 DEF ReadBatch
  <2>2. BatchRead(d, s) \in Cycle /\ BatchRead(d, s).at = "batch"
    BY <1>0, BatchReadType DEF TypeInv
  <2>. QED  BY <2>1, <2>2, CycleReplaced
<1>3. CASE EndBatch(p)
  <2>. DEFINE c == IF d.size = BatchSize /\ d.round < MaxBatches THEN [d EXCEPT !.at = "read"] ELSE Idle
  <2>1. dispatcher' = [dispatcher EXCEPT ![p] = c]
    BY <1>3 DEF EndBatch
  <2>2. c \in Cycle /\ c.at \in {"read", "idle"}
    BY <1>0 DEF Cycle, Idle
  <2>. QED  BY <2>1, <2>2, CycleReplaced
<1>4. CASE Claim(p) /\ Current(p) \in Ready
  <2>. DEFINE c == [d EXCEPT !.at = "claimed", !.attempt = Head(d.batch).attempts + 1]
  <2>1. dispatcher' = [dispatcher EXCEPT ![p] = c] /\ d.batch # <<>>
    BY <1>4 DEF Claim
  <2>2. Head(d.batch).attempts + 1 \in Nat
    BY <2>1, CurrentType DEF TypeInv, Row
  <2>3. c \in Cycle /\ c.batch # <<>>
    BY <1>0, <2>1, <2>2 DEF Cycle
  <2>. QED  BY <2>1, <2>3, CycleReplaced
<1>5. CASE RejectUnsupported(p) \/ MarkPublished(p) \/ MarkFailure(p)
             \/ (Claim(p) /\ Current(p) \notin Ready)
  <2>1. dispatcher' = [dispatcher EXCEPT ![p] = NextRow(d)] /\ d.batch # <<>>
    BY <1>5 DEF TypeInv, RowInHand, RejectUnsupported, MarkPublished, MarkFailure, Claim
  <2>2. NextRow(d) \in Cycle /\ NextRow(d).at = "batch"
    BY <1>0, <2>1, NextRowType DEF NextRow, Cycle
  <2>. QED  BY <2>1, <2>2, CycleReplaced
<1>6. CASE Send(p)
  <2>1. PICK at \in {"sent", "failed"} : dispatcher' = [dispatcher EXCEPT ![p].at = at]
    BY <1>6 DEF Send
  <2>. DEFINE c == [d EXCEPT !.at = at]
  <2>2. dispatcher' = [dispatcher EXCEPT ![p] = c] /\ d.batch # <<>>
    BY <1>6, <2>1 DEF TypeInv, RowInHand, Send
  <2>3. c \in Cycle /\ c.batch # <<>>
    BY <1>0, <2>2 DEF Cycle
  <2>. QED  BY <2>2, <2>3, CycleReplaced
<1>. QED  BY <1>1, <1>2, <1>3, <1>4, <1>5, <1>6 DEF Dispatch

\* Every step keeps the types.
LEMMA TypeStep ==
  ASSUME TypeInv, [Next]_vars
  PROVE  TypeInv'
<1>. USE DEF TypeInv
<1>1. ASSUME NEW p \in Processes, Dispatch(p)
      PROVE  TypeInv'
  <2>1. dispatcher' \in [Processes -> Cycle] /\ RowInHand'
    BY <1>1, CycleType
  <2>2. /\ status' \in [Events -> {"absent", "PENDING", "PROCESSING", "PUBLISHED", "FAILED"}]
        /\ attempts' \in [Events -> Nat]
        /\ delayed' \subseteq Events
        /\ stale' \subseteq Events
        /\ topic' \in Seq(Events) /\ Len(topic') \in {Len(topic), Len(topic) + 1}
    <3>1. dispatcher[p].at \in {"claimed", "sent", "failed"} => Current(p) \in Events
      BY CurrentType DEF RowInHand
    <3>2. dispatcher[p].batch # <<>> => Current(p) \in Events
      BY CurrentType
    <3>3. CASE StartCycle(p)
      BY <3>3 DEF StartCycle, RecoverStaleProcessing, TypeOK
    <3>4. CASE ReadBatch(p) \/ EndBatch(p)
      BY <3>4 DEF ReadBatch, EndBatch, outboxVars, TypeOK
    <3>5. CASE Claim(p)
      <4>1. Current(p) \in Events
        BY <3>2, <3>5 DEF Claim
      <4>2. CASE Current(p) \in Ready
        <5>1. /\ status' = [status EXCEPT ![Current(p)] = "PROCESSING"]
              /\ attempts' = [attempts EXCEPT ![Current(p)] = @ + 1]
              /\ stale' = stale \ {Current(p)}
              /\ delayed' = delayed /\ topic' = topic
          BY <3>5, <4>2 DEF Claim
        <5>. QED  BY <4>1, <5>1 DEF TypeOK
      <4>3. CASE Current(p) \notin Ready
        BY <3>5, <4>3 DEF Claim, TypeOK
      <4>. QED  BY <4>2, <4>3
    <3>6. CASE RejectUnsupported(p)
      <4>1. Current(p) \in Events
        BY <3>1, <3>6 DEF RejectUnsupported
      <4>. QED  BY <3>6, <4>1 DEF RejectUnsupported, TypeOK
    <3>7. CASE MarkPublished(p)
      <4>1. Current(p) \in Events
        BY <3>1, <3>7 DEF MarkPublished
      <4>. QED  BY <3>7, <4>1 DEF MarkPublished, TypeOK
    <3>8. CASE MarkFailure(p)
      <4>1. Current(p) \in Events
        BY <3>1, <3>8 DEF MarkFailure
      <4>. QED  BY <3>8, <4>1 DEF MarkFailure, TypeOK
    <3>9. CASE Send(p)
      <4>1. Current(p) \in Events
        BY <3>1, <3>9 DEF Send
      <4>2. topic' \in {topic, Append(topic, Current(p))}
        BY <3>9 DEF Send
      <4>. QED  BY <3>9, <4>1, <4>2 DEF Send, outboxVars, TypeOK
    <3>. QED  BY <1>1, <3>3, <3>4, <3>5, <3>6, <3>7, <3>8, <3>9 DEF Dispatch
  <2>3. UNCHANGED <<connected, consumerVars, faults>>
    BY <1>1 DEF Dispatch, StartCycle, ReadBatch, EndBatch, Claim, RejectUnsupported, Send,
       MarkPublished, MarkFailure
  <2>. QED  BY <2>1, <2>2, <2>3, SMTT(20) DEF TypeOK, MessageInHand, consumerVars
<1>2. ASSUME NEW p \in Processes, OutcomeNotWritten(p) \/ CycleFails(p)
      PROVE  TypeInv'
  <2>1. CASE OutcomeNotWritten(p)
    <3>. DEFINE c == [dispatcher[p] EXCEPT !.at = "failed"]
    <3>1. c \in Cycle /\ c.batch # <<>> /\ dispatcher' = [dispatcher EXCEPT ![p] = c]
      BY <2>1 DEF OutcomeNotWritten, TypeOK, RowInHand, Cycle
    <3>2. dispatcher' \in [Processes -> Cycle] /\ RowInHand'
      BY <3>1, CycleReplaced
    <3>. QED
      BY <2>1, <3>2 DEF OutcomeNotWritten, TypeOK, MessageInHand, outboxVars, consumerVars
  <2>2. CASE CycleFails(p)
    <3>1. Idle \in Cycle /\ Idle.at = "idle"
      BY DEF Idle, Cycle
    <3>2. dispatcher' \in [Processes -> Cycle] /\ RowInHand'
      BY <2>2, <3>1, CycleReplaced DEF CycleFails
    <3>. QED
      BY <2>2, <3>2 DEF CycleFails, TypeOK, MessageInHand, outboxVars, consumerVars
  <2>. QED  BY <1>2, <2>1, <2>2
<1>3. CASE (\E e \in Events : RecordEvent(e) \/ DelayPasses(e) \/ ClaimAges(e))
             \/ (\E p \in Processes : Connect(p))
  BY <1>3 DEF RecordEvent, DelayPasses, ClaimAges, Connect, TypeOK, RowInHand, MessageInHand,
     outboxVars, consumerVars
<1>4. ASSUME NEW e \in Events, PushNotifications(e)
      PROVE  TypeInv'
  <2>1. /\ delivering' \in Events \cup {NoEvent}
        /\ position' \in 0 .. Len(topic)
        /\ delivering' # NoEvent => position' < Len(topic)
    <3>1. CASE delivering = e
      BY <1>4, <3>1, NotAnEvent DEF PushNotifications, TypeOK, MessageInHand
    <3>2. CASE delivering # e
      BY <1>4, <3>2 DEF PushNotifications, TypeOK, MessageInHand
    <3>. QED  BY <3>1, <3>2
  <2>2. toPush' \subseteq Events /\ pushes' \in [Events -> Nat]
    BY <1>4 DEF PushNotifications, TypeOK
  <2>3. UNCHANGED <<outboxVars, connected, dispatcher, topic, offset, processed, effects, faults>>
    BY <1>4 DEF PushNotifications
  <2>. QED  BY <2>1, <2>2, <2>3 DEF TypeOK, RowInHand, MessageInHand, outboxVars
<1>5. CASE Consume
  <2>1. topic[position + 1] \in Events
    BY <1>5 DEF Consume, TypeOK
  <2>2. /\ delivering' \in Events \cup {NoEvent}
        /\ position' \in 0 .. Len(topic)
        /\ delivering' # NoEvent => position' < Len(topic)
    BY <1>5, <2>1 DEF Consume, HandleEvent, TypeOK
  <2>3. toPush' \subseteq Events /\ processed' \subseteq Events /\ effects' \in [Events -> Nat]
    BY <1>5, <2>1, SMTT(20) DEF Consume, HandleEvent, TypeOK
  <2>4. UNCHANGED <<outboxVars, connected, dispatcher, topic, offset, pushes, faults>>
    BY <1>5 DEF Consume
  <2>. QED  BY <2>2, <2>3, <2>4 DEF TypeOK, RowInHand, MessageInHand, outboxVars
<1>6. CASE CommitOffset \/ Rebalance
  <2>1. /\ offset' \in 0 .. Len(topic)
        /\ position' \in 0 .. Len(topic)
        /\ delivering' \in Events \cup {NoEvent}
        /\ delivering' # NoEvent => position' < Len(topic)
        /\ faults' \in Nat
        /\ toPush' \subseteq Events
    <3>1. CASE CommitOffset
      BY <3>1 DEF CommitOffset, TypeOK, MessageInHand
    <3>2. CASE Rebalance
      BY <3>2 DEF Rebalance, TypeOK
    <3>. QED  BY <1>6, <3>1, <3>2
  <2>2. UNCHANGED <<outboxVars, connected, dispatcher, topic, processed, effects, pushes>>
    BY <1>6 DEF CommitOffset, Rebalance, outboxVars
  <2>. QED  BY <2>1, <2>2 DEF TypeOK, RowInHand, MessageInHand, outboxVars
<1>7. CASE UNCHANGED vars
  BY <1>7 DEF vars, TypeOK, RowInHand, MessageInHand, outboxVars, consumerVars
<1>. QED  BY <1>1, <1>2, <1>3, <1>4, <1>5, <1>6, <1>7 DEF Next

LEMMA TypeInvHolds == Spec => []TypeInv
<1>1. Init => TypeInv
  BY DEF Init, TypeInv, TypeOK, RowInHand, MessageInHand, Idle, Cycle
<1>. QED  BY <1>1, TypeStep, PTL DEF Spec

\* TypeOK: tables, cycles and offsets hold what their columns and fields may, and neither the
\* committed offset nor a member's position ever passes the end of the partition.
THEOREM OutboxTypeCorrect == Spec => []TypeOK
BY TypeInvHolds, PTL DEF TypeInv

-----------------------------------------------------------------------------
(* What is published was sent, and what is given up was tried.               *)

Statuses == {"absent", "PENDING", "PROCESSING", "PUBLISHED", "FAILED"}

\* The rows of a cycle's batch exist and count at least the attempts that were read; the row in
\* hand counts this attempt too, and after an acknowledged send it is in the partition.
CycleOk(c, st, att, tp) ==
  /\ \A i \in 1 .. Len(c.batch) :
       st[c.batch[i].event] # "absent" /\ c.batch[i].attempts <= att[c.batch[i].event]
  /\ c.at \in {"claimed", "sent", "failed"} => c.attempt <= att[Head(c.batch).event]
  /\ c.at = "sent" => \E i \in 1 .. Len(tp) : tp[i] = Head(c.batch).event

OutboxInv ==
  /\ \A p \in Processes : CycleOk(dispatcher[p], status, attempts, topic)
  /\ \A i \in 1 .. Len(topic) : status[topic[i]] # "absent"
  /\ PublishedWasSent
  /\ GivesUpAfterMaxAttempts

\* Tables only gain: rows are not deleted, counts do not fall, messages stay.
Gains(st, att, tp, st2, att2, tp2) ==
  /\ \A e \in Events : /\ st[e] # "absent" => st2[e] # "absent"
                       /\ att[e] <= att2[e]
  /\ Len(tp) <= Len(tp2)
  /\ \A i \in 1 .. Len(tp) : tp2[i] = tp[i]

\* What is known of a cycle's rows stays true while the tables gain.
LEMMA CycleStaysOk ==
  ASSUME NEW c \in Cycle, NEW st \in [Events -> Statuses], NEW st2 \in [Events -> Statuses],
         NEW att \in [Events -> Nat], NEW att2 \in [Events -> Nat],
         NEW tp \in Seq(Events), NEW tp2 \in Seq(Events),
         c.at \in {"claimed", "sent", "failed"} => c.batch # <<>>,
         CycleOk(c, st, att, tp), Gains(st, att, tp, st2, att2, tp2)
  PROVE  CycleOk(c, st2, att2, tp2)
<1>0. c.batch \in Seq(Row) /\ c.attempt \in Nat
  BY DEF Cycle
<1>1. \A i \in 1 .. Len(c.batch) : c.batch[i].event \in Events /\ c.batch[i].attempts \in Nat
  <2>1. \A i \in 1 .. Len(c.batch) : c.batch[i] \in Row
    BY <1>0, ElementOfSeq
  <2>. QED  BY <2>1 DEF Row
<1>2. ASSUME NEW i \in 1 .. Len(c.batch)
      PROVE  st2[c.batch[i].event] # "absent" /\ c.batch[i].attempts <= att2[c.batch[i].event]
  BY <1>1 DEF CycleOk, Gains
<1>3. ASSUME c.at \in {"claimed", "sent", "failed"}
      PROVE  c.attempt <= att2[Head(c.batch).event]
  <2>1. Head(c.batch) \in Row
    BY <1>0, <1>3
  <2>2. Head(c.batch).event \in Events
    BY <2>1 DEF Row
  <2>3. c.attempt <= att[Head(c.batch).event]
    BY <1>3 DEF CycleOk
  <2>4. att[Head(c.batch).event] <= att2[Head(c.batch).event]
    BY <2>2 DEF Gains
  <2>. QED  BY <1>0, <2>2, <2>3, <2>4
<1>4. ASSUME c.at = "sent"
      PROVE  \E i \in 1 .. Len(tp2) : tp2[i] = Head(c.batch).event
  BY <1>4 DEF CycleOk, Gains
<1>. QED  BY <1>2, <1>3, <1>4 DEF CycleOk

\* Going on to the next row keeps what is known of the rest.
LEMMA NextRowOk ==
  ASSUME NEW c \in Cycle, NEW st, NEW att, NEW tp, c.batch # <<>>, CycleOk(c, st, att, tp)
  PROVE  CycleOk(NextRow(c), st, att, tp)
<1>1. c.batch \in Seq(Row)
  BY DEF Cycle
<1>2. NextRow(c).batch = Tail(c.batch) /\ NextRow(c).at = "batch"
  BY DEF NextRow, Cycle
<1>3. ASSUME NEW i \in 1 .. Len(Tail(c.batch))
      PROVE  i + 1 \in 1 .. Len(c.batch) /\ Tail(c.batch)[i] = c.batch[i + 1]
  BY <1>1
<1>. QED  BY <1>2, <1>3 DEF CycleOk

\* No step takes back a row, an attempt or a message.
LEMMA StepGains ==
  ASSUME TypeInv, OutboxInv, [Next]_vars
  PROVE  Gains(status, attempts, topic, status', attempts', topic')
<1>. USE DEF TypeInv, TypeOK
<1>1. ASSUME NEW p \in Processes, Dispatch(p)
      PROVE  Gains(status, attempts, topic, status', attempts', topic')
  <2>1. dispatcher[p].batch # <<>> => Current(p) \in Events
    BY CurrentType
  <2>2. CASE StartCycle(p)
    BY <2>2 DEF StartCycle, RecoverStaleProcessing, Gains
  <2>3. CASE ReadBatch(p) \/ EndBatch(p)
    BY <2>3, SMTT(20) DEF ReadBatch, EndBatch, outboxVars, Gains
  <2>4. CASE Claim(p)
    <3>1. Current(p) \in Events
      BY <2>1, <2>4 DEF Claim
    <3>2. CASE Current(p) \in Ready
      <4>1. /\ status' = [status EXCEPT ![Current(p)] = "PROCESSING"]
            /\ attempts' = [attempts EXCEPT ![Current(p)] = @ + 1]
            /\ topic' = topic
        BY <2>4, <3>2 DEF Claim
      <4>2. \A e \in Events : attempts[e] <= attempts'[e]
        BY <3>1, <4>1
      <4>3. \A e \in Events : status[e] # "absent" => status'[e] # "absent"
        BY <3>1, <4>1
      <4>. QED  BY <4>1, <4>2, <4>3 DEF Gains
    <3>3. CASE Current(p) \notin Ready
      BY <2>4, <3>3 DEF Claim, Gains
    <3>. QED  BY <3>2, <3>3
  <2>5. CASE RejectUnsupported(p) \/ MarkPublished(p) \/ MarkFailure(p)
    <3>1. PICK new \in {"FAILED", "PUBLISHED", "PENDING"} :
            status' = [status EXCEPT ![Current(p)] = new]
      BY <2>5 DEF RejectUnsupported, MarkPublished, MarkFailure
    <3>2. attempts' = attempts /\ topic' = topic
      BY <2>5 DEF RejectUnsupported, MarkPublished, MarkFailure
    <3>3. \A e \in Events : status[e] # "absent" => status'[e] # "absent"
      BY <3>1
    <3>. QED  BY <3>2, <3>3 DEF Gains
  <2>6. CASE Send(p)
    <3>1. Current(p) \in Events
      BY <2>1, <2>6 DEF Send, RowInHand
    <3>2. topic' = topic \/ topic' = Append(topic, Current(p))
      BY <2>6 DEF Send
    <3>3. Len(topic) <= Len(topic') /\ \A i \in 1 .. Len(topic) : topic'[i] = topic[i]
      <4>1. CASE topic' = topic
        BY <4>1
      <4>2. CASE topic' = Append(topic, Current(p))
        <5>1. topic \in Seq(Events)
          OBVIOUS
        <5>. HIDE DEF TypeInv
        <5>. QED  BY <3>1, <4>2, <5>1, AppendProperties
      <4>. QED  BY <3>2, <4>1, <4>2
    <3>5. status' = status /\ attempts' = attempts
      BY <2>6 DEF Send, outboxVars
    <3>4. \A e \in Events : attempts[e] <= attempts[e]
      OBVIOUS
    <3>. QED  BY <3>3, <3>4, <3>5 DEF Gains
  <2>. QED  BY <1>1, <2>2, <2>3, <2>4, <2>5, <2>6 DEF Dispatch
<1>2. CASE \E e \in Events : RecordEvent(e)
  BY <1>2 DEF RecordEvent, Gains
<1>3. ASSUME UNCHANGED <<status, attempts, topic>>
      PROVE  Gains(status, attempts, topic, status', attempts', topic')
  BY <1>3 DEF Gains
<1>4. ASSUME NEW e \in Events, DelayPasses(e) \/ ClaimAges(e) \/ PushNotifications(e)
      PROVE  UNCHANGED <<status, attempts, topic>>
  BY <1>4 DEF DelayPasses, ClaimAges, PushNotifications, outboxVars
<1>5. ASSUME NEW p \in Processes, Connect(p) \/ OutcomeNotWritten(p) \/ CycleFails(p)
      PROVE  UNCHANGED <<status, attempts, topic>>
  BY <1>5 DEF Connect, OutcomeNotWritten, CycleFails, outboxVars
<1>6. Consume \/ CommitOffset \/ Rebalance \/ UNCHANGED vars => UNCHANGED <<status, attempts, topic>>
  BY DEF Consume, CommitOffset, Rebalance, vars, outboxVars
<1>. QED  BY <1>1, <1>2, <1>3, <1>4, <1>5, <1>6 DEF Next

\* The cycles that do not move stay as they are known.
LEMMA OtherCyclesOk ==
  ASSUME TypeInv, OutboxInv, [Next]_vars, NEW q \in Processes, dispatcher'[q] = dispatcher[q]
  PROVE  CycleOk(dispatcher'[q], status', attempts', topic')
<1>1. Gains(status, attempts, topic, status', attempts', topic')
  BY StepGains
<1>2. TypeInv'
  BY TypeStep
<1>3. /\ status \in [Events -> Statuses] /\ status' \in [Events -> Statuses]
      /\ attempts \in [Events -> Nat] /\ attempts' \in [Events -> Nat]
      /\ topic \in Seq(Events) /\ topic' \in Seq(Events)
      /\ dispatcher[q] \in Cycle
  BY <1>2 DEF TypeInv, TypeOK, Statuses
<1>4. dispatcher[q].at \in {"claimed", "sent", "failed"} => dispatcher[q].batch # <<>>
  BY DEF TypeInv, RowInHand
<1>5. CycleOk(dispatcher[q], status, attempts, topic)
  BY DEF OutboxInv
<1>. QED  BY <1>1, <1>3, <1>4, <1>5, CycleStaysOk

\* The cycle that moves is known to be in order afterwards.
LEMMA MovingCycleOk ==
  ASSUME TypeInv, OutboxInv, NEW p \in Processes,
         Dispatch(p) \/ OutcomeNotWritten(p) \/ CycleFails(p)
  PROVE  CycleOk(dispatcher'[p], status', attempts', topic')
<1>. DEFINE d == dispatcher[p]
<1>1. d \in Cycle /\ dispatcher \in [Processes -> Cycle] /\ d.batch \in Seq(Row)
  BY DEF TypeInv, TypeOK, Cycle
<1>2. CycleOk(d, status, attempts, topic)
  BY DEF OutboxInv
<1>3. CycleOk(Idle, status', attempts', topic')
  BY DEF CycleOk, Idle
<1>4. ASSUME NEW c \in Cycle, c.batch = d.batch, c.at \in {"read", "idle", "failed"},
             c.at = "failed" => c.attempt = d.attempt /\ d.at \in {"claimed", "sent"}
      PROVE  CycleOk(c, status, attempts, topic)
  BY <1>2, <1>4 DEF CycleOk
<1>5. [Next]_vars
  BY DEF Next
<1>6. Gains(status, attempts, topic, status', attempts', topic') /\ TypeInv'
  BY <1>5, StepGains, TypeStep
<1>7. /\ status \in [Events -> Statuses] /\ status' \in [Events -> Statuses]
      /\ attempts \in [Events -> Nat] /\ attempts' \in [Events -> Nat]
      /\ topic \in Seq(Events) /\ topic' \in Seq(Events)
      /\ dispatcher'[p] \in Cycle
      /\ dispatcher'[p].at \in {"claimed", "sent", "failed"} => dispatcher'[p].batch # <<>>
  BY <1>6 DEF TypeInv, TypeOK, Statuses, RowInHand
<1>8. SUFFICES \/ CycleOk(dispatcher'[p], status, attempts, topic)
               \/ CycleOk(dispatcher'[p], status', attempts', topic')
  BY <1>6, <1>7, CycleStaysOk
<1>9. CASE StartCycle(p)
  <2>1. dispatcher'[p] = [d EXCEPT !.at = IF p \in connected THEN "read" ELSE "idle"]
    BY <1>1, <1>9 DEF StartCycle
  <2>2. dispatcher'[p].at \in {"read", "idle"} /\ dispatcher'[p].batch = d.batch
    BY <1>1, <2>1 DEF Cycle
  <2>. QED  BY <1>4, <1>7, <2>2
<1>10. CASE ReadBatch(p)
  <2>1. PICK s \in Batches : dispatcher'[p] = BatchRead(d, s)
    BY <1>1, <1>10 DEF ReadBatch
  <2>2. dispatcher'[p].at = "batch" /\ dispatcher'[p].batch = Rows(s)
    BY <1>1, <2>1 DEF BatchRead, Cycle
  <2>3. PICK n \in Nat : s \in [1 .. n -> Ready]
    BY BatchSizeAssumption DEF Batches
  <2>4. Rows(s) \in Seq(Row) /\ Len(Rows(s)) = n
    BY <2>3, BatchType DEF TypeInv
  <2>5. ASSUME NEW i \in 1 .. n
        PROVE  /\ status[Rows(s)[i].event] # "absent"
               /\ Rows(s)[i].attempts <= attempts[Rows(s)[i].event]
    <3>1. Rows(s)[i] = [event |-> s[i], attempts |-> attempts[s[i]]]
      BY <2>3 DEF Rows
    <3>2. s[i] \in Events /\ status[s[i]] = "PENDING"
      BY <2>3 DEF Ready
    <3>. QED  BY <1>7, <3>1, <3>2
  <2>. QED  BY <2>2, <2>4, <2>5 DEF CycleOk
<1>11. CASE EndBatch(p)
  <2>1. dispatcher'[p] \in {[d EXCEPT !.at = "read"], Idle}
    BY <1>1, <1>11 DEF EndBatch
  <2>2. CASE dispatcher'[p] = [d EXCEPT !.at = "read"]
    <3>1. dispatcher'[p].at = "read" /\ dispatcher'[p].batch = d.batch
      BY <1>1, <2>2 DEF Cycle
    <3>. QED  BY <1>4, <1>7, <3>1
  <2>. QED  BY <1>3, <2>1, <2>2
<1>12. CASE Claim(p) /\ Current(p) \in Ready
  <2>1. /\ dispatcher'[p] = [d EXCEPT !.at = "claimed", !.attempt = Head(d.batch).attempts + 1]
        /\ attempts' = [attempts EXCEPT ![Current(p)] = @ + 1]
        /\ d.batch # <<>>
    BY <1>1, <1>12 DEF Claim
  <2>2. /\ dispatcher'[p].at = "claimed" /\ dispatcher'[p].batch = d.batch
        /\ dispatcher'[p].attempt = Head(d.batch).attempts + 1
    BY <1>1, <2>1 DEF Cycle
  <2>3. Head(d.batch) \in Row /\ Head(d.batch) = d.batch[1] /\ 1 \in 1 .. Len(d.batch)
    BY <1>1, <2>1
  <2>4. Head(d.batch).attempts <= attempts[Current(p)]
    BY <1>2, <2>3 DEF CycleOk, Current
  <2>5. Current(p) \in Events /\ Head(d.batch).attempts \in Nat
    BY <2>3 DEF Row, Current
  <2>6. dispatcher'[p].attempt <= attempts'[Current(p)]
    BY <1>7, <2>1, <2>2, <2>4, <2>5
  <2>7. \A i \in 1 .. Len(d.batch) : /\ status'[d.batch[i].event] # "absent"
                                     /\ d.batch[i].attempts <= attempts'[d.batch[i].event]
    <3>1. [d EXCEPT !.at = "batch"] \in Cycle /\ [d EXCEPT !.at = "batch"].batch = d.batch
            /\ [d EXCEPT !.at = "batch"].at = "batch"
      BY <1>1 DEF Cycle
    <3>2. CycleOk([d EXCEPT !.at = "batch"], status, attempts, topic)
      BY <1>2, <3>1 DEF CycleOk
    <3>3. CycleOk([d EXCEPT !.at = "batch"], status', attempts', topic')
      BY <1>6, <1>7, <3>1, <3>2, CycleStaysOk
    <3>. QED  BY <3>1, <3>3 DEF CycleOk
  <2>. QED  BY <2>2, <2>6, <2>7 DEF CycleOk, Current
<1>13. CASE RejectUnsupported(p) \/ MarkPublished(p) \/ MarkFailure(p)
              \/ (Claim(p) /\ Current(p) \notin Ready)
  <2>1. dispatcher'[p] = NextRow(d) /\ d.batch # <<>>
    BY <1>1, <1>13 DEF TypeInv, RowInHand, RejectUnsupported, MarkPublished, MarkFailure, Claim
  <2>. QED  BY <1>1, <1>2, <2>1, NextRowOk
<1>14. CASE Send(p)
  <2>1. PICK at \in {"sent", "failed"} :
          /\ dispatcher'[p] = [d EXCEPT !.at = at]
          /\ at = "sent" => topic' = Append(topic, Current(p))
    BY <1>1, <1>14 DEF Send
  <2>2. dispatcher'[p].at = at /\ dispatcher'[p].batch = d.batch /\ dispatcher'[p].attempt = d.attempt
    BY <1>1, <2>1 DEF Cycle
  <2>3. d.at = "claimed" /\ d.batch # <<>>
    BY <1>14 DEF Send, TypeInv, RowInHand
  <2>4. CASE at = "failed"
    BY <1>4, <1>7, <2>2, <2>3, <2>4
  <2>5. CASE at = "sent"
    <3>1. [d EXCEPT !.at = "failed"] \in Cycle /\ [d EXCEPT !.at = "failed"].batch = d.batch
            /\ [d EXCEPT !.at = "failed"].at = "failed"
            /\ [d EXCEPT !.at = "failed"].attempt = d.attempt
      BY <1>1 DEF Cycle
    <3>2. CycleOk([d EXCEPT !.at = "failed"], status', attempts', topic')
      BY <1>4, <1>6, <1>7, <2>3, <3>1, CycleStaysOk
    <3>3. Current(p) \in Events
      BY <2>3, CurrentType DEF TypeInv
    <3>4. topic'[Len(topic) + 1] = Current(p) /\ Len(topic) + 1 \in 1 .. Len(topic')
      BY <1>7, <2>1, <2>5, <3>3, AppendProperties
    <3>. QED  BY <2>2, <2>5, <3>1, <3>2, <3>4 DEF CycleOk, Current
  <2>. QED  BY <2>1, <2>4, <2>5
<1>15. CASE OutcomeNotWritten(p)
  <2>1. dispatcher'[p] = [d EXCEPT !.at = "failed"] /\ d.at \in {"claimed", "sent"}
    BY <1>1, <1>15 DEF OutcomeNotWritten
  <2>2. dispatcher'[p].at = "failed" /\ dispatcher'[p].batch = d.batch
          /\ dispatcher'[p].attempt = d.attempt
    BY <1>1, <2>1 DEF Cycle
  <2>. QED  BY <1>4, <1>7, <2>1, <2>2
<1>16. CASE CycleFails(p)
  BY <1>1, <1>3, <1>16 DEF CycleFails
<1>. QED  BY <1>9, <1>10, <1>11, <1>12, <1>13, <1>14, <1>15, <1>16 DEF Dispatch

LEMMA OutboxStep ==
  ASSUME TypeInv, OutboxInv, [Next]_vars
  PROVE  OutboxInv'
<1>1. Gains(status, attempts, topic, status', attempts', topic') /\ TypeInv'
  BY StepGains, TypeStep
<1>2. ASSUME NEW q \in Processes
      PROVE  CycleOk(dispatcher'[q], status', attempts', topic')
  <2>1. CASE dispatcher'[q] = dispatcher[q]
    BY <2>1, OtherCyclesOk
  <2>2. CASE dispatcher'[q] # dispatcher[q]
    <3>1. PICK p \in Processes : Dispatch(p) \/ OutcomeNotWritten(p) \/ CycleFails(p)
      BY <2>2 DEF Next, RecordEvent, DelayPasses, ClaimAges, PushNotifications, Connect, Consume,
         CommitOffset, Rebalance, vars
    <3>2. \E c \in Cycle : dispatcher' = [dispatcher EXCEPT ![p] = dispatcher'[p]]
      BY <3>1 DEF TypeInv, TypeOK, Dispatch, StartCycle, ReadBatch, EndBatch, Claim,
         RejectUnsupported, Send, MarkPublished, MarkFailure, OutcomeNotWritten, CycleFails
    <3>3. q = p
      BY <2>2, <3>2 DEF TypeInv, TypeOK
    <3>. QED  BY <3>1, <3>3, MovingCycleOk
  <2>. QED  BY <2>1, <2>2
<1>3. \A i \in 1 .. Len(topic') : status'[topic'[i]] # "absent"
  <2>1. CASE topic' = topic
    <3>1. \A i \in 1 .. Len(topic) : topic[i] \in Events /\ status[topic[i]] # "absent"
      BY SMTT(20) DEF TypeInv, TypeOK, OutboxInv
    <3>. QED  BY <1>1, <2>1, <3>1 DEF Gains
  <2>2. CASE topic' # topic
    <3>1. PICK p \in Processes : Send(p)
      BY <2>2 DEF Next, Dispatch, RecordEvent, DelayPasses, ClaimAges, PushNotifications, Connect,
         Consume, CommitOffset, Rebalance, vars, StartCycle, ReadBatch, EndBatch, Claim,
         RejectUnsupported, MarkPublished, MarkFailure, OutcomeNotWritten, CycleFails
    <3>2. dispatcher[p].batch # <<>> /\ dispatcher[p].batch \in Seq(Row)
      BY <3>1 DEF Send, TypeInv, TypeOK, RowInHand, Cycle
    <3>3. 1 \in 1 .. Len(dispatcher[p].batch) /\ Current(p) = dispatcher[p].batch[1].event
      BY <3>2 DEF Current
    <3>4. status[Current(p)] # "absent" /\ Current(p) \in Events
      BY <3>2, <3>3, CurrentType DEF OutboxInv, CycleOk, TypeInv
    <3>5. topic' = Append(topic, Current(p)) /\ status' = status
      BY <2>2, <3>1 DEF Send, outboxVars
    <3>6. topic \in Seq(Events) /\ \A i \in 1 .. Len(topic) : status[topic[i]] # "absent"
      BY DEF TypeInv, TypeOK, OutboxInv
    <3>. QED  BY <3>4, <3>5, <3>6, AppendProperties
  <2>. QED  BY <2>1, <2>2
<1>4. ASSUME NEW e \in Events, status'[e] = "PUBLISHED"
      PROVE  \E i \in 1 .. Len(topic') : topic'[i] = e
  <2>1. CASE status[e] = "PUBLISHED"
    <3>1. PICK i \in 1 .. Len(topic) : topic[i] = e
      BY <2>1 DEF OutboxInv, PublishedWasSent, Sent
    <3>2. topic \in Seq(Events) /\ topic' \in Seq(Events)
      BY <1>1 DEF TypeInv, TypeOK
    <3>. QED  BY <1>1, <3>1, <3>2 DEF Gains
  <2>2. CASE status[e] # "PUBLISHED"
    <3>1. PICK p \in Processes : MarkPublished(p)
      BY <1>4, <2>2, ZenonT(40) DEF Next, Dispatch, RecordEvent, DelayPasses, ClaimAges, PushNotifications,
         Connect, Consume, CommitOffset, Rebalance, vars, outboxVars, StartCycle, ReadBatch,
         EndBatch, Claim, RejectUnsupported, MarkFailure, OutcomeNotWritten, CycleFails, Send,
         TypeInv, TypeOK, RecoverStaleProcessing
    <3>2. dispatcher[p].at = "sent" /\ topic' = topic /\ e = Current(p)
      BY <1>4, <2>2, <3>1 DEF MarkPublished, TypeInv, TypeOK
    <3>3. CycleOk(dispatcher[p], status, attempts, topic)
      BY DEF OutboxInv
    <3>. QED  BY <3>2, <3>3 DEF CycleOk, Current
  <2>. QED  BY <2>1, <2>2
<1>5. ASSUME NEW e \in Events \ Unsupported, status'[e] = "FAILED"
      PROVE  attempts'[e] >= MaxAttempts
  <2>1. CASE status[e] = "FAILED"
    <3>1. attempts[e] >= MaxAttempts /\ attempts[e] \in Nat /\ attempts'[e] \in Nat
      BY <1>1, <2>1 DEF OutboxInv, GivesUpAfterMaxAttempts, TypeInv, TypeOK
    <3>. QED  BY <1>1, <3>1, MaxAttemptsAssumption DEF Gains
  <2>2. CASE status[e] # "FAILED"
    <3>1. PICK p \in Processes : RejectUnsupported(p) \/ MarkFailure(p)
      BY <1>5, <2>2, ZenonT(40) DEF Next, Dispatch, RecordEvent, DelayPasses, ClaimAges, PushNotifications,
         Connect, Consume, CommitOffset, Rebalance, vars, outboxVars, StartCycle, ReadBatch,
         EndBatch, Claim, MarkPublished, OutcomeNotWritten, CycleFails, Send,
         TypeInv, TypeOK, RecoverStaleProcessing
    <3>2. e = Current(p) /\ attempts' = attempts
      BY <1>5, <2>2, <3>1 DEF RejectUnsupported, MarkFailure, TypeInv, TypeOK
    <3>3. MarkFailure(p)
      BY <3>1, <3>2 DEF RejectUnsupported
    <3>4. dispatcher[p].attempt >= MaxAttempts
      BY <1>5, <3>2, <3>3 DEF MarkFailure, TypeInv, TypeOK
    <3>5. dispatcher[p].attempt <= attempts[e] /\ attempts[e] \in Nat
            /\ dispatcher[p].attempt \in Nat
      BY <3>2, <3>3 DEF MarkFailure, OutboxInv, CycleOk, Current, TypeInv, TypeOK, Cycle
    <3>. QED  BY <3>2, <3>4, <3>5, MaxAttemptsAssumption
  <2>. QED  BY <2>1, <2>2
<1>. QED  BY <1>2, <1>3, <1>4, <1>5 DEF OutboxInv, PublishedWasSent, Sent, GivesUpAfterMaxAttempts

LEMMA OutboxInvHolds == Spec => []OutboxInv
<1>1. Init => OutboxInv
  BY DEF Init, OutboxInv, CycleOk, Idle, PublishedWasSent, GivesUpAfterMaxAttempts
<1>2. TypeInv /\ OutboxInv /\ [Next]_vars => OutboxInv'
  BY OutboxStep
<1>. QED  BY <1>1, <1>2, TypeInvHolds, PTL DEF Spec

\* PublishedWasSent: whoever writes the mark, however late, the broker has the event.
THEOREM PublishedSafe == Spec => []PublishedWasSent
BY OutboxInvHolds, PTL DEF OutboxInv

\* GivesUpAfterMaxAttempts: no event that can be sent is given up early, though the decision
\* is made on the count as it was when the batch was read.
THEOREM GivingUpSafe == Spec => []GivesUpAfterMaxAttempts
BY OutboxInvHolds, PTL DEF OutboxInv

-----------------------------------------------------------------------------
(* What is consumed takes effect once.                                       *)

\* Messages before the position were handled, the one in hand was claimed, and an event's
\* effect, claim and push go together.
ConsumerInv ==
  /\ \A i \in 1 .. position : topic[i] \in processed \cup Unusable
  /\ CommittedOffsetsWereHandled
  /\ delivering # NoEvent => delivering = topic[position + 1] /\ delivering \in processed
  /\ \A e \in processed : status[e] # "absent"
  /\ \A e \in Events : effects[e] = IF e \in processed THEN 1 ELSE 0
  /\ toPush \subseteq processed
  /\ \A e \in Events : pushes[e] = 0 \/ e \in processed \ toPush

\* Steps of the dispatchers and of time leave the consumer alone.
LEMMA ConsumerAlone ==
  ASSUME TypeInv, OutboxInv, ConsumerInv, [Next]_vars, UNCHANGED consumerVars
  PROVE  ConsumerInv'
<1>1. Gains(status, attempts, topic, status', attempts', topic') /\ TypeInv'
  BY StepGains, TypeStep
<1>2. /\ position \in 0 .. Len(topic) /\ offset \in 0 .. Len(topic) /\ Len(topic) \in Nat
      /\ processed \subseteq Events
  BY DEF TypeInv, TypeOK
<1>3. \A i \in 1 .. position : topic'[i] = topic[i]
  BY <1>1, <1>2 DEF Gains
<1>4. \A i \in 1 .. offset : topic'[i] = topic[i]
  BY <1>1, <1>2 DEF Gains
<1>5. delivering # NoEvent => topic'[position + 1] = topic[position + 1]
  <2>1. delivering # NoEvent => position + 1 \in 1 .. Len(topic)
    BY <1>2 DEF TypeInv, MessageInHand
  <2>. QED  BY <1>1, <2>1 DEF Gains
<1>6. \A e \in processed : status'[e] # "absent"
  BY <1>1, <1>2 DEF Gains, ConsumerInv
<1>. QED
  BY <1>3, <1>4, <1>5, <1>6 DEF ConsumerInv, CommittedOffsetsWereHandled, consumerVars

LEMMA ConsumerStep ==
  ASSUME TypeInv, OutboxInv, ConsumerInv, [Next]_vars
  PROVE  ConsumerInv'
<1>0. /\ position \in 0 .. Len(topic) /\ offset \in 0 .. Len(topic) /\ Len(topic) \in Nat
      /\ processed \subseteq Events /\ toPush \subseteq Events
      /\ effects \in [Events -> Nat] /\ pushes \in [Events -> Nat]
      /\ \A i \in 1 .. Len(topic) : topic[i] \in Events /\ status[topic[i]] # "absent"
  BY DEF TypeInv, TypeOK, OutboxInv
<1>1. CASE Consume
  <2>. DEFINE e == topic[position + 1]
  <2>0. /\ delivering = NoEvent /\ position < Len(topic) /\ HandleEvent(e)
        /\ UNCHANGED <<status, topic, offset, pushes>>
    BY <1>1 DEF Consume, outboxVars
  <2>1. position + 1 \in 1 .. Len(topic) /\ e \in Events /\ status[e] # "absent"
    BY <1>0, <2>0
  <2>2. CASE e \in Unusable \cup processed
    <3>1. position' = position + 1 /\ UNCHANGED <<delivering, toPush, processed, effects>>
      BY <2>0, <2>2 DEF HandleEvent
    <3>2. \A i \in 1 .. position + 1 : i \in 1 .. position \/ i = position + 1
      BY <1>0
    <3>. QED
      BY <2>0, <2>2, <3>1, <3>2 DEF ConsumerInv, CommittedOffsetsWereHandled
  <2>3. CASE e \notin Unusable \cup processed
    <3>1. /\ processed' = processed \cup {e} /\ effects' = [effects EXCEPT ![e] = @ + 1]
          /\ toPush' = toPush \cup {e} /\ delivering' = e /\ position' = position
      BY <2>0, <2>3 DEF HandleEvent
    <3>2. \A x \in Events : effects'[x] = IF x \in processed' THEN 1 ELSE 0
      BY <1>0, <2>1, <2>3, <3>1 DEF ConsumerInv
    <3>3. toPush' \subseteq processed'
             /\ \A x \in Events : pushes'[x] = 0 \/ x \in processed' \ toPush'
      BY <2>0, <2>3, <3>1 DEF ConsumerInv
    <3>4. \A i \in 1 .. position' : topic'[i] \in processed' \cup Unusable
      BY <2>0, <3>1 DEF ConsumerInv
    <3>5. CommittedOffsetsWereHandled'
      BY <2>0, <3>1 DEF ConsumerInv, CommittedOffsetsWereHandled
    <3>6. delivering' = topic'[position' + 1] /\ delivering' \in processed'
      BY <2>0, <3>1
    <3>7. \A x \in processed' : status'[x] # "absent"
      BY <2>0, <2>1, <3>1 DEF ConsumerInv
    <3>. QED  BY <3>2, <3>3, <3>4, <3>5, <3>6, <3>7 DEF ConsumerInv
  <2>. QED  BY <2>2, <2>3
<1>2. ASSUME NEW e \in Events, PushNotifications(e)
      PROVE  ConsumerInv'
  <2>1. /\ e \in toPush /\ toPush' = toPush \ {e} /\ pushes' = [pushes EXCEPT ![e] = @ + 1]
        /\ UNCHANGED <<status, topic, offset, processed, effects>>
    BY <1>2 DEF PushNotifications, outboxVars
  <2>2. toPush' \subseteq processed
           /\ \A x \in Events : pushes'[x] = 0 \/ x \in processed \ toPush'
    BY <1>0, <2>1 DEF ConsumerInv
  <2>3. /\ \A i \in 1 .. position' : topic[i] \in processed \cup Unusable
        /\ delivering' # NoEvent => delivering' = topic[position' + 1] /\ delivering' \in processed
    <3>1. CASE delivering = e
      <4>1. position' = position + 1 /\ delivering' = NoEvent /\ delivering # NoEvent
        BY <1>2, <3>1, NotAnEvent DEF PushNotifications
      <4>2. \A i \in 1 .. position + 1 : i \in 1 .. position \/ i = position + 1
        BY <1>0
      <4>. QED  BY <4>1, <4>2 DEF ConsumerInv
    <3>2. CASE delivering # e
      BY <1>2, <3>2 DEF PushNotifications, ConsumerInv
    <3>. QED  BY <3>1, <3>2
  <2>. QED  BY <2>1, <2>2, <2>3 DEF ConsumerInv, CommittedOffsetsWereHandled
<1>3. CASE CommitOffset
  BY <1>3 DEF CommitOffset, ConsumerInv, CommittedOffsetsWereHandled, outboxVars
<1>4. CASE Rebalance
  <2>1. /\ position' = offset /\ delivering' = NoEvent /\ toPush' \subseteq toPush
        /\ UNCHANGED <<status, topic, offset, processed, effects, pushes>>
    BY <1>4 DEF Rebalance, outboxVars
  <2>. QED  BY <2>1 DEF ConsumerInv, CommittedOffsetsWereHandled
<1>5. CASE UNCHANGED consumerVars
  BY <1>5, ConsumerAlone
<1>6. ASSUME NEW p \in Processes, Connect(p) \/ Dispatch(p) \/ OutcomeNotWritten(p) \/ CycleFails(p)
      PROVE  UNCHANGED consumerVars
  BY <1>6 DEF Connect, Dispatch, OutcomeNotWritten, CycleFails, StartCycle, ReadBatch, EndBatch,
     Claim, RejectUnsupported, Send, MarkPublished, MarkFailure
<1>7. ASSUME NEW e \in Events, RecordEvent(e) \/ DelayPasses(e) \/ ClaimAges(e)
      PROVE  UNCHANGED consumerVars
  BY <1>7 DEF RecordEvent, DelayPasses, ClaimAges
<1>8. CASE UNCHANGED vars
  BY <1>8, <1>5 DEF vars
<1>. QED  BY <1>1, <1>2, <1>3, <1>4, <1>5, <1>6, <1>7, <1>8 DEF Next

LEMMA ConsumerInvHolds == Spec => []ConsumerInv
<1>1. Init => ConsumerInv
  BY DEF Init, ConsumerInv, CommittedOffsetsWereHandled
<1>2. TypeInv /\ OutboxInv /\ ConsumerInv /\ [Next]_vars => ConsumerInv'
  BY ConsumerStep
<1>. QED  BY <1>1, <1>2, TypeInvHolds, OutboxInvHolds, PTL DEF Spec

\* CommittedOffsetsWereHandled: what the consumer group will never see again was handled,
\* through any number of rebalances and redeliveries.
THEOREM OffsetsSafe == Spec => []CommittedOffsetsWereHandled
BY ConsumerInvHolds, PTL DEF ConsumerInv

-----------------------------------------------------------------------------
(* Refinement.                                                               *)

Recorded == {e \in Events : status[e] # "absent"}

\* Only RecordEvent writes a new row.
LEMMA RecordedGrows ==
  ASSUME TypeInv, OutboxInv, [Next]_vars,
         \A e \in Events : ~RecordEvent(e)
  PROVE  Recorded' = Recorded
<1>1. ASSUME NEW e \in Events, status[e] = "absent"
      PROVE  status'[e] = "absent"
  <2>1. \A p \in Processes : dispatcher[p].batch # <<>> =>
          Current(p) \in Events /\ status[Current(p)] # "absent"
    <3>. TAKE p \in Processes
    <3>. HAVE dispatcher[p].batch # <<>>
    <3>1. dispatcher[p].batch \in Seq(Row) /\ CycleOk(dispatcher[p], status, attempts, topic)
      BY DEF TypeInv, TypeOK, Cycle, OutboxInv
    <3>2. 1 \in 1 .. Len(dispatcher[p].batch) /\ Current(p) = dispatcher[p].batch[1].event
      BY <3>1 DEF Current
    <3>. QED  BY <3>1, <3>2, CurrentType DEF CycleOk, TypeInv
  <2>2. ASSUME NEW p \in Processes, Dispatch(p)
        PROVE  status'[e] = "absent"
    <3>1. CASE StartCycle(p)
      BY <1>1, <3>1 DEF StartCycle, RecoverStaleProcessing
    <3>2. CASE ReadBatch(p) \/ EndBatch(p) \/ Send(p)
      BY <1>1, <3>2 DEF ReadBatch, EndBatch, Send, outboxVars
    <3>3. CASE Claim(p) \/ RejectUnsupported(p) \/ MarkPublished(p) \/ MarkFailure(p)
      <4>1. dispatcher[p].batch # <<>>
        BY <3>3 DEF Claim, RejectUnsupported, MarkPublished, MarkFailure, TypeInv, RowInHand
      <4>2. e # Current(p) /\ Current(p) \in Events
        BY <1>1, <2>1, <4>1
      <4>3. \/ status' = status
            \/ \E new : status' = [status EXCEPT ![Current(p)] = new]
        BY <3>3 DEF Claim, RejectUnsupported, MarkPublished, MarkFailure
      <4>. QED  BY <1>1, <4>2, <4>3 DEF TypeInv, TypeOK
    <3>. QED  BY <2>2, <3>1, <3>2, <3>3 DEF Dispatch
  <2>3. ASSUME \A p \in Processes : ~Dispatch(p)
        PROVE  status' = status
    BY <2>3 DEF Next, DelayPasses, ClaimAges, PushNotifications, Connect, Consume, CommitOffset,
       Rebalance, vars, outboxVars, OutcomeNotWritten, CycleFails
  <2>. QED  BY <1>1, <2>2, <2>3
<1>2. ASSUME NEW e \in Events, status[e] # "absent"
      PROVE  status'[e] # "absent"
  BY <1>2, StepGains DEF Gains
<1>. QED  BY <1>1, <1>2 DEF Recorded

\* A step of the outbox and its consumer is a step of the promise, or a stutter.
LEMMA DeliveryStepKeepsPromise ==
  ASSUME TypeInv, OutboxInv, ConsumerInv, [Next]_vars
  PROVE  [Promise!Next]_<<Recorded, effects, pushes>>
<1>1. ASSUME NEW e \in Events, RecordEvent(e)
      PROVE  Promise!Record(e)
  <2>1. status[e] = "absent" /\ status' = [status EXCEPT ![e] = "PENDING"]
        /\ UNCHANGED <<effects, pushes>>
    BY <1>1 DEF RecordEvent, consumerVars
  <2>2. e \notin Recorded /\ Recorded' = Recorded \cup {e}
    BY <2>1 DEF Recorded, TypeInv, TypeOK
  <2>. QED  BY <2>1, <2>2 DEF Promise!Record, Recorded
<1>2. ASSUME \A e \in Events : ~RecordEvent(e), Consume
      PROVE  \/ \E e \in Events : Promise!TakeEffect(e)
             \/ UNCHANGED <<Recorded, effects, pushes>>
  <2>. DEFINE e == topic[position + 1]
  <2>0. Recorded' = Recorded /\ pushes' = pushes
    BY <1>2, RecordedGrows DEF Consume
  <2>1. position + 1 \in 1 .. Len(topic) /\ e \in Events /\ status[e] # "absent"
    BY <1>2 DEF Consume, TypeInv, TypeOK, OutboxInv
  <2>2. CASE e \in Unusable \cup processed
    BY <1>2, <2>0, <2>2 DEF Consume, HandleEvent
  <2>3. CASE e \notin Unusable \cup processed
    <3>1. effects' = [effects EXCEPT ![e] = @ + 1] /\ effects[e] = 0
      BY <1>2, <2>1, <2>3 DEF Consume, HandleEvent, ConsumerInv
    <3>2. effects' = [effects EXCEPT ![e] = 1] /\ e \in Recorded
      BY <2>1, <3>1 DEF Recorded
    <3>3. Promise!TakeEffect(e)
      BY <2>0, <3>1, <3>2 DEF Promise!TakeEffect, Recorded
    <3>. QED  BY <2>1, <3>3
  <2>. QED  BY <2>2, <2>3
<1>3. ASSUME \A e \in Events : ~RecordEvent(e), NEW e \in Events, PushNotifications(e)
      PROVE  Promise!Push(e)
  <2>1. Recorded' = Recorded /\ effects' = effects
    BY <1>3, RecordedGrows DEF PushNotifications
  <2>2. effects[e] = 1 /\ pushes[e] = 0
    BY <1>3 DEF PushNotifications, ConsumerInv
  <2>3. pushes' = [pushes EXCEPT ![e] = 1]
    BY <1>3, <2>2 DEF PushNotifications
  <2>. QED  BY <2>1, <2>2, <2>3 DEF Promise!Push, Recorded
<1>4. ASSUME \A e \in Events : ~RecordEvent(e) /\ ~PushNotifications(e), ~Consume
      PROVE  UNCHANGED <<Recorded, effects, pushes>>
  <2>1. Recorded' = Recorded
    BY <1>4, RecordedGrows
  <2>2. UNCHANGED <<effects, pushes>>
    BY <1>4 DEF Next, Dispatch, DelayPasses, ClaimAges, Connect, CommitOffset, Rebalance, vars,
       consumerVars, StartCycle, ReadBatch, EndBatch, Claim, RejectUnsupported, Send,
       MarkPublished, MarkFailure, OutcomeNotWritten, CycleFails
  <2>. QED  BY <2>1, <2>2
<1>. QED  BY <1>1, <1>2, <1>3, <1>4 DEF Promise!Next, Recorded

\* PromiseKept: outbox, partition and consumer implement EventDelivery: an event takes effect at
\* most once and after its transaction, and is pushed at most once, after its effect.
THEOREM DeliveryRefinement == Spec => PromiseKept
<1>1. Init => Promise!Init
  BY DEF Init, Promise!Init
<1>2. TypeInv /\ OutboxInv /\ ConsumerInv /\ [Next]_vars
        => [Promise!Next]_<<{e \in Events : status[e] # "absent"}, effects, pushes>>
  BY DeliveryStepKeepsPromise DEF Recorded
<1>. QED
  BY <1>1, <1>2, TypeInvHolds, OutboxInvHolds, ConsumerInvHolds, PTL
  DEF Spec, PromiseKept, Promise!Spec
=============================================================================
