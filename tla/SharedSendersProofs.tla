------------------------- MODULE SharedSendersProofs -------------------------
(***************************************************************************)
(* Proofs about SharedSenders for every number of subscriptions, every     *)
(* assignment of policies and channel depths, and messages of every size.  *)
(***************************************************************************)
EXTENDS SharedSenders, SequenceTheorems, TLAPS

-----------------------------------------------------------------------------
(* Queues of messages.                                                     *)

(***************************************************************************)
(* Appending the message that follows the newest value keeps a queue       *)
(* consecutive, and the end of the message is the new end of the queue.    *)
(***************************************************************************)
LEMMA ConsecutiveAppend ==
  ASSUME NEW q \in Seq(Message), NEW x \in Nat, NEW m \in Message,
         Consecutive(q, x), m.from = End(q, x) + 1, m.from <= m.to
  PROVE  Consecutive(Append(q, m), x) /\ End(Append(q, m), x) = m.to
<1> DEFINE r == Append(q, m)
<1>1. r \in Seq(Message) /\ Len(r) = Len(q) + 1 /\ r # << >> /\ Len(q) \in Nat
  OBVIOUS
<1>2. r[Len(q) + 1] = m /\ \A i \in 1 .. Len(q) : r[i] = q[i]
  OBVIOUS
<1> HIDE DEF r
<1>3. \A i \in 1 .. Len(r) : r[i].from <= r[i].to
  BY <1>1, <1>2 DEF Consecutive
<1>4. r[1].from = x + 1
  <2>1. CASE q = << >>
    BY <2>1, <1>2 DEF End
  <2>2. CASE q # << >>
    BY <2>2, <1>1, <1>2 DEF Consecutive
  <2> QED BY <2>1, <2>2
<1>5. ASSUME NEW i \in 1 .. Len(r) - 1
      PROVE  r[i + 1].from = r[i].to + 1
  <2>1. CASE i = Len(q)
    BY <2>1, <1>1, <1>2 DEF End
  <2>2. CASE i < Len(q)
    BY <2>2, <1>1, <1>2 DEF Consecutive
  <2> QED BY <2>1, <2>2, <1>1
<1>6. Consecutive(r, x)
  BY <1>3, <1>4, <1>5 DEF Consecutive
<1>7. End(r, x) = m.to
  BY <1>1, <1>2 DEF End
<1> QED BY <1>6, <1>7 DEF r

(***************************************************************************)
(* Taking the first message of a consecutive queue leaves a queue that is  *)
(* consecutive from the last value taken, with the same end.               *)
(***************************************************************************)
LEMMA ConsecutiveTail ==
  ASSUME NEW q \in Seq(Message), NEW x \in Nat, Consecutive(q, x), q # << >>
  PROVE  /\ Consecutive(Tail(q), Head(q).to)
         /\ End(Tail(q), Head(q).to) = End(q, x)
         /\ ~IsEndOfStream(Head(q))
<1> DEFINE t == Tail(q)
<1>1. t \in Seq(Message) /\ Len(t) = Len(q) - 1 /\ Len(q) \in Nat /\ Len(q) >= 1
  OBVIOUS
<1>2. Head(q) = q[1] /\ \A i \in 1 .. Len(t) : t[i] = q[i + 1]
  OBVIOUS
<1>3. q[1] \in Message
  BY <1>1, ElementOfSeq
<1> HIDE DEF t
<1>4. Consecutive(t, Head(q).to)
  <2>1. \A i \in 1 .. Len(t) : t[i].from <= t[i].to
    BY <1>1, <1>2 DEF Consecutive
  <2>2. t # << >> => t[1].from = Head(q).to + 1
    BY <1>1, <1>2 DEF Consecutive
  <2>3. ASSUME NEW i \in 1 .. Len(t) - 1
        PROVE  t[i + 1].from = t[i].to + 1
    <3>1. i + 1 \in 1 .. Len(q) - 1 /\ i \in 1 .. Len(t) /\ i + 1 \in 1 .. Len(t)
      BY <1>1
    <3>2. t[i] = q[i + 1] /\ t[i + 1] = q[(i + 1) + 1]
      BY <1>2, <3>1
    <3> QED BY <3>1, <3>2 DEF Consecutive
  <2> QED BY <2>1, <2>2, <2>3 DEF Consecutive
<1>5. End(t, Head(q).to) = End(q, x)
  <2>1. CASE t = << >>
    <3>1. Len(q) = 1
      BY <2>1, <1>1
    <3> QED BY <2>1, <3>1, <1>2 DEF End
  <2>2. CASE t # << >>
    BY <2>2, <1>1, <1>2 DEF End
  <2> QED BY <2>1, <2>2
<1>6. ~IsEndOfStream(Head(q))
  BY <1>1, <1>2, <1>3, SharedSendersAssumption
     DEF Consecutive, IsEndOfStream, None, Message
<1> QED BY <1>4, <1>5, <1>6 DEF t

-----------------------------------------------------------------------------
(* Type correctness.                                                       *)

(***************************************************************************)
(* try_send queues a message only where it fits.                           *)
(***************************************************************************)
LEMMA QueueType ==
  ASSUME TypeOK, NEW S, NEW m \in Message, Queue(S, m)
  PROVE  /\ channel' \in [Subscription -> Seq(Message)]
         /\ \A s \in Subscription : Len(channel'[s]) <= Capacity[s]
<1> USE SharedSendersAssumption
<1>1. ASSUME NEW s \in Subscription
      PROVE  /\ channel'[s] \in Seq(Message)
             /\ Len(channel'[s]) <= Capacity[s]
  <2>1. channel[s] \in Seq(Message) /\ Len(channel[s]) <= Capacity[s]
    BY DEF TypeOK
  <2>2. \/ channel'[s] = channel[s]
        \/ channel'[s] = Append(channel[s], m) /\ Len(channel[s]) < Capacity[s]
    BY DEF Queue, HasRoom
  <2>3. Capacity[s] \in Nat /\ Len(channel[s]) \in Nat
    BY <2>1
  <2>4. /\ Append(channel[s], m) \in Seq(Message)
        /\ Len(Append(channel[s], m)) = Len(channel[s]) + 1
    BY <2>1
  <2>5. CASE channel'[s] = channel[s]
    BY <2>1, <2>5
  <2>6. CASE channel'[s] = Append(channel[s], m) /\ Len(channel[s]) < Capacity[s]
    BY <2>3, <2>4, <2>6
  <2> QED BY <2>2, <2>5, <2>6
<1>2. channel' = [s \in Subscription |-> channel'[s]]
  BY DEF Queue
<1> QED BY <1>1, <1>2

LEMMA CloseListType ==
  ASSUME TypeOK, CloseList
  PROVE  /\ subscribers' \subseteq Subscription
         /\ closed' \in BOOLEAN
         /\ pending' \in [Subscription -> 0 .. MaxValues]
         /\ channel' \in [Subscription -> Seq(Message)]
         /\ \A s \in Subscription : Len(channel'[s]) <= Capacity[s]
<1> USE SharedSendersAssumption
<1>1. EndOfStream \in Message
  BY DEF EndOfStream, Message, None
<1>2. Queue(subscribers, EndOfStream)
  BY DEF CloseList
<1> QED BY <1>1, <1>2, QueueType DEF CloseList, None

(***************************************************************************)
(* Every reachable state of the list, the channels and the producer has    *)
(* the types TypeOK names; in particular no channel holds more than its    *)
(* capacity, whatever the policies.                                        *)
(***************************************************************************)
THEOREM TypeCorrect == Spec => []TypeOK
<1> USE SharedSendersAssumption DEF None
<1>1. Init => TypeOK
  <2> SUFFICES ASSUME Init
               PROVE  TypeOK
    OBVIOUS
  <2>1. EndOfStream \in Message /\ next_id \in 1 .. MaxSubscriptions + 1
    BY DEF Init, EndOfStream, Message
  <2>2. /\ channel \in [Subscription -> Seq(Message)]
        /\ \A s \in Subscription : Len(channel[s]) <= Capacity[s]
    BY DEF Init
  <2>3. /\ pending \in [Subscription -> 0 .. MaxValues]
        /\ receiver \in [Subscription -> {"unborn", "open", "dropped"}]
        /\ seen \in [Subscription -> 0 .. MaxValues]
        /\ eos \in [Subscription -> BOOLEAN]
    BY DEF Init
  <2>4. 0 \in 0 .. MaxValues
    OBVIOUS
  <2> QED BY <2>1, <2>2, <2>3, <2>4, Zenon DEF Init, TypeOK
<1>2. TypeOK /\ [Next]_vars => TypeOK'
  <2> SUFFICES ASSUME TypeOK, [Next]_vars
               PROVE  TypeOK'
    OBVIOUS
  <2> USE DEF list, producer, history
  <2>1. CASE Subscribe
    <3>1. EndOfStream \in Message /\ Data(last, last) \in Message
      BY DEF EndOfStream, Data, Message, TypeOK
    <3>2. channel' \in [Subscription -> Seq(Message)]
      BY <2>1, <3>1 DEF Subscribe, TypeOK
    <3>3. \A s \in Subscription : Len(channel'[s]) <= Capacity[s]
      BY <2>1, <3>1 DEF Subscribe, TypeOK
    <3>4. seen' \in [Subscription -> 0 .. MaxValues]
      BY <2>1 DEF Subscribe, TypeOK
    <3>5. next_id' \in 1 .. MaxSubscriptions + 1
      BY <2>1 DEF Subscribe, TypeOK, Subscription
    <3> QED BY <2>1, <3>2, <3>3, <3>4, <3>5, Zenon DEF Subscribe, TypeOK
  <2>2. ASSUME NEW s \in Subscription, Unsubscribe(s)
        PROVE  TypeOK'
    BY <2>2 DEF Unsubscribe, TypeOK
  <2>3. CASE SupervisorClose
    <3>1. CloseList
      BY <2>3 DEF SupervisorClose
    <3> QED BY <2>3, <3>1, CloseListType DEF SupervisorClose, CloseList, TypeOK
  <2>4. CASE TakeDisconnected
    BY <2>4 DEF TakeDisconnected, TypeOK
  <2>5. ASSUME NEW n \in 1 .. MaxBatch, SendMessage(n)
        PROVE  TypeOK'
    <3>1. Data(sent + 1, sent + n) \in Message /\ sent + n \in 0 .. MaxValues
      BY <2>5 DEF SendMessage, TypeOK, Data, Message
    <3> QED BY <2>5, <3>1 DEF SendMessage, TypeOK
  <2>6. ASSUME NEW s \in Subscription, RetryPending(s)
        PROVE  TypeOK'
    <3>1. Data(pending[s], pending[s]) \in Message
      BY DEF TypeOK, Data, Message
    <3>2. Queue({s}, Data(pending[s], pending[s]))
      BY <2>6 DEF RetryPending
    <3> QED BY <2>6, <3>1, <3>2, QueueType DEF RetryPending, TypeOK
  <2>7. ASSUME NEW s \in Subscription, OfferMessage(s)
        PROVE  TypeOK'
    <3>1. Queue({s}, message) /\ message \in Message
      BY <2>7 DEF OfferMessage, TypeOK
    <3>2. pending' \in [Subscription -> 0 .. MaxValues]
      BY <2>7 DEF OfferMessage, Coalesced, TypeOK, Message
    <3> QED BY <2>7, <3>1, <3>2, QueueType DEF OfferMessage, TypeOK
  <2>8. CASE ReleaseLock
    BY <2>8 DEF ReleaseLock, Waits, TypeOK
  <2>9. ASSUME NEW s \in Subscription, DeliverBlocked(s)
        PROVE  TypeOK'
    <3>1. Queue({s}, message) /\ message \in Message
      BY <2>9 DEF DeliverBlocked, TypeOK
    <3> QED BY <2>9, <3>1, QueueType, Zenon DEF DeliverBlocked, Waits, TypeOK
  <2>10. ASSUME NEW s \in Subscription, GiveUpBlocked(s)
         PROVE  TypeOK'
    <3>1. expired' \subseteq Subscription
      BY <2>10 DEF GiveUpBlocked, MayExpire, TypeOK
    <3> QED BY <2>10, <3>1 DEF GiveUpBlocked, MayExpire, Waits, TypeOK
  <2>11. CASE ProducerClose
    <3>1. CloseList
      BY <2>11 DEF ProducerClose
    <3> QED BY <2>11, <3>1, CloseListType DEF ProducerClose, CloseList, TypeOK
  <2>12. ASSUME NEW s \in Subscription, Receive(s)
         PROVE  TypeOK'
    <3>1. channel[s] \in Seq(Message) /\ channel[s] # << >>
      BY <2>12 DEF Receive, TypeOK
    <3>2. /\ Tail(channel[s]) \in Seq(Message)
          /\ Len(Tail(channel[s])) <= Len(channel[s])
          /\ Len(channel[s]) \in Nat /\ Len(Tail(channel[s])) \in Nat
          /\ Head(channel[s]) \in Message
      BY <3>1, HeadTailProperties
    <3>3. channel' \in [Subscription -> Seq(Message)]
      BY <2>12, <3>2 DEF Receive, TypeOK
    <3>4. \A t \in Subscription : Len(channel'[t]) <= Capacity[t]
      BY <2>12, <3>2 DEF Receive, TypeOK
    <3>5. eos' \in [Subscription -> BOOLEAN] /\ seen' \in [Subscription -> 0 .. MaxValues]
      BY <2>12, <3>2, Zenon DEF Receive, TypeOK, Message
    <3> QED BY <2>12, <3>3, <3>4, <3>5, Zenon DEF Receive, TypeOK
  <2>13. ASSUME NEW s \in Subscription, ReceiveDisconnected(s)
         PROVE  TypeOK'
    BY <2>13 DEF ReceiveDisconnected, TypeOK
  <2>14. ASSUME NEW s \in Subscription, DropReceiver(s)
         PROVE  TypeOK'
    BY <2>14 DEF DropReceiver, TypeOK
  <2>15. CASE UNCHANGED vars
    BY <2>15 DEF vars, TypeOK
  <2> QED BY <2>1, <2>2, <2>3, <2>4, <2>5, <2>6, <2>7, <2>8, <2>9, <2>10, <2>11,
             <2>12, <2>13, <2>14, <2>15
          DEF Next, Supervisor, Producer, Broadcast, Consumer
<1> QED BY <1>1, <1>2, PTL DEF Spec

-----------------------------------------------------------------------------
(* The lock and the two phases of a broadcast.                             *)

(***************************************************************************)
(* The lock keeps the list still while a message is offered, so the        *)
(* bookkeeping of a broadcast agrees with the list in every state.         *)
(***************************************************************************)
THEOREM BroadcastStateHolds == Spec => []BroadcastState
<1> USE SharedSendersAssumption DEF None
<1>1. Init => BroadcastState
  BY DEF Init, BroadcastState
<1>2. TypeOK /\ BroadcastState /\ [Next]_vars => BroadcastState'
  <2> SUFFICES ASSUME TypeOK, BroadcastState, [Next]_vars
               PROVE  BroadcastState'
    OBVIOUS
  <2> USE DEF list, producer, history
  <2>1. CASE Subscribe
    BY <2>1 DEF Subscribe, TypeOK, BroadcastState, Subscription
  <2>2. ASSUME NEW s \in Subscription, Unsubscribe(s)
        PROVE  BroadcastState'
    BY <2>2 DEF Unsubscribe, Unlocked, TypeOK, BroadcastState
  <2>3. CASE SupervisorClose
    BY <2>3 DEF SupervisorClose, CloseList, Unlocked, TypeOK,
                BroadcastState
  <2>4. CASE TakeDisconnected
    BY <2>4 DEF TakeDisconnected, BroadcastState
  <2>5. ASSUME NEW n \in 1 .. MaxBatch, SendMessage(n)
        PROVE  BroadcastState'
    BY <2>5 DEF SendMessage, Data, TypeOK, BroadcastState
  <2>6. ASSUME NEW s \in Subscription, RetryPending(s)
        PROVE  BroadcastState'
    BY <2>6 DEF RetryPending, First, TypeOK, BroadcastState
  <2>7. ASSUME NEW s \in Subscription, OfferMessage(s)
        PROVE  BroadcastState'
    BY <2>7 DEF OfferMessage, First, MustWait, TypeOK, BroadcastState
  <2>8. CASE ReleaseLock
    BY <2>8 DEF ReleaseLock, Waits, TypeOK, BroadcastState
  <2>9. ASSUME NEW s \in Subscription, DeliverBlocked(s)
        PROVE  BroadcastState'
    BY <2>9, Zenon DEF DeliverBlocked, Waits, TypeOK, BroadcastState
  <2>10. ASSUME NEW s \in Subscription, GiveUpBlocked(s)
         PROVE  BroadcastState'
    BY <2>10, Zenon DEF GiveUpBlocked, MayExpire, Waits, TypeOK, BroadcastState
  <2>11. CASE ProducerClose
    BY <2>11 DEF ProducerClose, CloseList, TypeOK, BroadcastState
  <2>12. ASSUME NEW s \in Subscription, Consumer(s)
         PROVE  BroadcastState'
    BY <2>12 DEF Consumer, Receive, ReceiveDisconnected, DropReceiver, BroadcastState
  <2>13. CASE UNCHANGED vars
    BY <2>13 DEF vars, BroadcastState
  <2> QED BY <2>1, <2>2, <2>3, <2>4, <2>5, <2>6, <2>7, <2>8, <2>9, <2>10, <2>11,
             <2>12, <2>13
          DEF Next, Supervisor, Producer, Broadcast
<1> QED BY <1>1, <1>2, TypeCorrect, PTL DEF Spec

-----------------------------------------------------------------------------
(* Flow control.                                                           *)

LEMMA QueueEffect ==
  ASSUME TypeOK, NEW S, NEW m, Queue(S, m), NEW s \in Subscription
  PROVE  channel'[s] = IF s \in S /\ ~Gone(s) /\ HasRoom(s)
                         THEN Append(channel[s], m) ELSE channel[s]
BY DEF Queue

(***************************************************************************)
(* The part of Lossless about one subscriber, with the newest value it     *)
(* should have.                                                            *)
(***************************************************************************)
Owed(s) == IF s \in todo \cup blocked THEN message.from - 1 ELSE sent

UpToDate(s) ==
  Consecutive(channel[s], seen[s]) /\ End(channel[s], seen[s]) = Owed(s)

(***************************************************************************)
(* No Block or Disconnect subscriber on the list misses a value, sees one  *)
(* twice or sees them out of order, whatever joins, leaves, stalls or dies *)
(* around it.                                                              *)
(***************************************************************************)
THEOREM LosslessHolds == Spec => []Lossless
<1> USE SharedSendersAssumption DEF None
<1>1. Init => Lossless
  BY DEF Init, Lossless
<1>2. TypeOK /\ BroadcastState /\ Lossless /\ [Next]_vars => Lossless'
  <2> SUFFICES ASSUME TypeOK, BroadcastState, Lossless, [Next]_vars,
                      NEW t \in subscribers', Policy[t] # "Lossy", ~Gone(t)'
               PROVE  UpToDate(t)'
    BY DEF Lossless, UpToDate, Owed
  <2> USE DEF list, producer, history
  <2>0. /\ t \in subscribers /\ ~Gone(t) => UpToDate(t)
        /\ t \in subscribers => pending[t] = None /\ t \in Subscription
    BY DEF Lossless, UpToDate, Owed, BroadcastState, TypeOK
  <2>a. ASSUME t \in subscribers, ~Gone(t), Owed(t)' = Owed(t),
               channel'[t] = channel[t], seen'[t] = seen[t]
        PROVE  UpToDate(t)'
    BY <2>a, <2>0 DEF UpToDate
  <2>1. CASE Subscribe
    <3>1. CASE t = next_id
      <4>1. t \in Subscription /\ t \notin todo \cup blocked /\ ~closed
        BY <2>1, <3>1 DEF Subscribe, BroadcastState, TypeOK, Subscription
      <4>2. Owed(t)' = sent
        BY <2>1, <4>1 DEF Subscribe, Owed
      <4>3. CASE Sticky /\ last # None
        <5>1. channel'[t] = <<Data(sent, sent)>> /\ seen'[t] = sent - 1
          BY <2>1, <3>1, <4>1, <4>3 DEF Subscribe, BroadcastState, TypeOK
        <5>2. sent \in Nat
          BY DEF TypeOK
        <5> QED BY <4>2, <5>1, <5>2 DEF UpToDate, Consecutive, End, Data
      <4>4. CASE ~(Sticky /\ last # None)
        <5>1. channel'[t] = << >> /\ seen'[t] = sent
          BY <2>1, <3>1, <4>1, <4>4 DEF Subscribe, TypeOK
        <5> QED BY <4>2, <5>1 DEF UpToDate, Consecutive, End
      <4> QED BY <4>3, <4>4
    <3>2. CASE t # next_id
      <4>1. t \in subscribers /\ ~Gone(t) /\ t \in Subscription
        BY <2>1, <3>2, <2>0 DEF Subscribe, Gone, TypeOK
      <4> QED BY <2>1, <3>2, <4>1, <2>a DEF Subscribe, TypeOK, Owed
    <3> QED BY <3>1, <3>2
  <2>2. ASSUME NEW s \in Subscription, Unsubscribe(s)
        PROVE  UpToDate(t)'
    BY <2>2, <2>a DEF Unsubscribe, Owed, Gone
  <2>3. CASE SupervisorClose
    BY <2>3 DEF SupervisorClose, CloseList
  <2>4. CASE TakeDisconnected
    BY <2>4, <2>a DEF TakeDisconnected, Owed, Gone
  <2>5. ASSUME NEW n \in 1 .. MaxBatch, SendMessage(n)
        PROVE  UpToDate(t)'
    <3>1. Owed(t) = sent /\ sent \in Nat
      BY <2>5 DEF SendMessage, Owed, BroadcastState, TypeOK
    <3>2. Owed(t)' = Owed(t)
      BY <2>5, <3>1 DEF SendMessage, Owed, Data
    <3> QED BY <2>5, <3>2, <2>a DEF SendMessage, Gone
  <2>6. ASSUME NEW s \in Subscription, RetryPending(s)
        PROVE  UpToDate(t)'
    <3>1. t \in subscribers /\ ~Gone(t) /\ t # s
      BY <2>6, <2>0 DEF RetryPending, Gone
    <3>2. channel'[t] = channel[t]
      BY <2>6, <2>0, <3>1, QueueEffect DEF RetryPending
    <3>3. Owed(t)' = Owed(t)
      BY <2>6, <3>1 DEF RetryPending, Owed
    <3> QED BY <2>6, <3>1, <3>2, <3>3, <2>a DEF RetryPending
  <2>7. ASSUME NEW s \in Subscription, OfferMessage(s)
        PROVE  UpToDate(t)'
    <3>1. t \in subscribers /\ ~Gone(t) /\ t \in Subscription
      BY <2>7, <2>0 DEF OfferMessage, Gone
    <3>2. channel'[t] = IF t = s /\ HasRoom(t) THEN Append(channel[t], message)
                                              ELSE channel[t]
      BY <2>7, <3>1, QueueEffect DEF OfferMessage
    <3>3. CASE t # s \/ ~HasRoom(t)
      <4>1. Owed(t)' = Owed(t)
        BY <2>7, <3>1, <3>3, Zenon DEF OfferMessage, Owed, First, MustWait
      <4> QED BY <2>7, <3>1, <3>2, <3>3, <4>1, <2>a DEF OfferMessage
    <3>4. CASE t = s /\ HasRoom(t)
      <4>1. Owed(t) = message.from - 1 /\ message.from <= message.to /\ message.to = sent
        BY <2>7, <3>4 DEF OfferMessage, First, Owed, BroadcastState
      <4>2. Owed(t)' = sent
        BY <2>7, <3>4 DEF OfferMessage, First, Owed, BroadcastState
      <4>3. channel[t] \in Seq(Message) /\ seen[t] \in Nat /\ message \in Message
        BY <3>1 DEF TypeOK
      <4>4. message.from = End(channel[t], seen[t]) + 1
        BY <2>0, <3>1, <4>1, <4>3 DEF UpToDate, Message
      <4>5. /\ Consecutive(Append(channel[t], message), seen[t])
            /\ End(Append(channel[t], message), seen[t]) = sent
        BY <2>0, <3>1, <4>1, <4>3, <4>4, ConsecutiveAppend DEF UpToDate
      <4> QED BY <2>7, <3>2, <3>4, <4>2, <4>5 DEF UpToDate, OfferMessage
    <3> QED BY <3>3, <3>4
  <2>8. CASE ReleaseLock
    BY <2>8, <2>a DEF ReleaseLock, Owed, Gone
  <2>9. ASSUME NEW s \in Subscription, DeliverBlocked(s)
        PROVE  UpToDate(t)'
    <3>1. t \in subscribers /\ ~Gone(t) /\ t \in Subscription
      BY <2>9, <2>0 DEF DeliverBlocked, Gone
    <3>2. channel'[t] = IF t = s THEN Append(channel[t], message) ELSE channel[t]
      BY <2>9, <3>1, QueueEffect DEF DeliverBlocked
    <3>3. CASE t # s
      BY <2>9, <3>1, <3>2, <3>3, <2>a DEF DeliverBlocked, Owed
    <3>4. CASE t = s
      <4>1. Owed(t) = message.from - 1 /\ message.from <= message.to /\ message.to = sent
        BY <2>9, <3>4 DEF DeliverBlocked, First, Owed, BroadcastState
      <4>2. Owed(t)' = sent
        BY <2>9, <3>4 DEF DeliverBlocked, First, Owed, BroadcastState
      <4>3. channel[t] \in Seq(Message) /\ seen[t] \in Nat /\ message \in Message
        BY <3>1 DEF TypeOK
      <4>4. message.from = End(channel[t], seen[t]) + 1
        BY <2>0, <3>1, <4>1, <4>3 DEF UpToDate, Message
      <4>5. /\ Consecutive(Append(channel[t], message), seen[t])
            /\ End(Append(channel[t], message), seen[t]) = sent
        BY <2>0, <3>1, <4>1, <4>3, <4>4, ConsecutiveAppend DEF UpToDate
      <4> QED BY <2>9, <3>2, <3>4, <4>2, <4>5 DEF UpToDate, DeliverBlocked
    <3> QED BY <3>3, <3>4
  <2>10. ASSUME NEW s \in Subscription, GiveUpBlocked(s)
         PROVE  UpToDate(t)'
    BY <2>10, <2>a DEF GiveUpBlocked, MayExpire, Owed, Gone
  <2>11. CASE ProducerClose
    BY <2>11 DEF ProducerClose, CloseList
  <2>12. ASSUME NEW s \in Subscription, Receive(s)
         PROVE  UpToDate(t)'
    <3>1. t \in subscribers /\ ~Gone(t) /\ t \in Subscription /\ Owed(t)' = Owed(t)
      BY <2>12, <2>0 DEF Receive, Gone, Owed
    <3>2. CASE t # s
      BY <2>12, <3>1, <3>2, <2>a, Zenon DEF Receive, TypeOK
    <3>3. CASE t = s
      <4>1. channel[t] \in Seq(Message) /\ seen[t] \in Nat /\ channel[t] # << >>
        BY <2>12, <3>1, <3>3 DEF Receive, TypeOK
      <4>2. /\ Consecutive(Tail(channel[t]), Head(channel[t]).to)
            /\ End(Tail(channel[t]), Head(channel[t]).to) = Owed(t)
            /\ ~IsEndOfStream(Head(channel[t]))
        BY <2>0, <3>1, <4>1, ConsecutiveTail DEF UpToDate
      <4>3. channel'[t] = Tail(channel[t]) /\ seen'[t] = Head(channel[t]).to
        BY <2>12, <3>1, <3>3, <4>2 DEF Receive, TypeOK
      <4> QED BY <3>1, <4>2, <4>3 DEF UpToDate
    <3> QED BY <3>2, <3>3
  <2>13. ASSUME NEW s \in Subscription, ReceiveDisconnected(s)
         PROVE  UpToDate(t)'
    BY <2>13, <2>a DEF ReceiveDisconnected, Owed, Gone
  <2>14. ASSUME NEW s \in Subscription, DropReceiver(s)
         PROVE  UpToDate(t)'
    <3>1. t \in subscribers /\ t \in Subscription /\ t # s /\ ~Gone(t)
      BY <2>14, <2>0 DEF DropReceiver, Gone, TypeOK
    <3> QED BY <2>14, <3>1, <2>a DEF DropReceiver, Owed, TypeOK
  <2>15. CASE UNCHANGED vars
    BY <2>15, <2>a DEF vars, Owed, Gone
  <2> QED BY <2>1, <2>2, <2>3, <2>4, <2>5, <2>6, <2>7, <2>8, <2>9, <2>10, <2>11,
             <2>12, <2>13, <2>14, <2>15
          DEF Next, Supervisor, Producer, Broadcast, Consumer
<1> QED BY <1>1, <1>2, TypeCorrect, BroadcastStateHolds, PTL DEF Spec

-----------------------------------------------------------------------------
(* would_block.                                                            *)

(***************************************************************************)
(* A broadcast that began when would_block was false finds room in the     *)
(* channel of every subscriber it could wait for: only consumers touch     *)
(* that channel before the message is offered, and they make room.         *)
(***************************************************************************)
RoomAhead ==
  clear => /\ blocked = {}
           /\ \A s \in todo : Policy[s] # "Lossy" => Gone(s) \/ HasRoom(s)

LEMMA MoreRoom ==
  ASSUME TypeOK, NEW s \in Subscription, HasRoom(s),
         \/ channel'[s] = channel[s]
         \/ channel'[s] = << >>
         \/ channel[s] # << >> /\ channel'[s] = Tail(channel[s])
  PROVE  HasRoom(s)'
<1>1. channel[s] \in Seq(Message) /\ Len(channel[s]) \in Nat /\ Capacity[s] \in Nat \ {0}
  BY SharedSendersAssumption DEF TypeOK
<1>2. CASE channel'[s] = channel[s]
  BY <1>2 DEF HasRoom
<1>3. CASE channel'[s] = << >>
  BY <1>1, <1>3 DEF HasRoom
<1>4. CASE channel[s] # << >> /\ channel'[s] = Tail(channel[s])
  <2>1. Len(Tail(channel[s])) = Len(channel[s]) - 1
    BY <1>1, <1>4
  <2> QED BY <1>1, <1>4, <2>1 DEF HasRoom
<1> QED BY <1>2, <1>3, <1>4

(***************************************************************************)
(* A send that starts when would_block answers false never waits, for any  *)
(* number of subscribers and any channel depths: the check the cooperative *)
(* scheduler relies on is sufficient.                                      *)
(***************************************************************************)
THEOREM ClearSendNeverWaitsHolds == Spec => []ClearSendNeverWaits
<1> USE SharedSendersAssumption DEF None
<1>1. Init => RoomAhead
  BY DEF Init, RoomAhead
<1>2. TypeOK /\ BroadcastState /\ RoomAhead /\ [Next]_vars => RoomAhead'
  <2> SUFFICES ASSUME TypeOK, BroadcastState, RoomAhead, [Next]_vars, clear'
               PROVE  /\ blocked' = {}
                      /\ \A s \in todo' : Policy[s] # "Lossy" => Gone(s)' \/ HasRoom(s)'
    BY DEF RoomAhead
  <2> USE DEF list, producer, history
  <2>a. ASSUME todo' = {}, blocked' = {}
        PROVE  RoomAhead'
    BY <2>a DEF RoomAhead
  <2>1. CASE Supervisor
    <3>1. todo' = {} /\ UNCHANGED <<blocked, clear>>
      BY <2>1, Zenon DEF Supervisor, Subscribe, Unsubscribe, SupervisorClose,
                  TakeDisconnected, Unlocked, BroadcastState
    <3> QED BY <3>1 DEF RoomAhead
  <2>2. ASSUME NEW n \in 1 .. MaxBatch, SendMessage(n)
        PROVE  RoomAhead'
    <3>1. \A s \in subscribers : Policy[s] # "Lossy" => HasRoom(s)
      <4> SUFFICES ASSUME NEW s \in subscribers, Policy[s] # "Lossy"
                   PROVE  HasRoom(s)
        OBVIOUS
      <4>1. s \in Subscription /\ Len(channel[s]) \in Nat /\ Capacity[s] \in Nat
        BY DEF TypeOK
      <4>2. ~(Len(channel[s]) >= Capacity[s])
        BY <2>2, Zenon DEF SendMessage, WouldBlock
      <4> QED BY <4>1, <4>2 DEF HasRoom
    <3> QED BY <2>2, <3>1 DEF SendMessage, RoomAhead, HasRoom, BroadcastState
  <2>3. ASSUME NEW s \in Subscription, RetryPending(s)
        PROVE  RoomAhead'
    <3>1. ASSUME NEW t \in todo', Policy[t] # "Lossy", ~Gone(t)
          PROVE  HasRoom(t)'
      <4>1. t \in todo /\ t \in Subscription /\ HasRoom(t) /\ t # s
        BY <2>3, <3>1 DEF RetryPending, RoomAhead, BroadcastState, TypeOK
      <4>2. channel'[t] = channel[t]
        BY <2>3, <4>1, QueueEffect DEF RetryPending
      <4> QED BY <4>1, <4>2, MoreRoom
    <3> QED BY <2>3, <3>1 DEF RetryPending, RoomAhead, Gone
  <2>4. ASSUME NEW s \in Subscription, OfferMessage(s)
        PROVE  RoomAhead'
    <3>1. ASSUME NEW t \in todo', Policy[t] # "Lossy", ~Gone(t)
          PROVE  HasRoom(t)'
      <4>1. t \in todo /\ t \in Subscription /\ HasRoom(t) /\ t # s
        BY <2>4, <3>1 DEF OfferMessage, RoomAhead, TypeOK
      <4>2. channel'[t] = channel[t]
        BY <2>4, <4>1, QueueEffect DEF OfferMessage
      <4> QED BY <4>1, <4>2, MoreRoom
    <3>2. blocked' = {}
      BY <2>4 DEF OfferMessage, First, MustWait, RoomAhead
    <3> QED BY <2>4, <3>1, <3>2 DEF OfferMessage, RoomAhead, Gone
  <2>5. CASE ReleaseLock
    BY <2>5, <2>a DEF ReleaseLock, RoomAhead
  <2>6. ASSUME NEW s \in Subscription, DeliverBlocked(s) \/ GiveUpBlocked(s)
        PROVE  RoomAhead'
    BY <2>6, Zenon DEF DeliverBlocked, GiveUpBlocked, MayExpire, First, RoomAhead
  <2>7. CASE ProducerClose
    BY <2>7, <2>a DEF ProducerClose, BroadcastState
  <2>8. ASSUME NEW s \in Subscription, Consumer(s)
        PROVE  RoomAhead'
    <3>1. ASSUME NEW t \in todo', Policy[t] # "Lossy", ~Gone(t)
          PROVE  HasRoom(t)'
      <4>1. t \in Subscription /\ HasRoom(t)
        BY <2>8, <3>1, Zenon DEF Consumer, Receive, ReceiveDisconnected, DropReceiver,
                          RoomAhead, TypeOK
      <4>2. \/ channel'[t] = channel[t]
            \/ channel'[t] = << >>
            \/ channel[t] # << >> /\ channel'[t] = Tail(channel[t])
        BY <2>8, <4>1, Zenon DEF Consumer, Receive, ReceiveDisconnected, DropReceiver, TypeOK
      <4> QED BY <4>1, <4>2, MoreRoom
    <3>2. \A t \in todo : Gone(t) => Gone(t)'
      BY <2>8, Zenon DEF Consumer, Receive, ReceiveDisconnected, DropReceiver, Gone, TypeOK
    <3>3. UNCHANGED <<todo, blocked, clear>>
      BY <2>8, Zenon DEF Consumer, Receive, ReceiveDisconnected, DropReceiver
    <3> QED BY <3>1, <3>2, <3>3 DEF RoomAhead
  <2>9. CASE UNCHANGED vars
    BY <2>9 DEF vars, RoomAhead, Gone, HasRoom
  <2> QED BY <2>1, <2>2, <2>3, <2>4, <2>5, <2>6, <2>7, <2>8, <2>9
          DEF Next, Producer, Broadcast, RoomAhead
<1>3. RoomAhead => ClearSendNeverWaits
  BY DEF RoomAhead, ClearSendNeverWaits
<1> QED BY <1>1, <1>2, <1>3, TypeCorrect, BroadcastStateHolds, PTL DEF Spec

-----------------------------------------------------------------------------
(* Lossy subscribers.                                                      *)

(***************************************************************************)
(* Appending a message whose values are all newer keeps a queue in order,  *)
(* and so does taking its first message.                                   *)
(***************************************************************************)
LEMMA IncreasingAppend ==
  ASSUME NEW q \in Seq(Message), NEW x \in Nat, NEW m \in Message,
         Increasing(q, x), End(q, x) < m.from, m.from <= m.to
  PROVE  Increasing(Append(q, m), x) /\ End(Append(q, m), x) = m.to
<1> DEFINE r == Append(q, m)
<1>1. r \in Seq(Message) /\ Len(r) = Len(q) + 1 /\ r # << >> /\ Len(q) \in Nat
  OBVIOUS
<1>2. r[Len(q) + 1] = m /\ \A i \in 1 .. Len(q) : r[i] = q[i]
  OBVIOUS
<1> HIDE DEF r
<1>3. \A i \in 1 .. Len(r) : r[i].from <= r[i].to
  BY <1>1, <1>2 DEF Increasing
<1>4. x < r[1].from
  <2>1. CASE q = << >>
    BY <2>1, <1>2 DEF End
  <2>2. CASE q # << >>
    BY <2>2, <1>1, <1>2 DEF Increasing
  <2> QED BY <2>1, <2>2
<1>5. ASSUME NEW i \in 1 .. Len(r) - 1
      PROVE  r[i].to < r[i + 1].from
  <2>1. CASE i = Len(q)
    BY <2>1, <1>1, <1>2 DEF End
  <2>2. CASE i < Len(q)
    BY <2>2, <1>1, <1>2 DEF Increasing
  <2> QED BY <2>1, <2>2, <1>1
<1>6. Increasing(r, x)
  BY <1>3, <1>4, <1>5 DEF Increasing
<1>7. End(r, x) = m.to
  BY <1>1, <1>2 DEF End
<1> QED BY <1>6, <1>7 DEF r

LEMMA IncreasingTail ==
  ASSUME NEW q \in Seq(Message), NEW x \in Nat, Increasing(q, x), q # << >>
  PROVE  /\ Increasing(Tail(q), Head(q).to)
         /\ End(Tail(q), Head(q).to) = End(q, x)
         /\ ~IsEndOfStream(Head(q))
<1> DEFINE t == Tail(q)
<1>1. t \in Seq(Message) /\ Len(t) = Len(q) - 1 /\ Len(q) \in Nat /\ Len(q) >= 1
  OBVIOUS
<1>2. Head(q) = q[1] /\ \A i \in 1 .. Len(t) : t[i] = q[i + 1]
  OBVIOUS
<1>3. q[1] \in Message
  BY <1>1, ElementOfSeq
<1> HIDE DEF t
<1>4. Increasing(t, Head(q).to)
  <2>1. \A i \in 1 .. Len(t) : t[i].from <= t[i].to
    BY <1>1, <1>2 DEF Increasing
  <2>2. t # << >> => Head(q).to < t[1].from
    BY <1>1, <1>2 DEF Increasing
  <2>3. ASSUME NEW i \in 1 .. Len(t) - 1
        PROVE  t[i].to < t[i + 1].from
    <3>1. i + 1 \in 1 .. Len(q) - 1 /\ i \in 1 .. Len(t) /\ i + 1 \in 1 .. Len(t)
      BY <1>1
    <3>2. t[i] = q[i + 1] /\ t[i + 1] = q[(i + 1) + 1]
      BY <1>2, <3>1
    <3> QED BY <3>1, <3>2 DEF Increasing
  <2> QED BY <2>1, <2>2, <2>3 DEF Increasing
<1>5. End(t, Head(q).to) = End(q, x)
  <2>1. CASE t = << >>
    <3>1. Len(q) = 1
      BY <2>1, <1>1
    <3> QED BY <2>1, <3>1, <1>2 DEF End
  <2>2. CASE t # << >>
    BY <2>2, <1>1, <1>2 DEF End
  <2> QED BY <2>1, <2>2
<1>6. ~IsEndOfStream(Head(q))
  BY <1>1, <1>2, <1>3, SharedSendersAssumption
     DEF Increasing, IsEndOfStream, None, Message
<1> QED BY <1>4, <1>5, <1>6 DEF t

LEMMA EndType ==
  ASSUME NEW q \in Seq(Message), NEW x \in Nat
  PROVE  End(q, x) \in Nat
<1>1. CASE q = << >>
  BY <1>1 DEF End
<1>2. CASE q # << >>
  <2>1. q[Len(q)] \in Message
    BY <1>2, ElementOfSeq
  <2>2. q[Len(q)].to \in Nat
    BY <2>1, SharedSendersAssumption DEF Message
  <2> QED BY <1>2, <2>2 DEF End
<1> QED BY <1>1, <1>2

(***************************************************************************)
(* LossyKeepsNewest says nothing of a subscriber the message was not yet   *)
(* offered to; the inductive invariant says that all it has is older than  *)
(* the message.                                                            *)
(***************************************************************************)
Newest(s) == IF pending[s] # None THEN pending[s] ELSE End(channel[s], seen[s])

HasNewest(s) ==
  /\ Increasing(channel[s], seen[s])
  /\ pending[s] # None => End(channel[s], seen[s]) < pending[s]
  /\ s \notin todo => sent = Newest(s)
  /\ s \in todo => Newest(s) < message.from

LossyInv ==
  /\ \A s \in Subscription : pending[s] # None => s \in subscribers
  /\ \A s \in blocked : Policy[s] # "Lossy"
  /\ \A s \in subscribers : Policy[s] = "Lossy" /\ ~Gone(s) => HasNewest(s)

(***************************************************************************)
(* Pending values belong to subscribers, and the producer waits for none   *)
(* that is Lossy.                                                          *)
(***************************************************************************)
LEMMA LossyList ==
  ASSUME TypeOK, BroadcastState, LossyInv, [Next]_vars
  PROVE  /\ \A s \in Subscription : pending'[s] # None => s \in subscribers'
         /\ \A s \in blocked' : Policy[s] # "Lossy"
<1> USE DEF list, producer, history
<1>1. CASE Subscribe
  BY <1>1, Zenon DEF Subscribe, LossyInv
<1>2. ASSUME NEW s \in Subscription, Unsubscribe(s)
      PROVE  /\ \A t \in Subscription : pending'[t] # None => t \in subscribers'
             /\ blocked' = blocked
  BY <1>2, Zenon DEF Unsubscribe, LossyInv, TypeOK
<1>3. CASE SupervisorClose \/ ProducerClose
  BY <1>3 DEF SupervisorClose, ProducerClose, CloseList, LossyInv
<1>4. CASE TakeDisconnected
  BY <1>4 DEF TakeDisconnected, LossyInv
<1>5. ASSUME NEW n \in 1 .. MaxBatch, SendMessage(n)
      PROVE  UNCHANGED <<pending, subscribers, blocked>>
  BY <1>5, Zenon DEF SendMessage
<1>6. ASSUME NEW s \in Subscription, RetryPending(s)
      PROVE  /\ \A t \in Subscription : pending'[t] # None => t \in subscribers'
             /\ blocked' = blocked
  BY <1>6 DEF RetryPending, LossyInv, TypeOK
<1>7. ASSUME NEW s \in Subscription, OfferMessage(s)
      PROVE  /\ \A t \in Subscription : pending'[t] # None => t \in subscribers'
             /\ \A t \in blocked' : Policy[t] # "Lossy"
  BY <1>7 DEF OfferMessage, LossyInv, TypeOK, BroadcastState, First, MustWait
<1>8. CASE ReleaseLock
  BY <1>8 DEF ReleaseLock, LossyInv
<1>9. ASSUME NEW s \in Subscription, DeliverBlocked(s)
      PROVE  UNCHANGED <<pending, subscribers>> /\ blocked' \subseteq blocked
  BY <1>9 DEF DeliverBlocked
<1>10. ASSUME NEW s \in Subscription, GiveUpBlocked(s)
       PROVE  /\ \A t \in Subscription : pending'[t] # None => t \in subscribers'
              /\ blocked' \subseteq blocked
  BY <1>10 DEF GiveUpBlocked, LossyInv, TypeOK
<1>11. ASSUME NEW s \in Subscription, Consumer(s)
       PROVE  UNCHANGED <<pending, subscribers, blocked>>
  BY <1>11, Zenon DEF Consumer, Receive, ReceiveDisconnected, DropReceiver
<1>12. CASE UNCHANGED vars
  BY <1>12 DEF vars, LossyInv
<1> QED BY <1>1, <1>2, <1>3, <1>4, <1>5, <1>6, <1>7, <1>8, <1>9, <1>10, <1>11, <1>12
        DEF Next, Supervisor, Producer, Broadcast, LossyInv

(***************************************************************************)
(* LossyKeepsNewest for any policies, capacities and numbers of            *)
(* subscribers: the value a Lossy subscriber keeps pending is never        *)
(* overtaken by a later message nor forgotten while it is the newest.      *)
(***************************************************************************)
THEOREM LossyKeepsNewestHolds == Spec => []LossyKeepsNewest
<1> USE SharedSendersAssumption DEF None
<1>1. Init => LossyInv
  BY DEF Init, LossyInv
<1>2. TypeOK /\ BroadcastState /\ LossyInv /\ [Next]_vars => LossyInv'
  <2> SUFFICES ASSUME TypeOK, BroadcastState, LossyInv, [Next]_vars,
                      NEW t \in subscribers', Policy[t] = "Lossy", ~Gone(t)'
               PROVE  HasNewest(t)'
    BY LossyList DEF LossyInv
  <2> USE DEF list, producer, history
  <2>0. /\ t \in subscribers /\ ~Gone(t) => HasNewest(t)
        /\ t \in subscribers => t \in Subscription
        /\ t \notin blocked
    BY Zenon DEF LossyInv, TypeOK
  <2>a. ASSUME t \in subscribers, ~Gone(t), pending'[t] = pending[t],
               channel'[t] = channel[t], seen'[t] = seen[t],
               t \in todo' <=> t \in todo, sent' = sent, message' = message
        PROVE  HasNewest(t)'
    BY <2>a, <2>0 DEF HasNewest, Newest
  <2>t. ASSUME t \in Subscription
        PROVE  /\ channel[t] \in Seq(Message) /\ seen[t] \in Nat
               /\ pending[t] \in Nat /\ End(channel[t], seen[t]) \in Nat
    BY <2>t, EndType DEF TypeOK
  <2>m. /\ sent \in Nat /\ message \in Message
        /\ message.from \in Nat /\ message.to \in Nat
    BY DEF TypeOK, Message
  <2>1. CASE Subscribe
    <3>1. CASE t = next_id
      <4>1. /\ t \in Subscription /\ t \notin todo /\ t \notin subscribers /\ ~closed
            /\ pending[t] = None
        BY <2>1, <3>1 DEF Subscribe, Unlocked, BroadcastState, LossyInv, TypeOK,
                          Subscription
      <4>2. /\ pending'[t] = None /\ t \notin todo' /\ sent' = sent
        BY <2>1, <4>1, Zenon DEF Subscribe
      <4>3. CASE Sticky /\ last # None
        <5>1. channel'[t] = <<Data(sent, sent)>> /\ seen'[t] = sent - 1
          BY <2>1, <3>1, <4>1, <4>3 DEF Subscribe, BroadcastState, TypeOK
        <5>2. Increasing(<<Data(sent, sent)>>, sent - 1)
          BY <2>m DEF Increasing, Data
        <5>3. End(<<Data(sent, sent)>>, sent - 1) = sent
          BY <2>m DEF End, Data
        <5> QED BY <4>2, <5>1, <5>2, <5>3 DEF HasNewest, Newest
      <4>4. CASE ~(Sticky /\ last # None)
        <5>1. channel'[t] = << >> /\ seen'[t] = sent
          BY <2>1, <3>1, <4>1, <4>4 DEF Subscribe, TypeOK
        <5> QED BY <4>2, <5>1 DEF HasNewest, Newest, Increasing, End
      <4> QED BY <4>3, <4>4
    <3>2. CASE t # next_id
      <4>1. t \in subscribers /\ ~Gone(t) /\ t \in Subscription
        BY <2>1, <3>2, <2>0 DEF Subscribe, Gone, TypeOK
      <4> QED BY <2>1, <3>2, <4>1, <2>a DEF Subscribe, TypeOK
    <3> QED BY <3>1, <3>2
  <2>2. ASSUME NEW s \in Subscription, Unsubscribe(s)
        PROVE  HasNewest(t)'
    <3>1. t \in subscribers /\ t # s /\ ~Gone(t) /\ pending'[t] = pending[t]
      BY <2>2, <2>0 DEF Unsubscribe, Gone, TypeOK
    <3> QED BY <2>2, <3>1, <2>a DEF Unsubscribe
  <2>3. CASE SupervisorClose
    BY <2>3 DEF SupervisorClose, CloseList
  <2>4. CASE TakeDisconnected
    BY <2>4, <2>a DEF TakeDisconnected, Gone
  <2>5. ASSUME NEW n \in 1 .. MaxBatch, SendMessage(n)
        PROVE  HasNewest(t)'
    <3>1. t \in subscribers /\ ~Gone(t) /\ t \in Subscription /\ t \notin todo
      BY <2>5, <2>0 DEF SendMessage, Gone, BroadcastState
    <3>2. /\ UNCHANGED <<channel, seen, pending>> /\ t \in todo'
          /\ message'.from = sent + 1
      BY <2>5, <3>1 DEF SendMessage, Data
    <3>3. HasNewest(t)
      BY <2>0, <3>1
    <3>4. Newest(t) = sent
      BY <3>1, <3>3 DEF HasNewest
    <3>5. Newest(t)' < message'.from
      BY <3>2, <3>4, <2>m DEF Newest
    <3> QED BY <3>2, <3>3, <3>5 DEF HasNewest
  <2>6. ASSUME NEW s \in Subscription, RetryPending(s)
        PROVE  HasNewest(t)'
    <3>1. t \in subscribers /\ ~Gone(t) /\ t \in Subscription
      BY <2>6, <2>0, Zenon DEF RetryPending, Gone
    <3>2. CASE t # s
      <4>1. channel'[t] = channel[t] /\ pending'[t] = pending[t]
        BY <2>6, <3>1, <3>2, QueueEffect DEF RetryPending, TypeOK
      <4> QED BY <2>6, <3>1, <3>2, <4>1, <2>a DEF RetryPending
    <3>3. CASE t = s
      <4> DEFINE m == Data(pending[t], pending[t])
      <4>1. HasNewest(t) /\ t \in todo /\ pending[t] # None
        BY <2>6, <2>0, <3>1, <3>3 DEF RetryPending, First
      <4>2. /\ pending'[t] = None /\ t \in todo'
            /\ UNCHANGED <<seen, message>>
        BY <2>6, <3>1, <3>3, <4>1 DEF RetryPending, TypeOK
      <4>3. channel'[t] = IF HasRoom(t) THEN Append(channel[t], m) ELSE channel[t]
        BY <2>6, <3>1, <3>3, QueueEffect DEF RetryPending
      <4>4. /\ m \in Message /\ m.from = pending[t] /\ m.to = pending[t]
            /\ m.from <= m.to
        BY <3>1 DEF Data, Message, TypeOK
      <4>5. Increasing(channel[t], seen[t]) /\ End(channel[t], seen[t]) < pending[t]
        BY <4>1 DEF HasNewest
      <4>6. pending[t] < message.from
        BY <4>1 DEF HasNewest, Newest
      <4> HIDE DEF m
      <4>7. CASE HasRoom(t)
        <5>1. /\ Increasing(Append(channel[t], m), seen[t])
              /\ End(Append(channel[t], m), seen[t]) = pending[t]
          BY <2>t, <3>1, <4>4, <4>5, IncreasingAppend, Zenon
        <5> QED BY <4>2, <4>3, <4>6, <4>7, <5>1 DEF HasNewest, Newest
      <4>8. CASE ~HasRoom(t)
        <5>1. End(channel[t], seen[t]) < message.from
          BY <2>t, <2>m, <3>1, <4>5, <4>6
        <5> QED BY <4>2, <4>3, <4>5, <4>8, <5>1, Zenon DEF HasNewest, Newest
      <4> QED BY <4>7, <4>8
    <3> QED BY <3>2, <3>3
  <2>7. ASSUME NEW s \in Subscription, OfferMessage(s)
        PROVE  HasNewest(t)'
    <3>1. t \in subscribers /\ ~Gone(t) /\ t \in Subscription
      BY <2>7, <2>0, Zenon DEF OfferMessage, Gone
    <3>2. CASE t # s
      <4>1. channel'[t] = channel[t] /\ pending'[t] = pending[t]
        BY <2>7, <3>1, <3>2, QueueEffect DEF OfferMessage, TypeOK
      <4> QED BY <2>7, <3>1, <3>2, <4>1, <2>a, Zenon DEF OfferMessage
    <3>3. CASE t = s
      <4>1. HasNewest(t) /\ t \in todo /\ pending[t] = None
        BY <2>7, <2>0, <3>1, <3>3 DEF OfferMessage, First
      <4>2. /\ t \notin todo' /\ UNCHANGED <<seen, sent>>
            /\ message.to = sent /\ message.from <= message.to
        BY <2>7, <3>3 DEF OfferMessage, BroadcastState
      <4>3. /\ channel'[t] = IF HasRoom(t) THEN Append(channel[t], message)
                                           ELSE channel[t]
            /\ pending'[t] = IF HasRoom(t) THEN None ELSE sent
        BY Zenon, <2>7, <3>1, <3>3, <4>1, <4>2, QueueEffect
           DEF OfferMessage, MustWait, Coalesced, TypeOK
      <4>4. Increasing(channel[t], seen[t]) /\ End(channel[t], seen[t]) < message.from
        BY <4>1, Zenon DEF HasNewest, Newest
      <4>5. CASE HasRoom(t)
        <5>1. /\ Increasing(Append(channel[t], message), seen[t])
              /\ End(Append(channel[t], message), seen[t]) = sent
          BY <2>t, <2>m, <3>1, <4>2, <4>4, IncreasingAppend, Zenon
        <5> QED BY <4>2, <4>3, <4>5, <5>1 DEF HasNewest, Newest
      <4>6. CASE ~HasRoom(t)
        <5>1. End(channel[t], seen[t]) < sent /\ sent # None
          BY <2>t, <2>m, <3>1, <4>2, <4>4
        <5> QED BY <4>2, <4>3, <4>4, <4>6, <5>1 DEF HasNewest, Newest
      <4> QED BY <4>5, <4>6
    <3> QED BY <3>2, <3>3
  <2>8. CASE ReleaseLock
    <3>1. t \in subscribers /\ t \notin dead /\ ~Gone(t) /\ pending'[t] = pending[t]
      BY <2>8, <2>0, Zenon DEF ReleaseLock, Gone
    <3> QED BY <2>8, <3>1, <2>a, Zenon DEF ReleaseLock
  <2>9. ASSUME NEW s \in Subscription, DeliverBlocked(s)
        PROVE  HasNewest(t)'
    <3>1. t \in subscribers /\ ~Gone(t) /\ t \in Subscription /\ t # s
      BY <2>9, <2>0, Zenon DEF DeliverBlocked, First, Gone
    <3>2. channel'[t] = channel[t]
      BY <2>9, <3>1, QueueEffect, Zenon DEF DeliverBlocked
    <3> QED BY <2>9, <3>1, <3>2, <2>a DEF DeliverBlocked
  <2>10. ASSUME NEW s \in Subscription, GiveUpBlocked(s)
         PROVE  HasNewest(t)'
    <3>1. t \in subscribers /\ t # s /\ ~Gone(t) /\ pending'[t] = pending[t]
      BY <2>10, <2>0 DEF GiveUpBlocked, Gone, TypeOK
    <3> QED BY <2>10, <3>1, <2>a DEF GiveUpBlocked
  <2>11. CASE ProducerClose
    BY <2>11 DEF ProducerClose, CloseList
  <2>12. ASSUME NEW s \in Subscription, Receive(s)
         PROVE  HasNewest(t)'
    <3>1. t \in subscribers /\ ~Gone(t) /\ t \in Subscription
      BY <2>12, <2>0 DEF Receive, Gone
    <3>2. CASE t # s
      BY <2>12, <3>1, <3>2, <2>a, Zenon DEF Receive, TypeOK
    <3>3. CASE t = s
      <4>1. HasNewest(t) /\ channel[t] # << >>
        BY <2>12, <2>0, <3>1, <3>3, Zenon DEF Receive
      <4>2. /\ Increasing(Tail(channel[t]), Head(channel[t]).to)
            /\ End(Tail(channel[t]), Head(channel[t]).to) = End(channel[t], seen[t])
            /\ ~IsEndOfStream(Head(channel[t]))
        BY <2>t, <3>1, <4>1, IncreasingTail DEF HasNewest
      <4>3. channel'[t] = Tail(channel[t]) /\ seen'[t] = Head(channel[t]).to
        BY <2>12, <3>1, <3>3, <4>2, Zenon DEF Receive, TypeOK
      <4>4. UNCHANGED <<pending, todo, sent, message>>
        BY <2>12 DEF Receive
      <4> QED BY <4>1, <4>2, <4>3, <4>4 DEF HasNewest, Newest
    <3> QED BY <3>2, <3>3
  <2>13. ASSUME NEW s \in Subscription, ReceiveDisconnected(s)
         PROVE  HasNewest(t)'
    BY <2>13, <2>a DEF ReceiveDisconnected, Gone
  <2>14. ASSUME NEW s \in Subscription, DropReceiver(s)
         PROVE  HasNewest(t)'
    <3>1. t \in subscribers /\ t \in Subscription /\ t # s /\ ~Gone(t)
      BY <2>14, <2>0, Zenon DEF DropReceiver, Gone, TypeOK
    <3> QED BY <2>14, <3>1, <2>a DEF DropReceiver, TypeOK
  <2>15. CASE UNCHANGED vars
    BY <2>15, <2>a, Zenon DEF vars, Gone
  <2> QED BY Zenon, <2>1, <2>2, <2>3, <2>4, <2>5, <2>6, <2>7, <2>8, <2>9, <2>10, <2>11,
             <2>12, <2>13, <2>14, <2>15
          DEF Next, Supervisor, Producer, Broadcast, Consumer
<1>3. LossyInv => LossyKeepsNewest
  BY DEF LossyInv, HasNewest, Newest, LossyKeepsNewest
<1> QED BY <1>1, <1>2, <1>3, TypeCorrect, BroadcastStateHolds, PTL DEF Spec

-----------------------------------------------------------------------------
(* The end of the stream.                                                  *)

(***************************************************************************)
(* What a consumer finds in its channel once the producer is done: all     *)
(* values up to the last one, with the end-of-stream message behind them   *)
(* if there was room for it.                                               *)
(***************************************************************************)
Remaining(q, x) == Consecutive(q, x) /\ End(q, x) = sent

Ending(s) ==
  \/ Remaining(channel[s], seen[s])
  \/ \E q \in Seq(Message) :
       channel[s] = Append(q, EndOfStream) /\ Remaining(q, seen[s])

(***************************************************************************)
(* NaturalEndIsComplete made inductive: before the producer is done such a *)
(* subscription is on the list or has no receiver, and nothing has told    *)
(* its consumer that the stream ended; afterwards its channel holds what   *)
(* it still misses.                                                        *)
(***************************************************************************)
ListEnd ==
  /\ phase = "done" => closed
  /\ closed => subscribers = {}
  /\ \A s \in dead : Gone(s)
  /\ \A s \in Subscription : s >= next_id => receiver[s] = "unborn" /\ ~eos[s]

Served(s) == Policy[s] # "Lossy" /\ s \notin cut \cup expired /\ s < next_id

EndsWell(s) ==
  /\ s \in subscribers \/ Gone(s) \/ phase = "done"
  /\ eos[s] => phase = "done" /\ seen[s] = sent
  /\ phase = "done" /\ ~Gone(s) /\ ~eos[s] => Ending(s)

EndInv == ListEnd /\ \A s \in Subscription : Served(s) => EndsWell(s)

LEMMA ListEndStep ==
  ASSUME TypeOK, BroadcastState, ListEnd, [Next]_vars
  PROVE  ListEnd'
<1> USE SharedSendersAssumption DEF list, producer, history
<1>1. CASE Subscribe
  <2>1. \A s \in Subscription : s >= next_id' =>
          s >= next_id /\ s # next_id /\ receiver'[s] = receiver[s]
    BY <1>1 DEF Subscribe, TypeOK, Subscription
  <2>2. dead' = {}
    BY <1>1 DEF Subscribe, Unlocked, BroadcastState
  <2> QED BY <1>1, <2>1, <2>2 DEF Subscribe, ListEnd
<1>2. ASSUME NEW s \in Subscription, Unsubscribe(s)
      PROVE  ListEnd'
  BY <1>2 DEF Unsubscribe, ListEnd, Gone
<1>3. CASE SupervisorClose \/ ProducerClose
  BY <1>3 DEF SupervisorClose, ProducerClose, CloseList, ListEnd, Gone
<1>4. CASE TakeDisconnected
  BY <1>4 DEF TakeDisconnected, ListEnd, Gone
<1>5. ASSUME NEW n \in 1 .. MaxBatch, SendMessage(n)
      PROVE  ListEnd'
  BY <1>5 DEF SendMessage, ListEnd, Gone
<1>6. ASSUME NEW s \in Subscription, RetryPending(s) \/ OfferMessage(s)
      PROVE  ListEnd'
  BY <1>6 DEF RetryPending, OfferMessage, ListEnd, Gone
<1>7. CASE ReleaseLock
  BY <1>7 DEF ReleaseLock, Waits, ListEnd, Gone
<1>8. ASSUME NEW s \in Subscription, DeliverBlocked(s) \/ GiveUpBlocked(s)
      PROVE  ListEnd'
  BY <1>8 DEF DeliverBlocked, GiveUpBlocked, Waits, ListEnd, Gone
<1>9. ASSUME NEW s \in Subscription, Consumer(s)
      PROVE  ListEnd'
  <2>1. receiver[s] = "open" /\ UNCHANGED <<list, producer>>
    BY <1>9, Zenon DEF Consumer, Receive, ReceiveDisconnected, DropReceiver
  <2>2. \A r \in Subscription : r # s => receiver'[r] = receiver[r] /\ eos'[r] = eos[r]
    BY <1>9, Zenon DEF Consumer, Receive, ReceiveDisconnected, DropReceiver, TypeOK
  <2>3. ~(s >= next_id) /\ s \notin dead
    BY <2>1 DEF ListEnd, Gone
  <2>4. dead \subseteq Subscription
    BY DEF TypeOK
  <2> QED BY <2>1, <2>2, <2>3, <2>4, Zenon DEF ListEnd, Gone
<1>10. CASE UNCHANGED vars
  BY <1>10 DEF vars, ListEnd, Gone
<1> QED BY <1>1, <1>2, <1>3, <1>4, <1>5, <1>6, <1>7, <1>8, <1>9, <1>10
        DEF Next, Supervisor, Producer, Broadcast

(***************************************************************************)
(* Taking a message from a channel with what is left of the stream.        *)
(***************************************************************************)
LEMMA EndingTail ==
  ASSUME TypeOK, NEW s \in Subscription, Ending(s), channel[s] # << >>
  PROVE  IF IsEndOfStream(Head(channel[s]))
           THEN seen[s] = sent
           ELSE \/ Remaining(Tail(channel[s]), Head(channel[s]).to)
                \/ \E q \in Seq(Message) :
                     /\ Tail(channel[s]) = Append(q, EndOfStream)
                     /\ Remaining(q, Head(channel[s]).to)
<1>1. channel[s] \in Seq(Message) /\ seen[s] \in Nat
  BY SharedSendersAssumption DEF TypeOK
<1>2. CASE Remaining(channel[s], seen[s])
  BY <1>1, <1>2, ConsecutiveTail DEF Remaining
<1>3. ASSUME NEW q \in Seq(Message), channel[s] = Append(q, EndOfStream),
             Remaining(q, seen[s])
      PROVE  IF IsEndOfStream(Head(channel[s]))
               THEN seen[s] = sent
               ELSE \E r \in Seq(Message) :
                      /\ Tail(channel[s]) = Append(r, EndOfStream)
                      /\ Remaining(r, Head(channel[s]).to)
  <2>1. CASE q = << >>
    <3>1. Head(channel[s]) = EndOfStream
      BY <1>3, <2>1
    <3>2. seen[s] = sent
      BY <1>3, <2>1 DEF Remaining, End
    <3> QED BY <3>1, <3>2 DEF IsEndOfStream, EndOfStream
  <2>2. CASE q # << >>
    <3>1. /\ Head(channel[s]) = Head(q)
          /\ Tail(channel[s]) = Append(Tail(q), EndOfStream)
          /\ Tail(q) \in Seq(Message)
      BY <1>3, <2>2
    <3>2. /\ Remaining(Tail(q), Head(q).to)
          /\ ~IsEndOfStream(Head(q))
      BY <1>1, <1>3, <2>2, ConsecutiveTail DEF Remaining
    <3> QED BY <3>1, <3>2, Zenon
  <2> QED BY <2>1, <2>2
<1> QED BY <1>2, <1>3, Zenon DEF Ending

(***************************************************************************)
(* A Block or Disconnect consumer that neither the supervisor nor its      *)
(* deadline ended has every value when it sees the end of the stream, in   *)
(* whatever order closing, the last broadcasts and its own reads happen.   *)
(***************************************************************************)
THEOREM NaturalEndIsCompleteHolds == Spec => []NaturalEndIsComplete
<1> USE SharedSendersAssumption
<1>1. Init => EndInv
  BY DEF Init, EndInv, ListEnd, Served, EndsWell, Subscription
<1>2. TypeOK /\ BroadcastState /\ Lossless /\ EndInv /\ [Next]_vars => EndInv'
  <2> SUFFICES ASSUME TypeOK, BroadcastState, Lossless, EndInv, [Next]_vars,
                      NEW t \in Subscription, Served(t)'
               PROVE  EndsWell(t)'
    BY ListEndStep DEF EndInv
  <2> USE DEF list, producer, history
  <2>0. Served(t) => EndsWell(t)
    BY DEF EndInv
  <2>l. ListEnd
    BY DEF EndInv
  <2>a. ASSUME Served(t), UNCHANGED <<phase, sent>>,
               t \in subscribers => t \in subscribers' \/ Gone(t),
               Gone(t)' <=> Gone(t), eos'[t] = eos[t],
               channel'[t] = channel[t], seen'[t] = seen[t]
        PROVE  EndsWell(t)'
    <3>1. Ending(t) => Ending(t)'
      BY <2>a DEF Ending, Remaining
    <3> QED BY <2>a, <2>0, <3>1 DEF EndsWell
  <2>b. ASSUME Served(t), phase # "done", phase' # "done",
               t \in subscribers => t \in subscribers' \/ Gone(t),
               Gone(t)' <=> Gone(t), eos'[t] = eos[t]
        PROVE  EndsWell(t)'
    BY <2>b, <2>0 DEF EndsWell
  <2>1. CASE Subscribe
    <3>1. CASE t = next_id
      <4>1. ~closed /\ t \in subscribers'
        BY <2>1, <3>1 DEF Subscribe, Served
      <4>2. phase' # "done" /\ ~eos'[t]
        BY <2>1, <2>l, <3>1, <4>1 DEF Subscribe, ListEnd, TypeOK
      <4> QED BY <4>1, <4>2 DEF EndsWell
    <3>2. CASE t # next_id
      <4>1. Served(t)
        BY <2>1, <3>2 DEF Subscribe, Served, TypeOK, Subscription
      <4> QED BY <2>1, <3>2, <4>1, <2>a DEF Subscribe, TypeOK, Gone
    <3> QED BY <3>1, <3>2
  <2>2. ASSUME NEW s \in Subscription, Unsubscribe(s)
        PROVE  EndsWell(t)'
    <3>1. Served(t) /\ t # s
      BY <2>2 DEF Unsubscribe, Served
    <3> QED BY <2>2, <3>1, <2>a DEF Unsubscribe, Gone
  <2>3. CASE SupervisorClose
    <3>1. Served(t) /\ t \notin subscribers
      BY <2>3 DEF SupervisorClose, CloseList, Served
    <3>2. channel'[t] = channel[t]
      BY <2>3, <3>1, QueueEffect DEF SupervisorClose, CloseList
    <3> QED BY <2>3, <3>1, <3>2, <2>a DEF SupervisorClose, CloseList, Gone
  <2>4. CASE TakeDisconnected
    BY <2>4, <2>a DEF TakeDisconnected, Gone, Served
  <2>5. ASSUME NEW n \in 1 .. MaxBatch, SendMessage(n)
        PROVE  EndsWell(t)'
    BY <2>5, <2>b, Zenon DEF SendMessage, Gone, Served
  <2>6. ASSUME NEW s \in Subscription, RetryPending(s) \/ OfferMessage(s)
        PROVE  EndsWell(t)'
    BY <2>6, <2>b DEF RetryPending, OfferMessage, Gone, Served
  <2>7. CASE ReleaseLock
    <3>1. t \in subscribers => t \in subscribers' \/ Gone(t)
      BY <2>7, <2>l DEF ReleaseLock, ListEnd
    <3> QED BY <2>7, <3>1, <2>b DEF ReleaseLock, Waits, Gone, Served
  <2>8. ASSUME NEW s \in Subscription, DeliverBlocked(s)
        PROVE  EndsWell(t)'
    BY <2>8, <2>b, Zenon DEF DeliverBlocked, Waits, Gone, Served
  <2>9. ASSUME NEW s \in Subscription, GiveUpBlocked(s)
        PROVE  EndsWell(t)'
    <3>1. /\ Served(t)
          /\ t \in subscribers => t \in subscribers' \/ Gone(t)
      BY <2>9, Zenon DEF GiveUpBlocked, Served
    <3> QED BY <2>9, <3>1, <2>b, Zenon DEF GiveUpBlocked, Waits, Gone
  <2>10. CASE ProducerClose
    <3>1. /\ Served(t) /\ phase # "done" /\ phase' = "done"
          /\ UNCHANGED <<sent, seen, eos, receiver>>
          /\ Queue(subscribers, EndOfStream)
          /\ todo \cup blocked = {}
      BY <2>10, Zenon DEF ProducerClose, CloseList, Served, BroadcastState
    <3>2. ~eos'[t] /\ (t \in subscribers \/ Gone(t))
      BY <2>0, <3>1 DEF EndsWell
    <3>3. ASSUME ~Gone(t)
          PROVE  Ending(t)'
      <4>1. Remaining(channel[t], seen[t])
        BY <3>1, <3>2, <3>3 DEF Lossless, Served, Remaining
      <4>2. channel'[t] = channel[t] \/ channel'[t] = Append(channel[t], EndOfStream)
        BY <3>1, QueueEffect, Zenon
      <4>3. channel[t] \in Seq(Message)
        BY DEF TypeOK
      <4> QED BY <3>1, <4>1, <4>2, <4>3, Zenon DEF Ending, Remaining
    <3> QED BY <3>1, <3>2, <3>3 DEF EndsWell, Gone
  <2>11. ASSUME NEW s \in Subscription, Receive(s)
         PROVE  EndsWell(t)'
    <3>1. /\ Served(t) /\ UNCHANGED <<phase, sent, subscribers, receiver>>
      BY <2>11 DEF Receive, Served
    <3>2. CASE t # s
      BY <2>11, <3>1, <3>2, <2>a DEF Receive, TypeOK, Gone
    <3>3. CASE t = s
      <4>1. /\ ~Gone(t) /\ ~eos[t] /\ channel[t] # << >>
            /\ channel[t] \in Seq(Message) /\ seen[t] \in Nat
            /\ channel'[t] = Tail(channel[t])
            /\ IF IsEndOfStream(Head(channel[t]))
                 THEN eos'[t] /\ seen'[t] = seen[t]
                 ELSE ~eos'[t] /\ seen'[t] = Head(channel[t]).to
        BY <2>11, <3>3 DEF Receive, Gone, TypeOK
      <4>2. CASE phase # "done"
        <5>1. t \in subscribers
          BY <2>0, <3>1, <4>1, <4>2, Zenon DEF EndsWell
        <5>2. Consecutive(channel[t], seen[t])
          BY <3>1, <4>1, <5>1, Zenon DEF Lossless, Served
        <5>3. ~IsEndOfStream(Head(channel[t]))
          BY <4>1, <5>2, ConsecutiveTail
        <5> QED BY <3>1, <4>1, <4>2, <5>1, <5>3 DEF EndsWell
      <4>3. CASE phase = "done"
        <5>1. Ending(t)
          BY <2>0, <3>1, <4>1, <4>3, Zenon DEF EndsWell
        <5>2. CASE IsEndOfStream(Head(channel[t]))
          <6>1. seen[t] = sent
            BY <4>1, <5>1, <5>2, EndingTail, Zenon
          <6> QED BY <3>1, <4>1, <4>3, <5>2, <6>1, Zenon DEF EndsWell
        <5>3. CASE ~IsEndOfStream(Head(channel[t]))
          <6>1. Ending(t)'
            BY <3>1, <4>1, <5>1, <5>3, EndingTail, Zenon DEF Ending, Remaining
          <6> QED BY <3>1, <4>1, <4>3, <5>3, <6>1, Zenon DEF EndsWell
        <5> QED BY <5>2, <5>3, Zenon
      <4> QED BY <4>2, <4>3
    <3> QED BY <3>2, <3>3
  <2>12. ASSUME NEW s \in Subscription, ReceiveDisconnected(s)
         PROVE  EndsWell(t)'
    <3>1. /\ Served(t)
          /\ UNCHANGED <<phase, sent, subscribers, receiver, channel, seen>>
      BY <2>12 DEF ReceiveDisconnected, Served
    <3>2. CASE t # s
      BY <2>12, <3>1, <3>2, <2>a DEF ReceiveDisconnected, TypeOK, Gone
    <3>3. CASE t = s
      <4>1. /\ ~Gone(t) /\ ~eos[t] /\ t \notin subscribers /\ channel[t] = << >>
            /\ eos'[t]
        BY <2>12, <3>3 DEF ReceiveDisconnected, Disconnected, Gone, TypeOK
      <4>2. phase = "done" /\ Ending(t)
        BY <2>0, <3>1, <4>1 DEF EndsWell
      <4>3. \A q \in Seq(Message) : Append(q, EndOfStream) # << >>
        OBVIOUS
      <4>4. seen[t] = sent
        BY <4>1, <4>2, <4>3, Zenon DEF Ending, Remaining, End
      <4> QED BY <3>1, <4>1, <4>2, <4>4 DEF EndsWell
    <3> QED BY <3>2, <3>3
  <2>13. ASSUME NEW s \in Subscription, DropReceiver(s)
         PROVE  EndsWell(t)'
    <3>1. /\ Served(t) /\ UNCHANGED <<phase, sent, subscribers, eos, seen>>
      BY <2>13 DEF DropReceiver, Served
    <3>2. CASE t # s
      BY <2>13, <3>1, <3>2, <2>a, Zenon DEF DropReceiver, TypeOK, Gone
    <3>3. CASE t = s
      <4>1. Gone(t)'
        BY <2>13, <3>3 DEF DropReceiver, Gone, TypeOK
      <4> QED BY <2>0, <3>1, <4>1 DEF EndsWell
    <3> QED BY <3>2, <3>3
  <2>14. CASE UNCHANGED vars
    BY <2>14, <2>a DEF vars, Gone, Served
  <2> QED BY <2>1, <2>2, <2>3, <2>4, <2>5, <2>6, <2>7, <2>8, <2>9, <2>10, <2>11,
             <2>12, <2>13, <2>14
          DEF Next, Supervisor, Producer, Broadcast, Consumer
<1>3. TypeOK /\ EndInv => NaturalEndIsComplete
  <2> SUFFICES ASSUME TypeOK, EndInv, NEW s \in Subscription, Policy[s] # "Lossy",
                      eos[s], s \notin cut \cup expired
               PROVE  seen[s] = sent
    BY DEF NaturalEndIsComplete
  <2>1. s < next_id
    BY DEF EndInv, ListEnd, TypeOK, Subscription
  <2>2. EndsWell(s)
    BY <2>1 DEF EndInv, Served
  <2> QED BY <2>2 DEF EndsWell
<1> QED BY <1>1, <1>2, <1>3, TypeCorrect, BroadcastStateHolds, LosslessHolds, PTL
        DEF Spec
=============================================================================
