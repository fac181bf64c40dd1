---------------------------- MODULE SharedSenders ----------------------------
(***************************************************************************)
(* The broadcast subscriber list behind every managed output port          *)
(* (signal_runtime/src/sender.rs, SharedSenders) with the bounded channels *)
(* of its subscribers and their receiving ends.                            *)
(*                                                                         *)
(* Three kinds of threads meet here.  The one producer of the port calls   *)
(* send, send_batch and, when its node ends, close.  The supervisor        *)
(* subscribes and unsubscribes consumers and may close the list at any     *)
(* time.  Each consumer takes messages from its own channel or drops its   *)
(* receiver.  A broadcast has two phases: under the list's lock it offers  *)
(* the message to every subscriber without waiting; after the lock is      *)
(* released it waits for the subscribers that had no room, one by one,     *)
(* with a clone of their channel's sending end.  Channel operations do not *)
(* take the lock, so consumers run between any two of these steps.         *)
(*                                                                         *)
(* Values are numbered in the order they are sent, so a message is the     *)
(* interval of the values it carries: one for a Sample, several for a      *)
(* Batch.                                                                  *)
(***************************************************************************)
EXTENDS Naturals, Sequences, FiniteSets

CONSTANTS
  MaxSubscriptions,   \* bound of the model: subscriptions ever made
  MaxValues,          \* bound of the model: values ever sent
  MaxBatch,           \* bound of the model: values in one message
  Policy,             \* the overflow policy of each subscription
  Capacity,           \* the depth of each subscription's channel
  Sticky              \* a level list, which primes late joiners

Subscription == 1 .. MaxSubscriptions

ASSUME SharedSendersAssumption ==
  /\ MaxSubscriptions \in Nat
  /\ MaxValues \in Nat
  /\ MaxBatch \in Nat \ {0}
  /\ Policy \in [Subscription -> {"Block", "Lossy", "Disconnect"}]
  /\ Capacity \in [Subscription -> Nat \ {0}]
  /\ Sticky \in BOOLEAN

None == 0

Data(a, b) == [from |-> a, to |-> b]
EndOfStream == [from |-> None, to |-> None]
IsEndOfStream(m) == m.to = None
Message == [from : 0 .. MaxValues, to : 0 .. MaxValues]

VARIABLES
  subscribers,    \* the list
  last,           \* sticky lists: the last value sent
  closed,
  disconnected,   \* subscriptions to report, dropped by Disconnect
  pending,        \* per Lossy subscriber: the newest value that did not fit
  next_id,        \* NEXT_SUBSCRIPTION_ID
  channel,        \* per subscription: the queued messages
  receiver,       \* per subscription: the receiving end
  sent,           \* values sent so far
  phase,          \* where the producer is in send_message
  message,        \* the message being broadcast
  todo,           \* subscribers the message was not offered to yet
  dead,           \* subscribers found without a receiver
  blocked         \* subscribers the producer will wait for, in id order

(***************************************************************************)
(* History of the consumers and of the environment, for the properties.    *)
(***************************************************************************)
VARIABLES
  seen,           \* per subscription: the last value its consumer took
  eos,            \* per subscription: its consumer saw the end of stream
  cut,            \* subscriptions not ended by the producer's own close
  expired,        \* subscriptions whose Disconnect deadline expired
  clear           \* would_block was false when the broadcast began

list == <<subscribers, last, closed, disconnected, pending, next_id>>
producer == <<sent, phase, message, todo, dead, blocked>>
history == <<seen, eos, cut, expired, clear>>
vars == <<list, channel, receiver, producer, history>>

Init ==
  /\ subscribers = {}
  /\ last = None
  /\ closed = FALSE
  /\ disconnected = {}
  /\ pending = [s \in Subscription |-> None]
  /\ next_id = 1
  /\ channel = [s \in Subscription |-> << >>]
  /\ receiver = [s \in Subscription |-> "unborn"]
  /\ sent = 0
  /\ phase = "idle"
  /\ message = EndOfStream
  /\ todo = {}
  /\ dead = {}
  /\ blocked = {}
  /\ seen = [s \in Subscription |-> 0]
  /\ eos = [s \in Subscription |-> FALSE]
  /\ cut = {}
  /\ expired = {}
  /\ clear = FALSE

-----------------------------------------------------------------------------
(* Mutated forms of definitions below; no specification uses them.         *)

MustWaitOnlyDisconnect(s) == Policy[s] = "Disconnect"
MayExpireNever(s) == FALSE
CoalescedFirst(m) == m.from
DisconnectedNever(s) == FALSE
DisconnectedEarly(s) == s \notin subscribers \cup blocked
WouldBlockOffByOne ==
  \E s \in subscribers : Policy[s] # "Lossy" /\ Len(channel[s]) > Capacity[s]

-----------------------------------------------------------------------------
(* The bounded channel of a subscription (crossbeam_channel::bounded).     *)

HasRoom(s) == Len(channel[s]) < Capacity[s]

Gone(s) == receiver[s] = "dropped"

(***************************************************************************)
(* try_send on each channel of S: the message is queued where it fits.     *)
(***************************************************************************)
Queue(S, m) ==
  channel' = [s \in Subscription |->
                IF s \in S /\ ~Gone(s) /\ HasRoom(s)
                  THEN Append(channel[s], m)
                  ELSE channel[s]]

(***************************************************************************)
(* Every sending end was dropped: the list's and the clone a waiting       *)
(* producer holds.  recv reports it once the queue is empty.               *)
(***************************************************************************)
Disconnected(s) == s \notin subscribers \cup blocked /\ channel[s] = << >>

-----------------------------------------------------------------------------
(* The supervisor.  Each operation takes the lock, which the producer      *)
(* holds while it offers a message.                                        *)

Unlocked == phase # "offering"

(***************************************************************************)
(* subscribe_with_label: the receiver of a closed list finds the end of    *)
(* stream; a sticky list primes the channel with the last value.           *)
(***************************************************************************)
Subscribe ==
  LET s == next_id
      primed == Sticky /\ last # None
  IN /\ Unlocked
     /\ s \in Subscription
     /\ next_id' = s + 1
     /\ receiver' = [receiver EXCEPT ![s] = "open"]
     /\ subscribers' = IF closed THEN subscribers ELSE subscribers \cup {s}
     /\ channel' = [channel EXCEPT ![s] =
                      IF closed THEN <<EndOfStream>>
                      ELSE IF primed THEN <<Data(last, last)>>
                      ELSE << >>]
     /\ seen' = [seen EXCEPT ![s] = IF primed /\ ~closed THEN last - 1 ELSE sent]
     /\ cut' = IF closed THEN cut \cup {s} ELSE cut
     /\ UNCHANGED <<last, closed, disconnected, pending, producer, eos, expired,
                    clear>>

Unsubscribe(s) ==
  /\ Unlocked
  /\ s \in subscribers
  /\ subscribers' = subscribers \ {s}
  /\ pending' = [pending EXCEPT ![s] = None]
  /\ cut' = cut \cup {s}
  /\ UNCHANGED <<last, closed, disconnected, next_id, channel, receiver, producer,
                 seen, eos, expired, clear>>

(***************************************************************************)
(* close: one end-of-stream per subscriber where it fits, and the sending  *)
(* ends are dropped whether it does or not, with the pending values.       *)
(***************************************************************************)
CloseList ==
  /\ closed' = TRUE
  /\ Queue(subscribers, EndOfStream)
  /\ subscribers' = {}
  /\ pending' = [s \in Subscription |-> None]
  /\ UNCHANGED <<last, disconnected, next_id, receiver>>

SupervisorClose ==
  /\ Unlocked
  /\ ~closed
  /\ CloseList
  /\ cut' = cut \cup subscribers
  /\ UNCHANGED <<producer, seen, eos, expired, clear>>

TakeDisconnected ==
  /\ Unlocked
  /\ disconnected # {}
  /\ disconnected' = {}
  /\ UNCHANGED <<subscribers, last, closed, pending, next_id, channel, receiver,
                 producer, history>>

-----------------------------------------------------------------------------
(* The producer: send_message and the close at the end of its node.        *)

(***************************************************************************)
(* would_block, which the cooperative scheduler asks before it lets the    *)
(* node send.                                                              *)
(***************************************************************************)
WouldBlock ==
  \E s \in subscribers : Policy[s] # "Lossy" /\ Len(channel[s]) >= Capacity[s]

(***************************************************************************)
(* send and send_batch: the lock is taken and a sticky list remembers the  *)
(* last value of the message.                                              *)
(***************************************************************************)
SendMessage(n) ==
  /\ phase = "idle"
  /\ sent + n <= MaxValues
  /\ message' = Data(sent + 1, sent + n)
  /\ sent' = sent + n
  /\ last' = IF Sticky THEN sent + n ELSE last
  /\ todo' = subscribers
  /\ phase' = "offering"
  /\ clear' = ~WouldBlock
  /\ UNCHANGED <<subscribers, closed, disconnected, pending, next_id, channel,
                 receiver, dead, blocked, seen, eos, cut, expired>>

First(S, s) == s \in S /\ \A t \in S : s <= t

(***************************************************************************)
(* A pending value goes first, and is given up if it still does not fit.   *)
(***************************************************************************)
RetryPending(s) ==
  /\ phase = "offering"
  /\ First(todo, s)
  /\ pending[s] # None
  /\ pending' = [pending EXCEPT ![s] = None]
  /\ Queue({s}, Data(pending[s], pending[s]))
  /\ dead' = IF Gone(s) THEN dead \cup {s} ELSE dead
  /\ todo' = IF Gone(s) THEN todo \ {s} ELSE todo
  /\ UNCHANGED <<subscribers, last, closed, disconnected, next_id, receiver, sent,
                 phase, message, blocked, history>>

MustWait(s) == Policy[s] # "Lossy"

(***************************************************************************)
(* The one value of a message that a Lossy subscriber keeps pending.       *)
(***************************************************************************)
Coalesced(m) == m.to

OfferMessage(s) ==
  LET overflows == ~Gone(s) /\ ~HasRoom(s)
  IN /\ phase = "offering"
     /\ First(todo, s)
     /\ pending[s] = None
     /\ Queue({s}, message)
     /\ todo' = todo \ {s}
     /\ dead' = IF Gone(s) THEN dead \cup {s} ELSE dead
     /\ blocked' = IF overflows /\ MustWait(s) THEN blocked \cup {s} ELSE blocked
     /\ pending' = IF overflows /\ ~MustWait(s)
                     THEN [pending EXCEPT ![s] = Coalesced(message)]
                     ELSE pending
     /\ UNCHANGED <<subscribers, last, closed, disconnected, next_id, receiver, sent,
                    phase, message, history>>

Waits(S) == IF S = {} THEN "idle" ELSE "waiting"

ReleaseLock ==
  /\ phase = "offering"
  /\ todo = {}
  /\ subscribers' = subscribers \ dead
  /\ pending' = [s \in Subscription |-> IF s \in dead THEN None ELSE pending[s]]
  /\ dead' = {}
  /\ phase' = Waits(blocked)
  /\ UNCHANGED <<last, closed, disconnected, next_id, channel, receiver, sent,
                 message, todo, blocked, history>>

(***************************************************************************)
(* The waiting send to s found room.                                       *)
(***************************************************************************)
DeliverBlocked(s) ==
  /\ phase = "waiting"
  /\ First(blocked, s)
  /\ ~Gone(s)
  /\ HasRoom(s)
  /\ Queue({s}, message)
  /\ blocked' = blocked \ {s}
  /\ phase' = Waits(blocked')
  /\ UNCHANGED <<list, receiver, sent, message, todo, dead, history>>

(***************************************************************************)
(* The waiting send to s failed: its receiver was dropped, or its deadline *)
(* expired.                                                                *)
(***************************************************************************)
MayExpire(s) == Policy[s] = "Disconnect" /\ ~Gone(s) /\ ~HasRoom(s)

GiveUpBlocked(s) ==
  /\ phase = "waiting"
  /\ First(blocked, s)
  /\ \/ Gone(s) /\ UNCHANGED expired
     \/ MayExpire(s) /\ expired' = expired \cup {s}
  /\ subscribers' = subscribers \ {s}
  /\ disconnected' = IF Policy[s] = "Disconnect" THEN disconnected \cup {s}
                                                 ELSE disconnected
  /\ pending' = [pending EXCEPT ![s] = None]
  /\ blocked' = blocked \ {s}
  /\ phase' = Waits(blocked')
  /\ UNCHANGED <<last, closed, next_id, channel, receiver, sent, message, todo, dead,
                 seen, eos, cut, clear>>

(***************************************************************************)
(* The node ended: its thread closes the list (manager.rs, start_node).    *)
(***************************************************************************)
ProducerClose ==
  /\ phase = "idle"
  /\ CloseList
  /\ phase' = "done"
  /\ UNCHANGED <<sent, message, todo, dead, blocked, history>>

-----------------------------------------------------------------------------
(* The consumers.                                                          *)

Receive(s) ==
  /\ receiver[s] = "open"
  /\ ~eos[s]
  /\ channel[s] # << >>
  /\ channel' = [channel EXCEPT ![s] = Tail(@)]
  /\ IF IsEndOfStream(Head(channel[s]))
       THEN eos' = [eos EXCEPT ![s] = TRUE] /\ UNCHANGED seen
       ELSE seen' = [seen EXCEPT ![s] = Head(channel[s]).to] /\ UNCHANGED eos
  /\ UNCHANGED <<list, receiver, producer, cut, expired, clear>>

ReceiveDisconnected(s) ==
  /\ receiver[s] = "open"
  /\ ~eos[s]
  /\ Disconnected(s)
  /\ eos' = [eos EXCEPT ![s] = TRUE]
  /\ UNCHANGED <<list, channel, receiver, producer, seen, cut, expired, clear>>

DropReceiver(s) ==
  /\ receiver[s] = "open"
  /\ receiver' = [receiver EXCEPT ![s] = "dropped"]
  /\ channel' = [channel EXCEPT ![s] = << >>]
  /\ UNCHANGED <<list, producer, history>>

-----------------------------------------------------------------------------
Supervisor ==
  \/ Subscribe
  \/ \E s \in Subscription : Unsubscribe(s)
  \/ SupervisorClose
  \/ TakeDisconnected

Broadcast(s) ==
  RetryPending(s) \/ OfferMessage(s) \/ DeliverBlocked(s) \/ GiveUpBlocked(s)

Producer ==
  \/ \E n \in 1 .. MaxBatch : SendMessage(n)
  \/ \E s \in Subscription : Broadcast(s)
  \/ ReleaseLock
  \/ ProducerClose

Consumer(s) == Receive(s) \/ ReceiveDisconnected(s) \/ DropReceiver(s)

Next == Supervisor \/ Producer \/ \E s \in Subscription : Consumer(s)

(***************************************************************************)
(* A broadcast that started goes on, a deadline expires, and the consumers *)
(* of Block subscriptions keep receiving: a node's work loop reads its     *)
(* inputs until they end.  Nothing is assumed of the other consumers.      *)
(***************************************************************************)
Fairness ==
  /\ WF_vars(ReleaseLock)
  /\ WF_vars(\E s \in Subscription : Broadcast(s))
  /\ \A s \in Subscription :
       Policy[s] = "Block" => WF_vars(Receive(s) \/ ReceiveDisconnected(s))

Spec == Init /\ [][Next]_vars /\ Fairness

-----------------------------------------------------------------------------
TypeOK ==
  /\ subscribers \subseteq Subscription
  /\ last \in 0 .. MaxValues
  /\ closed \in BOOLEAN
  /\ disconnected \subseteq Subscription
  /\ pending \in [Subscription -> 0 .. MaxValues]
  /\ next_id \in 1 .. MaxSubscriptions + 1
  /\ channel \in [Subscription -> Seq(Message)]
  /\ \A s \in Subscription : Len(channel[s]) <= Capacity[s]
  /\ receiver \in [Subscription -> {"unborn", "open", "dropped"}]
  /\ sent \in 0 .. MaxValues
  /\ phase \in {"idle", "offering", "waiting", "done"}
  /\ message \in Message
  /\ todo \subseteq Subscription
  /\ dead \subseteq Subscription
  /\ blocked \subseteq Subscription
  /\ seen \in [Subscription -> 0 .. MaxValues]
  /\ eos \in [Subscription -> BOOLEAN]
  /\ cut \subseteq Subscription
  /\ expired \subseteq Subscription
  /\ clear \in BOOLEAN

(***************************************************************************)
(* What the lock and the two phases of a broadcast guarantee about the     *)
(* list: the facts Lossless and ClearSendNeverWaits rest on.               *)
(***************************************************************************)
BroadcastState ==
  /\ subscribers \cup blocked \subseteq 1 .. next_id - 1
  /\ todo \cup dead \subseteq subscribers
  /\ todo \cap (dead \cup blocked) = {}
  /\ phase # "offering" => todo \cup dead = {}
  /\ phase \in {"idle", "done"} => blocked = {}
  /\ phase \in {"offering", "waiting"} =>
       message.from \in 1 .. message.to /\ message.to = sent
  /\ Sticky => last = sent
  /\ \A s \in Subscription : pending[s] # None => Policy[s] = "Lossy"

(***************************************************************************)
(* A consumer that has taken values up to x finds the queue q: End is the  *)
(* newest value it will have then; Consecutive says that it misses none    *)
(* and sees none twice, Increasing that it sees them in order.             *)
(***************************************************************************)
End(q, x) == IF q = << >> THEN x ELSE q[Len(q)].to

Consecutive(q, x) ==
  /\ \A i \in 1 .. Len(q) : q[i].from <= q[i].to
  /\ q # << >> => q[1].from = x + 1
  /\ \A i \in 1 .. Len(q) - 1 : q[i + 1].from = q[i].to + 1

Increasing(q, x) ==
  /\ \A i \in 1 .. Len(q) : q[i].from <= q[i].to
  /\ q # << >> => x < q[1].from
  /\ \A i \in 1 .. Len(q) - 1 : q[i].to < q[i + 1].from

(***************************************************************************)
(* Lossless flow control: the values of a Block or Disconnect subscriber   *)
(* that is on the list are consecutive from the point where it joined, up  *)
(* to the newest value sent, except for the message still being broadcast. *)
(* Nothing is lost, doubled or reordered by joining during a broadcast, by *)
(* priming, or by the wait outside the lock.                               *)
(***************************************************************************)
Lossless ==
  \A s \in subscribers :
    Policy[s] # "Lossy" /\ ~Gone(s) =>
      /\ Consecutive(channel[s], seen[s])
      /\ End(channel[s], seen[s]) =
           IF s \in todo \cup blocked THEN message.from - 1 ELSE sent

(***************************************************************************)
(* Lossy keeps the newest value: whenever no broadcast is under way to a   *)
(* Lossy subscriber, the newest value sent is the last one queued for it   *)
(* or is pending, and what it sees stays in order.                         *)
(***************************************************************************)
LossyKeepsNewest ==
  \A s \in subscribers :
    Policy[s] = "Lossy" /\ ~Gone(s) =>
      /\ Increasing(channel[s], seen[s])
      /\ pending[s] # None => End(channel[s], seen[s]) < pending[s]
      /\ s \notin todo =>
           sent = IF pending[s] # None THEN pending[s] ELSE End(channel[s], seen[s])

(***************************************************************************)
(* A natural end loses nothing: a consumer that is not Lossy, and was      *)
(* ended neither by the supervisor nor by its deadline, sees the end of    *)
(* stream only after the last value, also when the end-of-stream message   *)
(* found the channel full and the dropped sending end stands for it.       *)
(***************************************************************************)
NaturalEndIsComplete ==
  \A s \in Subscription :
    Policy[s] # "Lossy" /\ eos[s] /\ s \notin cut \cup expired => seen[s] = sent

(***************************************************************************)
(* would_block is a sufficient check: a broadcast that begins when it      *)
(* answers false never waits for a subscriber, so the one thread of the    *)
(* cooperative scheduler is never stuck in a send.                         *)
(***************************************************************************)
ClearSendNeverWaits == clear => blocked = {}

(***************************************************************************)
(* Every broadcast ends although the consumers of Lossy and Disconnect     *)
(* subscribers may stop taking messages forever.                           *)
(***************************************************************************)
SendCompletes == phase \in {"offering", "waiting"} ~> phase \in {"idle", "done"}

(***************************************************************************)
(* A consumer whose subscription left the list, by unsubscribe or a lost   *)
(* race with the producer, or whose list was closed, sees the end of its   *)
(* stream, also when its channel was full at the time.                     *)
(***************************************************************************)
EndIsSeen ==
  \A s \in Subscription :
    Policy[s] = "Block" =>
      (receiver[s] = "open" /\ (closed \/ s \notin subscribers)) ~> (eos[s] \/ Gone(s))
=============================================================================
