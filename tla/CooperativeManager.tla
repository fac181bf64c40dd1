------------------------- MODULE CooperativeManager -------------------------
(***************************************************************************)
(* The single-threaded manager                                             *)
(* (signal_runtime/src/cooperative_manager.rs): the host pumps it, and it  *)
(* calls the work of a node only when the node can neither wait for an     *)
(* input nor for room in an output: a call that did wait would never       *)
(* return, since nothing else runs.                                        *)
(*                                                                         *)
(* A node has one output list; an edge <<c, p>> is the subscription of     *)
(* node c to the list of node p, with its channel and the probe of c.      *)
(* Values are all alike and every subscription blocks.                     *)
(***************************************************************************)
EXTENDS Naturals, Sequences, FiniteSets

CONSTANTS
  Node,
  Inputs,           \* per node: the nodes it reads
  Multiplexing,     \* nodes scheduled on any input; the others need all
  CompleteInputs,   \* edges that are ready only when their stream is over
  EndsEarly,        \* nodes that may stop, or fail, before their inputs end
  Depth,            \* messages in a subscription's channel
  MaxItems,         \* bound of the model: items of a source
  MaxEdits,         \* bound of the model: calls that change the graph
  Budget,           \* work calls of one pump
  RestartMayFail    \* restart_node may be given a wiring it refuses

Edge == {e \in Node \X Node : e[2] \in Inputs[e[1]]}
Source == {n \in Node : Inputs[n] = {}}

ASSUME CooperativeAssumption ==
  /\ IsFiniteSet(Node)
  /\ Inputs \in [Node -> SUBSET Node]
  /\ Multiplexing \subseteq Node
  /\ CompleteInputs \subseteq Edge
  /\ EndsEarly \subseteq Node
  /\ Depth \in Nat \ {0}
  /\ MaxItems \in Nat
  /\ MaxEdits \in Nat
  /\ Budget \in Nat \ {0}
  /\ RestartMayFail \in BOOLEAN

VARIABLES
  nodes,          \* the registered nodes
  order,          \* the iteration order of the hash map of nodes
  done,           \* nodes whose work ended
  closed,         \* nodes whose output list is closed
  link,           \* per edge: on an open list, closed, orphaned or not there
  channel,        \* per edge: the queued messages
  left,           \* per source: the items it has left
  cursor,         \* the place of the pump in the order; 0 between two pumps
  calls,          \* work calls of this pump
  made_progress,  \* in this pass
  edits           \* calls that changed the graph so far

graph == <<nodes, order, done, closed>>
pump == <<cursor, calls, made_progress>>
vars == <<graph, link, channel, left, pump, edits>>

Orders(S) == {o \in [1 .. Cardinality(S) -> S] : {o[k] : k \in DOMAIN o} = S}

InputsOf(n) == {e \in Edge : e[1] = n}
OutputsOf(n) == {e \in Edge : e[2] = n}
Live(e) == link[e] = "live"

(***************************************************************************)
(* A compiled graph, all its nodes added.                                  *)
(***************************************************************************)
Init ==
  /\ nodes = Node
  /\ order \in Orders(Node)
  /\ done = {}
  /\ closed = {}
  /\ link = [e \in Edge |-> "live"]
  /\ channel = [e \in Edge |-> << >>]
  /\ left = [n \in Node |-> IF n \in Source THEN MaxItems ELSE 0]
  /\ cursor = 0
  /\ calls = 0
  /\ made_progress = FALSE
  /\ edits = 0

-----------------------------------------------------------------------------
(* Mutated forms of definitions below; no specification uses them.         *)

ReadyOnAnyClosed(n) == \E e \in InputsOf(n) : channel[e] # << >> \/ link[e] = "closed"
ReadyWhileOneIsOpen(n) ==
  IF n \in Multiplexing
    THEN \E e \in InputsOf(n) : channel[e] # << >> /\ link[e] # "closed"
    ELSE \A e \in InputsOf(n) :
           link[e] = "closed" \/ (e \notin CompleteInputs /\ channel[e] # << >>)

-----------------------------------------------------------------------------
(* The lists, as functions of the channels.                                *)

Full(e) == Len(channel[e]) >= Depth

(***************************************************************************)
(* send: one item for every subscriber.                                    *)
(***************************************************************************)
Emitted(ch, n) ==
  [e \in Edge |-> IF e \in OutputsOf(n) /\ Live(e) THEN Append(ch[e], "item") ELSE ch[e]]

(***************************************************************************)
(* close: the end-of-stream marker where there is room.                    *)
(***************************************************************************)
Sealed(ch, n) ==
  [e \in Edge |-> IF e \in OutputsOf(n) /\ Live(e) /\ Len(ch[e]) < Depth
                    THEN Append(ch[e], "eos") ELSE ch[e]]

Unlinked(n) == [e \in Edge |-> IF e \in OutputsOf(n) /\ Live(e) THEN "closed" ELSE link[e]]

-----------------------------------------------------------------------------
(* What the pump asks before it calls a node.                              *)

ProducerClosed(e) == link[e] = "closed"

IsReady(e) ==
  ProducerClosed(e) \/ (e \notin CompleteInputs /\ channel[e] # << >>)

InputsReady(n) ==
  IF n \in Multiplexing
    THEN \/ \A e \in InputsOf(n) : ProducerClosed(e)
         \/ \E e \in InputsOf(n) : IsReady(e) /\ ~ProducerClosed(e)
    ELSE \A e \in InputsOf(n) : IsReady(e)

WouldBlock(n) == \E e \in OutputsOf(n) : Live(e) /\ Full(e)

Callable(n) == n \notin done /\ InputsReady(n) /\ ~WouldBlock(n)

-----------------------------------------------------------------------------
(* What work does: it reads its inputs, then sends at most once.           *)

Has(e) == channel[e] # << >> /\ Head(channel[e]) = "item"
Waits(e) == channel[e] = << >> /\ Live(e)
Ended(e) == ~Has(e) /\ ~Waits(e)
ItemInputs(n) == InputsOf(n) \ CompleteInputs

(***************************************************************************)
(* A multiplexing node selects over its inputs and waits if none has an    *)
(* item and one is open; another one reads all of them.                    *)
(***************************************************************************)
RecvWaits(n) ==
  IF n \in Multiplexing
    THEN (\A e \in InputsOf(n) : ~Has(e)) /\ (\E e \in InputsOf(n) : Waits(e))
    ELSE \E e \in InputsOf(n) : Waits(e)

SendWaits(n) == \E e \in OutputsOf(n) : Live(e) /\ Full(e)

InputsEnded(n) ==
  IF n \in Source THEN left[n] = 0
  ELSE IF n \in Multiplexing THEN \A e \in InputsOf(n) : Ended(e)
  ELSE \E e \in ItemInputs(n) : Ended(e)

(***************************************************************************)
(* The inputs one call reads: one item of an input, of every item input,   *)
(* and all that a complete input holds.                                    *)
(***************************************************************************)
Reads(n) ==
  IF n \in Multiplexing THEN {{e} : e \in {f \in InputsOf(n) : Has(f)}}
                        ELSE {InputsOf(n)}

Consumed(R) ==
  [e \in Edge |-> IF e \notin R THEN channel[e]
                  ELSE IF e \in CompleteInputs THEN << >> ELSE Tail(channel[e])]

-----------------------------------------------------------------------------
(* One pass of pump_until over the nodes.                                  *)

(***************************************************************************)
(* The next node the pass calls: the ones before it are skipped.           *)
(***************************************************************************)
NextCall(k) ==
  /\ cursor > 0
  /\ k \in cursor .. Len(order)
  /\ Callable(order[k])
  /\ \A j \in cursor .. k - 1 : ~Callable(order[j])

(***************************************************************************)
(* After a call: the budget is spent, the deadline has passed, or the pass *)
(* goes on.                                                                *)
(***************************************************************************)
AfterCall(k, progressed) ==
  \/ /\ cursor' = 0 /\ calls' = 0 /\ made_progress' = FALSE
  \/ /\ calls + 1 < Budget
     /\ cursor' = k + 1
     /\ calls' = calls + 1
     /\ made_progress' = (made_progress \/ progressed)

(***************************************************************************)
(* The node is done, and its lists are closed before their flag is set.    *)
(***************************************************************************)
Finish(n, ch) ==
  /\ done' = done \cup {n}
  /\ closed' = closed \cup {n}
  /\ channel' = Sealed(ch, n)
  /\ link' = Unlinked(n)

StartPump ==
  /\ cursor = 0
  /\ ~(nodes \subseteq done)
  /\ cursor' = 1
  /\ UNCHANGED <<graph, link, channel, left, calls, made_progress, edits>>

WorkReturnsOk(k) ==
  LET n == order[k]
  IN /\ NextCall(k)
     /\ ~RecvWaits(n) /\ ~SendWaits(n) /\ ~InputsEnded(n)
     /\ \E R \in Reads(n), sends, stops \in BOOLEAN :
          LET ch == IF sends THEN Emitted(Consumed(R), n) ELSE Consumed(R)
          IN /\ n \in Source => sends
             /\ stops => n \in EndsEarly \/ (n \in Source /\ left[n] = 1)
             /\ left' = IF n \in Source THEN [left EXCEPT ![n] = @ - 1] ELSE left
             /\ IF stops
                  THEN Finish(n, ch)
                  ELSE channel' = ch /\ UNCHANGED <<done, closed, link>>
             /\ \E progressed \in {sends, TRUE} : AfterCall(k, progressed)
     /\ UNCHANGED <<nodes, order, edits>>

(***************************************************************************)
(* work returns Shutdown because its inputs have ended, or an error.       *)
(***************************************************************************)
WorkReturnsErr(k) ==
  LET n == order[k]
  IN /\ NextCall(k)
     /\ ~RecvWaits(n)
     /\ InputsEnded(n) \/ n \in EndsEarly
     /\ Finish(n, channel)
     /\ AfterCall(k, FALSE)
     /\ UNCHANGED <<nodes, order, left, edits>>

EndPass ==
  /\ cursor > 0
  /\ \A k \in cursor .. Len(order) : ~Callable(order[k])
  /\ cursor' = IF made_progress THEN 1 ELSE 0
  /\ calls' = IF made_progress THEN calls ELSE 0
  /\ made_progress' = FALSE
  /\ UNCHANGED <<graph, link, channel, left, edits>>

-----------------------------------------------------------------------------
(* Changes of the graph between two pumps.                                 *)

Edit ==
  /\ cursor = 0
  /\ edits < MaxEdits
  /\ edits' = edits + 1
  /\ UNCHANGED pump

(***************************************************************************)
(* The inputs of a new instance: a closed list answers with its marker.    *)
(***************************************************************************)
Subscribed(n, lk) ==
  [e \in Edge |-> IF e \notin InputsOf(n) THEN lk[e]
                  ELSE IF e[2] \in closed THEN "closed" ELSE "live"]

Fresh(n, ch) ==
  [e \in Edge |-> IF e \notin InputsOf(n) THEN ch[e]
                  ELSE IF e[2] \in closed THEN <<"eos">> ELSE << >>]

Refilled(n) == IF n \in Source THEN [left EXCEPT ![n] = MaxItems] ELSE left

(***************************************************************************)
(* The node goes away with its receivers.                                  *)
(***************************************************************************)
Detached(n, lk) == [e \in Edge |-> IF e \in InputsOf(n) THEN "none" ELSE lk[e]]
Emptied(n, ch) == [e \in Edge |-> IF e \in InputsOf(n) THEN << >> ELSE ch[e]]

AddNode(n) ==
  /\ Edit
  /\ n \notin nodes
  /\ Inputs[n] \subseteq nodes
  /\ nodes' = nodes \cup {n}
  /\ order' \in Orders(nodes')
  /\ link' = Subscribed(n, link)
  /\ channel' = Fresh(n, channel)
  /\ left' = Refilled(n)
  /\ UNCHANGED <<done, closed>>

RemoveNode(n) ==
  /\ Edit
  /\ n \in nodes
  /\ nodes' = nodes \ {n}
  /\ order' \in Orders(nodes')
  /\ done' = done \ {n}
  /\ closed' = closed \ {n}
  /\ link' = Detached(n, Unlinked(n))
  /\ channel' = Emptied(n, Sealed(channel, n))
  /\ UNCHANGED left

(***************************************************************************)
(* The fresh instance gets the output lists of the old one as they are.    *)
(***************************************************************************)
RestartNode(n) ==
  /\ Edit
  /\ n \in nodes
  /\ Inputs[n] \subseteq nodes
  /\ order' \in Orders(nodes)
  /\ done' = done \ {n}
  /\ link' = Subscribed(n, link)
  /\ channel' = Fresh(n, channel)
  /\ left' = Refilled(n)
  /\ UNCHANGED <<nodes, closed>>

(***************************************************************************)
(* The wiring is refused after the old node was taken out: its lists are   *)
(* dropped, and nobody sets their closed flag.                             *)
(***************************************************************************)
RestartFails(n) ==
  /\ RestartMayFail
  /\ Edit
  /\ n \in nodes
  /\ nodes' = nodes \ {n}
  /\ order' \in Orders(nodes')
  /\ done' = done \ {n}
  /\ closed' = closed \ {n}
  /\ link' = Detached(n, [e \in Edge |-> IF e \in OutputsOf(n) /\ Live(e)
                                           THEN "orphan" ELSE link[e]])
  /\ channel' = Emptied(n, channel)
  /\ UNCHANGED left

(***************************************************************************)
(* stop_all, and request_stop which is the same here.                      *)
(***************************************************************************)
StopAll ==
  /\ Edit
  /\ nodes # {}
  /\ nodes' = {}
  /\ order' = << >>
  /\ done' = {}
  /\ closed' = {}
  /\ link' = [e \in Edge |-> "none"]
  /\ channel' = [e \in Edge |-> << >>]
  /\ UNCHANGED left

-----------------------------------------------------------------------------
Pump ==
  \/ StartPump \/ EndPass
  \/ \E k \in 1 .. Cardinality(Node) : WorkReturnsOk(k) \/ WorkReturnsErr(k)

Edits ==
  \/ \E n \in Node : AddNode(n) \/ RemoveNode(n) \/ RestartNode(n) \/ RestartFails(n)
  \/ StopAll

Next == Pump \/ Edits

(***************************************************************************)
(* "The caller is expected to call this every frame".                      *)
(***************************************************************************)
Spec == Init /\ [][Next]_vars /\ WF_vars(Pump)

-----------------------------------------------------------------------------
TypeOK ==
  /\ nodes \subseteq Node
  /\ order \in Orders(nodes)
  /\ done \subseteq nodes
  /\ closed \subseteq nodes
  /\ link \in [Edge -> {"none", "live", "closed", "orphan"}]
  /\ channel \in [Edge -> Seq({"item", "eos"})]
  /\ \A e \in Edge : Len(channel[e]) <= Depth
  /\ left \in [Node -> 0 .. MaxItems]
  /\ cursor \in 0 .. Cardinality(Node) + 1
  /\ calls \in 0 .. Budget - 1
  /\ made_progress \in BOOLEAN
  /\ edits \in 0 .. MaxEdits

(***************************************************************************)
(* The manager "never blocks": whatever the order of the nodes, and        *)
(* however the graph is edited between two pumps, no call the pump is about*)
(* to make waits for a message or for room.                                *)
(***************************************************************************)
NeverBlocks ==
  \A k \in DOMAIN order :
    NextCall(k) => ~RecvWaits(order[k]) /\ (SendWaits(order[k]) => InputsEnded(order[k]))

(***************************************************************************)
(* The ways in which a graph of finite sources can come to a stop with     *)
(* work left.  A channel is full and its consumer does not read: it ended  *)
(* but keeps its receiver, or it waits for the whole of another stream.    *)
(* Or a refused restart left a consumer with a list nobody will close.     *)
(***************************************************************************)
AwaitsWhole(n) == \E e \in InputsOf(n) \cap CompleteInputs : Live(e)

Stalled ==
  \E e \in Edge :
    \/ Live(e) /\ Full(e) /\ (e[1] \in done \/ AwaitsWhole(e[1]))
    \/ link[e] = "orphan" /\ e[1] \in nodes \ done

(***************************************************************************)
(* is_finished comes true when the host goes on pumping, or the graph is   *)
(* in one of the stalls above: no order of the nodes, no budget and no     *)
(* edit leaves an item behind in any other way.                            *)
(***************************************************************************)
RunFinishes == []<>(nodes \subseteq done \/ Stalled)

(***************************************************************************)
(* "A node with any output that would currently block is skipped for this  *)
(* pump cycle ... and retried automatically": a skipped node does not stay *)
(* behind a full channel for ever.                                         *)
(***************************************************************************)
SkippedIsRetried ==
  \A n \in Node : n \in nodes \ done /\ WouldBlock(n) ~> ~WouldBlock(n)
=============================================================================
