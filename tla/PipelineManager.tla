--------------------------- MODULE PipelineManager ---------------------------
(***************************************************************************)
(* The supervisor of a live, threaded graph                                *)
(* (signal_runtime/src/manager.rs, PipelineManager) with the threads of    *)
(* its nodes.                                                              *)
(*                                                                         *)
(* The graph is a forest: a node reads the output list of at most one      *)
(* other node.  Adding a node, or restarting it, makes a new instance: a   *)
(* thread with a receiver.  An output list is named by the instance it was *)
(* created for and is handed on when the node is restarted in place.  The  *)
(* values are all alike here, and every subscription blocks; SharedSenders *)
(* has the details of one list.                                            *)
(*                                                                         *)
(* A call of the supervisor is a sequence of steps, because node threads   *)
(* run between its stores, its list operations and its joins.              *)
(***************************************************************************)
EXTENDS Naturals, Sequences, FiniteSets

CONSTANTS
  Node,
  Upstream,         \* the node each node reads, or None
  Depth,            \* messages in a subscription's channel
  MaxInstances,     \* bound of the model: instances ever created
  StartMayFail      \* the work executor may refuse a task

None == 0
Instance == 1 .. MaxInstances

ASSUME PipelineAssumption ==
  /\ None \notin Node
  /\ Upstream \in [Node -> Node \cup {None}]
  /\ Depth \in Nat \ {0}
  /\ MaxInstances \in Nat
  /\ StartMayFail \in BOOLEAN

VARIABLES
  nodes,              \* the registered instance of each node
  next_instance,
  outputs,            \* per instance: its output list
  input,              \* per instance: the list it subscribed to
  node_of,            \* per instance: its node
  subscribers,        \* per list: the subscribed instances
  closed,             \* the closed lists
  queue,              \* per instance: the channel it reads
  thread,             \* per instance: where its thread is
  blocked,            \* per instance: the instances its send waits for
  stop_flag,          \* instances told to stop
  keep_outputs_open,  \* instances that leave their list open on exit
  call,               \* the step of the supervisor's call
  target,             \* the instance the call is about
  todo,               \* instances a call still has to visit
  running_at_restart, \* history: the target worked into an open list
  replaced            \* history: instances that replaced such a target

registry == <<nodes, next_instance, outputs, input, node_of>>
lists == <<subscribers, closed>>
threads == <<thread, blocked>>
flags == <<stop_flag, keep_outputs_open>>
supervisor == <<call, target, todo, running_at_restart, replaced>>
vars == <<registry, lists, queue, threads, flags, supervisor>>

Init ==
  /\ nodes = [n \in Node |-> None]
  /\ next_instance = 1
  /\ outputs = [i \in Instance |-> None]
  /\ input = [i \in Instance |-> None]
  /\ node_of = [i \in Instance |-> None]
  /\ subscribers = [l \in Instance |-> {}]
  /\ closed = {}
  /\ queue = [i \in Instance |-> << >>]
  /\ thread = [i \in Instance |-> "none"]
  /\ blocked = [i \in Instance |-> {}]
  /\ stop_flag = {}
  /\ keep_outputs_open = {}
  /\ call = "building"
  /\ target = None
  /\ todo = {}
  /\ running_at_restart = FALSE
  /\ replaced = {}

Registered == {nodes[n] : n \in Node} \ {None}

WorkLoop == {"top", "recv", "send", "waiting"}
Ending == {"dropping", "exiting", "closing"}
InLoop(i) == thread[i] \in WorkLoop
Alive(i) == thread[i] \in WorkLoop \cup Ending

(***************************************************************************)
(* The instance works, and its list is open.                               *)
(***************************************************************************)
Heard(i) == InLoop(i) /\ i \notin stop_flag /\ outputs[i] \notin closed

(***************************************************************************)
(* The receiver of an instance exists until its thread drops the ports, or *)
(* while the instance waits for its thread.                                *)
(***************************************************************************)
Receives(i) == thread[i] \in WorkLoop \cup {"pending", "dropping"}

-----------------------------------------------------------------------------
(* Mutated forms of definitions below; no specification uses them.         *)

KeepNothing(i) == keep_outputs_open
JoinableAtOnce(i) == TRUE
StopWithoutClose(l) == UNCHANGED <<subscribers, closed, queue>>
DetachFrom(i) == UNCHANGED subscribers
KeepOpenAlways(i) == TRUE

-----------------------------------------------------------------------------
HasRoom(i) == Len(queue[i]) < Depth

(***************************************************************************)
(* A sending end of i's channel exists: on a list or with a waiting send.  *)
(***************************************************************************)
Connected(i) ==
  \/ \E l \in Instance : i \in subscribers[l]
  \/ \E j \in Instance : i \in blocked[j]

-----------------------------------------------------------------------------
(* List operations (sender.rs), each under the lock of its list.           *)

CloseList(l) ==
  /\ closed' = closed \cup {l}
  /\ subscribers' = [subscribers EXCEPT ![l] = {}]
  /\ queue' = [i \in Instance |->
                 IF i \in subscribers[l] /\ Receives(i) /\ HasRoom(i)
                   THEN Append(queue[i], "eos") ELSE queue[i]]

(***************************************************************************)
(* The last reference to a list goes away, and its sending ends with it.   *)
(***************************************************************************)
DropList(l) == [subscribers EXCEPT ![l] = {}]

-----------------------------------------------------------------------------
(* Registration: add_node_deferred and register, and the rewiring half of  *)
(* restart_node.                                                           *)

ProducerRegistered(n) == Upstream[n] # None => nodes[Upstream[n]] # None

Register(n, i, l) ==
  LET producer == IF Upstream[n] = None THEN None ELSE outputs[nodes[Upstream[n]]]
  IN /\ i \in Instance
     /\ i = next_instance
     /\ ProducerRegistered(n)
     /\ next_instance' = i + 1
     /\ nodes' = [nodes EXCEPT ![n] = i]
     /\ outputs' = [outputs EXCEPT ![i] = l]
     /\ input' = [input EXCEPT ![i] = producer]
     /\ node_of' = [node_of EXCEPT ![i] = n]
     /\ thread' = [thread EXCEPT ![i] = "pending"]
     /\ IF producer = None
          THEN UNCHANGED <<subscribers, queue>>
        ELSE IF producer \in closed
          THEN queue' = [queue EXCEPT ![i] = <<"eos">>] /\ UNCHANGED subscribers
        ELSE subscribers' = [subscribers EXCEPT ![producer] = @ \cup {i}]
               /\ UNCHANGED queue
     /\ UNCHANGED <<closed, blocked, flags>>

AddNodeDeferred(n) ==
  /\ call = "building"
  /\ nodes[n] = None
  /\ Register(n, next_instance, next_instance)
  /\ UNCHANGED supervisor

StartAllDeferred ==
  /\ call = "building"
  /\ Registered # {}
  /\ call' = "starting_all"
  /\ todo' = Registered
  /\ UNCHANGED <<registry, lists, queue, threads, flags, target, running_at_restart,
                 replaced>>

AddNode(n) ==
  /\ call = "idle"
  /\ nodes[n] = None
  /\ Register(n, next_instance, next_instance)
  /\ call' = "starting"
  /\ todo' = {next_instance}
  /\ UNCHANGED <<target, running_at_restart, replaced>>

StartNode(i) ==
  /\ call \in {"starting", "starting_all"}
  /\ i \in todo
  /\ thread' = [thread EXCEPT ![i] = "top"]
  /\ todo' = todo \ {i}
  /\ call' = IF todo' = {} THEN "idle" ELSE call
  /\ UNCHANGED <<registry, lists, queue, blocked, flags, target, running_at_restart,
                 replaced>>

(***************************************************************************)
(* The executor refused the task, and the closure is dropped with the      *)
(* ports.  A failed bring-up returns, and the manager is dropped, which    *)
(* stops everything; the nodes not reached yet are still pending.          *)
(***************************************************************************)
StartFails(i) ==
  /\ StartMayFail
  /\ call \in {"starting", "starting_all"}
  /\ i \in todo
  /\ thread' = [thread EXCEPT ![i] = "refused"]
  /\ queue' = [queue EXCEPT ![i] = << >>]
  /\ call' = IF call = "starting" THEN "idle" ELSE "stop_all"
  /\ todo' = IF call = "starting" THEN {} ELSE Registered
  /\ UNCHANGED <<registry, lists, blocked, flags, target, running_at_restart, replaced>>

-----------------------------------------------------------------------------
(* remove_node and restart_node.                                           *)

RemoveNode(n) ==
  /\ call = "idle"
  /\ nodes[n] # None
  /\ nodes' = [nodes EXCEPT ![n] = None]
  /\ target' = nodes[n]
  /\ call' = "remove_detach"
  /\ UNCHANGED <<next_instance, outputs, input, node_of, lists, queue, threads, flags,
                 todo, running_at_restart, replaced>>

KeepOpen(i) == keep_outputs_open \cup {i}

RestartNode(n) ==
  /\ call = "idle"
  /\ nodes[n] # None
  /\ nodes' = [nodes EXCEPT ![n] = None]
  /\ target' = nodes[n]
  /\ keep_outputs_open' = KeepOpen(nodes[n])
  /\ running_at_restart' = Heard(nodes[n])
  /\ call' = "restart_detach"
  /\ UNCHANGED <<next_instance, outputs, input, node_of, lists, queue, threads,
                 stop_flag, todo, replaced>>

(***************************************************************************)
(* detach finds the producer by its name, so it reaches the list of the    *)
(* instance registered now.                                                *)
(***************************************************************************)
Detach(i) ==
  LET up == Upstream[node_of[i]]
  IN subscribers' = IF up # None /\ nodes[up] # None
                      THEN [subscribers EXCEPT ![outputs[nodes[up]]] = @ \ {i}]
                      ELSE subscribers

DetachTarget ==
  /\ call \in {"remove_detach", "restart_detach"}
  /\ Detach(target)
  /\ call' = IF call = "remove_detach" THEN "remove_stop" ELSE "restart_stop"
  /\ UNCHANGED <<registry, closed, queue, threads, flags, target, todo,
                 running_at_restart, replaced>>

SignalTarget ==
  /\ call \in {"remove_stop", "restart_stop"}
  /\ stop_flag' = stop_flag \cup {target}
  /\ call' = IF call = "remove_stop" THEN "remove_close" ELSE "restart_join"
  /\ UNCHANGED <<registry, lists, queue, threads, keep_outputs_open, target, todo,
                 running_at_restart, replaced>>

CloseTarget ==
  /\ call = "remove_close"
  /\ CloseList(outputs[target])
  /\ call' = "remove_join"
  /\ UNCHANGED <<registry, threads, flags, target, todo, running_at_restart, replaced>>

(***************************************************************************)
(* A join returns when the thread has exited; an instance that never got   *)
(* a task is only dropped.                                                 *)
(***************************************************************************)
Joinable(i) == thread[i] \in {"exited", "refused", "pending"}

Discard(i) ==
  /\ IF thread[i] = "pending"
       THEN thread' = [thread EXCEPT ![i] = "exited"]
              /\ queue' = [queue EXCEPT ![i] = << >>]
       ELSE UNCHANGED <<thread, queue>>
  /\ UNCHANGED blocked

JoinRemoved ==
  /\ call = "remove_join"
  /\ Joinable(target)
  /\ Discard(target)
  /\ call' = "idle"
  /\ target' = None
  /\ UNCHANGED <<registry, lists, flags, todo, running_at_restart, replaced>>

JoinRestarted ==
  /\ call = "restart_join"
  /\ Joinable(target)
  /\ Discard(target)
  /\ call' = "rewire"
  /\ UNCHANGED <<registry, lists, flags, target, todo, running_at_restart, replaced>>

Rewire ==
  /\ call = "rewire"
  /\ Register(node_of[target], next_instance, outputs[target])
  /\ call' = "starting"
  /\ todo' = {next_instance}
  /\ target' = None
  /\ replaced' = IF running_at_restart THEN replaced \cup {next_instance} ELSE replaced
  /\ running_at_restart' = FALSE

(***************************************************************************)
(* The new wiring is refused: the node is gone, and its lists with it.     *)
(***************************************************************************)
RewireFails ==
  /\ call = "rewire"
  /\ subscribers' = DropList(outputs[target])
  /\ call' = "idle"
  /\ target' = None
  /\ running_at_restart' = FALSE
  /\ UNCHANGED <<registry, closed, queue, threads, flags, todo, replaced>>

-----------------------------------------------------------------------------
(* request_stop, stop_all and wait.                                        *)

RequestStop ==
  /\ call = "idle"
  /\ call' = "request_stop"
  /\ todo' = Registered
  /\ UNCHANGED <<registry, lists, queue, threads, flags, target, running_at_restart,
                 replaced>>

StopAll ==
  /\ call = "idle"
  /\ call' = "stop_all"
  /\ todo' = Registered
  /\ UNCHANGED <<registry, lists, queue, threads, flags, target, running_at_restart,
                 replaced>>

StopNode(i) ==
  /\ call \in {"request_stop", "stop_all"}
  /\ i \in todo
  /\ stop_flag' = stop_flag \cup {i}
  /\ CloseList(outputs[i])
  /\ todo' = todo \ {i}
  /\ UNCHANGED <<registry, threads, keep_outputs_open, call, target,
                 running_at_restart, replaced>>

AllSignalled ==
  /\ call \in {"request_stop", "stop_all"}
  /\ todo = {}
  /\ call' = IF call = "request_stop" THEN "idle" ELSE "join_all"
  /\ UNCHANGED <<registry, lists, queue, threads, flags, target, todo,
                 running_at_restart, replaced>>

WaitForAll ==
  /\ call = "idle"
  /\ call' = "wait_all"
  /\ UNCHANGED <<registry, lists, queue, threads, flags, target, todo,
                 running_at_restart, replaced>>

(***************************************************************************)
(* The registry is drained in the order of a hash map: the next node is    *)
(* any of the rest, and it is joined before another is taken.              *)
(***************************************************************************)
DrainNext(n) ==
  /\ call \in {"join_all", "wait_all"}
  /\ target = None
  /\ nodes[n] # None
  /\ nodes' = [nodes EXCEPT ![n] = None]
  /\ target' = nodes[n]
  /\ UNCHANGED <<next_instance, outputs, input, node_of, lists, queue, threads, flags,
                 call, todo, running_at_restart, replaced>>

JoinDrained ==
  /\ call \in {"join_all", "wait_all"}
  /\ target # None
  /\ Joinable(target)
  /\ Discard(target)
  /\ subscribers' = DropList(outputs[target])
  /\ target' = None
  /\ UNCHANGED <<registry, closed, flags, call, todo, running_at_restart, replaced>>

AllJoined ==
  /\ call \in {"join_all", "wait_all"}
  /\ target = None
  /\ Registered = {}
  /\ call' = "done"
  /\ UNCHANGED <<registry, lists, queue, threads, flags, target, todo,
                 running_at_restart, replaced>>

-----------------------------------------------------------------------------
(* The thread of an instance: the closure of start_node.                   *)

Goto(i, where) == thread' = [thread EXCEPT ![i] = where]

(***************************************************************************)
(* The head of the loop: the stop flag, then work.  Work of a source       *)
(* sends; other work begins by receiving.                                  *)
(***************************************************************************)
LoopTop(i) ==
  /\ thread[i] = "top"
  /\ Goto(i, IF i \in stop_flag THEN "dropping"
             ELSE IF input[i] = None THEN "send" ELSE "recv")
  /\ UNCHANGED <<registry, lists, queue, blocked, flags, supervisor>>

(***************************************************************************)
(* should_stop holds, or work returns Shutdown or an error.                *)
(***************************************************************************)
WorkEnds(i) ==
  /\ thread[i] = "top"
  /\ Goto(i, "dropping")
  /\ UNCHANGED <<registry, lists, queue, blocked, flags, supervisor>>

Recv(i) ==
  /\ thread[i] = "recv"
  /\ \/ /\ queue[i] # << >>
        /\ queue' = [queue EXCEPT ![i] = Tail(@)]
        /\ IF Head(queue[i]) = "eos" THEN Goto(i, "dropping")
                                     ELSE Goto(i, "send") \/ Goto(i, "top")
     \/ /\ queue[i] = << >>
        /\ ~Connected(i)
        /\ Goto(i, "dropping")
        /\ UNCHANGED queue
  /\ UNCHANGED <<registry, lists, blocked, flags, supervisor>>

(***************************************************************************)
(* The phase of send_message under the lock, as in SharedSenders.          *)
(***************************************************************************)
Send(i) ==
  LET l == outputs[i]
      full == {s \in subscribers[l] : Receives(s) /\ ~HasRoom(s)}
  IN /\ thread[i] = "send"
     /\ queue' = [s \in Instance |->
                    IF s \in subscribers[l] /\ Receives(s) /\ HasRoom(s)
                      THEN Append(queue[s], "item") ELSE queue[s]]
     /\ subscribers' = [subscribers EXCEPT ![l] = {s \in @ : Receives(s)}]
     /\ blocked' = [blocked EXCEPT ![i] = full]
     /\ Goto(i, IF full = {} THEN "top" ELSE "waiting")
     /\ UNCHANGED <<registry, closed, flags, supervisor>>

SendBlocked(i, s) ==
  /\ thread[i] = "waiting"
  /\ s \in blocked[i]
  /\ \A t \in blocked[i] : s <= t
  /\ \/ /\ Receives(s) /\ HasRoom(s)
        /\ queue' = [queue EXCEPT ![s] = Append(@, "item")]
        /\ UNCHANGED subscribers
     \/ /\ ~Receives(s)
        /\ subscribers' = [subscribers EXCEPT ![outputs[i]] = @ \ {s}]
        /\ UNCHANGED queue
  /\ blocked' = [blocked EXCEPT ![i] = @ \ {s}]
  /\ Goto(i, IF blocked[i] = {s} THEN "top" ELSE "waiting")
  /\ UNCHANGED <<registry, closed, flags, supervisor>>

DropPorts(i) ==
  /\ thread[i] = "dropping"
  /\ queue' = [queue EXCEPT ![i] = << >>]
  /\ Goto(i, "exiting")
  /\ UNCHANGED <<registry, lists, blocked, flags, supervisor>>

KeepsOpen(i) == i \in keep_outputs_open

CheckKeepOpen(i) ==
  /\ thread[i] = "exiting"
  /\ Goto(i, IF KeepsOpen(i) THEN "exited" ELSE "closing")
  /\ UNCHANGED <<registry, lists, queue, blocked, flags, supervisor>>

CloseOutputs(i) ==
  /\ thread[i] = "closing"
  /\ CloseList(outputs[i])
  /\ Goto(i, "exited")
  /\ UNCHANGED <<registry, blocked, flags, supervisor>>

-----------------------------------------------------------------------------
Continue ==
  \/ \E i \in Instance : StartNode(i) \/ StartFails(i)
  \/ DetachTarget \/ SignalTarget \/ CloseTarget \/ JoinRemoved \/ JoinRestarted
  \/ Rewire \/ RewireFails
  \/ \E i \in Instance : StopNode(i)
  \/ AllSignalled
  \/ \E n \in Node : DrainNext(n)
  \/ JoinDrained \/ AllJoined

Call ==
  \/ \E n \in Node : AddNodeDeferred(n) \/ AddNode(n) \/ RemoveNode(n) \/ RestartNode(n)
  \/ StartAllDeferred \/ RequestStop \/ StopAll \/ WaitForAll

Step(i) ==
  \/ LoopTop(i) \/ Recv(i) \/ Send(i) \/ DropPorts(i) \/ CheckKeepOpen(i)
  \/ CloseOutputs(i)
  \/ \E s \in Instance : SendBlocked(i, s)

Next == Continue \/ Call \/ \E i \in Instance : Step(i) \/ WorkEnds(i)

(***************************************************************************)
(* The scheduler runs every thread, and the supervisor's thread goes on    *)
(* with the call it made.  Sources may run forever, except that nobody     *)
(* waits for the natural end of a graph that has none.                     *)
(***************************************************************************)
Fairness ==
  /\ WF_vars(Continue)
  /\ \A i \in Instance : WF_vars(Step(i))
  /\ \A i \in Instance : SF_vars(call = "wait_all" /\ input[i] = None /\ WorkEnds(i))

Spec == Init /\ [][Next]_vars /\ Fairness

-----------------------------------------------------------------------------
Calls == {"building", "starting", "starting_all", "idle", "remove_detach",
          "remove_stop", "remove_close", "remove_join", "restart_detach",
          "restart_stop", "restart_join", "rewire", "request_stop", "stop_all",
          "join_all", "wait_all", "done"}

TypeOK ==
  /\ nodes \in [Node -> Instance \cup {None}]
  /\ next_instance \in 1 .. MaxInstances + 1
  /\ outputs \in [Instance -> Instance \cup {None}]
  /\ input \in [Instance -> Instance \cup {None}]
  /\ node_of \in [Instance -> Node \cup {None}]
  /\ subscribers \in [Instance -> SUBSET Instance]
  /\ closed \subseteq Instance
  /\ queue \in [Instance -> Seq({"item", "eos"})]
  /\ \A i \in Instance : Len(queue[i]) <= Depth
  /\ thread \in [Instance -> WorkLoop \cup Ending
                           \cup {"none", "pending", "exited", "refused"}]
  /\ blocked \in [Instance -> SUBSET Instance]
  /\ stop_flag \subseteq Instance
  /\ keep_outputs_open \subseteq Instance
  /\ call \in Calls
  /\ target \in Instance \cup {None}
  /\ todo \subseteq Instance
  /\ running_at_restart \in BOOLEAN
  /\ replaced \subseteq Instance

(***************************************************************************)
(* "Each port has exactly one sending thread" (sender.rs): although a      *)
(* restarted node gets the lists of its predecessor, two threads never     *)
(* send to one list.                                                       *)
(***************************************************************************)
OneSenderPerList ==
  \A i, j \in Instance : Alive(i) /\ Alive(j) /\ outputs[i] = outputs[j] => i = j

(***************************************************************************)
(* A node that worked into an open list when restart_node was called hands *)
(* the list over open: its replacement is heard by the same consumers,     *)
(* however the old thread came to its end in the meantime.                 *)
(***************************************************************************)
RestartKeepsListOpen ==
  \A i \in replaced : InLoop(i) /\ i \notin stop_flag => Heard(i)

(***************************************************************************)
(* While the graph is edited, an instance on a list is registered or is    *)
(* the one the supervisor is working on: removing or restarting a node     *)
(* leaves no subscription behind on the lists of its producer.             *)
(***************************************************************************)
NoForgottenSubscriber ==
  call \notin {"join_all", "wait_all", "done"} =>
    \A l, i \in Instance : i \in subscribers[l] => i \in Registered \cup {target}

\* l belongs to a node that was registered and whose thread could not be started.
Refused(l) == \E i \in Instance : thread[i] = "refused" /\ outputs[i] = l

HasSender(j) == \E i \in Instance : Alive(i) /\ outputs[i] = input[j]

(***************************************************************************)
(* Every call of the supervisor returns, although it joins threads that    *)
(* may be waiting in a send or a receive: remove_node, restart_node and    *)
(* start_node always, stop_all, join_all and wait_all unless a start was   *)
(* refused, which leaves a subscription that nobody reads (see             *)
(* StopAllReturns).                                                        *)
(***************************************************************************)
CallReturns ==
  call \notin {"building", "idle", "done"}
    ~> \/ call \in {"idle", "done"}
       \/ call \in {"stop_all", "join_all", "wait_all"} /\ \E l \in Instance : Refused(l)

(***************************************************************************)
(* "Stops everything: ... joins all threads" (stop_all): once called,      *)
(* directly or because a manager is dropped, it returns.                   *)
(***************************************************************************)
StopAllReturns == call = "stop_all" ~> call = "done"

(***************************************************************************)
(* The end of a node propagates: a consumer whose list has no sending      *)
(* thread any more comes to its own end, unless a new instance takes over  *)
(* or the start of the one that was to take over is refused, whose list    *)
(* stays open until that node is removed or the graph is stopped.          *)
(***************************************************************************)
EndPropagates ==
  \A j \in Instance :
    Alive(j) /\ input[j] # None /\ ~HasSender(j)
      ~> ~Alive(j) \/ HasSender(j) \/ Refused(input[j])

(***************************************************************************)
(* "Spawn a fresh instance wired to the same output lists - downstream     *)
(* consumers just see a quiet channel": a registered instance that works   *)
(* and was not told to stop sends to an open list.                         *)
(***************************************************************************)
WorkIsHeard ==
  call = "idle" =>
    \A i \in Registered : InLoop(i) /\ i \notin stop_flag => Heard(i)
=============================================================================
