------------------------ MODULE PipelineManagerProofs ------------------------
(***************************************************************************)
(* Proofs about PipelineManager for every graph that is a forest, every    *)
(* channel depth and any number of instances.                              *)
(***************************************************************************)
EXTENDS PipelineManager, TLAPS

-----------------------------------------------------------------------------
(* Types.                                                                  *)

LEMMA InstanceType == Instance \subseteq Nat /\ None \notin Instance
BY PipelineAssumption DEF Instance, None

Place == WorkLoop \cup Ending \cup {"none", "pending", "exited", "refused"}

(***************************************************************************)
(* The channels keep their type and their depth when a message goes to     *)
(* some that have room.                                                    *)
(***************************************************************************)
QueueOK ==
  /\ queue \in [Instance -> Seq({"item", "eos"})]
  /\ \A i \in Instance : Len(queue[i]) <= Depth

LEMMA AppendFits ==
  ASSUME QueueOK, NEW S, NEW m \in {"item", "eos"}, \A s \in S : HasRoom(s),
         queue' = [i \in Instance |-> IF i \in S THEN Append(queue[i], m) ELSE queue[i]]
  PROVE  QueueOK'
<1> USE PipelineAssumption
<1> SUFFICES ASSUME NEW i \in Instance
             PROVE  queue'[i] \in Seq({"item", "eos"}) /\ Len(queue'[i]) <= Depth
  BY DEF QueueOK
<1>1. queue[i] \in Seq({"item", "eos"}) /\ Len(queue[i]) <= Depth /\ Len(queue[i]) \in Nat
  BY DEF QueueOK
<1>2. CASE i \in S
  <2>1. queue'[i] = Append(queue[i], m) /\ Len(queue[i]) < Depth
    BY <1>2 DEF HasRoom
  <2>2. Append(queue[i], m) \in Seq({"item", "eos"}) /\ Len(Append(queue[i], m)) = Len(queue[i]) + 1
    BY <1>1
  <2> QED BY <1>1, <2>1, <2>2
<1>3. CASE i \notin S
  BY <1>1, <1>3
<1> QED BY <1>2, <1>3

LEMMA CloseListType ==
  ASSUME TypeOK, NEW l \in Instance, CloseList(l)
  PROVE  /\ subscribers' \in [Instance -> SUBSET Instance]
         /\ closed' \subseteq Instance
         /\ QueueOK'
<1>1. QueueOK
  BY DEF TypeOK, QueueOK
<1> DEFINE S == {i \in Instance : i \in subscribers[l] /\ Receives(i) /\ HasRoom(i)}
<1>2. queue' = [i \in Instance |-> IF i \in S THEN Append(queue[i], "eos") ELSE queue[i]]
  BY DEF CloseList
<1>3. QueueOK'
  <2>1. \A s \in S : HasRoom(s)
    OBVIOUS
  <2> HIDE DEF S
  <2> QED BY <1>1, <1>2, <2>1, AppendFits, Zenon
<1>4. subscribers' \in [Instance -> SUBSET Instance] /\ closed' \subseteq Instance
  BY DEF CloseList, TypeOK
<1> QED BY <1>3, <1>4

-----------------------------------------------------------------------------
(* Who owns a list.                                                        *)

(***************************************************************************)
(* The instance has a thread, or may still get one, or is known to the     *)
(* supervisor.                                                             *)
(***************************************************************************)
Held(i) == Alive(i) \/ thread[i] = "pending" \/ i \in Registered \cup {target}

Visiting == {"starting", "starting_all", "request_stop", "stop_all"}

Replacing == {"remove_detach", "remove_stop", "remove_close", "remove_join",
              "restart_detach", "restart_stop", "restart_join", "rewire"}

Draining == {"join_all", "wait_all"}

(***************************************************************************)
(* The inductive invariant.  OneSenderPerList alone is not inductive: a    *)
(* pending or a registered instance has no thread yet but will send to its *)
(* list, and the target of a restart hands its list on, so none of them    *)
(* may share a list with another.                                          *)
(***************************************************************************)
Ownership ==
  /\ \A n \in Node : nodes[n] < next_instance
  /\ \A m, n \in Node : nodes[m] = nodes[n] /\ nodes[m] # None => m = n
  /\ target < next_instance
  /\ target # None => target \notin Registered
  /\ \A i \in Instance :
       i < next_instance => outputs[i] \in 1 .. next_instance - 1 /\ node_of[i] \in Node
  /\ \A i \in Instance : i >= next_instance => thread[i] = "none"
  /\ call \in Visiting => todo \subseteq Registered
  /\ call \in Replacing => target # None
  /\ call \notin Replacing \cup Draining => target = None
  /\ call = "rewire" => thread[target] \in {"exited", "refused"}
  /\ \A i, j \in Instance : Held(i) /\ Held(j) /\ outputs[i] = outputs[j] => i = j

-----------------------------------------------------------------------------
(* The types are preserved.                                                *)

(***************************************************************************)
(* Conjuncts of the type invariant that go together.                       *)
(***************************************************************************)
RegistryOK ==
  /\ nodes \in [Node -> Instance \cup {None}]
  /\ next_instance \in 1 .. MaxInstances + 1
  /\ outputs \in [Instance -> Instance \cup {None}]
  /\ input \in [Instance -> Instance \cup {None}]
  /\ node_of \in [Instance -> Node \cup {None}]

ListsOK == subscribers \in [Instance -> SUBSET Instance] /\ closed \subseteq Instance

ThreadsOK == thread \in [Instance -> Place] /\ blocked \in [Instance -> SUBSET Instance]

FlagsOK == stop_flag \subseteq Instance /\ keep_outputs_open \subseteq Instance

SupervisorOK ==
  /\ call \in Calls
  /\ target \in Instance \cup {None}
  /\ todo \subseteq Instance
  /\ running_at_restart \in BOOLEAN
  /\ replaced \subseteq Instance

LEMMA TypeParts ==
  TypeOK <=> RegistryOK /\ ListsOK /\ QueueOK /\ ThreadsOK /\ FlagsOK /\ SupervisorOK
BY DEF TypeOK, RegistryOK, ListsOK, QueueOK, ThreadsOK, FlagsOK, SupervisorOK, Place

LEMMA TypePartsNext ==
  TypeOK' <=> RegistryOK' /\ ListsOK' /\ QueueOK' /\ ThreadsOK' /\ FlagsOK' /\ SupervisorOK'
BY DEF TypeOK, RegistryOK, ListsOK, QueueOK, ThreadsOK, FlagsOK, SupervisorOK, Place

LEMMA UnchangedParts ==
  ASSUME TypeOK
  PROVE  /\ UNCHANGED registry => RegistryOK'
         /\ UNCHANGED lists => ListsOK'
         /\ UNCHANGED queue => QueueOK'
         /\ UNCHANGED threads => ThreadsOK'
         /\ UNCHANGED flags => FlagsOK'
         /\ UNCHANGED supervisor => SupervisorOK'
BY DEF TypeOK, RegistryOK, ListsOK, QueueOK, ThreadsOK, FlagsOK, SupervisorOK, Place,
       registry, lists, threads, flags, supervisor

LEMMA RegisteredType ==
  ASSUME RegistryOK
  PROVE  Registered \subseteq Instance
BY DEF RegistryOK, Registered

(***************************************************************************)
(* The list of an instance that was created is a list.                     *)
(***************************************************************************)
LEMMA OutputIsList ==
  ASSUME RegistryOK, Ownership, NEW i \in Instance, i < next_instance
  PROVE  outputs[i] \in Instance
<1>1. outputs[i] \in 1 .. next_instance - 1
  BY DEF Ownership
<1> QED BY <1>1, PipelineAssumption DEF RegistryOK, Instance

LEMMA RegisteredIsCreated ==
  ASSUME RegistryOK, Ownership, NEW i \in Registered
  PROVE  i \in Instance /\ i < next_instance /\ outputs[i] \in Instance
<1>1. i \in Instance /\ i < next_instance
  BY DEF Registered, Ownership, RegistryOK
<1> QED BY <1>1, OutputIsList

LEMMA RegisterType ==
  ASSUME TypeOK, Ownership, NEW n \in Node, NEW i, NEW l \in Instance, Register(n, i, l)
  PROVE  RegistryOK' /\ ListsOK' /\ QueueOK' /\ ThreadsOK' /\ FlagsOK'
<1> USE PipelineAssumption
<1>0. RegistryOK /\ ListsOK /\ QueueOK /\ ThreadsOK /\ FlagsOK
  BY TypeParts
<1> DEFINE producer == IF Upstream[n] = None THEN None ELSE outputs[nodes[Upstream[n]]]
<1>1. producer \in Instance \cup {None}
  <2>1. CASE Upstream[n] # None
    <3>1. Upstream[n] \in Node /\ nodes[Upstream[n]] # None
      BY <2>1 DEF Register, ProducerRegistered
    <3>2. nodes[Upstream[n]] \in Registered
      BY <3>1 DEF Registered
    <3> QED BY <1>0, <2>1, <3>2, RegisteredIsCreated
  <2> QED BY <2>1
<1>2. /\ i \in Instance /\ i = next_instance /\ next_instance' = i + 1
      /\ nodes' = [nodes EXCEPT ![n] = i]
      /\ outputs' = [outputs EXCEPT ![i] = l]
      /\ input' = [input EXCEPT ![i] = producer]
      /\ node_of' = [node_of EXCEPT ![i] = n]
      /\ thread' = [thread EXCEPT ![i] = "pending"]
      /\ UNCHANGED <<closed, blocked, flags>>
  BY DEF Register
<1>3. \/ UNCHANGED <<subscribers, queue>>
      \/ queue' = [queue EXCEPT ![i] = <<"eos">>] /\ UNCHANGED subscribers
      \/ producer # None /\ subscribers' = [subscribers EXCEPT ![producer] = @ \cup {i}]
         /\ UNCHANGED queue
  BY DEF Register
<1> HIDE DEF producer
<1>4. RegistryOK'
  BY <1>0, <1>1, <1>2 DEF RegistryOK, Instance
<1>5. ThreadsOK' /\ FlagsOK'
  BY <1>0, <1>2 DEF ThreadsOK, FlagsOK, flags, Place
<1>6. ListsOK'
  BY <1>0, <1>1, <1>2, <1>3 DEF ListsOK
<1>7. QueueOK'
  <2>1. CASE UNCHANGED queue
    BY <1>0, <2>1 DEF QueueOK
  <2>2. CASE queue' = [queue EXCEPT ![i] = <<"eos">>]
    <3>1. <<"eos">> \in Seq({"item", "eos"}) /\ Len(<<"eos">>) <= Depth
      OBVIOUS
    <3> QED BY <1>0, <1>2, <2>2, <3>1 DEF QueueOK
  <2> QED BY <1>3, <2>1, <2>2
<1> QED BY <1>4, <1>5, <1>6, <1>7

LEMMA EmptiedFits ==
  ASSUME QueueOK, NEW i \in Instance,
         \/ queue' = [queue EXCEPT ![i] = << >>]
         \/ queue[i] # << >> /\ queue' = [queue EXCEPT ![i] = Tail(@)]
  PROVE  QueueOK'
<1> USE PipelineAssumption
<1>1. queue[i] \in Seq({"item", "eos"}) /\ Len(queue[i]) \in Nat /\ Len(queue[i]) <= Depth
  BY DEF QueueOK
<1>2. << >> \in Seq({"item", "eos"}) /\ Len(<< >>) <= Depth
  OBVIOUS
<1>3. queue[i] # << >> =>
        Tail(queue[i]) \in Seq({"item", "eos"}) /\ Len(Tail(queue[i])) <= Depth
  BY <1>1
<1> QED BY <1>2, <1>3, Zenon DEF QueueOK

(***************************************************************************)
(* A node thread that moves on, or one the supervisor gives up.            *)
(***************************************************************************)
LEMMA ThreadMoves ==
  ASSUME ThreadsOK, NEW i \in Instance, NEW where \in Place,
         thread' = [thread EXCEPT ![i] = where], UNCHANGED blocked
  PROVE  ThreadsOK'
BY DEF ThreadsOK

LEMMA DiscardType ==
  ASSUME TypeOK, NEW i \in Instance, Discard(i)
  PROVE  ThreadsOK' /\ QueueOK'
<1>1. QueueOK /\ ThreadsOK
  BY TypeParts
<1>2. CASE thread[i] = "pending"
  <2>1. ThreadsOK'
    BY <1>1, <1>2, ThreadMoves DEF Discard, Place
  <2>2. QueueOK'
    BY <1>1, <1>2, EmptiedFits DEF Discard
  <2> QED BY <2>1, <2>2
<1>3. CASE thread[i] # "pending"
  BY <1>1, <1>3 DEF Discard, ThreadsOK, QueueOK
<1> QED BY <1>2, <1>3

(***************************************************************************)
(* Every step keeps the types, given the ownership of the lists.           *)
(***************************************************************************)
LEMMA TypeStep ==
  ASSUME TypeOK, Ownership, [Next]_vars
  PROVE  TypeOK'
<1> USE PipelineAssumption
<1>0. /\ RegistryOK /\ ListsOK /\ QueueOK /\ ThreadsOK /\ FlagsOK /\ SupervisorOK
      /\ Registered \subseteq Instance
  BY TypeParts, RegisteredType
<1>a. /\ UNCHANGED registry => RegistryOK'
      /\ UNCHANGED lists => ListsOK'
      /\ UNCHANGED queue => QueueOK'
      /\ UNCHANGED threads => ThreadsOK'
      /\ UNCHANGED flags => FlagsOK'
      /\ UNCHANGED supervisor => SupervisorOK'
  BY UnchangedParts
<1>b. target # None => target \in Instance /\ outputs[target] \in Instance
  BY <1>0, OutputIsList DEF SupervisorOK, Ownership
<1>1. ASSUME NEW i \in Instance, StartNode(i)
      PROVE  TypeOK'
  <2>1. ThreadsOK'
    BY <1>0, <1>1, ThreadMoves, Zenon DEF StartNode, Place, WorkLoop
  <2>2. SupervisorOK'
    BY <1>0, <1>1 DEF StartNode, SupervisorOK, Calls
  <2> QED BY <1>a, <1>1, <2>1, <2>2, TypePartsNext DEF StartNode
<1>2. ASSUME NEW i \in Instance, StartFails(i)
      PROVE  TypeOK'
  <2>1. ThreadsOK'
    BY <1>0, <1>2, ThreadMoves, Zenon DEF StartFails, Place
  <2>2. QueueOK'
    BY <1>0, <1>2, EmptiedFits, Zenon DEF StartFails
  <2>3. SupervisorOK'
    BY <1>0, <1>2 DEF StartFails, SupervisorOK, Calls
  <2> QED BY <1>a, <1>2, <2>1, <2>2, <2>3, TypePartsNext DEF StartFails
<1>3. CASE DetachTarget
  <2>1. ListsOK'
    BY <1>0, <1>3, Zenon DEF DetachTarget, Detach, ListsOK
  <2>2. SupervisorOK'
    BY <1>0, <1>3 DEF DetachTarget, SupervisorOK, Calls
  <2> QED BY <1>a, <1>3, <2>1, <2>2, TypePartsNext DEF DetachTarget
<1>4. CASE SignalTarget
  <2>0. target \in Instance
    BY <1>b, <1>4 DEF SignalTarget, Ownership, Replacing
  <2>1. FlagsOK'
    BY <1>0, <1>4, <2>0 DEF SignalTarget, FlagsOK
  <2>2. SupervisorOK'
    BY <1>0, <1>4 DEF SignalTarget, SupervisorOK, Calls
  <2> QED BY <1>a, <1>4, <2>1, <2>2, TypePartsNext DEF SignalTarget
<1>5. CASE CloseTarget
  <2>0. outputs[target] \in Instance
    BY <1>b, <1>5 DEF CloseTarget, Ownership, Replacing
  <2>1. ListsOK' /\ QueueOK'
    BY <1>5, <2>0, CloseListType DEF CloseTarget, ListsOK
  <2>2. SupervisorOK'
    BY <1>0, <1>5 DEF CloseTarget, SupervisorOK, Calls
  <2> QED BY <1>a, <1>5, <2>1, <2>2, TypePartsNext DEF CloseTarget
<1>6. CASE JoinRemoved
  <2>0. target \in Instance
    BY <1>b, <1>6 DEF JoinRemoved, Ownership, Replacing
  <2>1. ThreadsOK' /\ QueueOK'
    BY <1>6, <2>0, DiscardType DEF JoinRemoved
  <2>2. SupervisorOK'
    BY <1>0, <1>6 DEF JoinRemoved, SupervisorOK, Calls
  <2> QED BY <1>a, <1>6, <2>1, <2>2, TypePartsNext DEF JoinRemoved
<1>7. CASE JoinRestarted
  <2>0. target \in Instance
    BY <1>b, <1>7 DEF JoinRestarted, Ownership, Replacing
  <2>1. ThreadsOK' /\ QueueOK'
    BY <1>7, <2>0, DiscardType DEF JoinRestarted
  <2>2. SupervisorOK'
    BY <1>0, <1>7 DEF JoinRestarted, SupervisorOK, Calls
  <2> QED BY <1>a, <1>7, <2>1, <2>2, TypePartsNext DEF JoinRestarted
<1>8. CASE Rewire
  <2>0. target \in Instance /\ outputs[target] \in Instance
    BY <1>b, <1>8 DEF Rewire, Ownership, Replacing
  <2>1. node_of[target] \in Node
    BY <1>0, <2>0 DEF Ownership, SupervisorOK
  <2>2. RegistryOK' /\ ListsOK' /\ QueueOK' /\ ThreadsOK' /\ FlagsOK'
    BY <1>8, <2>0, <2>1, RegisterType DEF Rewire
  <2>3. SupervisorOK'
    BY <1>0, <1>8, Zenon DEF Rewire, Register, SupervisorOK, Calls
  <2> QED BY <2>2, <2>3, TypePartsNext
<1>9. CASE RewireFails
  <2>1. ListsOK'
    BY <1>0, <1>9, Zenon DEF RewireFails, DropList, ListsOK
  <2>2. SupervisorOK'
    BY <1>0, <1>9, Zenon DEF RewireFails, SupervisorOK, Calls
  <2> QED BY <1>a, <1>9, <2>1, <2>2, TypePartsNext DEF RewireFails
<1>10. ASSUME NEW i \in Instance, StopNode(i)
       PROVE  TypeOK'
  <2>0. i \in Registered
    BY <1>10 DEF StopNode, Ownership, Visiting
  <2>1. outputs[i] \in Instance
    BY <1>0, <2>0, RegisteredIsCreated
  <2>2. ListsOK' /\ QueueOK'
    BY <1>10, <2>1, CloseListType DEF StopNode, ListsOK
  <2>3. FlagsOK' /\ SupervisorOK'
    BY <1>0, <1>10 DEF StopNode, FlagsOK, SupervisorOK
  <2> QED BY <1>a, <1>10, <2>2, <2>3, TypePartsNext DEF StopNode
<1>11. CASE AllSignalled \/ RequestStop \/ StopAll \/ StartAllDeferred \/ WaitForAll \/ AllJoined
  <2>1. SupervisorOK'
    BY <1>0, <1>11 DEF AllSignalled, RequestStop, StopAll, StartAllDeferred, WaitForAll,
                       AllJoined, SupervisorOK, Calls
  <2> QED BY <1>a, <1>11, <2>1, TypePartsNext
          DEF AllSignalled, RequestStop, StopAll, StartAllDeferred, WaitForAll, AllJoined
<1>12. ASSUME NEW n \in Node, DrainNext(n)
       PROVE  TypeOK'
  <2>1. RegistryOK' /\ SupervisorOK'
    BY <1>0, <1>12 DEF DrainNext, RegistryOK, SupervisorOK
  <2> QED BY <1>a, <1>12, <2>1, TypePartsNext DEF DrainNext
<1>13. CASE JoinDrained
  <2>0. target \in Instance
    BY <1>b, <1>13 DEF JoinDrained
  <2>1. ThreadsOK' /\ QueueOK'
    BY <1>13, <2>0, DiscardType DEF JoinDrained
  <2>2. ListsOK' /\ SupervisorOK'
    BY <1>0, <1>13, Zenon DEF JoinDrained, DropList, ListsOK, SupervisorOK
  <2> QED BY <1>a, <1>13, <2>1, <2>2, TypePartsNext DEF JoinDrained
<1>14. ASSUME NEW n \in Node, AddNodeDeferred(n) \/ AddNode(n)
       PROVE  TypeOK'
  <2>1. Register(n, next_instance, next_instance) /\ next_instance \in Instance
    BY <1>14 DEF AddNodeDeferred, AddNode, Register
  <2>2. RegistryOK' /\ ListsOK' /\ QueueOK' /\ ThreadsOK' /\ FlagsOK'
    BY <2>1, RegisterType
  <2>3. SupervisorOK'
    BY <1>0, <1>14, <2>1 DEF AddNodeDeferred, AddNode, SupervisorOK, Calls, supervisor
  <2> QED BY <2>2, <2>3, TypePartsNext
<1>15. ASSUME NEW n \in Node, RemoveNode(n) \/ RestartNode(n)
       PROVE  TypeOK'
  <2>1. RegistryOK' /\ SupervisorOK' /\ FlagsOK'
    <3>1. nodes[n] \in Instance
      BY <1>0, <1>15 DEF RemoveNode, RestartNode, RegistryOK
    <3>2. RegistryOK'
      BY <1>0, <1>15 DEF RemoveNode, RestartNode, RegistryOK
    <3>3. FlagsOK'
      BY <1>0, <1>15, <3>1 DEF RemoveNode, RestartNode, KeepOpen, FlagsOK, flags
    <3>4. SupervisorOK'
      BY <1>0, <1>15, <3>1, Zenon DEF RemoveNode, RestartNode, Heard, SupervisorOK, Calls
    <3> QED BY <3>2, <3>3, <3>4
  <2> QED BY <1>a, <1>15, <2>1, TypePartsNext DEF RemoveNode, RestartNode
<1>16. ASSUME NEW i \in Instance, LoopTop(i) \/ WorkEnds(i) \/ CheckKeepOpen(i)
       PROVE  TypeOK'
  <2>1. ThreadsOK'
    BY <1>0, <1>16 DEF LoopTop, WorkEnds, CheckKeepOpen, Goto, ThreadsOK, Place, WorkLoop, Ending
  <2> QED BY <1>a, <1>16, <2>1, TypePartsNext DEF LoopTop, WorkEnds, CheckKeepOpen
<1>17. ASSUME NEW i \in Instance, Recv(i)
       PROVE  TypeOK'
  <2>1. ThreadsOK'
    BY <1>0, <1>17 DEF Recv, Goto, ThreadsOK, Place, WorkLoop, Ending
  <2>2. QueueOK'
    <3>1. \/ queue[i] # << >> /\ queue' = [queue EXCEPT ![i] = Tail(@)]
          \/ UNCHANGED queue
      BY <1>17 DEF Recv
    <3>2. CASE queue[i] # << >> /\ queue' = [queue EXCEPT ![i] = Tail(@)]
      BY <1>0, <3>2, EmptiedFits, Zenon
    <3>3. CASE UNCHANGED queue
      BY <1>a, <3>3
    <3> QED BY <3>1, <3>2, <3>3
  <2> QED BY <1>a, <1>17, <2>1, <2>2, TypePartsNext DEF Recv
<1>18. ASSUME NEW i \in Instance, Send(i)
       PROVE  TypeOK'
  <2> DEFINE l == outputs[i]
             S == {s \in Instance : s \in subscribers[l] /\ Receives(s) /\ HasRoom(s)}
  <2>0. l \in Instance
    <3>1. i < next_instance
      BY <1>0, <1>18, InstanceType DEF Send, Ownership, RegistryOK
    <3> QED BY <1>0, <3>1, OutputIsList
  <2>1. QueueOK'
    <3>1. queue' = [s \in Instance |-> IF s \in S THEN Append(queue[s], "item") ELSE queue[s]]
      BY <1>18 DEF Send
    <3>2. \A s \in S : HasRoom(s)
      OBVIOUS
    <3> HIDE DEF S
    <3> QED BY <1>0, <3>1, <3>2, AppendFits
  <2>2. ListsOK'
    BY <1>0, <1>18, <2>0 DEF Send, ListsOK
  <2>3. ThreadsOK'
    BY <1>0, <1>18, <2>0 DEF Send, Goto, ListsOK, ThreadsOK, Place, WorkLoop
  <2> QED BY <1>a, <1>18, <2>1, <2>2, <2>3, TypePartsNext DEF Send
<1>19. ASSUME NEW i \in Instance, NEW s \in Instance, SendBlocked(i, s)
       PROVE  TypeOK'
  <2>1. QueueOK'
    <3>1. CASE UNCHANGED queue
      BY <1>a, <3>1
    <3>2. CASE HasRoom(s) /\ queue' = [queue EXCEPT ![s] = Append(@, "item")]
      <4> DEFINE S == {s}
      <4>1. queue' = [t \in Instance |-> IF t \in S THEN Append(queue[t], "item") ELSE queue[t]]
        BY <1>0, <3>2, Zenon DEF QueueOK
      <4>2. \A t \in S : HasRoom(t)
        BY <3>2
      <4> HIDE DEF S
      <4> QED BY <1>0, <4>1, <4>2, AppendFits, Zenon
    <3> QED BY <1>19, <3>1, <3>2 DEF SendBlocked
  <2>2. ListsOK'
    BY <1>0, <1>19 DEF SendBlocked, ListsOK
  <2>3. ThreadsOK'
    BY <1>0, <1>19 DEF SendBlocked, Goto, ThreadsOK, Place, WorkLoop
  <2> QED BY <1>a, <1>19, <2>1, <2>2, <2>3, TypePartsNext DEF SendBlocked
<1>20. ASSUME NEW i \in Instance, DropPorts(i)
       PROVE  TypeOK'
  <2>1. ThreadsOK'
    BY <1>0, <1>20, ThreadMoves, Zenon DEF DropPorts, Goto, Place, Ending
  <2>2. QueueOK'
    BY <1>0, <1>20, EmptiedFits, Zenon DEF DropPorts
  <2> QED BY <1>a, <1>20, <2>1, <2>2, TypePartsNext DEF DropPorts
<1>21. ASSUME NEW i \in Instance, CloseOutputs(i)
       PROVE  TypeOK'
  <2>0. outputs[i] \in Instance
    <3>1. i < next_instance
      BY <1>0, <1>21, InstanceType DEF CloseOutputs, Ownership, RegistryOK
    <3> QED BY <1>0, <3>1, OutputIsList
  <2>1. ListsOK' /\ QueueOK'
    BY <1>21, <2>0, CloseListType DEF CloseOutputs, ListsOK
  <2>2. ThreadsOK'
    BY <1>0, <1>21, ThreadMoves, Zenon DEF CloseOutputs, Goto, Place
  <2> QED BY <1>a, <1>21, <2>1, <2>2, TypePartsNext DEF CloseOutputs
<1>22. CASE UNCHANGED vars
  BY <1>a, <1>22, TypePartsNext DEF vars
<1> QED BY <1>1, <1>2, <1>3, <1>4, <1>5, <1>6, <1>7, <1>8, <1>9, <1>10, <1>11, <1>12, <1>13,
           <1>14, <1>15, <1>16, <1>17, <1>18, <1>19, <1>20, <1>21, <1>22
        DEF Next, Continue, Call, Step

-----------------------------------------------------------------------------
(* The ownership of the lists is preserved.                                *)

(***************************************************************************)
(* Steps after which no instance is held that was not held before, and no  *)
(* registration is added.                                                  *)
(***************************************************************************)
LEMMA FewerHeld ==
  ASSUME TypeOK, Ownership,
         UNCHANGED <<next_instance, outputs, node_of>>,
         \A n \in Node : nodes'[n] \in {nodes[n], None},
         target' < next_instance,
         target' # None => target' \notin Registered',
         \A i \in Instance : thread[i] = "none" => thread'[i] = "none",
         call' \in Visiting => todo' \subseteq Registered',
         call' \in Replacing => target' # None,
         call' \notin Replacing \cup Draining => target' = None,
         call' = "rewire" => thread'[target'] \in {"exited", "refused"},
         \A i \in Instance : Held(i)' => Held(i)
  PROVE  Ownership'
<1>1. \A n \in Node : nodes'[n] < next_instance'
  <2>1. None < next_instance
    BY PipelineAssumption DEF TypeOK, None
  <2> QED BY <2>1 DEF Ownership
<1>2. \A m, n \in Node : nodes'[m] = nodes'[n] /\ nodes'[m] # None => m = n
  BY DEF Ownership
<1>3. \A i \in Instance :
        /\ i < next_instance' => outputs'[i] \in 1 .. next_instance' - 1 /\ node_of'[i] \in Node
        /\ i >= next_instance' => thread'[i] = "none"
  BY DEF Ownership
<1>4. \A i, j \in Instance : Held(i)' /\ Held(j)' /\ outputs'[i] = outputs'[j] => i = j
  BY DEF Ownership
<1> QED BY <1>1, <1>2, <1>3, <1>4 DEF Ownership

(***************************************************************************)
(* What a step of a thread can do, closing its list apart.                 *)
(***************************************************************************)
Moves(i, where) ==
  /\ UNCHANGED <<registry, supervisor, flags, closed>>
  /\ Alive(i) /\ thread[i] # "closing"
  /\ thread' = [thread EXCEPT ![i] = where]
  /\ where \in WorkLoop => thread[i] \in WorkLoop
  /\ where = "closing" => i \notin keep_outputs_open

LEMMA ThreadStep ==
  ASSUME NEW i \in Instance,
         Step(i) \/ WorkEnds(i), ~CloseOutputs(i)
  PROVE  \E where \in WorkLoop \cup Ending \cup {"exited"} : Moves(i, where)
<1> USE DEF Moves, Goto, Alive, WorkLoop, Ending, lists
<1>1. CASE LoopTop(i)
  <2>1. /\ thread[i] = "top" /\ UNCHANGED <<registry, supervisor, flags, closed>>
        /\ \E where \in {"dropping", "send", "recv"} : thread' = [thread EXCEPT ![i] = where]
    BY <1>1, Zenon DEF LoopTop
  <2> QED BY <2>1, Zenon
<1>2. CASE Recv(i)
  <2>1. /\ thread[i] = "recv" /\ UNCHANGED <<registry, supervisor, flags, closed>>
        /\ \E where \in {"dropping", "send", "top"} : thread' = [thread EXCEPT ![i] = where]
    BY <1>2 DEF Recv
  <2> QED BY <2>1, Zenon
<1>3. CASE Send(i)
  <2>1. /\ thread[i] = "send" /\ UNCHANGED <<registry, supervisor, flags, closed>>
        /\ \/ thread' = [thread EXCEPT ![i] = "top"]
           \/ thread' = [thread EXCEPT ![i] = "waiting"]
    BY <1>3, Zenon DEF Send
  <2> QED BY <2>1
<1>4. CASE DropPorts(i)
  BY <1>4 DEF DropPorts
<1>5. CASE CheckKeepOpen(i)
  <2>1. /\ thread[i] = "exiting" /\ UNCHANGED <<registry, supervisor, flags, closed>>
        /\ \/ thread' = [thread EXCEPT ![i] = "exited"]
           \/ thread' = [thread EXCEPT ![i] = "closing"] /\ i \notin keep_outputs_open
    BY <1>5, Zenon DEF CheckKeepOpen, KeepsOpen
  <2> QED BY <2>1
<1>6. ASSUME NEW s \in Instance, SendBlocked(i, s)
      PROVE  \E where \in WorkLoop \cup Ending \cup {"exited"} : Moves(i, where)
  <2>1. /\ thread[i] = "waiting" /\ UNCHANGED <<registry, supervisor, flags, closed>>
        /\ \/ thread' = [thread EXCEPT ![i] = "top"]
           \/ thread' = [thread EXCEPT ![i] = "waiting"]
    BY <1>6, Zenon DEF SendBlocked
  <2> QED BY <2>1
<1>7. CASE WorkEnds(i)
  BY <1>7 DEF WorkEnds
<1> QED BY <1>1, <1>2, <1>3, <1>4, <1>5, <1>6, <1>7 DEF Step

(***************************************************************************)
(* A thread moves, or ends.                                                *)
(***************************************************************************)
LEMMA ThreadKeepsOwnership ==
  ASSUME TypeOK, Ownership, NEW i \in Instance, Alive(i),
         NEW where \in WorkLoop \cup Ending \cup {"exited"},
         thread' = [thread EXCEPT ![i] = where],
         UNCHANGED <<registry, supervisor>>
  PROVE  Ownership'
<1>1. UNCHANGED <<nodes, next_instance, outputs, node_of, call, target, todo>>
  BY DEF registry, supervisor
<1>2. Registered' = Registered
  BY <1>1 DEF Registered
<1>3. thread[i] \notin {"none", "pending", "exited", "refused"} /\ thread \in [Instance -> Place]
  BY DEF Alive, WorkLoop, Ending, TypeOK, Place
<1>4. ASSUME NEW j \in Instance, Held(j)'
      PROVE  Held(j)
  <2>1. CASE j = i
    BY <2>1 DEF Held
  <2>2. CASE j # i
    BY <1>1, <1>2, <1>3, <1>4, <2>2 DEF Held, Alive
  <2> QED BY <2>1, <2>2
<1>5. call' = "rewire" => thread'[target'] \in {"exited", "refused"}
  BY <1>1, <1>3 DEF Ownership
<1>6. \A j \in Instance : thread[j] = "none" => thread'[j] = "none"
  BY <1>3, Zenon
<1> QED BY <1>1, <1>2, <1>4, <1>5, <1>6, FewerHeld DEF Ownership

(***************************************************************************)
(* The supervisor's call moves on without touching instances.              *)
(***************************************************************************)
LEMMA CallKeepsOwnership ==
  ASSUME TypeOK, Ownership, UNCHANGED <<registry, thread, target>>,
         call' \in Visiting => todo' \subseteq Registered,
         call' \in Replacing => target # None,
         call' \notin Replacing \cup Draining => target = None,
         call' # "rewire"
  PROVE  Ownership'
<1>1. UNCHANGED <<nodes, next_instance, outputs, node_of>>
  BY DEF registry
<1>2. Registered' = Registered
  BY <1>1 DEF Registered
<1>3. \A i \in Instance : Held(i)' => Held(i)
  BY <1>1, <1>2 DEF Held, Alive
<1> QED BY <1>1, <1>2, <1>3, FewerHeld DEF Ownership

(***************************************************************************)
(* A new instance gets a list of its own, or the one of the target, which  *)
(* is then forgotten.                                                      *)
(***************************************************************************)
LEMMA RegisterKeepsOwnership ==
  ASSUME TypeOK, Ownership, NEW n \in Node, NEW l \in Instance,
         Register(n, next_instance, l),
         call' \in {"building", "starting"},
         call' = "starting" => todo' = {next_instance},
         target' = None,
         \/ l = next_instance /\ target = None
         \/ call = "rewire" /\ target # None /\ l = outputs[target]
  PROVE  Ownership'
<1> DEFINE i == next_instance
<1> USE PipelineAssumption
<1>1. /\ i \in Instance /\ next_instance' = i + 1
      /\ nodes' = [nodes EXCEPT ![n] = i]
      /\ outputs' = [outputs EXCEPT ![i] = l]
      /\ node_of' = [node_of EXCEPT ![i] = n]
      /\ thread' = [thread EXCEPT ![i] = "pending"]
  BY DEF Register
<1>2. /\ nodes \in [Node -> Instance \cup {None}] /\ outputs \in [Instance -> Instance \cup {None}]
      /\ node_of \in [Instance -> Node \cup {None}] /\ thread \in [Instance -> Place]
      /\ target \in Instance \cup {None} /\ i \in Nat
  BY DEF TypeOK, Place
<1>3. target' = None
  OBVIOUS
<1>4. /\ \A m \in Node : nodes[m] < i
      /\ \A m, o \in Node : nodes[m] = nodes[o] /\ nodes[m] # None => m = o
      /\ target # None => target \notin Registered
      /\ target < i
      /\ \A j \in Instance : j < i => outputs[j] \in 1 .. i - 1 /\ node_of[j] \in Node
      /\ \A j \in Instance : j >= i => thread[j] = "none"
      /\ call = "rewire" => thread[target] \in {"exited", "refused"}
      /\ \A j, k \in Instance : Held(j) /\ Held(k) /\ outputs[j] = outputs[k] => j = k
  BY DEF Ownership
<1>5. Instance = 1 .. MaxInstances /\ None = 0
  BY DEF Instance, None
<1> HIDE DEF i, None, Instance
<1>6. \A m \in Node : nodes'[m] < next_instance'
  BY <1>1, <1>2, <1>4, <1>5
<1>7. \A m, o \in Node : nodes'[m] = nodes'[o] /\ nodes'[m] # None => m = o
  BY <1>1, <1>2, <1>4, <1>5
<1>8. l \in 1 .. next_instance' - 1
  <2>1. CASE l = i
    BY <1>1, <1>2, <1>5, <2>1
  <2>2. CASE target # None /\ l = outputs[target]
    BY <1>1, <1>2, <1>4, <1>5, <2>2
  <2> QED BY <2>1, <2>2 DEF i
<1>9. \A j \in Instance :
        /\ j < next_instance' => outputs'[j] \in 1 .. next_instance' - 1 /\ node_of'[j] \in Node
        /\ j >= next_instance' => thread'[j] = "none"
  <2> SUFFICES ASSUME NEW j \in Instance
               PROVE  /\ j < next_instance' =>
                           outputs'[j] \in 1 .. next_instance' - 1 /\ node_of'[j] \in Node
                      /\ j >= next_instance' => thread'[j] = "none"
    OBVIOUS
  <2>1. CASE j = i
    BY <1>1, <1>2, <1>8, <2>1
  <2>2. CASE j # i
    BY <1>1, <1>2, <1>4, <1>5, <2>2
  <2> QED BY <2>1, <2>2
<1>10. i \in Registered'
  BY <1>1, <1>2, <1>5 DEF Registered
<1>11. ASSUME NEW j \in Instance, Held(j)', j # i
       PROVE  Held(j) /\ j < i /\ outputs'[j] # l /\ outputs'[j] = outputs[j]
  <2>1. thread'[j] = thread[j] /\ outputs'[j] = outputs[j]
    BY <1>1, <1>2, <1>11
  <2>2. j \in Registered' => j \in Registered
    BY <1>1, <1>2, <1>11 DEF Registered
  <2>3. Held(j)
    BY <1>3, <1>5, <1>11, <2>1, <2>2 DEF Held, Alive
  <2>4. j < i
    <3>1. CASE j \in Registered
      BY <1>4, <3>1 DEF Registered
    <3>2. CASE thread[j] # "none"
      BY <1>2, <1>4, <1>5, <3>2
    <3>3. j \notin Registered => thread[j] # "none"
      <4>1. j # None
        BY <1>5
      <4> QED BY <1>3, <1>11, <2>1, <2>2, <4>1 DEF Held, Alive, WorkLoop, Ending
    <3> QED BY <3>1, <3>2, <3>3
  <2>5. outputs[j] # l
    <3>1. CASE l = i
      <4>1. outputs[j] \in 1 .. i - 1
        BY <1>4, <2>4
      <4> QED BY <1>2, <3>1, <4>1
    <3>2. CASE call = "rewire" /\ target # None /\ l = outputs[target]
      <4>1. Held(target) /\ target \in Instance
        BY <1>2, <3>2 DEF Held
      <4>2. j # target
        <5>1. ~Alive(target) /\ thread[target] # "pending" /\ target \notin Registered
          BY <1>4, <3>2 DEF Alive, WorkLoop, Ending
        <5>2. j # None
          BY <1>5
        <5> QED BY <1>3, <1>11, <2>1, <2>2, <5>1, <5>2 DEF Held, Alive
      <4> QED BY <1>4, <2>3, <3>2, <4>1, <4>2
    <3> QED BY <3>1, <3>2 DEF i
  <2> QED BY <2>1, <2>3, <2>4, <2>5
<1>12. \A j, k \in Instance : Held(j)' /\ Held(k)' /\ outputs'[j] = outputs'[k] => j = k
  <2>1. outputs'[i] = l
    BY <1>1, <1>2
  <2> QED BY <1>4, <1>11, <2>1
<1>13. target' < next_instance'
  BY <1>1, <1>2, <1>3, <1>5
<1>14. call' \in Visiting => todo' \subseteq Registered'
  BY <1>10 DEF Visiting, i
<1>15. call' \notin Replacing /\ call' # "rewire"
  BY DEF Replacing
<1> QED BY <1>3, <1>6, <1>7, <1>9, <1>12, <1>13, <1>14, <1>15 DEF Ownership

(***************************************************************************)
(* The supervisor takes an instance out of the registry.                   *)
(***************************************************************************)
LEMMA TakeKeepsOwnership ==
  ASSUME TypeOK, Ownership, NEW n \in Node, nodes[n] # None,
         nodes' = [nodes EXCEPT ![n] = None], target' = nodes[n],
         UNCHANGED <<next_instance, outputs, node_of, thread>>,
         call' \in (Replacing \ {"rewire"}) \cup Draining
  PROVE  Ownership'
<1>1. nodes \in [Node -> Instance \cup {None}] /\ nodes[n] \in Registered
  BY DEF TypeOK, Registered
<1>2. Registered' \subseteq Registered /\ nodes[n] \notin Registered'
  <2>1. \A m \in Node : nodes[m] = nodes[n] => m = n
    BY DEF Ownership
  <2> QED BY <1>1, <2>1 DEF Registered
<1>3. \A i \in Instance : Held(i)' => Held(i)
  BY <1>1, <1>2 DEF Held, Alive
<1>4. \A m \in Node : nodes'[m] \in {nodes[m], None}
  BY <1>1
<1>5. target' < next_instance
  BY DEF Ownership
<1>6. call' \notin Visiting /\ call' # "rewire"
  BY DEF Visiting, Replacing, Draining
<1> QED BY <1>2, <1>3, <1>4, <1>5, <1>6, FewerHeld

(***************************************************************************)
(* The supervisor lets go of the target once its thread has ended.         *)
(***************************************************************************)
LEMMA DiscardKeepsOwnership ==
  ASSUME TypeOK, Ownership, target # None, Joinable(target), Discard(target),
         UNCHANGED registry,
         \/ target' = None /\ call' \notin Replacing \cup Visiting
         \/ target' = target /\ call' = "rewire"
  PROVE  Ownership'
<1>1. UNCHANGED <<nodes, next_instance, outputs, node_of>>
  BY DEF registry
<1>2. Registered' = Registered
  BY <1>1 DEF Registered
<1>3. target \in Instance /\ thread \in [Instance -> Place] /\ next_instance \in Nat
  BY PipelineAssumption DEF TypeOK, Place
<1>4. /\ thread'[target] \in {"exited", "refused"}
      /\ \A i \in Instance : i # target => thread'[i] = thread[i]
  BY <1>3 DEF Discard, Joinable
<1>5. ASSUME NEW i \in Instance, Held(i)'
      PROVE  Held(i)
  <2>1. CASE i = target
    BY <2>1 DEF Held
  <2>2. CASE i # target
    BY <1>2, <1>4, <1>5, <2>2, InstanceType DEF Held, Alive
  <2> QED BY <2>1, <2>2
<1>6. target' < next_instance
  <2>1. None < next_instance
    BY PipelineAssumption DEF TypeOK, None
  <2> QED BY <2>1 DEF Ownership
<1>7. \A i \in Instance : thread[i] = "none" => thread'[i] = "none"
  BY <1>3, <1>4 DEF Joinable
<1>8. target' # None => target' \notin Registered'
  BY <1>2 DEF Ownership
<1>9. call' \notin Visiting
  BY DEF Visiting
<1>10. /\ call' \in Replacing => target' # None
       /\ call' \notin Replacing \cup Draining => target' = None
  BY DEF Replacing
<1>11. call' = "rewire" => thread'[target'] \in {"exited", "refused"}
  BY <1>4 DEF Replacing
<1>12. \A n \in Node : nodes'[n] \in {nodes[n], None}
  BY <1>1
<1> QED BY <1>1, <1>5, <1>6, <1>7, <1>8, <1>9, <1>10, <1>11, <1>12, FewerHeld

LEMMA OwnershipStep ==
  ASSUME TypeOK, Ownership, [Next]_vars
  PROVE  Ownership'
<1> USE PipelineAssumption
<1>0. /\ RegistryOK /\ SupervisorOK /\ ThreadsOK
      /\ Registered \subseteq Instance
  BY TypeParts, RegisteredType
<1>1. ASSUME NEW i \in Instance, StartNode(i) \/ StartFails(i)
      PROVE  Ownership'
  <2>1. /\ i \in Registered /\ todo \subseteq Registered /\ target = None /\ call \in Visiting
    BY <1>1 DEF StartNode, StartFails, Ownership, Visiting, Replacing, Draining
  <2>2. /\ thread' = [thread EXCEPT ![i] = thread'[i]]
        /\ thread'[i] \in {"top", "refused"}
        /\ UNCHANGED <<nodes, next_instance, outputs, node_of, target>>
        /\ call' \in {"idle", "starting", "starting_all", "stop_all"}
        /\ todo' \subseteq Registered
    <3>1. thread \in [Instance -> Place]
      BY <1>0 DEF ThreadsOK
    <3> QED BY <1>1, <2>1, <3>1 DEF StartNode, StartFails, registry
  <2>3. Registered' = Registered
    BY <2>2 DEF Registered
  <2>4. \A j \in Instance : j # i => thread'[j] = thread[j]
    BY <1>0, <2>2 DEF ThreadsOK
  <2>5. i < next_instance
    BY <1>0, <2>1, RegisteredIsCreated
  <2>6. \A j \in Instance : Held(j)' => Held(j)
    BY <2>1, <2>2, <2>3, <2>4 DEF Held, Alive
  <2>7. \A j \in Instance : j >= next_instance' => thread'[j] = "none"
    <3>1. \A j \in Instance : j >= next_instance => j # i
      BY <1>0, <2>5 DEF RegistryOK, Instance
    <3> QED BY <2>2, <2>4, <3>1 DEF Ownership
  <2>8. \A j, k \in Instance : Held(j)' /\ Held(k)' /\ outputs'[j] = outputs'[k] => j = k
    BY <2>2, <2>6 DEF Ownership
  <2>9. call' \notin Replacing /\ call' # "rewire"
    BY <2>2 DEF Replacing
  <2> QED BY <2>1, <2>2, <2>3, <2>7, <2>8, <2>9 DEF Ownership
<1>2. CASE DetachTarget \/ SignalTarget \/ CloseTarget
  <2>1. /\ UNCHANGED <<registry, thread, target>> /\ call' # "rewire"
        /\ call \in Replacing /\ call' \in Replacing /\ call' \notin Visiting
    BY <1>2 DEF DetachTarget, SignalTarget, CloseTarget, threads, Replacing, Visiting
  <2> QED BY <2>1, CallKeepsOwnership DEF Ownership
<1>3. CASE JoinRemoved
  <2>1. target # None
    BY <1>3 DEF JoinRemoved, Ownership, Replacing
  <2>2. "idle" \notin Replacing \cup Visiting
    BY DEF Replacing, Visiting
  <2> QED BY <1>3, <2>1, <2>2, DiscardKeepsOwnership DEF JoinRemoved
<1>4. CASE JoinRestarted
  <2>1. target # None
    BY <1>4 DEF JoinRestarted, Ownership, Replacing
  <2> QED BY <1>4, <2>1, DiscardKeepsOwnership DEF JoinRestarted
<1>5. CASE Rewire
  <2>1. target # None /\ target \in Instance /\ target < next_instance
    BY <1>0, <1>5 DEF Rewire, Ownership, Replacing, SupervisorOK
  <2>2. node_of[target] \in Node /\ outputs[target] \in Instance
    BY <1>0, <2>1, OutputIsList DEF Ownership
  <2> QED BY <1>5, <2>1, <2>2, RegisterKeepsOwnership DEF Rewire
<1>6. CASE RewireFails
  <2>1. /\ UNCHANGED <<nodes, next_instance, outputs, node_of, thread>>
        /\ target' = None /\ call' = "idle"
    BY <1>6 DEF RewireFails, registry, threads
  <2>2. Registered' = Registered
    BY <2>1 DEF Registered
  <2>3. \A i \in Instance : Held(i)' => Held(i)
    BY <2>1, <2>2, InstanceType DEF Held, Alive
  <2>4. None < next_instance
    BY <1>0 DEF RegistryOK, None
  <2>5. call' \notin Replacing \cup Visiting
    BY <2>1, Zenon DEF Replacing, Visiting
  <2> QED BY <2>1, <2>2, <2>3, <2>4, <2>5, FewerHeld
<1>7. ASSUME NEW i \in Instance, StopNode(i)
      PROVE  Ownership'
  <2>1. UNCHANGED <<registry, thread, target, call>> /\ call \in Visiting
    BY <1>7 DEF StopNode, threads, Visiting
  <2>2. todo' \subseteq Registered /\ call \notin Replacing \cup Draining /\ call # "rewire"
    BY <1>7, <2>1 DEF StopNode, Ownership, Visiting, Replacing, Draining
  <2> QED BY <2>1, <2>2, CallKeepsOwnership DEF Ownership
<1>8. CASE AllSignalled \/ RequestStop \/ StopAll \/ StartAllDeferred \/ WaitForAll \/ AllJoined
  <2>1. /\ UNCHANGED <<registry, thread, target>>
        /\ call' \in {"idle", "join_all", "request_stop", "stop_all", "starting_all",
                      "wait_all", "done"}
        /\ call' \in {"request_stop", "stop_all", "starting_all"} => todo' = Registered
        /\ call \notin Replacing \cup Draining \/ target = None
    BY <1>8 DEF AllSignalled, RequestStop, StopAll, StartAllDeferred, WaitForAll, AllJoined,
                threads, Replacing, Draining
  <2>2. target = None
    BY <2>1 DEF Ownership
  <2>3. /\ call' \notin Replacing /\ call' # "rewire"
        /\ call' \in Visiting => todo' \subseteq Registered
    BY <2>1 DEF Replacing, Visiting
  <2> QED BY <2>1, <2>2, <2>3, CallKeepsOwnership
<1>9. ASSUME NEW n \in Node, DrainNext(n)
      PROVE  Ownership'
  <2>1. call' \in Draining
    BY <1>9 DEF DrainNext, Draining
  <2> QED BY <1>9, <2>1, TakeKeepsOwnership, Zenon DEF DrainNext, threads
<1>10. CASE JoinDrained
  <2>1. call' \notin Replacing \cup Visiting
    BY <1>10 DEF JoinDrained, Replacing, Visiting
  <2> QED BY <1>10, <2>1, DiscardKeepsOwnership DEF JoinDrained
<1>11. ASSUME NEW n \in Node, AddNodeDeferred(n) \/ AddNode(n)
       PROVE  Ownership'
  <2>0. call \in {"building", "idle"} /\ target' = target
    BY <1>11, Zenon DEF AddNodeDeferred, AddNode, supervisor
  <2>1. target = None /\ target' = target
    BY <2>0 DEF Ownership, Replacing, Draining
  <2>2. next_instance \in Instance /\ Register(n, next_instance, next_instance)
    BY <1>11 DEF AddNodeDeferred, AddNode, Register
  <2>3. call' \in {"building", "starting"} /\ (call' = "starting" => todo' = {next_instance})
    BY <1>11 DEF AddNodeDeferred, AddNode, supervisor
  <2> QED BY <2>1, <2>2, <2>3, RegisterKeepsOwnership
<1>12. ASSUME NEW n \in Node, RemoveNode(n) \/ RestartNode(n)
       PROVE  Ownership'
  <2>1. call' \in Replacing \ {"rewire"}
    BY <1>12 DEF RemoveNode, RestartNode, Replacing
  <2> QED BY <1>12, <2>1, TakeKeepsOwnership DEF RemoveNode, RestartNode, threads
<1>13. ASSUME NEW i \in Instance, Step(i) \/ WorkEnds(i)
       PROVE  Ownership'
  <2>1. CASE CloseOutputs(i)
    <3>1. /\ UNCHANGED <<registry, supervisor>> /\ Alive(i)
          /\ thread' = [thread EXCEPT ![i] = "exited"]
      BY <2>1 DEF CloseOutputs, Goto, Alive, Ending
    <3> QED BY <3>1, ThreadKeepsOwnership, Zenon
  <2>2. CASE ~CloseOutputs(i)
    <3>1. PICK where \in WorkLoop \cup Ending \cup {"exited"} : Moves(i, where)
      BY <1>13, <2>2, ThreadStep
    <3> QED BY <3>1, ThreadKeepsOwnership, Zenon DEF Moves
  <2> QED BY <2>1, <2>2
<1>14. CASE UNCHANGED vars
  <2>1. UNCHANGED <<registry, thread, target, call, todo>>
    BY <1>14 DEF vars, threads, supervisor
  <2>2. CASE call # "rewire"
    BY <2>1, <2>2, CallKeepsOwnership DEF Ownership
  <2>3. CASE call = "rewire"
    <3>1. Registered' = Registered /\ \A j \in Instance : Held(j)' = Held(j)
      BY <2>1 DEF Held, Alive, Registered, registry
    <3> QED BY <2>1, <2>3, <3>1 DEF Ownership, registry
  <2> QED BY <2>2, <2>3
<1> QED BY <1>1, <1>2, <1>3, <1>4, <1>5, <1>6, <1>7, <1>8, <1>9, <1>10, <1>11, <1>12, <1>13,
           <1>14
        DEF Next, Continue, Call

-----------------------------------------------------------------------------
LEMMA InvariantHolds == Spec => [](TypeOK /\ Ownership)
<1>1. Init => TypeOK /\ Ownership
  <2> SUFFICES ASSUME Init
               PROVE  TypeOK /\ Ownership
    OBVIOUS
  <2> USE PipelineAssumption
  <2>1. TypeOK
    <3>1. QueueOK
      BY DEF Init, QueueOK
    <3>2. RegistryOK
      BY DEF Init, RegistryOK
    <3>3. ListsOK /\ ThreadsOK
      BY DEF Init, ListsOK, ThreadsOK, Place
    <3>4. FlagsOK /\ SupervisorOK
      BY Zenon DEF Init, FlagsOK, SupervisorOK, Calls
    <3> QED BY <3>1, <3>2, <3>3, <3>4, TypeParts
  <2>2. Registered = {}
    BY DEF Init, Registered
  <2>3. \A i \in Instance : ~Held(i)
    BY <2>2, InstanceType DEF Init, Held, Alive, WorkLoop, Ending
  <2> QED BY <2>1, <2>2, <2>3 DEF Init, Ownership, Visiting, Replacing, None, Instance
<1>2. TypeOK /\ Ownership /\ [Next]_vars => (TypeOK /\ Ownership)'
  BY TypeStep, OwnershipStep
<1> QED BY <1>1, <1>2, PTL DEF Spec

(***************************************************************************)
(* The manager keeps its types, and no channel exceeds its depth.          *)
(***************************************************************************)
THEOREM TypeCorrect == Spec => []TypeOK
BY InvariantHolds, PTL

(***************************************************************************)
(* Two threads never send to one list, whatever is added, removed,         *)
(* restarted and refused, and whenever threads end.                        *)
(***************************************************************************)
THEOREM OneSenderPerListHolds == Spec => []OneSenderPerList
<1>1. TypeOK /\ Ownership => OneSenderPerList
  BY DEF Ownership, Held, OneSenderPerList
<1> QED BY <1>1, InvariantHolds, PTL

-----------------------------------------------------------------------------
(* Restarting a node in place.                                             *)

WillSend(i) == (InLoop(i) \/ thread[i] = "pending") /\ i \notin stop_flag

Restarting == {"restart_detach", "restart_stop", "restart_join", "rewire"}

(***************************************************************************)
(* The inductive invariant.  The old thread ends in its own time, so the   *)
(* list has to be open until the new instance has it: the flag that keeps  *)
(* it open is set before the old thread can be on its way to close it.     *)
(***************************************************************************)
KeptOpen ==
  /\ call = "building" => \A i \in Registered : thread[i] = "pending"
  /\ call \in {"starting", "starting_all"} => \A i \in todo : thread[i] = "pending"
  /\ call = "remove_close" => target \in stop_flag
  /\ running_at_restart =>
       /\ call \in Restarting
       /\ target \in keep_outputs_open
       /\ thread[target] \in WorkLoop \cup {"dropping", "exiting", "exited"}
       /\ outputs[target] \notin closed
  /\ \A i \in replaced : WillSend(i) => outputs[i] \notin closed
  /\ \A i \in replaced : i < next_instance

(***************************************************************************)
(* Steps that close no list, register nothing and let no thread begin.     *)
(***************************************************************************)
LEMMA NothingClosed ==
  ASSUME TypeOK, Ownership, KeptOpen, UNCHANGED <<outputs, next_instance, closed, replaced>>,
         stop_flag \subseteq stop_flag',
         \A i \in Instance : InLoop(i)' \/ thread'[i] = "pending"
                               => InLoop(i) \/ thread[i] = "pending",
         call' = "building" => \A i \in Registered' : thread'[i] = "pending",
         call' \in {"starting", "starting_all"} => \A i \in todo' : thread'[i] = "pending",
         call' = "remove_close" => target' \in stop_flag',
         running_at_restart' =>
           /\ call' \in Restarting
           /\ target' \in keep_outputs_open'
           /\ thread'[target'] \in WorkLoop \cup {"dropping", "exiting", "exited"}
           /\ outputs'[target'] \notin closed'
  PROVE  KeptOpen'
<1>1. \A i \in replaced : WillSend(i)' => WillSend(i)
  BY DEF WillSend, TypeOK
<1>2. \A i \in replaced' : WillSend(i)' => outputs'[i] \notin closed'
  BY <1>1 DEF KeptOpen
<1>3. \A i \in replaced' : i < next_instance'
  BY DEF KeptOpen
<1> QED BY <1>2, <1>3 DEF KeptOpen

(***************************************************************************)
(* Closing the list of one held instance leaves the lists of the others.   *)
(***************************************************************************)
LEMMA ClosesOneList ==
  ASSUME TypeOK, Ownership, NEW j \in Instance, Held(j), CloseList(outputs[j]),
         NEW i \in Instance, Held(i), i # j, outputs[i] \notin closed
  PROVE  outputs[i] \notin closed'
BY DEF Ownership, CloseList

LEMMA KeptOpenStep ==
  ASSUME TypeOK, Ownership, Ownership', KeptOpen, [Next]_vars
  PROVE  KeptOpen'
<1> USE PipelineAssumption
<1>0. /\ RegistryOK /\ ListsOK /\ ThreadsOK /\ FlagsOK /\ SupervisorOK
      /\ Registered \subseteq Instance
  BY TypeParts, RegisteredType
<1>a. thread \in [Instance -> Place] /\ replaced \subseteq Instance
  BY <1>0 DEF ThreadsOK, SupervisorOK
<1>b. \A i \in replaced : WillSend(i) => Held(i)
  BY DEF WillSend, InLoop, Held, Alive
<1>1. ASSUME NEW i \in Instance, StartNode(i) \/ StartFails(i)
      PROVE  KeptOpen'
  <2>1. thread[i] = "pending" /\ ~running_at_restart
    BY <1>1 DEF StartNode, StartFails, KeptOpen, Restarting
  <2>2. /\ UNCHANGED <<outputs, next_instance, closed, replaced, stop_flag, running_at_restart>>
        /\ \A j \in Instance : j # i => thread'[j] = thread[j]
        /\ call' \notin {"building", "remove_close"}
        /\ call' \in {"starting", "starting_all"} => todo' = todo \ {i}
        /\ call' \in {"starting", "starting_all"} => call \in {"starting", "starting_all"}
    BY <1>a, <1>1 DEF StartNode, StartFails, registry, lists, flags
  <2>3. call' \in {"starting", "starting_all"} => \A j \in todo' : thread'[j] = "pending"
    BY <1>0, <2>2 DEF KeptOpen, SupervisorOK
  <2>4. \A j \in Instance : InLoop(j)' \/ thread'[j] = "pending"
                              => InLoop(j) \/ thread[j] = "pending"
    BY <2>1, <2>2 DEF InLoop
  <2> QED BY <2>1, <2>2, <2>3, <2>4, NothingClosed
<1>2. CASE DetachTarget \/ SignalTarget
  <2>1. /\ UNCHANGED <<outputs, next_instance, closed, replaced, thread, target,
                       keep_outputs_open, running_at_restart>>
        /\ stop_flag \subseteq stop_flag'
        /\ call' \notin {"building", "starting", "starting_all"}
        /\ call \in Restarting => call' \in Restarting
        /\ call' = "remove_close" => target \in stop_flag'
    BY <1>2 DEF DetachTarget, SignalTarget, registry, lists, threads, flags, Restarting
  <2>2. \A j \in Instance : InLoop(j)' \/ thread'[j] = "pending"
                              => InLoop(j) \/ thread[j] = "pending"
    BY <2>1 DEF InLoop
  <2>3. running_at_restart' =>
           /\ call' \in Restarting
           /\ target' \in keep_outputs_open'
           /\ thread'[target'] \in WorkLoop \cup {"dropping", "exiting", "exited"}
           /\ outputs'[target'] \notin closed'
    BY <2>1 DEF KeptOpen
  <2> QED BY <2>1, <2>2, <2>3, NothingClosed
<1>3. CASE CloseTarget
  <2>1. target \in Instance /\ Held(target) /\ target \in stop_flag /\ ~running_at_restart
    BY <1>0, <1>3 DEF CloseTarget, Ownership, Replacing, Held, KeptOpen, Restarting,
                      SupervisorOK
  <2>2. /\ UNCHANGED <<outputs, next_instance, replaced, thread, stop_flag,
                       running_at_restart>>
        /\ CloseList(outputs[target]) /\ call' = "remove_join"
    BY <1>3 DEF CloseTarget, registry, threads, flags
  <2>3. ASSUME NEW i \in replaced, WillSend(i)'
        PROVE  outputs'[i] \notin closed'
    <3>1. WillSend(i) /\ i # target
      BY <2>1, <2>2, <2>3 DEF WillSend, InLoop
    <3>2. outputs[i] \notin closed /\ Held(i) /\ i \in Instance
      BY <1>a, <1>b, <3>1, Zenon DEF KeptOpen
    <3> QED BY <2>1, <2>2, <3>1, <3>2, ClosesOneList
  <2> QED BY <2>1, <2>2, <2>3 DEF KeptOpen
<1>4. CASE JoinRemoved \/ JoinRestarted \/ JoinDrained
  <2>1. target \in Instance
    BY <1>0, <1>4, Zenon DEF JoinRemoved, JoinRestarted, JoinDrained, Ownership, Replacing, SupervisorOK
  <2>2. /\ UNCHANGED <<outputs, next_instance, closed, replaced, stop_flag, keep_outputs_open,
                       running_at_restart>>
        /\ \A j \in Instance : thread'[j] = thread[j]
                                 \/ (j = target /\ thread[j] = "pending" /\ thread'[j] = "exited")
        /\ call' \notin {"building", "starting", "starting_all", "remove_close"}
        /\ call \in Restarting => call' = "rewire" /\ target' = target
    <3>1. \A j \in Instance : thread'[j] = thread[j]
                              \/ (j = target /\ thread[j] = "pending" /\ thread'[j] = "exited")
      <4>1. Discard(target)
        BY <1>4 DEF JoinRemoved, JoinRestarted, JoinDrained
      <4> QED BY <1>a, <2>1, <4>1 DEF Discard
    <3>2. UNCHANGED <<outputs, next_instance, closed, replaced, stop_flag, keep_outputs_open,
                      running_at_restart>>
      BY <1>4 DEF JoinRemoved, JoinRestarted, JoinDrained, registry, lists, flags
    <3>3. /\ call' \notin {"building", "starting", "starting_all", "remove_close"}
          /\ call \in Restarting => call' = "rewire" /\ target' = target
      BY <1>4 DEF JoinRemoved, JoinRestarted, JoinDrained, Restarting
    <3> QED BY <3>1, <3>2, <3>3
  <2>3. \A j \in Instance : InLoop(j)' \/ thread'[j] = "pending"
                              => InLoop(j) \/ thread[j] = "pending"
    BY <2>2 DEF InLoop
  <2>4. running_at_restart' =>
           /\ call' \in Restarting
           /\ target' \in keep_outputs_open'
           /\ thread'[target'] \in WorkLoop \cup {"dropping", "exiting", "exited"}
           /\ outputs'[target'] \notin closed'
    BY <2>1, <2>2 DEF KeptOpen, Restarting
  <2> QED BY <2>2, <2>3, <2>4, NothingClosed
<1>5. CASE Rewire
  <2> DEFINE i == next_instance
  <2>1. /\ target \in Instance /\ target < i /\ i \in Instance
        /\ outputs' = [outputs EXCEPT ![i] = outputs[target]]
        /\ thread' = [thread EXCEPT ![i] = "pending"]
        /\ next_instance' = i + 1
        /\ UNCHANGED <<closed, stop_flag>>
        /\ call' = "starting" /\ todo' = {i} /\ ~running_at_restart'
        /\ replaced' \subseteq replaced \cup {i}
        /\ i \in replaced' => running_at_restart \/ i \in replaced
    BY <1>0, <1>5 DEF Rewire, Register, Ownership, Replacing, SupervisorOK, flags
  <2>2. outputs \in [Instance -> Instance \cup {None}] /\ Instance \subseteq Nat /\ i \in Nat
    BY <1>0, InstanceType DEF RegistryOK
  <2>3. i \notin replaced
    BY <2>2 DEF KeptOpen
  <2> HIDE DEF i
  <2>4. ASSUME NEW j \in replaced', WillSend(j)'
        PROVE  outputs'[j] \notin closed'
    <3>1. CASE j = i
      <4>1. running_at_restart
        BY <2>1, <2>3, <3>1
      <4>2. outputs[target] \notin closed
        BY <4>1 DEF KeptOpen
      <4> QED BY <2>1, <2>2, <3>1, <4>2
    <3>2. CASE j # i
      <4>1. j \in replaced /\ j \in Instance /\ thread'[j] = thread[j] /\ outputs'[j] = outputs[j]
        BY <1>a, <2>1, <2>2, <3>2
      <4>2. WillSend(j)
        BY <2>1, <2>4, <4>1 DEF WillSend, InLoop
      <4> QED BY <2>1, <4>1, <4>2 DEF KeptOpen
    <3> QED BY <3>1, <3>2
  <2>5. \A j \in replaced' : j < next_instance'
    <3>1. \A j \in replaced : j < i /\ j \in Nat
      BY <1>a, <2>2 DEF KeptOpen, i
    <3> QED BY <2>1, <2>2, <3>1
  <2>6. \A j \in todo' : thread'[j] = "pending"
    BY <1>a, <2>1, Zenon
  <2> QED BY <2>1, <2>4, <2>5, <2>6, Zenon DEF KeptOpen
<1>6. CASE RewireFails
  <2>1. /\ UNCHANGED <<outputs, next_instance, closed, replaced, thread, stop_flag>>
        /\ call' = "idle" /\ ~running_at_restart'
    BY <1>6 DEF RewireFails, registry, threads, flags
  <2>2. \A j \in Instance : InLoop(j)' \/ thread'[j] = "pending"
                              => InLoop(j) \/ thread[j] = "pending"
    BY <2>1 DEF InLoop
  <2> QED BY <2>1, <2>2, NothingClosed
<1>7. ASSUME NEW i \in Instance, StopNode(i)
      PROVE  KeptOpen'
  <2>1. Held(i) /\ ~running_at_restart
    BY <1>7 DEF StopNode, Ownership, Visiting, Held, KeptOpen, Restarting
  <2>2. /\ UNCHANGED <<outputs, next_instance, replaced, thread, running_at_restart, call>>
        /\ call \in {"request_stop", "stop_all"}
        /\ CloseList(outputs[i]) /\ stop_flag' = stop_flag \cup {i}
    BY <1>7 DEF StopNode, registry, threads
  <2>3. ASSUME NEW j \in replaced, WillSend(j)'
        PROVE  outputs'[j] \notin closed'
    <3>1. WillSend(j) /\ j # i
      BY <2>2, <2>3 DEF WillSend, InLoop
    <3>2. outputs[j] \notin closed /\ Held(j) /\ j \in Instance
      BY <1>a, <1>b, <3>1, Zenon DEF KeptOpen
    <3> QED BY <2>1, <2>2, <3>1, <3>2, ClosesOneList
  <2> QED BY <2>1, <2>2, <2>3, Zenon DEF KeptOpen
<1>8. CASE AllSignalled \/ RequestStop \/ StopAll \/ StartAllDeferred \/ WaitForAll \/ AllJoined
  <2>1. /\ UNCHANGED <<outputs, next_instance, closed, replaced, thread, stop_flag,
                       running_at_restart>>
        /\ call \notin Restarting
        /\ call' \notin {"building", "starting", "remove_close"}
        /\ call' = "starting_all" => call = "building" /\ todo' = Registered
    BY <1>8 DEF AllSignalled, RequestStop, StopAll, StartAllDeferred, WaitForAll, AllJoined,
                registry, lists, threads, flags, Restarting
  <2>2. ~running_at_restart
    BY <2>1 DEF KeptOpen
  <2>3. call' \in {"starting", "starting_all"} => \A j \in todo' : thread'[j] = "pending"
    BY <2>1 DEF KeptOpen
  <2>4. \A j \in Instance : InLoop(j)' \/ thread'[j] = "pending"
                              => InLoop(j) \/ thread[j] = "pending"
    BY <2>1 DEF InLoop
  <2> QED BY <2>1, <2>2, <2>3, <2>4, NothingClosed, Zenon
<1>9. ASSUME NEW n \in Node, DrainNext(n) \/ RemoveNode(n)
      PROVE  KeptOpen'
  <2>1. /\ UNCHANGED <<outputs, next_instance, closed, replaced, thread, stop_flag,
                       running_at_restart>>
        /\ call \notin Restarting
        /\ call' \notin {"building", "starting", "starting_all", "remove_close"}
    BY <1>9 DEF DrainNext, RemoveNode, lists, threads, flags, Restarting
  <2>2. ~running_at_restart
    BY <2>1 DEF KeptOpen
  <2>3. \A j \in Instance : InLoop(j)' \/ thread'[j] = "pending"
                              => InLoop(j) \/ thread[j] = "pending"
    BY <2>1 DEF InLoop
  <2> QED BY <2>1, <2>2, <2>3, NothingClosed
<1>10. ASSUME NEW n \in Node, RestartNode(n)
       PROVE  KeptOpen'
  <2>1. /\ UNCHANGED <<outputs, next_instance, closed, replaced, thread, stop_flag>>
        /\ call' = "restart_detach" /\ target' = nodes[n]
        /\ keep_outputs_open' = keep_outputs_open \cup {nodes[n]}
        /\ running_at_restart' = Heard(nodes[n])
    BY <1>10 DEF RestartNode, lists, threads, KeepOpen
  <2>2. \A j \in Instance : InLoop(j)' \/ thread'[j] = "pending"
                              => InLoop(j) \/ thread[j] = "pending"
    BY <2>1 DEF InLoop
  <2>3. running_at_restart' =>
           /\ call' \in Restarting
           /\ target' \in keep_outputs_open'
           /\ thread'[target'] \in WorkLoop \cup {"dropping", "exiting", "exited"}
           /\ outputs'[target'] \notin closed'
    BY <2>1, Zenon DEF Heard, InLoop, Restarting
  <2> QED BY <2>1, <2>2, <2>3, NothingClosed
<1>11. ASSUME NEW n \in Node, AddNodeDeferred(n) \/ AddNode(n)
       PROVE  KeptOpen'
  <2> DEFINE i == next_instance
  <2>1. /\ i \in Instance
        /\ nodes' = [nodes EXCEPT ![n] = i]
        /\ outputs' = [outputs EXCEPT ![i] = i]
        /\ thread' = [thread EXCEPT ![i] = "pending"]
        /\ next_instance' = i + 1
        /\ UNCHANGED <<closed, stop_flag, replaced, running_at_restart>>
        /\ \/ call = "building" /\ call' = "building"
           \/ call = "idle" /\ call' = "starting" /\ todo' = {i}
    BY <1>11 DEF AddNodeDeferred, AddNode, Register, flags, supervisor
  <2>2. /\ outputs \in [Instance -> Instance \cup {None}] /\ Instance \subseteq Nat /\ i \in Nat
        /\ nodes \in [Node -> Instance \cup {None}]
    BY <1>0, InstanceType DEF RegistryOK
  <2>3. ~running_at_restart
    BY <2>1 DEF KeptOpen, Restarting
  <2>4. \A j \in replaced : j < i /\ j \in Nat
    BY <1>a, <2>2 DEF KeptOpen
  <2> HIDE DEF i
  <2>5. ASSUME NEW j \in replaced, WillSend(j)'
        PROVE  outputs'[j] \notin closed'
    <3>1. j # i /\ j \in Instance
      BY <1>a, <2>2, <2>4
    <3>2. thread'[j] = thread[j] /\ outputs'[j] = outputs[j]
      BY <1>a, <2>1, <2>2, <3>1
    <3>3. WillSend(j)
      BY <2>1, <2>5, <3>2 DEF WillSend, InLoop
    <3> QED BY <2>1, <3>2, <3>3 DEF KeptOpen
  <2>6. \A j \in replaced' : j < next_instance'
    BY <2>1, <2>2, <2>4
  <2>7. call' = "building" => \A j \in Registered' : thread'[j] = "pending"
    <3>1. Registered' \subseteq Registered \cup {i}
      BY <2>1, <2>2 DEF Registered
    <3> QED BY <1>0, <1>a, <2>1, <3>1 DEF KeptOpen
  <2>8. call' = "starting" => \A j \in todo' : thread'[j] = "pending"
    BY <1>a, <2>1
  <2> QED BY <2>1, <2>3, <2>5, <2>6, <2>7, <2>8, Zenon DEF KeptOpen
<1>12. ASSUME NEW i \in Instance, Step(i) \/ WorkEnds(i), ~CloseOutputs(i)
       PROVE  KeptOpen'
  <2>1. PICK where \in WorkLoop \cup Ending \cup {"exited"} : Moves(i, where)
    BY <1>12, ThreadStep
  <2>2. /\ UNCHANGED <<registry, supervisor, flags, closed>>
        /\ Alive(i) /\ thread[i] # "closing"
        /\ thread' = [thread EXCEPT ![i] = where]
        /\ where \in WorkLoop => thread[i] \in WorkLoop
        /\ where = "closing" => i \notin keep_outputs_open
    BY <2>1 DEF Moves
  <2>3. UNCHANGED <<nodes, next_instance, outputs, call, target, todo, running_at_restart,
                    replaced, stop_flag, keep_outputs_open, closed>>
    BY <2>2 DEF registry, supervisor, flags
  <2>4. thread[i] \notin {"pending", "none", "exited"} /\ where # "pending"
    BY <2>2 DEF Alive, WorkLoop, Ending
  <2>5. \A j \in Instance : InLoop(j)' \/ thread'[j] = "pending"
                              => InLoop(j) \/ thread[j] = "pending"
    BY <1>a, <2>2, <2>4 DEF InLoop
  <2>6. running_at_restart' =>
           /\ call' \in Restarting
           /\ target' \in keep_outputs_open'
           /\ thread'[target'] \in WorkLoop \cup {"dropping", "exiting", "exited"}
           /\ outputs'[target'] \notin closed'
    <3>1. running_at_restart /\ target = i => where # "closing"
      BY <2>2 DEF KeptOpen
    <3> QED BY <1>a, <2>2, <2>3, <3>1 DEF KeptOpen, Ending
  <2>7. Registered' = Registered
    BY <2>3 DEF Registered
  <2>8. call' = "building" => \A j \in Registered' : thread'[j] = "pending"
    BY <1>0, <1>a, <2>2, <2>3, <2>4, <2>7 DEF KeptOpen
  <2>9. call' \in {"starting", "starting_all"} => \A j \in todo' : thread'[j] = "pending"
    BY <1>0, <1>a, <2>2, <2>3, <2>4 DEF KeptOpen, SupervisorOK
  <2>10. call' = "remove_close" => target' \in stop_flag'
    BY <2>3 DEF KeptOpen
  <2> QED BY <2>3, <2>5, <2>6, <2>8, <2>9, <2>10, NothingClosed
<1>13. ASSUME NEW i \in Instance, CloseOutputs(i)
       PROVE  KeptOpen'
  <2>1. /\ UNCHANGED <<nodes, next_instance, outputs, call, target, todo, running_at_restart,
                       replaced, stop_flag, keep_outputs_open>>
        /\ thread[i] = "closing" /\ thread' = [thread EXCEPT ![i] = "exited"]
        /\ CloseList(outputs[i])
    BY <1>13 DEF CloseOutputs, Goto, registry, supervisor, flags
  <2>2. Held(i)
    BY <2>1 DEF Held, Alive, Ending
  <2>3. ASSUME NEW j \in replaced, WillSend(j)'
        PROVE  outputs'[j] \notin closed'
    <3>1. j # i /\ thread'[j] = thread[j]
      BY <1>a, <2>1, <2>3 DEF WillSend, InLoop, WorkLoop
    <3>2. WillSend(j)
      BY <2>1, <2>3, <3>1 DEF WillSend, InLoop
    <3>3. outputs[j] \notin closed /\ Held(j) /\ j \in Instance
      BY <1>a, <1>b, <3>2 DEF KeptOpen
    <3> QED BY <2>1, <2>2, <3>1, <3>3, ClosesOneList
  <2>4. running_at_restart' =>
           /\ call' \in Restarting
           /\ target' \in keep_outputs_open'
           /\ thread'[target'] \in WorkLoop \cup {"dropping", "exiting", "exited"}
           /\ outputs'[target'] \notin closed'
    <3> SUFFICES ASSUME running_at_restart
                 PROVE  /\ call \in Restarting
                        /\ target \in keep_outputs_open
                        /\ thread'[target] \in WorkLoop \cup {"dropping", "exiting", "exited"}
                        /\ outputs[target] \notin closed'
      BY <2>1
    <3>1. /\ call \in Restarting /\ target \in keep_outputs_open
          /\ thread[target] \in WorkLoop \cup {"dropping", "exiting", "exited"}
          /\ outputs[target] \notin closed
      BY DEF KeptOpen
    <3>2. target \in Instance /\ Held(target)
      BY <1>0, <3>1 DEF Restarting, Ownership, Replacing, SupervisorOK, Held
    <3>3. target # i
      BY <2>1, <3>1 DEF WorkLoop
    <3>4. outputs[target] \notin closed'
      BY <2>1, <2>2, <3>1, <3>2, <3>3, ClosesOneList
    <3> QED BY <1>a, <2>1, <3>1, <3>2, <3>3, <3>4
  <2>5. Registered' = Registered
    BY <2>1 DEF Registered
  <2>6. call' = "building" => \A j \in Registered' : thread'[j] = "pending"
    BY <1>0, <1>a, <2>1, <2>5 DEF KeptOpen
  <2>7. call' \in {"starting", "starting_all"} => \A j \in todo' : thread'[j] = "pending"
    BY <1>0, <1>a, <2>1, Zenon DEF KeptOpen, SupervisorOK
  <2> QED BY <2>1, <2>3, <2>4, <2>6, <2>7 DEF KeptOpen
<1>14. CASE UNCHANGED vars
  BY <1>14 DEF vars, registry, lists, threads, flags, supervisor, KeptOpen, WillSend, InLoop,
               Registered
<1> QED BY <1>1, <1>2, <1>3, <1>4, <1>5, <1>6, <1>7, <1>8, <1>9, <1>10, <1>11, <1>12, <1>13,
           <1>14
        DEF Next, Continue, Call

(***************************************************************************)
(* A node that worked into an open list when it was restarted hands the    *)
(* list on open, in whatever state its thread was and however it ends.     *)
(***************************************************************************)
THEOREM RestartKeepsListOpenHolds == Spec => []RestartKeepsListOpen
<1>1. Init => KeptOpen
  BY DEF Init, KeptOpen, Registered
<1>2. TypeOK /\ Ownership /\ Ownership' /\ KeptOpen /\ [Next]_vars => KeptOpen'
  BY KeptOpenStep
<1>3. KeptOpen => RestartKeepsListOpen
  BY DEF KeptOpen, RestartKeepsListOpen, WillSend, Heard
<1> QED BY <1>1, <1>2, <1>3, InvariantHolds, PTL DEF Spec

-----------------------------------------------------------------------------
(* The subscriptions of removed and restarted nodes.                       *)

Detaching == {"remove_detach", "restart_detach"}

(***************************************************************************)
(* The target's list still has its consumers.                              *)
(***************************************************************************)
Holding == Replacing \ {"remove_join"}

Over == Draining \cup {"done"}

(***************************************************************************)
(* A subscription of i to the list l is one that detach will find: i is    *)
(* known to the supervisor, and l is the list of the node i reads, which   *)
(* is registered or is the target itself.                                  *)
(***************************************************************************)
Wired(i, l) ==
  LET up == Upstream[node_of[i]]
  IN /\ i \in Registered \/ (i = target /\ call \in Detaching)
     /\ up \in Node
     /\ IF nodes[up] # None
          THEN l = outputs[nodes[up]]
          ELSE call \in Holding /\ node_of[target] = up /\ l = outputs[target]

(***************************************************************************)
(* The inductive invariant.  NoForgottenSubscriber alone is not inductive: *)
(* detach looks for one list only, so there must be no other.              *)
(***************************************************************************)
NamesAgree ==
  /\ \A n \in Node : nodes[n] # None => node_of[nodes[n]] = n
  /\ call \in Replacing => nodes[node_of[target]] = None
  /\ \A i \in Instance : i < next_instance => Upstream[node_of[i]] # node_of[i]

Wiring ==
  /\ NamesAgree
  /\ call \notin Over => \A l, i \in Instance : i \in subscribers[l] => Wired(i, l)

(***************************************************************************)
(* Subscriptions end while the registry stays as it is.                    *)
(***************************************************************************)
LEMMA FewerSubscribers ==
  ASSUME TypeOK, Wiring,
         UNCHANGED <<nodes, next_instance, outputs, node_of, target>>,
         \A l \in Instance : subscribers'[l] \subseteq subscribers[l],
         \/ call' = call
         \/ call \notin Replacing /\ call' \notin Replacing /\ (call \in Over => call' \in Over)
  PROVE  Wiring'
<1>1. NamesAgree'
  BY DEF Wiring, NamesAgree
<1>2. ASSUME call' \notin Over, NEW l \in Instance, NEW i \in Instance, i \in subscribers'[l]
      PROVE  Wired(i, l)'
  <2>1. Wired(i, l)
    BY <1>2 DEF Wiring
  <2>2. Registered' = Registered
    BY DEF Registered
  <2>3. (call \in Detaching => call' \in Detaching) /\ (call \in Holding => call' \in Holding)
    BY DEF Detaching, Holding, Replacing
  <2> QED BY <2>1, <2>2, <2>3 DEF Wired
<1> QED BY <1>1, <1>2 DEF Wiring

LEMMA ClosingEnds ==
  ASSUME TypeOK, NEW l \in Instance, CloseList(l)
  PROVE  /\ \A k \in Instance : subscribers'[k] \subseteq subscribers[k]
         /\ subscribers'[l] = {}
BY DEF TypeOK, CloseList

(***************************************************************************)
(* No thread adds a subscription.                                          *)
(***************************************************************************)
LEMMA ThreadEndsOnly ==
  ASSUME TypeOK, Ownership, NEW i \in Instance, Step(i) \/ WorkEnds(i)
  PROVE  /\ UNCHANGED <<registry, supervisor>>
         /\ \A l \in Instance : subscribers'[l] \subseteq subscribers[l]
<1>1. subscribers \in [Instance -> SUBSET Instance] /\ RegistryOK
  BY TypeParts DEF TypeOK
<1>2. CASE LoopTop(i) \/ WorkEnds(i) \/ Recv(i) \/ DropPorts(i) \/ CheckKeepOpen(i)
  BY <1>2, Zenon DEF LoopTop, WorkEnds, Recv, DropPorts, CheckKeepOpen, lists
<1>3. CASE Send(i)
  <2>1. /\ UNCHANGED <<registry, supervisor>>
        /\ subscribers' = [subscribers EXCEPT ![outputs[i]] = {s \in @ : Receives(s)}]
    BY <1>3 DEF Send
  <2> QED BY <1>1, <2>1, Zenon
<1>4. ASSUME NEW s \in Instance, SendBlocked(i, s)
      PROVE  /\ UNCHANGED <<registry, supervisor>>
             /\ \A l \in Instance : subscribers'[l] \subseteq subscribers[l]
  <2>1. /\ UNCHANGED <<registry, supervisor>>
        /\ \/ subscribers' = subscribers
           \/ subscribers' = [subscribers EXCEPT ![outputs[i]] = @ \ {s}]
    BY <1>4 DEF SendBlocked
  <2> QED BY <1>1, <2>1
<1>5. CASE CloseOutputs(i)
  <2>1. /\ UNCHANGED <<registry, supervisor>> /\ CloseList(outputs[i])
        /\ thread[i] = "closing"
    BY <1>5 DEF CloseOutputs
  <2>2. i < next_instance
    BY <1>1, <2>1, PipelineAssumption DEF Ownership, Instance, RegistryOK
  <2>3. outputs[i] \in Instance
    BY <1>1, <2>2, OutputIsList
  <2> QED BY <2>1, <2>3, ClosingEnds
<1> QED BY <1>2, <1>3, <1>4, <1>5 DEF Step

(***************************************************************************)
(* The target is taken out of the registry with its subscription, and its  *)
(* consumers stay on its list.                                             *)
(***************************************************************************)
LEMMA TakeTarget ==
  ASSUME TypeOK, Ownership, Wiring, NEW n \in Node, RemoveNode(n) \/ RestartNode(n)
  PROVE  Wiring'
<1> DEFINE x == nodes[n]
<1>1. /\ call = "idle" /\ x # None /\ target' = x /\ call' \in Detaching
      /\ nodes' = [nodes EXCEPT ![n] = None]
      /\ UNCHANGED <<next_instance, outputs, node_of, subscribers>>
  BY DEF RemoveNode, RestartNode, lists, Detaching
<1>2. nodes \in [Node -> Instance \cup {None}]
  BY DEF TypeOK
<1>3. x \in Registered /\ x \in Instance /\ x < next_instance /\ node_of[x] = n
  BY <1>1, <1>2, Zenon DEF Registered, Ownership, Wiring, NamesAgree
<1>4. Upstream[n] # n
  BY <1>3 DEF Wiring, NamesAgree
<1>5. nodes'[n] = None /\ \A m \in Node : m # n => nodes'[m] = nodes[m]
  BY <1>1, <1>2
<1>6. NamesAgree'
  BY <1>1, <1>3, <1>5 DEF Wiring, NamesAgree
<1>7. ASSUME NEW l \in Instance, NEW i \in Instance, i \in subscribers[l]
      PROVE  Wired(i, l)'
  <2> DEFINE up == Upstream[node_of[i]]
  <2>1. Wired(i, l) /\ call \notin Holding /\ call \notin Detaching
    BY <1>1, <1>7 DEF Wiring, Over, Draining, Holding, Replacing, Detaching
  <2>2. i \in Registered /\ up \in Node /\ nodes[up] # None /\ l = outputs[nodes[up]]
    BY <2>1 DEF Wired
  <2>3. i \in Registered' \/ i = target'
    BY <1>1, <1>5, <2>2 DEF Registered
  <2>4. call' \in Holding
    BY <1>1 DEF Detaching, Holding, Replacing
  <2>5. CASE up = n
    BY <1>1, <1>3, <1>5, <2>2, <2>3, <2>4, <2>5, Zenon DEF Wired
  <2>6. CASE up # n
    BY <1>1, <1>5, <2>2, <2>3, <2>6, Zenon DEF Wired
  <2> QED BY <2>5, <2>6
<1> QED BY <1>1, <1>6, <1>7 DEF Wiring

(***************************************************************************)
(* detach removes the one subscription the target has.                     *)
(***************************************************************************)
LEMMA DetachEnds ==
  ASSUME TypeOK, Ownership, Wiring, DetachTarget
  PROVE  Wiring'
<1>1. /\ call \in Detaching /\ Detach(target) /\ call' \in Holding /\ call' \in Replacing
      /\ UNCHANGED <<nodes, next_instance, outputs, node_of, target>>
  BY DEF DetachTarget, registry, Detaching, Holding, Replacing
<1>2. call \notin Over /\ call \in Replacing /\ target # None /\ target \in Instance
  BY <1>1 DEF Detaching, Over, Draining, Replacing, Ownership, TypeOK
<1>3. subscribers \in [Instance -> SUBSET Instance]
  BY Zenon DEF TypeOK
<1>4. NamesAgree'
  BY <1>1, <1>2 DEF Wiring, NamesAgree
<1>5. ASSUME NEW l \in Instance, NEW i \in Instance, i \in subscribers'[l]
      PROVE  i \in subscribers[l] /\ i # target
  <2> DEFINE up == Upstream[node_of[target]]
  <2>1. i \in subscribers[l]
    BY <1>1, <1>3, <1>5 DEF Detach
  <2>2. Wired(i, l)
    BY <1>2, <2>1 DEF Wiring
  <2>3. ASSUME i = target
        PROVE  FALSE
    <3>1. target < next_instance
      BY DEF Ownership
    <3>2. up # node_of[target]
      BY <1>2, <3>1 DEF Wiring, NamesAgree
    <3>3. up \in Node /\ nodes[up] # None /\ l = outputs[nodes[up]]
      BY <2>2, <2>3, <3>2, Zenon DEF Wired
    <3>4. subscribers' = [subscribers EXCEPT ![l] = @ \ {target}]
      BY <1>1, <3>3, PipelineAssumption DEF Detach
    <3> QED BY <1>3, <1>5, <2>3, <3>4
  <2> QED BY <2>1, <2>3, Zenon
<1>6. ASSUME NEW l \in Instance, NEW i \in Instance, i \in subscribers'[l]
      PROVE  Wired(i, l)'
  <2>1. Wired(i, l) /\ i # target
    BY <1>2, <1>5, <1>6 DEF Wiring
  <2>2. i \in Registered'
    BY <1>1, <2>1 DEF Wired, Registered
  <2> QED BY <1>1, <2>1, <2>2 DEF Wired
<1> QED BY <1>4, <1>6 DEF Wiring

(***************************************************************************)
(* The target's subscription is gone; its consumers leave its list before  *)
(* the supervisor lets go of it, or stay for the instance that replaces    *)
(* it.                                                                     *)
(***************************************************************************)
LEMMA ReplaceTarget ==
  ASSUME TypeOK, Ownership, Wiring, call \in Replacing \ Detaching,
         call' \in Replacing \ Detaching \/ (call' = "idle" /\ target' = None),
         call' \in Replacing => target' = target,
         UNCHANGED <<nodes, next_instance, outputs, node_of>>,
         \A l \in Instance : subscribers'[l] \subseteq subscribers[l],
         \/ call' \in Holding
         \/ call \notin Holding
         \/ subscribers'[outputs[target]] = {}
  PROVE  Wiring'
<1>1. call \notin Over
  BY DEF Replacing, Over, Draining
<1>2. NamesAgree'
  <2>1. call' \in Replacing => nodes'[node_of'[target']] = None
    BY DEF Wiring, NamesAgree
  <2> QED BY <2>1 DEF Wiring, NamesAgree
<1>3. ASSUME NEW l \in Instance, NEW i \in Instance, i \in subscribers'[l]
      PROVE  Wired(i, l)'
  <2> DEFINE up == Upstream[node_of[i]]
  <2>1. Wired(i, l)
    BY <1>1, <1>3 DEF Wiring
  <2>2. i \in Registered' /\ up \in Node
    BY <2>1, Zenon DEF Wired, Registered
  <2>3. CASE nodes[up] # None
    BY <2>1, <2>2, <2>3, Zenon DEF Wired
  <2>4. CASE nodes[up] = None
    <3>1. call \in Holding /\ node_of[target] = up /\ l = outputs[target]
      BY <2>1, <2>4 DEF Wired
    <3>2. call' \in Holding
      BY <1>3, <3>1
    <3>3. target' = target
      BY <3>2 DEF Holding
    <3> QED BY <2>2, <2>4, <3>1, <3>2, <3>3 DEF Wired
  <2> QED BY <2>3, <2>4
<1> QED BY <1>2, <1>3 DEF Wiring

(***************************************************************************)
(* A new instance subscribes to the list of the node it reads, and takes   *)
(* over the consumers of the instance it replaces.                         *)
(***************************************************************************)
LEMMA RegisterWires ==
  ASSUME TypeOK, Ownership, Wiring, NEW n \in Node, NEW k \in Instance,
         nodes[n] = None,
         Register(n, next_instance, k),
         call' \in {"building", "starting"},
         \/ call \notin Replacing \cup Over
         \/ call = "rewire" /\ n = node_of[target] /\ k = outputs[target]
  PROVE  Wiring'
<1> DEFINE x == next_instance
           producer == IF Upstream[n] = None THEN None ELSE outputs[nodes[Upstream[n]]]
<1>1. /\ x \in Instance /\ next_instance' = x + 1
      /\ nodes' = [nodes EXCEPT ![n] = x]
      /\ outputs' = [outputs EXCEPT ![x] = k]
      /\ node_of' = [node_of EXCEPT ![x] = n]
      /\ ProducerRegistered(n)
      /\ \/ subscribers' = subscribers
         \/ /\ producer # None
            /\ subscribers' = [subscribers EXCEPT ![producer] = @ \cup {x}]
  BY DEF Register
<1>2. /\ nodes \in [Node -> Instance \cup {None}]
      /\ outputs \in [Instance -> Instance \cup {None}]
      /\ node_of \in [Instance -> Node \cup {None}]
      /\ subscribers \in [Instance -> SUBSET Instance]
      /\ next_instance \in Nat /\ Instance \subseteq Nat /\ None \notin Instance
  BY PipelineAssumption, InstanceType DEF TypeOK
<1>3. /\ nodes'[n] = x /\ outputs'[x] = k /\ node_of'[x] = n
      /\ \A m \in Node : m # n => nodes'[m] = nodes[m]
      /\ \A i \in Instance : i # x => outputs'[i] = outputs[i] /\ node_of'[i] = node_of[i]
  BY <1>1, <1>2
<1>4. \A m \in Node : nodes[m] # x /\ nodes[m] < x
  BY <1>2 DEF Ownership
<1>5. /\ Upstream[n] # n
      /\ Upstream[n] # None => Upstream[n] \in Node /\ nodes[Upstream[n]] # None
  BY <1>1, PipelineAssumption DEF ProducerRegistered
<1>6. call' \notin Replacing /\ call \notin Over /\ call \notin Detaching
  BY DEF Replacing, Over, Draining, Detaching
<1>7. NamesAgree'
  <2>1. ASSUME NEW m \in Node, nodes'[m] # None
        PROVE  node_of'[nodes'[m]] = m
    <3>1. CASE m = n
      BY <1>3, <3>1
    <3>2. CASE m # n
      <4>1. nodes'[m] = nodes[m] /\ nodes[m] \in Instance /\ nodes[m] # x
        BY <1>2, <1>3, <1>4, <2>1, <3>2
      <4> QED BY <1>3, <2>1, <4>1 DEF Wiring, NamesAgree
    <3> QED BY <3>1, <3>2
  <2>2. ASSUME NEW i \in Instance, i < next_instance'
        PROVE  Upstream[node_of'[i]] # node_of'[i]
    <3>1. CASE i = x
      BY <1>3, <1>5, <3>1
    <3>2. CASE i # x
      <4>1. i < next_instance
        BY <1>1, <1>2, <2>2, <3>2
      <4> QED BY <1>3, <3>2, <4>1 DEF Wiring, NamesAgree
    <3> QED BY <3>1, <3>2, Zenon
  <2> QED BY <1>6, <2>1, <2>2 DEF NamesAgree
<1>8. ASSUME NEW l \in Instance, NEW i \in Instance, i \in subscribers'[l]
      PROVE  Wired(i, l)'
  <2>1. i \in subscribers[l] \/ (i = x /\ producer # None /\ l = producer)
    BY <1>1, <1>2, <1>8
  <2>2. CASE i \in subscribers[l]
    <3> DEFINE up == Upstream[node_of[i]]
    <3>1. Wired(i, l)
      BY <1>6, <2>2 DEF Wiring
    <3>2. i \in Registered /\ up \in Node
      BY <1>6, <3>1 DEF Wired
    <3>3. i # x /\ node_of'[i] = node_of[i]
      BY <1>3, <1>4, <3>2 DEF Registered
    <3>4. i \in Registered'
      <4>1. PICK m \in Node : nodes[m] = i /\ i # None
        BY <3>2, Zenon DEF Registered
      <4>2. nodes'[m] = i
        BY <1>3, <4>1, Zenon
      <4> QED BY <4>1, <4>2, Zenon DEF Registered
    <3>5. CASE nodes[up] # None
      <4>1. l = outputs[nodes[up]] /\ up # n
        BY <3>1, <3>5 DEF Wired
      <4>2. nodes'[up] = nodes[up]
        BY <1>3, <3>2, <4>1, Zenon
      <4>3. nodes[up] \in Instance /\ nodes[up] # x
        BY <1>2, <1>4, <3>2, <3>5
      <4>4. outputs'[nodes[up]] = outputs[nodes[up]]
        BY <1>3, <4>3, Zenon
      <4> QED BY <3>2, <3>3, <3>4, <3>5, <4>1, <4>2, <4>4, Zenon DEF Wired
    <3>6. CASE nodes[up] = None
      <4>1. call \in Holding /\ node_of[target] = up /\ l = outputs[target]
        BY <3>1, <3>6 DEF Wired
      <4>2. up = n /\ l = k
        BY <4>1 DEF Holding
      <4>3. nodes'[up] = x /\ outputs'[x] = l /\ x # None
        BY <1>1, <1>2, <1>3, <4>2
      <4> QED BY <3>2, <3>3, <3>4, <4>3, Zenon DEF Wired
    <3> QED BY <3>5, <3>6
  <2>3. CASE i = x /\ producer # None /\ l = producer
    <3>1. Upstream[n] # None /\ l = outputs[nodes[Upstream[n]]]
      BY <2>3
    <3>2. Upstream[n] \in Node /\ nodes[Upstream[n]] # None
      BY <1>5, <3>1
    <3>3. /\ nodes'[Upstream[n]] = nodes[Upstream[n]]
          /\ outputs'[nodes[Upstream[n]]] = l
      BY <1>2, <1>3, <1>4, <1>5, <3>1, <3>2, Zenon
    <3>4. i \in Registered'
      BY <1>1, <1>2, <1>3, <2>3 DEF Registered
    <3> QED BY <1>3, <2>3, <3>2, <3>3, <3>4, Zenon DEF Wired
  <2> QED BY <2>1, <2>2, <2>3
<1> QED BY <1>7, <1>8, Zenon DEF Wiring

LEMMA WiringStep ==
  ASSUME TypeOK, Ownership, Wiring, [Next]_vars
  PROVE  Wiring'
<1>0. /\ subscribers \in [Instance -> SUBSET Instance] /\ RegistryOK /\ ListsOK
      /\ target \in Instance \cup {None}
  BY TypeParts DEF TypeOK
<1>a. call \in Replacing =>
        target \in Instance /\ outputs[target] \in Instance /\ node_of[target] \in Node
  BY <1>0, OutputIsList DEF Ownership
<1>1. ASSUME NEW i \in Instance, StartNode(i) \/ StartFails(i)
      PROVE  Wiring'
  <2>1. /\ UNCHANGED <<nodes, next_instance, outputs, node_of, target, subscribers>>
        /\ call \in {"starting", "starting_all"}
        /\ call' \in {"starting", "starting_all", "idle", "stop_all"}
    BY <1>1 DEF StartNode, StartFails, registry, lists
  <2> QED BY <2>1, FewerSubscribers DEF Replacing, Over, Draining
<1>2. CASE StartAllDeferred \/ RequestStop \/ StopAll \/ WaitForAll \/ AllSignalled \/ AllJoined
  <2>1. /\ UNCHANGED <<nodes, next_instance, outputs, node_of, target, subscribers>>
        /\ call \in {"building", "idle", "request_stop", "stop_all"} \cup Draining
        /\ call' \notin Replacing
        /\ call \in Draining => call' = "done"
    BY <1>2 DEF StartAllDeferred, RequestStop, StopAll, WaitForAll, AllSignalled, AllJoined,
                registry, lists, Replacing, Draining
  <2>2. call \notin Replacing /\ (call \in Over => call' \in Over)
    BY <2>1 DEF Replacing, Draining, Over
  <2> QED BY <2>1, <2>2, FewerSubscribers
<1>3. CASE DetachTarget
  BY <1>3, DetachEnds
<1>4. CASE SignalTarget
  <2>1. /\ UNCHANGED <<nodes, next_instance, outputs, node_of, target, subscribers>>
        /\ call \in Replacing \ Detaching /\ call' \in Replacing \ Detaching
        /\ call' \in Holding
    BY <1>4 DEF SignalTarget, registry, lists, Replacing, Detaching, Holding
  <2> QED BY <2>1, ReplaceTarget
<1>5. CASE CloseTarget
  <2>1. /\ UNCHANGED <<nodes, next_instance, outputs, node_of, target>>
        /\ call \in Replacing \ Detaching /\ call' \in Replacing \ Detaching
        /\ CloseList(outputs[target])
    BY <1>5 DEF CloseTarget, registry, Replacing, Detaching
  <2>2. /\ \A l \in Instance : subscribers'[l] \subseteq subscribers[l]
        /\ subscribers'[outputs[target]] = {}
    BY <1>a, <2>1, ClosingEnds
  <2> QED BY <2>1, <2>2, ReplaceTarget
<1>6. CASE JoinRemoved
  <2>1. /\ UNCHANGED <<nodes, next_instance, outputs, node_of, subscribers>>
        /\ call \in Replacing \ Detaching /\ call \notin Holding
        /\ call' = "idle" /\ target' = None
    BY <1>6 DEF JoinRemoved, registry, lists, Replacing, Detaching, Holding
  <2>2. "idle" \notin Replacing
    BY DEF Replacing
  <2> QED BY <2>1, <2>2, ReplaceTarget
<1>7. CASE JoinRestarted
  <2>1. /\ UNCHANGED <<nodes, next_instance, outputs, node_of, target, subscribers>>
        /\ call \in Replacing \ Detaching /\ call' \in Replacing \ Detaching
        /\ call' \in Holding
    BY <1>7 DEF JoinRestarted, registry, lists, Replacing, Detaching, Holding
  <2> QED BY <2>1, ReplaceTarget
<1>8. CASE RewireFails
  <2>1. /\ UNCHANGED <<nodes, next_instance, outputs, node_of>>
        /\ call \in Replacing \ Detaching
        /\ call' = "idle" /\ target' = None
        /\ subscribers' = [subscribers EXCEPT ![outputs[target]] = {}]
    BY <1>8 DEF RewireFails, DropList, registry, Replacing, Detaching
  <2>2. /\ \A l \in Instance : subscribers'[l] \subseteq subscribers[l]
        /\ subscribers'[outputs[target]] = {}
    BY <1>0, <1>a, <2>1
  <2>3. "idle" \notin Replacing
    BY DEF Replacing
  <2> QED BY <2>1, <2>2, <2>3, ReplaceTarget
<1>9. CASE Rewire
  <2>1. /\ call = "rewire" /\ call \in Replacing /\ call' = "starting"
        /\ Register(node_of[target], next_instance, outputs[target])
    BY <1>9 DEF Rewire, Replacing
  <2>2. nodes[node_of[target]] = None
    BY <2>1, Zenon DEF Wiring, NamesAgree
  <2> QED BY <1>a, <2>1, <2>2, RegisterWires
<1>10. ASSUME NEW n \in Node, AddNodeDeferred(n) \/ AddNode(n)
       PROVE  Wiring'
  <2>1. /\ call \in {"building", "idle"} /\ call' \in {"building", "starting"}
        /\ nodes[n] = None
        /\ Register(n, next_instance, next_instance)
    BY <1>10 DEF AddNodeDeferred, AddNode, supervisor
  <2>2. next_instance \in Instance
    BY <2>1 DEF Register
  <2>3. call \notin Replacing \cup Over
    BY <2>1 DEF Replacing, Over, Draining
  <2> QED BY <2>1, <2>2, <2>3, RegisterWires
<1>11. ASSUME NEW n \in Node, RemoveNode(n) \/ RestartNode(n)
       PROVE  Wiring'
  BY <1>11, TakeTarget
<1>12. ASSUME NEW i \in Instance, StopNode(i)
       PROVE  Wiring'
  <2>1. /\ UNCHANGED <<nodes, next_instance, outputs, node_of, target, call>>
        /\ call \in Visiting /\ i \in todo /\ CloseList(outputs[i])
    BY <1>12 DEF StopNode, registry, Visiting
  <2>2. outputs[i] \in Instance
    BY <1>0, <2>1, RegisteredIsCreated DEF Ownership
  <2> QED BY <2>1, <2>2, ClosingEnds, FewerSubscribers
<1>13. ASSUME call \in Draining, call' = call,
              UNCHANGED <<next_instance, outputs, node_of>>,
              \A n \in Node : nodes'[n] \in {nodes[n], None}
       PROVE  Wiring'
  BY <1>13 DEF Wiring, NamesAgree, Over, Draining, Replacing
<1>14. ASSUME NEW n \in Node, DrainNext(n)
       PROVE  Wiring'
  <2>1. /\ UNCHANGED <<next_instance, outputs, node_of, call>> /\ call \in Draining
        /\ nodes' = [nodes EXCEPT ![n] = None]
    BY <1>14 DEF DrainNext, Draining
  <2>2. \A m \in Node : nodes'[m] \in {nodes[m], None}
    BY <1>0, <2>1 DEF RegistryOK
  <2> QED BY <2>1, <2>2, <1>13
<1>15. CASE JoinDrained
  BY <1>13, <1>15 DEF JoinDrained, registry, Draining
<1>16. ASSUME NEW i \in Instance, Step(i) \/ WorkEnds(i)
       PROVE  Wiring'
  BY <1>16, ThreadEndsOnly, FewerSubscribers DEF registry, supervisor
<1>17. CASE UNCHANGED vars
  BY <1>17, FewerSubscribers DEF vars, registry, lists, supervisor
<1> QED BY <1>1, <1>2, <1>3, <1>4, <1>5, <1>6, <1>7, <1>8, <1>9, <1>10, <1>11, <1>12,
           <1>14, <1>15, <1>16, <1>17
        DEF Next, Continue, Call

(***************************************************************************)
(* Whatever sequence of remove_node, restart_node, refused starts and      *)
(* refused rewirings the supervisor goes through, for any graph: no list   *)
(* keeps a subscriber that the supervisor no longer knows.                 *)
(***************************************************************************)
THEOREM NoForgottenSubscriberHolds == Spec => []NoForgottenSubscriber
<1>1. Init => Wiring
  <2>1. ASSUME Init, NEW i \in Instance
        PROVE  ~(i < next_instance)
    BY <2>1, PipelineAssumption DEF Init, Instance
  <2> QED BY <2>1 DEF Init, Wiring, NamesAgree, Replacing
<1>2. TypeOK /\ Ownership /\ Wiring /\ [Next]_vars => Wiring'
  BY WiringStep
<1>3. Wiring => NoForgottenSubscriber
  BY DEF Wiring, Wired, NoForgottenSubscriber, Over, Draining
<1> QED BY <1>1, <1>2, <1>3, InvariantHolds, PTL DEF Spec
=============================================================================
