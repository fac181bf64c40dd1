---------------------- MODULE CooperativeManagerProofs ----------------------
(***************************************************************************)
(* Proofs about CooperativeManager for every graph of finitely many nodes, *)
(* every order in which the map of nodes may be visited, channel depth,    *)
(* budget and number of items and edits.                                   *)
(***************************************************************************)
EXTENDS CooperativeManager, FiniteSetTheorems, TLAPS

Mark == {"item", "eos"}
LinkState == {"none", "live", "closed", "orphan"}

(***************************************************************************)
(* The end-of-stream marker is only in the channels of closed lists, so    *)
(* that a message that is there while the list is open is an item.         *)
(***************************************************************************)
MarkersOK == \A e \in Edge : link[e] # "closed" => channel[e] \in Seq({"item"})

-----------------------------------------------------------------------------
(* Channels.                                                               *)

ChannelType(ch) == ch \in [Edge -> Seq(Mark)] /\ \A e \in Edge : Len(ch[e]) <= Depth

(***************************************************************************)
(* One more message, and one less.                                         *)
(***************************************************************************)
LEMMA ChannelEnds ==
  ASSUME NEW S, NEW s \in Seq(S)
  PROVE  /\ Len(s) \in Nat
         /\ \A x \in S : Append(s, x) \in Seq(S) /\ Len(Append(s, x)) = Len(s) + 1
         /\ s # << >> => Tail(s) \in Seq(S) /\ Len(Tail(s)) < Len(s) /\ Head(s) \in S
OBVIOUS

(***************************************************************************)
(* What close does to the channels: a marker where there is room.          *)
(***************************************************************************)
LEMMA SealedType ==
  ASSUME NEW ch, ChannelType(ch), NEW n \in Node
  PROVE  /\ ChannelType(Sealed(ch, n))
         /\ \A e \in Edge : ~(e \in OutputsOf(n) /\ Live(e)) => Sealed(ch, n)[e] = ch[e]
<1> DEFINE sealed == Sealed(ch, n)
<1>0. Depth \in Nat
  BY CooperativeAssumption
<1>1. ASSUME NEW e \in Edge PROVE sealed[e] \in Seq(Mark) /\ Len(sealed[e]) <= Depth
  <2>1. ch[e] \in Seq(Mark) /\ Len(ch[e]) <= Depth /\ "eos" \in Mark
    BY DEF ChannelType, Mark
  <2>2. CASE e \in OutputsOf(n) /\ Live(e) /\ Len(ch[e]) < Depth
    <3>1. sealed[e] = Append(ch[e], "eos")
      BY <2>2 DEF Sealed
    <3> HIDE DEF sealed
    <3> QED
      BY <1>0, <2>1, <2>2, <3>1, ChannelEnds
  <2>3. CASE ~(e \in OutputsOf(n) /\ Live(e) /\ Len(ch[e]) < Depth)
    BY <2>1, <2>3 DEF Sealed
  <2> QED
    BY <2>2, <2>3
<1>2. sealed = [e \in Edge |-> sealed[e]]
  BY DEF Sealed
<1> QED
  BY <1>1, <1>2 DEF ChannelType, Sealed

(***************************************************************************)
(* What send does: an item for every subscriber; there has to be room.     *)
(***************************************************************************)
LEMMA EmittedType ==
  ASSUME NEW ch, ChannelType(ch), NEW n \in Node,
         \A e \in OutputsOf(n) : Live(e) => Len(ch[e]) < Depth
  PROVE  /\ ChannelType(Emitted(ch, n))
         /\ \A e \in Edge : ch[e] \in Seq({"item"}) => Emitted(ch, n)[e] \in Seq({"item"})
<1> DEFINE emitted == Emitted(ch, n)
<1>0. Depth \in Nat
  BY CooperativeAssumption
<1>1. ASSUME NEW e \in Edge
      PROVE  /\ emitted[e] \in Seq(Mark) /\ Len(emitted[e]) <= Depth
             /\ ch[e] \in Seq({"item"}) => emitted[e] \in Seq({"item"})
  <2>1. ch[e] \in Seq(Mark) /\ Len(ch[e]) <= Depth /\ "item" \in Mark
    BY DEF ChannelType, Mark
  <2>2. CASE e \in OutputsOf(n) /\ Live(e)
    <3>1. emitted[e] = Append(ch[e], "item") /\ Len(ch[e]) < Depth
      BY <2>2 DEF Emitted
    <3>2. emitted[e] \in Seq(Mark) /\ Len(emitted[e]) <= Depth
      <4> HIDE DEF emitted
      <4> QED
        BY <1>0, <2>1, <3>1, ChannelEnds
    <3>3. ch[e] \in Seq({"item"}) => emitted[e] \in Seq({"item"})
      <4> HIDE DEF emitted
      <4> QED
        BY <3>1, ChannelEnds
    <3> QED
      BY <3>2, <3>3
  <2>3. CASE ~(e \in OutputsOf(n) /\ Live(e))
    BY <2>1, <2>3 DEF Emitted
  <2> QED
    BY <2>2, <2>3
<1>2. emitted = [e \in Edge |-> emitted[e]]
  BY DEF Emitted
<1> QED
  BY <1>1, <1>2 DEF ChannelType

(***************************************************************************)
(* What work reads.                                                        *)
(***************************************************************************)
LEMMA ConsumedType ==
  ASSUME TypeOK, NEW R \in SUBSET Edge,
         \A e \in R : e \in CompleteInputs \/ channel[e] # << >>
  PROVE  /\ ChannelType(Consumed(R))
         /\ \A e \in Edge : Len(Consumed(R)[e]) <= Len(channel[e])
         /\ \A e \in Edge : channel[e] \in Seq({"item"}) => Consumed(R)[e] \in Seq({"item"})
<1> DEFINE ch == Consumed(R)
<1>0. Depth \in Nat
  BY CooperativeAssumption
<1>1. ASSUME NEW e \in Edge
      PROVE  /\ ch[e] \in Seq(Mark) /\ Len(ch[e]) <= Len(channel[e]) /\ Len(ch[e]) <= Depth
             /\ channel[e] \in Seq({"item"}) => ch[e] \in Seq({"item"})
  <2>1. channel[e] \in Seq(Mark) /\ Len(channel[e]) <= Depth
    BY DEF TypeOK, Mark
  <2>2. CASE e \notin R
    BY <2>1, <2>2, ChannelEnds DEF Consumed
  <2>3. CASE e \in R /\ e \in CompleteInputs
    <3>1. ch[e] = << >>
      BY <2>3 DEF Consumed
    <3>2. Len(channel[e]) \in Nat
      BY <2>1, ChannelEnds
    <3> QED
      BY <1>0, <3>1, <3>2
  <2>4. CASE e \in R /\ e \notin CompleteInputs
    <3>1. ch[e] = Tail(channel[e]) /\ channel[e] # << >>
      BY <2>4 DEF Consumed
    <3> HIDE DEF ch
    <3>2. ch[e] \in Seq(Mark) /\ Len(ch[e]) < Len(channel[e]) /\ Len(channel[e]) \in Nat
      BY <2>1, <3>1, ChannelEnds
    <3>3. Len(ch[e]) \in Nat
      BY <3>2, ChannelEnds
    <3>4. channel[e] \in Seq({"item"}) => ch[e] \in Seq({"item"})
      BY <3>1, ChannelEnds
    <3> QED
      BY <1>0, <2>1, <3>2, <3>3, <3>4
  <2> QED
    BY <2>2, <2>3, <2>4
<1>2. ch = [e \in Edge |-> ch[e]]
  BY DEF Consumed
<1> QED
  BY <1>1, <1>2 DEF ChannelType

-----------------------------------------------------------------------------
(* Nodes and their order.                                                  *)

(***************************************************************************)
(* Every place of the order holds a registered node.                       *)
(***************************************************************************)
LEMMA OrderType ==
  ASSUME TypeOK
  PROVE  /\ Cardinality(Node) \in Nat /\ Cardinality(nodes) \in Nat
         /\ Len(order) = Cardinality(nodes) /\ DOMAIN order = 1 .. Len(order)
         /\ \A k \in 1 .. Len(order) : order[k] \in nodes
         /\ \A k : NextCall(k) => k \in DOMAIN order
<1>1. IsFiniteSet(Node) /\ nodes \subseteq Node
  BY CooperativeAssumption DEF TypeOK
<1>2. Cardinality(Node) \in Nat /\ Cardinality(nodes) \in Nat
  BY <1>1, FS_Subset, FS_CardinalityType
<1>3. order \in [1 .. Cardinality(nodes) -> nodes]
  BY DEF TypeOK, Orders
<1>4. Len(order) = Cardinality(nodes) /\ DOMAIN order = 1 .. Cardinality(nodes)
  BY <1>2, <1>3
<1>5. cursor \in Nat
  BY <1>2 DEF TypeOK
<1>6. ASSUME NEW k, NextCall(k) PROVE k \in DOMAIN order
  BY <1>2, <1>4, <1>5, <1>6 DEF NextCall
<1> QED
  BY <1>2, <1>3, <1>4, <1>6

(***************************************************************************)
(* What AfterCall leaves in the variables of the pump.                     *)
(***************************************************************************)
LEMMA PumpType ==
  ASSUME TypeOK, NEW k \in 1 .. Cardinality(Node), NEW progressed \in BOOLEAN,
         AfterCall(k, progressed)
  PROVE  /\ cursor' \in 0 .. Cardinality(Node) + 1 /\ calls' \in 0 .. Budget - 1
         /\ made_progress' \in BOOLEAN
<1>1. Cardinality(Node) \in Nat /\ Budget \in Nat \ {0} /\ calls \in Nat
  BY OrderType, CooperativeAssumption DEF TypeOK
<1>2. CASE cursor' = 0 /\ calls' = 0 /\ made_progress' = FALSE
  <2>1. cursor' \in 0 .. Cardinality(Node) + 1 /\ calls' \in 0 .. Budget - 1
    BY <1>1, <1>2
  <2>2. made_progress' \in BOOLEAN
    BY <1>2
  <2> QED
    BY <2>1, <2>2
<1>3. CASE /\ calls + 1 < Budget /\ cursor' = k + 1 /\ calls' = calls + 1
           /\ made_progress' = (made_progress \/ progressed)
  <2>1. cursor' \in 0 .. Cardinality(Node) + 1 /\ calls' \in 0 .. Budget - 1
    BY <1>1, <1>3
  <2>2. made_progress' \in BOOLEAN
    BY <1>3
  <2> QED
    BY <2>1, <2>2
<1> QED
  BY <1>2, <1>3 DEF AfterCall

(***************************************************************************)
(* A node that is done, or removed, closes its list.                       *)
(***************************************************************************)
LEMMA UnlinkedType ==
  ASSUME TypeOK, MarkersOK, NEW n \in Node, NEW ch, ChannelType(ch),
         \A e \in Edge : channel[e] \in Seq({"item"}) => ch[e] \in Seq({"item"})
  PROVE  /\ Unlinked(n) \in [Edge -> LinkState] /\ ChannelType(Sealed(ch, n))
         /\ \A e \in Edge : Unlinked(n)[e] # "closed" => Sealed(ch, n)[e] \in Seq({"item"})
<1>1. Unlinked(n) \in [Edge -> LinkState]
  BY DEF Unlinked, TypeOK, LinkState
<1>2. ChannelType(Sealed(ch, n))
      /\ \A e \in Edge : ~(e \in OutputsOf(n) /\ Live(e)) => Sealed(ch, n)[e] = ch[e]
  BY SealedType
<1>3. ASSUME NEW e \in Edge, Unlinked(n)[e] # "closed" PROVE Sealed(ch, n)[e] \in Seq({"item"})
  <2>1. ~(e \in OutputsOf(n) /\ Live(e)) /\ link[e] # "closed"
    BY <1>3 DEF Unlinked
  <2>2. ch[e] \in Seq({"item"})
    BY <2>1 DEF MarkersOK
  <2> QED
    BY <1>2, <2>1, <2>2
<1> QED
  BY <1>1, <1>2, <1>3

-----------------------------------------------------------------------------
(* The invariant.                                                          *)

SchedulerInv == TypeOK /\ MarkersOK

(***************************************************************************)
(* What a step has to leave of the graph and of the channels.              *)
(***************************************************************************)
GraphType ==
  /\ nodes \subseteq Node /\ order \in Orders(nodes) /\ done \subseteq nodes
  /\ closed \subseteq nodes /\ left \in [Node -> 0 .. MaxItems]

PumpVariables ==
  /\ cursor \in 0 .. Cardinality(Node) + 1 /\ calls \in 0 .. Budget - 1
  /\ made_progress \in BOOLEAN /\ edits \in 0 .. MaxEdits

ListsOK ==
  /\ link \in [Edge -> LinkState] /\ ChannelType(channel)
  /\ \A e \in Edge : link[e] # "closed" => channel[e] \in Seq({"item"})

(***************************************************************************)
(* The invariant in three parts, which the actions disturb apart.          *)
(***************************************************************************)
LEMMA Parts == SchedulerInv <=> GraphType /\ PumpVariables /\ ListsOK
BY DEF SchedulerInv, TypeOK, MarkersOK, GraphType, PumpVariables, ListsOK, ChannelType, Mark,
       LinkState

(***************************************************************************)
(* A call that returns Ok: the items are read, and sent where there is     *)
(* room, which the pump has made sure of.                                  *)
(***************************************************************************)
LEMMA OkStep ==
  ASSUME SchedulerInv, NEW k \in 1 .. Cardinality(Node), WorkReturnsOk(k)
  PROVE  SchedulerInv'
<1> DEFINE n == order[k]
<1>0. TypeOK /\ MarkersOK /\ GraphType /\ PumpVariables /\ ListsOK
  BY Parts DEF SchedulerInv
<1>1. n \in nodes /\ n \in Node /\ Callable(n)
  BY <1>0, OrderType DEF WorkReturnsOk, NextCall, GraphType
<1> HIDE DEF n
<1>2. PICK R \in Reads(n), sends \in BOOLEAN, stops \in BOOLEAN :
        /\ left' = IF n \in Source THEN [left EXCEPT ![n] = @ - 1] ELSE left
        /\ LET ch == IF sends THEN Emitted(Consumed(R), n) ELSE Consumed(R)
           IN  IF stops THEN Finish(n, ch) ELSE channel' = ch /\ UNCHANGED <<done, closed, link>>
        /\ \E progressed \in {sends, TRUE} : AfterCall(k, progressed)
  BY DEF WorkReturnsOk, n
<1>3. ~RecvWaits(n) /\ ~SendWaits(n) /\ ~InputsEnded(n) /\ UNCHANGED <<nodes, order, edits>>
  BY DEF WorkReturnsOk, n
<1>4. R \in SUBSET Edge /\ \A e \in R : e \in CompleteInputs \/ channel[e] # << >>
  <2>1. CASE n \in Multiplexing
    BY <1>2, <2>1 DEF Reads, InputsOf, Has
  <2>2. CASE n \notin Multiplexing
    <3>1. R = InputsOf(n)
      BY <1>2, <2>2 DEF Reads
    <3>2. ASSUME NEW e \in InputsOf(n), e \notin CompleteInputs PROVE channel[e] # << >>
      <4>1. n \notin Source
        BY <3>2 DEF Source, InputsOf, Edge
      <4>2. ~Ended(e)
        BY <1>3, <2>2, <3>2, <4>1 DEF InputsEnded, ItemInputs
      <4>3. ~Waits(e)
        BY <1>3, <2>2, <3>2 DEF RecvWaits
      <4> QED
        BY <4>2, <4>3 DEF Ended, Has
    <3> QED
      BY <3>1, <3>2 DEF InputsOf
  <2> QED
    BY <2>1, <2>2
<1> DEFINE read == Consumed(R)
           ch == IF sends THEN Emitted(read, n) ELSE read
<1>5. /\ ChannelType(read)
      /\ \A e \in Edge : Len(read[e]) <= Len(channel[e])
      /\ \A e \in Edge : channel[e] \in Seq({"item"}) => read[e] \in Seq({"item"})
  BY <1>0, <1>4, ConsumedType
<1>6. ASSUME NEW e \in OutputsOf(n), Live(e) PROVE Len(read[e]) < Depth
  <2>1. e \in Edge /\ ~(Len(channel[e]) >= Depth)
    BY <1>3, <1>6 DEF SendWaits, Full, OutputsOf
  <2>2. Len(channel[e]) \in Nat /\ Len(read[e]) \in Nat /\ Depth \in Nat
    BY <1>0, <1>5, <2>1, ChannelEnds, CooperativeAssumption DEF ListsOK, ChannelType
  <2> QED
    BY <1>5, <2>1, <2>2
<1>7. /\ ChannelType(Emitted(read, n))
      /\ \A e \in Edge : read[e] \in Seq({"item"}) => Emitted(read, n)[e] \in Seq({"item"})
  <2> HIDE DEF read
  <2> QED
    BY <1>1, <1>5, <1>6, EmittedType
<1>8. ChannelType(ch) /\ \A e \in Edge : channel[e] \in Seq({"item"}) => ch[e] \in Seq({"item"})
  <2> HIDE DEF read
  <2> QED
    BY <1>5, <1>7
<1>9. left' \in [Node -> 0 .. MaxItems]
  <2>1. left \in [Node -> 0 .. MaxItems] /\ MaxItems \in Nat
    BY <1>0, CooperativeAssumption DEF GraphType
  <2>2. n \in Source => left[n] # 0
    BY <1>3 DEF InputsEnded
  <2> QED
    BY <1>1, <1>2, <2>1, <2>2
<1>10. PumpVariables'
  <2>1. PICK progressed \in BOOLEAN : AfterCall(k, progressed)
    BY <1>2
  <2> QED
    BY <1>0, <1>3, <2>1, PumpType DEF PumpVariables
<1>11. CASE stops
  <2>1. Finish(n, ch)
    BY <1>2, <1>11
  <2> HIDE DEF ch
  <2>2. GraphType'
    BY <1>0, <1>1, <1>3, <1>9, <2>1 DEF GraphType, Finish
  <2>3. ListsOK'
    BY <1>0, <1>1, <1>8, <2>1, UnlinkedType DEF ListsOK, Finish
  <2> QED
    BY <1>10, <2>2, <2>3, Parts, PTL
<1>12. CASE ~stops
  <2>1. channel' = ch /\ UNCHANGED <<done, closed, link>>
    BY <1>2, <1>12
  <2> HIDE DEF ch
  <2>2. GraphType'
    BY <1>0, <1>3, <1>9, <2>1 DEF GraphType
  <2>3. ListsOK'
    BY <1>0, <1>8, <2>1 DEF ListsOK
  <2> QED
    BY <1>10, <2>2, <2>3, Parts, PTL
<1> QED
  BY <1>11, <1>12

(***************************************************************************)
(* A call that returns an error: the node is done, its list closed.        *)
(***************************************************************************)
LEMMA ErrStep ==
  ASSUME SchedulerInv, NEW k \in 1 .. Cardinality(Node), WorkReturnsErr(k)
  PROVE  SchedulerInv'
<1> DEFINE n == order[k]
<1>0. TypeOK /\ MarkersOK /\ GraphType /\ PumpVariables /\ ListsOK
  BY Parts DEF SchedulerInv
<1>1. n \in nodes /\ n \in Node
  BY <1>0, OrderType DEF WorkReturnsErr, NextCall, GraphType
<1>2. Finish(n, channel) /\ AfterCall(k, FALSE) /\ UNCHANGED <<nodes, order, left, edits>>
  BY DEF WorkReturnsErr
<1> HIDE DEF n
<1>3. GraphType'
  BY <1>0, <1>1, <1>2 DEF GraphType, Finish
<1>4. ListsOK'
  BY <1>0, <1>1, <1>2, UnlinkedType DEF ListsOK, Finish
<1>5. PumpVariables'
  BY <1>0, <1>2, PumpType DEF PumpVariables
<1> QED
  BY <1>3, <1>4, <1>5, Parts, PTL

(***************************************************************************)
(* The begin of a pump and the end of a pass touch no channel.             *)
(***************************************************************************)
LEMMA PassStep ==
  ASSUME SchedulerInv, StartPump \/ EndPass
  PROVE  SchedulerInv'
<1>0. TypeOK /\ GraphType /\ PumpVariables /\ ListsOK
  BY Parts DEF SchedulerInv
<1>1. Cardinality(Node) \in Nat /\ Budget \in Nat \ {0}
  BY <1>0, OrderType, CooperativeAssumption
<1>2. UNCHANGED <<graph, link, channel, left, edits>>
  BY DEF StartPump, EndPass
<1>3. GraphType' /\ ListsOK'
  BY <1>0, <1>2 DEF GraphType, ListsOK, graph
<1>4. cursor' \in 0 .. Cardinality(Node) + 1 /\ calls' \in 0 .. Budget - 1
  <2>1. cursor' \in {0, 1} /\ calls' \in {0, calls}
    BY DEF StartPump, EndPass
  <2> QED
    BY <1>0, <1>1, <2>1 DEF PumpVariables
<1>5. made_progress' \in BOOLEAN
  BY <1>0 DEF StartPump, EndPass, PumpVariables
<1>6. PumpVariables'
  BY <1>0, <1>2, <1>4, <1>5 DEF PumpVariables
<1> QED
  BY <1>3, <1>6, Parts, PTL

(***************************************************************************)
(* The inputs of a fresh instance hold nothing, or the marker of a closed  *)
(* list.                                                                   *)
(***************************************************************************)
LEMMA FreshType ==
  ASSUME ListsOK, NEW n \in Node, link' = Subscribed(n, link), channel' = Fresh(n, channel)
  PROVE  ListsOK'
<1>0. Depth \in Nat \ {0}
  BY CooperativeAssumption
<1>1. link' \in [Edge -> LinkState]
  BY DEF Subscribed, ListsOK, LinkState
<1>2. ASSUME NEW e \in Edge
      PROVE  /\ channel'[e] \in Seq(Mark) /\ Len(channel'[e]) <= Depth
             /\ link'[e] # "closed" => channel'[e] \in Seq({"item"})
  <2>1. CASE e \notin InputsOf(n)
    <3>1. channel'[e] = channel[e] /\ link'[e] = link[e]
      BY <2>1 DEF Fresh, Subscribed
    <3> QED
      BY <3>1 DEF ListsOK, ChannelType
  <2>2. CASE e \in InputsOf(n) /\ e[2] \in closed
    <3>1. channel'[e] = <<"eos">> /\ link'[e] = "closed"
      BY <2>2 DEF Fresh, Subscribed
    <3>2. <<"eos">> \in Seq(Mark) /\ Len(<<"eos">>) = 1
      BY DEF Mark
    <3> QED
      BY <1>0, <3>1, <3>2
  <2>3. CASE e \in InputsOf(n) /\ e[2] \notin closed
    <3>1. channel'[e] = << >>
      BY <2>3 DEF Fresh
    <3> QED
      BY <1>0, <3>1
  <2> QED
    BY <2>1, <2>2, <2>3
<1>3. channel' \in [Edge -> Seq(Mark)]
  <2>1. channel' = [e \in Edge |-> channel'[e]]
    BY DEF Fresh
  <2> QED
    BY <1>2, <2>1
<1> QED
  BY <1>1, <1>2, <1>3 DEF ListsOK, ChannelType

(***************************************************************************)
(* The inputs of a node that goes away are gone with what they held.       *)
(***************************************************************************)
LEMMA DetachedType ==
  ASSUME NEW n \in Node, NEW lk \in [Edge -> LinkState], NEW ch, ChannelType(ch),
         \A e \in Edge : lk[e] # "closed" => ch[e] \in Seq({"item"}),
         link' = Detached(n, lk), channel' = Emptied(n, ch)
  PROVE  ListsOK'
<1>0. Depth \in Nat
  BY CooperativeAssumption
<1>1. link' \in [Edge -> LinkState]
  BY DEF Detached, LinkState
<1>2. ASSUME NEW e \in Edge
      PROVE  /\ channel'[e] \in Seq(Mark) /\ Len(channel'[e]) <= Depth
             /\ link'[e] # "closed" => channel'[e] \in Seq({"item"})
  <2>1. CASE e \notin InputsOf(n)
    <3>1. channel'[e] = ch[e] /\ link'[e] = lk[e]
      BY <2>1 DEF Emptied, Detached
    <3> QED
      BY <3>1 DEF ChannelType
  <2>2. CASE e \in InputsOf(n)
    <3>1. channel'[e] = << >>
      BY <2>2 DEF Emptied
    <3> QED
      BY <1>0, <3>1
  <2> QED
    BY <2>1, <2>2
<1>3. channel' \in [Edge -> Seq(Mark)]
  <2>1. channel' = [e \in Edge |-> channel'[e]]
    BY DEF Emptied
  <2> QED
    BY <1>2, <2>1
<1> QED
  BY <1>1, <1>2, <1>3 DEF ListsOK, ChannelType

(***************************************************************************)
(* The calls that change the graph between two pumps.                      *)
(***************************************************************************)
LEMMA EditStep ==
  ASSUME SchedulerInv, Edits
  PROVE  SchedulerInv'
<1>0. TypeOK /\ MarkersOK /\ GraphType /\ PumpVariables /\ ListsOK
  BY Parts DEF SchedulerInv
<1>1. ASSUME Edit PROVE PumpVariables'
  <2>1. edits < MaxEdits /\ edits' = edits + 1 /\ UNCHANGED <<cursor, calls, made_progress>>
    BY <1>1 DEF Edit, pump
  <2>2. edits' \in 0 .. MaxEdits
    BY <1>0, <2>1, CooperativeAssumption DEF PumpVariables
  <2> QED
    BY <1>0, <2>1, <2>2 DEF PumpVariables
<1>2. ASSUME NEW n \in Node PROVE Refilled(n) \in [Node -> 0 .. MaxItems]
  BY <1>0, CooperativeAssumption DEF Refilled, GraphType
<1>3. ASSUME NEW n \in Node, AddNode(n) PROVE SchedulerInv'
  <2>1. GraphType'
    BY <1>0, <1>2, <1>3 DEF AddNode, GraphType
  <2>2. ListsOK'
    BY <1>0, <1>3, FreshType DEF AddNode
  <2>3. PumpVariables'
    BY <1>1, <1>3 DEF AddNode
  <2> QED
    BY <2>1, <2>2, <2>3, Parts, PTL
<1>4. ASSUME NEW n \in Node, RestartNode(n) PROVE SchedulerInv'
  <2>1. GraphType'
    BY <1>0, <1>2, <1>4 DEF RestartNode, GraphType
  <2>2. ListsOK'
    BY <1>0, <1>4, FreshType DEF RestartNode
  <2>3. PumpVariables'
    BY <1>1, <1>4 DEF RestartNode
  <2> QED
    BY <2>1, <2>2, <2>3, Parts, PTL
<1>5. ASSUME NEW n \in Node, RemoveNode(n) PROVE SchedulerInv'
  <2>1. GraphType'
    BY <1>0, <1>5 DEF RemoveNode, GraphType
  <2>2. /\ Unlinked(n) \in [Edge -> LinkState] /\ ChannelType(Sealed(channel, n))
        /\ \A e \in Edge : Unlinked(n)[e] # "closed" => Sealed(channel, n)[e] \in Seq({"item"})
    BY <1>0, UnlinkedType DEF ListsOK
  <2>3. ListsOK'
    BY <1>5, <2>2, DetachedType DEF RemoveNode
  <2>4. PumpVariables'
    BY <1>1, <1>5 DEF RemoveNode
  <2> QED
    BY <2>1, <2>3, <2>4, Parts, PTL
<1>6. ASSUME NEW n \in Node, RestartFails(n) PROVE SchedulerInv'
  <2> DEFINE lk == [e \in Edge |-> IF e \in OutputsOf(n) /\ Live(e) THEN "orphan" ELSE link[e]]
  <2>1. GraphType'
    BY <1>0, <1>6 DEF RestartFails, GraphType
  <2>2. lk \in [Edge -> LinkState]
    BY <1>0 DEF ListsOK, LinkState
  <2>3. \A e \in Edge : lk[e] # "closed" => channel[e] \in Seq({"item"})
    BY <1>0 DEF ListsOK, Live
  <2>4. link' = Detached(n, lk) /\ channel' = Emptied(n, channel) /\ ChannelType(channel)
    BY <1>0, <1>6 DEF RestartFails, ListsOK
  <2>5. ListsOK'
    <3> HIDE DEF lk
    <3> QED
      BY <2>2, <2>3, <2>4, DetachedType
  <2>6. PumpVariables'
    BY <1>1, <1>6 DEF RestartFails
  <2> QED
    BY <2>1, <2>5, <2>6, Parts, PTL
<1>7. CASE StopAll
  <2>1. << >> \in Orders({})
    BY FS_EmptySet DEF Orders
  <2>2. GraphType'
    BY <1>0, <1>7, <2>1 DEF StopAll, GraphType
  <2>3. ListsOK'
    BY <1>7, CooperativeAssumption DEF StopAll, ListsOK, ChannelType, LinkState
  <2>4. PumpVariables'
    BY <1>1, <1>7 DEF StopAll
  <2> QED
    BY <2>2, <2>3, <2>4, Parts, PTL
<1> QED
  BY <1>3, <1>4, <1>5, <1>6, <1>7 DEF Edits

-----------------------------------------------------------------------------
(* The theorems.                                                           *)

(***************************************************************************)
(* A compiled graph starts with open lists and empty channels.             *)
(***************************************************************************)
LEMMA InitInv == Init => SchedulerInv
<1> SUFFICES ASSUME Init PROVE SchedulerInv
  OBVIOUS
<1>1. Cardinality(Node) \in Nat /\ Budget \in Nat \ {0} /\ MaxEdits \in Nat /\ MaxItems \in Nat
      /\ Depth \in Nat
  BY CooperativeAssumption, FS_CardinalityType
<1>2. GraphType
  BY <1>1 DEF Init, GraphType
<1>3. PumpVariables
  <2>1. cursor \in 0 .. Cardinality(Node) + 1 /\ calls \in 0 .. Budget - 1
        /\ edits \in 0 .. MaxEdits
    BY <1>1 DEF Init
  <2> QED
    BY <2>1 DEF Init, PumpVariables
<1>4. ListsOK
  BY <1>1 DEF Init, ListsOK, ChannelType, LinkState
<1> QED
  BY <1>2, <1>3, <1>4, Parts

(***************************************************************************)
(* The invariant is inductive: no call, and no edit between two pumps,     *)
(* puts a marker into the channel of an open list.                         *)
(***************************************************************************)
THEOREM SchedulerInvHolds == Spec => []SchedulerInv
<1>1. SchedulerInv /\ [Next]_vars => SchedulerInv'
  <2> SUFFICES ASSUME SchedulerInv, [Next]_vars PROVE SchedulerInv'
    OBVIOUS
  <2>1. CASE Pump
    BY <2>1, OkStep, ErrStep, PassStep DEF Pump
  <2>2. CASE Edits
    BY <2>2, EditStep
  <2>3. CASE UNCHANGED vars
    BY <2>3 DEF vars, graph, pump, SchedulerInv, TypeOK, MarkersOK
  <2> QED
    BY <2>1, <2>2, <2>3 DEF Next
<1> QED
  BY InitInv, <1>1, PTL DEF Spec

(***************************************************************************)
(* Types, and no channel is longer than the depth of its subscription.     *)
(***************************************************************************)
THEOREM TypeCorrect == Spec => []TypeOK
<1>1. SchedulerInv => TypeOK
  BY DEF SchedulerInv
<1> QED
  BY <1>1, SchedulerInvHolds, PTL

(***************************************************************************)
(* The conditions of pump_until are enough: a node they let through finds  *)
(* what it reads and room for what it sends.  That a multiplexer's open    *)
(* input holds an item, and not the marker, is where the invariant comes   *)
(* in.                                                                     *)
(***************************************************************************)
THEOREM NeverBlocksHolds == Spec => []NeverBlocks
<1>1. SchedulerInv => NeverBlocks
  <2> SUFFICES ASSUME SchedulerInv, NEW k \in DOMAIN order, Callable(order[k])
               PROVE  ~RecvWaits(order[k]) /\ ~SendWaits(order[k])
    BY DEF NeverBlocks, NextCall
  <2> DEFINE n == order[k]
  <2> HIDE DEF n
  <2>0. Callable(n)
    BY DEF n
  <2> SUFFICES ~RecvWaits(n) /\ ~SendWaits(n)
    BY DEF n
  <2>1. ~SendWaits(n)
    BY <2>0 DEF Callable, WouldBlock, SendWaits
  <2>2. CASE n \notin Multiplexing
    BY <2>0, <2>1, <2>2 DEF Callable, InputsReady, IsReady, ProducerClosed, RecvWaits, Waits, Live
  <2>3. CASE n \in Multiplexing
    <3>1. CASE \A e \in InputsOf(n) : link[e] = "closed"
      BY <2>1, <2>3, <3>1 DEF RecvWaits, Waits, Live
    <3>2. CASE \E e \in InputsOf(n) : IsReady(e) /\ ~ProducerClosed(e)
      <4>1. PICK e \in InputsOf(n) : channel[e] # << >> /\ link[e] # "closed"
        BY <3>2 DEF IsReady, ProducerClosed
      <4>2. channel[e] \in Seq({"item"})
        BY <4>1 DEF SchedulerInv, MarkersOK, InputsOf
      <4>3. Head(channel[e]) = "item"
        BY <4>1, <4>2, ChannelEnds
      <4> QED
        BY <2>1, <2>3, <4>1, <4>3 DEF RecvWaits, Has
    <3> QED
      BY <2>0, <2>3, <3>1, <3>2 DEF Callable, InputsReady, ProducerClosed
  <2> QED
    BY <2>2, <2>3
<1> QED
  BY <1>1, SchedulerInvHolds, PTL
=============================================================================
