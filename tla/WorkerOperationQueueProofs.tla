--------------------- MODULE WorkerOperationQueueProofs ---------------------
(***************************************************************************)
(* Proofs about WorkerOperationQueue for every pool size, queue bound and  *)
(* number of requests.                                                     *)
(***************************************************************************)
EXTENDS WorkerOperationQueue, FiniteSetTheorems, SequenceTheorems, TLAPS

-----------------------------------------------------------------------------
(* The helpers of the queue.                                               *)

(***************************************************************************)
(* A non-empty set of natural numbers has a least element.  The library's  *)
(* induction theorems take operators, so the lemma goes through the well-  *)
(* founded inclusion order on the intervals 0 .. m.                        *)
(***************************************************************************)
LEMMA LeastElement ==
  ASSUME NEW M \in SUBSET Nat, M # {}
  PROVE  \E m \in M : \A n \in M : m <= n
<1> DEFINE T == {0 .. m : m \in M}
           R == StrictSubsetOrdering(Nat)
<1>1. T \subseteq FiniteSubsetsOf(Nat) /\ T # {}
  <2>1. ASSUME NEW m \in M
        PROVE  0 .. m \in FiniteSubsetsOf(Nat)
    <3>1. m \in Int /\ 0 \in Int /\ 0 .. m \in SUBSET Nat
      OBVIOUS
    <3>2. IsFiniteSet(0 .. m)
      BY <3>1, FS_Interval
    <3> QED BY <3>1, <3>2 DEF FiniteSubsetsOf
  <2> QED BY <2>1, Zenon
<1>2. IsWellFoundedOn(R, FiniteSubsetsOf(Nat))
  BY FS_StrictSubsetOrderingWellFounded
<1>3. PICK x \in T : \A y \in T : ~(<<y, x>> \in R)
  <2> HIDE DEF T, R
  <2> QED BY <1>1, <1>2, WFMin
<1>4. PICK m \in M : x = 0 .. m
  OBVIOUS
<1>5. ASSUME NEW n \in M, n < m
      PROVE  FALSE
  <2>1. 0 .. n \in T
    BY <1>5
  <2>2. 0 .. n \subseteq 0 .. m /\ 0 .. n # 0 .. m
    <3>1. m \in 0 .. m /\ m \notin 0 .. n
      BY <1>5
    <3> QED BY <1>5, <3>1
  <2>3. <<0 .. n, 0 .. m>> \in R
    BY <2>2, <1>5 DEF StrictSubsetOrdering
  <2> QED BY <1>3, <1>4, <2>1, <2>3, Zenon
<1> QED BY <1>5

(***************************************************************************)
(* release_ordered pops a prefix of the submission order, and it stops     *)
(* only at a request that has no terminal result yet.                      *)
(***************************************************************************)
LEMMA ReleasablePrefix ==
  ASSUME NEW order \in Seq(Sequence), NEW term
  PROVE  LET k == Releasable(order, term)
         IN /\ k \in 0 .. Len(order)
            /\ \A i \in 1 .. k : term[order[i]] # "none"
            /\ k < Len(order) => term[order[k + 1]] = "none"
<1> DEFINE Stops == {i \in 0 .. Len(order) : i < Len(order) => term[order[i + 1]] = "none"}
<1>1. Len(order) \in Nat /\ Stops \in SUBSET Nat
  OBVIOUS
<1>2. Len(order) \in Stops
  BY <1>1
<1>3. PICK k \in Stops : \A n \in Stops : k <= n
  <2> HIDE DEF Stops
  <2> QED BY <1>1, <1>2, LeastElement
<1>4. ASSUME NEW i \in 1 .. k, term[order[i]] = "none"
      PROVE  FALSE
  <2>1. i - 1 \in Stops
    BY <1>1, <1>3, <1>4
  <2>2. k <= i - 1
    <3> HIDE DEF Stops
    <3> QED BY <1>3, <2>1
  <2> QED BY <1>1, <2>2
<1>5. \E j \in 0 .. Len(order) :
        /\ \A i \in 1 .. j : term[order[i]] # "none"
        /\ j < Len(order) => term[order[j + 1]] = "none"
  BY <1>3, <1>4
<1> QED BY <1>5, Zenon DEF Releasable

(***************************************************************************)
(* A free worker takes a request by its rank among the free workers, so    *)
(* that rank is a position of the queue.                                   *)
(***************************************************************************)
LEMMA RankIsPosition ==
  ASSUME NEW free \in SUBSET Worker, NEW w \in free
  PROVE  Rank(free, w) \in Nat \ {0}
<1> DEFINE S == {v \in free : v <= w}
<1>1. IsFiniteSet(Worker)
  BY QueueAssumption, FS_Interval DEF Worker
<1>2. IsFiniteSet(S)
  BY <1>1, FS_Subset
<1>3. w \in S
  BY DEF Worker
<1>4. Cardinality(S) \in Nat /\ Cardinality(S) # 0
  <2> HIDE DEF S
  <2> QED BY <1>2, <1>3, FS_CardinalityType, FS_EmptySet
<1> QED BY <1>4 DEF Rank

(***************************************************************************)
(* dispatch_ready_workers gives workers requests of the queue and leaves a *)
(* queue of requests.                                                      *)
(***************************************************************************)
LEMMA DispatchType ==
  ASSUME NEW free \in SUBSET Worker,
         NEW run \in [Worker -> Sequence \cup {None}],
         NEW pend \in Seq(Sequence)
  PROVE  /\ Assigned(free, run, pend) \in [Worker -> Sequence \cup {None}]
         /\ Unassigned(free, pend) \in Seq(Sequence)
<1>1. ASSUME NEW w \in Takers(free, pend)
      PROVE  pend[Rank(free, w)] \in Sequence
  <2>1. w \in free /\ Rank(free, w) <= Len(pend)
    BY DEF Takers
  <2>2. Rank(free, w) \in 1 .. Len(pend)
    BY <2>1, RankIsPosition
  <2> QED BY <2>2, ElementOfSeq
<1>2. Assigned(free, run, pend) \in [Worker -> Sequence \cup {None}]
  BY <1>1 DEF Assigned
<1>3. Cardinality(Takers(free, pend)) \in Nat
  <2>1. IsFiniteSet(Worker)
    BY QueueAssumption, FS_Interval DEF Worker
  <2>2. Takers(free, pend) \in SUBSET Worker
    BY DEF Takers
  <2> QED BY <2>1, <2>2, FS_Subset, FS_CardinalityType
<1>4. Unassigned(free, pend) \in Seq(Sequence)
  BY <1>3 DEF Unassigned
<1> QED BY <1>2, <1>4

(***************************************************************************)
(* release_ordered keeps the types: what it pops are terminal messages.    *)
(***************************************************************************)
LEMMA ReleaseType ==
  ASSUME TypeOK,
         NEW term \in [Sequence -> Outcome \cup {"none"}],
         NEW canc \in SUBSET Sequence,
         ReleaseOrdered(submission_order, term, canc)
  PROVE  /\ submission_order' \in Seq(Sequence)
         /\ Len(submission_order') <= MaxOutstanding
         /\ terminal' \in [Sequence -> Outcome \cup {"none"}]
         /\ cancelled' \subseteq Sequence
         /\ delivered' \in Seq(Message)
<1> DEFINE order == submission_order
           k == Releasable(order, term)
           msgs == [i \in 1 .. k |-> [kind |-> term[order[i]], sequence |-> order[i]]]
<1>1. order \in Seq(Sequence) /\ Len(order) \in Nat /\ Len(order) <= MaxOutstanding
  BY DEF TypeOK
<1>2. k \in 0 .. Len(order) /\ \A i \in 1 .. k : term[order[i]] # "none"
  BY <1>1, ReleasablePrefix
<1> HIDE DEF k
<1>3. msgs \in Seq(Message)
  <2>1. ASSUME NEW i \in 1 .. k
        PROVE  [kind |-> term[order[i]], sequence |-> order[i]] \in Message
    <3>1. order[i] \in Sequence /\ term[order[i]] # "none"
      BY <1>1, <1>2
    <3>2. term[order[i]] \in Outcome
      BY <3>1
    <3> QED BY <3>1, <3>2 DEF Message
  <2> QED BY <1>2, <2>1, IsASeq
<1>4. submission_order' = SubSeq(order, k + 1, Len(order))
  BY DEF ReleaseOrdered, k
<1>5. submission_order' \in Seq(Sequence) /\ Len(submission_order') <= MaxOutstanding
  BY <1>1, <1>2, <1>4, QueueAssumption
<1>6. terminal' \in [Sequence -> Outcome \cup {"none"}] /\ cancelled' \subseteq Sequence
  BY DEF ReleaseOrdered
<1>7. delivered' = delivered \o msgs
  BY DEF ReleaseOrdered, k
<1>8. delivered' \in Seq(Message)
  BY <1>3, <1>7, ConcatProperties DEF TypeOK
<1> QED BY <1>5, <1>6, <1>8

LEMMA RecordType ==
  ASSUME TypeOK, NEW s, NEW outcome \in Outcome
  PROVE  RecordTerminal(s, outcome) \in [Sequence -> Outcome \cup {"none"}]
BY Zenon DEF TypeOK, RecordTerminal

LEMMA WithoutType ==
  ASSUME NEW q \in Seq(Sequence), NEW s
  PROVE  Without(q, s) \in Seq(Sequence)
<1>1. CASE s \notin Elements(q)
  BY <1>1 DEF Without
<1>2. CASE s \in Elements(q)
  <2> DEFINE p == CHOOSE i \in DOMAIN q : q[i] = s
             r == [i \in 1 .. Len(q) - 1 |-> IF i < p THEN q[i] ELSE q[i + 1]]
  <2>1. p \in 1 .. Len(q) /\ Len(q) - 1 \in Nat
    BY <1>2 DEF Elements
  <2> HIDE DEF p
  <2>2. \A i \in 1 .. Len(q) - 1 : r[i] \in Sequence
    BY <2>1
  <2>3. r \in Seq(Sequence)
    BY <2>1, <2>2
  <2> QED BY <1>2, <2>3 DEF Without, p
<1> QED BY <1>1, <1>2

LEMMA AnsweredMember ==
  ASSUME NEW q \in Seq(Message), NEW s
  PROVE  s \in Answered(q) <=>
           \E i \in 1 .. Len(q) : q[i].kind \in Outcome /\ s = q[i].sequence
<1>1. DOMAIN q = 1 .. Len(q)
  OBVIOUS
<1> QED BY <1>1, Zenon DEF Answered

LEMMA AnsweredType ==
  ASSUME NEW q \in Seq(Message)
  PROVE  Answered(q) \subseteq Sequence
<1> SUFFICES ASSUME NEW s \in Answered(q)
             PROVE  s \in Sequence
  OBVIOUS
<1>1. PICK i \in 1 .. Len(q) : s = q[i].sequence
  BY AnsweredMember
<1>2. q[i] \in Message
  BY <1>1
<1> QED BY <1>1, <1>2 DEF Message

LEMMA FailedType ==
  ASSUME TypeOK, NEW w \in Worker, WorkerFailed(w)
  PROVE  TypeOK'
<1> DEFINE rdy == [ready EXCEPT ![w] = FALSE]
           fld == [failed EXCEPT ![w] = TRUE]
           run == [running EXCEPT ![w] = None]
           recorded == IF running[w] # None /\ running[w] \notin cancelled
                         THEN RecordTerminal(running[w], "Failed")
                         ELSE terminal
           lost == IF Orphaned(fld) THEN Elements(pending) ELSE {}
           term == [s \in Sequence |-> IF s \in lost THEN "Unavailable" ELSE recorded[s]]
           pend == IF Orphaned(fld) THEN << >> ELSE pending
<1>1. recorded \in [Sequence -> Outcome \cup {"none"}]
  BY RecordType DEF TypeOK, Outcome
<1>2. term \in [Sequence -> Outcome \cup {"none"}]
  <2> HIDE DEF recorded, lost
  <2> QED BY <1>1 DEF Outcome
<1>3. ReleaseOrdered(submission_order, term, cancelled)
  BY DEF WorkerFailed
<1>4. run \in [Worker -> Sequence \cup {None}] /\ pend \in Seq(Sequence)
  BY DEF TypeOK
<1>5. DispatchReadyWorkers(rdy, fld, run, pend)
  BY DEF WorkerFailed
<1>6. rdy \in [Worker -> BOOLEAN] /\ fld \in [Worker -> BOOLEAN]
  BY DEF TypeOK
<1>7. ready' = rdy /\ failed' = fld /\ UNCHANGED <<last_submitted_sequence, drained>>
  BY DEF WorkerFailed
<1> HIDE DEF rdy, fld, run, term, pend
<1>8. running' \in [Worker -> Sequence \cup {None}] /\ pending' \in Seq(Sequence)
  BY <1>4, <1>5, DispatchType, Zenon DEF DispatchReadyWorkers, Dispatchable
<1>9. /\ submission_order' \in Seq(Sequence)
      /\ Len(submission_order') <= MaxOutstanding
      /\ terminal' \in [Sequence -> Outcome \cup {"none"}]
      /\ cancelled' \subseteq Sequence
      /\ delivered' \in Seq(Message)
  BY <1>2, <1>3, ReleaseType DEF TypeOK
<1> QED BY <1>6, <1>7, <1>8, <1>9 DEF TypeOK

(***************************************************************************)
(* The queue keeps its types and never holds more than max_outstanding     *)
(* unreleased requests, whatever the hosts report and in whatever order.   *)
(***************************************************************************)
THEOREM TypeCorrect == Spec => []TypeOK
<1>1. Init => TypeOK
  BY QueueAssumption DEF Init, TypeOK
<1>2. TypeOK /\ [Next]_vars => TypeOK'
  <2> SUFFICES ASSUME TypeOK, [Next]_vars
               PROVE  TypeOK'
    OBVIOUS
  <2>1. ASSUME NEW s \in Sequence, Submit(s)
        PROVE  TypeOK'
    <3>1. Append(pending, s) \in Seq(Sequence)
      BY DEF TypeOK
    <3>2. running' \in [Worker -> Sequence \cup {None}] /\ pending' \in Seq(Sequence)
      BY <2>1, <3>1, DispatchType, Zenon DEF Submit, TypeOK, DispatchReadyWorkers, Dispatchable
    <3>3. /\ submission_order' \in Seq(Sequence)
          /\ Len(submission_order') <= MaxOutstanding
      BY <2>1, QueueAssumption DEF Submit, TypeOK
    <3> QED BY <2>1, <3>2, <3>3 DEF Submit, TypeOK
  <2>2. ASSUME NEW s \in Sequence, Cancel(s)
        PROVE  TypeOK'
    <3>1. RecordTerminal(s, "Cancelled") \in [Sequence -> Outcome \cup {"none"}]
      BY RecordType DEF Outcome
    <3>2. cancelled \cup {s} \in SUBSET Sequence
      BY DEF TypeOK
    <3>3. Without(pending, s) \in Seq(Sequence)
      BY WithoutType DEF TypeOK
    <3>4. running' \in [Worker -> Sequence \cup {None}] /\ pending' \in Seq(Sequence)
      BY <2>2, <3>3, DispatchType, Zenon DEF Cancel, TypeOK, DispatchReadyWorkers, Dispatchable
    <3>5. /\ submission_order' \in Seq(Sequence)
          /\ Len(submission_order') <= MaxOutstanding
          /\ terminal' \in [Sequence -> Outcome \cup {"none"}]
          /\ cancelled' \subseteq Sequence
          /\ delivered' \in Seq(Message)
      BY <2>2, <3>1, <3>2, ReleaseType DEF Cancel
    <3> QED BY <2>2, <3>4, <3>5 DEF Cancel, TypeOK
  <2>3. ASSUME NEW s \in Sequence, HostProgress(s)
        PROVE  TypeOK'
    BY <2>3 DEF HostProgress, WorkerProgress, TypeOK, Message
  <2>4. ASSUME NEW w \in Worker, HostReady(w)
        PROVE  TypeOK'
    <3>1. ready' \in [Worker -> BOOLEAN]
      BY <2>4 DEF HostReady, WorkerReady, TypeOK
    <3>2. running' \in [Worker -> Sequence \cup {None}] /\ pending' \in Seq(Sequence)
      BY Zenon, <2>4, DispatchType
         DEF HostReady, WorkerReady, TypeOK, DispatchReadyWorkers, Dispatchable
    <3> QED BY <2>4, <3>1, <3>2 DEF HostReady, WorkerReady, TypeOK
  <2>5. ASSUME NEW w \in Worker, HostFails(w)
        PROVE  TypeOK'
    BY <2>5, FailedType DEF HostFails
  <2>6. ASSUME NEW w \in Worker, HostCompletes(w)
        PROVE  TypeOK'
    <3>1. PICK reported \in {None, running[w], MaxSequence + 1}, outcome \in {"Complete", "Failed"} :
            WorkerCompleted(w, reported, outcome)
      BY <2>6 DEF HostCompletes
    <3>2. CASE WorkerFailed(w)
      BY <3>2, FailedType
    <3>3. CASE ~WorkerFailed(w)
      <4> DEFINE term == IF running[w] \notin cancelled
                           THEN RecordTerminal(running[w], outcome)
                           ELSE terminal
                 run == [running EXCEPT ![w] = None]
      <4>1. /\ ReleaseOrdered(submission_order, term, cancelled)
            /\ DispatchReadyWorkers(ready, failed, run, pending)
            /\ UNCHANGED <<ready, failed, last_submitted_sequence, drained>>
        BY <3>1, <3>3 DEF WorkerCompleted
      <4>2. term \in [Sequence -> Outcome \cup {"none"}]
        BY RecordType DEF TypeOK, Outcome
      <4>3. run \in [Worker -> Sequence \cup {None}]
        BY DEF TypeOK
      <4> HIDE DEF term, run
      <4>4. running' \in [Worker -> Sequence \cup {None}] /\ pending' \in Seq(Sequence)
        BY <4>1, <4>3, DispatchType, Zenon DEF TypeOK, DispatchReadyWorkers, Dispatchable
      <4>5. /\ submission_order' \in Seq(Sequence)
            /\ Len(submission_order') <= MaxOutstanding
            /\ terminal' \in [Sequence -> Outcome \cup {"none"}]
            /\ cancelled' \subseteq Sequence
            /\ delivered' \in Seq(Message)
        BY <4>1, <4>2, ReleaseType, Zenon DEF TypeOK
      <4> QED BY <4>1, <4>4, <4>5 DEF TypeOK
    <3> QED BY <3>2, <3>3
  <2>7. CASE DrainMessages
    <3>1. Answered(delivered) \subseteq Sequence
      BY AnsweredType DEF TypeOK
    <3> QED BY <2>7, <3>1 DEF DrainMessages, TypeOK
  <2>8. CASE UNCHANGED vars
    BY <2>8 DEF vars, TypeOK
  <2> QED BY <2>1, <2>2, <2>3, <2>4, <2>5, <2>6, <2>7, <2>8 DEF Next
<1> QED BY <1>1, <1>2, PTL DEF Spec

-----------------------------------------------------------------------------
(* The answers the caller gets.                                            *)

(***************************************************************************)
(* The first k requests in line get their terminal messages; everything    *)
(* the caller can see of the queue stays apart from that.                  *)
(***************************************************************************)
Releases(k) ==
  /\ submission_order' = SubSeq(submission_order, k + 1, Len(submission_order))
  /\ \E msgs \in Seq(Message) :
       /\ Len(msgs) = k
       /\ \A i \in 1 .. k : /\ msgs[i].kind \in Outcome
                            /\ msgs[i].sequence = submission_order[i]
       /\ delivered' = delivered \o msgs
  /\ UNCHANGED <<last_submitted_sequence, drained>>

(***************************************************************************)
(* release_ordered releases a prefix, possibly an empty one.               *)
(***************************************************************************)
LEMMA ReleaseOrderedReleases ==
  ASSUME TypeOK,
         NEW term \in [Sequence -> Outcome \cup {"none"}], NEW canc,
         ReleaseOrdered(submission_order, term, canc),
         UNCHANGED <<last_submitted_sequence, drained>>
  PROVE  \E k \in 0 .. Len(submission_order) : Releases(k)
<1> DEFINE order == submission_order
           k == Releasable(order, term)
           msgs == [i \in 1 .. k |-> [kind |-> term[order[i]], sequence |-> order[i]]]
<1>1. order \in Seq(Sequence) /\ Len(order) \in Nat
  BY DEF TypeOK
<1>2. k \in 0 .. Len(order) /\ \A i \in 1 .. k : term[order[i]] # "none"
  BY <1>1, ReleasablePrefix
<1>3. /\ submission_order' = SubSeq(order, k + 1, Len(order))
      /\ delivered' = delivered \o msgs
  BY DEF ReleaseOrdered
<1> HIDE DEF k
<1>4. ASSUME NEW i \in 1 .. k
      PROVE  /\ msgs[i] \in Message
             /\ msgs[i].kind \in Outcome
             /\ msgs[i].sequence = order[i]
  <2>1. order[i] \in Sequence /\ term[order[i]] # "none"
    BY <1>1, <1>2
  <2>2. term[order[i]] \in Outcome
    BY <2>1
  <2> QED BY <2>1, <2>2 DEF Message
<1>5. msgs \in Seq(Message) /\ Len(msgs) = k
  BY <1>2, <1>4, IsASeq
<1> HIDE DEF msgs
<1>6. Releases(k)
  BY <1>3, <1>4, <1>5, Zenon DEF Releases
<1> QED BY <1>2, <1>6

LEMMA NothingReleased ==
  ASSUME TypeOK,
         UNCHANGED <<submission_order, delivered, last_submitted_sequence, drained>>
  PROVE  \E k \in 0 .. Len(submission_order) : Releases(k)
<1>1. submission_order \in Seq(Sequence) /\ delivered \in Seq(Message)
  BY DEF TypeOK
<1>2. SubSeq(submission_order, 1, Len(submission_order)) = submission_order
  BY <1>1
<1>3. delivered \o << >> = delivered
  BY <1>1, ConcatEmptySeq
<1>4. << >> \in Seq(Message) /\ Len(<< >>) = 0
  OBVIOUS
<1>5. \E msgs \in Seq(Message) :
        /\ Len(msgs) = 0
        /\ \A i \in 1 .. 0 : /\ msgs[i].kind \in Outcome
                             /\ msgs[i].sequence = submission_order[i]
        /\ delivered' = delivered \o msgs
  <2>1. \A i \in 1 .. 0 : FALSE
    OBVIOUS
  <2>2. delivered' = delivered \o << >>
    BY <1>3
  <2> QED BY <1>4, <2>1, <2>2, Zenon
<1>6. Releases(0)
  <2>1. submission_order' = SubSeq(submission_order, 0 + 1, Len(submission_order))
    BY <1>2
  <2> QED BY <1>5, <2>1, Zenon DEF Releases
<1>7. 0 \in 0 .. Len(submission_order)
  BY <1>1
<1> QED BY <1>6, <1>7

(***************************************************************************)
(* What a step of the queue can do to what its caller sees: accept a       *)
(* request, forward progress, hand out the messages, or release a prefix.  *)
(***************************************************************************)
LEMMA StepShape ==
  ASSUME TypeOK, [Next]_vars
  PROVE  \/ \E s \in Sequence : Submit(s)
         \/ \E s \in Sequence : WorkerProgress(s)
         \/ DrainMessages
         \/ \E k \in 0 .. Len(submission_order) : Releases(k)
<1>1. ASSUME NEW s \in Sequence, Cancel(s)
      PROVE  \E k \in 0 .. Len(submission_order) : Releases(k)
  <2>1. RecordTerminal(s, "Cancelled") \in [Sequence -> Outcome \cup {"none"}]
    BY RecordType DEF Outcome
  <2> QED BY <1>1, <2>1, ReleaseOrderedReleases DEF Cancel
<1>2. ASSUME NEW w \in Worker, WorkerFailed(w)
      PROVE  \E k \in 0 .. Len(submission_order) : Releases(k)
  <2> DEFINE recorded == IF running[w] # None /\ running[w] \notin cancelled
                           THEN RecordTerminal(running[w], "Failed")
                           ELSE terminal
             lost == IF Orphaned([failed EXCEPT ![w] = TRUE]) THEN Elements(pending) ELSE {}
             term == [s \in Sequence |-> IF s \in lost THEN "Unavailable" ELSE recorded[s]]
  <2>1. recorded \in [Sequence -> Outcome \cup {"none"}]
    BY RecordType DEF TypeOK, Outcome
  <2>2. term \in [Sequence -> Outcome \cup {"none"}]
    <3> HIDE DEF recorded, lost
    <3> QED BY <2>1 DEF Outcome
  <2>3. /\ ReleaseOrdered(submission_order, term, cancelled)
        /\ UNCHANGED <<last_submitted_sequence, drained>>
    BY <1>2 DEF WorkerFailed
  <2> HIDE DEF term
  <2> QED BY <2>2, <2>3, ReleaseOrderedReleases
<1>3. ASSUME NEW w \in Worker, HostCompletes(w)
      PROVE  \E k \in 0 .. Len(submission_order) : Releases(k)
  <2>1. PICK reported \in {None, running[w], MaxSequence + 1}, outcome \in {"Complete", "Failed"} :
          WorkerCompleted(w, reported, outcome)
    BY <1>3 DEF HostCompletes
  <2>2. CASE WorkerFailed(w)
    BY <1>2, <2>2
  <2>3. CASE ~WorkerFailed(w)
    <3> DEFINE term == IF running[w] \notin cancelled
                         THEN RecordTerminal(running[w], outcome)
                         ELSE terminal
    <3>1. /\ ReleaseOrdered(submission_order, term, cancelled)
          /\ UNCHANGED <<last_submitted_sequence, drained>>
      BY <2>1, <2>3 DEF WorkerCompleted
    <3>2. term \in [Sequence -> Outcome \cup {"none"}]
      BY RecordType DEF TypeOK, Outcome
    <3> HIDE DEF term
    <3> QED BY <3>1, <3>2, ReleaseOrderedReleases
  <2> QED BY <2>2, <2>3
<1>4. ASSUME NEW w \in Worker, HostReady(w)
      PROVE  \E k \in 0 .. Len(submission_order) : Releases(k)
  BY <1>4, NothingReleased DEF HostReady, WorkerReady
<1>5. CASE UNCHANGED vars
  BY <1>5, NothingReleased DEF vars
<1>6. ASSUME NEW s \in Sequence, HostProgress(s)
      PROVE  WorkerProgress(s)
  BY <1>6 DEF HostProgress
<1>7. ASSUME NEW w \in Worker, HostFails(w)
      PROVE  \E k \in 0 .. Len(submission_order) : Releases(k)
  BY <1>2, <1>7 DEF HostFails
<1> QED BY <1>1, <1>3, <1>4, <1>5, <1>6, <1>7 DEF Next

(***************************************************************************)
(* What a stream answers is what its parts answer.                         *)
(***************************************************************************)
LEMMA AnsweredConcat ==
  ASSUME NEW q \in Seq(Message), NEW r \in Seq(Message)
  PROVE  Answered(q \o r) = Answered(q) \cup Answered(r)
<1> DEFINE c == q \o r
<1>1. /\ c \in Seq(Message) /\ Len(c) = Len(q) + Len(r)
      /\ \A i \in 1 .. Len(q) : c[i] = q[i]
      /\ \A i \in 1 .. Len(r) : c[Len(q) + i] = r[i]
  OBVIOUS
<1>2. Len(q) \in Nat /\ Len(r) \in Nat
  OBVIOUS
<1>3. ASSUME NEW i \in 1 .. Len(c)
      PROVE  \/ i \in 1 .. Len(q) /\ c[i] = q[i]
             \/ i - Len(q) \in 1 .. Len(r) /\ c[i] = r[i - Len(q)]
  <2>1. CASE i <= Len(q)
    BY <1>1, <2>1
  <2>2. CASE i > Len(q)
    <3>1. i - Len(q) \in 1 .. Len(r)
      BY <1>1, <1>2, <2>2
    <3>2. Len(q) + (i - Len(q)) = i
      BY <1>2
    <3> QED BY <1>1, <3>1, <3>2
  <2> QED BY <1>2, <2>1, <2>2
<1>4. ASSUME NEW s \in Answered(c)
      PROVE  s \in Answered(q) \cup Answered(r)
  <2>1. PICK i \in 1 .. Len(c) : c[i].kind \in Outcome /\ s = c[i].sequence
    <3> HIDE DEF c
    <3> QED BY <1>1, AnsweredMember
  <2>2. \/ i \in 1 .. Len(q) /\ c[i] = q[i]
        \/ i - Len(q) \in 1 .. Len(r) /\ c[i] = r[i - Len(q)]
    BY <1>3
  <2>3. s \in Answered(q) \/ s \in Answered(r)
    <3> HIDE DEF c
    <3> QED BY <2>1, <2>2, AnsweredMember
  <2> QED BY <2>3
<1>5. ASSUME NEW s \in Answered(q)
      PROVE  s \in Answered(c)
  <2>1. PICK i \in 1 .. Len(q) : q[i].kind \in Outcome /\ s = q[i].sequence
    BY AnsweredMember
  <2>2. i \in 1 .. Len(c) /\ c[i] = q[i]
    BY <1>1, <1>2
  <2> HIDE DEF c
  <2> QED BY <1>1, <2>1, <2>2, AnsweredMember, Zenon
<1>6. ASSUME NEW s \in Answered(r)
      PROVE  s \in Answered(c)
  <2>1. PICK i \in 1 .. Len(r) : r[i].kind \in Outcome /\ s = r[i].sequence
    BY AnsweredMember
  <2>2. Len(q) + i \in 1 .. Len(c) /\ c[Len(q) + i] = r[i]
    BY <1>1, <1>2
  <2> HIDE DEF c
  <2> QED BY <1>1, <2>1, <2>2, AnsweredMember, Zenon
<1> QED BY <1>4, <1>5, <1>6

(***************************************************************************)
(* What a release adds to the answers.                                     *)
(***************************************************************************)
LEMMA ReleasedAnswers ==
  ASSUME TypeOK, NEW k \in 0 .. Len(submission_order), Releases(k)
  PROVE  Answered(delivered') =
           Answered(delivered) \cup {submission_order[i] : i \in 1 .. k}
<1>1. PICK msgs \in Seq(Message) :
        /\ Len(msgs) = k
        /\ \A i \in 1 .. k : /\ msgs[i].kind \in Outcome
                             /\ msgs[i].sequence = submission_order[i]
        /\ delivered' = delivered \o msgs
  BY Zenon DEF Releases
<1>2. Answered(msgs) = {submission_order[i] : i \in 1 .. k}
  <2>1. DOMAIN msgs = 1 .. k
    BY <1>1
  <2> QED BY <1>1, <2>1, Zenon DEF Answered
<1>3. delivered \in Seq(Message)
  BY DEF TypeOK
<1> QED BY <1>1, <1>2, <1>3, AnsweredConcat

LEMMA ProgressAnswersNothing ==
  ASSUME TypeOK, NEW s \in Sequence, WorkerProgress(s)
  PROVE  Answered(delivered') = Answered(delivered)
<1> DEFINE p == [kind |-> "Progress", sequence |-> s]
<1>1. delivered' = Append(delivered, p) /\ delivered \in Seq(Message)
  BY DEF WorkerProgress, TypeOK
<1>2. p \in Message
  BY DEF Message
<1>3. <<p>> \in Seq(Message) /\ Append(delivered, p) = delivered \o <<p>>
  BY <1>1, <1>2, AppendIsConcat
<1>4. Answered(<<p>>) = {}
  BY DEF Answered, Outcome
<1>5. delivered' = delivered \o <<p>>
  BY <1>1, <1>3
<1>6. Answered(delivered \o <<p>>) = Answered(delivered) \cup Answered(<<p>>)
  BY <1>1, <1>3, AnsweredConcat, Zenon
<1> QED BY <1>4, <1>5, <1>6, Zenon

(***************************************************************************)
(* The queue implements the line of OrderedAnswers: every request that was *)
(* accepted is answered once, in the order of submission, however workers  *)
(* complete, fail and are cancelled.                                       *)
(***************************************************************************)
THEOREM QueueAnswersInLine == Spec => AnswersInLine
<1> DEFINE answered == drained \cup Answered(delivered)
<1>1. Init => Line!Init
  BY DEF Init, Line!Init, Answered, None
<1>2. TypeOK /\ [Next]_vars => [Line!Next]_(Line!orderVars)
  <2> SUFFICES ASSUME TypeOK, [Next]_vars
               PROVE  [Line!Next]_(Line!orderVars)
    OBVIOUS
  <2>1. ASSUME NEW s \in Sequence, Submit(s)
        PROVE  Line!Accept
    <3>1. s \in Nat /\ last_submitted_sequence' = s /\ s > last_submitted_sequence
      BY <2>1 DEF Submit, Sequence
    <3>2. /\ Len(submission_order) < MaxOutstanding
          /\ submission_order' = Append(submission_order, s)
          /\ answered' = answered
      BY <2>1 DEF Submit, Answered
    <3> QED BY <3>1, <3>2 DEF Line!Accept
  <2>2. ASSUME NEW s \in Sequence, WorkerProgress(s)
        PROVE  UNCHANGED Line!orderVars
    BY <2>2, ProgressAnswersNothing DEF WorkerProgress, Line!orderVars
  <2>3. CASE DrainMessages
    <3>1. Answered(delivered') = {}
      BY <2>3 DEF DrainMessages, Answered
    <3> QED BY <2>3, <3>1 DEF DrainMessages, Line!orderVars
  <2>4. ASSUME NEW k \in 0 .. Len(submission_order), Releases(k)
        PROVE  [Line!Next]_(Line!orderVars)
    <3>1. Answered(delivered') =
            Answered(delivered) \cup {submission_order[i] : i \in 1 .. k}
      BY <2>4, ReleasedAnswers
    <3>2. CASE k = 0
      <4>1. SubSeq(submission_order, 1, Len(submission_order)) = submission_order
        BY DEF TypeOK
      <4>2. {submission_order[i] : i \in 1 .. k} = {}
        BY <3>2
      <4> QED BY <2>4, <3>1, <3>2, <4>1, <4>2 DEF Releases, Line!orderVars
    <3>3. CASE k # 0
      <4>1. Line!Answer(k)
        BY <2>4, <3>1 DEF Releases, Line!Answer
      <4>2. k \in 1 .. Len(submission_order)
        BY <3>3 DEF TypeOK
      <4> QED BY <4>1, <4>2 DEF Line!Next
    <3> QED BY <3>2, <3>3
  <2> QED BY <2>1, <2>2, <2>3, <2>4, StepShape DEF Line!Next
<1> QED BY <1>1, <1>2, TypeCorrect, PTL DEF Spec, AnswersInLine, Line!Spec

-----------------------------------------------------------------------------
(* The order of the answers.                                               *)

(***************************************************************************)
(* The inductive invariant: the line is in the order of the sequence       *)
(* numbers, and everything answered is older than everything in line.      *)
(* DeliveredInOrder is not inductive without it, since nothing in it says  *)
(* that the next request released is newer than the ones before.           *)
(***************************************************************************)
LineOrdered ==
  /\ \A i, j \in 1 .. Len(submission_order) :
       i < j => submission_order[i] < submission_order[j]
  /\ \A i \in 1 .. Len(submission_order) : submission_order[i] <= last_submitted_sequence
  /\ \A s \in drained \cup Answered(delivered) :
       /\ s <= last_submitted_sequence
       /\ \A i \in 1 .. Len(submission_order) : s < submission_order[i]

LEMMA LineOrderedHolds == Spec => []LineOrdered
<1>1. Init => LineOrdered
  BY DEF Init, LineOrdered, Answered
<1>2. TypeOK /\ LineOrdered /\ [Next]_vars => LineOrdered'
  <2> SUFFICES ASSUME TypeOK, LineOrdered, [Next]_vars
               PROVE  LineOrdered'
    OBVIOUS
  <2> DEFINE order == submission_order
             last == last_submitted_sequence
             answered == drained \cup Answered(delivered)
  <2>1. /\ order \in Seq(Sequence) /\ Len(order) \in Nat
        /\ \A i \in 1 .. Len(order) : order[i] \in Sequence
        /\ last \in Nat /\ answered \subseteq Sequence /\ Sequence \subseteq Nat
    <3>1. order \in Seq(Sequence) /\ delivered \in Seq(Message) /\ drained \subseteq Sequence
      BY DEF TypeOK
    <3>2. Len(order) \in Nat /\ \A i \in 1 .. Len(order) : order[i] \in Sequence
      BY <3>1
    <3>3. Sequence \subseteq Nat
      BY DEF Sequence
    <3>4. last \in Nat
      BY <3>3 DEF TypeOK, None
    <3>5. answered \subseteq Sequence
      BY <3>1, AnsweredType
    <3> QED BY <3>1, <3>2, <3>3, <3>4, <3>5
  <2>2. /\ \A i, j \in 1 .. Len(order) : i < j => order[i] < order[j]
        /\ \A i \in 1 .. Len(order) : order[i] <= last
        /\ \A s \in answered : s <= last
        /\ \A s \in answered : \A i \in 1 .. Len(order) : s < order[i]
    BY DEF LineOrdered
  <2>3. ASSUME answered' = answered, order' = order, last' = last
        PROVE  LineOrdered'
    BY <2>3 DEF LineOrdered
  <2>4. ASSUME NEW n \in Sequence, Submit(n)
        PROVE  LineOrdered'
    <3>1. /\ order' = Append(order, n) /\ last' = n /\ n > last
          /\ answered' = answered
      BY <2>4 DEF Submit, Answered
    <3>2. /\ Len(order') = Len(order) + 1
          /\ \A i \in 1 .. Len(order) : order'[i] = order[i]
          /\ order'[Len(order) + 1] = n
      BY <2>1, <3>1
    <3> HIDE DEF order, last, answered
    <3>3. ASSUME NEW i \in 1 .. Len(order')
          PROVE  \/ i \in 1 .. Len(order) /\ order'[i] = order[i]
                 \/ i = Len(order) + 1 /\ order'[i] = n
      BY <2>1, <3>2
    <3>4. ASSUME NEW i \in 1 .. Len(order'), NEW j \in 1 .. Len(order'), i < j
          PROVE  order'[i] < order'[j]
      <4>1. i \in 1 .. Len(order) /\ order'[i] = order[i]
        BY <2>1, <3>2, <3>4
      <4>2. order[i] <= last /\ order[i] \in Nat /\ n \in Nat
        BY <2>1, <2>2, <4>1, Zenon
      <4> QED BY <2>1, <2>2, <3>1, <3>3, <3>4, <4>1, <4>2
    <3>5. ASSUME NEW i \in 1 .. Len(order')
          PROVE  order'[i] <= last'
      <4>1. CASE i \in 1 .. Len(order) /\ order'[i] = order[i]
        <5>1. order[i] <= last /\ order[i] \in Nat /\ n \in Nat
          BY <2>1, <2>2, <4>1, Zenon
        <5> QED BY <2>1, <3>1, <4>1, <5>1
      <4>2. CASE order'[i] = n
        BY <2>1, <3>1, <4>2
      <4> QED BY <3>3, <4>1, <4>2
    <3>6. ASSUME NEW s \in answered'
          PROVE  s <= last' /\ \A i \in 1 .. Len(order') : s < order'[i]
      BY <2>1, <2>2, <3>1, <3>3
    <3> QED BY <3>4, <3>5, <3>6 DEF LineOrdered, order, last, answered
  <2>5. ASSUME NEW s \in Sequence, WorkerProgress(s)
        PROVE  LineOrdered'
    BY <2>3, <2>5, ProgressAnswersNothing, Zenon DEF WorkerProgress
  <2>6. CASE DrainMessages
    BY <2>3, <2>6 DEF DrainMessages, Answered
  <2>7. ASSUME NEW k \in 0 .. Len(submission_order), Releases(k)
        PROVE  LineOrdered'
    <3>1. /\ order' = SubSeq(order, k + 1, Len(order)) /\ last' = last
          /\ answered' = answered \cup {order[i] : i \in 1 .. k}
      BY <2>7, ReleasedAnswers, Zenon DEF Releases
    <3>2. /\ Len(order') = Len(order) - k
          /\ \A i \in 1 .. Len(order') : order'[i] = order[k + i]
      BY <2>1, <3>1
    <3> HIDE DEF order, last, answered
    <3>3. k \in 0 .. Len(order)
      BY DEF order
    <3>4. \A i \in 1 .. Len(order') : k + i \in 1 .. Len(order)
      BY <2>1, <3>2, <3>3
    <3>5. \A i, j \in 1 .. Len(order') : i < j => order'[i] < order'[j]
      <4>1. ASSUME NEW i \in 1 .. Len(order'), NEW j \in 1 .. Len(order'), i < j
            PROVE  order[k + i] < order[k + j]
        BY <2>2, <3>3, <3>4, <4>1
      <4> QED BY <3>2, <4>1
    <3>6. \A i \in 1 .. Len(order') : order'[i] <= last'
      BY <2>2, <3>1, <3>2, <3>4
    <3>7. ASSUME NEW s \in answered'
          PROVE  s <= last' /\ \A i \in 1 .. Len(order') : s < order'[i]
      <4>1. CASE s \in answered
        BY <2>2, <3>1, <3>2, <3>4, <4>1
      <4>2. CASE s \in {order[i] : i \in 1 .. k}
        <5>1. PICK m \in 1 .. k : s = order[m]
          BY <4>2
        <5>2. m \in 1 .. Len(order)
          BY <2>1, <3>3
        <5>3. ASSUME NEW i \in 1 .. Len(order')
              PROVE  s < order'[i]
          <6>1. m < k + i
            BY <3>3
          <6>2. order[m] < order[k + i]
            BY <2>2, <3>4, <5>2, <6>1, Zenon
          <6> QED BY <3>2, <5>1, <6>2
        <5> QED BY <2>2, <3>1, <5>1, <5>2, <5>3
      <4> QED BY <3>1, <4>1, <4>2, Zenon
    <3> QED BY <3>5, <3>6, <3>7, Zenon DEF LineOrdered, order, last, answered
  <2> QED BY <2>4, <2>5, <2>6, <2>7, StepShape
<1> QED BY <1>1, <1>2, TypeCorrect, PTL DEF Spec

(***************************************************************************)
(* DeliveredInOrder, message by message.                                   *)
(***************************************************************************)
Follows(m, n) ==
  /\ m.sequence # n.sequence
  /\ n.kind \in Outcome => m.sequence < n.sequence

InOrder(past, stream) ==
  \A j \in DOMAIN stream :
    LET before == past \cup Answered(SubSeq(stream, 1, j - 1))
    IN /\ stream[j].sequence \notin before
       /\ stream[j].kind \in Outcome => \A s \in before : s < stream[j].sequence

LEMMA InOrderPointwise ==
  ASSUME NEW past, NEW stream \in Seq(Message)
  PROVE  InOrder(past, stream) <=>
           \A j \in 1 .. Len(stream) :
             /\ \A s \in past : Follows([sequence |-> s], stream[j])
             /\ \A i \in 1 .. j - 1 :
                  stream[i].kind \in Outcome => Follows(stream[i], stream[j])
<1>1. ASSUME NEW j \in 1 .. Len(stream), NEW s
      PROVE  s \in Answered(SubSeq(stream, 1, j - 1)) <=>
               \E i \in 1 .. j - 1 : stream[i].kind \in Outcome
                                       /\ s = stream[i].sequence
  <2> DEFINE q == SubSeq(stream, 1, j - 1)
  <2>1. /\ q \in Seq(Message) /\ Len(q) = j - 1
        /\ \A i \in 1 .. j - 1 : q[i] = stream[i]
    OBVIOUS
  <2> HIDE DEF q
  <2>2. s \in Answered(q) <=>
          \E i \in 1 .. Len(q) : q[i].kind \in Outcome /\ s = q[i].sequence
    BY <2>1, AnsweredMember
  <2>3. s \in Answered(q) <=>
          \E i \in 1 .. j - 1 : stream[i].kind \in Outcome /\ s = stream[i].sequence
    BY <2>1, <2>2
  <2> QED BY <2>3 DEF q
<1>2. DOMAIN stream = 1 .. Len(stream)
  OBVIOUS
<1>3. ASSUME NEW j \in 1 .. Len(stream)
      PROVE  LET before == past \cup Answered(SubSeq(stream, 1, j - 1))
             IN (/\ stream[j].sequence \notin before
                 /\ stream[j].kind \in Outcome =>
                      \A s \in before : s < stream[j].sequence)
                <=>
                (/\ \A s \in past : Follows([sequence |-> s], stream[j])
                 /\ \A i \in 1 .. j - 1 :
                      stream[i].kind \in Outcome => Follows(stream[i], stream[j]))
  <2> DEFINE before == past \cup Answered(SubSeq(stream, 1, j - 1))
  <2>1. ASSUME NEW s
        PROVE  s \in before <=>
                 \/ s \in past
                 \/ \E i \in 1 .. j - 1 : stream[i].kind \in Outcome
                                            /\ s = stream[i].sequence
    BY <1>1
  <2> HIDE DEF before
  <2>2. (/\ stream[j].sequence \notin before
         /\ stream[j].kind \in Outcome =>
              \A s \in before : s < stream[j].sequence)
        <=>
        (/\ \A s \in past : Follows([sequence |-> s], stream[j])
         /\ \A i \in 1 .. j - 1 :
              stream[i].kind \in Outcome => Follows(stream[i], stream[j]))
    BY <2>1, Zenon DEF Follows
  <2> QED BY <2>2 DEF before
<1> QED BY <1>2, <1>3 DEF InOrder

(***************************************************************************)
(* Terminal results reach the caller in the order of submission, one per   *)
(* request, with nothing after them, for every pool and any number of      *)
(* requests.                                                               *)
(***************************************************************************)
THEOREM DeliveredInOrderHolds == Spec => []DeliveredInOrder
<1>1. Init => DeliveredInOrder
  BY DEF Init, DeliveredInOrder
<1>2. TypeOK /\ TypeOK' /\ LineOrdered /\ DeliveredInOrder /\ [Next]_vars => DeliveredInOrder'
  <2> SUFFICES ASSUME TypeOK, TypeOK', LineOrdered, DeliveredInOrder, [Next]_vars
               PROVE  DeliveredInOrder'
    OBVIOUS
  <2>1. delivered \in Seq(Message) /\ delivered' \in Seq(Message) /\ Len(delivered) \in Nat
    BY DEF TypeOK
  <2>2. \A j \in 1 .. Len(delivered) :
          /\ \A s \in drained : Follows([sequence |-> s], delivered[j])
          /\ \A i \in 1 .. j - 1 :
               delivered[i].kind \in Outcome => Follows(delivered[i], delivered[j])
    <3>1. InOrder(drained, delivered)
      BY DEF InOrder, DeliveredInOrder
    <3> QED BY <2>1, <3>1, InOrderPointwise
  <2>3. ASSUME NEW msgs \in Seq(Message),
               delivered' = delivered \o msgs, drained' = drained,
               \A m \in 1 .. Len(msgs) :
                 /\ \A s \in drained \cup Answered(delivered) :
                      Follows([sequence |-> s], msgs[m])
                 /\ \A i \in 1 .. m - 1 :
                      msgs[i].kind \in Outcome => Follows(msgs[i], msgs[m])
        PROVE  DeliveredInOrder'
    <3> DEFINE d == Len(delivered)
    <3>1. /\ Len(delivered') = d + Len(msgs) /\ Len(msgs) \in Nat
          /\ \A i \in 1 .. d : delivered'[i] = delivered[i]
          /\ \A i \in 1 .. Len(msgs) : delivered'[d + i] = msgs[i]
      BY <2>1, <2>3
    <3> HIDE DEF d
    <3>2. d \in Nat /\ d = Len(delivered)
      BY <2>1, Zenon DEF d
    <3>3. ASSUME NEW j \in 1 .. Len(delivered')
          PROVE  /\ \A s \in drained' : Follows([sequence |-> s], delivered'[j])
                 /\ \A i \in 1 .. j - 1 :
                      delivered'[i].kind \in Outcome => Follows(delivered'[i], delivered'[j])
      <4>1. CASE j <= d
        <5>1. j \in 1 .. d /\ \A i \in 1 .. j - 1 : i \in 1 .. d
          BY <3>2, <4>1
        <5> QED BY <2>2, <2>3, <3>1, <3>2, <5>1, Zenon
      <4>2. CASE j > d
        <5> DEFINE m == j - d
        <5>1. m \in 1 .. Len(msgs) /\ delivered'[j] = msgs[m]
          <6>1. m \in 1 .. Len(msgs) /\ d + m = j
            BY <3>1, <3>2, <4>2
          <6> QED BY <3>1, <6>1, Zenon
        <5>2. ASSUME NEW i \in 1 .. j - 1, delivered'[i].kind \in Outcome
              PROVE  Follows(delivered'[i], delivered'[j])
          <6>1. CASE i <= d
            <7>1. i \in 1 .. d /\ delivered'[i] = delivered[i]
              BY <3>1, <3>2, <6>1
            <7>2. delivered[i].sequence \in Answered(delivered)
              BY <2>1, <3>2, <5>2, <7>1, AnsweredMember, Zenon
            <7>3. Follows([sequence |-> delivered[i].sequence], msgs[m])
              BY <2>3, <5>1, <7>2, Zenon
            <7> QED BY <5>1, <7>1, <7>3, Zenon DEF Follows
          <6>2. CASE i > d
            <7>1. i - d \in 1 .. m - 1 /\ i - d \in 1 .. Len(msgs) /\ d + (i - d) = i
              BY <3>1, <3>2, <5>1, <6>2
            <7>2. delivered'[i] = msgs[i - d]
              BY <3>1, <7>1, Zenon
            <7> QED BY <2>3, <5>1, <5>2, <7>1, <7>2, Zenon
          <6> QED BY <3>2, <6>1, <6>2
        <5> QED BY <2>3, <5>1, <5>2, Zenon
      <4> QED BY <3>1, <3>2, <4>1, <4>2
    <3>4. InOrder(drained', delivered')
      BY <2>1, <3>3, InOrderPointwise
    <3> QED BY <3>4, Zenon DEF InOrder, DeliveredInOrder
  <2>4. ASSUME NEW s \in Sequence, Submit(s)
        PROVE  DeliveredInOrder'
    <3>1. InOrder(drained, delivered)
      BY DEF InOrder, DeliveredInOrder
    <3>2. InOrder(drained', delivered')
      BY <2>4, <3>1, Zenon DEF Submit
    <3> QED BY <3>2 DEF InOrder, DeliveredInOrder
  <2>5. ASSUME NEW s \in Sequence, WorkerProgress(s)
        PROVE  DeliveredInOrder'
    <3> DEFINE p == [kind |-> "Progress", sequence |-> s]
    <3>1. p \in Message /\ p.sequence = s /\ p.kind \notin Outcome
      BY DEF Message, Outcome
    <3>2. PICK n \in 1 .. Len(submission_order) : s = submission_order[n]
      BY <2>5 DEF WorkerProgress, Contains, Elements, TypeOK
    <3>3. \A a \in drained \cup Answered(delivered) : a < s
      BY <3>2 DEF LineOrdered
    <3>4. \A a \in drained \cup Answered(delivered) : a \in Nat /\ s \in Nat
      BY <2>1, AnsweredType DEF TypeOK, Sequence
    <3>5. \A a \in drained \cup Answered(delivered) : Follows([sequence |-> a], p)
      BY <3>1, <3>3, <3>4 DEF Follows
    <3>6. /\ <<p>> \in Seq(Message) /\ Len(<<p>>) = 1 /\ <<p>>[1] = p
          /\ delivered' = delivered \o <<p>> /\ drained' = drained
      BY <2>1, <2>5, <3>1, AppendIsConcat DEF WorkerProgress
    <3> HIDE DEF p
    <3>7. ASSUME NEW m \in 1 .. Len(<<p>>)
          PROVE  m = 1 /\ <<p>>[m] = p /\ \A i \in 1 .. m - 1 : FALSE
      BY <3>6
    <3> QED BY <2>3, <3>5, <3>6, <3>7, Zenon
  <2>6. CASE DrainMessages
    BY <2>6 DEF DrainMessages, DeliveredInOrder
  <2>7. ASSUME NEW k \in 0 .. Len(submission_order), Releases(k)
        PROVE  DeliveredInOrder'
    <3>1. PICK msgs \in Seq(Message) :
            /\ Len(msgs) = k
            /\ \A i \in 1 .. k : /\ msgs[i].kind \in Outcome
                                 /\ msgs[i].sequence = submission_order[i]
            /\ delivered' = delivered \o msgs
      BY <2>7, Zenon DEF Releases
    <3>2. drained' = drained
      BY <2>7 DEF Releases
    <3>3. \A i \in 1 .. k : i \in 1 .. Len(submission_order) /\ submission_order[i] \in Nat
      <4>1. submission_order \in Seq(Sequence) /\ Sequence \subseteq Nat
        BY DEF TypeOK, Sequence
      <4>2. \A i \in 1 .. k : i \in 1 .. Len(submission_order)
        BY <4>1
      <4>3. \A i \in 1 .. Len(submission_order) : submission_order[i] \in Sequence
        BY <4>1
      <4> QED BY <4>1, <4>2, <4>3, Zenon
    <3>4. \A a \in drained \cup Answered(delivered) : a \in Nat
      BY <2>1, AnsweredType DEF TypeOK, Sequence
    <3>5. ASSUME NEW m \in 1 .. k
          PROVE  /\ \A s \in drained \cup Answered(delivered) :
                      Follows([sequence |-> s], msgs[m])
                 /\ \A i \in 1 .. m - 1 :
                      msgs[i].kind \in Outcome => Follows(msgs[i], msgs[m])
      <4>1. \A s \in drained \cup Answered(delivered) : s < submission_order[m]
        BY <3>3 DEF LineOrdered
      <4>2. \A i \in 1 .. m - 1 : i \in 1 .. k /\ submission_order[i] < submission_order[m]
        <5>1. \A i \in 1 .. m - 1 : i \in 1 .. k /\ i < m
          OBVIOUS
        <5> QED BY <3>3, <5>1 DEF LineOrdered
      <4> QED BY <3>1, <3>3, <3>4, <4>1, <4>2 DEF Follows
    <3> QED BY <2>3, <3>1, <3>2, <3>5, Zenon
  <2> QED BY <2>4, <2>5, <2>6, <2>7, StepShape, Zenon
<1>3. Spec => []TypeOK /\ []LineOrdered
  BY TypeCorrect, LineOrderedHolds, PTL
<1> QED BY <1>1, <1>2, <1>3, PTL DEF Spec

-----------------------------------------------------------------------------
(* Where the accepted requests are.                                        *)

(***************************************************************************)
(* dispatch_ready_workers hands out a prefix of the queue: the workers     *)
(* that take a request hold the ranks 1 .. m, each one once.               *)
(***************************************************************************)
LEMMA TakersTakePrefix ==
  ASSUME NEW free \in SUBSET Worker, NEW pend \in Seq(Sequence)
  PROVE  LET T == Takers(free, pend)
             m == Cardinality(T)
         IN /\ m \in Nat /\ m <= Len(pend)
            /\ \A w \in T : Rank(free, w) \in 1 .. m
            /\ \A v, w \in T : Rank(free, v) = Rank(free, w) => v = w
            /\ \A k \in 1 .. m : \E w \in T : Rank(free, w) = k
<1> DEFINE T == Takers(free, pend)
           m == Cardinality(T)
           Below(w) == {v \in free : v <= w}
           f == [w \in T |-> Rank(free, w)]
<1>1. IsFiniteSet(Worker) /\ Worker \subseteq Nat /\ Len(pend) \in Nat
  BY QueueAssumption, FS_Interval DEF Worker
<1>2. T \subseteq free /\ \A w \in free : w \in T <=> Rank(free, w) <= Len(pend)
  BY DEF Takers
<1>3. IsFiniteSet(free) /\ IsFiniteSet(T) /\ m \in Nat
  <2> HIDE DEF T
  <2> QED BY <1>1, <1>2, FS_Subset, FS_CardinalityType, Zenon
<1>4. \A w \in free : IsFiniteSet(Below(w)) /\ Rank(free, w) = Cardinality(Below(w))
  BY <1>3, FS_Subset DEF Rank
<1>5. ASSUME NEW v \in free, NEW w \in free, v <= w
      PROVE  /\ Rank(free, v) <= Rank(free, w)
             /\ Rank(free, v) = Rank(free, w) => v = w
  <2>1. Below(v) \in SUBSET Below(w)
    <3>1. ASSUME NEW u \in Below(v)
          PROVE  u \in Below(w)
      <4>1. u \in free /\ u <= v /\ u \in Nat /\ v \in Nat /\ w \in Nat
        BY <1>1
      <4> QED BY <1>5, <4>1
    <3> QED BY <3>1
  <2>2. Below(v) = Below(w) => v = w
    <3>1. w \in Below(w) /\ v \in Nat /\ w \in Nat
      BY <1>1
    <3> QED BY <1>5, <3>1
  <2> HIDE DEF Below
  <2> QED BY <1>4, <2>1, <2>2, FS_Subset
<1>6. \A w \in free : Rank(free, w) \in Nat \ {0}
  BY RankIsPosition
<1>7. ASSUME NEW w \in T
      PROVE  Rank(free, w) \in 1 .. m
  <2>1. ASSUME NEW v \in Below(w)
        PROVE  v \in T
    <3>1. v \in free /\ v <= w /\ w \in free
      BY <1>2
    <3>2. Rank(free, v) <= Rank(free, w) /\ Rank(free, w) <= Len(pend)
      BY <1>2, <1>5, <3>1
    <3> QED BY <1>1, <1>2, <1>6, <3>1, <3>2
  <2>2. Below(w) \in SUBSET T
    BY <2>1
  <2>3. Cardinality(Below(w)) <= m
    <3> HIDE DEF Below, T
    <3> QED BY <1>3, <2>2, FS_Subset
  <2>4. w \in free
    BY <1>2
  <2> HIDE DEF Below, T
  <2> QED BY <1>3, <1>4, <1>6, <2>3, <2>4
<1>8. ASSUME NEW v \in T, NEW w \in T, Rank(free, v) = Rank(free, w)
      PROVE  v = w
  <2>1. v \in free /\ w \in free /\ v \in Nat /\ w \in Nat
    BY <1>1, <1>2, Zenon
  <2>2. v <= w \/ w <= v
    BY <2>1
  <2> QED BY <1>5, <1>8, <2>1, <2>2
<1>9. f \in Injection(T, 1 .. m)
  <2> HIDE DEF T, m
  <2> QED BY <1>7, <1>8 DEF Injection, IsInjective
<1>10. IsFiniteSet(1 .. m) /\ Cardinality(1 .. m) = m
  <2> HIDE DEF m
  <2>1. 1 \in Int /\ m \in Int
    BY <1>3
  <2>2. IsFiniteSet(1 .. m) /\ Cardinality(1 .. m) = IF 1 > m THEN 0 ELSE m - 1 + 1
    BY <2>1, FS_Interval
  <2> QED BY <1>3, <2>2
<1>11. f \in Surjection(T, 1 .. m)
  <2> HIDE DEF f, T
  <2> QED BY <1>9, <1>10, FS_Injection
<1>12. ASSUME NEW k \in 1 .. m
       PROVE  \E w \in T : Rank(free, w) = k
  <2>1. PICK w \in T : f[w] = k
    <3> HIDE DEF f, T, m
    <3> QED BY <1>11 DEF Surjection
  <2> QED BY <2>1
<1>13. m <= Len(pend)
  <2>1. CASE m = 0
    BY <1>1, <2>1
  <2>2. CASE m # 0
    <3>1. m \in 1 .. m
      <4> HIDE DEF m
      <4> QED BY <1>3, <2>2
    <3>2. PICK w \in T : Rank(free, w) = m
      BY <1>12, <3>1
    <3> QED BY <1>2, <3>2
  <2> QED BY <2>1, <2>2
<1> HIDE DEF T, m
<1>14. /\ m \in Nat /\ m <= Len(pend)
       /\ \A w \in T : Rank(free, w) \in 1 .. m
       /\ \A v, w \in T : Rank(free, v) = Rank(free, w) => v = w
       /\ \A k \in 1 .. m : \E w \in T : Rank(free, w) = k
  BY <1>3, <1>7, <1>8, <1>12, <1>13, Zenon
<1> QED BY <1>14 DEF T, m

(***************************************************************************)
(* The inductive invariant: a queued request is queued once, has no result *)
(* and no worker, no two workers have the same request, and a request in   *)
(* line is queued, with a worker or has its result.  NoRequestLost is not  *)
(* inductive without it: a request queued twice would be run twice, a      *)
(* cancelled one whose result is not recorded would be lost when its       *)
(* worker completes, and a worker with a request that is newer than the    *)
(* last one submitted would share the next one.                            *)
(***************************************************************************)
Placed(order, run, pend, term) ==
  /\ \A i, j \in DOMAIN pend : pend[i] = pend[j] => i = j
  /\ \A s \in Elements(pend) :
       s \in Elements(order) /\ term[s] = "none" /\ \A w \in Worker : run[w] # s
  /\ \A v, w \in Worker : run[v] = run[w] /\ run[v] # None => v = w
  /\ \A s \in Elements(order) :
       s \in Elements(pend) \/ (\E w \in Worker : run[w] = s) \/ term[s] # "none"
  /\ \A s \in Sequence : term[s] # "none" => s \in Elements(order)

PlacedInv ==
  /\ Placed(submission_order, running, pending, terminal)
  /\ \A w \in Worker : running[w] <= last_submitted_sequence
  /\ \A s \in cancelled : terminal[s] # "none"

LEMMA ElementsType ==
  ASSUME NEW q \in Seq(Sequence)
  PROVE  Elements(q) \subseteq Sequence
<1>1. \A i \in DOMAIN q : q[i] \in Sequence
  OBVIOUS
<1> QED BY <1>1 DEF Elements

(***************************************************************************)
(* dispatch_ready_workers keeps every request where it is or gives it to a *)
(* worker that had none.                                                   *)
(***************************************************************************)
LEMMA DispatchPlaces ==
  ASSUME NEW free \in SUBSET Worker,
         NEW run \in [Worker -> Sequence \cup {None}],
         NEW pend \in Seq(Sequence), NEW order \in Seq(Sequence), NEW term,
         \A w \in free : run[w] = None,
         Placed(order, run, pend, term)
  PROVE  /\ Placed(order, Assigned(free, run, pend), Unassigned(free, pend), term)
         /\ \A w \in Worker : Assigned(free, run, pend)[w] \in {run[w]} \cup Elements(pend)
<1> DEFINE T == Takers(free, pend)
           m == Cardinality(T)
           given == Assigned(free, run, pend)
           rest == Unassigned(free, pend)
<1>1. /\ m \in Nat /\ m <= Len(pend)
      /\ \A w \in T : Rank(free, w) \in 1 .. m
      /\ \A v, w \in T : Rank(free, v) = Rank(free, w) => v = w
      /\ \A k \in 1 .. m : \E w \in T : Rank(free, w) = k
  BY TakersTakePrefix
<1>2. T \subseteq free /\ Len(pend) \in Nat /\ DOMAIN pend = 1 .. Len(pend)
  BY DEF Takers
<1>3. /\ \A w \in T : given[w] = pend[Rank(free, w)]
      /\ \A w \in Worker \ T : given[w] = run[w]
  BY <1>2 DEF Assigned
<1>4. rest = SubSeq(pend, m + 1, Len(pend))
  BY DEF Unassigned
<1> HIDE DEF T, m, given, rest
<1>5. /\ rest \in Seq(Sequence) /\ Len(rest) = Len(pend) - m
      /\ \A i \in 1 .. Len(rest) : rest[i] = pend[m + i]
  BY <1>1, <1>4
<1>6. /\ DOMAIN rest = 1 .. Len(rest)
      /\ \A i \in 1 .. Len(rest) : m + i \in DOMAIN pend /\ m + i > m
  BY <1>1, <1>2, <1>5
<1>7. \A w \in T : Rank(free, w) \in DOMAIN pend /\ given[w] \in Sequence
  BY <1>1, <1>2, <1>3
<1>8. \A i, j \in DOMAIN pend : pend[i] = pend[j] => i = j
  BY DEF Placed
<1>9. \A s \in Elements(pend) :
        s \in Elements(order) /\ term[s] = "none" /\ \A w \in Worker : run[w] # s
  BY Zenon DEF Placed
<1>10. \A w \in T : given[w] \in Elements(pend)
  BY <1>3, <1>7 DEF Elements
<1>11. \A i, j \in DOMAIN rest : rest[i] = rest[j] => i = j
  <2>1. ASSUME NEW i \in DOMAIN rest, NEW j \in DOMAIN rest, rest[i] = rest[j]
        PROVE  i = j
    <3>1. m + i = m + j
      BY <1>5, <1>6, <1>8, <2>1, Zenon
    <3> QED BY <1>1, <1>5, <1>6, <3>1
  <2> QED BY <2>1, Zenon
<1>12. ASSUME NEW s \in Elements(rest)
       PROVE  s \in Elements(order) /\ term[s] = "none" /\ \A w \in Worker : given[w] # s
  <2>1. PICK i \in 1 .. Len(rest) : s = pend[m + i]
    BY <1>5, <1>6, Zenon DEF Elements
  <2>2. s \in Elements(pend)
    BY <1>6, <2>1, Zenon DEF Elements
  <2>3. ASSUME NEW w \in T, given[w] = s
        PROVE  FALSE
    <3>1. Rank(free, w) = m + i
      BY <1>3, <1>6, <1>7, <1>8, <2>1, <2>3, Zenon
    <3> QED BY <1>1, <1>6, <3>1
  <2> QED BY <1>3, <1>9, <2>2, <2>3, Zenon
<1>13. ASSUME NEW v \in Worker, NEW w \in Worker, given[v] = given[w], given[v] # None
       PROVE  v = w
  <2>1. CASE v \in T /\ w \in T
    <3>1. Rank(free, v) = Rank(free, w)
      BY <1>3, <1>7, <1>8, <1>13, <2>1, Zenon
    <3> QED BY <1>1, <2>1, <3>1, Zenon
  <2>2. CASE v \in T /\ w \notin T
    BY <1>3, <1>9, <1>10, <1>13, <2>2, Zenon
  <2>3. CASE v \notin T /\ w \in T
    BY <1>3, <1>9, <1>10, <1>13, <2>3, Zenon
  <2>4. CASE v \notin T /\ w \notin T
    BY <1>3, <1>13, <2>4, Zenon DEF Placed
  <2> QED BY <2>1, <2>2, <2>3, <2>4, Zenon
<1>14. ASSUME NEW s \in Elements(order)
       PROVE  s \in Elements(rest) \/ (\E w \in Worker : given[w] = s) \/ term[s] # "none"
  <2>1. CASE s \in Elements(pend)
    <3>1. PICK i \in 1 .. Len(pend) : s = pend[i]
      BY <1>2, <2>1, Zenon DEF Elements
    <3>2. CASE i <= m
      <4>1. i \in 1 .. m
        BY <1>1, <3>2
      <4>2. PICK w \in T : Rank(free, w) = i
        BY <1>1, <4>1, Zenon
      <4> QED BY <1>2, <1>3, <3>1, <4>2, Zenon
    <3>3. CASE i > m
      <4>1. i - m \in 1 .. Len(rest) /\ m + (i - m) = i
        BY <1>1, <1>5, <3>3
      <4> QED BY <1>5, <1>6, <3>1, <4>1, Zenon DEF Elements
    <3> QED BY <1>1, <3>2, <3>3
  <2>2. s # None
    BY ElementsType DEF Sequence, None
  <2>3. CASE s \notin Elements(pend) /\ term[s] = "none"
    <3>1. PICK w \in Worker : run[w] = s
      BY <2>3 DEF Placed
    <3>2. w \notin T
      BY <1>2, <2>2, <3>1, Zenon
    <3> QED BY <1>3, <3>1, <3>2, Zenon
  <2> QED BY <2>1, <2>3, Zenon
<1>15. \A s \in Sequence : term[s] # "none" => s \in Elements(order)
  BY DEF Placed
<1>16. Placed(order, given, rest, term)
  BY <1>11, <1>12, <1>13, <1>14, <1>15, Zenon DEF Placed
<1> QED BY <1>2, <1>3, <1>10, <1>16, Zenon DEF given, rest

(***************************************************************************)
(* release_ordered takes the requests it answers out of the line, and only *)
(* those, so the others stay where they are; what was recorded stays       *)
(* recorded or is delivered.                                               *)
(***************************************************************************)
LEMMA ReleasePlaces ==
  ASSUME TypeOK, LineOrdered,
         NEW term \in [Sequence -> Outcome \cup {"none"}], NEW canc \in SUBSET Sequence,
         NEW run, NEW pend \in Seq(Sequence),
         ReleaseOrdered(submission_order, term, canc),
         Placed(submission_order, run, pend, term),
         \A s \in canc : term[s] # "none"
  PROVE  /\ Placed(submission_order', run, pend, terminal')
         /\ \A s \in cancelled' : terminal'[s] # "none"
<1> DEFINE order == submission_order
           k == Releasable(order, term)
           gone == {order[i] : i \in 1 .. k}
<1>1. /\ order \in Seq(Sequence) /\ Len(order) \in Nat /\ DOMAIN order = 1 .. Len(order)
      /\ \A i, j \in 1 .. Len(order) : i < j => order[i] < order[j]
  BY DEF TypeOK, LineOrdered
<1>2. k \in 0 .. Len(order) /\ \A i \in 1 .. k : term[order[i]] # "none"
  BY <1>1, ReleasablePrefix, Zenon
<1>3. /\ order' = SubSeq(order, k + 1, Len(order))
      /\ terminal' = [s \in Sequence |-> IF s \in gone THEN "none" ELSE term[s]]
      /\ cancelled' = canc \ gone
  BY DEF ReleaseOrdered
<1> HIDE DEF k
<1>4. /\ \A s \in gone : term[s] # "none" /\ s \in Elements(order)
      /\ \A s \in Sequence \ gone : terminal'[s] = term[s]
      /\ \A s \in Sequence : terminal'[s] # "none" => s \notin gone
  <2>1. \A i \in 1 .. k : i \in DOMAIN order
    BY <1>1, <1>2
  <2>2. \A s \in gone : term[s] # "none" /\ s \in Elements(order)
    BY <1>2, <2>1, Zenon DEF Elements
  <2> HIDE DEF gone
  <2> QED BY <1>3, <2>2
<1>5. \A s : s \in Elements(order') <=> s \in Elements(order) /\ s \notin gone
  <2>1. /\ Len(order') = Len(order) - k /\ DOMAIN order' = 1 .. Len(order')
        /\ \A i \in 1 .. Len(order') : order'[i] = order[k + i]
    <3> HIDE DEF gone
    <3>1. order' = SubSeq(order, k + 1, Len(order)) /\ k \in 0 .. Len(order)
      BY <1>2, <1>3
    <3>2. order \in Seq(Sequence) /\ Len(order) \in Nat
      BY <1>1
    <3>3. order' \in Seq(Sequence)
      BY <3>1, <3>2
    <3>4. Len(order') = Len(order) - k /\ \A i \in 1 .. Len(order') : order'[i] = order[k + i]
      BY <3>1, <3>2
    <3> QED BY <3>3, <3>4
  <2>2. ASSUME NEW i \in 1 .. Len(order')
        PROVE  order'[i] \in Elements(order) /\ order'[i] \notin gone
    <3>1. k + i \in DOMAIN order /\ order'[i] = order[k + i]
      BY <1>1, <1>2, <2>1
    <3>2. ASSUME NEW j \in 1 .. k
          PROVE  order[j] # order[k + i]
      <4>1. j \in 1 .. Len(order) /\ k + i \in 1 .. Len(order) /\ j < k + i
        BY <1>1, <1>2, <3>1
      <4>2. order[j] \in Sequence /\ order[k + i] \in Sequence /\ order[j] < order[k + i]
        BY <1>1, <4>1
      <4>3. order[j] \in Nat /\ order[k + i] \in Nat
        BY <4>2 DEF Sequence
      <4> QED BY <4>2, <4>3
    <3> QED BY <3>1, <3>2 DEF Elements
  <2>3. ASSUME NEW i \in DOMAIN order, order[i] \notin gone
        PROVE  order[i] \in Elements(order')
    <3>1. i > k
      BY <1>1, <1>2, <2>3
    <3>2. i - k \in 1 .. Len(order') /\ k + (i - k) = i
      BY <1>1, <1>2, <2>1, <3>1
    <3> QED BY <2>1, <3>2, Zenon DEF Elements
  <2> HIDE DEF gone
  <2> QED BY <2>1, <2>2, <2>3, Zenon DEF Elements
<1> HIDE DEF gone
<1>6. Elements(pend) \subseteq Sequence /\ Elements(order) \subseteq Sequence
  BY <1>1, ElementsType, Zenon
<1>7. /\ \A s \in Elements(pend) : s \in Elements(order) /\ term[s] = "none" /\ \A w \in Worker : run[w] # s
      /\ \A s \in Elements(order) :
           s \in Elements(pend) \/ (\E w \in Worker : run[w] = s) \/ term[s] # "none"
      /\ \A s \in Sequence : term[s] # "none" => s \in Elements(order)
  BY Zenon DEF Placed
<1>8. \A s \in Elements(pend) :
        s \in Elements(order') /\ terminal'[s] = "none" /\ \A w \in Worker : run[w] # s
  BY <1>4, <1>5, <1>6, <1>7, Zenon
<1>9. \A s \in Elements(order') :
        s \in Elements(pend) \/ (\E w \in Worker : run[w] = s) \/ terminal'[s] # "none"
  BY <1>4, <1>5, <1>6, <1>7, Zenon
<1>10. \A s \in Sequence : terminal'[s] # "none" => s \in Elements(order')
  BY <1>4, <1>5, <1>7, Zenon
<1>11. \A s \in cancelled' : terminal'[s] # "none"
  BY <1>3, <1>4, Zenon
<1>12. /\ \A i, j \in DOMAIN pend : pend[i] = pend[j] => i = j
       /\ \A v, w \in Worker : run[v] = run[w] /\ run[v] # None => v = w
  BY Zenon DEF Placed
<1> QED BY <1>8, <1>9, <1>10, <1>11, <1>12, Zenon DEF Placed

(***************************************************************************)
(* What release_ordered does to the recorded results: each one stays or is *)
(* delivered.                                                              *)
(***************************************************************************)
LEMMA ReleaseDelivers ==
  ASSUME TypeOK,
         NEW term \in [Sequence -> Outcome \cup {"none"}], NEW canc,
         ReleaseOrdered(submission_order, term, canc),
         NEW s \in Sequence, terminal'[s] # term[s]
  PROVE  \E i \in DOMAIN delivered' : delivered'[i] = [kind |-> term[s], sequence |-> s]
<1> DEFINE order == submission_order
           k == Releasable(order, term)
           msgs == [i \in 1 .. k |-> [kind |-> term[order[i]], sequence |-> order[i]]]
<1>1. order \in Seq(Sequence) /\ Len(order) \in Nat /\ delivered \in Seq(Message)
  BY DEF TypeOK
<1>2. k \in 0 .. Len(order) /\ \A i \in 1 .. k : term[order[i]] # "none"
  BY <1>1, ReleasablePrefix, Zenon
<1>3. /\ terminal' = [t \in Sequence |-> IF t \in {order[i] : i \in 1 .. k} THEN "none" ELSE term[t]]
      /\ delivered' = delivered \o msgs
  BY Zenon DEF ReleaseOrdered
<1> HIDE DEF k
<1>4. PICK j \in 1 .. k : s = order[j]
  BY <1>3, Zenon
<1>5. msgs \in Seq(Message) /\ Len(msgs) = k /\ msgs[j] = [kind |-> term[s], sequence |-> s]
  <2>1. ASSUME NEW i \in 1 .. k
        PROVE  [kind |-> term[order[i]], sequence |-> order[i]] \in Message
    <3>1. order[i] \in Sequence /\ term[order[i]] # "none"
      BY <1>1, <1>2
    <3>2. term[order[i]] \in Outcome
      BY <3>1, Zenon
    <3> QED BY <3>1, <3>2, Zenon DEF Message
  <2> QED BY <1>2, <1>4, <2>1, IsASeq
<1> HIDE DEF msgs
<1>6. /\ Len(delivered) + j \in DOMAIN delivered'
      /\ delivered'[Len(delivered) + j] = msgs[j]
  BY <1>1, <1>2, <1>3, <1>5
<1> QED BY <1>5, <1>6, Zenon

(***************************************************************************)
(* A call that records results, releases and dispatches.                   *)
(***************************************************************************)
LEMMA PlacedByCall ==
  ASSUME TypeOK, LineOrdered,
         NEW term \in [Sequence -> Outcome \cup {"none"}], NEW canc \in SUBSET Sequence,
         NEW run \in [Worker -> Sequence \cup {None}], NEW pend \in Seq(Sequence),
         NEW rdy, NEW fld,
         Placed(submission_order, run, pend, term),
         \A w \in Worker : run[w] <= last_submitted_sequence,
         \A s \in canc : term[s] # "none",
         ReleaseOrdered(submission_order, term, canc),
         DispatchReadyWorkers(rdy, fld, run, pend),
         last_submitted_sequence' = last_submitted_sequence
  PROVE  PlacedInv'
<1> DEFINE free == Dispatchable(rdy, fld, run)
<1>1. /\ Placed(submission_order', run, pend, terminal')
      /\ \A s \in cancelled' : terminal'[s] # "none"
  BY ReleasePlaces
<1>2. submission_order' \in Seq(Sequence)
  BY ReleaseType, Zenon
<1>3. free \in SUBSET Worker /\ \A w \in free : run[w] = None
  BY DEF Dispatchable
<1>4. running' = Assigned(free, run, pend) /\ pending' = Unassigned(free, pend)
  BY Zenon DEF DispatchReadyWorkers
<1> HIDE DEF free
<1>5. /\ Placed(submission_order', running', pending', terminal')
      /\ \A w \in Worker : running'[w] \in {run[w]} \cup Elements(pend)
  BY <1>1, <1>2, <1>3, <1>4, DispatchPlaces, Zenon
<1>6. \A s \in Elements(pend) : s <= last_submitted_sequence
  <2>1. Elements(pend) \subseteq Elements(submission_order)
    BY DEF Placed
  <2>2. \A i \in DOMAIN submission_order : submission_order[i] <= last_submitted_sequence
    BY DEF LineOrdered, TypeOK
  <2> QED BY <2>1, <2>2 DEF Elements
<1> QED BY <1>1, <1>5, <1>6, Zenon DEF PlacedInv

(***************************************************************************)
(* What is known of the state before a step.                               *)
(***************************************************************************)
LEMMA PlacedNow ==
  ASSUME TypeOK, LineOrdered, PlacedInv
  PROVE  /\ Elements(pending) \subseteq Elements(submission_order)
         /\ Elements(submission_order) \subseteq Sequence
         /\ \A s \in Elements(submission_order) : s <= last_submitted_sequence
         /\ \A s \in Elements(pending) : terminal[s] = "none" /\ \A w \in Worker : running[w] # s
         /\ \A s \in Sequence : terminal[s] # "none" => Contains(s)
<1>1. \A i \in DOMAIN submission_order : submission_order[i] <= last_submitted_sequence
  BY DEF LineOrdered, TypeOK
<1>2. submission_order \in Seq(Sequence)
  BY DEF TypeOK
<1>3. \A s \in Elements(submission_order) : s <= last_submitted_sequence
  BY <1>1 DEF Elements
<1>4. Elements(submission_order) \subseteq Sequence
  BY <1>2, ElementsType, Zenon
<1> QED BY <1>3, <1>4, Zenon DEF PlacedInv, Placed, Contains

(***************************************************************************)
(* A worker that is done with its request, whatever the outcome.           *)
(***************************************************************************)
Done(w, outcome) ==
  IF running[w] # None /\ running[w] \notin cancelled
    THEN RecordTerminal(running[w], outcome)
    ELSE terminal

LEMMA DonePlaces ==
  ASSUME TypeOK, LineOrdered, PlacedInv, NEW w \in Worker, NEW outcome \in Outcome
  PROVE  LET run == [running EXCEPT ![w] = None]
         IN /\ Done(w, outcome) \in [Sequence -> Outcome \cup {"none"}]
            /\ run \in [Worker -> Sequence \cup {None}]
            /\ Placed(submission_order, run, pending, Done(w, outcome))
            /\ \A v \in Worker : run[v] <= last_submitted_sequence
            /\ \A s \in Sequence : terminal[s] # "none" => Done(w, outcome)[s] = terminal[s]
<1> DEFINE run == [running EXCEPT ![w] = None]
           done == Done(w, outcome)
<1>1. terminal \in [Sequence -> Outcome \cup {"none"}] /\ running \in [Worker -> Sequence \cup {None}]
  BY DEF TypeOK
<1>2. done \in [Sequence -> Outcome \cup {"none"}]
  BY <1>1, RecordType DEF Done
<1>3. /\ run \in [Worker -> Sequence \cup {None}]
      /\ run[w] = None /\ \A v \in Worker \ {w} : run[v] = running[v]
  BY <1>1, Zenon
<1>4. /\ \A s \in Sequence : s # running[w] => done[s] = terminal[s]
      /\ \A s \in Sequence : terminal[s] # "none" => done[s] = terminal[s]
      /\ \A s \in Sequence : done[s] # "none" => terminal[s] # "none" \/ Contains(s)
  BY <1>1, Zenon DEF Done, RecordTerminal
<1>5. ASSUME Contains(running[w])
      PROVE  done[running[w]] # "none"
  <2>1. running[w] \in Sequence /\ running[w] # None
    <3>1. running[w] \in Sequence
      BY <1>5, PlacedNow, Zenon DEF Contains
    <3> QED BY <3>1 DEF Sequence, None
  <2>2. CASE running[w] \in cancelled
    BY <1>4, <2>1, <2>2, Zenon DEF PlacedInv
  <2>3. CASE running[w] \notin cancelled
    <3>1. outcome # "none"
      BY DEF Outcome
    <3> QED BY <1>1, <1>5, <2>1, <2>3, <3>1, Zenon DEF Done, RecordTerminal
  <2> QED BY <2>2, <2>3
<1> HIDE DEF run, done
<1>6. \A s \in Elements(pending) :
        s \in Elements(submission_order) /\ done[s] = "none" /\ \A v \in Worker : run[v] # s
  <2>1. ASSUME NEW s \in Elements(pending)
        PROVE  s \in Elements(submission_order) /\ done[s] = "none" /\ \A v \in Worker : run[v] # s
    <3>1. /\ s \in Sequence /\ s \in Elements(submission_order) /\ terminal[s] = "none"
          /\ \A v \in Worker : running[v] # s
      BY PlacedNow
    <3>2. s # None
      BY <3>1 DEF Sequence, None
    <3> QED BY <1>3, <1>4, <3>1, <3>2, Zenon
  <2> QED BY <2>1, Zenon
<1>7. \A u, v \in Worker : run[u] = run[v] /\ run[u] # None => u = v
  BY <1>3, Zenon DEF PlacedInv, Placed
<1>8. \A s \in Elements(submission_order) :
        s \in Elements(pending) \/ (\E v \in Worker : run[v] = s) \/ done[s] # "none"
  <2>1. ASSUME NEW s \in Elements(submission_order), s \notin Elements(pending), done[s] = "none"
        PROVE  \E v \in Worker : run[v] = s
    <3>1. s \in Sequence /\ Contains(s)
      BY PlacedNow, Zenon DEF Contains
    <3>2. terminal[s] = "none"
      BY <1>4, <2>1, <3>1, Zenon
    <3>3. PICK v \in Worker : running[v] = s
      BY <2>1, <3>2, Zenon DEF PlacedInv, Placed
    <3>4. v # w
      BY <1>5, <2>1, <3>1, <3>3, Zenon
    <3> QED BY <1>3, <3>3, <3>4, Zenon
  <2> QED BY <2>1
<1>9. \A s \in Sequence : done[s] # "none" => s \in Elements(submission_order)
  BY <1>4, PlacedNow, Zenon DEF Contains
<1>10. \A i, j \in DOMAIN pending : pending[i] = pending[j] => i = j
  BY DEF PlacedInv, Placed
<1>11. Placed(submission_order, run, pending, done)
  BY <1>6, <1>7, <1>8, <1>9, <1>10, Zenon DEF Placed
<1>12. \A v \in Worker : run[v] <= last_submitted_sequence
  <2>1. None <= last_submitted_sequence
    BY DEF TypeOK, None, Sequence
  <2> QED BY <1>3, <2>1 DEF PlacedInv
<1> QED BY <1>2, <1>3, <1>4, <1>11, <1>12, Zenon DEF run, done

(***************************************************************************)
(* worker_failed: the worker's request is done, and the queue is given up  *)
(* with the last worker.                                                   *)
(***************************************************************************)
Lost(w) == IF Orphaned([failed EXCEPT ![w] = TRUE]) THEN Elements(pending) ELSE {}

LEMMA FailedPlaces ==
  ASSUME TypeOK, LineOrdered, PlacedInv, NEW w \in Worker, WorkerFailed(w)
  PROVE  /\ PlacedInv'
         /\ \E term \in [Sequence -> Outcome \cup {"none"}] :
              /\ ReleaseOrdered(submission_order, term, cancelled)
              /\ \A s \in Sequence : terminal[s] # "none" => term[s] = terminal[s]
<1> DEFINE rdy == [ready EXCEPT ![w] = FALSE]
           fld == [failed EXCEPT ![w] = TRUE]
           run == [running EXCEPT ![w] = None]
           done == Done(w, "Failed")
           lost == Lost(w)
           term == [s \in Sequence |-> IF s \in lost THEN "Unavailable" ELSE done[s]]
           pend == IF Orphaned(fld) THEN << >> ELSE pending
<1>1. /\ ReleaseOrdered(submission_order, term, cancelled)
      /\ DispatchReadyWorkers(rdy, fld, run, pend)
      /\ last_submitted_sequence' = last_submitted_sequence
  BY DEF WorkerFailed, Done, Lost
<1>2. /\ done \in [Sequence -> Outcome \cup {"none"}]
      /\ run \in [Worker -> Sequence \cup {None}]
      /\ Placed(submission_order, run, pending, done)
      /\ \A v \in Worker : run[v] <= last_submitted_sequence
      /\ \A s \in Sequence : terminal[s] # "none" => done[s] = terminal[s]
  BY DonePlaces DEF Outcome
<1>3. \/ ~Orphaned(fld) /\ lost = {} /\ pend = pending
      \/ Orphaned(fld) /\ lost = Elements(pending) /\ pend = << >>
  BY Zenon DEF Lost
<1> HIDE DEF rdy, fld, run, done, lost, pend
<1>4. /\ term \in [Sequence -> Outcome \cup {"none"}]
      /\ \A s \in Sequence : s \notin lost => term[s] = done[s]
      /\ \A s \in Sequence : s \in lost => term[s] # "none"
      /\ pend \in Seq(Sequence)
  <2>1. pend \in Seq(Sequence)
    <3>1. pending \in Seq(Sequence) /\ << >> \in Seq(Sequence)
      BY DEF TypeOK
    <3> QED BY <1>3, <3>1, Zenon
  <2>2. /\ term \in [Sequence -> Outcome \cup {"none"}]
        /\ \A s \in Sequence : s \notin lost => term[s] = done[s]
        /\ \A s \in Sequence : s \in lost => term[s] # "none"
    BY <1>2 DEF Outcome
  <2> QED BY <2>1, <2>2
<1>5. \A s \in Sequence : terminal[s] # "none" => term[s] = terminal[s]
  <2>1. \A s \in lost : terminal[s] = "none"
    BY <1>3, PlacedNow
  <2> HIDE DEF term
  <2> QED BY <1>2, <1>4, <2>1, Zenon
<1> HIDE DEF term
<1>6. Placed(submission_order, run, pend, term)
  <2>1. CASE lost = {} /\ pend = pending
    <3>1. term = done
      BY <1>2, <1>4, <2>1
    <3> QED BY <1>2, <2>1, <3>1, Zenon
  <2>2. CASE lost = Elements(pending) /\ pend = << >>
    <3>1. Elements(pend) = {} /\ DOMAIN pend = {}
      BY <2>2 DEF Elements
    <3>2. \A s \in Elements(submission_order) :
            (\E v \in Worker : run[v] = s) \/ term[s] # "none"
      <4>1. ASSUME NEW s \in Elements(submission_order), term[s] = "none"
            PROVE  \E v \in Worker : run[v] = s
        <5>1. s \in Sequence /\ s \notin Elements(pending) /\ done[s] = "none"
          <6>1. s \in Sequence
            BY PlacedNow
          <6> QED BY <1>4, <2>2, <4>1, <6>1, Zenon
        <5> QED BY <1>2, <5>1 DEF Placed
      <4> QED BY <4>1, Zenon
    <3>3. \A s \in Sequence : term[s] # "none" => s \in Elements(submission_order)
      <4>1. ASSUME NEW s \in Sequence, term[s] # "none", s \notin lost
            PROVE  s \in Elements(submission_order)
        BY <1>2, <1>4, <4>1, Zenon DEF Placed
      <4> QED BY <2>2, <4>1, PlacedNow, Zenon
    <3>4. \A u, v \in Worker : run[u] = run[v] /\ run[u] # None => u = v
      BY <1>2 DEF Placed
    <3> QED BY <3>1, <3>2, <3>3, <3>4, Zenon DEF Placed
  <2> QED BY <1>3, <2>1, <2>2, Zenon
<1>7. cancelled \in SUBSET Sequence /\ \A s \in cancelled : term[s] # "none"
  BY <1>5, Zenon DEF PlacedInv, TypeOK
<1>8. PlacedInv'
  BY <1>1, <1>2, <1>4, <1>6, <1>7, PlacedByCall, Zenon
<1> QED BY <1>1, <1>4, <1>5, <1>8, Zenon

(***************************************************************************)
(* pending.remove(position) takes out the request and nothing else.        *)
(***************************************************************************)
LEMMA WithoutRemoves ==
  ASSUME NEW q \in Seq(Sequence), NEW s,
         \A i, j \in DOMAIN q : q[i] = q[j] => i = j
  PROVE  /\ Elements(Without(q, s)) = Elements(q) \ {s}
         /\ \A i, j \in DOMAIN Without(q, s) : Without(q, s)[i] = Without(q, s)[j] => i = j
<1>1. CASE s \notin Elements(q)
  BY <1>1 DEF Without
<1>2. CASE s \in Elements(q)
  <2> DEFINE p == CHOOSE i \in DOMAIN q : q[i] = s
             r == [i \in 1 .. Len(q) - 1 |-> IF i < p THEN q[i] ELSE q[i + 1]]
  <2>1. p \in DOMAIN q /\ q[p] = s
    BY <1>2 DEF Elements
  <2>2. Without(q, s) = r
    BY <1>2 DEF Without
  <2>3. DOMAIN q = 1 .. Len(q) /\ Len(q) \in Nat
    OBVIOUS
  <2> HIDE DEF p
  <2> DEFINE At(i) == IF i < p THEN i ELSE i + 1
  <2>4. /\ DOMAIN r = 1 .. Len(q) - 1
        /\ \A i \in DOMAIN r : At(i) \in DOMAIN q /\ At(i) # p /\ r[i] = q[At(i)]
    BY <2>1, <2>3
  <2>5. \A i, j \in DOMAIN r : At(i) = At(j) => i = j
    BY <2>1, <2>3, <2>4
  <2>6. \A n \in DOMAIN q : n # p => \E i \in DOMAIN r : At(i) = n
    <3>1. ASSUME NEW n \in DOMAIN q, n # p
          PROVE  \E i \in 1 .. Len(q) - 1 : At(i) = n
      <4>1. CASE n < p
        <5>1. n \in 1 .. Len(q) - 1 /\ At(n) = n
          BY <2>1, <2>3, <4>1
        <5> QED BY <5>1, Zenon
      <4>2. CASE n > p
        <5>1. n - 1 \in 1 .. Len(q) - 1 /\ At(n - 1) = n
          BY <2>1, <2>3, <4>2
        <5> QED BY <5>1
      <4> QED BY <2>1, <2>3, <3>1, <4>1, <4>2
    <3> QED BY <2>4, <3>1, Zenon
  <2> HIDE DEF r, At
  <2>7. \A i, j \in DOMAIN r : r[i] = r[j] => i = j
    BY <2>4, <2>5, Zenon
  <2>8. Elements(r) = Elements(q) \ {s}
    BY <2>1, <2>4, <2>6 DEF Elements
  <2> QED BY <2>2, <2>7, <2>8, Zenon
<1> QED BY <1>1, <1>2, Zenon

(***************************************************************************)
(* The step of each method.                                                *)
(***************************************************************************)
LEMMA SubmitPlaces ==
  ASSUME TypeOK, LineOrdered, PlacedInv, NEW s \in Sequence, Submit(s)
  PROVE  PlacedInv'
<1> DEFINE order == Append(submission_order, s)
           pend == Append(pending, s)
           free == Dispatchable(ready, failed, running)
<1>1. /\ s > last_submitted_sequence /\ last_submitted_sequence' = s
      /\ submission_order' = order /\ UNCHANGED <<terminal, cancelled>>
      /\ running' = Assigned(free, running, pend) /\ pending' = Unassigned(free, pend)
  BY Zenon DEF Submit, DispatchReadyWorkers
<1>2. /\ submission_order \in Seq(Sequence) /\ pending \in Seq(Sequence)
      /\ running \in [Worker -> Sequence \cup {None}]
      /\ last_submitted_sequence \in Nat /\ s \in Nat /\ Sequence \subseteq Nat
  BY DEF TypeOK, Sequence, None
<1>w. \A w \in Worker : running[w] \in Nat /\ running[w] <= last_submitted_sequence
  <2>1. \A w \in Worker : running[w] \in Nat
    <3>1. \A w \in Worker : running[w] \in Sequence \cup {None}
      BY <1>2
    <3>2. None \in Nat
      BY DEF None
    <3> QED BY <1>2, <3>1, <3>2, Zenon
  <2> QED BY <2>1 DEF PlacedInv
<1>3. /\ order \in Seq(Sequence) /\ Elements(order) = Elements(submission_order) \cup {s}
      /\ pend \in Seq(Sequence) /\ Elements(pend) = Elements(pending) \cup {s}
  <2>1. ASSUME NEW q \in Seq(Sequence)
        PROVE  Elements(Append(q, s)) = Elements(q) \cup {s}
    <3>1. /\ DOMAIN Append(q, s) = 1 .. Len(q) + 1 /\ DOMAIN q = 1 .. Len(q) /\ Len(q) \in Nat
          /\ \A i \in DOMAIN q : Append(q, s)[i] = q[i]
          /\ Append(q, s)[Len(q) + 1] = s
      OBVIOUS
    <3>2. \A i \in DOMAIN Append(q, s) : i \in DOMAIN q \/ i = Len(q) + 1
      BY <3>1
    <3>3. Len(q) + 1 \in DOMAIN Append(q, s) /\ DOMAIN q \subseteq DOMAIN Append(q, s)
      BY <3>1
    <3> QED BY <3>1, <3>2, <3>3, Zenon DEF Elements
  <2> QED BY <1>2, <2>1
<1>4. /\ s \notin Elements(submission_order) /\ s \notin Elements(pending)
      /\ \A w \in Worker : running[w] # s
  <2>1. \A n \in Nat : n <= last_submitted_sequence => n # s
    BY <1>1, <1>2
  <2> QED BY <1>2, <1>w, <2>1, PlacedNow, Zenon
<1>5. terminal[s] = "none"
  BY <1>4, PlacedNow, Zenon DEF Contains
<1>6. \A i, j \in DOMAIN pend : pend[i] = pend[j] => i = j
  <2>1. /\ DOMAIN pend = 1 .. Len(pending) + 1 /\ DOMAIN pending = 1 .. Len(pending)
        /\ Len(pending) \in Nat
        /\ \A i \in DOMAIN pending : pend[i] = pending[i] /\ pend[i] \in Elements(pending)
        /\ pend[Len(pending) + 1] = s
    BY <1>2 DEF Elements
  <2>2. \A i \in DOMAIN pend : i \in DOMAIN pending \/ i = Len(pending) + 1
    BY <2>1
  <2>3. \A i, j \in DOMAIN pending : pending[i] = pending[j] => i = j
    BY DEF PlacedInv, Placed
  <2> HIDE DEF pend
  <2> QED BY <1>4, <2>1, <2>2, <2>3, Zenon
<1> HIDE DEF order, pend
<1>7. Placed(order, running, pend, terminal)
  <2>1. \A t \in Elements(pend) :
          t \in Elements(order) /\ terminal[t] = "none" /\ \A w \in Worker : running[w] # t
    BY <1>3, <1>4, <1>5, PlacedNow, Zenon
  <2>2. \A t \in Elements(order) :
          t \in Elements(pend) \/ (\E w \in Worker : running[w] = t) \/ terminal[t] # "none"
    BY <1>3, Zenon DEF PlacedInv, Placed
  <2>3. \A t \in Sequence : terminal[t] # "none" => t \in Elements(order)
    BY <1>3, Zenon DEF PlacedInv, Placed
  <2>4. \A v, w \in Worker : running[v] = running[w] /\ running[v] # None => v = w
    BY Zenon DEF PlacedInv, Placed
  <2> QED BY <1>6, <2>1, <2>2, <2>3, <2>4, Zenon DEF Placed
<1>8. free \in SUBSET Worker /\ \A w \in free : running[w] = None
  BY Zenon DEF Dispatchable
<1> HIDE DEF free
<1>9. /\ Placed(submission_order', running', pending', terminal')
      /\ \A w \in Worker : running'[w] \in {running[w]} \cup Elements(pend)
  BY <1>1, <1>2, <1>3, <1>7, <1>8, DispatchPlaces, Zenon
<1>10. \A w \in Worker : running'[w] <= last_submitted_sequence'
  <2>1. \A n \in Nat : n <= last_submitted_sequence => n <= s
    BY <1>1, <1>2
  <2>2. \A t \in Elements(pending) : t \in Nat /\ t <= last_submitted_sequence
    BY <1>2, PlacedNow, Zenon
  <2>3. \A t \in Elements(pend) : t <= s
    <3>1. s <= s
      BY <1>2
    <3>2. Elements(pend) = Elements(pending) \cup {s}
      BY <1>3
    <3> QED BY <2>1, <2>2, <3>1, <3>2, Zenon
  <2> QED BY <1>1, <1>9, <1>w, <2>1, <2>3
<1> QED BY <1>1, <1>9, <1>10, Zenon DEF PlacedInv

LEMMA CancelPlaces ==
  ASSUME TypeOK, LineOrdered, PlacedInv, NEW s \in Sequence, Cancel(s)
  PROVE  PlacedInv'
<1> DEFINE term == RecordTerminal(s, "Cancelled")
           pend == Without(pending, s)
<1>1. /\ Contains(s)
      /\ ReleaseOrdered(submission_order, term, cancelled \cup {s})
      /\ DispatchReadyWorkers(ready, failed, running, pend)
      /\ last_submitted_sequence' = last_submitted_sequence
  BY DEF Cancel
<1>2. /\ terminal \in [Sequence -> Outcome \cup {"none"}]
      /\ running \in [Worker -> Sequence \cup {None}]
      /\ cancelled \cup {s} \in SUBSET Sequence /\ pending \in Seq(Sequence)
  BY DEF TypeOK
<1>3. term \in [Sequence -> Outcome \cup {"none"}]
  BY RecordType, Zenon DEF Outcome
<1>4. /\ term[s] # "none"
      /\ \A t \in Sequence \ {s} : term[t] = terminal[t]
      /\ \A t \in Sequence : terminal[t] # "none" => term[t] # "none"
  BY <1>1, <1>2, Zenon DEF RecordTerminal
<1>5. /\ pend \in Seq(Sequence) /\ Elements(pend) = Elements(pending) \ {s}
      /\ \A i, j \in DOMAIN pend : pend[i] = pend[j] => i = j
  <2>1. \A i, j \in DOMAIN pending : pending[i] = pending[j] => i = j
    BY DEF PlacedInv, Placed
  <2> QED BY <1>2, <2>1, WithoutType, WithoutRemoves, Zenon
<1> HIDE DEF term, pend
<1>6. Placed(submission_order, running, pend, term)
  <2>1. \A t \in Elements(pend) :
          t \in Elements(submission_order) /\ term[t] = "none" /\ \A w \in Worker : running[w] # t
    BY <1>4, <1>5, PlacedNow, Zenon
  <2>2. \A t \in Elements(submission_order) :
          t \in Elements(pend) \/ (\E w \in Worker : running[w] = t) \/ term[t] # "none"
    <3>1. ASSUME NEW t \in Elements(submission_order), t # s, term[t] = "none"
          PROVE  t \in Elements(pend) \/ \E w \in Worker : running[w] = t
      <4>1. t \in Sequence /\ terminal[t] = "none"
        BY <1>4, <3>1, PlacedNow, Zenon
      <4> QED BY <1>5, <3>1, <4>1, Zenon DEF PlacedInv, Placed
    <3> QED BY <1>4, <3>1, Zenon
  <2>3. \A t \in Sequence : term[t] # "none" => t \in Elements(submission_order)
    BY <1>1, <1>4, PlacedNow, Zenon DEF Contains
  <2>4. \A v, w \in Worker : running[v] = running[w] /\ running[v] # None => v = w
    BY DEF PlacedInv, Placed
  <2> QED BY <1>5, <2>1, <2>2, <2>3, <2>4, Zenon DEF Placed
<1>7. \A t \in cancelled \cup {s} : term[t] # "none"
  BY <1>2, <1>4 DEF PlacedInv
<1>8. \A w \in Worker : running[w] <= last_submitted_sequence
  BY DEF PlacedInv
<1> QED BY <1>1, <1>2, <1>3, <1>5, <1>6, <1>7, <1>8, PlacedByCall

(***************************************************************************)
(* A completion that is expected, or the failure of the worker that        *)
(* reports one that is not.                                                *)
(***************************************************************************)
LEMMA CompletesPlaces ==
  ASSUME TypeOK, LineOrdered, PlacedInv, NEW w \in Worker, HostCompletes(w)
  PROVE  /\ PlacedInv'
         /\ \E term \in [Sequence -> Outcome \cup {"none"}] :
              /\ ReleaseOrdered(submission_order, term, cancelled)
              /\ \A s \in Sequence : terminal[s] # "none" => term[s] = terminal[s]
<1>1. PICK reported \in {None, running[w], MaxSequence + 1}, outcome \in {"Complete", "Failed"} :
        WorkerCompleted(w, reported, outcome)
  BY Zenon DEF HostCompletes
<1>2. CASE WorkerFailed(w)
  BY <1>2, FailedPlaces, Zenon
<1>3. CASE ~WorkerFailed(w)
  <2> DEFINE term == Done(w, outcome)
             run == [running EXCEPT ![w] = None]
  <2>1. /\ ReleaseOrdered(submission_order, term, cancelled)
        /\ DispatchReadyWorkers(ready, failed, run, pending)
        /\ last_submitted_sequence' = last_submitted_sequence
    BY <1>1, <1>3, Zenon DEF WorkerCompleted, Expected, Done
  <2>2. /\ term \in [Sequence -> Outcome \cup {"none"}]
        /\ run \in [Worker -> Sequence \cup {None}]
        /\ Placed(submission_order, run, pending, term)
        /\ \A v \in Worker : run[v] <= last_submitted_sequence
        /\ \A s \in Sequence : terminal[s] # "none" => term[s] = terminal[s]
    BY DonePlaces DEF Outcome
  <2> HIDE DEF term, run
  <2>3. /\ cancelled \in SUBSET Sequence /\ pending \in Seq(Sequence)
        /\ \A s \in cancelled : term[s] # "none"
    BY <2>2, Zenon DEF PlacedInv, TypeOK
  <2>4. PlacedInv'
    BY <2>1, <2>2, <2>3, PlacedByCall, Zenon
  <2> QED BY <2>1, <2>2, <2>4, Zenon
<1> QED BY <1>2, <1>3, Zenon

(***************************************************************************)
(* worker_ready.                                                           *)
(***************************************************************************)
LEMMA ReadyPlaces ==
  ASSUME TypeOK, PlacedInv, LineOrdered, NEW w \in Worker, HostReady(w)
  PROVE  PlacedInv'
<1> DEFINE free == Dispatchable(ready', failed, running)
<1>1. /\ running' = Assigned(free, running, pending) /\ pending' = Unassigned(free, pending)
      /\ UNCHANGED <<submission_order, terminal, cancelled, last_submitted_sequence>>
  BY DEF HostReady, WorkerReady, DispatchReadyWorkers
<1>2. free \in SUBSET Worker /\ \A v \in free : running[v] = None
  BY DEF Dispatchable
<1> HIDE DEF free
<1>3. /\ submission_order \in Seq(Sequence) /\ pending \in Seq(Sequence)
      /\ running \in [Worker -> Sequence \cup {None}]
      /\ Placed(submission_order, running, pending, terminal)
  BY Zenon DEF TypeOK, PlacedInv
<1>4. /\ Placed(submission_order, running', pending', terminal)
      /\ \A v \in Worker : running'[v] \in {running[v]} \cup Elements(pending)
  BY <1>1, <1>2, <1>3, DispatchPlaces, Zenon
<1>5. \A v \in Worker : running'[v] <= last_submitted_sequence
  BY <1>4, PlacedNow DEF PlacedInv
<1> QED BY <1>1, <1>4, <1>5, Zenon DEF PlacedInv

LEMMA PlacedInvHolds == Spec => []PlacedInv
<1>1. Init => PlacedInv
  BY DEF Init, PlacedInv, Placed, Elements, None
<1>2. TypeOK /\ LineOrdered /\ PlacedInv /\ [Next]_vars => PlacedInv'
  <2> SUFFICES ASSUME TypeOK, LineOrdered, PlacedInv, [Next]_vars
               PROVE  PlacedInv'
    OBVIOUS
  <2>1. ASSUME NEW s \in Sequence, HostProgress(s)
        PROVE  PlacedInv'
    BY <2>1, Zenon DEF HostProgress, WorkerProgress, PlacedInv, Placed
  <2>2. CASE DrainMessages
    BY <2>2, Zenon DEF DrainMessages, PlacedInv, Placed
  <2>3. CASE UNCHANGED vars
    BY <2>3 DEF vars, PlacedInv, Placed
  <2>4. ASSUME NEW w \in Worker, HostFails(w)
        PROVE  PlacedInv'
    BY <2>4, FailedPlaces DEF HostFails
  <2> QED BY <2>1, <2>2, <2>3, <2>4, SubmitPlaces, CancelPlaces, CompletesPlaces, ReadyPlaces DEF Next
<1>3. Spec => []TypeOK /\ []LineOrdered
  BY TypeCorrect, LineOrderedHolds, PTL
<1> QED BY <1>1, <1>2, <1>3, PTL DEF Spec

(***************************************************************************)
(* No accepted request is lost or run twice: for every pool, queue bound   *)
(* and number of requests, one that is not released waits in the queue, is *)
(* with exactly one worker or has its recorded result.                     *)
(***************************************************************************)
THEOREM NoRequestLostHolds == Spec => []NoRequestLost
<1>1. TypeOK /\ LineOrdered /\ PlacedInv => NoRequestLost
  <2> SUFFICES ASSUME TypeOK, LineOrdered, PlacedInv, NEW s \in Elements(submission_order)
               PROVE  /\ \/ s \in Elements(pending)
                         \/ \E w \in Worker : RunBy(w, s)
                         \/ terminal[s] # "none"
                      /\ s \in Elements(pending) =>
                           terminal[s] = "none" /\ \A w \in Worker : ~RunBy(w, s)
                      /\ \A v, w \in Worker : RunBy(v, s) /\ RunBy(w, s) => v = w
    BY DEF NoRequestLost
  <2>1. s # None
    BY PlacedNow DEF Sequence, None
  <2> QED BY <2>1, Zenon DEF PlacedInv, Placed, RunBy
<1>2. Spec => []TypeOK /\ []LineOrdered /\ []PlacedInv
  BY TypeCorrect, LineOrderedHolds, PlacedInvHolds, PTL
<1> QED BY <1>1, <1>2, PTL

(***************************************************************************)
(* A recorded result stays until it is released, and what is released is   *)
(* that result: a late completion, the failure of a worker, a cancellation *)
(* after the fact or the end of the pool never replaces it.                *)
(***************************************************************************)
THEOREM FirstResultStaysHolds == Spec => FirstResultStays
<1> DEFINE Stays == \A s \in Sequence :
                      terminal[s] # "none" =>
                        \/ terminal'[s] = terminal[s]
                        \/ \E i \in DOMAIN delivered' :
                             delivered'[i] = [kind |-> terminal[s], sequence |-> s]
<1>1. TypeOK /\ LineOrdered /\ PlacedInv /\ [Next]_vars => [Stays]_vars
  <2> SUFFICES ASSUME TypeOK, LineOrdered, PlacedInv, Next
               PROVE  Stays
    OBVIOUS
  <2>1. ASSUME NEW term \in [Sequence -> Outcome \cup {"none"}], NEW canc,
               ReleaseOrdered(submission_order, term, canc),
               \A s \in Sequence : terminal[s] # "none" => term[s] = terminal[s]
        PROVE  Stays
    <3>1. \A s \in Sequence :
            terminal'[s] # term[s] =>
              \E i \in DOMAIN delivered' : delivered'[i] = [kind |-> term[s], sequence |-> s]
      BY <2>1, ReleaseDelivers, Zenon
    <3> QED BY <2>1, <3>1, Zenon
  <2>2. ASSUME UNCHANGED terminal
        PROVE  Stays
    BY <2>2, Zenon
  <2> HIDE DEF Stays
  <2>3. ASSUME NEW s \in Sequence, Cancel(s)
        PROVE  Stays
    <3>1. RecordTerminal(s, "Cancelled") \in [Sequence -> Outcome \cup {"none"}]
      BY RecordType, Zenon DEF Outcome
    <3>2. \A t \in Sequence :
            terminal[t] # "none" => RecordTerminal(s, "Cancelled")[t] = terminal[t]
      BY Zenon DEF RecordTerminal, TypeOK
    <3> QED BY <2>1, <2>3, <3>1, <3>2, Zenon DEF Cancel
  <2>4. ASSUME NEW s \in Sequence, Submit(s) \/ HostProgress(s)
        PROVE  Stays
    BY <2>2, <2>4, Zenon DEF Submit, HostProgress, WorkerProgress
  <2>5. ASSUME NEW w \in Worker, HostReady(w)
        PROVE  Stays
    BY <2>2, <2>5, Zenon DEF HostReady, WorkerReady
  <2>6. ASSUME NEW w \in Worker, HostFails(w)
        PROVE  Stays
    BY <2>1, <2>6, FailedPlaces, Zenon DEF HostFails
  <2>7. ASSUME NEW w \in Worker, HostCompletes(w)
        PROVE  Stays
    BY <2>1, <2>7, CompletesPlaces, Zenon
  <2>8. CASE DrainMessages
    BY <2>2, <2>8 DEF DrainMessages
  <2> QED BY <2>3, <2>4, <2>5, <2>6, <2>7, <2>8, Zenon DEF Next
<1>2. Spec => []TypeOK /\ []LineOrdered /\ []PlacedInv
  BY TypeCorrect, LineOrderedHolds, PlacedInvHolds, PTL
<1> QED BY <1>1, <1>2, PTL DEF Spec, FirstResultStays

=============================================================================
