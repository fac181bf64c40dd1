------------------------- MODULE GraphWorkerProofs -------------------------
(***************************************************************************)
(* Proofs about GraphWorker for every number of runs, segments and faults, *)
(* every batch size and every slice.                                       *)
(***************************************************************************)
EXTENDS GraphWorker, WellFoundedInduction, TLAPS

-----------------------------------------------------------------------------
(* Sequences.                                                              *)

(***************************************************************************)
(* What push_back and extend do to a queue, and what a queue is.           *)
(***************************************************************************)
LEMMA Lens ==
  ASSUME NEW S, NEW q \in Seq(S)
  PROVE  /\ Len(q) \in Nat /\ (q = <<>> <=> Len(q) = 0)
         /\ q \in [1 .. Len(q) -> S] /\ DOMAIN q = 1 .. Len(q)
OBVIOUS

(***************************************************************************)
(* push_back.                                                              *)
(***************************************************************************)
LEMMA Appends ==
  ASSUME NEW S, NEW q \in Seq(S), NEW e \in S
  PROVE  /\ Append(q, e) \in Seq(S) /\ Append(q, e) # <<>>
         /\ Len(Append(q, e)) = Len(q) + 1
         /\ \A i \in 1 .. Len(q) : Append(q, e)[i] = q[i]
         /\ Append(q, e)[Len(q) + 1] = e
OBVIOUS

(***************************************************************************)
(* A queue of one element.                                                 *)
(***************************************************************************)
LEMMA Singles == ASSUME NEW S, NEW q \in Seq(S), NEW e \in S PROVE Append(q, e) = q \o <<e>>
OBVIOUS

(***************************************************************************)
(* extend.                                                                 *)
(***************************************************************************)
LEMMA Concats ==
  ASSUME NEW S, NEW p \in Seq(S), NEW q \in Seq(S)
  PROVE  /\ p \o q \in Seq(S) /\ Len(p \o q) = Len(p) + Len(q)
         /\ \A i \in 1 .. Len(p) + Len(q) :
              (p \o q)[i] = IF i <= Len(p) THEN p[i] ELSE q[i - Len(p)]
OBVIOUS

(***************************************************************************)
(* A queue of some elements is a queue of more.                            *)
(***************************************************************************)
LEMMA Widens == ASSUME NEW S, NEW T, S \subseteq T PROVE Seq(S) \subseteq Seq(T)
OBVIOUS

(***************************************************************************)
(* Extending a queue by nothing.                                           *)
(***************************************************************************)
LEMMA ConcatsNone == ASSUME NEW S, NEW q \in Seq(S) PROVE q \o <<>> = q
OBVIOUS

(***************************************************************************)
(* Places in a queue of n elements.                                        *)
(***************************************************************************)
LEMMA Places ==
  ASSUME NEW n \in Nat
  PROVE  /\ n <= n /\ (n # 0 => 1 \in 1 .. n)
         /\ \A j \in 1 .. n : j <= n
         /\ \A j \in 0 .. n : j # 0 => j \in 1 .. n
         /\ \A k \in Nat : \A j \in 1 .. k : j <= n => j \in 1 .. n
OBVIOUS

(***************************************************************************)
(* The numbers that allocate_sequence gives to runs.                       *)
(***************************************************************************)
LEMMA RunNumbers == \A s \in Run : s # 0 /\ s \in 0 .. MaxRuns /\ ~(s < s)
  BY GraphWorkerAssumption DEF Run

(***************************************************************************)
(* Nothing is run 0, key 0 is the manifest, and a fault that is allowed is *)
(* counted within the bound.                                               *)
(***************************************************************************)
LEMMA Bounds ==
  /\ 0 \in 0 .. MaxRuns /\ Manifest \in Key
  /\ \A m \in 0 .. MaxFaults : m < MaxFaults => m + 1 \in 0 .. MaxFaults
  BY GraphWorkerAssumption DEF Manifest, Key

-----------------------------------------------------------------------------
(* Induction.                                                              *)

(***************************************************************************)
(* A non-empty set of natural numbers has a least element.  The library's  *)
(* induction theorems take operators; that the naturals are well-founded   *)
(* does not.                                                               *)
(***************************************************************************)
LEMMA LeastElement ==
  ASSUME NEW M \in SUBSET Nat, M # {}
  PROVE  \E m \in M : \A n \in M : m <= n
<1> DEFINE R == OpToRel(<, Nat)
<1>1. IsWellFoundedOn(R, Nat)
  BY NatLessThanWellFounded, Zenon
<1>2. PICK m \in M : \A n \in M : ~(<<n, m>> \in R)
  <2> HIDE DEF R
  <2> QED BY <1>1, WFMin, Zenon
<1>3. ASSUME NEW n \in M PROVE <<n, m>> \in R <=> n < m
  BY Zenon DEF OpToRel
<1> HIDE DEF R
<1>4. \A n \in M : ~(n < m)
  BY <1>2, <1>3, Zenon
<1> QED BY <1>4

(***************************************************************************)
(* Induction for a set: with it, what holds of every step of drain or      *)
(* apply is shown without an operator parameter.                           *)
(***************************************************************************)
LEMMA SetInduction ==
  ASSUME NEW G, 0 \in G, \A n \in Nat : n \in G => n + 1 \in G
  PROVE  Nat \subseteq G
<1> SUFFICES ASSUME Nat \ G # {} PROVE FALSE
  OBVIOUS
<1>1. Nat \ G \in SUBSET Nat
  OBVIOUS
<1>2. PICK m \in Nat \ G : \A n \in Nat \ G : m <= n
  BY <1>1, LeastElement, Zenon
<1>3. m # 0 /\ m - 1 \in Nat /\ ~(m <= m - 1)
  BY <1>2
<1>4. m - 1 \in G
  BY <1>2, <1>3, Zenon
<1>5. (m - 1) + 1 = m
  BY <1>2
<1> QED BY <1>3, <1>4, <1>5, Zenon

-----------------------------------------------------------------------------
(* Positions.  A store has count segments; a position <<rank, offset>> in  *)
(* its plan says how far the replication of the store has come.            *)

StoreKeys(c) == {Manifest, Index} \cup SegmentKeys(c)

Rank(c, k) == IF k = Manifest THEN c + 2 ELSE IF k = Index THEN c + 1 ELSE k - 1

Origin == <<1, 0>>
End(c) == <<c + 3, 0>>

Removal == [kind : {"removed"}, key : Key]
Mutation == Removal \cup [kind : {"published"}, key : Key, run : Run, offset : Nat]
Event == Removal \cup [kind : {"chunk"}, key : Key, run : Run, offset : Nat,
                       count : Nat \ {0}, complete : BOOLEAN]

MutationOK(c, s, m) ==
  m.kind = "published" => /\ m.key \in StoreKeys(c)
                          /\ m.run = s
                          /\ m.offset < LengthOf(m.key)

MBefore(c, m) == IF m.kind = "removed" THEN Origin ELSE <<Rank(c, m.key), m.offset>>
MAfter(c, m) == IF m.kind = "removed" THEN Origin ELSE <<Rank(c, m.key) + 1, 0>>

(***************************************************************************)
(* The journal j of run s takes its replication from position p to q.      *)
(***************************************************************************)
JChain(c, s, j, p, q) ==
  /\ j \in Seq(Mutation)
  /\ \A i \in 1 .. Len(j) : MutationOK(c, s, j[i])
  /\ \A i \in 1 .. Len(j) - 1 : MAfter(c, j[i]) = MBefore(c, j[i + 1])
  /\ IF j = <<>> THEN p = q ELSE p = MBefore(c, j[1]) /\ q = MAfter(c, j[Len(j)])

EventOK(c, s, e) ==
  e.kind = "chunk" => /\ e.key \in StoreKeys(c)
                      /\ e.run = s
                      /\ e.offset + e.count <= LengthOf(e.key)
                      /\ e.complete <=> e.offset + e.count = LengthOf(e.key)

Before(c, e) == IF e.kind = "removed" THEN Origin ELSE <<Rank(c, e.key), e.offset>>
After(c, e) == IF e.kind = "removed" THEN Origin
               ELSE IF e.complete THEN <<Rank(c, e.key) + 1, 0>>
               ELSE <<Rank(c, e.key), e.offset + e.count>>

(***************************************************************************)
(* So do the events of a message.                                          *)
(***************************************************************************)
Chain(c, s, events, p, q) ==
  /\ events \in Seq(Event)
  /\ \A i \in 1 .. Len(events) : EventOK(c, s, events[i])
  /\ \A i \in 1 .. Len(events) - 1 : After(c, events[i]) = Before(c, events[i + 1])
  /\ IF events = <<>> THEN p = q
     ELSE p = Before(c, events[1]) /\ q = After(c, events[Len(events)])

-----------------------------------------------------------------------------
(* Drain.                                                                  *)

(***************************************************************************)
(* The length of an artifact is positive.                                  *)
(***************************************************************************)
LEMMA Lengths == \A k : LengthOf(k) \in Nat \ {0}
BY GraphWorkerAssumption DEF LengthOf

(***************************************************************************)
(* An event that begins where a sequence of events ends extends it.        *)
(***************************************************************************)
LEMMA ChainAppend ==
  ASSUME NEW c, NEW s, NEW E, NEW p, NEW q, Chain(c, s, E, p, q),
         NEW e \in Event, EventOK(c, s, e), Before(c, e) = q
  PROVE  Chain(c, s, Append(E, e), p, After(c, e))
<1> DEFINE F == Append(E, e)
<1>1. /\ E \in Seq(Event) /\ Len(E) \in Nat
      /\ F \in Seq(Event) /\ Len(F) = Len(E) + 1 /\ F # <<>>
      /\ \A i \in 1 .. Len(E) : F[i] = E[i]
      /\ F[Len(E) + 1] = e
  <2>1. E \in Seq(Event)
    BY Zenon DEF Chain
  <2> QED BY <2>1, Appends, Lens
<1> HIDE DEF F
<1>2. ASSUME NEW i \in 1 .. Len(F) PROVE EventOK(c, s, F[i])
  BY <1>1, <1>2 DEF Chain
<1>3. ASSUME NEW i \in 1 .. Len(F) - 1 PROVE After(c, F[i]) = Before(c, F[i + 1])
  <2>1. CASE i = Len(E)
    BY <1>1, <2>1 DEF Chain
  <2>2. CASE i # Len(E)
    <3>1. i \in 1 .. Len(E) - 1 /\ i \in 1 .. Len(E) /\ i + 1 \in 1 .. Len(E)
      BY <1>1, <2>2
    <3> QED BY <1>1, <3>1, Zenon DEF Chain
  <2> QED BY <2>1, <2>2, Zenon
<1>4. p = Before(c, F[1])
  <2>1. CASE E = <<>>
    BY <1>1, <2>1 DEF Chain
  <2>2. CASE E # <<>>
    <3>1. 1 \in 1 .. Len(E)
      BY <1>1, <2>2
    <3> QED BY <1>1, <2>2, <3>1, Zenon DEF Chain
  <2> QED BY <2>1, <2>2, Zenon
<1>5. F[Len(F)] = e
  BY <1>1, Zenon
<1> QED BY <1>1, <1>2, <1>3, <1>4, <1>5, Zenon DEF Chain, F

(***************************************************************************)
(* The first events of a message begin where the message does.             *)
(***************************************************************************)
LEMMA ChainPrefix ==
  ASSUME NEW c, NEW s, NEW E, NEW p, NEW q, Chain(c, s, E, p, q), NEW n \in 0 .. Len(E)
  PROVE  \E r : Chain(c, s, SubSeq(E, 1, n), p, r)
<1> DEFINE F == SubSeq(E, 1, n)
<1>1. E \in Seq(Event) /\ Len(E) \in Nat
  BY DEF Chain
<1>2. /\ F \in Seq(Event) /\ Len(F) = n
      /\ \A i \in 1 .. n : F[i] = E[i] /\ i \in 1 .. Len(E)
  BY <1>1
<1>3. \A i \in 1 .. n - 1 : i \in 1 .. n /\ i + 1 \in 1 .. n /\ i \in 1 .. Len(E) - 1
  BY <1>1
<1>4. n = 0 \/ (1 \in 1 .. n /\ 1 \in 1 .. Len(E))
  BY <1>1
<1>5. (F = <<>> <=> n = 0) /\ (E = <<>> => Len(E) = 0)
  BY <1>1, <1>2
<1> HIDE DEF F
<1>6. /\ \A i \in 1 .. Len(F) : EventOK(c, s, F[i])
      /\ \A i \in 1 .. Len(F) - 1 : After(c, F[i]) = Before(c, F[i + 1])
  BY <1>2, <1>3, Zenon DEF Chain
<1>7. CASE n = 0
  <2>1. Chain(c, s, F, p, p)
    BY <1>2, <1>5, <1>6, <1>7, Zenon DEF Chain
  <2> QED BY <2>1, Zenon DEF F
<1>8. CASE n # 0
  <2>1. p = Before(c, F[1])
    <3>1. E # <<>>
      BY <1>1, <1>4, <1>8
    <3> QED BY <1>2, <1>4, <1>8, <3>1, Zenon DEF Chain
  <2>2. Chain(c, s, F, p, After(c, F[Len(F)]))
    BY <1>2, <1>5, <1>6, <1>8, <2>1, Zenon DEF Chain
  <2> QED BY <2>2, Zenon DEF F
<1> QED BY <1>7, <1>8, Zenon

(***************************************************************************)
(* Dropping the first mutation of a journal moves its start past it.       *)
(***************************************************************************)
LEMMA JChainTail ==
  ASSUME NEW c, NEW s, NEW j, NEW p, NEW q, JChain(c, s, j, p, q), j # <<>>
  PROVE  /\ Head(j) \in Mutation /\ MutationOK(c, s, Head(j))
         /\ p = MBefore(c, Head(j))
         /\ JChain(c, s, Tail(j), MAfter(c, Head(j)), q)
<1> DEFINE t == Tail(j)
<1>1. /\ j \in Seq(Mutation) /\ Len(j) \in Nat \ {0}
      /\ t \in Seq(Mutation) /\ Len(t) = Len(j) - 1
      /\ \A i \in 1 .. Len(t) : t[i] = j[i + 1]
      /\ Head(j) = j[1] /\ j[1] \in Mutation
  BY DEF JChain
<1> HIDE DEF t
<1>2. ASSUME NEW i \in 1 .. Len(t) PROVE MutationOK(c, s, t[i])
  BY <1>1 DEF JChain
<1>3. ASSUME NEW i \in 1 .. Len(t) - 1 PROVE MAfter(c, t[i]) = MBefore(c, t[i + 1])
  <2>1. i + 1 \in 1 .. Len(j) - 1 /\ t[i] = j[i + 1] /\ t[i + 1] = j[(i + 1) + 1]
    BY <1>1
  <2> QED BY <2>1, Zenon DEF JChain
<1>4. IF t = <<>> THEN MAfter(c, Head(j)) = q
      ELSE MAfter(c, Head(j)) = MBefore(c, t[1]) /\ q = MAfter(c, t[Len(t)])
  <2>1. CASE t = <<>>
    <3>1. Len(j) = 1
      BY <1>1, <2>1
    <3> QED BY <1>1, <2>1, <3>1, Zenon DEF JChain
  <2>2. CASE t # <<>>
    <3>1. 1 \in 1 .. Len(j) - 1 /\ t[1] = j[1 + 1] /\ t[Len(t)] = j[Len(j)]
      BY <1>1, <2>2
    <3> QED BY <1>1, <2>2, <3>1, Zenon DEF JChain
  <2> QED BY <2>1, <2>2, Zenon
<1>5. MutationOK(c, s, j[1]) /\ p = MBefore(c, j[1])
  BY <1>1 DEF JChain
<1> QED BY <1>1, <1>2, <1>3, <1>4, <1>5, Zenon DEF JChain, t

(***************************************************************************)
(* Two journals that meet join; what is published has offset 0.            *)
(***************************************************************************)
LEMMA JChainJoin ==
  ASSUME NEW c, NEW s, NEW a, NEW b, NEW p, NEW q, NEW r,
         JChain(c, s, a, p, q), JChain(c, s, b, q, r)
  PROVE  JChain(c, s, a \o b, p, r)
<1> DEFINE j == a \o b
<1>1. /\ a \in Seq(Mutation) /\ Len(a) \in Nat
      /\ b \in Seq(Mutation) /\ Len(b) \in Nat
      /\ j \in Seq(Mutation) /\ Len(j) = Len(a) + Len(b)
      /\ \A i \in 1 .. Len(j) : j[i] = IF i <= Len(a) THEN a[i] ELSE b[i - Len(a)]
  BY DEF JChain
<1>2. CASE a = <<>>
  BY <1>1, <1>2 DEF JChain
<1>3. CASE b = <<>>
  BY <1>1, <1>3 DEF JChain
<1>4. CASE a # <<>> /\ b # <<>>
  <2> HIDE DEF j
  <2>1. Len(a) > 0 /\ Len(b) > 0
    BY <1>1, <1>4
  <2>2. ASSUME NEW i \in 1 .. Len(j) PROVE MutationOK(c, s, j[i])
    <3>1. CASE i <= Len(a)
      <4>1. i \in 1 .. Len(a) /\ j[i] = a[i]
        BY <1>1, <3>1
      <4> QED BY <4>1, Zenon DEF JChain
    <3>2. CASE i > Len(a)
      <4>1. i - Len(a) \in 1 .. Len(b)
        BY <1>1, <3>2
      <4>2. j[i] = b[i - Len(a)]
        BY <1>1, <3>2
      <4> QED BY <4>1, <4>2, Zenon DEF JChain
    <3> QED BY <1>1, <3>1, <3>2
  <2>3. ASSUME NEW i \in 1 .. Len(j) - 1 PROVE MAfter(c, j[i]) = MBefore(c, j[i + 1])
    <3>1. CASE i < Len(a)
      <4>1. i \in 1 .. Len(a) - 1 /\ j[i] = a[i] /\ j[i + 1] = a[i + 1]
        BY <1>1, <3>1
      <4> QED BY <4>1, Zenon DEF JChain
    <3>2. CASE i = Len(a)
      <4>1. /\ i <= Len(a) /\ ~(i + 1 <= Len(a)) /\ (i + 1) - Len(a) = 1
            /\ i \in 1 .. Len(j) /\ i + 1 \in 1 .. Len(j)
        BY <1>1, <2>1, <3>2
      <4>2. j[i] = a[Len(a)] /\ j[i + 1] = b[1]
        BY <1>1, <3>2, <4>1, Zenon
      <4> QED BY <4>2, <1>4, Zenon DEF JChain
    <3>3. CASE i > Len(a)
      <4>1. /\ i - Len(a) \in 1 .. Len(b) - 1 /\ (i + 1) - Len(a) = (i - Len(a)) + 1
            /\ i \in 1 .. Len(j) /\ ~(i <= Len(a))
            /\ i + 1 \in 1 .. Len(j) /\ ~(i + 1 <= Len(a))
        BY <1>1, <3>3
      <4>2. j[i] = b[i - Len(a)] /\ j[i + 1] = b[(i - Len(a)) + 1]
        BY <1>1, <4>1
      <4> QED BY <4>1, <4>2, Zenon DEF JChain
    <3> QED BY <1>1, <3>1, <3>2, <3>3
  <2>4. j # <<>> /\ j[1] = a[1] /\ j[Len(j)] = b[Len(b)]
    BY <1>1, <2>1
  <2>5. p = MBefore(c, j[1]) /\ r = MAfter(c, j[Len(j)])
    BY <2>4, <1>4, Zenon DEF JChain
  <2> QED BY <1>1, <2>2, <2>3, <2>4, <2>5, Zenon DEF JChain, j
<1> QED BY <1>2, <1>3, <1>4, Zenon

(***************************************************************************)
(* A journal whose first mutation has been sent in part.                   *)
(***************************************************************************)
LEMMA JChainPartial ==
  ASSUME NEW c, NEW s, NEW j, NEW q, NEW m \in Mutation,
         JChain(c, s, j, MAfter(c, m), q), MutationOK(c, s, m)
  PROVE  JChain(c, s, <<m>> \o j, MBefore(c, m), q)
<1>1. <<m>> \in Seq(Mutation) /\ Len(<<m>>) = 1 /\ <<m>>[1] = m /\ <<m>> # <<>>
  OBVIOUS
<1>2. JChain(c, s, <<m>>, MBefore(c, m), MAfter(c, m))
  BY <1>1 DEF JChain
<1> QED BY <1>2, JChainJoin, Zenon

(***************************************************************************)
(* What drain has after n rounds: the events lead from the start of the    *)
(* journal to where the rest of it begins, and the first round sends       *)
(* something.                                                              *)
(***************************************************************************)
Drained(c, s, j, p, q, n, d) ==
  /\ d \in [events : Seq(Event), payload : Nat, journal : Seq(Mutation)]
  /\ \E m : Chain(c, s, d.events, p, m) /\ JChain(c, s, d.journal, m, q)
  /\ d.events = <<>> => d.journal = j
  /\ n > 0 /\ j # <<>> => d.events # <<>>

(***************************************************************************)
(* One round of drain.                                                     *)
(***************************************************************************)
LEMMA DrainStepOK ==
  ASSUME NEW c \in Nat, NEW s, NEW j, NEW p, NEW q, NEW n \in Nat, NEW d, Drained(c, s, j, p, q, n, d)
  PROVE  Drained(c, s, j, p, q, n + 1, DrainStep(d))
<1>1. /\ d.events \in Seq(Event) /\ d.payload \in Nat /\ d.journal \in Seq(Mutation)
      /\ d = [events |-> d.events, payload |-> d.payload, journal |-> d.journal]
  BY Zenon DEF Drained
<1>2. PICK m : Chain(c, s, d.events, p, m) /\ JChain(c, s, d.journal, m, q)
  BY Zenon DEF Drained
<1>3. CASE d.journal = <<>> \/ (d.journal # <<>> /\ d.events # <<>> /\ DrainStep(d) = d)
  <2>1. DrainStep(d) = d
    BY <1>3, Zenon DEF DrainStep
  <2>2. d.events = <<>> => j = <<>>
    BY <1>3, Zenon DEF Drained
  <2> QED BY <2>1, <2>2, Zenon DEF Drained
<1>4. CASE d.journal # <<>> /\ ~(d.events # <<>> /\ DrainStep(d) = d)
  <2> DEFINE u == Head(d.journal)
             r == Tail(d.journal)
  <2>1. /\ u \in Mutation /\ MutationOK(c, s, u) /\ m = MBefore(c, u)
        /\ JChain(c, s, r, MAfter(c, u), q)
        /\ r \in Seq(Mutation)
    <3>1. /\ u \in Mutation /\ MutationOK(c, s, u) /\ m = MBefore(c, u)
          /\ JChain(c, s, r, MAfter(c, u), q)
      BY <1>2, <1>4, JChainTail, Zenon
    <3> QED BY <3>1, Zenon DEF JChain
  <2>2. CASE u.kind = "removed"
    <3>1. DrainStep(d) = [d EXCEPT !.events = Append(@, u), !.journal = Tail(@)]
      BY <1>4, <2>2, Zenon DEF DrainStep
    <3>2. DrainStep(d) = [events |-> Append(d.events, u), payload |-> d.payload, journal |-> r]
      BY <3>1, <1>1, Zenon
    <3>3. u \in Event /\ EventOK(c, s, u) /\ Before(c, u) = m /\ After(c, u) = MAfter(c, u)
      BY <2>1, <2>2, Zenon DEF Mutation, Removal, Event, EventOK, Before, MBefore, After, MAfter
    <3>4. Chain(c, s, Append(d.events, u), p, MAfter(c, u))
      BY <1>2, <3>3, ChainAppend, Zenon
    <3>5. Append(d.events, u) \in Seq(Event) /\ Append(d.events, u) # <<>>
      BY <1>1, <3>3, Appends
    <3> HIDE DEF u, r
    <3> QED BY <1>1, <2>1, <3>2, <3>4, <3>5 DEF Drained
  <2>3. CASE u.kind # "removed"
    <3> DEFINE budget == IF d.payload >= MaxPayload THEN 0 ELSE MaxPayload - d.payload
               rest == LengthOf(u.key) - u.offset
               room == IF budget = 0 THEN 1 ELSE budget
               count == IF rest < room THEN rest ELSE room
               chunk == [kind |-> "chunk", key |-> u.key, run |-> u.run, offset |-> u.offset,
                         count |-> count, complete |-> count = rest]
               left == IF count = rest THEN r ELSE <<[u EXCEPT !.offset = @ + count]>> \o r
    <3>1. DrainStep(d) = [events |-> Append(d.events, chunk), payload |-> d.payload + count,
                          journal |-> left]
      BY <1>4, <2>3, Zenon DEF DrainStep
    <3>2. /\ u.kind = "published" /\ u.key \in Key /\ u.run \in Run /\ u.offset \in Nat
          /\ u = [kind |-> "published", key |-> u.key, run |-> u.run, offset |-> u.offset]
      BY <2>1, <2>3, Zenon DEF Mutation, Removal
    <3>3. u.key \in StoreKeys(c) /\ u.run = s /\ u.offset < LengthOf(u.key)
      BY <2>1, <3>2, Zenon DEF MutationOK
    <3> HIDE DEF u, r
    <3>4. /\ count \in Nat \ {0} /\ count <= rest /\ LengthOf(u.key) \in Nat
          /\ rest = LengthOf(u.key) - u.offset
      <4>1. room \in Nat \ {0}
        BY <1>1, GraphWorkerAssumption
      <4>2. rest \in Nat \ {0} /\ LengthOf(u.key) \in Nat
        BY <3>2, <3>3, Lengths
      <4> HIDE DEF room
      <4> QED BY <4>1, <4>2
    <3> HIDE DEF count, rest
    <3>5. chunk \in Event
      BY <3>2, <3>4, Zenon DEF Event
    <3>6. EventOK(c, s, chunk)
      <4>1. /\ u.offset + count <= LengthOf(u.key)
            /\ (count = rest) <=> (u.offset + count = LengthOf(u.key))
        BY <3>2, <3>4
      <4>2. /\ chunk.key = u.key /\ chunk.run = u.run /\ chunk.offset = u.offset
            /\ chunk.count = count
        OBVIOUS
      <4>3. chunk.complete <=> count = rest
        BY Zenon
      <4> HIDE DEF chunk
      <4> QED BY <3>3, <4>1, <4>2, <4>3, Zenon DEF EventOK
    <3>7. Before(c, chunk) = m
      BY <2>1, <3>2, Zenon DEF Before, MBefore
    <3>8. /\ left \in Seq(Mutation)
          /\ JChain(c, s, left, After(c, chunk), q)
      <4>1. CASE count = rest
        <5>1. After(c, chunk) = MAfter(c, u)
          BY <4>1, <3>2, Zenon DEF After, MAfter
        <5> QED BY <4>1, <5>1, <2>1, Zenon
      <4>2. CASE count # rest
        <5> DEFINE v == [u EXCEPT !.offset = @ + count]
        <5>1. v = [kind |-> "published", key |-> u.key, run |-> u.run, offset |-> u.offset + count]
          BY <3>2
        <5> HIDE DEF v
        <5>2. v \in Mutation
          BY <5>1, <3>2, <3>4 DEF Mutation
        <5>3. MutationOK(c, s, v)
          BY <5>1, <3>2, <3>3, <3>4, <4>2 DEF MutationOK
        <5>4. MAfter(c, v) = MAfter(c, u) /\ MBefore(c, v) = After(c, chunk)
          BY <5>1, <3>2, <4>2, Zenon DEF MAfter, MBefore, After
        <5>5. JChain(c, s, <<v>> \o r, MBefore(c, v), q)
          BY <2>1, <5>2, <5>3, <5>4, JChainPartial, Zenon
        <5>6. left = <<v>> \o r
          BY <4>2, Zenon DEF v
        <5>7. JChain(c, s, left, After(c, chunk), q)
          BY <5>4, <5>5, <5>6, Zenon
        <5> HIDE DEF left, chunk
        <5> QED BY <5>7, Zenon DEF JChain
      <4> QED BY <4>1, <4>2, Zenon
    <3> HIDE DEF chunk, left
    <3>9. Chain(c, s, Append(d.events, chunk), p, After(c, chunk))
      BY <1>2, <3>5, <3>6, <3>7, ChainAppend, Zenon
    <3>10. Append(d.events, chunk) \in Seq(Event) /\ Append(d.events, chunk) # <<>>
      BY <1>1, <3>5, Appends
    <3>11. d.payload + count \in Nat
      BY <1>1, <3>4
    <3> QED BY <3>1, <3>8, <3>9, <3>10, <3>11 DEF Drained
  <2> QED BY <2>2, <2>3, Zenon
<1> QED BY <1>3, <1>4, Zenon

(***************************************************************************)
(* The rounds of drain as a function.                                      *)
(***************************************************************************)
DrainRounds(j, f, N) ==
  f = [n \in 0 .. N |->
         IF n = 0 THEN {[events |-> <<>>, payload |-> 0, journal |-> j]}
         ELSE {DrainStep(d) : d \in f[n - 1]}]

(***************************************************************************)
(* There is such a function, so Drain is its last value.                   *)
(***************************************************************************)
LEMMA DrainDefined ==
  ASSUME NEW j
  PROVE  \E f : DrainRounds(j, f, MaxEvents) /\ Drain(j) = f[MaxEvents]
<1> DEFINE G == {N \in Nat : \E f : DrainRounds(j, f, N)}
<1>1. 0 \in G
  <2> DEFINE f == [n \in 0 .. 0 |-> {[events |-> <<>>, payload |-> 0, journal |-> j]}]
  <2>1. DrainRounds(j, f, 0)
    BY DEF DrainRounds
  <2> QED BY <2>1, Zenon
<1>2. ASSUME NEW N \in Nat, N \in G
      PROVE  N + 1 \in G
  <2>1. PICK f : DrainRounds(j, f, N)
    BY <1>2, Zenon
  <2> DEFINE g == [n \in 0 .. N + 1 |-> IF n = N + 1 THEN {DrainStep(d) : d \in f[N]} ELSE f[n]]
  <2>2. ASSUME NEW n \in 0 .. N + 1
        PROVE  g[n] = IF n = 0 THEN {[events |-> <<>>, payload |-> 0, journal |-> j]}
                      ELSE {DrainStep(d) : d \in g[n - 1]}
    <3>1. CASE n = N + 1
      <4>1. n # 0 /\ n - 1 = N /\ N \in 0 .. N + 1 /\ N # N + 1
        BY <3>1
      <4>2. g[n - 1] = f[N] /\ g[n] = {DrainStep(d) : d \in f[N]}
        BY <3>1, <4>1, Zenon
      <4> QED BY <4>1, <4>2, Zenon
    <3>2. CASE n # N + 1
      <4>1. n \in 0 .. N /\ g[n] = f[n]
        BY <3>2
      <4>2. f[n] = IF n = 0 THEN {[events |-> <<>>, payload |-> 0, journal |-> j]}
                   ELSE {DrainStep(d) : d \in f[n - 1]}
        BY <2>1, <4>1, Zenon DEF DrainRounds
      <4>3. n # 0 => g[n - 1] = f[n - 1]
        BY <3>2
      <4> HIDE DEF g
      <4> QED BY <4>1, <4>2, <4>3, Zenon
    <3> QED BY <3>1, <3>2, Zenon
  <2>3. g = [n \in 0 .. N + 1 |-> g[n]]
    OBVIOUS
  <2> HIDE DEF g
  <2>4. DrainRounds(j, g, N + 1)
    BY <2>2, <2>3, Zenon DEF DrainRounds
  <2> QED BY <2>4
<1>3. MaxEvents \in G
  <2> HIDE DEF G
  <2>1. Nat \subseteq G
    BY <1>1, <1>2, SetInduction, Zenon
  <2> QED BY <2>1, GraphWorkerAssumption, Zenon
<1> DEFINE f == CHOOSE f : DrainRounds(j, f, MaxEvents)
<1>4. Drain(j) = f[MaxEvents]
  BY Zenon DEF Drain, DrainRounds
<1>5. DrainRounds(j, f, MaxEvents)
  BY <1>3, Zenon
<1> QED BY <1>4, <1>5, Zenon

(***************************************************************************)
(* drain: a batch takes the replication from where the journal begins to   *)
(* where the rest of it begins, and it is empty only for an empty journal. *)
(***************************************************************************)
LEMMA DrainOK ==
  ASSUME NEW c \in Nat, NEW s, NEW j, NEW p, NEW q, JChain(c, s, j, p, q),
         NEW d \in Drain(j)
  PROVE  Drained(c, s, j, p, q, 1, d)
<1>1. PICK f : DrainRounds(j, f, MaxEvents) /\ Drain(j) = f[MaxEvents]
  BY DrainDefined, Zenon
<1> DEFINE G == {n \in Nat : n <= MaxEvents => \A x \in f[n] : Drained(c, s, j, p, q, n, x)}
<1>2. MaxEvents \in Nat \ {0}
  BY GraphWorkerAssumption, Zenon
<1>3. 0 \in G
  <2> DEFINE x == [events |-> <<>>, payload |-> 0, journal |-> j]
  <2>1. f[0] = {x}
    BY <1>1, <1>2 DEF DrainRounds
  <2>2. Chain(c, s, <<>>, p, p) /\ j \in Seq(Mutation)
    BY DEF Chain, JChain
  <2>3. Drained(c, s, j, p, q, 0, x)
    BY <2>2 DEF Drained
  <2> HIDE DEF x
  <2> QED BY <2>1, <2>3, Zenon
<1>4. ASSUME NEW n \in Nat, n \in G
      PROVE  n + 1 \in G
  <2> SUFFICES ASSUME n + 1 <= MaxEvents, NEW x \in f[n + 1]
               PROVE  Drained(c, s, j, p, q, n + 1, x)
    OBVIOUS
  <2>1. f[n + 1] = {DrainStep(d2) : d2 \in f[n]}
    <3>1. n + 1 \in 0 .. MaxEvents /\ n + 1 # 0 /\ (n + 1) - 1 = n
      BY <1>2
    <3> QED BY <1>1, <3>1, Zenon DEF DrainRounds
  <2>2. PICK y \in f[n] : x = DrainStep(y)
    BY <2>1, Zenon
  <2>3. Drained(c, s, j, p, q, n, y)
    BY <1>4, <1>2, <2>2
  <2> QED BY <2>2, <2>3, DrainStepOK, Zenon
<1>5. MaxEvents \in G
  <2> HIDE DEF G
  <2>1. Nat \subseteq G
    BY <1>3, <1>4, SetInduction, Zenon
  <2> QED BY <2>1, <1>2, Zenon
<1>6. Drained(c, s, j, p, q, MaxEvents, d)
  BY <1>1, <1>2, <1>5
<1> QED BY <1>2, <1>6 DEF Drained

-----------------------------------------------------------------------------
(* Apply.                                                                  *)

Receiving == [next_offset : 0 .. SegmentLength - 1, from : SUBSET Run]
Mirror == [page : [Key -> SUBSET Run], receiving : [Key -> Receiving], corrupt : BOOLEAN]

(***************************************************************************)
(* The page has run s's store up to position p: the artifacts before p     *)
(* are there, the receiver has the chunks of the artifact at p, and there  *)
(* is no manifest before the end.                                          *)
(***************************************************************************)
PageAt(c, pg, rc, s, p) ==
  /\ \A k \in StoreKeys(c) : Rank(c, k) < p[1] => pg[k] = {s}
  /\ p[2] # 0 => \A k \in StoreKeys(c) : Rank(c, k) = p[1] =>
                   rc[k] = [next_offset |-> p[2], from |-> {s}]
  /\ p[1] <= c + 2 => pg[Manifest] = {}

(***************************************************************************)
(* Whatever run a manifest is of, its store is there.                      *)
(***************************************************************************)
Whole(x, pg) == \A t \in pg[Manifest] : \A k \in StoreKeys(x[t]) : pg[k] = {t}

(***************************************************************************)
(* The artifacts of a store, in the order of their ranks.                  *)
(***************************************************************************)
LEMMA Ranks ==
  ASSUME NEW c \in 1 .. MaxSegments
  PROVE  /\ c \in Nat /\ StoreKeys(c) \subseteq Key
         /\ \A k \in StoreKeys(c) : /\ k \in Nat /\ Rank(c, k) \in 1 .. c + 2 /\ Rank(c, k) < c + 3
                                    /\ Rank(c, k) = c + 2 <=> k = Manifest
         /\ \A k, l \in StoreKeys(c) : Rank(c, k) = Rank(c, l) => k = l
         /\ Manifest \in StoreKeys(c) /\ Manifest \in Key
BY GraphWorkerAssumption DEF StoreKeys, SegmentKeys, Key, Rank, Manifest, Index

(***************************************************************************)
(* apply: an event that begins where the page has got to is accepted and   *)
(* takes the page to where it ends.                                        *)
(***************************************************************************)
LEMMA ApplyOK ==
  ASSUME NEW x \in [Run -> 1 .. MaxSegments], NEW s \in Run, NEW m \in Mirror, NEW p,
         ~m.corrupt, PageAt(x[s], m.page, m.receiving, s, p), Whole(x, m.page),
         NEW e \in Event, EventOK(x[s], s, e), Before(x[s], e) = p
  PROVE  /\ Apply(m, e) \in Mirror
         /\ ~Apply(m, e).corrupt
         /\ PageAt(x[s], Apply(m, e).page, Apply(m, e).receiving, s, After(x[s], e))
         /\ Whole(x, Apply(m, e).page)
<1> DEFINE c == x[s]
<1>0. c \in 1 .. MaxSegments
  OBVIOUS
<1> HIDE DEF c
<1>1. /\ c \in Nat /\ StoreKeys(c) \subseteq Key
      /\ \A k \in StoreKeys(c) : /\ k \in Nat /\ Rank(c, k) \in 1 .. c + 2
                                 /\ Rank(c, k) = c + 2 <=> k = Manifest
      /\ \A k, l \in StoreKeys(c) : Rank(c, k) = Rank(c, l) => k = l
      /\ Manifest \in StoreKeys(c) /\ Manifest \in Key
  BY <1>0, Ranks, Zenon
<1>2. /\ m.page \in [Key -> SUBSET Run] /\ m.receiving \in [Key -> Receiving]
      /\ m = [page |-> m.page, receiving |-> m.receiving, corrupt |-> m.corrupt]
      /\ m.corrupt = FALSE
  BY Zenon DEF Mirror
<1>3. PageAt(c, m.page, m.receiving, s, p) /\ EventOK(c, s, e) /\ Before(c, e) = p
  BY Zenon DEF c
<1>4. SegmentLength \in Nat \ {0} /\ NotReceiving \in Receiving
  BY GraphWorkerAssumption DEF Receiving, NotReceiving
<1>5. CASE e.kind = "removed"
  <2> DEFINE g == [m.page EXCEPT ![e.key] = {}]
             h == [m.receiving EXCEPT ![e.key] = NotReceiving]
  <2>1. e.key \in Key
    BY <1>5, Zenon DEF Event, Removal
  <2>2. Apply(m, e) = [page |-> g, receiving |-> h, corrupt |-> FALSE]
    BY <1>2, <1>5, Zenon DEF Apply
  <2>3. g \in [Key -> SUBSET Run] /\ h \in [Key -> Receiving]
    BY <1>2, <1>4, <2>1, Zenon
  <2>4. p = Origin /\ After(c, e) = Origin
    BY <1>3, <1>5, Zenon DEF Before, After
  <2>5. m.page[Manifest] = {}
    BY <1>1, <1>3, <2>4 DEF PageAt, Origin
  <2>6. g[Manifest] = {}
    BY <1>1, <1>2, <2>5, Zenon
  <2> HIDE DEF g, h
  <2>7. PageAt(c, g, h, s, Origin)
    BY <1>1, <2>6 DEF PageAt, Origin
  <2>8. Whole(x, g)
    BY <2>6, Zenon DEF Whole
  <2> QED BY <2>2, <2>3, <2>4, <2>7, <2>8 DEF Mirror, c
<1>6. CASE e.kind # "removed"
  <2> DEFINE k == e.key
             r == Rank(c, k)
  <2>1. /\ e.kind = "chunk" /\ k \in Key /\ e.run \in Run /\ e.offset \in Nat /\ e.count \in Nat \ {0}
        /\ e.complete \in BOOLEAN
    BY <1>6, Zenon DEF Event, Removal
  <2>2. /\ k \in StoreKeys(c) /\ e.run = s /\ LengthOf(k) \in Nat
        /\ e.offset + e.count <= LengthOf(k)
        /\ e.complete <=> e.offset + e.count = LengthOf(k)
    BY <1>3, <2>1, Lengths, Zenon DEF EventOK
  <2>3. p = <<r, e.offset>> /\ p[1] = r /\ p[2] = e.offset /\ r \in 1 .. c + 2
    BY <1>1, <1>3, <2>1, <2>2 DEF Before
  <2>4. m.page[Manifest] = {}
    BY <1>1, <1>3, <2>3 DEF PageAt
  <2> DEFINE w == IF Restarts(e, m.receiving[e.key]) THEN NotReceiving ELSE m.receiving[e.key]
             from == w.from \cup {e.run}
  <2>5. w.next_offset = e.offset /\ from = {s}
    <3>1. CASE e.offset = 0
      BY <3>1, <2>2, Zenon DEF Restarts, NotReceiving
    <3>2. CASE e.offset # 0
      <4>1. m.receiving[k] = [next_offset |-> e.offset, from |-> {s}]
        BY <1>3, <2>2, <2>3, <3>2, Zenon DEF PageAt
      <4> QED BY <3>2, <4>1, <2>2 DEF Restarts
    <3> QED BY <3>1, <3>2, Zenon
  <2>6. CASE e.complete
    <3> DEFINE g == [m.page EXCEPT ![k] = {s}]
               h == [m.receiving EXCEPT ![k] = NotReceiving]
    <3>1. Apply(m, e) = [page |-> g, receiving |-> h, corrupt |-> FALSE]
      <4> HIDE DEF w
      <4>1. Apply(m, e) = [m EXCEPT !.page[e.key] = from, !.receiving[e.key] = NotReceiving]
        BY <1>2, <1>6, <2>5, <2>6, Zenon DEF Apply, w
      <4> HIDE DEF from
      <4> QED BY <1>2, <2>5, <4>1, Zenon
    <3>2. g \in [Key -> SUBSET Run] /\ h \in [Key -> Receiving]
      BY <1>2, <1>4, <2>1, Zenon
    <3>3. After(c, e) = <<r + 1, 0>>
      BY <1>6, <2>6, Zenon DEF After
    <3>4. g[k] = {s} /\ \A l \in Key : l # k => g[l] = m.page[l]
      BY <1>2, <2>1, Zenon
    <3> HIDE DEF g, h
    <3>5. ASSUME NEW l \in StoreKeys(c), Rank(c, l) < r + 1 PROVE g[l] = {s}
      <4>1. CASE l = k
        BY <3>4, <4>1, Zenon
      <4>2. CASE l # k
        <5>1. l \in Key /\ Rank(c, l) < r
          BY <1>1, <2>2, <2>3, <3>5, <4>2
        <5> QED BY <1>3, <2>3, <3>4, <4>2, <5>1, Zenon DEF PageAt
      <4> QED BY <4>1, <4>2, Zenon
    <3>6. k # Manifest => g[Manifest] = {}
      BY <1>1, <2>4, <3>4, Zenon
    <3>7. PageAt(c, g, h, s, <<r + 1, 0>>)
      <4>1. r + 1 <= c + 2 => k # Manifest
        BY <1>1, <2>2, <2>3
      <4> HIDE DEF r, k
      <4> QED BY <3>5, <3>6, <4>1, Zenon DEF PageAt
    <3>8. Whole(x, g)
      <4>1. CASE k = Manifest
        <5>1. r + 1 = c + 3 /\ \A l \in StoreKeys(c) : Rank(c, l) < r + 1
          BY <1>1, <2>2, <4>1
        <5>2. \A l \in StoreKeys(c) : g[l] = {s}
          BY <3>5, <5>1, Zenon
        <5>3. g[Manifest] = {s}
          BY <3>4, <4>1, Zenon
        <5> QED BY <5>2, <5>3, Zenon DEF Whole, c
      <4>2. CASE k # Manifest
        BY <3>6, <4>2, Zenon DEF Whole
      <4> QED BY <4>1, <4>2, Zenon
    <3> QED BY <3>1, <3>2, <3>3, <3>7, <3>8 DEF Mirror, c
  <2>7. CASE ~e.complete
    <3> DEFINE v == [next_offset |-> e.offset + e.count, from |-> {s}]
               h == [m.receiving EXCEPT ![k] = v]
    <3>1. Apply(m, e) = [page |-> m.page, receiving |-> h, corrupt |-> FALSE]
      <4> HIDE DEF w
      <4>1. Apply(m, e) = [m EXCEPT !.receiving[e.key] =
                                      [next_offset |-> e.offset + e.count, from |-> from]]
        BY <1>2, <1>6, <2>5, <2>7, Zenon DEF Apply, w
      <4> HIDE DEF from
      <4> QED BY <1>2, <2>5, <4>1, Zenon
    <3>2. v \in Receiving
      BY <1>4, <2>1, <2>2, <2>7 DEF Receiving, LengthOf
    <3>3. h \in [Key -> Receiving] /\ h[k] = v
      <4> HIDE DEF v
      <4> QED BY <1>2, <3>2, <2>1, Zenon
    <3>4. After(c, e) = <<r, e.offset + e.count>>
      BY <1>6, <2>7, Zenon DEF After
    <3> HIDE DEF h
    <3>5. PageAt(c, m.page, h, s, <<r, e.offset + e.count>>)
      <4>1. \A l \in StoreKeys(c) : Rank(c, l) = r => h[l] = v
        BY <1>1, <2>2, <3>3, Zenon
      <4>2. \A l \in StoreKeys(c) : Rank(c, l) < r => m.page[l] = {s}
        BY <1>3, <2>3, Zenon DEF PageAt
      <4> HIDE DEF r, k
      <4> QED BY <2>4, <4>1, <4>2, Zenon DEF PageAt
    <3> QED BY <1>2, <3>1, <3>3, <3>4, <3>5 DEF Mirror, c
  <2> QED BY <2>6, <2>7, Zenon
<1> QED BY <1>5, <1>6, Zenon

(***************************************************************************)
(* The events of a message applied one by one, as a function.              *)
(***************************************************************************)
ApplyRounds(events, f, N) ==
  f = [n \in 0 .. N |->
         IF n = 0 THEN {[page |-> page, receiving |-> receiving, corrupt |-> FALSE]}
         ELSE {Apply(m, events[n]) : m \in f[n - 1]}]

(***************************************************************************)
(* There is such a function, so ApplyAll is its last value.                *)
(***************************************************************************)
LEMMA ApplyDefined ==
  ASSUME NEW events, Len(events) \in Nat
  PROVE  \E f : ApplyRounds(events, f, Len(events)) /\ ApplyAll(events) = f[Len(events)]
<1> DEFINE start == [page |-> page, receiving |-> receiving, corrupt |-> FALSE]
           G == {N \in Nat : \E f : ApplyRounds(events, f, N)}
<1>1. 0 \in G
  <2> DEFINE f == [n \in 0 .. 0 |-> {start}]
  <2>1. ApplyRounds(events, f, 0)
    BY DEF ApplyRounds
  <2> QED BY <2>1, Zenon
<1>2. ASSUME NEW N \in Nat, N \in G
      PROVE  N + 1 \in G
  <2>1. PICK f : ApplyRounds(events, f, N)
    BY <1>2, Zenon
  <2> DEFINE last == {Apply(m, events[N + 1]) : m \in f[N]}
             g == [n \in 0 .. N + 1 |-> IF n = N + 1 THEN last ELSE f[n]]
  <2>2. ASSUME NEW n \in 0 .. N + 1
        PROVE  g[n] = IF n = 0 THEN {start} ELSE {Apply(m, events[n]) : m \in g[n - 1]}
    <3>1. CASE n = N + 1
      <4>1. n # 0 /\ n - 1 = N /\ N \in 0 .. N + 1 /\ N # N + 1
        BY <3>1
      <4>2. g[n - 1] = f[N] /\ g[n] = last
        BY <3>1, <4>1, Zenon
      <4> QED BY <3>1, <4>1, <4>2, Zenon
    <3>2. CASE n # N + 1
      <4>1. n \in 0 .. N /\ g[n] = f[n]
        BY <3>2
      <4>2. f[n] = IF n = 0 THEN {start} ELSE {Apply(m, events[n]) : m \in f[n - 1]}
        BY <2>1, <4>1, Zenon DEF ApplyRounds
      <4>3. n # 0 => g[n - 1] = f[n - 1]
        BY <3>2
      <4> HIDE DEF g, start
      <4> QED BY <4>1, <4>2, <4>3, Zenon
    <3> QED BY <3>1, <3>2, Zenon
  <2>3. g = [n \in 0 .. N + 1 |-> g[n]]
    OBVIOUS
  <2> HIDE DEF g
  <2>4. ApplyRounds(events, g, N + 1)
    BY <2>2, <2>3, Zenon DEF ApplyRounds
  <2> QED BY <2>4
<1>3. Len(events) \in G
  <2> HIDE DEF G
  <2>1. Nat \subseteq G
    BY <1>1, <1>2, SetInduction, Zenon
  <2> QED BY <2>1, Zenon
<1> DEFINE f == CHOOSE f : ApplyRounds(events, f, Len(events))
<1>4. ApplyAll(events) = f[Len(events)]
  BY Zenon DEF ApplyAll, ApplyRounds
<1>5. ApplyRounds(events, f, Len(events))
  BY <1>3, Zenon
<1> QED BY <1>4, <1>5, Zenon

(***************************************************************************)
(* A message without events changes nothing.                               *)
(***************************************************************************)
LEMMA ApplyNone ==
  ApplyAll(<<>>) = {[page |-> page, receiving |-> receiving, corrupt |-> FALSE]}
<1>1. Len(<<>>) = 0
  OBVIOUS
<1>2. PICK f : ApplyRounds(<<>>, f, 0) /\ ApplyAll(<<>>) = f[0]
  BY <1>1, ApplyDefined, Zenon
<1> QED BY <1>2 DEF ApplyRounds

(***************************************************************************)
(* A message whose events begin where the page has got to is accepted.     *)
(***************************************************************************)
LEMMA ApplyAllOK ==
  ASSUME NEW x \in [Run -> 1 .. MaxSegments], NEW s \in Run, NEW p, NEW q, NEW E,
         page \in [Key -> SUBSET Run], receiving \in [Key -> Receiving],
         PageAt(x[s], page, receiving, s, p), Whole(x, page), Chain(x[s], s, E, p, q),
         NEW a \in ApplyAll(E)
  PROVE  /\ a \in Mirror /\ ~a.corrupt
         /\ PageAt(x[s], a.page, a.receiving, s, q) /\ Whole(x, a.page)
<1>0. E \in Seq(Event) /\ Len(E) \in Nat
  BY DEF Chain
<1>1. PICK f : ApplyRounds(E, f, Len(E)) /\ ApplyAll(E) = f[Len(E)]
  BY <1>0, ApplyDefined, Zenon
<1> DEFINE At(n) == IF n = 0 THEN p ELSE After(x[s], E[n])
           Good(n, m) == /\ m \in Mirror /\ ~m.corrupt
                         /\ PageAt(x[s], m.page, m.receiving, s, At(n)) /\ Whole(x, m.page)
           G == {n \in Nat : n <= Len(E) => \A m \in f[n] : Good(n, m)}
<1>2. 0 \in G
  <2> DEFINE m == [page |-> page, receiving |-> receiving, corrupt |-> FALSE]
  <2>1. f[0] = {m}
    BY <1>0, <1>1 DEF ApplyRounds
  <2>2. Good(0, m)
    BY Zenon DEF Mirror
  <2> HIDE DEF m, Good
  <2> QED BY <2>1, <2>2, Zenon
<1>3. ASSUME NEW n \in Nat, n \in G
      PROVE  n + 1 \in G
  <2> SUFFICES ASSUME n + 1 <= Len(E), NEW m \in f[n + 1]
               PROVE  Good(n + 1, m)
    OBVIOUS
  <2>1. f[n + 1] = {Apply(y, E[n + 1]) : y \in f[n]}
    <3>1. n + 1 \in 0 .. Len(E) /\ n + 1 # 0 /\ (n + 1) - 1 = n
      BY <1>0
    <3> QED BY <1>1, <3>1, Zenon DEF ApplyRounds
  <2>2. PICK y \in f[n] : m = Apply(y, E[n + 1])
    BY <2>1, Zenon
  <2>3. Good(n, y)
    BY <1>0, <1>3, <2>2
  <2>4. E[n + 1] \in Event /\ EventOK(x[s], s, E[n + 1])
    BY <1>0 DEF Chain
  <2>5. Before(x[s], E[n + 1]) = At(n)
    <3>1. CASE n = 0
      <4>1. E # <<>>
        BY <1>0
      <4> QED BY <3>1, <4>1 DEF Chain
    <3>2. CASE n # 0
      <4>1. n \in 1 .. Len(E) - 1
        BY <1>0, <3>2
      <4> QED BY <3>2, <4>1, Zenon DEF Chain
    <3> QED BY <3>1, <3>2, Zenon
  <2>6. At(n + 1) = After(x[s], E[n + 1])
    OBVIOUS
  <2> HIDE DEF At
  <2>7. /\ Apply(y, E[n + 1]) \in Mirror /\ ~Apply(y, E[n + 1]).corrupt
        /\ PageAt(x[s], Apply(y, E[n + 1]).page, Apply(y, E[n + 1]).receiving, s,
                  After(x[s], E[n + 1]))
        /\ Whole(x, Apply(y, E[n + 1]).page)
    BY <2>3, <2>4, <2>5, ApplyOK, Zenon
  <2> QED BY <2>2, <2>6, <2>7, Zenon
<1>4. Len(E) \in G
  <2> HIDE DEF G
  <2>1. Nat \subseteq G
    BY <1>2, <1>3, SetInduction, Zenon
  <2> QED BY <1>0, <2>1, Zenon
<1>5. At(Len(E)) = q
  <2>1. CASE E = <<>>
    BY <2>1, Zenon DEF Chain
  <2>2. CASE E # <<>>
    BY <1>0, <2>2 DEF Chain
  <2> QED BY <2>1, <2>2, Zenon
<1>6. Good(Len(E), a)
  <2> HIDE DEF Good
  <2> QED BY <1>0, <1>1, <1>4
<1> HIDE DEF At
<1> QED BY <1>5, <1>6, Zenon

-----------------------------------------------------------------------------
(* The channel.                                                            *)

MessageType == [kind : {"Started", "Artifacts"} \cup Terminal, sequence : Run, events : Seq(Event)]

From(x, m) == IF m.kind = "Finished" THEN End(x[m.sequence])
              ELSE Before(x[m.sequence], m.events[1])

To(x, m) == IF m.kind = "Started" THEN Origin
            ELSE After(x[m.sequence], m.events[Len(m.events)])

MessageOK(x, m) ==
  IF m.kind = "Artifacts"
    THEN m.events # <<>> /\ Chain(x[m.sequence], m.sequence, m.events, From(x, m), To(x, m))
    ELSE m.events = <<>>

\* What may follow what: of one run, or a later run begins.
Ordered(m, n) ==
  /\ m.sequence <= n.sequence
  /\ m.kind \in Terminal \/ n.kind = "Started" => m.sequence < n.sequence

\* Neighbours: artifacts and the end of a run go on where the message before them stopped.
Joined(x, m, n) ==
  n.kind \in {"Artifacts", "Finished"} =>
    /\ n.sequence = m.sequence /\ m.kind \in {"Started", "Artifacts"}
    /\ To(x, m) = From(x, n)

(***************************************************************************)
(* The messages on their way to the page when run s is active (0 for none) *)
(* and the rest of its journal begins at p.                                *)
(***************************************************************************)
ChannelOK(x, ch, s, p) ==
  /\ ch \in Seq(MessageType)
  /\ \A i \in 1 .. Len(ch) : MessageOK(x, ch[i])
  /\ \A i, j \in 1 .. Len(ch) : i < j => Ordered(ch[i], ch[j])
  /\ \A i \in 1 .. Len(ch) - 1 : Joined(x, ch[i], ch[i + 1])
  /\ ch # <<>> => IF s = 0 THEN ch[Len(ch)].kind \in Terminal
                  ELSE /\ ch[Len(ch)].sequence = s
                       /\ ch[Len(ch)].kind \in {"Started", "Artifacts"}
                       /\ To(x, ch[Len(ch)]) = p

(***************************************************************************)
(* Taking the first message.                                               *)
(***************************************************************************)
LEMMA ChannelTail ==
  ASSUME NEW x, NEW ch, NEW s, NEW p, ChannelOK(x, ch, s, p), ch # <<>>
  PROVE  /\ Head(ch) \in MessageType /\ MessageOK(x, Head(ch))
         /\ ChannelOK(x, Tail(ch), s, p)
         /\ Len(ch) \in Nat \ {0} /\ Head(ch) = ch[1]
         /\ Len(Tail(ch)) = Len(ch) - 1
         /\ \A i \in 1 .. Len(Tail(ch)) : Tail(ch)[i] = ch[i + 1] /\ i + 1 \in 1 .. Len(ch)
         /\ \A i \in 1 .. Len(Tail(ch)) : Ordered(Head(ch), Tail(ch)[i])
         /\ Tail(ch) # <<>> => /\ Head(Tail(ch)) = Tail(ch)[1] /\ 1 \in 1 .. Len(Tail(ch))
                               /\ Joined(x, Head(ch), Head(Tail(ch)))
         /\ Tail(ch) = <<>> => Head(ch) = ch[Len(ch)]
<1> DEFINE t == Tail(ch)
<1>1. /\ ch \in Seq(MessageType) /\ Len(ch) \in Nat \ {0}
      /\ t \in Seq(MessageType) /\ Len(t) = Len(ch) - 1
      /\ \A i \in 1 .. Len(t) : t[i] = ch[i + 1] /\ i + 1 \in 1 .. Len(ch)
      /\ Head(ch) = ch[1] /\ ch[1] \in MessageType
      /\ t # <<>> => Head(t) = t[1] /\ 1 \in 1 .. Len(t)
      /\ t = <<>> => Len(ch) = 1
  <2>1. ch \in Seq(MessageType)
    BY Zenon DEF ChannelOK
  <2>2. /\ Len(ch) \in Nat \ {0} /\ t \in Seq(MessageType) /\ Len(t) = Len(ch) - 1
        /\ Head(ch) = ch[1] /\ ch[1] \in MessageType
        /\ \A i \in 1 .. Len(t) : t[i] = ch[i + 1]
    BY <2>1
  <2> HIDE DEF t
  <2> QED BY <2>1, <2>2
<1> HIDE DEF t
<1>2. ASSUME NEW i \in 1 .. Len(t) PROVE MessageOK(x, t[i])
  BY <1>1, Zenon DEF ChannelOK
<1>3. ASSUME NEW i \in 1 .. Len(t), NEW j \in 1 .. Len(t), i < j PROVE Ordered(t[i], t[j])
  <2>1. t[i] = ch[i + 1] /\ t[j] = ch[j + 1] /\ i + 1 < j + 1
    BY <1>1, <1>3
  <2> QED BY <1>1, <2>1, Zenon DEF ChannelOK
<1>4. ASSUME NEW i \in 1 .. Len(t) - 1 PROVE Joined(x, t[i], t[i + 1])
  <2>1. i + 1 \in 1 .. Len(ch) - 1 /\ i \in 1 .. Len(t) /\ i + 1 \in 1 .. Len(t)
    BY <1>1
  <2>2. t[i] = ch[i + 1] /\ t[i + 1] = ch[(i + 1) + 1]
    BY <1>1, <2>1, Zenon
  <2> QED BY <2>1, <2>2, Zenon DEF ChannelOK
<1>5. t # <<>> => t[Len(t)] = ch[Len(ch)]
  BY <1>1
<1>6. ChannelOK(x, t, s, p)
  BY <1>1, <1>2, <1>3, <1>4, <1>5, Zenon DEF ChannelOK
<1>7. MessageOK(x, ch[1])
  BY <1>1 DEF ChannelOK
<1>8. ASSUME NEW i \in 1 .. Len(t) PROVE Ordered(ch[1], t[i])
  <2>1. t[i] = ch[i + 1] /\ i + 1 \in 1 .. Len(ch) /\ 1 \in 1 .. Len(ch) /\ 1 < i + 1
    BY <1>1
  <2> QED BY <2>1, Zenon DEF ChannelOK
<1>9. t # <<>> => Joined(x, ch[1], t[1])
  <2>1. t # <<>> => 1 \in 1 .. Len(ch) - 1 /\ t[1] = ch[1 + 1]
    BY <1>1, Zenon
  <2> QED BY <2>1, Zenon DEF ChannelOK
<1> QED BY <1>1, <1>6, <1>7, <1>8, <1>9, Zenon DEF t

(***************************************************************************)
(* Sending one more message.                                               *)
(***************************************************************************)
LEMMA ChannelAppend ==
  ASSUME NEW x, NEW ch, NEW s, NEW p, ChannelOK(x, ch, s, p),
         NEW m \in MessageType, MessageOK(x, m),
         \A i \in 1 .. Len(ch) : Ordered(ch[i], m),
         ch # <<>> => Joined(x, ch[Len(ch)], m),
         NEW t, NEW q,
         IF t = 0 THEN m.kind \in Terminal
         ELSE m.sequence = t /\ m.kind \in {"Started", "Artifacts"} /\ To(x, m) = q
  PROVE  ChannelOK(x, Append(ch, m), t, q)
<1> DEFINE d == Append(ch, m)
<1>1. /\ ch \in Seq(MessageType) /\ Len(ch) \in Nat
      /\ d \in Seq(MessageType) /\ Len(d) = Len(ch) + 1 /\ d # <<>>
      /\ \A i \in 1 .. Len(ch) : d[i] = ch[i]
      /\ d[Len(ch) + 1] = m
  <2>1. ch \in Seq(MessageType)
    BY Zenon DEF ChannelOK
  <2> QED BY <2>1, Appends, Lens
<1> HIDE DEF d
<1>2. ASSUME NEW i \in 1 .. Len(d) PROVE MessageOK(x, d[i])
  BY <1>1 DEF ChannelOK
<1>3. ASSUME NEW i \in 1 .. Len(d), NEW j \in 1 .. Len(d), i < j PROVE Ordered(d[i], d[j])
  <2>1. i \in 1 .. Len(ch) /\ d[i] = ch[i]
    BY <1>1, <1>3
  <2>2. CASE j = Len(ch) + 1
    BY <1>1, <2>1, <2>2, Zenon
  <2>3. CASE j # Len(ch) + 1
    <3>1. j \in 1 .. Len(ch) /\ d[j] = ch[j]
      BY <1>1, <2>3
    <3> QED BY <1>3, <2>1, <3>1, Zenon DEF ChannelOK
  <2> QED BY <2>2, <2>3, Zenon
<1>4. ASSUME NEW i \in 1 .. Len(d) - 1 PROVE Joined(x, d[i], d[i + 1])
  <2>1. i \in 1 .. Len(ch) /\ d[i] = ch[i]
    BY <1>1
  <2>2. CASE i = Len(ch)
    <3>1. ch # <<>>
      BY <1>1, <2>2
    <3> QED BY <1>1, <2>1, <2>2, <3>1, Zenon
  <2>3. CASE i # Len(ch)
    <3>1. i \in 1 .. Len(ch) - 1 /\ i + 1 \in 1 .. Len(ch) /\ d[i + 1] = ch[i + 1]
      BY <1>1, <2>3
    <3> QED BY <2>1, <3>1, Zenon DEF ChannelOK
  <2> QED BY <2>2, <2>3, Zenon
<1>5. d[Len(d)] = m
  BY <1>1, Zenon
<1> QED BY <1>1, <1>2, <1>3, <1>4, <1>5, Zenon DEF ChannelOK, d

(***************************************************************************)
(* With run s active, the last messages are its own.                       *)
(***************************************************************************)
LEMMA ChannelOfActive ==
  ASSUME NEW x, NEW ch, NEW s \in Run, NEW p, ChannelOK(x, ch, s, p)
  PROVE  \A i \in 1 .. Len(ch) :
           ch[i].sequence \in Run /\ ch[i].sequence <= s /\ (ch[i].kind \in Terminal => ch[i].sequence < s)
<1> SUFFICES ASSUME NEW i \in 1 .. Len(ch)
             PROVE  /\ ch[i].sequence \in Run /\ ch[i].sequence <= s
                    /\ ch[i].kind \in Terminal => ch[i].sequence < s
  OBVIOUS
<1>1. ch \in Seq(MessageType) /\ Len(ch) \in Nat \ {0} /\ ch # <<>> /\ s # 0 /\ ch[i] \in MessageType
  BY DEF ChannelOK, Run
<1>2. ch[Len(ch)].sequence = s /\ ch[Len(ch)].kind \in {"Started", "Artifacts"}
  BY <1>1, Zenon DEF ChannelOK
<1>3. CASE i = Len(ch)
  BY <1>2, <1>3 DEF Terminal, Run
<1>4. CASE i # Len(ch)
  <2>1. i < Len(ch) /\ Len(ch) \in 1 .. Len(ch)
    BY <1>1, <1>4
  <2>2. Ordered(ch[i], ch[Len(ch)])
    BY <2>1, Zenon DEF ChannelOK
  <2> QED BY <1>1, <1>2, <2>2, Zenon DEF Ordered, MessageType
<1> QED BY <1>3, <1>4, Zenon

(***************************************************************************)
(* The active run sends a batch.                                           *)
(***************************************************************************)
LEMMA SendArtifacts ==
  ASSUME NEW x, NEW ch, NEW s \in Run, NEW p, NEW q, NEW E, ChannelOK(x, ch, s, p),
         Chain(x[s], s, E, p, q), E # <<>>
  PROVE  ChannelOK(x, Append(ch, [kind |-> "Artifacts", sequence |-> s, events |-> E]), s, q)
<1> DEFINE m == [kind |-> "Artifacts", sequence |-> s, events |-> E]
<1>1. m.kind = "Artifacts" /\ m.sequence = s /\ m.events = E
  OBVIOUS
<1>2. m \in MessageType
  BY Zenon DEF MessageType, Chain
<1> HIDE DEF m
<1>3. From(x, m) = p /\ To(x, m) = q
  BY <1>1, Zenon DEF From, To, Chain
<1>4. MessageOK(x, m)
  BY <1>1, <1>3, Zenon DEF MessageOK
<1>5. \A i \in 1 .. Len(ch) : Ordered(ch[i], m)
  BY <1>1, ChannelOfActive, Zenon DEF Ordered
<1>6. ch # <<>> => Joined(x, ch[Len(ch)], m)
  <2>1. s # 0
    BY DEF Run
  <2> QED BY <1>1, <1>3, <2>1, Zenon DEF Joined, ChannelOK
<1>7. s # 0
  BY DEF Run
<1>8. ChannelOK(x, Append(ch, m), s, q)
  BY <1>1, <1>2, <1>3, <1>4, <1>5, <1>6, <1>7, ChannelAppend, Zenon
<1> QED BY <1>8, Zenon DEF m

(***************************************************************************)
(* The active run sends its last message.                                  *)
(***************************************************************************)
LEMMA SendEnd ==
  ASSUME NEW x, NEW ch, NEW s \in Run, NEW p, NEW q, NEW kind \in Terminal,
         ChannelOK(x, ch, s, p), kind = "Finished" => p = End(x[s])
  PROVE  ChannelOK(x, Append(ch, Message(kind, s)), 0, q)
<1> DEFINE m == Message(kind, s)
<1>1. m.kind = kind /\ m.sequence = s /\ m.events = <<>>
  BY Zenon DEF Message
<1>2. m \in MessageType
  BY DEF MessageType, Message
<1> HIDE DEF m
<1>3. MessageOK(x, m)
  BY <1>1, Zenon DEF MessageOK, Terminal
<1>4. \A i \in 1 .. Len(ch) : Ordered(ch[i], m)
  BY <1>1, ChannelOfActive, Zenon DEF Ordered, Terminal
<1>5. ch # <<>> => Joined(x, ch[Len(ch)], m)
  <2>1. s # 0
    BY DEF Run
  <2> QED BY <1>1, <2>1, Zenon DEF Joined, ChannelOK, From, Terminal
<1>6. ChannelOK(x, Append(ch, m), 0, q)
  BY <1>1, <1>2, <1>3, <1>4, <1>5, ChannelAppend, Zenon
<1> QED BY <1>6, Zenon DEF m

(***************************************************************************)
(* The first message of a new run: it started, or its start failed.        *)
(***************************************************************************)
LEMMA SendFirst ==
  ASSUME NEW x, NEW ch, NEW p, NEW s \in Run, ChannelOK(x, ch, 0, p),
         \A i \in 1 .. Len(ch) : ch[i].sequence < s
  PROVE  /\ ChannelOK(x, Append(ch, Message("Started", s)), s, Origin)
         /\ \A q : ChannelOK(x, Append(ch, Message("Failed", s)), 0, q)
<1>0. ch \in Seq(MessageType)
  BY Zenon DEF ChannelOK
<1>1. ASSUME NEW kind \in {"Started", "Failed"}, NEW t, NEW q,
             IF kind = "Failed" THEN t = 0 ELSE t = s /\ q = Origin
      PROVE  ChannelOK(x, Append(ch, Message(kind, s)), t, q)
  <2> DEFINE m == Message(kind, s)
  <2>1. m.kind = kind /\ m.sequence = s /\ m.events = <<>>
    BY Zenon DEF Message
  <2>2. m \in MessageType
    BY DEF MessageType, Message, Terminal
  <2> HIDE DEF m
  <2>3. MessageOK(x, m)
    BY <2>1, Zenon DEF MessageOK
  <2>4. ASSUME NEW i \in 1 .. Len(ch) PROVE Ordered(ch[i], m)
    <3>1. ch[i].sequence \in Run /\ ch[i].sequence < s
      <4>1. ch[i] \in MessageType
        BY <1>0
      <4> QED BY <4>1, Zenon DEF MessageType
    <3> QED BY <2>1, <3>1 DEF Ordered, Run
  <2>5. ch # <<>> => Joined(x, ch[Len(ch)], m)
    BY <2>1, Zenon DEF Joined
  <2>6. IF t = 0 THEN m.kind \in Terminal
        ELSE m.sequence = t /\ m.kind \in {"Started", "Artifacts"} /\ To(x, m) = q
    <3>1. s # 0
      BY DEF Run
    <3> QED BY <1>1, <2>1, <3>1, Zenon DEF Terminal, To
  <2>7. ChannelOK(x, Append(ch, m), t, q)
    BY <2>2, <2>3, <2>4, <2>5, <2>6, ChannelAppend, Zenon
  <2> QED BY <2>7, Zenon DEF m
<1> QED BY <1>1, Zenon

-----------------------------------------------------------------------------
(* The requests on their way to the worker.                                *)

Request == [kind : {"Start", "Cancel"}, sequence : Run]

\* Run t is active (j = 0) or its start is the j-th request.
Live(q, a, j, t) == IF j = 0 THEN a = t ELSE q[j].kind = "Start" /\ q[j].sequence = t

CancelIn(q, t, j, i) ==
  \E l \in 1 .. Len(q) : j < l /\ l < i /\ q[l].kind = "Cancel" /\ q[l].sequence = t

\* Where run t is live before the i-th request, it is cancelled before it.
Covered(q, a, i, t) == \A j \in 0 .. i - 1 : Live(q, a, j, t) => CancelIn(q, t, j, i)

(***************************************************************************)
(* The requests q when run a is active (0 for none): a start comes after   *)
(* the cancellation of whatever was started before it, so it never meets a *)
(* busy worker.                                                            *)
(***************************************************************************)
QueueOK(q, a) ==
  /\ q \in Seq(Request)
  /\ \A i \in 1 .. Len(q) : q[i].kind = "Start" =>
       /\ q[i].sequence > a
       /\ \A j \in 1 .. Len(q) : j < i /\ q[j].kind = "Start" => q[j].sequence < q[i].sequence
       /\ \A t \in Run : Covered(q, a, i, t)

\* Every live run satisfies the client's books.
Booked(q, a, P, C) ==
  /\ \A t \in Run : \A j \in 0 .. Len(q) : Live(q, a, j, t) => t \in P
  /\ \A t \in C : Covered(q, a, Len(q) + 1, t)

(***************************************************************************)
(* Whether a run is covered depends on the requests before i only.         *)
(***************************************************************************)
LEMMA CoveredPrefix ==
  ASSUME NEW q \in Seq(Request), NEW r \in Seq(Request), NEW a, NEW t, NEW i \in Nat \ {0},
         i - 1 <= Len(q), i - 1 <= Len(r), \A l \in 1 .. i - 1 : r[l] = q[l],
         Covered(q, a, i, t)
  PROVE  Covered(r, a, i, t)
<1> SUFFICES ASSUME NEW j \in 0 .. i - 1, Live(r, a, j, t) PROVE CancelIn(r, t, j, i)
  BY Zenon DEF Covered
<1>1. Live(q, a, j, t)
  BY DEF Live
<1>2. PICK l \in 1 .. Len(q) : j < l /\ l < i /\ q[l].kind = "Cancel" /\ q[l].sequence = t
  BY <1>1, Zenon DEF Covered, CancelIn
<1>3. l \in 1 .. Len(r) /\ l \in 1 .. i - 1
  BY <1>2
<1> QED BY <1>2, <1>3, Zenon DEF CancelIn

(***************************************************************************)
(* Ending the active run leaves fewer runs to cover.                       *)
(***************************************************************************)
LEMMA CoveredIdle ==
  ASSUME NEW q, NEW a, NEW i, NEW t \in Run, Covered(q, a, i, t)
  PROVE  Covered(q, 0, i, t)
<1>1. t # 0
  BY DEF Run
<1> QED BY <1>1, Zenon DEF Covered, Live

(***************************************************************************)
(* The worker takes the first request.                                     *)
(***************************************************************************)
LEMMA CoveredTail ==
  ASSUME NEW q \in Seq(Request), q # <<>>, NEW a, NEW i \in Nat, NEW t \in Run,
         Covered(q, a, i + 1, t), i >= 1, i <= Len(q)
  PROVE  /\ Head(q).kind = "Start" => Covered(Tail(q), Head(q).sequence, i, t)
         /\ Head(q).kind = "Cancel" =>
              Covered(Tail(q), IF a = Head(q).sequence THEN 0 ELSE a, i, t)
<1>1. /\ Len(q) \in Nat \ {0} /\ Head(q) = q[1] /\ Len(Tail(q)) = Len(q) - 1
      /\ \A l \in 1 .. Len(Tail(q)) : Tail(q)[l] = q[l + 1]
      /\ t # 0
  BY DEF Run
<1>2. ASSUME NEW j \in Nat, CancelIn(q, t, j + 1, i + 1)
      PROVE  CancelIn(Tail(q), t, j, i)
  <2>1. PICK l \in 1 .. Len(q) : j + 1 < l /\ l < i + 1 /\ q[l].kind = "Cancel" /\ q[l].sequence = t
    BY <1>2, Zenon DEF CancelIn
  <2>2. l - 1 \in 1 .. Len(Tail(q)) /\ Tail(q)[l - 1] = q[l] /\ j < l - 1 /\ l - 1 < i
    BY <1>1, <2>1
  <2> QED BY <2>1, <2>2, Zenon DEF CancelIn
<1>3. ASSUME NEW b, NEW j \in 0 .. i - 1, j # 0, Live(Tail(q), b, j, t), j \in 1 .. Len(Tail(q))
      PROVE  CancelIn(Tail(q), t, j, i)
  <2>1. Live(q, a, j + 1, t) /\ j + 1 \in 0 .. (i + 1) - 1
    BY <1>1, <1>3 DEF Live
  <2>2. CancelIn(q, t, j + 1, i + 1)
    BY <2>1, Zenon DEF Covered
  <2> QED BY <1>2, <2>2
<1>4. ASSUME Head(q).kind = "Start" PROVE Covered(Tail(q), Head(q).sequence, i, t)
  <2> SUFFICES ASSUME NEW j \in 0 .. i - 1, Live(Tail(q), Head(q).sequence, j, t)
               PROVE  CancelIn(Tail(q), t, j, i)
    BY Zenon DEF Covered
  <2>1. CASE j = 0
    <3>1. Live(q, a, 1, t) /\ 1 \in 0 .. (i + 1) - 1
      BY <1>1, <1>4, <2>1 DEF Live
    <3>2. CancelIn(q, t, 0 + 1, i + 1)
      BY <3>1 DEF Covered
    <3> QED BY <1>2, <2>1, <3>2, Zenon
  <2>2. CASE j # 0
    <3>1. j \in 1 .. Len(Tail(q))
      BY <1>1, <2>2
    <3> QED BY <1>3, <2>2, <3>1, Zenon
  <2> QED BY <2>1, <2>2, Zenon
<1>5. ASSUME Head(q).kind = "Cancel"
      PROVE  Covered(Tail(q), IF a = Head(q).sequence THEN 0 ELSE a, i, t)
  <2> DEFINE b == IF a = Head(q).sequence THEN 0 ELSE a
  <2> SUFFICES ASSUME NEW j \in 0 .. i - 1, Live(Tail(q), b, j, t)
               PROVE  CancelIn(Tail(q), t, j, i)
    BY Zenon DEF Covered
  <2>1. CASE j = 0
    <3>1. a = t /\ a # Head(q).sequence
      BY <1>1, <2>1, Zenon DEF Live
    <3>2. CancelIn(q, t, 0, i + 1)
      <4>1. Live(q, a, 0, t) /\ 0 \in 0 .. (i + 1) - 1
        BY <3>1 DEF Live
      <4> QED BY <4>1, Zenon DEF Covered
    <3>3. PICK l \in 1 .. Len(q) : 0 < l /\ l < i + 1 /\ q[l].kind = "Cancel" /\ q[l].sequence = t
      BY <3>2, Zenon DEF CancelIn
    <3>4. l # 1
      BY <1>1, <3>1, <3>3, Zenon
    <3>5. CancelIn(q, t, 0 + 1, i + 1)
      BY <3>3, <3>4 DEF CancelIn
    <3> QED BY <1>2, <2>1, <3>5, Zenon
  <2>2. CASE j # 0
    <3>1. j \in 1 .. Len(Tail(q))
      BY <1>1, <2>2
    <3> QED BY <1>3, <2>2, <3>1, Zenon
  <2> QED BY <2>1, <2>2, Zenon
<1> QED BY <1>4, <1>5, Zenon

(***************************************************************************)
(* A start that the worker takes finds it idle, and what is behind the     *)
(* request that it takes is still in order.                                *)
(***************************************************************************)
LEMMA QueueTail ==
  ASSUME NEW q, NEW a \in 0 .. MaxRuns, QueueOK(q, a), q # <<>>
  PROVE  /\ Head(q) \in Request
         /\ Head(q).kind = "Start" => a = 0 /\ QueueOK(Tail(q), Head(q).sequence)
         /\ Head(q).kind = "Cancel" => QueueOK(Tail(q), IF a = Head(q).sequence THEN 0 ELSE a)
<1>1. /\ q \in Seq(Request) /\ Len(q) \in Nat \ {0} /\ Head(q) = q[1] /\ q[1] \in Request
      /\ Tail(q) \in Seq(Request) /\ Len(Tail(q)) = Len(q) - 1
      /\ \A l \in 1 .. Len(Tail(q)) : Tail(q)[l] = q[l + 1] /\ l + 1 \in 1 .. Len(q)
  <2>1. q \in Seq(Request)
    BY Zenon DEF QueueOK
  <2>2. /\ Len(q) \in Nat \ {0} /\ Head(q) = q[1] /\ q[1] \in Request
        /\ Tail(q) \in Seq(Request) /\ Len(Tail(q)) = Len(q) - 1
        /\ \A l \in 1 .. Len(Tail(q)) : Tail(q)[l] = q[l + 1]
    BY <2>1
  <2> QED BY <2>1, <2>2
<1>2. ASSUME NEW i \in 1 .. Len(Tail(q)), Tail(q)[i].kind = "Start"
      PROVE  /\ q[i + 1].kind = "Start" /\ i + 1 \in 1 .. Len(q) /\ q[i + 1] \in Request
             /\ q[i + 1].sequence > a /\ Tail(q)[i].sequence = q[i + 1].sequence
             /\ \A j \in 1 .. Len(Tail(q)) : j < i /\ Tail(q)[j].kind = "Start" =>
                                               Tail(q)[j].sequence < Tail(q)[i].sequence
             /\ \A t \in Run : Covered(q, a, i + 1, t)
             /\ i >= 1 /\ i <= Len(q)
  <2>1. q[i + 1].kind = "Start" /\ i + 1 \in 1 .. Len(q) /\ Tail(q)[i] = q[i + 1] /\ q[i + 1] \in Request
    BY <1>1, <1>2
  <2>2. ASSUME NEW j \in 1 .. Len(Tail(q)), j < i, Tail(q)[j].kind = "Start"
        PROVE  Tail(q)[j].sequence < Tail(q)[i].sequence
    <3>1. j + 1 \in 1 .. Len(q) /\ j + 1 < i + 1 /\ Tail(q)[j] = q[j + 1]
      BY <1>1, <2>2
    <3> QED BY <2>1, <2>2, <3>1, Zenon DEF QueueOK
  <2>3. q[i + 1].sequence > a /\ \A t \in Run : Covered(q, a, i + 1, t)
    BY <2>1, Zenon DEF QueueOK
  <2> QED BY <1>1, <2>1, <2>2, <2>3
<1>3. ASSUME Head(q).kind = "Start" PROVE a = 0 /\ QueueOK(Tail(q), Head(q).sequence)
  <2>1. a = 0
    <3> SUFFICES ASSUME a # 0 PROVE FALSE
      OBVIOUS
    <3>1. a \in Run /\ 1 \in 1 .. Len(q)
      BY <1>1, GraphWorkerAssumption DEF Run
    <3>2. Covered(q, a, 1, a)
      BY <1>1, <1>3, <3>1, Zenon DEF QueueOK
    <3>3. CancelIn(q, a, 0, 1)
      BY <3>2 DEF Covered, Live
    <3> QED BY <3>3 DEF CancelIn
  <2>2. ASSUME NEW i \in 1 .. Len(Tail(q)), Tail(q)[i].kind = "Start"
        PROVE  Tail(q)[i].sequence > Head(q).sequence
    <3>1. 1 \in 1 .. Len(q) /\ 1 < i + 1 /\ q[i + 1].kind = "Start" /\ i + 1 \in 1 .. Len(q)
      BY <1>1, <1>2, <2>2
    <3>2. q[1].sequence < q[i + 1].sequence
      BY <1>1, <1>3, <3>1, Zenon DEF QueueOK
    <3>3. q[1].sequence \in Nat /\ q[i + 1].sequence \in Nat
      <4>1. q[1] \in Request /\ q[i + 1] \in Request
        BY <1>1, <1>2, <2>2, Zenon
      <4> QED BY <4>1 DEF Request, Run
    <3> QED BY <1>1, <3>2, <3>3, Zenon
  <2>3. ASSUME NEW i \in 1 .. Len(Tail(q)), Tail(q)[i].kind = "Start", NEW t \in Run
        PROVE  Covered(Tail(q), Head(q).sequence, i, t)
    BY <1>1, <1>2, <1>3, <2>3, CoveredTail
  <2> QED BY <1>1, <1>2, <2>1, <2>2, <2>3, Zenon DEF QueueOK
<1>4. ASSUME Head(q).kind = "Cancel"
      PROVE  QueueOK(Tail(q), IF a = Head(q).sequence THEN 0 ELSE a)
  <2> DEFINE b == IF a = Head(q).sequence THEN 0 ELSE a
  <2>1. ASSUME NEW i \in 1 .. Len(Tail(q)), Tail(q)[i].kind = "Start"
        PROVE  Tail(q)[i].sequence > b
    <3>1. q[i + 1].sequence > a /\ Tail(q)[i].sequence = q[i + 1].sequence
          /\ q[i + 1].sequence \in Run
      BY <1>2, <2>1, Zenon DEF Request
    <3> QED BY <3>1 DEF Run
  <2>2. ASSUME NEW i \in 1 .. Len(Tail(q)), Tail(q)[i].kind = "Start", NEW t \in Run
        PROVE  Covered(Tail(q), b, i, t)
    BY <1>1, <1>2, <1>4, <2>2, CoveredTail
  <2> HIDE DEF b
  <2>3. QueueOK(Tail(q), b)
    BY <1>1, <1>2, <2>1, <2>2, Zenon DEF QueueOK
  <2> QED BY <2>3, Zenon DEF b
<1> QED BY <1>1, <1>3, <1>4, Zenon

(***************************************************************************)
(* So are the client's books about it.                                     *)
(***************************************************************************)
LEMMA BookedTail ==
  ASSUME NEW q \in Seq(Request), NEW a, NEW P, NEW C \in SUBSET Run, Booked(q, a, P, C), q # <<>>
  PROVE  /\ Head(q).kind = "Start" => Booked(Tail(q), Head(q).sequence, P, C)
         /\ Head(q).kind = "Cancel" => Booked(Tail(q), IF a = Head(q).sequence THEN 0 ELSE a, P, C)
<1>1. /\ Len(q) \in Nat \ {0} /\ Head(q) = q[1] /\ Len(Tail(q)) = Len(q) - 1
      /\ \A l \in 1 .. Len(Tail(q)) : Tail(q)[l] = q[l + 1] /\ l + 1 \in 1 .. Len(q)
      /\ Len(q) >= 1 /\ Len(q) <= Len(q) /\ Len(Tail(q)) + 1 = Len(q)
  OBVIOUS
<1>2. ASSUME NEW b, NEW t \in Run, NEW j \in 0 .. Len(Tail(q)), Live(Tail(q), b, j, t),
             b = t => t \in P
      PROVE  t \in P
  <2>1. CASE j = 0
    BY <1>2, <2>1, Zenon DEF Live
  <2>2. CASE j # 0
    <3>1. Live(q, a, j + 1, t) /\ j + 1 \in 0 .. Len(q)
      BY <1>1, <1>2, <2>2 DEF Live
    <3> QED BY <3>1, Zenon DEF Booked
  <2> QED BY <2>1, <2>2, Zenon
<1>3. ASSUME NEW t \in C
      PROVE  /\ Head(q).kind = "Start" => Covered(Tail(q), Head(q).sequence, Len(q), t)
             /\ Head(q).kind = "Cancel" =>
                  Covered(Tail(q), IF a = Head(q).sequence THEN 0 ELSE a, Len(q), t)
  <2>1. Covered(q, a, Len(q) + 1, t) /\ t \in Run
    BY Zenon DEF Booked
  <2> QED BY <1>1, <2>1, CoveredTail, Zenon
<1>4. ASSUME Head(q).kind = "Start" PROVE Booked(Tail(q), Head(q).sequence, P, C)
  <2>1. ASSUME NEW t \in Run, Head(q).sequence = t PROVE t \in P
    <3>1. Live(q, a, 1, t) /\ 1 \in 0 .. Len(q)
      BY <1>1, <1>4, <2>1 DEF Live
    <3> QED BY <3>1, Zenon DEF Booked
  <2> QED BY <1>1, <1>2, <1>3, <1>4, <2>1, Zenon DEF Booked
<1>5. ASSUME Head(q).kind = "Cancel"
      PROVE  Booked(Tail(q), IF a = Head(q).sequence THEN 0 ELSE a, P, C)
  <2> DEFINE b == IF a = Head(q).sequence THEN 0 ELSE a
  <2>1. ASSUME NEW t \in Run, b = t PROVE t \in P
    <3>1. Live(q, a, 0, t) /\ 0 \in 0 .. Len(q)
      BY <1>1, <2>1 DEF Live, Run
    <3> QED BY <3>1, Zenon DEF Booked
  <2>2. \A t \in C : Covered(Tail(q), b, Len(q), t)
    BY <1>3, <1>5, Zenon
  <2> HIDE DEF b
  <2>3. Booked(Tail(q), b, P, C)
    BY <1>1, <1>2, <2>1, <2>2, Zenon DEF Booked
  <2> QED BY <2>3, Zenon DEF b
<1> QED BY <1>4, <1>5, Zenon

(***************************************************************************)
(* The active run ends.                                                    *)
(***************************************************************************)
LEMMA QueueIdle ==
  ASSUME NEW q, NEW a, NEW P, NEW C \in SUBSET Run
  PROVE  /\ QueueOK(q, a) => QueueOK(q, 0)
         /\ Booked(q, a, P, C) => Booked(q, 0, P, C)
<1>1. ASSUME QueueOK(q, a) PROVE QueueOK(q, 0)
  <2>0. q \in Seq(Request)
    BY <1>1, Zenon DEF QueueOK
  <2>1. ASSUME NEW i \in 1 .. Len(q), q[i].kind = "Start"
        PROVE  q[i].sequence > 0
    <3>1. q[i] \in Request
      BY <2>0
    <3> QED BY <3>1 DEF Request, Run
  <2>2. ASSUME NEW i \in 1 .. Len(q), q[i].kind = "Start", NEW t \in Run
        PROVE  Covered(q, 0, i, t)
    <3>1. Covered(q, a, i, t)
      BY <1>1, <2>2, Zenon DEF QueueOK
    <3> QED BY <3>1, CoveredIdle, Zenon
  <2> QED BY <1>1, <2>1, <2>2, Zenon DEF QueueOK
<1>2. ASSUME Booked(q, a, P, C) PROVE Booked(q, 0, P, C)
  <2>1. \A t \in Run : t # 0
    BY DEF Run
  <2>2. \A t \in C : Covered(q, 0, Len(q) + 1, t)
    BY <1>2, CoveredIdle, Zenon DEF Booked
  <2> QED BY <1>2, <2>1, <2>2, Zenon DEF Booked, Live
<1> QED BY <1>1, <1>2, Zenon

(***************************************************************************)
(* The first requests of a queue that is in order are in order.            *)
(***************************************************************************)
LEMMA QueuePrefix ==
  ASSUME NEW q \in Seq(Request), NEW r \in Seq(Request), NEW a, QueueOK(q \o r, a)
  PROVE  QueueOK(q, a)
<1> DEFINE w == q \o r
<1>1. /\ w \in Seq(Request) /\ Len(q) \in Nat /\ Len(w) \in Nat /\ Len(q) <= Len(w)
      /\ \A i \in 1 .. Len(q) : w[i] = q[i] /\ i \in 1 .. Len(w)
  OBVIOUS
<1>2. QueueOK(w, a)
  OBVIOUS
<1> HIDE DEF w
<1>3. ASSUME NEW i \in 1 .. Len(q), q[i].kind = "Start"
      PROVE  /\ q[i].sequence > a
             /\ \A j \in 1 .. Len(q) : j < i /\ q[j].kind = "Start" => q[j].sequence < q[i].sequence
             /\ \A t \in Run : Covered(q, a, i, t)
  <2>1. w[i] = q[i] /\ i \in 1 .. Len(w)
    BY <1>1, Zenon
  <2>2. q[i].sequence > a
    BY <1>2, <1>3, <2>1, Zenon DEF QueueOK
  <2>3. ASSUME NEW j \in 1 .. Len(q), j < i, q[j].kind = "Start"
        PROVE  q[j].sequence < q[i].sequence
    <3>1. w[j] = q[j] /\ j \in 1 .. Len(w)
      BY <1>1, Zenon
    <3> QED BY <1>2, <1>3, <2>1, <2>3, <3>1, Zenon DEF QueueOK
  <2>4. ASSUME NEW t \in Run PROVE Covered(q, a, i, t)
    <3>1. Covered(w, a, i, t)
      BY <1>2, <1>3, <2>1, Zenon DEF QueueOK
    <3>2. /\ i \in Nat \ {0} /\ i - 1 <= Len(q) /\ i - 1 <= Len(w)
          /\ \A l \in 1 .. i - 1 : q[l] = w[l]
      BY <1>1
    <3> QED BY <1>1, <3>1, <3>2, CoveredPrefix, Zenon
  <2> QED BY <2>2, <2>3, <2>4, Zenon
<1> QED BY <1>3, Zenon DEF QueueOK

(***************************************************************************)
(* One more request: the queue so far stays in order, and a run that was   *)
(* covered at its end still is, unless the request starts it again.        *)
(***************************************************************************)
LEMMA QueueAppend ==
  ASSUME NEW q, NEW a, QueueOK(q, a), NEW r \in Request
  PROVE  /\ q \in Seq(Request) /\ Len(q) \in Nat
         /\ Append(q, r) \in Seq(Request) /\ Len(Append(q, r)) = Len(q) + 1
         /\ \A i \in 1 .. Len(q) : Append(q, r)[i] = q[i]
         /\ Append(q, r)[Len(q) + 1] = r
         /\ \A i \in 1 .. Len(q) : Append(q, r)[i].kind = "Start" =>
              /\ Append(q, r)[i].sequence > a
              /\ \A j \in 1 .. Len(q) : j < i /\ Append(q, r)[j].kind = "Start" =>
                   Append(q, r)[j].sequence < Append(q, r)[i].sequence
              /\ \A t \in Run : Covered(Append(q, r), a, i, t)
         /\ \A t \in Run : Covered(q, a, Len(q) + 1, t) => Covered(Append(q, r), a, Len(q) + 1, t)
         /\ \A t \in Run : Covered(q, a, Len(q) + 1, t) /\ ~(r.kind = "Start" /\ r.sequence = t) =>
                             Covered(Append(q, r), a, Len(q) + 2, t)
         /\ r.kind = "Cancel" => Covered(Append(q, r), a, Len(q) + 2, r.sequence)
<1> DEFINE w == Append(q, r)
<1>1. /\ q \in Seq(Request) /\ Len(q) \in Nat
      /\ w \in Seq(Request) /\ Len(w) = Len(q) + 1
      /\ \A i \in 1 .. Len(q) : w[i] = q[i]
      /\ w[Len(q) + 1] = r
  <2>1. q \in Seq(Request)
    BY Zenon DEF QueueOK
  <2> QED BY <2>1, Appends, Lens
<1> HIDE DEF w
<1>2. ASSUME NEW i \in 1 .. Len(q) + 1, NEW t, Covered(q, a, i, t) PROVE Covered(w, a, i, t)
  <2>1. /\ i \in Nat \ {0} /\ i - 1 <= Len(q) /\ i - 1 <= Len(w)
        /\ \A l \in 1 .. i - 1 : w[l] = q[l]
    BY <1>1
  <2> QED BY <1>1, <1>2, <2>1, CoveredPrefix, Zenon
<1>3. ASSUME NEW i \in 1 .. Len(q), w[i].kind = "Start"
      PROVE  /\ w[i].sequence > a
             /\ \A j \in 1 .. Len(q) : j < i /\ w[j].kind = "Start" => w[j].sequence < w[i].sequence
             /\ \A t \in Run : Covered(w, a, i, t)
  <2>1. q[i].kind = "Start" /\ w[i] = q[i] /\ i \in 1 .. Len(q) + 1
    BY <1>1, <1>3
  <2>2. /\ q[i].sequence > a
        /\ \A j \in 1 .. Len(q) : j < i /\ q[j].kind = "Start" => q[j].sequence < q[i].sequence
        /\ \A t \in Run : Covered(q, a, i, t)
    BY <2>1, Zenon DEF QueueOK
  <2> QED BY <1>1, <1>2, <2>1, <2>2, Zenon
<1>4. ASSUME NEW t \in Run, Covered(q, a, Len(q) + 1, t), ~(r.kind = "Start" /\ r.sequence = t)
      PROVE  Covered(w, a, Len(q) + 2, t)
  <2> SUFFICES ASSUME NEW j \in 0 .. (Len(q) + 2) - 1, Live(w, a, j, t)
               PROVE  CancelIn(w, t, j, Len(q) + 2)
    BY Zenon DEF Covered
  <2>1. j # Len(q) + 1
    BY <1>1, <1>4 DEF Live
  <2>2. j \in 0 .. (Len(q) + 1) - 1
    BY <1>1, <2>1
  <2>3. Covered(w, a, Len(q) + 1, t)
    BY <1>1, <1>2, <1>4
  <2>4. CancelIn(w, t, j, Len(q) + 1)
    BY <2>2, <2>3, Zenon DEF Covered
  <2> QED BY <1>1, <2>4 DEF CancelIn
<1>5. ASSUME r.kind = "Cancel" PROVE Covered(w, a, Len(q) + 2, r.sequence)
  <2> SUFFICES ASSUME NEW j \in 0 .. (Len(q) + 2) - 1, Live(w, a, j, r.sequence)
               PROVE  CancelIn(w, r.sequence, j, Len(q) + 2)
    BY Zenon DEF Covered
  <2>1. j # Len(q) + 1
    BY <1>1, <1>5 DEF Live
  <2>2. j < Len(q) + 1 /\ Len(q) + 1 \in 1 .. Len(w) /\ Len(q) + 1 < Len(q) + 2
    BY <1>1, <2>1
  <2> QED BY <1>1, <1>5, <2>2, Zenon DEF CancelIn
<1>6. \A t \in Run : Covered(q, a, Len(q) + 1, t) => Covered(w, a, Len(q) + 1, t)
  BY <1>1, <1>2
<1> QED BY <1>1, <1>3, <1>4, <1>5, <1>6, Zenon DEF w

(***************************************************************************)
(* The client cancels run s.                                               *)
(***************************************************************************)
LEMMA QueueCancel ==
  ASSUME NEW q, NEW a, QueueOK(q, a), NEW P \in SUBSET Run, NEW C \in SUBSET P, NEW s \in P,
         Booked(q, a, P, C), NEW r \in Request, r.kind = "Cancel", r.sequence = s
  PROVE  QueueOK(Append(q, r), a) /\ Booked(Append(q, r), a, P, C \cup {s})
<1> DEFINE w == Append(q, r)
<1>1. /\ q \in Seq(Request) /\ Len(q) \in Nat
      /\ w \in Seq(Request) /\ Len(w) = Len(q) + 1
      /\ \A i \in 1 .. Len(q) : w[i] = q[i]
      /\ w[Len(q) + 1] = r
      /\ \A i \in 1 .. Len(q) : w[i].kind = "Start" =>
           /\ w[i].sequence > a
           /\ \A j \in 1 .. Len(q) : j < i /\ w[j].kind = "Start" => w[j].sequence < w[i].sequence
           /\ \A t \in Run : Covered(w, a, i, t)
      /\ \A t \in Run : Covered(q, a, Len(q) + 1, t) => Covered(w, a, Len(q) + 2, t)
      /\ Covered(w, a, Len(q) + 2, s)
  <2>1. r.kind # "Start" /\ s \in Run
    BY Zenon
  <2> QED BY <2>1, QueueAppend, Zenon
<1> HIDE DEF w
<1>2. \A i \in 0 .. Len(w) : (i # 0 => w[i].kind = "Start") => i \in 0 .. Len(q)
  <2>1. w[Len(q) + 1].kind # "Start"
    BY <1>1, Zenon
  <2>2. \A n \in Nat : n + 1 # 0 /\ \A i \in 0 .. n + 1 : i # n + 1 => i \in 0 .. n
    OBVIOUS
  <2> QED BY <1>1, <2>1, <2>2, Zenon
<1>3. QueueOK(w, a)
  <2>1. \A i \in 1 .. Len(w) : i # 0 /\ i \in 0 .. Len(w)
    BY <1>1
  <2>2. \A i \in 0 .. Len(q) : i # 0 => i \in 1 .. Len(q)
    BY <1>1, Places, Zenon
  <2>3. \A i \in 1 .. Len(w) : w[i].kind = "Start" => i \in 1 .. Len(q)
    BY <1>2, <2>1, <2>2, Zenon
  <2> QED BY <1>1, <2>3, Zenon DEF QueueOK
<1>4. ASSUME NEW t \in Run, NEW j \in 0 .. Len(w), Live(w, a, j, t) PROVE t \in P
  <2>1. j \in 0 .. Len(q)
    BY <1>2, <1>4, Zenon DEF Live
  <2>2. j # 0 => j \in 1 .. Len(q)
    BY <1>1, <2>1, Places, Zenon
  <2>3. Live(q, a, j, t)
    BY <1>1, <1>4, <2>2, Zenon DEF Live
  <2> QED BY <2>1, <2>3, Zenon DEF Booked
<1>5. ASSUME NEW t \in C \cup {s} PROVE Covered(w, a, Len(w) + 1, t)
  <2>1. Len(w) + 1 = Len(q) + 2
    BY <1>1
  <2>2. t = s \/ (t \in Run /\ Covered(q, a, Len(q) + 1, t))
    BY Zenon DEF Booked
  <2> QED BY <1>1, <2>1, <2>2, Zenon
<1> QED BY <1>3, <1>4, <1>5, Zenon DEF Booked, w

(***************************************************************************)
(* The client starts run s when all its other runs are cancelled.          *)
(***************************************************************************)
LEMMA QueueStart ==
  ASSUME NEW q, NEW a, QueueOK(q, a), NEW P \in SUBSET Run, NEW s \in Run \ P,
         Booked(q, a, P, P), NEW r \in Request, r.kind = "Start", r.sequence = s,
         s > a, \A i \in 1 .. Len(q) : q[i].kind = "Start" => q[i].sequence < s
  PROVE  QueueOK(Append(q, r), a) /\ Booked(Append(q, r), a, P \cup {s}, P)
<1> DEFINE w == Append(q, r)
<1>1. /\ q \in Seq(Request) /\ Len(q) \in Nat
      /\ w \in Seq(Request) /\ Len(w) = Len(q) + 1
      /\ \A i \in 1 .. Len(q) : w[i] = q[i]
      /\ w[Len(q) + 1] = r
      /\ \A i \in 1 .. Len(q) : w[i].kind = "Start" =>
           /\ w[i].sequence > a
           /\ \A j \in 1 .. Len(q) : j < i /\ w[j].kind = "Start" => w[j].sequence < w[i].sequence
           /\ \A t \in Run : Covered(w, a, i, t)
      /\ \A t \in Run : Covered(q, a, Len(q) + 1, t) => Covered(w, a, Len(q) + 1, t)
      /\ \A t \in Run : Covered(q, a, Len(q) + 1, t) /\ t # s => Covered(w, a, Len(q) + 2, t)
  BY QueueAppend, Zenon
<1> HIDE DEF w
<1>2. ASSUME NEW t \in Run PROVE Covered(q, a, Len(q) + 1, t)
  <2>1. CASE t \in P
    BY <2>1, Zenon DEF Booked
  <2>2. CASE t \notin P
    <3>1. \A j \in 0 .. Len(q) : ~Live(q, a, j, t)
      BY <2>2, Zenon DEF Booked
    <3>2. (Len(q) + 1) - 1 = Len(q)
      BY <1>1
    <3> QED BY <3>1, <3>2, Zenon DEF Covered
  <2> QED BY <2>1, <2>2, Zenon
<1>3. ASSUME NEW i \in 1 .. Len(w), w[i].kind = "Start"
      PROVE  /\ w[i].sequence > a
             /\ \A j \in 1 .. Len(w) : j < i /\ w[j].kind = "Start" => w[j].sequence < w[i].sequence
             /\ \A t \in Run : Covered(w, a, i, t)
  <2>1. CASE i = Len(q) + 1
    <3>1. w[i].sequence = s
      BY <1>1, <2>1, Zenon
    <3>2. ASSUME NEW j \in 1 .. Len(w), j < i, w[j].kind = "Start" PROVE w[j].sequence < s
      <4>1. j \in 1 .. Len(q) /\ w[j] = q[j]
        BY <1>1, <2>1, <3>2
      <4> QED BY <3>2, <4>1, Zenon
    <3>3. \A t \in Run : Covered(w, a, i, t)
      BY <1>1, <1>2, <2>1, Zenon
    <3> QED BY <3>1, <3>2, <3>3, Zenon
  <2>2. CASE i # Len(q) + 1
    <3>1. i \in 1 .. Len(q) /\ \A j \in 1 .. Len(w) : j < i => j \in 1 .. Len(q)
      BY <1>1, <2>2
    <3> QED BY <1>1, <1>3, <3>1, Zenon
  <2> QED BY <2>1, <2>2, Zenon
<1>4. QueueOK(w, a)
  BY <1>1, <1>3, Zenon DEF QueueOK
<1>5. ASSUME NEW t \in Run, NEW j \in 0 .. Len(w), Live(w, a, j, t) PROVE t \in P \cup {s}
  <2>1. CASE j = Len(q) + 1
    BY <1>1, <1>5, <2>1 DEF Live
  <2>2. CASE j # Len(q) + 1
    <3>1. j \in 0 .. Len(q) /\ Live(q, a, j, t)
      BY <1>1, <1>5, <2>2 DEF Live
    <3> QED BY <3>1, Zenon DEF Booked
  <2> QED BY <2>1, <2>2, Zenon
<1>6. ASSUME NEW t \in P PROVE Covered(w, a, Len(w) + 1, t)
  <2>1. Len(w) + 1 = Len(q) + 2 /\ t # s
    BY <1>1
  <2> QED BY <1>1, <1>2, <2>1, Zenon
<1> QED BY <1>4, <1>5, <1>6, Zenon DEF Booked, w

-----------------------------------------------------------------------------
(* What the worker journals.                                               *)

(***************************************************************************)
(* remove_cache_artifacts journals removals only.                          *)
(***************************************************************************)
LEMMA SegmentRemovalsOK == SegmentRemovals \in Seq(Removal)
<1> DEFINE Body(f, n) == IF n = 0 THEN <<>>
                         ELSE IF stored[n + 1] # 0 THEN Append(f[n - 1], Removed(n + 1))
                         ELSE f[n - 1]
           Is(f, N) == f = [n \in 0 .. N |-> Body(f, n)]
           G == {N \in Nat : \E f : Is(f, N)}
<1>1. 0 \in G
  <2> DEFINE f == [n \in 0 .. 0 |-> <<>>]
  <2>1. Is(f, 0)
    OBVIOUS
  <2> QED BY <2>1, Zenon
<1>2. ASSUME NEW N \in Nat, N \in G PROVE N + 1 \in G
  <2>1. PICK f : Is(f, N)
    BY <1>2, Zenon
  <2> DEFINE last == IF stored[N + 2] # 0 THEN Append(f[N], Removed(N + 2)) ELSE f[N]
             g == [n \in 0 .. N + 1 |-> IF n = N + 1 THEN last ELSE f[n]]
  <2>2. ASSUME NEW n \in 0 .. N + 1 PROVE g[n] = Body(g, n)
    <3>1. CASE n = N + 1
      <4>1. n # 0 /\ n - 1 = N /\ N \in 0 .. N + 1 /\ N # N + 1 /\ n + 1 = N + 2
        BY <3>1
      <4>2. g[n - 1] = f[N] /\ g[n] = last
        BY <3>1, <4>1, Zenon
      <4> HIDE DEF g
      <4> QED BY <4>1, <4>2, Zenon
    <3>2. CASE n # N + 1
      <4>1. n \in 0 .. N /\ g[n] = f[n] /\ (n # 0 => g[n - 1] = f[n - 1])
        BY <3>2
      <4>2. f[n] = Body(f, n)
        BY <2>1, <4>1, Zenon
      <4> HIDE DEF g
      <4> QED BY <4>1, <4>2, Zenon
    <3> QED BY <3>1, <3>2, Zenon
  <2>3. g = [n \in 0 .. N + 1 |-> g[n]]
    OBVIOUS
  <2> HIDE DEF g, Body
  <2>4. Is(g, N + 1)
    BY <2>2, <2>3, Zenon
  <2> QED BY <2>4
<1>3. MaxSegments \in Nat
  BY GraphWorkerAssumption, Zenon
<1>4. MaxSegments \in G
  <2> HIDE DEF G
  <2> QED BY <1>1, <1>2, <1>3, SetInduction, Zenon
<1> DEFINE f == CHOOSE f : Is(f, MaxSegments)
<1>5. SegmentRemovals = f[MaxSegments]
  BY Zenon DEF SegmentRemovals
<1>6. Is(f, MaxSegments)
  <2> HIDE DEF Is
  <2> QED BY <1>4, Zenon
<1> HIDE DEF f
<1> DEFINE H == {n \in Nat : n <= MaxSegments => f[n] \in Seq(Removal)}
<1>7. 0 \in H
  BY <1>3, <1>6
<1>8. ASSUME NEW n \in Nat, n \in H PROVE n + 1 \in H
  <2> SUFFICES ASSUME n + 1 <= MaxSegments PROVE f[n + 1] \in Seq(Removal)
    OBVIOUS
  <2>1. n + 1 \in 0 .. MaxSegments /\ n + 1 # 0 /\ (n + 1) - 1 = n /\ n <= MaxSegments
    BY <1>3
  <2>2. f[n] \in Seq(Removal)
    BY <1>8, <2>1, Zenon
  <2>3. Removed((n + 1) + 1) \in Removal
    BY <1>3 DEF Removed, Removal, Key
  <2>4. f[n + 1] = IF stored[(n + 1) + 1] # 0 THEN Append(f[n], Removed((n + 1) + 1)) ELSE f[n]
    BY <1>6, <2>1, Zenon
  <2> QED BY <2>2, <2>3, <2>4
<1>9. MaxSegments \in H
  <2> HIDE DEF H
  <2> QED BY <1>3, <1>7, <1>8, SetInduction, Zenon
<1> QED BY <1>3, <1>5, <1>9

(***************************************************************************)
(* start: the journal of a start begins and ends before the first artifact *)
(* of the new store.                                                       *)
(***************************************************************************)
LEMMA StartJournalOK ==
  /\ StartJournal \in Seq(Removal) /\ StartJournal # <<>>
  /\ StartJournal \in Seq(Mutation)
  /\ \A c, s : JChain(c, s, StartJournal, Origin, Origin) /\ MBefore(c, StartJournal[1]) = Origin
<1> DEFINE entry == <<Removed(Manifest), Removed(Index)>>
<1>1. Removed(Manifest) \in Removal /\ Removed(Index) \in Removal
  BY GraphWorkerAssumption DEF Removed, Removal, Key, Manifest, Index
<1>2. entry \in Seq(Removal) /\ Len(entry) = 2
  BY <1>1
<1> HIDE DEF entry
<1> DEFINE cleared == IF \E k \in Key : stored[k] # 0 THEN entry \o SegmentRemovals ELSE <<>>
<1>3. cleared \in Seq(Removal)
  BY <1>2, SegmentRemovalsOK
<1>4. StartJournal = cleared \o entry
  BY Zenon DEF StartJournal, entry
<1> HIDE DEF cleared
<1>5. StartJournal \in Seq(Removal) /\ StartJournal # <<>> /\ Len(StartJournal) \in Nat \ {0}
  BY <1>2, <1>3, <1>4
<1>6. Removal \subseteq Mutation
  BY Zenon DEF Mutation
<1>7. StartJournal \in Seq(Mutation)
  BY <1>5, <1>6, Widens, Zenon
<1>8. ASSUME NEW i \in 1 .. Len(StartJournal) PROVE StartJournal[i].kind = "removed"
  <2>1. StartJournal[i] \in Removal
    BY <1>5
  <2> QED BY <2>1, Zenon DEF Removal
<1>9. \A i \in 1 .. Len(StartJournal) - 1 : i + 1 \in 1 .. Len(StartJournal) /\ i \in 1 .. Len(StartJournal)
  BY <1>5
<1>10. 1 \in 1 .. Len(StartJournal) /\ Len(StartJournal) \in 1 .. Len(StartJournal)
  BY <1>5
<1> QED BY <1>5, <1>7, <1>8, <1>9, <1>10, Zenon DEF JChain, MutationOK, MBefore, MAfter

(***************************************************************************)
(* The i-th artifact that a store publishes has rank i.                    *)
(***************************************************************************)
LEMMA PlanRanks ==
  ASSUME NEW c \in 1 .. MaxSegments
  PROVE  /\ Len(Plan(c)) = c + 2
         /\ \A i \in 1 .. c + 2 : Plan(c)[i] \in StoreKeys(c) /\ Rank(c, Plan(c)[i]) = i
<1> DEFINE first == [i \in 1 .. c |-> i + 1]
           last == <<Index, Manifest>>
<1>1. c \in Nat
  BY GraphWorkerAssumption
<1>2. /\ first \in Seq(Nat) /\ Len(first) = c /\ \A i \in 1 .. c : first[i] = i + 1
      /\ last \in Seq(Nat) /\ Len(last) = 2 /\ last[1] = 1 /\ last[2] = 0
  BY <1>1 DEF Index, Manifest
<1>3. Plan(c) = first \o last
  BY Zenon DEF Plan
<1> HIDE DEF first, last
<1>4. /\ Len(Plan(c)) = c + 2
      /\ \A i \in 1 .. c : Plan(c)[i] = i + 1
      /\ Plan(c)[c + 1] = 1 /\ Plan(c)[c + 2] = 0
  <2>0. /\ Len(first \o last) = Len(first) + Len(last)
        /\ \A i \in 1 .. Len(first) + Len(last) :
             (first \o last)[i] = IF i <= Len(first) THEN first[i] ELSE last[i - Len(first)]
    BY <1>2, Concats, Zenon
  <2>1. \A i \in 1 .. c + 2 : Plan(c)[i] = IF i <= c THEN first[i] ELSE last[i - c]
    BY <1>2, <1>3, <2>0, Zenon
  <2>2. (c + 1) - c = 1 /\ (c + 2) - c = 2 /\ c + 1 \in 1 .. c + 2 /\ c + 2 \in 1 .. c + 2
    BY <1>1
  <2>3. Len(Plan(c)) = c + 2
    BY <1>2, <1>3, <2>0, Zenon
  <2> QED BY <1>1, <1>2, <2>1, <2>2, <2>3
<1>5. ASSUME NEW i \in 1 .. c + 2
      PROVE  Plan(c)[i] \in StoreKeys(c) /\ Rank(c, Plan(c)[i]) = i
  <2>1. CASE i <= c
    <3>1. Plan(c)[i] = i + 1 /\ i + 1 \in 2 .. c + 1 /\ (i + 1) - 1 = i
      BY <1>1, <1>4, <2>1
    <3> QED BY <3>1 DEF StoreKeys, SegmentKeys, Rank, Manifest, Index
  <2>2. CASE i = c + 1
    BY <1>1, <1>4, <2>2, Zenon DEF StoreKeys, Rank, Manifest, Index
  <2>3. CASE i = c + 2
    BY <1>1, <1>4, <2>3, Zenon DEF StoreKeys, Rank, Manifest, Index
  <2> QED BY <1>1, <2>1, <2>2, <2>3
<1> QED BY <1>4, <1>5, Zenon

(***************************************************************************)
(* publish: what a slice publishes continues the journal.                  *)
(***************************************************************************)
LEMMA FreshOK ==
  ASSUME NEW c \in 1 .. MaxSegments, NEW s \in Run, NEW n \in Nat, NEW count \in Nat,
         n + count <= c + 2
  PROVE  JChain(c, s, [i \in 1 .. count |-> Published(Plan(c)[n + i], s)], <<n + 1, 0>>,
                <<n + count + 1, 0>>)
<1> DEFINE j == [i \in 1 .. count |-> Published(Plan(c)[n + i], s)]
<1>1. c \in Nat /\ StoreKeys(c) \subseteq Key
  BY Ranks, Zenon
<1>2. ASSUME NEW i \in 1 .. count
      PROVE  /\ j[i] = [kind |-> "published", key |-> Plan(c)[n + i], run |-> s, offset |-> 0]
             /\ Plan(c)[n + i] \in StoreKeys(c) /\ Rank(c, Plan(c)[n + i]) = n + i
  <2>1. n + i \in 1 .. c + 2
    BY <1>1
  <2> QED BY <2>1, PlanRanks, Zenon DEF Published
<1>3. ASSUME NEW i \in 1 .. count
      PROVE  /\ j[i] \in Mutation /\ MutationOK(c, s, j[i])
             /\ MBefore(c, j[i]) = <<n + i, 0>> /\ MAfter(c, j[i]) = <<n + i + 1, 0>>
  <2> DEFINE u == j[i]
             k == Plan(c)[n + i]
  <2>0. /\ u = [kind |-> "published", key |-> k, run |-> s, offset |-> 0]
        /\ k \in StoreKeys(c) /\ k \in Key /\ Rank(c, k) = n + i
    BY <1>1, <1>2, Zenon
  <2> HIDE DEF u, k, j
  <2>1. u \in Mutation
    BY <2>0, Zenon DEF Mutation
  <2>2. MutationOK(c, s, u)
    BY <2>0, Lengths DEF MutationOK
  <2>3. MBefore(c, u) = <<n + i, 0>> /\ MAfter(c, u) = <<n + i + 1, 0>>
    BY <2>0, Zenon DEF MBefore, MAfter
  <2> QED BY <2>1, <2>2, <2>3, Zenon DEF u
<1>4. j \in Seq(Mutation) /\ Len(j) = count
  <2>1. j \in [1 .. count -> Mutation]
    BY <1>3, Zenon
  <2> HIDE DEF j
  <2> QED BY <2>1
<1> HIDE DEF j
<1>5. ASSUME NEW i \in 1 .. Len(j) - 1 PROVE MAfter(c, j[i]) = MBefore(c, j[i + 1])
  <2>1. i \in 1 .. count /\ i + 1 \in 1 .. count /\ n + (i + 1) = n + i + 1
    BY <1>4
  <2> QED BY <1>3, <2>1, Zenon
<1>6. CASE count = 0
  <2>1. j = <<>> /\ n + count + 1 = n + 1
    BY <1>4, <1>6
  <2> QED BY <1>4, <1>5, <1>6, <2>1 DEF JChain, j
<1>7. CASE count # 0
  <2>1. j # <<>> /\ 1 \in 1 .. count /\ count \in 1 .. count
    BY <1>4, <1>7
  <2>2. MBefore(c, j[1]) = <<n + 1, 0>> /\ MAfter(c, j[Len(j)]) = <<n + count + 1, 0>>
    BY <1>3, <1>4, <2>1, Zenon
  <2>3. JChain(c, s, j, <<n + 1, 0>>, <<n + count + 1, 0>>)
    BY <1>3, <1>4, <1>5, <2>1, <2>2, Zenon DEF JChain
  <2> QED BY <2>3, Zenon DEF j
<1> QED BY <1>6, <1>7, Zenon

-----------------------------------------------------------------------------
(* The inductive invariant.                                                *)

Types ==
  /\ run \in [sequence : 0 .. MaxRuns, finished : BOOLEAN, stopping : BOOLEAN]
  /\ next_sequence \in 0 .. MaxRuns
  /\ pending \in SUBSET Run /\ cancelled \in SUBSET pending
  /\ inbox \in Seq(Request) /\ outbound \in Seq(Request)
  /\ updates \in [Run -> SUBSET Terminal]
  /\ disconnected \in {"no", "host"}
  /\ page \in [Key -> SUBSET Run] /\ receiving \in [Key -> Receiving]
  /\ active \in [sequence : 0 .. MaxRuns, published : 0 .. MaxSegments + 2, failed : BOOLEAN]
  /\ stored \in [Key -> 0 .. MaxRuns]
  /\ journal \in Seq(Mutation)
  /\ extent \in [Run -> 1 .. MaxSegments]
  /\ faults \in 0 .. MaxFaults

Requests == inbox \o outbound

(***************************************************************************)
(* The client: a run that is pending and not cancelled is the UI's run,    *)
(* and a run with a last message is not pending.                           *)
(***************************************************************************)
ClientOK ==
  /\ disconnected # "no" => pending = {} /\ outbound = <<>>
  /\ \A s \in pending \ cancelled : s = run.sequence /\ ~run.finished
  /\ \A s \in Run : updates[s] # {} => s \notin pending /\ s <= next_sequence
  /\ \A s \in pending : s <= next_sequence

(***************************************************************************)
(* The requests: a start comes after everything of the runs before it, and *)
(* while the client is connected it knows every run that the worker has or *)
(* will have, and every run that a message is of.                          *)
(***************************************************************************)
RequestsOK ==
  /\ QueueOK(Requests, active.sequence)
  /\ \A i \in 1 .. Len(Requests) : \A j \in 1 .. Len(channel) :
       Requests[i].kind = "Start" => channel[j].sequence < Requests[i].sequence
  /\ disconnected = "no" => /\ Booked(Requests, active.sequence, pending, cancelled)
                            /\ \A i \in 1 .. Len(channel) : channel[i].sequence \in pending

\* Where the journal of the active run begins.
JFrom(c, j, n) == IF j = <<>> THEN <<n + 1, 0>> ELSE MBefore(c, j[1])
Sent == JFrom(extent[active.sequence], journal, active.published)

(***************************************************************************)
(* The worker: the messages and the journal follow on each other.          *)
(***************************************************************************)
WorkerOK ==
  /\ ChannelOK(extent, channel, active.sequence, Sent)
  /\ active.sequence # 0 =>
       /\ active.published <= extent[active.sequence] + 2
       /\ JChain(extent[active.sequence], active.sequence, journal, Sent,
                 <<active.published + 1, 0>>)

StartIn(q, s) == \E i \in 1 .. Len(q) : q[i].kind = "Start" /\ q[i].sequence = s
StartedIn(ch, s) == \E i \in 1 .. Len(ch) : ch[i].kind = "Started" /\ ch[i].sequence = s

\* What is next of run s is what the page needs next.
Awaits(x, ch, a, p, pg, rc, s) ==
  IF ch = <<>> THEN a = s => PageAt(x[s], pg, rc, s, p)
  ELSE ch[1].sequence = s /\ ch[1].kind \in {"Artifacts", "Finished"} =>
         PageAt(x[s], pg, rc, s, From(x, ch[1]))

(***************************************************************************)
(* The page: manifests are of whole stores, and the page has got to where  *)
(* the messages of the UI's run begin.                                     *)
(***************************************************************************)
PageOK ==
  /\ Whole(extent, page)
  /\ \A s \in pending \ cancelled :
       /\ Awaits(extent, channel, active.sequence, Sent, page, receiving, s)
       /\ StartIn(Requests, s) \/ StartedIn(channel, s) => page[Manifest] = {}

GraphInv == Types /\ ClientOK /\ RequestsOK /\ WorkerOK /\ PageOK

(***************************************************************************)
(* The invariant holds initially.                                          *)
(***************************************************************************)
LEMMA InitInv == Init => GraphInv
<1> SUFFICES ASSUME Init PROVE GraphInv
  OBVIOUS
<1> USE DEF Init
<1>1. Types
  <2>1. 0 \in 0 .. MaxRuns /\ 0 \in 0 .. MaxSegments + 2 /\ 0 \in 0 .. MaxFaults
    BY GraphWorkerAssumption
  <2>2. NotReceiving \in Receiving
    BY GraphWorkerAssumption DEF NotReceiving, Receiving
  <2> QED BY <2>1, <2>2 DEF Types, NoRun, Idle
<1>2. ClientOK
  BY Zenon DEF ClientOK
<1>3. Requests = <<>> /\ Len(Requests) = 0 /\ active.sequence = 0 /\ channel = <<>> /\ Len(channel) = 0
  BY DEF Requests, Idle
<1>4. RequestsOK
  <2>1. QueueOK(<<>>, 0)
    BY DEF QueueOK
  <2>2. Booked(<<>>, 0, {}, {})
    BY DEF Booked, Live, Run
  <2> QED BY <1>3, <2>1, <2>2 DEF RequestsOK
<1>5. WorkerOK
  BY <1>3 DEF WorkerOK, ChannelOK
<1>6. PageOK
  <2>1. page[Manifest] = {}
    BY GraphWorkerAssumption DEF Manifest, Key
  <2> QED BY <2>1, Zenon DEF PageOK, Whole
<1> QED BY <1>1, <1>2, <1>4, <1>5, <1>6, Zenon DEF GraphInv

-----------------------------------------------------------------------------
(* What the larger actions do.                                             *)

(***************************************************************************)
(* publish: the client is disconnected and ignores the message, drops it   *)
(* as one of a cancelled run, takes what the run has sent, or ends the     *)
(* run.  It never meets a run it does not know or a chunk out of order.    *)
(***************************************************************************)
LEMMA Delivers ==
  ASSUME GraphInv, Deliver, NEW m, m = Head(channel), NEW s, s = m.sequence
  PROVE  /\ channel # <<>> /\ channel' = Tail(channel) /\ m \in MessageType
         /\ UNCHANGED <<run, next_sequence, outbound, disconnected, inbox, active, stored, journal,
                        extent, faults>>
         /\ disconnected = "no" => s \in pending
         /\ \/ /\ UNCHANGED <<pending, cancelled, updates, page, receiving>>
               /\ s \notin pending \ cancelled
               /\ disconnected = "no" => m.kind \in {"Started", "Artifacts"}
            \/ /\ s \in pending \ cancelled
               /\ UNCHANGED <<pending, cancelled, updates>>
               /\ m.kind = "Started" /\ UNCHANGED <<page, receiving>>
            \/ /\ s \in pending \ cancelled
               /\ UNCHANGED <<pending, cancelled, updates>>
               /\ m.kind = "Artifacts"
               /\ page' \in [Key -> SUBSET Run] /\ receiving' \in [Key -> Receiving]
               /\ Whole(extent, page')
               /\ PageAt(extent[s], page', receiving', s, To(extent, m))
            \/ /\ s \in pending /\ m.kind \in Terminal
               /\ UNCHANGED <<page, receiving>>
               /\ pending' = pending \ {s} /\ cancelled' = cancelled \ {s}
               /\ updates' = [updates EXCEPT ![s] = @ \cup {m.kind}]
<1>1. /\ channel # <<>> /\ channel' = Tail(channel)
      /\ UNCHANGED <<run, next_sequence, inbox, active, stored, journal, extent, faults>>
  BY Zenon DEF Deliver, worker
<1>2. m \in MessageType /\ MessageOK(extent, m) /\ m = channel[1] /\ 1 \in 1 .. Len(channel)
  <2>1. ChannelOK(extent, channel, active.sequence, Sent)
    BY Zenon DEF GraphInv, WorkerOK
  <2>2. m \in MessageType /\ MessageOK(extent, m) /\ m = channel[1] /\ Len(channel) \in Nat \ {0}
    BY <1>1, <2>1, ChannelTail, Zenon
  <2> QED BY <2>2
<1>3. s \in Run /\ m.kind \in {"Started", "Artifacts"} \cup Terminal /\ m.kind # "Busy"
  BY <1>2, Zenon DEF MessageType, Terminal
<1>4. disconnected = "no" => s \in pending
  BY <1>2, Zenon DEF GraphInv, RequestsOK
<1>5. disconnected # "no" => pending = {}
  BY Zenon DEF GraphInv, ClientOK
<1>6. CASE s \notin pending
  <2>1. disconnected # "no"
    BY <1>4, <1>6, Zenon
  <2>2. UNCHANGED <<pending, cancelled, outbound, updates, disconnected, page, receiving>>
    BY <1>6, <2>1, Zenon DEF Deliver, mirror
  <2> QED BY <1>1, <1>2, <1>6, <2>1, <2>2, Zenon
<1>7. CASE s \in cancelled /\ s \in pending /\ m.kind \in {"Started", "Artifacts"}
  <2>1. DroppedWhenCancelled(IF Head(channel).kind = "Busy" THEN "Failed" ELSE Head(channel).kind)
    BY <1>3, <1>7, Zenon DEF DroppedWhenCancelled
  <2>2. UNCHANGED <<pending, cancelled, outbound, updates, disconnected, page, receiving>>
    BY <1>7, <2>1, Zenon DEF Deliver, mirror
  <2> QED BY <1>1, <1>2, <1>4, <1>7, <2>2, Zenon
<1>8. CASE s \in pending /\ ~(s \in cancelled /\ m.kind \in {"Started", "Artifacts"})
  <2>0. disconnected = "no"
    BY <1>5, <1>8, Zenon
  <2>1. ~(s \in cancelled /\ DroppedWhenCancelled(m.kind))
    BY <1>8, Zenon DEF DroppedWhenCancelled
  <2>2. (IF m.kind = "Busy" THEN "Failed" ELSE m.kind) = m.kind
    BY <1>3, Zenon
  <2>3. PICK applied \in ApplyAll(m.events) :
          /\ page' = applied.page
          /\ receiving' = applied.receiving
          /\ IF applied.corrupt THEN FailAll("protocol")
             ELSE /\ updates' = [updates EXCEPT ![s] = @ \cup ({m.kind} \cap Terminal)]
                  /\ pending' = IF m.kind \in Terminal THEN pending \ {s} ELSE pending
                  /\ cancelled' = IF m.kind \in Terminal THEN cancelled \ {s} ELSE cancelled
                  /\ UNCHANGED <<outbound, disconnected>>
    BY <1>8, <2>1, <2>2, Zenon DEF Deliver
  <2>4. CASE m.kind = "Artifacts"
    <3>1. s \in pending \ cancelled
      BY <1>8, <2>4, Zenon
    <3>2. Chain(extent[s], s, m.events, From(extent, m), To(extent, m))
      BY <1>2, <2>4, Zenon DEF MessageOK
    <3>3. PageAt(extent[s], page, receiving, s, From(extent, m))
      BY <1>1, <1>2, <2>4, <3>1, Zenon DEF GraphInv, PageOK, Awaits
    <3>4. /\ extent \in [Run -> 1 .. MaxSegments] /\ Whole(extent, page)
          /\ page \in [Key -> SUBSET Run] /\ receiving \in [Key -> Receiving]
      BY Zenon DEF GraphInv, Types, PageOK
    <3>5. /\ applied \in Mirror /\ ~applied.corrupt
          /\ PageAt(extent[s], applied.page, applied.receiving, s, To(extent, m))
          /\ Whole(extent, applied.page)
      BY <1>3, <3>2, <3>3, <3>4, ApplyAllOK, Zenon
    <3>6. m.kind \notin Terminal
      BY <2>4, Zenon DEF Terminal
    <3>7. updates' = updates
      <4>1. updates \in [Run -> SUBSET Terminal]
        BY Zenon DEF GraphInv, Types
      <4>2. {m.kind} \cap Terminal = {}
        BY <3>6, Zenon
      <4>3. updates' = [updates EXCEPT ![s] = @ \cup {}]
        BY <2>3, <3>5, <4>2, Zenon
      <4> QED BY <1>3, <4>1, <4>3, Zenon
    <3>8. applied.page \in [Key -> SUBSET Run] /\ applied.receiving \in [Key -> Receiving]
      BY <3>5, Zenon DEF Mirror
    <3> QED BY <1>1, <1>2, <1>4, <2>3, <2>4, <3>1, <3>5, <3>6, <3>7, <3>8, Zenon
  <2>5. CASE m.kind # "Artifacts"
    <3>1. applied = [page |-> page, receiving |-> receiving, corrupt |-> FALSE]
      BY <1>2, <2>3, <2>5, ApplyNone, Zenon DEF MessageOK
    <3>2. page' = page /\ receiving' = receiving /\ ~applied.corrupt
      BY <2>3, <3>1, Zenon
    <3>3. CASE m.kind \in Terminal
      <4>1. {m.kind} \cap Terminal = {m.kind}
        BY <3>3, Zenon
      <4> QED BY <1>1, <1>2, <1>4, <1>8, <2>3, <3>2, <3>3, <4>1, Zenon
    <3>4. CASE m.kind \notin Terminal
      <4>1. m.kind = "Started" /\ s \in pending \ cancelled
        BY <1>3, <1>8, <2>5, <3>4, Zenon
      <4>2. updates' = updates
        <5>1. updates \in [Run -> SUBSET Terminal]
          BY Zenon DEF GraphInv, Types
        <5>2. {m.kind} \cap Terminal = {}
          BY <3>4, Zenon
        <5>3. updates' = [updates EXCEPT ![s] = @ \cup {}]
          BY <2>3, <3>2, <5>2, Zenon
        <5> QED BY <1>3, <5>1, <5>3, Zenon
      <4> QED BY <1>1, <1>2, <1>4, <2>3, <3>2, <3>4, <4>1, <4>2, Zenon
    <3> QED BY <3>3, <3>4, Zenon
  <2> QED BY <2>4, <2>5, Zenon
<1> QED BY <1>3, <1>6, <1>7, <1>8, Zenon

(***************************************************************************)
(* advance_streaming: a slice appends messages of the active run, and they *)
(* go on where the messages so far, or the page, have stopped.             *)
(***************************************************************************)
LEMMA Advances ==
  ASSUME GraphInv, NEW count \in 0 .. MaxSlice, NEW failure \in BOOLEAN, Advance(count, failure)
  PROVE  /\ active.sequence \in Run
         /\ UNCHANGED <<run, next_sequence, pending, cancelled, outbound, updates, disconnected,
                        page, receiving, inbox, extent>>
         /\ active' \in [sequence : {0, active.sequence}, published : 0 .. MaxSegments + 2, failed : BOOLEAN]
         /\ stored' \in [Key -> 0 .. MaxRuns]
         /\ journal' \in Seq(Mutation)
         /\ faults' \in 0 .. MaxFaults
         /\ WorkerOK'
         /\ Len(channel) <= Len(channel')
         /\ \A i \in 1 .. Len(channel') :
              IF i <= Len(channel) THEN channel'[i] = channel[i]
              ELSE channel'[i].sequence = active.sequence /\ channel'[i].kind # "Started"
         /\ channel = <<>> =>
              IF channel' = <<>> THEN active'.sequence = active.sequence /\ Sent' = Sent
              ELSE channel'[1].kind \in {"Artifacts", "Finished"} => From(extent, channel'[1]) = Sent
<1> DEFINE s == active.sequence
           c == extent[s]
           n == active.published
           plan == Plan(c)
           fresh == [i \in 1 .. count |-> Published(plan[n + i], s)]
           published == n + count
           failed == active.failed \/ failure
           batch(d) == IF d.events = <<>> THEN <<>>
                       ELSE <<[Message("Artifacts", s) EXCEPT !.events = d.events]>>
           written == [k \in Key |-> IF \E i \in 1 .. count : plan[n + i] = k THEN s ELSE stored[k]]
<1>1. /\ s # 0 /\ active.sequence = s
      /\ published <= Len(plan)
      /\ failure => faults < MaxFaults
      /\ faults' = IF failure THEN faults + 1 ELSE faults
      /\ UNCHANGED <<run, next_sequence, pending, cancelled, outbound, updates, disconnected,
                     page, receiving, inbox, extent>>
  BY Zenon DEF Advance, client, mirror
<1>2. PICK d \in Drain(journal \o fresh) :
        /\ journal' = d.journal
        /\ IF (failed \/ published = Len(plan)) /\ journal' = <<>>
             THEN /\ active' = Idle
                  /\ stored' = IF published = Len(plan) THEN written
                               ELSE [k \in Key |-> IF written[k] = s THEN 0 ELSE written[k]]
                  /\ channel' = channel \o batch(d)
                                \o <<Message(IF failed THEN "Failed" ELSE "Finished", s)>>
             ELSE /\ active' = [sequence |-> s, published |-> published, failed |-> failed]
                  /\ stored' = written
                  /\ channel' = channel \o batch(d)
  BY Zenon DEF Advance, Transferred, Fresh, Written, StoredAfterDrop
<1>0. s = active.sequence
  OBVIOUS
<1> HIDE DEF s
<1>3. /\ active \in [sequence : 0 .. MaxRuns, published : 0 .. MaxSegments + 2, failed : BOOLEAN]
      /\ stored \in [Key -> 0 .. MaxRuns] /\ extent \in [Run -> 1 .. MaxSegments]
      /\ faults \in 0 .. MaxFaults
  BY Zenon DEF GraphInv, Types
<1>4. s \in Run /\ s \in 0 .. MaxRuns /\ n \in Nat /\ active.failed \in BOOLEAN /\ count \in Nat
  BY <1>0, <1>1, <1>3 DEF Run
<1>5. c \in 1 .. MaxSegments /\ c \in Nat
  <2>1. c \in 1 .. MaxSegments
    BY <1>3, <1>4, Zenon
  <2> QED BY <2>1, Ranks, Zenon
<1>6. Len(plan) = c + 2 /\ n + count <= c + 2
  BY <1>1, <1>5, PlanRanks, Zenon
<1>7. /\ ChannelOK(extent, channel, s, Sent)
      /\ JChain(c, s, journal, Sent, <<n + 1, 0>>)
  BY <1>0, <1>1, Zenon DEF GraphInv, WorkerOK
<1>8. stored' \in [Key -> 0 .. MaxRuns]
  <2>1. written \in [Key -> 0 .. MaxRuns]
    BY <1>3, <1>4, Zenon
  <2> HIDE DEF written
  <2>2. [k \in Key |-> IF written[k] = s THEN 0 ELSE written[k]] \in [Key -> 0 .. MaxRuns]
    BY <2>1, GraphWorkerAssumption
  <2> HIDE DEF c, n, plan, fresh, published, failed, batch
  <2> QED BY <1>2, <2>1, <2>2, Zenon
<1>9. faults' \in 0 .. MaxFaults
  <2>1. CASE failure
    BY <1>1, <1>3, <2>1, Bounds, Zenon
  <2>2. CASE ~failure
    BY <1>1, <1>3, <2>2, Zenon
  <2> QED BY <2>1, <2>2, Zenon
<1>10. JChain(c, s, journal \o fresh, Sent, <<n + count + 1, 0>>)
  <2>1. JChain(c, s, fresh, <<n + 1, 0>>, <<n + count + 1, 0>>)
    BY <1>4, <1>5, <1>6, FreshOK, Zenon
  <2> HIDE DEF fresh
  <2> QED BY <1>7, <2>1, JChainJoin, Zenon
<1> HIDE DEF c, n, plan, fresh, written, batch
<1>11. Drained(c, s, journal \o fresh, Sent, <<n + count + 1, 0>>, 1, d)
  BY <1>2, <1>5, <1>10, DrainOK, Zenon
<1>12. PICK p : Chain(c, s, d.events, Sent, p) /\ JChain(c, s, d.journal, p, <<n + count + 1, 0>>)
  BY <1>11, Zenon DEF Drained
<1>13. p = JFrom(c, d.journal, n + count) /\ d.journal \in Seq(Mutation) /\ d.events \in Seq(Event)
  BY <1>12, Zenon DEF JFrom, JChain, Chain
<1> DEFINE ch == channel \o batch(d)
           a == [kind |-> "Artifacts", sequence |-> s, events |-> d.events]
<1>art. a \in MessageType /\ a.kind = "Artifacts" /\ a.sequence = s /\ a.events = d.events
  BY <1>4, <1>13, Zenon DEF MessageType
<1>14. channel \in Seq(MessageType) /\ Len(channel) \in Nat
  BY <1>7 DEF ChannelOK
<1>15. /\ ChannelOK(extent, ch, s, p)
       /\ IF d.events = <<>> THEN ch = channel /\ p = Sent ELSE ch = Append(channel, a)
  <2>1. CASE d.events = <<>>
    <3>1. ch = channel
      BY <1>14, <2>1 DEF batch
    <3>2. p = Sent
      BY <1>12, <2>1, Zenon DEF Chain
    <3> QED BY <1>7, <2>1, <3>1, <3>2, Zenon
  <2>2. CASE d.events # <<>>
    <3>1. batch(d) = <<a>>
      BY <2>2 DEF batch, Message
    <3>3. ch = Append(channel, a)
      <4> HIDE DEF a
      <4> QED BY <1>14, <1>art, <3>1, Singles, Zenon
    <3>4. ChannelOK(extent, Append(channel, a), s, p)
      BY <1>4, <1>7, <1>12, <2>2, SendArtifacts, Zenon DEF c
    <3> HIDE DEF ch, a
    <3> QED BY <2>2, <3>3, <3>4, Zenon
  <2> QED BY <2>1, <2>2, Zenon
<1> HIDE DEF ch
<1>16. ch \in Seq(MessageType) /\ Len(ch) \in Nat
  BY <1>15 DEF ChannelOK
<1>17. /\ Len(channel) <= Len(ch)
       /\ \A i \in 1 .. Len(ch) :
            IF i <= Len(channel) THEN ch[i] = channel[i]
            ELSE ch[i].sequence = s /\ ch[i].kind = "Artifacts"
       /\ channel = <<>> /\ ch # <<>> => /\ ch[1].kind \in {"Artifacts", "Finished"}
                                         /\ From(extent, ch[1]) = Sent
  <2>1. CASE d.events = <<>>
    <3>1. ch = channel
      BY <1>15, <2>1, Zenon
    <3>2. Len(channel) <= Len(channel) /\ \A i \in 1 .. Len(channel) : i <= Len(channel)
      BY <1>14, Places, Zenon
    <3> QED BY <3>1, <3>2, Zenon
  <2>2. CASE d.events # <<>>
    <3>1. ch = Append(channel, a) /\ a.kind = "Artifacts" /\ a.sequence = s /\ a.events = d.events
      BY <1>15, <1>art, <2>2, Zenon
    <3> HIDE DEF a
    <3>3. /\ Len(ch) = Len(channel) + 1 /\ ch[Len(channel) + 1] = a
          /\ \A i \in 1 .. Len(channel) : ch[i] = channel[i]
      BY <1>14, <1>art, <3>1, Appends
    <3>4. From(extent, a) = Sent
      BY <1>12, <2>2, <3>1, Zenon DEF From, Chain, c
    <3>5. channel = <<>> => Len(channel) = 0
      BY <1>14
    <3> QED BY <1>14, <3>1, <3>3, <3>4, <3>5
  <2> QED BY <2>1, <2>2, Zenon
<1>18. CASE (failed \/ published = Len(plan)) /\ journal' = <<>>
  <2> DEFINE kind == IF failed THEN "Failed" ELSE "Finished"
             e == Message(kind, s)
  <2>1. active' = Idle /\ channel' = ch \o <<e>>
    BY <1>2, <1>18, Zenon DEF ch
  <2>2. e \in MessageType /\ e.kind = kind /\ e.sequence = s /\ kind \in Terminal /\ kind # "Started"
        /\ e.events = <<>>
    BY <1>4 DEF Message, MessageType, Terminal
  <2>3. kind = "Finished" => p = End(extent[s])
    <3> SUFFICES ASSUME ~failed PROVE p = End(extent[s])
      OBVIOUS
    <3>1. n + count = c + 2 /\ d.journal = <<>>
      BY <1>2, <1>6, <1>18, Zenon
    <3>2. p = <<(n + count) + 1, 0>>
      BY <1>13, <3>1, Zenon DEF JFrom
    <3> QED BY <1>5, <3>1, <3>2 DEF End, c
  <2>4. ASSUME NEW q PROVE ChannelOK(extent, Append(ch, e), 0, q)
    <3> HIDE DEF kind
    <3> QED BY <1>4, <1>15, <2>2, <2>3, SendEnd, Zenon
  <2> HIDE DEF kind, e
  <2>5. channel' = Append(ch, e)
    BY <1>16, <2>1, <2>2, Singles, Zenon
  <2>6. /\ channel' # <<>> /\ Len(channel') = Len(ch) + 1 /\ channel'[Len(ch) + 1] = e
        /\ \A i \in 1 .. Len(ch) : channel'[i] = ch[i]
    BY <1>16, <2>2, <2>5, Appends
  <2>7. WorkerOK'
    <3>1. active'.sequence = 0 /\ extent' = extent
      BY <1>1, <2>1, Zenon DEF Idle
    <3> QED BY <2>4, <2>5, <3>1, Zenon DEF WorkerOK
  <2>8. active' \in [sequence : {0, s}, published : 0 .. MaxSegments + 2, failed : BOOLEAN]
    BY <2>1, GraphWorkerAssumption DEF Idle
  <2>9. ASSUME NEW i \in 1 .. Len(channel')
        PROVE  IF i <= Len(channel) THEN channel'[i] = channel[i]
               ELSE channel'[i].sequence = s /\ channel'[i].kind # "Started"
    <3>1. CASE i = Len(ch) + 1
      <4>1. ~(i <= Len(channel))
        BY <1>14, <1>16, <1>17, <3>1
      <4> QED BY <2>2, <2>6, <3>1, <4>1, Zenon
    <3>2. CASE i # Len(ch) + 1
      <4>1. i \in 1 .. Len(ch)
        BY <1>16, <2>6, <3>2
      <4> QED BY <1>17, <2>6, <4>1, Zenon
    <3> QED BY <3>1, <3>2, Zenon
  <2>10. channel = <<>> /\ channel'[1].kind \in {"Artifacts", "Finished"} =>
           From(extent, channel'[1]) = Sent
    <3> SUFFICES ASSUME channel = <<>>, channel'[1].kind \in {"Artifacts", "Finished"}
                 PROVE  From(extent, channel'[1]) = Sent
      OBVIOUS
    <3>1. CASE ch = <<>>
      <4>1. channel'[1] = e
        BY <2>6, <3>1
      <4>2. d.events = <<>> /\ p = Sent
        BY <1>14, <1>15, <1>16, <3>1, Appends
      <4>3. kind = "Finished"
        BY <2>2, <4>1, Zenon DEF kind
      <4> QED BY <2>2, <2>3, <4>1, <4>2, <4>3, Zenon DEF From
    <3>2. CASE ch # <<>>
      <4>1. channel'[1] = ch[1]
        BY <1>16, <2>6, <3>2
      <4> QED BY <1>17, <3>2, <4>1, Zenon
    <3> QED BY <3>1, <3>2, Zenon
  <2>11. Len(channel) <= Len(channel')
    BY <1>14, <1>16, <1>17, <2>6
  <2> QED BY <1>0, <1>1, <1>2, <1>4, <1>8, <1>9, <1>13, <2>6, <2>7, <2>8, <2>9, <2>10, <2>11, Zenon
<1>19. CASE ~((failed \/ published = Len(plan)) /\ journal' = <<>>)
  <2>1. active' = [sequence |-> s, published |-> n + count, failed |-> failed] /\ channel' = ch
    BY <1>2, <1>19, Zenon DEF ch
  <2>2. active'.sequence = s /\ active'.published = n + count /\ extent' = extent
    BY <1>1, <2>1, Zenon
  <2>3. Sent' = p
    BY <1>2, <1>13, <2>2, Zenon DEF Sent, c
  <2>4. WorkerOK'
    <3>1. active'.sequence # 0 => /\ active'.published <= extent'[active'.sequence] + 2
                                  /\ JChain(extent'[active'.sequence], active'.sequence, journal',
                                            Sent', <<active'.published + 1, 0>>)
      BY <1>2, <1>6, <1>12, <2>2, <2>3, Zenon DEF c
    <3>2. ChannelOK(extent', channel', active'.sequence, Sent')
      BY <1>15, <2>1, <2>2, <2>3, Zenon
    <3> QED BY <3>1, <3>2, Zenon DEF WorkerOK
  <2>5. active' \in [sequence : {0, s}, published : 0 .. MaxSegments + 2, failed : BOOLEAN]
    <3>1. n + count \in 0 .. MaxSegments + 2
      <4>1. n + count \in Nat /\ c <= MaxSegments
        BY <1>4, <1>5
      <4> QED BY <1>5, <1>6, <4>1, GraphWorkerAssumption
    <3> QED BY <1>4, <2>1, <3>1, Zenon
  <2>6. channel' = <<>> => Sent' = Sent
    <3>1. channel' = <<>> => d.events = <<>>
      <4> SUFFICES ASSUME d.events # <<>> PROVE ch # <<>>
        BY <2>1, Zenon
      <4>1. a \in MessageType
        BY <1>4, <1>13, Zenon DEF MessageType
      <4>2. ch = Append(channel, a)
        BY <1>15, Zenon
      <4> HIDE DEF a
      <4> QED BY <1>14, <4>1, <4>2, Appends, Zenon
    <3> QED BY <1>15, <2>3, <3>1, Zenon
  <2>7. \A i \in 1 .. Len(channel') :
          IF i <= Len(channel) THEN channel'[i] = channel[i]
          ELSE channel'[i].sequence = s /\ channel'[i].kind # "Started"
    BY <1>17, <2>1, Zenon
  <2> QED BY <1>0, <1>1, <1>2, <1>4, <1>8, <1>9, <1>13, <1>17, <2>1, <2>2, <2>4, <2>5, <2>6, <2>7, Zenon
<1> QED BY <1>18, <1>19, Zenon

(***************************************************************************)
(* A transfer that fails is to the page a run that ends.                   *)
(***************************************************************************)
LEMMA Aborts ==
  ASSUME GraphInv, NEW count \in 0 .. MaxSlice, TransferFails(count)
  PROVE  /\ active.sequence \in Run
         /\ UNCHANGED <<run, next_sequence, pending, cancelled, outbound, updates, disconnected,
                        page, receiving, inbox, extent>>
         /\ active' \in [sequence : {0, active.sequence}, published : 0 .. MaxSegments + 2, failed : BOOLEAN]
         /\ stored' \in [Key -> 0 .. MaxRuns]
         /\ journal' \in Seq(Mutation)
         /\ faults' \in 0 .. MaxFaults
         /\ WorkerOK'
         /\ Len(channel) <= Len(channel')
         /\ \A i \in 1 .. Len(channel') :
              IF i <= Len(channel) THEN channel'[i] = channel[i]
              ELSE channel'[i].sequence = active.sequence /\ channel'[i].kind # "Started"
         /\ channel = <<>> =>
              IF channel' = <<>> THEN active'.sequence = active.sequence /\ Sent' = Sent
              ELSE channel'[1].kind \in {"Artifacts", "Finished"} => From(extent, channel'[1]) = Sent
<1> DEFINE s == active.sequence
           m == Message("Failed", s)
<1>1. /\ s # 0 /\ faults < MaxFaults /\ faults' = faults + 1
      /\ stored' = StoredAfterDrop(count) /\ active' = Idle /\ journal' = <<>>
      /\ channel' = Append(channel, m)
      /\ UNCHANGED <<run, next_sequence, pending, cancelled, outbound, updates, disconnected,
                     page, receiving, inbox, extent>>
  BY Zenon DEF TransferFails, client, mirror
<1>2. active \in [sequence : 0 .. MaxRuns, published : 0 .. MaxSegments + 2, failed : BOOLEAN]
  BY Zenon DEF GraphInv, Types
<1>3. s \in Run /\ s \in 0 .. MaxRuns
  BY <1>1, <1>2 DEF Run
<1>4. faults' \in 0 .. MaxFaults
  BY <1>1, Bounds, Zenon DEF GraphInv, Types
<1>5. stored' \in [Key -> 0 .. MaxRuns]
  <2>1. stored \in [Key -> 0 .. MaxRuns] /\ 0 \in 0 .. MaxRuns
    BY Bounds, Zenon DEF GraphInv, Types
  <2>2. Written(count) \in [Key -> 0 .. MaxRuns]
    BY <1>3, <2>1, Zenon DEF Written
  <2>3. [k \in Key |-> IF Written(count)[k] = s THEN 0 ELSE Written(count)[k]] \in [Key -> 0 .. MaxRuns]
    BY <2>1, <2>2, Zenon
  <2> QED BY <1>1, <2>2, <2>3, Zenon DEF StoredAfterDrop
<1>6. /\ active' \in [sequence : {0, s}, published : 0 .. MaxSegments + 2, failed : BOOLEAN]
      /\ active'.sequence = 0 /\ journal' \in Seq(Mutation)
  BY <1>1, GraphWorkerAssumption DEF Idle
<1>7. ChannelOK(extent, channel, s, Sent)
  BY Zenon DEF GraphInv, WorkerOK
<1>8. \A q : ChannelOK(extent, Append(channel, m), 0, q)
  <2>1. "Failed" \in Terminal
    BY Zenon DEF Terminal
  <2> HIDE DEF s
  <2> QED BY <1>3, <1>7, <2>1, SendEnd, Zenon
<1>9. WorkerOK'
  BY <1>1, <1>6, <1>8, Zenon DEF WorkerOK
<1>10. m \in MessageType /\ m.sequence = s /\ m.kind = "Failed"
  BY <1>3 DEF Message, MessageType, Terminal
<1> HIDE DEF m, s
<1>11. /\ Len(channel) \in Nat /\ Len(channel') = Len(channel) + 1
       /\ \A i \in 1 .. Len(channel) : channel'[i] = channel[i]
       /\ channel'[Len(channel) + 1] = m
       /\ channel = <<>> => Len(channel) = 0
  <2>1. channel \in Seq(MessageType)
    BY <1>7, Zenon DEF ChannelOK
  <2>2. Len(channel) \in Nat /\ (channel = <<>> => Len(channel) = 0)
    BY <2>1
  <2> QED BY <1>1, <1>10, <2>1, <2>2, Appends
<1>12. Len(channel) <= Len(channel') /\ channel' # <<>>
  BY <1>11
<1>13. \A i \in 1 .. Len(channel') :
         IF i <= Len(channel) THEN channel'[i] = channel[i]
         ELSE channel'[i].sequence = s /\ channel'[i].kind # "Started"
  BY <1>10, <1>11
<1>14. channel = <<>> => channel'[1] = m
  BY <1>11
<1> QED BY <1>1, <1>3, <1>4, <1>5, <1>6, <1>9, <1>10, <1>12, <1>13, <1>14, Zenon DEF s

-----------------------------------------------------------------------------
(* Every step preserves the invariant.                                     *)

(***************************************************************************)
(* The parts of the invariant that a step does not touch.                  *)
(***************************************************************************)
LEMMA Untouched ==
  ASSUME GraphInv
  PROVE  /\ UNCHANGED <<run, next_sequence, pending, cancelled, outbound, updates, disconnected>> =>
              ClientOK'
         /\ UNCHANGED <<inbox, outbound, active, channel, disconnected, pending, cancelled>> =>
              RequestsOK'
         /\ UNCHANGED <<channel, active, journal, extent>> => WorkerOK'
         /\ UNCHANGED <<page, receiving, extent, pending, cancelled, channel, active, journal, inbox,
                        outbound>> => PageOK'
<1>1. ASSUME UNCHANGED <<run, next_sequence, pending, cancelled, outbound, updates, disconnected>>
      PROVE  ClientOK'
  BY <1>1, Zenon DEF GraphInv, ClientOK
<1>2. ASSUME UNCHANGED <<inbox, outbound, active, channel, disconnected, pending, cancelled>>
      PROVE  RequestsOK'
  BY <1>2, Zenon DEF GraphInv, RequestsOK, Requests
<1>3. ASSUME UNCHANGED <<channel, active, journal, extent>> PROVE WorkerOK'
  BY <1>3, Zenon DEF GraphInv, WorkerOK, Sent
<1>4. ASSUME UNCHANGED <<page, receiving, extent, pending, cancelled, channel, active, journal, inbox,
                         outbound>>
      PROVE  PageOK'
  BY <1>4, Zenon DEF GraphInv, PageOK, Sent, Requests
<1> QED BY <1>1, <1>2, <1>3, <1>4, Zenon

(***************************************************************************)
(* How the requests change.                                                *)
(***************************************************************************)
LEMMA RequestForms ==
  ASSUME Types
  PROVE  /\ Requests \in Seq(Request) /\ Len(Requests) \in Nat
         /\ \A r \in Request : inbox \o Append(outbound, r) = Append(Requests, r)
         /\ Requests \o <<>> = Requests
         /\ inbox # <<>> => /\ Tail(inbox) \o outbound = Tail(Requests)
                            /\ Tail(inbox) \in Seq(Request)
                            /\ Head(inbox) = Head(Requests) /\ Requests # <<>>
                            /\ Head(Requests) = Requests[1] /\ 1 \in 1 .. Len(Requests)
                            /\ Len(Tail(Requests)) = Len(Requests) - 1
                            /\ \A i \in 1 .. Len(Tail(Requests)) :
                                 Tail(Requests)[i] = Requests[i + 1] /\ i + 1 \in 1 .. Len(Requests)
         /\ inbox \o <<>> = inbox
<1>1. inbox \in Seq(Request) /\ outbound \in Seq(Request)
  BY Zenon DEF Types
<1>2. Requests \in Seq(Request) /\ Len(Requests) \in Nat
  BY <1>1 DEF Requests
<1>3. ASSUME NEW r \in Request PROVE inbox \o Append(outbound, r) = Append(Requests, r)
  BY <1>1, <1>3 DEF Requests
<1>4. Requests \o <<>> = Requests /\ inbox \o <<>> = inbox
  BY <1>1, <1>2, ConcatsNone, Zenon
<1>5. ASSUME inbox # <<>>
      PROVE  /\ Tail(inbox) \o outbound = Tail(Requests)
             /\ Tail(inbox) \in Seq(Request)
             /\ Head(inbox) = Head(Requests) /\ Requests # <<>>
  <2>1. Requests = inbox \o outbound
    BY Zenon DEF Requests
  <2> QED BY <1>1, <1>5, <2>1
<1>6. Requests # <<>> => /\ Head(Requests) = Requests[1] /\ 1 \in 1 .. Len(Requests)
                         /\ Len(Tail(Requests)) = Len(Requests) - 1
                         /\ \A i \in 1 .. Len(Tail(Requests)) :
                              Tail(Requests)[i] = Requests[i + 1] /\ i + 1 \in 1 .. Len(Requests)
  BY <1>2
<1> QED BY <1>2, <1>3, <1>4, <1>5, <1>6, Zenon

(***************************************************************************)
(* While the UI has no running run, every pending run is cancelled.        *)
(***************************************************************************)
LEMMA NoneWaits ==
  ASSUME GraphInv, ~Running
  PROVE  pending \ cancelled = {} /\ cancelled = pending
<1>1. ASSUME NEW s \in pending \ cancelled PROVE FALSE
  <2>1. s = run.sequence /\ ~run.finished
    BY Zenon DEF GraphInv, ClientOK
  <2>2. s # 0
    BY DEF GraphInv, Types, Run
  <2> QED BY <2>1, <2>2, Zenon DEF Running
<1>2. cancelled \subseteq pending
  BY Zenon DEF GraphInv, Types
<1> QED BY <1>1, <1>2, Zenon

(***************************************************************************)
(* start_run.                                                              *)
(***************************************************************************)
LEMMA StartRunStep ==
  ASSUME GraphInv, StartRun
  PROVE  GraphInv'
<1>1. /\ page' = (IF page[Manifest] # {} THEN [k \in Key |-> {}] ELSE page)
      /\ UNCHANGED <<cancelled, updates, disconnected, receiving, inbox, channel, active, stored,
                     journal, extent, faults>>
      /\ next_sequence < MaxRuns /\ ~Running
  BY Zenon DEF StartRun, worker
<1>2. page' \in [Key -> SUBSET Run] /\ page'[Manifest] = {}
  <2>1. page \in [Key -> SUBSET Run] /\ Manifest \in Key
    BY Bounds, Zenon DEF GraphInv, Types
  <2> QED BY <1>1, <2>1, Zenon
<1>3. Whole(extent', page')
  BY <1>2, Zenon DEF Whole
<1>4. pending \ cancelled = {} /\ cancelled = pending
  BY <1>1, NoneWaits, Zenon
<1>5. WorkerOK'
  BY <1>1, Untouched, Zenon
<1>6. CASE run' = NoRun /\ UNCHANGED <<next_sequence, pending, outbound>>
  <2>1. Types'
    <3>1. run' \in [sequence : 0 .. MaxRuns, finished : BOOLEAN, stopping : BOOLEAN]
      BY <1>6, GraphWorkerAssumption DEF NoRun
    <3> QED BY <1>1, <1>2, <1>6, <3>1, Zenon DEF GraphInv, Types
  <2>2. ClientOK'
    BY <1>1, <1>4, <1>6, Zenon DEF GraphInv, ClientOK
  <2>3. RequestsOK'
    BY <1>1, <1>6, Untouched, Zenon
  <2>4. PageOK'
    BY <1>1, <1>3, <1>4, <1>6, Zenon DEF PageOK
  <2> QED BY <1>5, <2>1, <2>2, <2>3, <2>4, Zenon DEF GraphInv
<1>7. CASE ~(run' = NoRun /\ UNCHANGED <<next_sequence, pending, outbound>>)
  <2> DEFINE s == next_sequence'
             r == [kind |-> "Start", sequence |-> s]
  <2>1. /\ disconnected = "no" /\ s = next_sequence + 1
        /\ pending' = pending \cup {s}
        /\ outbound' = Append(outbound, r)
        /\ run' = [NoRun EXCEPT !.sequence = s]
    BY <1>7, Zenon DEF StartRun
  <2>2. /\ run'.sequence = s /\ run'.finished = FALSE
        /\ run' = [sequence |-> s, finished |-> FALSE, stopping |-> FALSE]
    BY <2>1, Zenon DEF NoRun
  <2>3. next_sequence \in Nat /\ next_sequence <= MaxRuns /\ MaxRuns \in Nat
    BY GraphWorkerAssumption DEF GraphInv, Types
  <2>4. s \in Run /\ s \in 0 .. MaxRuns /\ s \in Nat /\ s > next_sequence /\ s # 0
    BY <1>1, <2>1, <2>3 DEF Run
  <2>5. r \in Request /\ r.kind = "Start" /\ r.sequence = s
    BY <2>4, Zenon DEF Request
  <2> HIDE DEF r, s
  <2>6. \A t \in pending : t <= next_sequence /\ t \in Run /\ t \in Nat /\ t < s
    <3>1. \A t \in pending : t <= next_sequence /\ t \in Run
      BY Zenon DEF GraphInv, ClientOK, Types
    <3> QED BY <2>3, <2>4, <3>1 DEF Run
  <2>7. s \notin pending
    BY <2>4, <2>6
  <2>8. /\ QueueOK(Requests, active.sequence) /\ Booked(Requests, active.sequence, pending, pending)
        /\ \A i \in 1 .. Len(channel) : channel[i].sequence \in pending
    BY <1>4, <2>1, Zenon DEF GraphInv, RequestsOK
  <2>9. active.sequence = 0 \/ active.sequence \in pending
    <3>1. active.sequence \in 0 .. MaxRuns
      BY Zenon DEF GraphInv, Types
    <3>2. active.sequence # 0 => active.sequence \in Run
      BY <3>1 DEF Run
    <3>3. Len(Requests) \in Nat
      BY RequestForms, Zenon DEF GraphInv
    <3>4. 0 \in 0 .. Len(Requests) /\ Live(Requests, active.sequence, 0, active.sequence)
      BY <3>3 DEF Live
    <3> QED BY <2>8, <3>2, <3>4, Zenon DEF Booked
  <2>10. s > active.sequence /\ active.sequence # s
    BY <2>4, <2>6, <2>9
  <2>11. ASSUME NEW i \in 1 .. Len(Requests), Requests[i].kind = "Start"
         PROVE  Requests[i].sequence < s
    <3>1. Requests \in Seq(Request) /\ Len(Requests) \in Nat
      BY RequestForms, Zenon DEF GraphInv
    <3>2. Requests[i] \in Request
      BY <3>1
    <3>3. Requests[i].sequence \in Run /\ i # 0 /\ i \in 0 .. Len(Requests)
      BY <3>1, <3>2 DEF Request
    <3>4. Live(Requests, active.sequence, i, Requests[i].sequence)
      BY <2>11, <3>3, Zenon DEF Live
    <3>5. Requests[i].sequence \in pending
      BY <2>8, <3>3, <3>4, Zenon DEF Booked
    <3> QED BY <2>6, <3>5, Zenon
  <2>12. Requests' = Append(Requests, r)
    <3>1. inbox \o Append(outbound, r) = Append(Requests, r)
      BY <2>5, RequestForms, Zenon DEF GraphInv
    <3> QED BY <1>1, <2>1, <3>1, Zenon DEF Requests
  <2>13. /\ QueueOK(Append(Requests, r), active.sequence)
         /\ Booked(Append(Requests, r), active.sequence, pending \cup {s}, pending)
    <3>1. pending \in SUBSET Run /\ s \in Run \ pending
      BY <2>4, <2>6, <2>7, Zenon
    <3> QED BY <2>5, <2>8, <2>10, <2>11, <3>1, QueueStart, Zenon
  <2>14. Types'
    <3>1. run' \in [sequence : 0 .. MaxRuns, finished : BOOLEAN, stopping : BOOLEAN]
      BY <2>2, <2>4
    <3>2. outbound' \in Seq(Request)
      <4>1. outbound \in Seq(Request)
        BY Zenon DEF GraphInv, Types
      <4> QED BY <2>1, <2>5, <4>1, Appends, Zenon
    <3>3. pending' \in SUBSET Run /\ cancelled' \in SUBSET pending'
      BY <1>1, <1>4, <2>1, <2>4, <2>6, Zenon
    <3>4. next_sequence' \in 0 .. MaxRuns
      BY <2>4, Zenon DEF s
    <3> QED BY <1>1, <1>2, <3>1, <3>2, <3>3, <3>4, Zenon DEF GraphInv, Types
  <2>15. ClientOK'
    <3>1. \A t \in Run : updates[t] # {} => t \notin pending /\ t <= next_sequence
      BY Zenon DEF GraphInv, ClientOK
    <3>2. ASSUME NEW t \in Run, updates[t] # {} PROVE t \notin pending' /\ t <= s
      <4>1. t \notin pending /\ t <= next_sequence /\ t \in Nat
        BY <3>1, <3>2 DEF Run
      <4> QED BY <2>1, <2>3, <2>4, <4>1
    <3>3. \A t \in pending' : t <= s
      BY <2>1, <2>4, <2>6
    <3>4. \A t \in pending' \ cancelled' : t = s
      BY <1>1, <1>4, <2>1, Zenon
    <3> QED BY <1>1, <2>1, <2>2, <3>2, <3>3, <3>4, Zenon DEF ClientOK, s
  <2>16. RequestsOK'
    <3>1. ASSUME NEW i \in 1 .. Len(Append(Requests, r)), NEW j \in 1 .. Len(channel),
                 Append(Requests, r)[i].kind = "Start"
          PROVE  channel[j].sequence < Append(Requests, r)[i].sequence
      <4>1. /\ Len(Append(Requests, r)) = Len(Requests) + 1 /\ Len(Requests) \in Nat
            /\ \A l \in 1 .. Len(Requests) : Append(Requests, r)[l] = Requests[l]
            /\ Append(Requests, r)[Len(Requests) + 1] = r
        BY <2>5, <2>8, QueueAppend, Zenon
      <4>2. CASE i = Len(Requests) + 1
        BY <2>5, <2>6, <2>8, <4>1, <4>2, Zenon
      <4>3. CASE i # Len(Requests) + 1
        <5>1. i \in 1 .. Len(Requests) /\ Append(Requests, r)[i] = Requests[i]
          BY <4>1, <4>3
        <5> QED BY <3>1, <5>1, Zenon DEF GraphInv, RequestsOK
      <4> QED BY <4>2, <4>3, Zenon
    <3>2. \A i \in 1 .. Len(channel) : channel[i].sequence \in pending'
      BY <2>1, <2>8, Zenon
    <3> QED BY <1>1, <1>4, <2>1, <2>12, <2>13, <3>1, <3>2, Zenon DEF RequestsOK
  <2>17. PageOK'
    <3>1. ASSUME NEW t \in pending' \ cancelled'
          PROVE  Awaits(extent', channel', active'.sequence, Sent', page', receiving', t)
      <4>1. t = s
        BY <1>1, <1>4, <2>1, Zenon
      <4>2. channel # <<>> => channel[1].sequence # t
        <5>1. channel # <<>> => 1 \in 1 .. Len(channel)
          BY DEF GraphInv, WorkerOK, ChannelOK
        <5> QED BY <2>7, <2>8, <4>1, <5>1, Zenon
      <4>3. active.sequence # t
        BY <2>10, <4>1, Zenon
      <4> QED BY <1>1, <4>2, <4>3, Zenon DEF Awaits
    <3> QED BY <1>2, <1>3, <3>1, Zenon DEF PageOK
  <2> QED BY <1>5, <2>14, <2>15, <2>16, <2>17, Zenon DEF GraphInv
<1> QED BY <1>6, <1>7, Zenon

(***************************************************************************)
(* stop_command and clear_derived_data_presentations: the client cancels   *)
(* the UI's run, which stays pending.                                      *)
(***************************************************************************)
LEMMA CancelStep ==
  ASSUME GraphInv, StopRun \/ AbandonRun
  PROVE  GraphInv'
<1> DEFINE s == run.sequence
           r == [kind |-> "Cancel", sequence |-> s]
<1>1. /\ Running /\ Cancel(s)
      /\ UNCHANGED <<next_sequence, pending, updates, disconnected, page, receiving, inbox, channel,
                     active, stored, journal, extent, faults>>
  BY Zenon DEF StopRun, AbandonRun, mirror, worker
<1>2. run' \in [sequence : 0 .. MaxRuns, finished : BOOLEAN, stopping : BOOLEAN]
  <2>0. run \in [sequence : 0 .. MaxRuns, finished : BOOLEAN, stopping : BOOLEAN]
    BY Zenon DEF GraphInv, Types
  <2>1. CASE StopRun
    <3>1. run' = [run EXCEPT !.stopping = run.sequence \in pending]
      BY <2>1, Zenon DEF StopRun
    <3>2. (run.sequence \in pending) \in BOOLEAN
      OBVIOUS
    <3> QED BY <2>0, <3>1, <3>2, Zenon
  <2>2. CASE AbandonRun
    BY <2>2, GraphWorkerAssumption DEF AbandonRun, NoRun
  <2> QED BY <2>1, <2>2, Zenon
<1>3. s \notin pending => UNCHANGED <<cancelled, outbound>>
  BY <1>1, Zenon DEF Cancel
<1>4. s \in pending => /\ cancelled' = cancelled \cup {s}
                       /\ outbound' = IF s \in cancelled THEN outbound ELSE Append(outbound, r)
  BY <1>1, Zenon DEF Cancel
<1> HIDE DEF s, r
<1>5. cancelled \subseteq pending /\ pending \subseteq Run
  BY Zenon DEF GraphInv, Types
<1>6. pending' = pending /\ cancelled' \in SUBSET pending /\ cancelled \subseteq cancelled' /\ s \notin pending \ cancelled'
  BY <1>1, <1>3, <1>4, <1>5, Zenon
<1>7. pending' \ cancelled' = {}
  <2>1. \A t \in pending \ cancelled : t = s
    BY Zenon DEF GraphInv, ClientOK, s
  <2> QED BY <1>6, <2>1, Zenon
<1>8. s \in pending => r \in Request /\ r.kind = "Cancel" /\ r.sequence = s
  BY <1>5, Zenon DEF r, Request
<1>9. s \in pending => disconnected = "no"
  BY Zenon DEF GraphInv, ClientOK
<1>10. WorkerOK'
  BY <1>1, Untouched, Zenon
<1>11. Types'
  <2>1. outbound' \in Seq(Request)
    <3>1. outbound \in Seq(Request)
      BY Zenon DEF GraphInv, Types
    <3> QED BY <1>3, <1>4, <1>8, <3>1, Appends
  <2> QED BY <1>1, <1>2, <1>6, <2>1, Zenon DEF GraphInv, Types
<1>12. ClientOK'
  <2>1. disconnected # "no" => pending = {} /\ outbound' = <<>>
    <3>1. disconnected # "no" => pending = {} /\ outbound = <<>>
      BY Zenon DEF GraphInv, ClientOK
    <3> QED BY <1>3, <1>9, <3>1, Zenon
  <2> QED BY <1>1, <1>7, <2>1, Zenon DEF GraphInv, ClientOK
<1>13. RequestsOK'
  <2>1. CASE UNCHANGED <<cancelled, outbound>>
    BY <1>1, <2>1, Untouched, Zenon
  <2>2. CASE s \in pending /\ s \in cancelled
    <3>1. UNCHANGED <<cancelled, outbound>>
      BY <1>4, <2>2, Zenon
    <3> QED BY <2>1, <3>1, Zenon
  <2>3. CASE s \in pending /\ s \notin cancelled
    <3>1. Requests' = Append(Requests, r)
      <4>1. inbox \o Append(outbound, r) = Append(Requests, r)
        BY <1>8, <2>3, RequestForms, Zenon DEF GraphInv
      <4> QED BY <1>1, <1>4, <2>3, <4>1, Zenon DEF Requests
    <3>2. QueueOK(Requests, active.sequence) /\ Booked(Requests, active.sequence, pending, cancelled)
      BY <1>9, <2>3, Zenon DEF GraphInv, RequestsOK
    <3>3. /\ QueueOK(Append(Requests, r), active.sequence)
          /\ Booked(Append(Requests, r), active.sequence, pending, cancelled \cup {s})
      BY <1>5, <1>8, <2>3, <3>2, QueueCancel, Zenon
    <3>4. ASSUME NEW i \in 1 .. Len(Append(Requests, r)), NEW j \in 1 .. Len(channel),
                 Append(Requests, r)[i].kind = "Start"
          PROVE  channel[j].sequence < Append(Requests, r)[i].sequence
      <4>1. /\ Len(Append(Requests, r)) = Len(Requests) + 1 /\ Len(Requests) \in Nat
            /\ \A l \in 1 .. Len(Requests) : Append(Requests, r)[l] = Requests[l]
            /\ Append(Requests, r)[Len(Requests) + 1] = r
        BY <1>8, <2>3, <3>2, QueueAppend, Zenon
      <4>2. i # Len(Requests) + 1
        BY <1>8, <2>3, <3>4, <4>1, Zenon
      <4>3. i \in 1 .. Len(Requests) /\ Append(Requests, r)[i] = Requests[i]
        BY <4>1, <4>2
      <4> QED BY <3>4, <4>3, Zenon DEF GraphInv, RequestsOK
    <3>5. disconnected = "no" => \A i \in 1 .. Len(channel) : channel[i].sequence \in pending
      BY Zenon DEF GraphInv, RequestsOK
    <3> QED BY <1>1, <1>4, <2>3, <3>1, <3>3, <3>4, <3>5, Zenon DEF RequestsOK
  <2> QED BY <1>3, <2>1, <2>2, <2>3, Zenon
<1>14. PageOK'
  <2>1. Whole(extent, page)
    BY Zenon DEF GraphInv, PageOK
  <2> QED BY <1>1, <1>7, <2>1, Zenon DEF PageOK
<1> QED BY <1>10, <1>11, <1>12, <1>13, <1>14, Zenon DEF GraphInv

(***************************************************************************)
(* poll_run, and posting the client's requests.                            *)
(***************************************************************************)
LEMMA HostStep ==
  ASSUME GraphInv, PollRun \/ PostRequests
  PROVE  GraphInv'
<1>1. CASE PollRun
  <2>1. /\ Running /\ updates[run.sequence] # {}
        /\ run' = [run EXCEPT !.finished = TRUE]
        /\ updates' = [updates EXCEPT ![run.sequence] = {}]
        /\ UNCHANGED <<next_sequence, pending, cancelled, outbound, disconnected, page, receiving,
                       inbox, channel, active, stored, journal, extent, faults>>
    BY <1>1, Zenon DEF PollRun, mirror, worker
  <2>2. RequestsOK' /\ WorkerOK' /\ PageOK'
    BY <2>1, Untouched, Zenon
  <2>3. /\ run \in [sequence : 0 .. MaxRuns, finished : BOOLEAN, stopping : BOOLEAN]
        /\ updates \in [Run -> SUBSET Terminal]
    BY Zenon DEF GraphInv, Types
  <2>4. run.sequence \in Run
    BY <2>1, <2>3 DEF Running, Run
  <2>5. /\ run' \in [sequence : 0 .. MaxRuns, finished : BOOLEAN, stopping : BOOLEAN]
        /\ updates' \in [Run -> SUBSET Terminal]
        /\ \A t \in Run : updates'[t] # {} => updates[t] # {}
    BY <2>1, <2>3, <2>4, Zenon
  <2>6. Types'
    BY <2>1, <2>5, Zenon DEF GraphInv, Types
  <2>7. run.sequence \notin pending
    BY <2>1, <2>4, Zenon DEF GraphInv, ClientOK
  <2>8. pending \ cancelled = {}
    <3>1. \A t \in pending \ cancelled : t = run.sequence
      BY Zenon DEF GraphInv, ClientOK
    <3> QED BY <2>7, <3>1, Zenon
  <2>9. ClientOK'
    BY <2>1, <2>5, <2>8, Zenon DEF GraphInv, ClientOK
  <2> QED BY <2>2, <2>6, <2>9, Zenon DEF GraphInv
<1>2. CASE PostRequests
  <2>1. /\ inbox' = Requests /\ outbound' = <<>>
        /\ UNCHANGED <<run, next_sequence, pending, cancelled, updates, disconnected, page,
                       receiving, channel, active, stored, journal, extent, faults>>
    BY <1>2, Zenon DEF PostRequests, mirror, worker, Requests
  <2>2. Requests' = Requests /\ Requests \in Seq(Request)
    BY <2>1, RequestForms, Zenon DEF Requests, GraphInv
  <2>3. WorkerOK'
    BY <2>1, Untouched, Zenon
  <2>4. Types'
    <3>1. outbound' \in Seq(Request)
      BY <2>1
    <3> QED BY <2>1, <2>2, <3>1, Zenon DEF GraphInv, Types
  <2>5. ClientOK'
    BY <2>1, Zenon DEF GraphInv, ClientOK
  <2>6. RequestsOK'
    BY <2>1, <2>2, Zenon DEF GraphInv, RequestsOK
  <2>7. PageOK'
    BY <2>1, <2>2, Zenon DEF GraphInv, PageOK, Sent
  <2> QED BY <2>3, <2>4, <2>5, <2>6, <2>7, Zenon DEF GraphInv
<1> QED BY <1>1, <1>2, Zenon

(***************************************************************************)
(* fail_all: the worker may still have requests, but what it answers to    *)
(* them is ignored.                                                        *)
(***************************************************************************)
LEMMA FailAllStep ==
  ASSUME GraphInv, FailAll("host"), faults < MaxFaults, faults' = faults + 1,
         channel' = channel \/ (channel # <<>> /\ channel' = Tail(channel)),
         page' \in [Key -> SUBSET Run], receiving' \in [Key -> Receiving], Whole(extent, page'),
         UNCHANGED <<run, next_sequence, inbox, active, stored, journal, extent>>
  PROVE  GraphInv'
<1>1. /\ disconnected' = "host" /\ pending' = {} /\ cancelled' = {} /\ outbound' = <<>>
      /\ updates' = [s \in Run |-> IF s \in pending THEN updates[s] \cup {"Failed"} ELSE updates[s]]
      /\ UNCHANGED <<run, next_sequence, inbox, active, stored, journal, extent>>
  BY Zenon DEF FailAll
<1>2. /\ ChannelOK(extent, channel', active.sequence, Sent)
      /\ \A j \in 1 .. Len(channel') : \E i \in 1 .. Len(channel) : channel'[j] = channel[i]
  <2>1. ChannelOK(extent, channel, active.sequence, Sent)
    BY Zenon DEF GraphInv, WorkerOK
  <2>2. CASE channel' = channel
    BY <2>1, <2>2, Zenon
  <2>3. CASE channel # <<>> /\ channel' = Tail(channel)
    <3>1. /\ ChannelOK(extent, Tail(channel), active.sequence, Sent)
          /\ \A i \in 1 .. Len(Tail(channel)) :
               Tail(channel)[i] = channel[i + 1] /\ i + 1 \in 1 .. Len(channel)
      BY <2>1, <2>3, ChannelTail, Zenon
    <3> QED BY <2>3, <3>1, Zenon
  <2> QED BY <2>2, <2>3, Zenon
<1>w. WorkerOK'
  BY <1>1, <1>2, Zenon DEF GraphInv, WorkerOK, Sent
<1>3. updates' \in [Run -> SUBSET Terminal]
  BY <1>1, Zenon DEF GraphInv, Types, Terminal
<1>4. faults' \in 0 .. MaxFaults
  BY Bounds, Zenon DEF GraphInv, Types
<1>5. Types'
  <2>1. /\ pending' \in SUBSET Run /\ cancelled' \in SUBSET pending' /\ outbound' \in Seq(Request)
        /\ disconnected' \in {"no", "host"}
    BY <1>1
  <2> QED BY <1>1, <1>3, <1>4, <2>1, Zenon DEF GraphInv, Types
<1>6. ClientOK'
  <2>1. ASSUME NEW t \in Run, updates'[t] # {} PROVE t <= next_sequence
    <3>1. t \in pending \/ updates[t] # {}
      BY <1>1, <2>1, Zenon
    <3> QED BY <3>1, Zenon DEF GraphInv, ClientOK
  <2> QED BY <1>1, <2>1, Zenon DEF ClientOK
<1>7. RequestsOK'
  <2>1. inbox \in Seq(Request) /\ outbound \in Seq(Request)
    BY Zenon DEF GraphInv, Types
  <2>2. Requests' = inbox
    BY <1>1, RequestForms, Zenon DEF Requests, GraphInv
  <2>3. QueueOK(inbox \o outbound, active.sequence)
    BY Zenon DEF GraphInv, RequestsOK, Requests
  <2>4. QueueOK(inbox, active.sequence)
    BY <2>1, <2>3, QueuePrefix, Zenon
  <2>5. ASSUME NEW i \in 1 .. Len(inbox), NEW j \in 1 .. Len(channel'), inbox[i].kind = "Start"
        PROVE  channel'[j].sequence < inbox[i].sequence
    <3>1. i \in 1 .. Len(Requests) /\ Requests[i] = inbox[i]
      BY <2>1 DEF Requests
    <3>2. PICK l \in 1 .. Len(channel) : channel'[j] = channel[l]
      BY <1>2, Zenon
    <3> QED BY <2>5, <3>1, <3>2, Zenon DEF GraphInv, RequestsOK
  <2>6. disconnected' # "no"
    BY <1>1, Zenon
  <2> QED BY <1>1, <2>2, <2>4, <2>5, <2>6, Zenon DEF RequestsOK
<1>8. PageOK'
  BY <1>1, Zenon DEF PageOK
<1> QED BY <1>w, <1>5, <1>6, <1>7, <1>8, Zenon DEF GraphInv

(***************************************************************************)
(* The worker is lost between two messages.                                *)
(***************************************************************************)
LEMMA LoseWorkerStep ==
  ASSUME GraphInv, LoseWorker
  PROVE  GraphInv'
<1>1. /\ FailAll("host") /\ faults < MaxFaults /\ faults' = faults + 1
      /\ UNCHANGED <<run, next_sequence, page, receiving, inbox, channel, active, stored, journal,
                     extent>>
  BY Zenon DEF LoseWorker, mirror, worker
<1>2. page' \in [Key -> SUBSET Run] /\ receiving' \in [Key -> Receiving] /\ Whole(extent, page')
  BY <1>1, Zenon DEF GraphInv, Types, PageOK
<1> QED BY <1>1, <1>2, FailAllStep, Zenon

(***************************************************************************)
(* The worker is given up in the middle of a message: whatever prefix of   *)
(* its events was applied, a manifest is there only with its whole store.  *)
(***************************************************************************)
LEMMA ApplyFailsStep ==
  ASSUME GraphInv, ApplyFails
  PROVE  GraphInv'
<1> DEFINE m == Head(channel)
           s == m.sequence
           E == m.events
<1>1. /\ channel # <<>> /\ channel' = Tail(channel)
      /\ faults < MaxFaults /\ faults' = faults + 1 /\ FailAll("host")
      /\ m.kind = "Artifacts" /\ s \in pending \ cancelled
      /\ UNCHANGED <<run, next_sequence, inbox, active, stored, journal, extent>>
  BY Zenon DEF ApplyFails, worker
<1>2. PICK n \in 0 .. Len(E) : \E applied \in ApplyAll(SubSeq(E, 1, n)) :
        /\ page' = applied.page
        /\ \/ receiving' = applied.receiving
           \/ /\ n < Len(E)
              /\ receiving' = [applied.receiving EXCEPT ![E[n + 1].key] = NotReceiving]
  BY Zenon DEF ApplyFails
<1>3. PICK applied \in ApplyAll(SubSeq(E, 1, n)) :
        /\ page' = applied.page
        /\ \/ receiving' = applied.receiving
           \/ /\ n < Len(E)
              /\ receiving' = [applied.receiving EXCEPT ![E[n + 1].key] = NotReceiving]
  BY <1>2, Zenon
<1>4. m \in MessageType /\ MessageOK(extent, m) /\ m = channel[1]
  <2>1. ChannelOK(extent, channel, active.sequence, Sent)
    BY Zenon DEF GraphInv, WorkerOK
  <2> QED BY <1>1, <2>1, ChannelTail, Zenon
<1>5. s \in Run
  BY <1>4, Zenon DEF MessageType
<1>6. Chain(extent[s], s, E, From(extent, m), To(extent, m))
  BY <1>1, <1>4, Zenon DEF MessageOK
<1>7. PageAt(extent[s], page, receiving, s, From(extent, m))
  BY <1>1, <1>4, Zenon DEF GraphInv, PageOK, Awaits
<1>8. /\ extent \in [Run -> 1 .. MaxSegments] /\ Whole(extent, page)
      /\ page \in [Key -> SUBSET Run] /\ receiving \in [Key -> Receiving]
  BY Zenon DEF GraphInv, Types, PageOK
<1> HIDE DEF m, s, E
<1>9. PICK r : Chain(extent[s], s, SubSeq(E, 1, n), From(extent, m), r)
  BY <1>6, ChainPrefix, Zenon
<1>10. applied \in Mirror /\ Whole(extent, applied.page)
  BY <1>5, <1>7, <1>8, <1>9, ApplyAllOK, Zenon
<1>11. applied.page \in [Key -> SUBSET Run] /\ applied.receiving \in [Key -> Receiving]
  BY <1>10, Zenon DEF Mirror
<1>12. NotReceiving \in Receiving
  BY GraphWorkerAssumption DEF NotReceiving, Receiving
<1>13. receiving' \in [Key -> Receiving]
  BY <1>3, <1>11, <1>12, Zenon
<1> QED BY <1>1, <1>3, <1>10, <1>11, <1>13, FailAllStep, Zenon

(***************************************************************************)
(* The worker: what it sends of run s keeps the requests and the page in   *)
(* order.                                                                  *)
(***************************************************************************)
LEMMA Sends ==
  ASSUME GraphInv, UNCHANGED <<page, receiving, extent, pending, cancelled, disconnected>>,
         WorkerOK', Len(channel) <= Len(channel'), NEW s,
         \A i \in 1 .. Len(channel') :
           IF i <= Len(channel) THEN channel'[i] = channel[i]
           ELSE channel'[i].sequence = s /\ (channel'[i].kind = "Started" => StartIn(Requests, s)),
         channel = <<>> =>
           IF channel' = <<>> THEN active'.sequence = active.sequence /\ Sent' = Sent
           ELSE channel'[1].kind \in {"Artifacts", "Finished"} =>
                  s = active.sequence /\ From(extent, channel'[1]) = Sent,
         QueueOK(Requests', active'.sequence),
         \A i \in 1 .. Len(Requests') : Requests'[i].kind = "Start" =>
           /\ \E l \in 1 .. Len(Requests) : Requests[l] = Requests'[i]
           /\ s < Requests'[i].sequence \/ channel' = channel,
         disconnected = "no" => /\ Booked(Requests', active'.sequence, pending, cancelled)
                                /\ s \in pending \/ channel' = channel
  PROVE  RequestsOK' /\ PageOK'
<1>1. /\ channel \in Seq(MessageType) /\ channel' \in Seq(MessageType)
      /\ Len(channel) \in Nat /\ Len(channel') \in Nat
      /\ channel # <<>> => 1 \in 1 .. Len(channel') /\ 1 <= Len(channel)
      /\ channel = <<>> /\ channel' # <<>> => 1 \in 1 .. Len(channel') /\ ~(1 <= Len(channel))
      /\ channel # <<>> => channel' # <<>>
  <2>1. channel \in Seq(MessageType) /\ channel' \in Seq(MessageType)
    BY Zenon DEF GraphInv, WorkerOK, ChannelOK
  <2>2. /\ Len(channel) \in Nat /\ (channel = <<>> <=> Len(channel) = 0)
        /\ Len(channel') \in Nat /\ (channel' = <<>> <=> Len(channel') = 0)
    BY <2>1, Lens, Zenon
  <2>3. \A m, n \in Nat : m <= n =>
          /\ m # 0 => n # 0 /\ 1 \in 1 .. n /\ 1 <= m
          /\ m = 0 /\ n # 0 => 1 \in 1 .. n /\ ~(1 <= m)
    OBVIOUS
  <2> QED BY <2>1, <2>2, <2>3, Zenon
<1>2. RequestsOK'
  <2>1. ASSUME NEW i \in 1 .. Len(Requests'), NEW j \in 1 .. Len(channel'),
               Requests'[i].kind = "Start"
        PROVE  channel'[j].sequence < Requests'[i].sequence
    <3>1. PICK l \in 1 .. Len(Requests) : Requests[l] = Requests'[i]
      BY <2>1, Zenon
    <3>2. ASSUME j <= Len(channel), channel'[j] = channel[j]
          PROVE  channel'[j].sequence < Requests'[i].sequence
      <4>1. j \in 1 .. Len(channel)
        BY <1>1, <3>2, Places, Zenon
      <4> QED BY <2>1, <3>1, <3>2, <4>1, Zenon DEF GraphInv, RequestsOK
    <3>3. CASE j <= Len(channel)
      BY <3>2, <3>3, Zenon
    <3>4. CASE ~(j <= Len(channel))
      <4>1. channel'[j].sequence = s /\ channel' # channel
        BY <1>1, <3>4, Places, Zenon
      <4> QED BY <2>1, <4>1, Zenon
    <3> QED BY <3>3, <3>4, Zenon
  <2>2. ASSUME disconnected = "no", NEW j \in 1 .. Len(channel') PROVE channel'[j].sequence \in pending
    <3>1. CASE j <= Len(channel)
      <4>1. j \in 1 .. Len(channel) /\ channel'[j] = channel[j]
        BY <1>1, <3>1, Places, Zenon
      <4> QED BY <2>2, <4>1, Zenon DEF GraphInv, RequestsOK
    <3>2. CASE ~(j <= Len(channel))
      <4>1. channel'[j].sequence = s /\ channel' # channel
        BY <1>1, <3>2, Places, Zenon
      <4> QED BY <2>2, <4>1, Zenon
    <3> QED BY <3>1, <3>2, Zenon
  <2> QED BY <2>1, <2>2, Zenon DEF RequestsOK
<1>3. PageOK'
  <2>1. Whole(extent, page)
    BY Zenon DEF GraphInv, PageOK
  <2>2. ASSUME NEW t \in pending \ cancelled
        PROVE  Awaits(extent', channel', active'.sequence, Sent', page', receiving', t)
    <3>1. Awaits(extent, channel, active.sequence, Sent, page, receiving, t)
      BY Zenon DEF GraphInv, PageOK
    <3>2. CASE channel # <<>>
      <4>1. channel' # <<>> /\ channel'[1] = channel[1]
        BY <1>1, <3>2, Zenon
      <4> QED BY <3>1, <3>2, <4>1, Zenon DEF Awaits
    <3>3. CASE channel = <<>> /\ channel' = <<>>
      BY <3>1, <3>3, Zenon DEF Awaits
    <3>4. CASE channel = <<>> /\ channel' # <<>>
      <4>1. channel'[1].sequence = s
        BY <1>1, <3>4, Zenon
      <4>2. ASSUME channel'[1].sequence = t, channel'[1].kind \in {"Artifacts", "Finished"}
            PROVE  PageAt(extent[t], page, receiving, t, From(extent, channel'[1]))
        BY <3>1, <3>4, <4>1, <4>2, Zenon DEF Awaits
      <4> QED BY <3>4, <4>2, Zenon DEF Awaits
    <3> QED BY <3>2, <3>3, <3>4, Zenon
  <2>3. ASSUME NEW t \in pending \ cancelled, StartIn(Requests', t) \/ StartedIn(channel', t)
        PROVE  page[Manifest] = {}
    <3>1. StartIn(Requests, t) \/ StartedIn(channel, t)
      <4>1. CASE StartIn(Requests', t)
        BY <4>1, Zenon DEF StartIn
      <4>2. CASE StartedIn(channel', t)
        <5>1. PICK i \in 1 .. Len(channel') : channel'[i].kind = "Started" /\ channel'[i].sequence = t
          BY <4>2, Zenon DEF StartedIn
        <5>2. CASE i <= Len(channel)
          <6>1. i \in 1 .. Len(channel) /\ channel'[i] = channel[i]
            BY <1>1, <5>2, Places, Zenon
          <6> QED BY <5>1, <6>1, Zenon DEF StartedIn
        <5>3. CASE ~(i <= Len(channel))
          BY <5>1, <5>3, Zenon
        <5> QED BY <5>2, <5>3, Zenon
      <4> QED BY <2>3, <4>1, <4>2, Zenon
    <3> QED BY <3>1, Zenon DEF GraphInv, PageOK
  <2> QED BY <2>1, <2>2, <2>3, Zenon DEF PageOK
<1> QED BY <1>2, <1>3, Zenon

(***************************************************************************)
(* The client knows the active run.                                        *)
(***************************************************************************)
LEMMA ActiveIsPending ==
  ASSUME GraphInv, active.sequence # 0
  PROVE  /\ active.sequence \in Run
         /\ disconnected = "no" => active.sequence \in pending
         /\ \A i \in 1 .. Len(Requests) : Requests[i].kind = "Start" =>
              active.sequence < Requests[i].sequence
<1>1. active.sequence \in Run
  BY DEF GraphInv, Types, Run
<1>2. Len(Requests) \in Nat /\ Requests \in Seq(Request)
  BY RequestForms, Zenon DEF GraphInv
<1>3. 0 \in 0 .. Len(Requests) /\ Live(Requests, active.sequence, 0, active.sequence)
  BY <1>2 DEF Live
<1>4. disconnected = "no" => active.sequence \in pending
  BY <1>1, <1>3, Zenon DEF GraphInv, RequestsOK, Booked
<1>5. ASSUME NEW i \in 1 .. Len(Requests), Requests[i].kind = "Start"
      PROVE  active.sequence < Requests[i].sequence
  <2>1. Requests[i].sequence > active.sequence
    <3>1. QueueOK(Requests, active.sequence)
      BY Zenon DEF GraphInv, RequestsOK
    <3> QED BY <1>5, <3>1, Zenon DEF QueueOK
  <2> QED BY <2>1, Zenon
<1> QED BY <1>1, <1>4, <1>5, Zenon

(***************************************************************************)
(* advance_streaming.                                                      *)
(***************************************************************************)
LEMMA WorkStep ==
  ASSUME GraphInv, Work
  PROVE  GraphInv'
<1>1. PICK count \in 0 .. MaxSlice :
        (\E failure \in BOOLEAN : Advance(count, failure)) \/ TransferFails(count)
  BY Zenon DEF Work
<1>2. /\ active.sequence \in Run
      /\ UNCHANGED <<run, next_sequence, pending, cancelled, outbound, updates, disconnected,
                     page, receiving, inbox, extent>>
      /\ active' \in [sequence : {0, active.sequence}, published : 0 .. MaxSegments + 2, failed : BOOLEAN]
      /\ stored' \in [Key -> 0 .. MaxRuns]
      /\ journal' \in Seq(Mutation)
      /\ faults' \in 0 .. MaxFaults
      /\ WorkerOK'
      /\ Len(channel) <= Len(channel')
      /\ \A i \in 1 .. Len(channel') :
           IF i <= Len(channel) THEN channel'[i] = channel[i]
           ELSE channel'[i].sequence = active.sequence /\ channel'[i].kind # "Started"
      /\ channel = <<>> =>
           IF channel' = <<>> THEN active'.sequence = active.sequence /\ Sent' = Sent
           ELSE channel'[1].kind \in {"Artifacts", "Finished"} => From(extent, channel'[1]) = Sent
  <2>1. CASE \E failure \in BOOLEAN : Advance(count, failure)
    BY <2>1, Advances, Zenon
  <2>2. CASE TransferFails(count)
    BY <2>2, Aborts, Zenon
  <2> QED BY <1>1, <2>1, <2>2, Zenon
<1>3. Types'
  <2>1. active' \in [sequence : 0 .. MaxRuns, published : 0 .. MaxSegments + 2, failed : BOOLEAN]
    <3>1. {0, active.sequence} \subseteq 0 .. MaxRuns
      <4>1. 0 \in 0 .. MaxRuns
        BY GraphWorkerAssumption
      <4> QED BY <1>2, <4>1, RunNumbers, Zenon
    <3> QED BY <1>2, <3>1, Zenon
  <2> QED BY <1>2, <2>1, Zenon DEF GraphInv, Types
<1>4. ClientOK'
  BY <1>2, Untouched, Zenon
<1>5. Requests' = Requests
  BY <1>2, Zenon DEF Requests
<1>6. active.sequence # 0
  BY <1>2, RunNumbers, Zenon
<1>7. active'.sequence \in {0, active.sequence}
  BY <1>2, Zenon
<1>8. cancelled \in SUBSET Run
  BY Zenon DEF GraphInv, Types
<1>9. /\ QueueOK(Requests, active.sequence)
      /\ disconnected = "no" => Booked(Requests, active.sequence, pending, cancelled)
  BY Zenon DEF GraphInv, RequestsOK
<1>10. /\ QueueOK(Requests', active'.sequence)
       /\ disconnected = "no" => Booked(Requests', active'.sequence, pending, cancelled)
  BY <1>5, <1>7, <1>8, <1>9, QueueIdle, Zenon
<1>11. \A i \in 1 .. Len(Requests') : Requests'[i].kind = "Start" =>
         /\ \E l \in 1 .. Len(Requests) : Requests[l] = Requests'[i]
         /\ active.sequence < Requests'[i].sequence
  BY <1>5, <1>6, ActiveIsPending, Zenon
<1>12. disconnected = "no" => active.sequence \in pending
  BY <1>6, ActiveIsPending, Zenon
<1>13. RequestsOK' /\ PageOK'
  BY <1>2, <1>10, <1>11, <1>12, Sends, Zenon
<1> QED BY <1>2, <1>3, <1>4, <1>13, Zenon DEF GraphInv

(***************************************************************************)
(* What the first request is to the worker.                                *)
(***************************************************************************)
LEMMA FirstRequest ==
  ASSUME GraphInv, inbox # <<>>, inbox' = Tail(inbox), UNCHANGED outbound, NEW r, r = Head(inbox)
  PROVE  /\ Requests' = Tail(Requests) /\ inbox' \in Seq(Request)
         /\ r \in Request /\ r = Requests[1] /\ 1 \in 1 .. Len(Requests)
         /\ \A i \in 1 .. Len(Requests') : \E l \in 1 .. Len(Requests) : Requests[l] = Requests'[i]
         /\ r.kind = "Start" =>
              /\ active.sequence = 0 /\ QueueOK(Requests', r.sequence)
              /\ disconnected = "no" => Booked(Requests', r.sequence, pending, cancelled)
         /\ r.kind = "Cancel" =>
              LET a == IF active.sequence = r.sequence THEN 0 ELSE active.sequence
              IN  /\ QueueOK(Requests', a)
                  /\ disconnected = "no" => Booked(Requests', a, pending, cancelled)
<1>1. /\ Requests \in Seq(Request) /\ Tail(inbox) \o outbound = Tail(Requests)
      /\ Tail(inbox) \in Seq(Request)
      /\ r = Head(Requests) /\ Requests # <<>>
      /\ Head(Requests) = Requests[1] /\ 1 \in 1 .. Len(Requests)
      /\ \A i \in 1 .. Len(Tail(Requests)) :
           Tail(Requests)[i] = Requests[i + 1] /\ i + 1 \in 1 .. Len(Requests)
  BY RequestForms, Zenon DEF GraphInv
<1>2. Requests' = Tail(Requests)
  BY <1>1, Zenon DEF Requests
<1>3. cancelled \in SUBSET Run /\ active.sequence \in 0 .. MaxRuns
  BY Zenon DEF GraphInv, Types
<1>4. /\ QueueOK(Requests, active.sequence)
      /\ disconnected = "no" => Booked(Requests, active.sequence, pending, cancelled)
  BY Zenon DEF GraphInv, RequestsOK
<1>5. /\ Head(Requests) \in Request
      /\ Head(Requests).kind = "Start" =>
           active.sequence = 0 /\ QueueOK(Tail(Requests), Head(Requests).sequence)
      /\ Head(Requests).kind = "Cancel" =>
           QueueOK(Tail(Requests), IF active.sequence = Head(Requests).sequence THEN 0 ELSE active.sequence)
  BY <1>1, <1>3, <1>4, QueueTail, Zenon
<1>6. disconnected = "no" =>
      /\ Head(Requests).kind = "Start" =>
           Booked(Tail(Requests), Head(Requests).sequence, pending, cancelled)
      /\ Head(Requests).kind = "Cancel" =>
           Booked(Tail(Requests), IF active.sequence = Head(Requests).sequence THEN 0 ELSE active.sequence,
                  pending, cancelled)
  BY <1>1, <1>3, <1>4, BookedTail, Zenon
<1> QED BY <1>1, <1>2, <1>5, <1>6, Zenon

(***************************************************************************)
(* start.                                                                  *)
(***************************************************************************)
LEMMA HandleStartStep ==
  ASSUME GraphInv, HandleStart
  PROVE  GraphInv'
<1> DEFINE r == Head(inbox)
           s == r.sequence
<1>1. /\ inbox # <<>> /\ r.kind = "Start" /\ inbox' = Tail(inbox)
      /\ UNCHANGED <<run, next_sequence, pending, cancelled, outbound, updates, disconnected, page,
                     receiving, extent>>
  BY Zenon DEF HandleStart, client, mirror
<1>2. /\ inbox' \in Seq(Request)
      /\ r \in Request /\ r = Requests[1] /\ 1 \in 1 .. Len(Requests)
      /\ \A i \in 1 .. Len(Requests') : \E l \in 1 .. Len(Requests) : Requests[l] = Requests'[i]
      /\ active.sequence = 0 /\ QueueOK(Requests', s)
      /\ disconnected = "no" => Booked(Requests', s, pending, cancelled)
  <2>1. r = Head(inbox)
    OBVIOUS
  <2> HIDE DEF r
  <2> QED BY <1>1, <2>1, FirstRequest, Zenon
<1>3. /\ stored' = [k \in Key |-> 0] /\ journal' = StartJournal
      /\ \/ /\ active' = [Idle EXCEPT !.sequence = s]
            /\ channel' = Append(channel, Message("Started", s))
            /\ faults' = faults
         \/ /\ faults < MaxFaults /\ faults' = faults + 1
            /\ channel' = Append(channel, Message("Failed", s))
            /\ active' = active
  BY <1>2, Zenon DEF HandleStart
<1>4. s \in Run /\ s # 0 /\ s \in 0 .. MaxRuns
  BY <1>2 DEF Request, Run
<1> HIDE DEF r
<1> HIDE DEF s
<1>5. /\ active' \in [sequence : 0 .. MaxRuns, published : 0 .. MaxSegments + 2, failed : BOOLEAN]
      /\ faults' \in 0 .. MaxFaults
      /\ active'.sequence \in {0, s}
      /\ channel' = Append(channel, Message("Started", s)) \/ channel' = Append(channel, Message("Failed", s))
  <2>1. /\ active \in [sequence : 0 .. MaxRuns, published : 0 .. MaxSegments + 2, failed : BOOLEAN]
        /\ faults \in 0 .. MaxFaults
    BY Zenon DEF GraphInv, Types
  <2>2. 0 \in 0 .. MaxSegments + 2 /\ MaxFaults \in Nat
    BY GraphWorkerAssumption
  <2>3. CASE active' = active
    BY <1>2, <1>3, <2>1, <2>2, <2>3
  <2>4. CASE active' = [Idle EXCEPT !.sequence = s] /\ faults' = faults
    BY <1>3, <1>4, <2>1, <2>2, <2>4, Zenon DEF Idle
  <2> QED BY <1>3, <2>3, <2>4, Zenon
<1>6. Types'
  <2>1. stored' \in [Key -> 0 .. MaxRuns]
    BY <1>3, GraphWorkerAssumption
  <2>2. journal' \in Seq(Mutation)
    BY <1>3, StartJournalOK, Zenon
  <2> QED BY <1>1, <1>2, <1>5, <2>1, <2>2, Zenon DEF GraphInv, Types
<1>7. ClientOK'
  BY <1>1, Untouched, Zenon
<1>8. \A j \in 1 .. Len(channel) : channel[j].sequence < s
  BY <1>1, <1>2, Zenon DEF GraphInv, RequestsOK, s
<1>9. ChannelOK(extent, channel, 0, Sent)
  BY <1>2, Zenon DEF GraphInv, WorkerOK
<1>10. /\ ChannelOK(extent, Append(channel, Message("Started", s)), s, Origin)
       /\ \A q : ChannelOK(extent, Append(channel, Message("Failed", s)), 0, q)
  BY <1>4, <1>8, <1>9, SendFirst, Zenon
<1>11. WorkerOK'
  <2>1. CASE /\ active' = [Idle EXCEPT !.sequence = s]
             /\ channel' = Append(channel, Message("Started", s))
    <3>1. active'.sequence = s /\ active'.published = 0
      BY <2>1, Zenon DEF Idle
    <3>2. journal' = StartJournal /\ StartJournal # <<>>
      BY <1>3, StartJournalOK, Zenon
    <3>3. /\ MBefore(extent[s], StartJournal[1]) = Origin
          /\ JChain(extent[s], s, StartJournal, Origin, Origin)
      BY StartJournalOK, Zenon
    <3>4. Sent' = Origin
      BY <1>1, <3>1, <3>2, <3>3, Zenon DEF Sent, JFrom
    <3>5. <<0 + 1, 0>> = Origin
      BY DEF Origin
    <3>6. 0 <= extent[s] + 2
      <4>1. extent[s] \in 1 .. MaxSegments
        BY <1>4, Zenon DEF GraphInv, Types
      <4> QED BY <4>1
    <3> QED BY <1>1, <1>10, <2>1, <3>1, <3>2, <3>3, <3>4, <3>5, <3>6, Zenon DEF WorkerOK
  <2>2. CASE channel' = Append(channel, Message("Failed", s)) /\ active' = active
    BY <1>1, <1>2, <1>10, <2>2, Zenon DEF WorkerOK
  <2> QED BY <1>3, <2>1, <2>2, Zenon
<1>12. RequestsOK' /\ PageOK'
  <2>1. QueueOK(Requests', active'.sequence)
    BY <1>2, <1>5, QueueIdle, Zenon DEF s
  <2>2. disconnected = "no" => Booked(Requests', active'.sequence, pending, cancelled)
    <3>1. cancelled \in SUBSET Run
      BY Zenon DEF GraphInv, Types
    <3>2. disconnected = "no" => Booked(Requests', s, pending, cancelled)
      BY <1>2, Zenon DEF s
    <3> QED BY <1>5, <3>1, <3>2, QueueIdle
  <2>3. \A i \in 1 .. Len(Requests') : Requests'[i].kind = "Start" =>
          /\ \E l \in 1 .. Len(Requests) : Requests[l] = Requests'[i]
          /\ s < Requests'[i].sequence
    <3>1. ASSUME NEW i \in 1 .. Len(Requests'), Requests'[i].kind = "Start"
          PROVE  s < Requests'[i].sequence
      <4>1. QueueOK(Requests', s)
        BY <1>2, Zenon DEF s
      <4>2. Requests'[i].sequence > s
        BY <3>1, <4>1, Zenon DEF QueueOK
      <4> QED BY <4>2, Zenon
    <3> QED BY <1>2, <3>1, Zenon
  <2>4. disconnected = "no" => s \in pending
    <3>1. Live(Requests, active.sequence, 1, s) /\ 1 \in 0 .. Len(Requests)
      BY <1>1, <1>2 DEF Live, s
    <3>2. disconnected = "no" => Booked(Requests, active.sequence, pending, cancelled)
      BY Zenon DEF GraphInv, RequestsOK
    <3> QED BY <1>4, <3>1, <3>2, Zenon DEF Booked
  <2>5. StartIn(Requests, s)
    BY <1>1, <1>2, Zenon DEF StartIn, s
  <2>6. PICK kind \in {"Started", "Failed"} : channel' = Append(channel, Message(kind, s))
    BY <1>5, Zenon
  <2>7. Message(kind, s).sequence = s /\ Message(kind, s).kind = kind
    BY Zenon DEF Message
  <2>8. /\ Len(channel) \in Nat /\ Len(channel') = Len(channel) + 1
        /\ \A i \in 1 .. Len(channel) : channel'[i] = channel[i]
        /\ channel'[Len(channel) + 1] = Message(kind, s)
        /\ channel = <<>> => Len(channel) = 0
    <3>1. channel \in Seq(MessageType) /\ Append(channel, Message(kind, s)) \in Seq(MessageType)
      BY <1>9, <1>10, <2>6, Zenon DEF ChannelOK
    <3>2. Message(kind, s) \in MessageType
      BY <1>4 DEF Message, MessageType, Terminal
    <3>3. Len(channel) \in Nat /\ (channel = <<>> => Len(channel) = 0)
      BY <3>1, Lens, Zenon
    <3> DEFINE e == Message(kind, s)
    <3> HIDE DEF e
    <3>4. channel' = Append(channel, e) /\ e \in MessageType
      BY <2>6, <3>2, Zenon DEF e
    <3>5. /\ Len(Append(channel, e)) = Len(channel) + 1
          /\ \A i \in 1 .. Len(channel) : Append(channel, e)[i] = channel[i]
          /\ Append(channel, e)[Len(channel) + 1] = e
      BY <3>1, <3>4, Appends
    <3> QED BY <3>3, <3>4, <3>5, Zenon DEF e
  <2>9. \A i \in 1 .. Len(channel') :
          IF i <= Len(channel) THEN channel'[i] = channel[i]
          ELSE channel'[i].sequence = s /\ (channel'[i].kind = "Started" => StartIn(Requests, s))
    BY <2>5, <2>7, <2>8
  <2>10. channel = <<>> => /\ channel' # <<>>
                           /\ channel'[1].kind \notin {"Artifacts", "Finished"}
    <3>1. channel = <<>> => channel'[1] = Message(kind, s)
      BY <2>8
    <3>2. channel' # <<>>
      BY <2>8
    <3> QED BY <2>7, <3>1, <3>2, Zenon
  <2>11. Len(channel) <= Len(channel')
    BY <2>8
  <2> QED BY <1>1, <1>11, <2>1, <2>2, <2>3, <2>4, <2>9, <2>10, <2>11, Sends, Zenon
<1> QED BY <1>6, <1>7, <1>11, <1>12, Zenon DEF GraphInv

(***************************************************************************)
(* cancel.                                                                 *)
(***************************************************************************)
LEMMA HandleCancelStep ==
  ASSUME GraphInv, HandleCancel
  PROVE  GraphInv'
<1> DEFINE r == Head(inbox)
           s == active.sequence
           a == IF s = r.sequence THEN 0 ELSE s
<1>1. /\ inbox # <<>> /\ r.kind = "Cancel" /\ inbox' = Tail(inbox)
      /\ UNCHANGED <<run, next_sequence, pending, cancelled, outbound, updates, disconnected, page,
                     receiving, extent, faults>>
      /\ IF s = r.sequence
           THEN /\ stored' = StoredAfterDrop(0) /\ active' = Idle /\ journal' = <<>>
                /\ channel' = Append(channel, Message("Cancelled", s))
           ELSE UNCHANGED <<active, stored, journal, channel>>
  BY Zenon DEF HandleCancel, client, mirror, worker
<1>2. /\ inbox' \in Seq(Request) /\ r \in Request
      /\ \A i \in 1 .. Len(Requests') : \E l \in 1 .. Len(Requests) : Requests[l] = Requests'[i]
      /\ QueueOK(Requests', a)
      /\ disconnected = "no" => Booked(Requests', a, pending, cancelled)
  <2>1. r = Head(inbox)
    OBVIOUS
  <2> HIDE DEF r
  <2> QED BY <1>1, <2>1, FirstRequest, Zenon
<1>3. ClientOK'
  BY <1>1, Untouched, Zenon
<1>4. CASE s # r.sequence
  <2> HIDE DEF r, s
  <2>1. UNCHANGED <<active, stored, journal, channel>> /\ a = s
    BY <1>1, <1>4, Zenon
  <2>2. Types'
    BY <1>1, <1>2, <2>1, Zenon DEF GraphInv, Types
  <2>3. WorkerOK'
    BY <1>1, <2>1, Untouched, Zenon
  <2>4. active'.sequence = s
    BY <2>1, Zenon DEF s
  <2>5. QueueOK(Requests', active'.sequence)
    BY <1>2, <2>1, <2>4, Zenon
  <2>6. disconnected = "no" => Booked(Requests', active'.sequence, pending, cancelled)
    BY <1>2, <2>1, <2>4, Zenon
  <2>7. channel' = channel /\ Sent' = Sent /\ active'.sequence = active.sequence
    BY <1>1, <2>1, Zenon DEF Sent
  <2>8. channel \in Seq(MessageType) /\ Len(channel) \in Nat
    <3>1. channel \in Seq(MessageType)
      BY Zenon DEF GraphInv, WorkerOK, ChannelOK
    <3> QED BY <3>1, Lens, Zenon
  <2>9. Len(channel) <= Len(channel') /\ \A i \in 1 .. Len(channel') : i <= Len(channel) /\ channel'[i] = channel[i]
    BY <2>7, <2>8
  <2>10. RequestsOK' /\ PageOK'
    BY <1>1, <1>2, <2>3, <2>5, <2>6, <2>7, <2>9, Sends, Zenon
  <2> QED BY <1>3, <2>2, <2>3, <2>10, Zenon DEF GraphInv
<1>5. CASE s = r.sequence
  <2>1. s \in Run /\ s # 0
    BY <1>2, <1>5 DEF Request, Run
  <2> HIDE DEF r, s
  <2>2. /\ stored' = StoredAfterDrop(0) /\ active' = Idle /\ journal' = <<>>
        /\ channel' = Append(channel, Message("Cancelled", s)) /\ a = 0
    BY <1>1, <1>5, Zenon
  <2>3. active'.sequence = 0
    BY <2>2, Zenon DEF Idle
  <2>4. Types'
    <3>1. stored' \in [Key -> 0 .. MaxRuns]
      <4>1. stored \in [Key -> 0 .. MaxRuns] /\ 0 \in 0 .. MaxRuns /\ active.sequence \in 0 .. MaxRuns
        BY Bounds, Zenon DEF GraphInv, Types
      <4>2. Written(0) \in [Key -> 0 .. MaxRuns]
        BY <4>1, Zenon DEF Written
      <4>3. StoredAfterDrop(0) \in [Key -> 0 .. MaxRuns]
        BY <4>1, <4>2, Zenon DEF StoredAfterDrop
      <4> QED BY <2>2, <4>3, Zenon
    <3>2. journal' \in Seq(Mutation)
      BY <2>2
    <3>3. active' \in [sequence : 0 .. MaxRuns, published : 0 .. MaxSegments + 2, failed : BOOLEAN]
      BY <2>2, GraphWorkerAssumption DEF Idle
    <3> QED BY <1>1, <1>2, <3>1, <3>2, <3>3, Zenon DEF GraphInv, Types
  <2>5. ChannelOK(extent, channel, s, Sent)
    BY Zenon DEF GraphInv, WorkerOK, s
  <2>6. \A q : ChannelOK(extent, Append(channel, Message("Cancelled", s)), 0, q)
    <3>1. "Cancelled" \in Terminal
      BY Zenon DEF Terminal
    <3> QED BY <2>1, <2>5, <3>1, SendEnd, Zenon
  <2>7. WorkerOK'
    BY <1>1, <2>2, <2>3, <2>6, Zenon DEF WorkerOK
  <2>8. /\ disconnected = "no" => s \in pending
        /\ \A i \in 1 .. Len(Requests) : Requests[i].kind = "Start" => s < Requests[i].sequence
    BY <2>1, ActiveIsPending, Zenon DEF s
  <2>9. /\ QueueOK(Requests', active'.sequence)
        /\ disconnected = "no" => Booked(Requests', active'.sequence, pending, cancelled)
    BY <1>2, <2>2, <2>3, Zenon
  <2>10. \A i \in 1 .. Len(Requests') : Requests'[i].kind = "Start" =>
           /\ \E l \in 1 .. Len(Requests) : Requests[l] = Requests'[i]
           /\ s < Requests'[i].sequence
    BY <1>2, <2>8, Zenon
  <2>11. Message("Cancelled", s).sequence = s /\ Message("Cancelled", s).kind = "Cancelled"
    BY Zenon DEF Message
  <2>12. /\ Len(channel) \in Nat /\ Len(channel') = Len(channel) + 1
         /\ \A i \in 1 .. Len(channel) : channel'[i] = channel[i]
         /\ channel'[Len(channel) + 1] = Message("Cancelled", s)
         /\ channel = <<>> => Len(channel) = 0
    <3>1. channel \in Seq(MessageType)
      BY <2>5, Zenon DEF ChannelOK
    <3>2. Message("Cancelled", s) \in MessageType
      BY <2>1 DEF Message, MessageType, Terminal
    <3>3. Len(channel) \in Nat /\ (channel = <<>> => Len(channel) = 0)
      BY <3>1
    <3> QED BY <2>2, <3>1, <3>2, <3>3, Appends
  <2>13. \A i \in 1 .. Len(channel') :
           IF i <= Len(channel) THEN channel'[i] = channel[i]
           ELSE channel'[i].sequence = s /\ channel'[i].kind # "Started"
    BY <2>11, <2>12
  <2>14. channel = <<>> => /\ channel' # <<>>
                           /\ channel'[1].kind \notin {"Artifacts", "Finished"}
    <3>1. channel = <<>> => channel'[1] = Message("Cancelled", s)
      BY <2>12
    <3>2. channel' # <<>>
      BY <2>12
    <3> QED BY <2>11, <3>1, <3>2, Zenon
  <2>15. Len(channel) <= Len(channel')
    BY <2>12
  <2>16. RequestsOK' /\ PageOK'
    BY <1>1, <2>7, <2>8, <2>9, <2>10, <2>13, <2>14, <2>15, Sends, Zenon
  <2> QED BY <1>3, <2>4, <2>7, <2>16, Zenon DEF GraphInv
<1> QED BY <1>4, <1>5, Zenon

(***************************************************************************)
(* publish.  The page takes what comes next of the UI's run; the last      *)
(* message of a run is the last that the client hears of it.               *)
(***************************************************************************)
LEMMA DeliverStep ==
  ASSUME GraphInv, Deliver
  PROVE  GraphInv'
<1> DEFINE m == Head(channel)
           s == m.sequence
           dropped == /\ UNCHANGED <<pending, cancelled, updates, page, receiving>>
                      /\ s \notin pending \ cancelled
                      /\ disconnected = "no" => m.kind \in {"Started", "Artifacts"}
           started == /\ s \in pending \ cancelled
                      /\ UNCHANGED <<pending, cancelled, updates>>
                      /\ m.kind = "Started" /\ UNCHANGED <<page, receiving>>
           artifacts == /\ s \in pending \ cancelled
                        /\ UNCHANGED <<pending, cancelled, updates>>
                        /\ m.kind = "Artifacts"
                        /\ page' \in [Key -> SUBSET Run] /\ receiving' \in [Key -> Receiving]
                        /\ Whole(extent, page')
                        /\ PageAt(extent[s], page', receiving', s, To(extent, m))
           ended == /\ s \in pending /\ m.kind \in Terminal
                    /\ UNCHANGED <<page, receiving>>
                    /\ pending' = pending \ {s} /\ cancelled' = cancelled \ {s}
                    /\ updates' = [updates EXCEPT ![s] = @ \cup {m.kind}]
<1>1. /\ channel # <<>> /\ channel' = Tail(channel) /\ m \in MessageType
      /\ UNCHANGED <<run, next_sequence, outbound, disconnected, inbox, active, stored, journal,
                     extent, faults>>
      /\ disconnected = "no" => s \in pending
      /\ dropped \/ started \/ artifacts \/ ended
  BY Delivers, Zenon
<1>2. m.kind \in {"Started", "Artifacts"} \cup Terminal /\ s \in Run
  BY <1>1, Zenon DEF MessageType
<1> HIDE DEF m
<1> HIDE DEF s
<1>3. ChannelOK(extent, channel, active.sequence, Sent)
  BY Zenon DEF GraphInv, WorkerOK
<1>4. /\ ChannelOK(extent, channel', active.sequence, Sent)
      /\ Len(channel) \in Nat \ {0} /\ m = channel[1]
      /\ Len(channel') = Len(channel) - 1
      /\ \A i \in 1 .. Len(channel') : channel'[i] = channel[i + 1] /\ i + 1 \in 1 .. Len(channel)
      /\ \A i \in 1 .. Len(channel') : Ordered(m, channel'[i])
      /\ channel' # <<>> => Joined(extent, m, channel'[1]) /\ 1 \in 1 .. Len(channel')
      /\ channel' = <<>> => m = channel[Len(channel)]
  <2>1. channel # <<>> /\ channel' = Tail(channel) /\ m = Head(channel)
    BY <1>1, Zenon DEF m
  <2>2. /\ ChannelOK(extent, Tail(channel), active.sequence, Sent)
        /\ Len(channel) \in Nat \ {0} /\ Head(channel) = channel[1]
        /\ Len(Tail(channel)) = Len(channel) - 1
        /\ \A i \in 1 .. Len(Tail(channel)) :
             Tail(channel)[i] = channel[i + 1] /\ i + 1 \in 1 .. Len(channel)
        /\ \A i \in 1 .. Len(Tail(channel)) : Ordered(Head(channel), Tail(channel)[i])
        /\ Tail(channel) # <<>> => /\ Head(Tail(channel)) = Tail(channel)[1]
                                  /\ 1 \in 1 .. Len(Tail(channel))
                                  /\ Joined(extent, Head(channel), Head(Tail(channel)))
        /\ Tail(channel) = <<>> => Head(channel) = channel[Len(channel)]
    BY <1>3, <2>1, ChannelTail, Zenon
  <2> QED BY <2>1, <2>2, Zenon
<1>5. /\ Requests' = Requests /\ Sent' = Sent
      /\ UNCHANGED <<active, extent, disconnected, run, next_sequence, outbound>>
  BY <1>1, Zenon DEF Requests, Sent
<1>6. WorkerOK'
  <2>1. /\ active' = active /\ extent' = extent /\ journal' = journal
    BY <1>1, Zenon
  <2> QED BY <1>4, <1>5, <2>1, Zenon DEF GraphInv, WorkerOK
<1>7. \A i \in 1 .. Len(Requests) : Requests[i].kind = "Start" => s < Requests[i].sequence
  <2>1. 1 \in 1 .. Len(channel) /\ channel[1].sequence = s
    BY <1>4, Places, Zenon DEF s
  <2> QED BY <2>1, Zenon DEF GraphInv, RequestsOK
<1>8. ended => /\ active.sequence # s
               /\ \A i \in 1 .. Len(channel') : channel'[i].sequence # s
  <2> SUFFICES ASSUME m.kind \in Terminal
               PROVE  /\ active.sequence # s
                      /\ \A i \in 1 .. Len(channel') : channel'[i].sequence # s
    OBVIOUS
  <2>1. ASSUME active.sequence = s PROVE FALSE
    <3>1. 1 \in 1 .. Len(channel) /\ channel[1].kind \in Terminal /\ channel[1].sequence = s
      BY <1>4, Places, Zenon DEF s
    <3>2. ChannelOK(extent, channel, s, Sent)
      BY <1>3, <2>1, Zenon
    <3>3. channel[1].sequence < s
      BY <1>2, <3>1, <3>2, ChannelOfActive, Zenon
    <3> QED BY <1>2, <3>1, <3>3, RunNumbers, Zenon
  <2>2. ASSUME NEW i \in 1 .. Len(channel'), channel'[i].sequence = s PROVE FALSE
    <3>1. s < channel'[i].sequence
      <4>1. m.sequence < channel'[i].sequence
        BY <1>4, Zenon DEF Ordered
      <4> QED BY <4>1, Zenon DEF s
    <3> QED BY <1>2, <2>2, <3>1, RunNumbers, Zenon
  <2> QED BY <2>1, <2>2, Zenon
<1>9. Types'
  <2>1. /\ page' \in [Key -> SUBSET Run] /\ receiving' \in [Key -> Receiving]
        /\ pending' \in SUBSET Run /\ cancelled' \in SUBSET pending'
        /\ updates' \in [Run -> SUBSET Terminal]
    <3>1. /\ page \in [Key -> SUBSET Run] /\ receiving \in [Key -> Receiving]
          /\ pending \in SUBSET Run /\ cancelled \in SUBSET pending
          /\ updates \in [Run -> SUBSET Terminal]
      BY Zenon DEF GraphInv, Types
    <3>2. CASE dropped \/ started
      BY <3>1, <3>2, Zenon
    <3>3. CASE artifacts
      BY <3>1, <3>3, Zenon
    <3>4. CASE ended
      BY <1>2, <3>1, <3>4, Zenon
    <3> QED BY <1>1, <3>2, <3>3, <3>4, Zenon
  <2> QED BY <1>1, <2>1, Zenon DEF GraphInv, Types
<1>10. ClientOK'
  <2>1. CASE dropped \/ started \/ artifacts
    BY <1>1, <2>1, Untouched, Zenon
  <2>2. CASE ended
    <3>1. \A t \in Run : updates[t] # {} => t \notin pending /\ t <= next_sequence
      BY Zenon DEF GraphInv, ClientOK
    <3>2. s <= next_sequence /\ \A t \in pending : t <= next_sequence
      BY <2>2, Zenon DEF GraphInv, ClientOK
    <3>3. \A t \in Run : updates'[t] # {} => t = s \/ updates[t] # {}
      BY <1>2, <2>2, Zenon DEF GraphInv, Types
    <3>4. \A t \in Run : updates'[t] # {} => t \notin pending' /\ t <= next_sequence
      BY <2>2, <3>1, <3>2, <3>3, Zenon
    <3>5. \A t \in pending' \ cancelled' : t \in pending \ cancelled
      BY <2>2, Zenon
    <3>6. disconnected # "no" => pending' = {} /\ outbound' = <<>>
      BY <1>5, <2>2, Zenon DEF GraphInv, ClientOK
    <3>7. \A t \in pending' \ cancelled' : t = run.sequence /\ ~run.finished
      BY <3>5, Zenon DEF GraphInv, ClientOK
    <3>8. \A t \in pending' : t <= next_sequence
      BY <2>2, <3>2, Zenon
    <3> QED BY <1>5, <3>4, <3>6, <3>7, <3>8, Zenon DEF ClientOK
  <2> QED BY <1>1, <2>1, <2>2, Zenon
<1>11. RequestsOK'
  <2>1. \A i \in 1 .. Len(Requests) : \A j \in 1 .. Len(channel') :
          Requests[i].kind = "Start" => channel'[j].sequence < Requests[i].sequence
    BY <1>4, Zenon DEF GraphInv, RequestsOK
  <2>2. ASSUME disconnected = "no"
        PROVE  /\ Booked(Requests, active.sequence, pending', cancelled')
               /\ \A i \in 1 .. Len(channel') : channel'[i].sequence \in pending'
    <3>1. /\ Booked(Requests, active.sequence, pending, cancelled)
          /\ \A i \in 1 .. Len(channel) : channel[i].sequence \in pending
      BY <2>2, Zenon DEF GraphInv, RequestsOK
    <3>2. \A i \in 1 .. Len(channel') : channel'[i].sequence \in pending
      BY <1>4, <3>1, Zenon
    <3>3. CASE dropped \/ started \/ artifacts
      BY <3>1, <3>2, <3>3, Zenon
    <3>4. CASE ended
      <4>1. ASSUME NEW t \in Run, NEW j \in 0 .. Len(Requests), Live(Requests, active.sequence, j, t)
            PROVE  t \in pending \ {s}
        <5>1. t \in pending
          BY <3>1, <4>1, Zenon DEF Booked
        <5>2. t # s
          <6>1. CASE j = 0
            BY <1>8, <3>4, <4>1, <6>1, Zenon DEF Live
          <6>2. CASE j # 0
            <7>1. j \in 1 .. Len(Requests) /\ Requests[j].kind = "Start" /\ Requests[j].sequence = t
              <8>1. Len(Requests) \in Nat
                BY RequestForms, Zenon DEF GraphInv
              <8> QED BY <4>1, <6>2, <8>1, Places, Zenon DEF Live
            <7>2. s < t
              BY <1>7, <7>1, Zenon
            <7> QED BY <1>2, <7>2, RunNumbers, Zenon
          <6> QED BY <6>1, <6>2, Zenon
        <5> QED BY <5>1, <5>2, Zenon
      <4>2. \A t \in cancelled \ {s} : Covered(Requests, active.sequence, Len(Requests) + 1, t)
        BY <3>1, Zenon DEF Booked
      <4>3. Booked(Requests, active.sequence, pending \ {s}, cancelled \ {s})
        BY <4>1, <4>2, Zenon DEF Booked
      <4> QED BY <1>8, <3>2, <3>4, <4>3, Zenon
    <3> QED BY <1>1, <3>3, <3>4, Zenon
  <2>3. QueueOK(Requests, active.sequence)
    BY Zenon DEF GraphInv, RequestsOK
  <2> QED BY <1>5, <2>1, <2>2, <2>3, Zenon DEF RequestsOK
<1>12. PageOK'
  <2>1. Whole(extent, page)
    BY Zenon DEF GraphInv, PageOK
  <2>2. Whole(extent, page')
    BY <1>1, <2>1, Zenon
  <2>3. ASSUME NEW t \in pending \ cancelled, t # s, UNCHANGED <<page, receiving>>
        PROVE  /\ Awaits(extent, channel', active.sequence, Sent, page', receiving', t)
               /\ StartIn(Requests, t) \/ StartedIn(channel', t) => page'[Manifest] = {}
    <3> DEFINE waits == Awaits(extent, channel', active.sequence, Sent, page', receiving', t)
    <3>1. ASSUME channel' = <<>> PROVE waits
      <4>1. active.sequence # t
        <5>1. active.sequence # 0 => channel[Len(channel)].sequence = active.sequence
          BY <1>1, <1>3, Zenon DEF ChannelOK
        <5>2. t # 0
          BY RunNumbers, Zenon DEF GraphInv, Types
        <5> QED BY <1>4, <2>3, <3>1, <5>1, <5>2, Zenon DEF s
      <4> QED BY <3>1, <4>1, Zenon DEF Awaits
    <3>2. ASSUME channel' # <<>> PROVE waits
      <4>1. channel'[1].kind \in {"Artifacts", "Finished"} => channel'[1].sequence = s
        BY <1>4, <3>2, Zenon DEF Joined, s
      <4> QED BY <2>3, <3>2, <4>1, Zenon DEF Awaits
    <3>3. StartedIn(channel', t) => StartedIn(channel, t)
      BY <1>4, Zenon DEF StartedIn
    <3>4. StartIn(Requests, t) \/ StartedIn(channel, t) => page[Manifest] = {}
      BY Zenon DEF GraphInv, PageOK
    <3>5. waits
      BY <3>1, <3>2, Zenon
    <3> HIDE DEF waits
    <3>6. StartIn(Requests, t) \/ StartedIn(channel', t) => page'[Manifest] = {}
      BY <2>3, <3>3, <3>4, Zenon
    <3> QED BY <3>5, <3>6, Zenon DEF waits
  <2>4. ASSUME PageAt(extent[s], page', receiving', s, To(extent, m)), m.kind \in {"Started", "Artifacts"}
        PROVE  Awaits(extent, channel', active.sequence, Sent, page', receiving', s)
    <3>1. CASE channel' = <<>>
      <4>1. active.sequence = s => To(extent, m) = Sent
        <5>1. s # 0
          BY <1>2, RunNumbers, Zenon
        <5> QED BY <1>1, <1>3, <1>4, <3>1, <5>1, Zenon DEF ChannelOK
      <4> QED BY <2>4, <3>1, <4>1, Zenon DEF Awaits
    <3>2. CASE channel' # <<>>
      <4>1. channel'[1].kind \in {"Artifacts", "Finished"} => To(extent, m) = From(extent, channel'[1])
        BY <1>4, <3>2, Zenon DEF Joined
      <4> QED BY <2>4, <3>2, <4>1, Zenon DEF Awaits
    <3> QED BY <3>1, <3>2, Zenon
  <2>5. CASE dropped
    <3>1. \A t \in pending \ cancelled : t # s
      BY <2>5, Zenon
    <3> QED BY <1>5, <2>2, <2>3, <2>5, <3>1, Zenon DEF PageOK
  <2>6. CASE ended
    <3>1. \A t \in pending' \ cancelled' : t \in pending \ cancelled /\ t # s
      BY <2>6, Zenon
    <3> QED BY <1>5, <2>2, <2>3, <2>6, <3>1, Zenon DEF PageOK
  <2>7. ASSUME s \in pending \ cancelled, UNCHANGED <<pending, cancelled>>
        PROVE  \A t \in pending' \ cancelled' : t = s
    <3>1. \A t \in pending \ cancelled : t = run.sequence
      BY Zenon DEF GraphInv, ClientOK
    <3> QED BY <2>7, <3>1, Zenon
  <2>8. CASE started
    <3>1. StartedIn(channel, s)
      <4>1. 1 \in 1 .. Len(channel) /\ channel[1].kind = "Started" /\ channel[1].sequence = s
        BY <1>4, <2>8, Places, Zenon DEF s
      <4> QED BY <4>1, Zenon DEF StartedIn
    <3>2. page[Manifest] = {}
      BY <2>8, <3>1, Zenon DEF GraphInv, PageOK
    <3>3. PageAt(extent[s], page', receiving', s, To(extent, m))
      <4>1. To(extent, m) = Origin
        BY <2>8, Zenon DEF To
      <4>2. extent[s] \in 1 .. MaxSegments
        BY <1>2, Zenon DEF GraphInv, Types
      <4>3. \A k \in StoreKeys(extent[s]) : ~(Rank(extent[s], k) < 1)
        BY <4>2, Ranks
      <4>4. Origin[1] = 1 /\ Origin[2] = 0
        BY Zenon DEF Origin
      <4> QED BY <2>8, <3>2, <4>1, <4>3, <4>4, Zenon DEF PageAt
    <3>4. Awaits(extent, channel', active.sequence, Sent, page', receiving', s)
      BY <2>4, <2>8, <3>3, Zenon
    <3> QED BY <1>5, <2>2, <2>7, <2>8, <3>2, <3>4, Zenon DEF PageOK
  <2>9. CASE artifacts
    <3>1. Awaits(extent, channel', active.sequence, Sent, page', receiving', s)
      BY <2>4, <2>9, Zenon
    <3>2. ~StartIn(Requests, s)
      BY <1>2, <1>7, RunNumbers, Zenon DEF StartIn
    <3>3. ~StartedIn(channel', s)
      <4>1. ASSUME NEW i \in 1 .. Len(channel'), channel'[i].kind = "Started", channel'[i].sequence = s
            PROVE  FALSE
        <5>1. s < channel'[i].sequence
          <6>1. m.sequence < channel'[i].sequence
            BY <1>4, <4>1, Zenon DEF Ordered
          <6> QED BY <6>1, Zenon DEF s
        <5> QED BY <1>2, <4>1, <5>1, RunNumbers, Zenon
      <4> QED BY <4>1, Zenon DEF StartedIn
    <3> QED BY <1>5, <2>2, <2>7, <2>9, <3>1, <3>2, <3>3, Zenon DEF PageOK
  <2> QED BY <1>1, <2>5, <2>6, <2>8, <2>9, Zenon
<1> QED BY <1>6, <1>9, <1>10, <1>11, <1>12, Zenon DEF GraphInv

-----------------------------------------------------------------------------
(* The results.                                                            *)

(***************************************************************************)
(* Every step of the page, of the worker and of the channel between them   *)
(* preserves the invariant.                                                *)
(***************************************************************************)
LEMMA InvStep == GraphInv /\ [Next]_vars => GraphInv'
<1> SUFFICES ASSUME GraphInv, [Next]_vars PROVE GraphInv'
  OBVIOUS
<1>1. CASE StartRun
  BY <1>1, StartRunStep, Zenon
<1>2. CASE StopRun \/ AbandonRun
  BY <1>2, CancelStep, Zenon
<1>3. CASE PollRun \/ PostRequests
  BY <1>3, HostStep, Zenon
<1>4. CASE HandleStart
  BY <1>4, HandleStartStep, Zenon
<1>5. CASE HandleCancel
  BY <1>5, HandleCancelStep, Zenon
<1>6. CASE Work
  BY <1>6, WorkStep, Zenon
<1>7. CASE Deliver
  BY <1>7, DeliverStep, Zenon
<1>8. CASE LoseWorker \/ ApplyFails
  BY <1>8, LoseWorkerStep, ApplyFailsStep, Zenon
<1>9. CASE UNCHANGED vars
  <2>1. UNCHANGED <<run, next_sequence, pending, cancelled, outbound, updates, disconnected, page,
                    receiving, inbox, channel, active, stored, journal, extent, faults>>
    BY <1>9, Zenon DEF vars, client, mirror, worker
  <2>2. Types'
    BY <2>1, Zenon DEF GraphInv, Types
  <2>3. ClientOK' /\ RequestsOK' /\ WorkerOK' /\ PageOK'
    BY <2>1, Untouched, Zenon
  <2> QED BY <2>2, <2>3, Zenon DEF GraphInv
<1> QED BY <1>1, <1>2, <1>3, <1>4, <1>5, <1>6, <1>7, <1>8, <1>9, Zenon DEF Next

(***************************************************************************)
(* The invariant holds in every reachable state.                           *)
(***************************************************************************)
LEMMA Invariant == Spec => []GraphInv
BY InitInv, InvStep, PTL DEF Spec

(***************************************************************************)
(* What a queue holds has the type of the queue.                           *)
(***************************************************************************)
LEMMA Elements == ASSUME NEW S, NEW q \in Seq(S), NEW i \in DOMAIN q PROVE q[i] \in S
OBVIOUS

(***************************************************************************)
(* The variables of the page, the channel and the worker keep their types. *)
(***************************************************************************)
THEOREM TypeOKHolds == Spec => []TypeOK
<1>1. GraphInv => TypeOK
  <2> SUFFICES ASSUME GraphInv PROVE TypeOK
    OBVIOUS
  <2>1. \A i \in DOMAIN outbound : outbound[i].sequence \in Run
    <3>1. \A i \in DOMAIN outbound : outbound[i] \in Request
      BY Elements, Zenon DEF GraphInv, Types
    <3> QED BY <3>1, Zenon DEF Request
  <2>2. \A i \in DOMAIN inbox : inbox[i].kind \in {"Start", "Cancel"}
    <3>1. \A i \in DOMAIN inbox : inbox[i] \in Request
      BY Elements, Zenon DEF GraphInv, Types
    <3> QED BY <3>1, Zenon DEF Request
  <2>3. \A i \in DOMAIN channel : channel[i].sequence \in Run
    <3>1. channel \in Seq(MessageType)
      BY Zenon DEF GraphInv, WorkerOK, ChannelOK
    <3>2. \A i \in DOMAIN channel : channel[i] \in MessageType
      BY <3>1, Elements, Zenon
    <3> QED BY <3>2, Zenon DEF MessageType
  <2>4. \A i \in DOMAIN journal : journal[i].key \in Key
    <3>1. \A i \in DOMAIN journal : journal[i] \in Mutation
      BY Elements, Zenon DEF GraphInv, Types
    <3> QED BY <3>1, Zenon DEF Mutation, Removal
  <2>5. cancelled \subseteq Run /\ pending \subseteq Run /\ disconnected \in {"no", "host", "protocol"}
    BY Zenon DEF GraphInv, Types
  <2> QED BY <2>1, <2>2, <2>3, <2>4, <2>5, Zenon DEF GraphInv, Types, TypeOK, Receiving
<1> QED BY <1>1, Invariant, PTL

(***************************************************************************)
(* A manifest in the page's repository belongs to a store that is wholly   *)
(* there, for any number of runs, segments, chunks and outstanding         *)
(* requests, and whatever is cancelled, abandoned or lost in between.      *)
(***************************************************************************)
THEOREM PageEntryWholeHolds == Spec => []PageEntryWhole
<1>1. GraphInv => PageEntryWhole
  <2> SUFFICES ASSUME GraphInv, page[Manifest] # {} PROVE \E s \in page[Manifest] : Mirrors(s)
    BY Zenon DEF PageEntryWhole
  <2>1. PICK s \in page[Manifest] : TRUE
    OBVIOUS
  <2>2. \A k \in StoreKeys(extent[s]) : page[k] = {s}
    BY <2>1, Zenon DEF GraphInv, PageOK, Whole
  <2>3. Mirrors(s)
    BY <2>2, Zenon DEF Mirrors, StoreKeys
  <2> QED BY <2>1, <2>3, Zenon
<1> QED BY <1>1, Invariant, PTL

(***************************************************************************)
(* The page and the worker never refuse each other: no start meets a busy  *)
(* worker, no message is of a run that the client has forgotten, and no    *)
(* chunk is out of order.                                                  *)
(***************************************************************************)
THEOREM NeverRefusedHolds == Spec => []NeverRefused
<1>1. GraphInv => NeverRefused
  <2> SUFFICES ASSUME GraphInv PROVE NeverRefused
    OBVIOUS
  <2>1. disconnected # "protocol"
    BY Zenon DEF GraphInv, Types
  <2>2. channel \in Seq(MessageType)
    BY Zenon DEF GraphInv, WorkerOK, ChannelOK
  <2>3. \A i \in DOMAIN channel : channel[i].kind # "Busy"
    <3>1. \A i \in DOMAIN channel : channel[i] \in MessageType
      BY <2>2, Elements, Zenon
    <3> QED BY <3>1, Zenon DEF MessageType, Terminal
  <2> QED BY <2>1, <2>3, Zenon DEF NeverRefused
<1> QED BY <1>1, Invariant, PTL

(***************************************************************************)
(* publish applies a run's artifacts before it reports the run: a run that *)
(* was not stopped is reported finished only when the page's repository    *)
(* has its whole store.                                                    *)
(***************************************************************************)
THEOREM FinishedIsMirroredHolds == Spec => FinishedIsMirrored
<1> DEFINE Reported == \A s \in Run : "Finished" \in updates'[s] \ updates[s]
                                      /\ s \notin cancelled => Mirrors(s)'
<1>1. GraphInv /\ [Next]_vars => [Reported]_vars
  <2> SUFFICES ASSUME GraphInv, [Next]_vars PROVE Reported \/ UNCHANGED vars
    OBVIOUS
  <2>1. CASE Deliver
    <3> SUFFICES ASSUME NEW s \in Run, "Finished" \in updates'[s] \ updates[s], s \notin cancelled
                 PROVE  Mirrors(s)'
      OBVIOUS
    <3> DEFINE m == Head(channel)
    <3>1. /\ channel # <<>> /\ extent' = extent
          /\ \/ updates' = updates
             \/ /\ m.sequence \in pending /\ page' = page
                /\ updates' = [updates EXCEPT ![m.sequence] = @ \cup {m.kind}]
      BY <2>1, Delivers, Zenon
    <3>2. m = channel[1]
      <4>1. ChannelOK(extent, channel, active.sequence, Sent)
        BY Zenon DEF GraphInv, WorkerOK
      <4> QED BY <3>1, <4>1, ChannelTail, Zenon
    <3> HIDE DEF m
    <3>3. updates \in [Run -> SUBSET Terminal]
      BY Zenon DEF GraphInv, Types
    <3>4. m.sequence = s /\ m.kind = "Finished" /\ s \in pending \ cancelled /\ page' = page
      BY <3>1, <3>3, Zenon
    <3>5. PageAt(extent[s], page, receiving, s, From(extent, m))
      <4>1. Awaits(extent, channel, active.sequence, Sent, page, receiving, s)
        BY <3>4, Zenon DEF GraphInv, PageOK
      <4>2. channel[1].sequence = s /\ channel[1].kind \in {"Artifacts", "Finished"}
        BY <3>2, <3>4, Zenon
      <4> QED BY <3>1, <3>2, <4>1, <4>2, Zenon DEF Awaits
    <3>6. From(extent, m) = End(extent[s])
      BY <3>4, Zenon DEF From
    <3>7. extent[s] \in 1 .. MaxSegments
      BY Zenon DEF GraphInv, Types
    <3>8. \A k \in StoreKeys(extent[s]) : Rank(extent[s], k) < extent[s] + 3
      BY <3>7, Ranks, Zenon
    <3>9. \A k \in StoreKeys(extent[s]) : page[k] = {s}
      BY <3>5, <3>6, <3>8 DEF PageAt, End
    <3> QED BY <3>1, <3>4, <3>9, Zenon DEF Mirrors, StoreKeys
  <2>2. CASE PollRun
    <3>1. /\ updates \in [Run -> SUBSET Terminal]
          /\ updates' = [updates EXCEPT ![run.sequence] = {}]
      BY <2>2, Zenon DEF GraphInv, Types, PollRun
    <3> QED BY <3>1, Zenon
  <2>3. CASE LoseWorker \/ ApplyFails
    <3>1. updates' = [s \in Run |-> IF s \in pending THEN updates[s] \cup {"Failed"} ELSE updates[s]]
      BY <2>3, Zenon DEF LoseWorker, ApplyFails, FailAll
    <3> QED BY <3>1, Zenon
  <2>4. CASE Work
    <3>1. updates' = updates
      BY <2>4, Zenon DEF Work, Advance, TransferFails, client
    <3> QED BY <3>1, Zenon
  <2>5. CASE StartRun \/ StopRun \/ AbandonRun \/ PostRequests \/ HandleStart \/ HandleCancel
    <3>1. updates' = updates
      BY <2>5, Zenon DEF StartRun, StopRun, AbandonRun, PostRequests, HandleStart, HandleCancel, client
    <3> QED BY <3>1, Zenon
  <2> QED BY <2>1, <2>2, <2>3, <2>4, <2>5, Zenon DEF Next
<1>2. Spec => [][Reported]_vars
  BY <1>1, Invariant, PTL DEF Spec
<1> QED BY <1>2, Zenon DEF FinishedIsMirrored

=============================================================================
