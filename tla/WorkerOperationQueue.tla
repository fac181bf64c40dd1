------------------------ MODULE WorkerOperationQueue ------------------------
(***************************************************************************)
(* The bounded scheduler of the finite-operation worker pool               *)
(* (platform_runtime/src/worker_operation_queue.rs).  Callers submit       *)
(* monotonically numbered requests and cancel them; host adapters report   *)
(* readiness, progress, completion and failure of the pool's workers.      *)
(* Every method of the queue is one action: the queue is owned by one      *)
(* thread (a mutex in native_worker.rs, a RefCell in web_worker.rs), so    *)
(* calls do not overlap, but they come in any order.                       *)
(*                                                                         *)
(* A request is its sequence number; its payload is not modelled.  0 is    *)
(* the code's None.                                                        *)
(***************************************************************************)
EXTENDS Naturals, Sequences, FiniteSets

CONSTANTS
  WorkerCount,      \* slots of the pool
  MaxOutstanding,   \* bound on requests without a released terminal result
  MaxSequence,      \* bound of the model: the largest sequence number used
  MaxProgress       \* bound of the model: progress messages not drained

(***************************************************************************)
(* WorkerOperationQueue::new rejects an empty pool and a queue that cannot *)
(* keep every worker busy.                                                 *)
(***************************************************************************)
ASSUME QueueAssumption ==
  /\ WorkerCount \in Nat \ {0}
  /\ MaxOutstanding \in Nat
  /\ MaxOutstanding >= WorkerCount
  /\ MaxSequence \in Nat
  /\ MaxProgress \in Nat

Worker == 1 .. WorkerCount
Sequence == 1 .. MaxSequence
None == 0

(***************************************************************************)
(* The terminal messages: Complete, and Failed with a kernel, host or      *)
(* protocol error, with Cancelled or with Unavailable.                     *)
(***************************************************************************)
Outcome == {"Complete", "Failed", "Cancelled", "Unavailable"}

Message == [kind : Outcome \cup {"Progress"}, sequence : Sequence]

VARIABLES
  ready,                    \* WorkerState::ready, per worker
  failed,                   \* WorkerState::failed, per worker
  running,                  \* WorkerState::running, per worker
  pending,                  \* accepted requests no worker has yet
  submission_order,         \* accepted requests not yet released
  terminal,                 \* recorded, unreleased outcome ("none": absent)
  cancelled,                \* unreleased requests that were cancelled
  delivered,                \* messages the caller has not drained
  last_submitted_sequence,
  drained                   \* history: requests whose result was drained

vars == <<ready, failed, running, pending, submission_order, terminal,
          cancelled, delivered, last_submitted_sequence, drained>>

Elements(s) == {s[i] : i \in DOMAIN s}

Contains(s) == s \in Elements(submission_order)

Init ==
  /\ ready = [w \in Worker |-> FALSE]
  /\ failed = [w \in Worker |-> FALSE]
  /\ running = [w \in Worker |-> None]
  /\ pending = << >>
  /\ submission_order = << >>
  /\ terminal = [s \in Sequence |-> "none"]
  /\ cancelled = {}
  /\ delivered = << >>
  /\ last_submitted_sequence = None
  /\ drained = {}

(***************************************************************************)
(* release_ordered: length of the longest prefix of the submission order   *)
(* in which every request has its terminal result.                         *)
(***************************************************************************)
Releasable(order, term) ==
  CHOOSE k \in 0 .. Len(order) :
    /\ \A i \in 1 .. k : term[order[i]] # "none"
    /\ k < Len(order) => term[order[k + 1]] = "none"

-----------------------------------------------------------------------------
(* Mutated forms of the helpers below; no specification uses them.         *)

ReleaseNewestFirst(order, term, canc) ==
  LET k == Releasable(order, term)
      gone == {order[i] : i \in 1 .. k}
  IN /\ submission_order' = SubSeq(order, k + 1, Len(order))
     /\ terminal' = [s \in Sequence |-> IF s \in gone THEN "none" ELSE term[s]]
     /\ cancelled' = canc \ gone
     /\ delivered' = delivered \o
          [i \in 1 .. k |-> [kind |-> term[order[k + 1 - i]], sequence |-> order[k + 1 - i]]]

ReleaseSilently(order, term, canc) ==
  LET k == Releasable(order, term)
      gone == {order[i] : i \in 1 .. k}
      Heard(s) == s \notin canc
      heard == SelectSeq(SubSeq(order, 1, k), Heard)
  IN /\ submission_order' = SubSeq(order, k + 1, Len(order))
     /\ terminal' = [s \in Sequence |-> IF s \in gone THEN "none" ELSE term[s]]
     /\ cancelled' = canc \ gone
     /\ delivered' = delivered \o
          [i \in DOMAIN heard |-> [kind |-> term[heard[i]], sequence |-> heard[i]]]

WithoutRemoval(q, s) == q

DispatchableNever(rdy, fld, run) == {}

RecordOverwriting(s, outcome) ==
  IF Contains(s) THEN [terminal EXCEPT ![s] = outcome] ELSE terminal

-----------------------------------------------------------------------------
(* The private methods of the queue.                                       *)

(***************************************************************************)
(* release_ordered applied to the recorded results term and the cancelled  *)
(* requests canc.                                                          *)
(***************************************************************************)
ReleaseOrdered(order, term, canc) ==
  LET k == Releasable(order, term)
      gone == {order[i] : i \in 1 .. k}
  IN /\ submission_order' = SubSeq(order, k + 1, Len(order))
     /\ terminal' = [s \in Sequence |-> IF s \in gone THEN "none" ELSE term[s]]
     /\ cancelled' = canc \ gone
     /\ delivered' = delivered \o
          [i \in 1 .. k |-> [kind |-> term[order[i]], sequence |-> order[i]]]

(***************************************************************************)
(* record_terminal: the first terminal result of an outstanding request    *)
(* stays; later ones are ignored.                                          *)
(***************************************************************************)
RecordTerminal(s, outcome) ==
  IF Contains(s) /\ terminal[s] = "none"
    THEN [terminal EXCEPT ![s] = outcome]
    ELSE terminal

Dispatchable(rdy, fld, run) ==
  {w \in Worker : rdy[w] /\ ~fld[w] /\ run[w] = None}

(***************************************************************************)
(* dispatch_ready_workers: the free workers, in slot order, take the       *)
(* pending requests, oldest first, until either runs out.                  *)
(***************************************************************************)
Rank(free, w) == Cardinality({v \in free : v <= w})

Takers(free, pend) == {w \in free : Rank(free, w) <= Len(pend)}

Assigned(free, run, pend) ==
  [w \in Worker |-> IF w \in Takers(free, pend) THEN pend[Rank(free, w)] ELSE run[w]]

Unassigned(free, pend) ==
  SubSeq(pend, Cardinality(Takers(free, pend)) + 1, Len(pend))

DispatchReadyWorkers(rdy, fld, run, pend) ==
  LET free == Dispatchable(rdy, fld, run)
  IN /\ running' = Assigned(free, run, pend)
     /\ pending' = Unassigned(free, pend)

(***************************************************************************)
(* fail_pending_if_unavailable: no worker of the pool is left.             *)
(***************************************************************************)
Orphaned(fld) == \A w \in Worker : fld[w]

-----------------------------------------------------------------------------
(* The public methods.                                                     *)

(***************************************************************************)
(* Mutated form of Submit: the bound of the queue is not enforced.         *)
(***************************************************************************)
SubmitUnbounded(s) ==
  /\ s > last_submitted_sequence
  /\ last_submitted_sequence' = s
  /\ submission_order' = Append(submission_order, s)
  /\ DispatchReadyWorkers(ready, failed, running, Append(pending, s))
  /\ UNCHANGED <<ready, failed, terminal, cancelled, delivered, drained>>

(***************************************************************************)
(* submit: a sequence number that does not grow and a full queue are       *)
(* rejected, and a rejected request changes nothing.                       *)
(***************************************************************************)
Submit(s) ==
  /\ s > last_submitted_sequence
  /\ Len(submission_order) < MaxOutstanding
  /\ last_submitted_sequence' = s
  /\ submission_order' = Append(submission_order, s)
  /\ DispatchReadyWorkers(ready, failed, running, Append(pending, s))
  /\ UNCHANGED <<ready, failed, terminal, cancelled, delivered, drained>>

(***************************************************************************)
(* worker_ready: a worker that failed stays unavailable.                   *)
(***************************************************************************)
WorkerReady(w) ==
  /\ ready' = [ready EXCEPT ![w] = @ \/ ~failed[w]]
  /\ DispatchReadyWorkers(ready', failed, running, pending)
  /\ UNCHANGED <<failed, submission_order, terminal, cancelled, delivered,
                 last_submitted_sequence, drained>>

(***************************************************************************)
(* worker_progress: forwarded for an outstanding request unless it was     *)
(* cancelled.                                                              *)
(***************************************************************************)
WorkerProgress(s) ==
  /\ Contains(s)
  /\ s \notin cancelled
  /\ delivered' = Append(delivered, [kind |-> "Progress", sequence |-> s])
  /\ UNCHANGED <<ready, failed, running, pending, submission_order, terminal,
                 cancelled, last_submitted_sequence, drained>>

(***************************************************************************)
(* worker_failed: the active request fails with the worker, and the queued *)
(* ones become Unavailable when it was the last one.  The code releases    *)
(* after each of the two; one release at the end pops the same prefix.     *)
(***************************************************************************)
WorkerFailed(w) ==
  LET rdy == [ready EXCEPT ![w] = FALSE]
      fld == [failed EXCEPT ![w] = TRUE]
      run == [running EXCEPT ![w] = None]
      recorded == IF running[w] # None /\ running[w] \notin cancelled
                    THEN RecordTerminal(running[w], "Failed")
                    ELSE terminal
      lost == IF Orphaned(fld) THEN Elements(pending) ELSE {}
      term == [s \in Sequence |-> IF s \in lost THEN "Unavailable" ELSE recorded[s]]
  IN /\ ready' = rdy
     /\ failed' = fld
     /\ ReleaseOrdered(submission_order, term, cancelled)
     /\ DispatchReadyWorkers(rdy, fld, run, IF Orphaned(fld) THEN << >> ELSE pending)
     /\ UNCHANGED <<last_submitted_sequence, drained>>

(***************************************************************************)
(* worker_completed: a terminal message of a worker that runs nothing, or  *)
(* for another request than the one it runs, makes the worker failed.  A   *)
(* message may carry no sequence number (None).                            *)
(***************************************************************************)
Expected(w, reported) ==
  /\ running[w] # None
  /\ reported \in {None, running[w]}

WorkerCompleted(w, reported, outcome) ==
  \/ /\ ~Expected(w, reported)
     /\ WorkerFailed(w)
  \/ /\ Expected(w, reported)
     /\ ReleaseOrdered(submission_order,
                       IF running[w] \notin cancelled
                         THEN RecordTerminal(running[w], outcome)
                         ELSE terminal,
                       cancelled)
     /\ DispatchReadyWorkers(ready, failed, [running EXCEPT ![w] = None], pending)
     /\ UNCHANGED <<ready, failed, last_submitted_sequence, drained>>

(***************************************************************************)
(* pending.remove(position): the queue without the request s.              *)
(***************************************************************************)
Without(q, s) ==
  IF s \notin Elements(q)
    THEN q
    ELSE LET p == CHOOSE i \in DOMAIN q : q[i] = s
         IN [i \in 1 .. Len(q) - 1 |-> IF i < p THEN q[i] ELSE q[i + 1]]

(***************************************************************************)
(* cancel: a queued request leaves the queue; a running one stays with its *)
(* worker, whose result is ignored.                                        *)
(***************************************************************************)
Cancel(s) ==
  /\ Contains(s)
  /\ ReleaseOrdered(submission_order, RecordTerminal(s, "Cancelled"),
                    cancelled \cup {s})
  /\ DispatchReadyWorkers(ready, failed, running, Without(pending, s))
  /\ UNCHANGED <<ready, failed, last_submitted_sequence, drained>>

Answered(msgs) ==
  {msgs[i].sequence : i \in {j \in DOMAIN msgs : msgs[j].kind \in Outcome}}

DrainMessages ==
  /\ delivered # << >>
  /\ drained' = drained \cup Answered(delivered)
  /\ delivered' = << >>
  /\ UNCHANGED <<ready, failed, running, pending, submission_order, terminal,
                 cancelled, last_submitted_sequence>>

-----------------------------------------------------------------------------
(***************************************************************************)
(* What the hosts may call.  A host reports readiness once, completions    *)
(* and failures at any time (web_worker.rs passes on what the worker       *)
(* posts).  The number MaxSequence + 1 stands for any that is not the      *)
(* running request's.                                                      *)
(***************************************************************************)
ProgressCount == Cardinality({i \in DOMAIN delivered : delivered[i].kind = "Progress"})

HostReady(w) == ~ready[w] /\ WorkerReady(w)

HostFails(w) == WorkerFailed(w)

HostCompletes(w) ==
  \E reported \in {None, running[w], MaxSequence + 1}, outcome \in {"Complete", "Failed"} :
    WorkerCompleted(w, reported, outcome)

HostProgress(s) == ProgressCount < MaxProgress /\ WorkerProgress(s)

Next ==
  \/ \E s \in Sequence : Submit(s) \/ Cancel(s) \/ HostProgress(s)
  \/ \E w \in Worker : HostReady(w) \/ HostFails(w) \/ HostCompletes(w)
  \/ DrainMessages

(***************************************************************************)
(* Kernels are finite, so a running request is eventually answered, and a  *)
(* worker that was started eventually reports ready or fails.              *)
(***************************************************************************)
Fairness ==
  \A w \in Worker :
    /\ WF_vars(~failed[w] /\ HostReady(w))
    /\ WF_vars(running[w] # None /\ HostCompletes(w))

Spec == Init /\ [][Next]_vars /\ Fairness

-----------------------------------------------------------------------------
TypeOK ==
  /\ ready \in [Worker -> BOOLEAN]
  /\ failed \in [Worker -> BOOLEAN]
  /\ running \in [Worker -> Sequence \cup {None}]
  /\ pending \in Seq(Sequence)
  /\ submission_order \in Seq(Sequence)
  /\ Len(submission_order) <= MaxOutstanding
  /\ terminal \in [Sequence -> Outcome \cup {"none"}]
  /\ cancelled \subseteq Sequence
  /\ delivered \in Seq(Message)
  /\ last_submitted_sequence \in Sequence \cup {None}
  /\ drained \subseteq Sequence

RunBy(w, s) == running[w] = s

(***************************************************************************)
(* No accepted request is lost or run twice: whatever workers fail,        *)
(* complete out of order or are cancelled, an unreleased request is        *)
(* waiting for a worker, or with exactly one live worker, or has its       *)
(* recorded result.                                                        *)
(***************************************************************************)
NoRequestLost ==
  \A s \in Elements(submission_order) :
    /\ \/ s \in Elements(pending)
       \/ \E w \in Worker : RunBy(w, s)
       \/ terminal[s] # "none"
    /\ s \in Elements(pending) => terminal[s] = "none" /\ \A w \in Worker : ~RunBy(w, s)
    /\ \A v, w \in Worker : RunBy(v, s) /\ RunBy(w, s) => v = w

(***************************************************************************)
(* Terminal results reach the caller in submission order, one per request, *)
(* and nothing about a request follows its terminal result, although       *)
(* workers complete out of order and progress may arrive late.             *)
(***************************************************************************)
DeliveredInOrder ==
  \A j \in DOMAIN delivered :
    LET before == drained \cup Answered(SubSeq(delivered, 1, j - 1))
    IN /\ delivered[j].sequence \notin before
       /\ delivered[j].kind \in Outcome => \A s \in before : s < delivered[j].sequence

(***************************************************************************)
(* A result that was recorded is the one released: a late completion of a  *)
(* cancelled request, or of a worker that was given up, changes nothing.   *)
(***************************************************************************)
FirstResultStays ==
  [][\A s \in Sequence :
       terminal[s] # "none" =>
         \/ terminal'[s] = terminal[s]
         \/ \E i \in DOMAIN delivered' :
              delivered'[i] = [kind |-> terminal[s], sequence |-> s]]_vars

(***************************************************************************)
(* While the pool lives, every accepted request is answered: it leaves the *)
(* submission order with its result among the messages to drain, whatever  *)
(* worker it was given to and whichever requests are before it.            *)
(***************************************************************************)
AnsweredWhilePoolLives ==
  \A s \in Sequence : Contains(s) ~> ~Contains(s) \/ Orphaned(failed)

(***************************************************************************)
(* The queue is a line that is answered from its front, each request once: *)
(* cancelling, completing out of order and losing workers only decide when *)
(* the front of the submission order is answered and with what.            *)
(***************************************************************************)
Line == INSTANCE OrderedAnswers WITH
  Bound <- MaxOutstanding,
  newest <- last_submitted_sequence,
  line <- submission_order,
  answered <- drained \cup Answered(delivered)

AnswersInLine == Line!Spec
=============================================================================
