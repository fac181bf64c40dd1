--------------------------- MODULE OrderedAnswers ---------------------------
(***************************************************************************)
(* What the worker queue promises its caller, whatever the pool does: the  *)
(* accepted requests are a bounded line, each is answered exactly once,    *)
(* and the answers come from the front of the line.  WorkerOperationQueue  *)
(* implements it.                                                          *)
(***************************************************************************)
EXTENDS Naturals, Sequences

CONSTANTS
  Bound     \* the most requests that may stand in line

VARIABLES
  newest,   \* the number of the last accepted request, 0 before the first
  line,     \* accepted requests without an answer, oldest first
  answered  \* requests with an answer

orderVars == <<newest, line, answered>>

Init == newest = 0 /\ line = << >> /\ answered = {}

Accept ==
  /\ newest' \in Nat
  /\ newest' > newest
  /\ Len(line) < Bound
  /\ line' = Append(line, newest')
  /\ UNCHANGED answered

Answer(k) ==
  /\ line' = SubSeq(line, k + 1, Len(line))
  /\ answered' = answered \cup {line[i] : i \in 1 .. k}
  /\ UNCHANGED newest

Next == Accept \/ \E k \in 1 .. Len(line) : Answer(k)

Spec == Init /\ [][Next]_orderVars
=============================================================================
