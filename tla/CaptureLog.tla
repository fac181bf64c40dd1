----------------------------- MODULE CaptureLog -----------------------------
(***************************************************************************)
(* What the store of a live capture promises about one session, seen from  *)
(* what its artifacts say at any moment, restarts included: a log that     *)
(* grows by one chunk at a time, is sealed once, afterwards only loses     *)
(* chunks from its front, and is removed as a whole.  No step of it undoes *)
(* an earlier one.  LiveCaptureStore implements it.                        *)
(***************************************************************************)
EXTENDS Naturals

VARIABLES
  phase,   \* "absent", "open", "sealed" or "removed"
  first,   \* the first chunk that is still kept
  length   \* the number of chunks that were committed

logVars == <<phase, first, length>>

Init == phase = "absent" /\ first = 0 /\ length = 0

Create == phase = "absent" /\ phase' = "open" /\ UNCHANGED <<first, length>>

Commit == phase = "open" /\ length' = length + 1 /\ UNCHANGED <<phase, first>>

Seal == phase = "open" /\ phase' = "sealed" /\ UNCHANGED <<first, length>>

Trim ==
  /\ phase = "sealed"
  /\ first' \in first .. length
  /\ UNCHANGED <<phase, length>>

Remove ==
  /\ phase \in {"open", "sealed"}
  /\ phase' = "removed"
  /\ first' = 0
  /\ length' = 0

Next == Create \/ Commit \/ Seal \/ Trim \/ Remove

Spec == Init /\ [][Next]_logVars
=============================================================================
