------------------------- MODULE MCLiveCaptureStore -------------------------
(***************************************************************************)
(* Instances of LiveCaptureStore: a session of up to three chunks and two  *)
(* restarts, so that an interrupted recovery, reclamation or discard is    *)
(* itself interrupted or repeated.                                         *)
(***************************************************************************)
EXTENDS LiveCaptureStore
=============================================================================
