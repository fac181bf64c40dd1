------------------------- MODULE MCDerivedWordStore -------------------------
(***************************************************************************)
(* Instances of DerivedWordStore: two runs of one cache key, blocks that   *)
(* finish encoding out of order, a segment that fills up, and a failure or *)
(* a restart at any step.                                                  *)
(***************************************************************************)
EXTENDS DerivedWordStore
=============================================================================
