--------------------------- MODULE MCGraphWorker ---------------------------
(***************************************************************************)
(* GraphWorker for TLC.  A segment needs two batches, and a batch holds    *)
(* fewer events than a start journals.                                     *)
(***************************************************************************)
EXTENDS GraphWorker
=============================================================================
