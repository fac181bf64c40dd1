----------------------- MODULE MCWorkerOperationQueue -----------------------
(***************************************************************************)
(* Instances of WorkerOperationQueue: two workers and up to four requests, *)
(* so that requests overtake each other, wait while both workers are busy, *)
(* and are cancelled in every one of those states.                         *)
(***************************************************************************)
EXTENDS WorkerOperationQueue
=============================================================================
