-------------------------- MODULE MCPipelineManager --------------------------
(***************************************************************************)
(* A source, a transform and a sink in a row: the transform's thread can   *)
(* wait for either neighbour.                                              *)
(***************************************************************************)
EXTENDS PipelineManager

Chain == 1 .. 3
ChainUpstream == <<None, 1, 2>>

Pair == 1 .. 2
PairUpstream == <<None, 1>>
=============================================================================
