--------------------------- MODULE MCSharedSenders ---------------------------
(***************************************************************************)
(* Instances of SharedSenders: channels one message deep, so that a        *)
(* broadcast meets full ones, and three values, so that a message can      *)
(* supersede a pending one.                                                *)
(***************************************************************************)
EXTENDS SharedSenders

OneOfEach == <<"Block", "Lossy", "Disconnect">>

DepthOne == [s \in Subscription |-> 1]
=============================================================================
