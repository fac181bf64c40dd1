------------------------ MODULE MCCooperativeManager ------------------------
EXTENDS CooperativeManager

\* Two sources, a multiplexer of both, and a sink that also reads a source.
Diamond == 1 .. 4
DiamondInputs == <<{}, {}, {1, 2}, {2, 3}>>
DiamondMultiplexing == {3}

\* Two sources and a sink that pairs their items.
Join == 1 .. 3
JoinInputs == <<{}, {}, {1, 2}>>

FirstEndsEarly == {1}

\* The sink of the diamond needs all of its second stream before it starts.
SinkComplete == {<<4, 2>>}

Nothing == {}
=============================================================================
