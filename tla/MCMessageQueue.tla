--------------------------- MODULE MCMessageQueue ---------------------------
(* A small instance of MessageQueue: three ids, one single-producer group    *)
(* with an ordered and an unordered kind, one group of several producers,    *)
(* and a message outside any group; caps 0, 2 and "forever".                 *)
EXTENDS MessageQueue

CONSTANTS g1, g2

MCIds == 1 .. 3

Kind(g, o, c) == [group_key |-> g, ordered |-> o, cap |-> c]

MCKinds == {Kind(g1, TRUE, 2), Kind(g1, FALSE, 0),
            Kind(g2, TRUE, -1), Kind(NoGroup, FALSE, 1)}

MCSoleWriter == {g1}
=============================================================================
