--------------------------- MODULE MCClaimFunction ---------------------------
(* Small instances of ClaimFunction: g1 has one producer and ordered and     *)
(* unordered messages, g2 has several producers.                             *)
EXTENDS ClaimFunction, TLC

CONSTANTS b1, b2, g1, g2

Kind(g, o, c) == [group_key |-> g, ordered |-> o, max_retries |-> c]

One == [form |-> "int", value |-> 1]

\* One group with one producer.
OwnedKinds == {Kind(g1, TRUE, NoLabel), Kind(g1, FALSE, One)}

\* A group with several producers, and no group.
SharedKinds == {Kind(g2, TRUE, NoLabel), Kind(g2, FALSE, One), Kind(NoGroup, FALSE, One)}

MCSoleWriter == {g1}

BackendSymmetry == Permutations(Backends)
=============================================================================
