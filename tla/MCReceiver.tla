----------------------------- MODULE MCReceiver -----------------------------
(* Small instances of Receiver.  p1 is the only producer of group g1, the    *)
(* clients all wait for the first message.                                   *)
EXTENDS Receiver, TLC

CONSTANTS w1, w2, p1, g1, c1, c2

Labelled(o) == [group_key |-> g1, ordered |-> o, max_retries |-> NoLabel]

True == [form |-> "bool", value |-> 1]

GroupKick == p1 :> {Labelled(True), Labelled(NoLabel)}

OrderedKick == p1 :> {Labelled(True)}

FirstOnly == [c \in Readers |-> {1}]

AllSaved == [w \in Workers |-> "when_saved"]

Mixed == w1 :> "when_saved" @@ w2 :> "when_executed"

Symmetry == Permutations(Workers) \cup Permutations(Readers)
=============================================================================
