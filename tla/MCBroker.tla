------------------------------ MODULE MCBroker ------------------------------
(* Small instances of Broker.  p1 is the only producer of group g1 and       *)
(* enqueues ordered and unordered messages there.                            *)
EXTENDS Broker, TLC

CONSTANTS w1, w2, p1, g1

L(form, value) == [form |-> form, value |-> value]

Labelled(g, o, c) == [group_key |-> g, ordered |-> o, max_retries |-> c]

Ordered == Labelled(g1, L("truth", 1), NoLabel)
Mutexed == Labelled(g1, NoLabel, NoLabel)

\* The broker's cap on every message.
GroupKick == p1 :> {Ordered, Mutexed}

\* Labels kick refuses, one for each of its checks.
Refused == {Labelled(NoGroup, L("bool", 1), NoLabel), Labelled(g1, L("word", 0), NoLabel),
            Labelled(g1, L("int", 1), NoLabel), Labelled(g1, NoLabel, L("huge", 0)),
            Labelled(g1, NoLabel, L("float", 1)), Labelled(g1, NoLabel, L("bool", 1)),
            Labelled(g1, NoLabel, L("word", 0))}

\* An ordered message under the broker's cap, one under its own, and what kick refuses.
CappedKick == p1 :> ({Ordered, Labelled(g1, L("bool", 0), L("text", 1))} \cup Refused)

\* Two messages outside groups, one with a cap PostgreSQL cannot read.
ForeignKick == p1 :> {Labelled(NoGroup, NoLabel, L("foreign", 1)),
                      Labelled(NoGroup, NoLabel, NoLabel)}

WorkerSymmetry == Permutations(Workers)
=============================================================================
