---------------------------- MODULE MessageQueue ----------------------------
(***************************************************************************)
(* What taskiq_pg promises of its message table, without workers, leases,  *)
(* connections or SQL: every message waits, runs, and ends done or dead,   *)
(* a group runs one message at a time, an ordered message runs only after  *)
(* everything older in its group, and a message runs at most as often as   *)
(* its budget allows.  Broker and ClaimFunction are checked to implement   *)
(* this specification.                                                     *)
(***************************************************************************)
EXTENDS Integers

CONSTANTS
    Ids,            \* ids the table's BIGSERIAL can hand out
    Kinds,          \* what kick may be given: [group_key, ordered, cap]
    NoGroup,        \* group_key IS NULL
    SoleWriter,     \* groups that are enqueued by a single producer
    AttemptBound    \* bound on the claims of one message (for TLC)

ASSUME IdsAssumption == Ids \subseteq Nat
ASSUME KindsAssumption ==
    \A k \in Kinds : k.cap \in Int /\ k.ordered \in BOOLEAN
ASSUME GroupAssumption == NoGroup \notin SoleWriter
ASSUME BoundAssumption == AttemptBound \in Nat

VARIABLE msgs       \* the messages the table holds, by id

States == {"waiting", "running", "done", "dead"}

Message == [kind : Kinds, state : States, attempts : Nat]

TypeOK ==
    /\ DOMAIN msgs \subseteq Ids
    /\ msgs \in [DOMAIN msgs -> Message]

In(g) == {i \in DOMAIN msgs : g # NoGroup /\ msgs[i].kind.group_key = g}

Group(i) == msgs[i].kind.group_key

\* Mutant: one attempt too many.
SpentLate(m) == m.kind.cap >= 0 /\ m.attempts > m.kind.cap

\* The attempts of a message are spent: a negative cap retries forever.
Spent(m) == m.kind.cap >= 0 /\ m.attempts >= m.kind.cap

Init == msgs = [i \in {} |-> {}]

\* Mutant: counts retries instead of deliveries.
AcceptUncounted(i, k) ==
    /\ i \notin DOMAIN msgs
    /\ k.group_key \in SoleWriter => \A j \in In(k.group_key) : j < i
    /\ msgs' = [j \in DOMAIN msgs \cup {i} |->
                  IF j = i
                  THEN [kind |-> k, state |-> "waiting", attempts |-> -1]
                  ELSE msgs[j]]

\* A producer's message becomes visible.  One producer commits its ids in the
\* order it drew them; several producers of a group may not.
Accept(i, k) ==
    /\ i \notin DOMAIN msgs
    /\ k.group_key \in SoleWriter => \A j \in In(k.group_key) : j < i
    /\ msgs' = [j \in DOMAIN msgs \cup {i} |->
                  IF j = i
                  THEN [kind |-> k, state |-> "waiting", attempts |-> 0]
                  ELSE msgs[j]]

\* Mutant: the group is not asked.
GroupAnyway(g) == TRUE

GroupIdle(g) == \A j \in In(g) : msgs[j].state # "running"

\* Mutant: a dead message is skipped.
HeadOfLiving(i) ==
    Group(i) \in SoleWriter =>
        \A j \in In(Group(i)) : j < i => msgs[j].state \in {"done", "dead"}

HeadOfGroup(i) ==
    Group(i) \in SoleWriter =>
        \A j \in In(Group(i)) : j < i => msgs[j].state = "done"

\* A worker claims message i.
Start(i) ==
    /\ msgs[i].state = "waiting"
    /\ msgs[i].attempts < AttemptBound
    /\ GroupIdle(Group(i))
    /\ msgs[i].kind.ordered => HeadOfGroup(i)
    /\ msgs' = [msgs EXCEPT ![i].state = "running",
                            ![i].attempts = @ + 1]

\* The delivery that owns message i is acknowledged.
Finish(i) ==
    /\ msgs[i].state = "running"
    /\ msgs' = [msgs EXCEPT ![i].state = "done"]

\* Attempts end without an acknowledgement: a retry, a dead letter, or a sweep
\* of several stale leases at once.
Release(S) ==
    /\ \A i \in S : msgs[i].state = "running"
    /\ msgs' = [i \in DOMAIN msgs |->
                  IF i \in S
                  THEN [msgs[i] EXCEPT !.state = IF Spent(msgs[i]) THEN "dead"
                                                 ELSE "waiting"]
                  ELSE msgs[i]]

\* Mutant: dead letters are cleaned up too.
ForgetDead(S) ==
    /\ \A i \in S : msgs[i].state \in {"done", "dead"}
    /\ msgs' = [i \in DOMAIN msgs \ S |-> msgs[i]]

\* Completed messages outlive their retention window and are deleted.
Forget(S) ==
    /\ \A i \in S : msgs[i].state = "done"
    /\ msgs' = [i \in DOMAIN msgs \ S |-> msgs[i]]

Next ==
    \/ \E i \in Ids, k \in Kinds : Accept(i, k)
    \/ \E i \in DOMAIN msgs : Start(i) \/ Finish(i)
    \/ \E S \in SUBSET DOMAIN msgs : Release(S) \/ Forget(S)

Spec == Init /\ [][Next]_msgs
-----------------------------------------------------------------------------
\* At most one message of a group is running, ordered or not (README.md,
\* "Group-based Coordination"; the mutex of the claim function).
GroupMutex ==
    \A i, j \in DOMAIN msgs :
        /\ Group(i) # NoGroup /\ Group(i) = Group(j)
        /\ msgs[i].state = "running" /\ msgs[j].state = "running"
        => i = j

\* An ordered message was never claimed, however often it was retried or swept
\* since, before everything older in its group was done: a dead, delayed or
\* retrying message halts its group (README.md, "Ordered Groups").
Fifo ==
    \A i, j \in DOMAIN msgs :
        /\ Group(j) \in SoleWriter /\ Group(i) = Group(j) /\ i < j
        /\ msgs[j].kind.ordered /\ msgs[j].attempts > 0
        => msgs[i].state = "done"

\* A message is delivered no more often than its cap (a cap of 0 still allows
\* the first delivery), is handed back only with attempts left and is dead only
\* with none left, whichever of middleware and sweeper ended its attempts.
Budget ==
    \A i \in DOMAIN msgs :
        LET m == msgs[i] IN
        /\ m.kind.cap >= 0 => m.attempts <= (IF m.kind.cap = 0 THEN 1
                                             ELSE m.kind.cap)
        /\ m.state = "waiting" => m.attempts = 0 \/ ~Spent(m)
        /\ m.state = "dead" => Spent(m)

\* No step loses a message that is not done, revives one that ended, or takes
\* an attempt back: the fences of the broker compare attempt counts, so a count
\* may never be seen twice.
EndsAreFinal ==
    [][\A i \in DOMAIN msgs :
          IF i \in DOMAIN msgs'
          THEN /\ msgs'[i].kind = msgs[i].kind
               /\ msgs'[i].attempts >= msgs[i].attempts
               /\ msgs[i].state \in {"done", "dead"} =>
                     msgs'[i].state = msgs[i].state
               /\ msgs[i].state # "running" /\ msgs'[i].state = "running" =>
                     msgs'[i].attempts > msgs[i].attempts
          ELSE msgs[i].state = "done"]_msgs
=============================================================================
