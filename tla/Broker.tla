------------------------------- MODULE Broker -------------------------------
(***************************************************************************)
(* AsyncpgBroker (taskiq_pg/broker.py) and OrderedRetryMiddleware          *)
(* (taskiq_pg/middlewares.py): producers kick messages into the table,     *)
(* worker processes claim them, run them, keep their leases alive, and     *)
(* hand them back or acknowledge them, while every process sweeps.         *)
(*                                                                         *)
(* A step is what runs between two awaits.  Each SQL statement is one step *)
(* on the table; ClaimFunction opens up the claim.  Time is what the       *)
(* statements compare it with: scheduled_at is 0 once it is due and 1      *)
(* before, a lease is fresh or stale.                                      *)
(***************************************************************************)
EXTENDS BrokerQueries

CONSTANTS
    Workers,            \* worker processes
    Producers,          \* clients that kick
    MayKick,            \* the labels each producer calls kick with
    MaxId,              \* bound on the ids drawn from the sequence
    AttemptBound,       \* bound on the claims of one message
    RetryMiddleware,    \* is OrderedRetryMiddleware installed?
    Beating,            \* the processes whose heartbeat loop gets a turn
    Punctual,           \* do heartbeats always come within the stuck timeout?
    Faults              \* which of the faults below may happen

ASSUME BrokerAssumption ==
    /\ MaxId \in Nat /\ AttemptBound \in Nat
    /\ RetryMiddleware \in BOOLEAN /\ Punctual \in BOOLEAN
    /\ Beating \subseteq Workers
    /\ Faults \subseteq {"crash", "kick_error", "lost_claim", "release_error",
                         "ack_error", "no_ack"}

VARIABLES
    rows,           \* the message table
    last_id,        \* last value of the BIGSERIAL sequence
    inserting,      \* per producer, the INSERTs that drew an id: id -> kind
    deliveries,     \* deliveries held by worker processes
    inflight,       \* _inflight_ids of each process
    beat            \* ids a heartbeat round has listed but not yet refreshed

vars == <<rows, last_id, inserting, deliveries, inflight, beat>>

Ids == 1 .. MaxId

AllLabels == UNION {MayKick[p] : p \in Producers}

ASSUME LabelsAssumption ==
    /\ MaxRetryAttempts \in Int
    /\ \A l \in AllLabels : l.max_retries # NoLabel => l.max_retries \in Label

AllKinds == {Resolved(l) : l \in {m \in AllLabels : Admits(m)}}

Row == [status : MessageStatus, retry_count : Nat, scheduled_at : {0, 1},
        heartbeat_at : HeartbeatAges, kind : AllKinds]

\* claimed: the row came back, the message is not yielded yet.  running: the
\* task has it.  retrying, burying: the UPDATE of on_error is under way.
\* ended: COMPLETE is under way.  acked: it landed.
Phases == {"claimed", "running", "retrying", "burying", "ended", "acked"}

Delivery == [worker : Workers, id : Ids, attempts : Nat, kind : AllKinds,
             phase : Phases]

TypeOK ==
    /\ DOMAIN rows \subseteq Ids
    /\ rows \in [DOMAIN rows -> Row]
    /\ last_id \in 0 .. MaxId
    /\ DOMAIN inserting = Producers
    /\ \A p \in Producers :
          /\ DOMAIN inserting[p] \subseteq 1 .. last_id \ DOMAIN rows
          /\ \A i \in DOMAIN inserting[p] : inserting[p][i] \in AllKinds
    /\ deliveries \subseteq Delivery
    /\ inflight \in [Workers -> SUBSET Ids]
    /\ beat \in [Workers -> SUBSET Ids]

Nothing == [i \in {} |-> NoLabel]

Init ==
    /\ rows = Nothing
    /\ last_id = 0
    /\ inserting = [p \in Producers |-> Nothing]
    /\ deliveries = {}
    /\ inflight = [w \in Workers |-> {}]
    /\ beat = [w \in Workers |-> {}]
-----------------------------------------------------------------------------
(* kick *)

\* The labels pass kick's checks and the INSERT draws an id.
KickInsert(p, labels) ==
    /\ Admits(labels)
    /\ inserting[p] = Nothing
    /\ last_id < MaxId
    /\ last_id' = last_id + 1
    /\ inserting' = [inserting EXCEPT ![p] = [i \in {last_id + 1} |-> Resolved(labels)]]
    /\ UNCHANGED <<rows, deliveries, inflight, beat>>

\* Mutant: the producer inserts the same message again.
KickCommitTwice(p, i, when) ==
    /\ rows' = InsertMessage(rows, i, inserting[p][i], when)
    /\ UNCHANGED <<last_id, inserting, deliveries, inflight, beat>>

\* The INSERT commits, due now or after the message's delay.
KickCommit(p, i, when) ==
    /\ rows' = InsertMessage(rows, i, inserting[p][i], when)
    /\ inserting' = [inserting EXCEPT ![p] = Nothing]
    /\ UNCHANGED <<last_id, deliveries, inflight, beat>>

\* The INSERT rolls back; the sequence does not.
KickAbort(p) ==
    /\ "kick_error" \in Faults
    /\ inserting[p] # Nothing
    /\ inserting' = [inserting EXCEPT ![p] = Nothing]
    /\ UNCHANGED <<rows, last_id, deliveries, inflight, beat>>

Kick(p) ==
    \/ \E labels \in MayKick[p] : KickInsert(p, labels)
    \/ \E i \in DOMAIN inserting[p], when \in {0, 1} : KickCommit(p, i, when)
    \/ KickAbort(p)
-----------------------------------------------------------------------------
(* listen: one dequeue at a time per process, under _dequeue_lock *)

Move(d, phase) == (deliveries \ {d}) \cup {[d EXCEPT !.phase = phase]}

\* Mutant: the id joins _inflight_ids with the claim.
DequeueListed(w, i) ==
    /\ \A d \in deliveries : d.worker = w => d.phase # "claimed"
    /\ Claimable(rows, i, 0)
    /\ rows[i].retry_count < AttemptBound
    /\ rows' = ClaimRow(rows, i)
    /\ inflight' = [inflight EXCEPT ![w] = @ \cup {i}]
    /\ deliveries' = deliveries \cup
          {[worker |-> w, id |-> i, attempts |-> rows'[i].retry_count,
            kind |-> rows[i].kind, phase |-> "claimed"]}
    /\ UNCHANGED <<last_id, inserting, beat>>

Dequeue(w, i) ==
    /\ \A d \in deliveries : d.worker = w => d.phase # "claimed"
    /\ Claimable(rows, i, 0)
    /\ rows[i].retry_count < AttemptBound
    /\ rows' = ClaimRow(rows, i)
    /\ deliveries' = deliveries \cup
          {[worker |-> w, id |-> i, attempts |-> rows'[i].retry_count,
            kind |-> rows[i].kind, phase |-> "claimed"]}
    /\ UNCHANGED <<last_id, inserting, inflight, beat>>

\* Mutant: the id does not join _inflight_ids.
YieldUnlisted(d) ==
    /\ d.phase = "claimed"
    /\ deliveries' = Move(d, "running")
    /\ UNCHANGED <<rows, last_id, inserting, inflight, beat>>

\* The delivery meta is stamped, the id joins _inflight_ids, the message goes out.
Yield(d) ==
    /\ d.phase = "claimed"
    /\ inflight' = [inflight EXCEPT ![d.worker] = @ \cup {d.id}]
    /\ deliveries' = Move(d, "running")
    /\ UNCHANGED <<rows, last_id, inserting, beat>>

\* The claim committed but nothing came of it: its reply was lost, or the
\* stored body does not load.  listen logs and goes on; the row stays active.
LoseClaim(d) ==
    /\ "lost_claim" \in Faults
    /\ d.phase = "claimed"
    /\ deliveries' = deliveries \ {d}
    /\ UNCHANGED <<rows, last_id, inserting, inflight, beat>>
-----------------------------------------------------------------------------
(* on_error and _release *)

\* The task failed and asked for a retry: on_error compares the stamped
\* attempts with the cap, and _release drops the lease before its UPDATE.
TaskFails(d) ==
    /\ RetryMiddleware
    /\ d.phase = "running"
    /\ inflight' = [inflight EXCEPT ![d.worker] = @ \ {d.id}]
    /\ deliveries' = Move(d, IF Spent(d.kind, d.attempts) THEN "burying"
                             ELSE "retrying")
    /\ UNCHANGED <<rows, last_id, inserting, beat>>

\* What the UPDATE of a failed delivery makes of the table.
Released(d) ==
    IF d.phase = "burying" THEN {MarkDead(rows, d.id, d.attempts)}
    ELSE {RetryInPlace(rows, d.id, d.attempts, when) : when \in {0, 1}}

Release(d) ==
    /\ d.phase \in {"retrying", "burying"}
    /\ rows' \in Released(d)
    /\ deliveries' = Move(d, "ended")
    /\ UNCHANGED <<last_id, inserting, inflight, beat>>

\* The UPDATE raises, applied or not; the exception leaves on_error and the
\* receiver never acknowledges the delivery.
ReleaseError(d) ==
    /\ "release_error" \in Faults
    /\ d.phase \in {"retrying", "burying"}
    /\ rows' \in Released(d) \cup {rows}
    /\ deliveries' = deliveries \ {d}
    /\ UNCHANGED <<last_id, inserting, inflight, beat>>
-----------------------------------------------------------------------------
(* the task's end and its ack *)

\* Mutant: ack discards before COMPLETE.
TaskEndsUnlisted(d) ==
    /\ d.phase = "running"
    /\ inflight' = [inflight EXCEPT ![d.worker] = @ \ {d.id}]
    /\ deliveries' = Move(d, "ended")
    /\ UNCHANGED <<rows, last_id, inserting, beat>>

\* The task returned, or failed in a way on_error leaves alone.
TaskEnds(d) ==
    /\ d.phase = "running"
    /\ deliveries' = Move(d, "ended")
    /\ UNCHANGED <<rows, last_id, inserting, inflight, beat>>

AckComplete(d) ==
    /\ d.phase = "ended"
    /\ rows' = CompleteMessage(rows, d.id, d.attempts)
    /\ deliveries' = Move(d, "acked")
    /\ UNCHANGED <<last_id, inserting, inflight, beat>>

AckDiscard(d) ==
    /\ d.phase = "acked"
    /\ inflight' = [inflight EXCEPT ![d.worker] = @ \ {d.id}]
    /\ deliveries' = deliveries \ {d}
    /\ UNCHANGED <<rows, last_id, inserting, beat>>

\* COMPLETE raises, applied or not: the discard after it is skipped.
AckError(d) ==
    /\ "ack_error" \in Faults
    /\ d.phase = "ended"
    /\ rows' \in {rows, CompleteMessage(rows, d.id, d.attempts)}
    /\ deliveries' = deliveries \ {d}
    /\ UNCHANGED <<last_id, inserting, inflight, beat>>

\* taskiq's receiver drops the delivery without calling ack: a task it does
\* not know, or a middleware that raises.
NoAck(d) ==
    /\ "no_ack" \in Faults
    /\ d.phase = "running"
    /\ deliveries' = deliveries \ {d}
    /\ UNCHANGED <<rows, last_id, inserting, inflight, beat>>
-----------------------------------------------------------------------------
(* leases *)

\* The process dies, and with it everything it held in memory.
Crash(w) ==
    /\ "crash" \in Faults
    /\ deliveries' = {d \in deliveries : d.worker # w}
    /\ inflight' = [inflight EXCEPT ![w] = {}]
    /\ beat' = [beat EXCEPT ![w] = {}]
    /\ UNCHANGED <<rows, last_id, inserting>>

\* _heartbeat_loop lists the ids, then awaits a connection and the UPDATE.
HeartbeatList(w) ==
    /\ w \in Beating
    /\ beat[w] = {} /\ inflight[w] # {}
    /\ beat' = [beat EXCEPT ![w] = inflight[w]]
    /\ UNCHANGED <<rows, last_id, inserting, deliveries, inflight>>

HeartbeatExecute(w) ==
    /\ beat[w] # {}
    /\ rows' = HeartbeatMessages(rows, beat[w])
    /\ beat' = [beat EXCEPT ![w] = {}]
    /\ UNCHANGED <<last_id, inserting, deliveries, inflight>>

\* Someone looks after the lease of row i: a process lists it, or its delivery
\* is within an await of being listed or of its release.
Tended(i) ==
    \/ \E w \in Workers : i \in inflight[w]
    \/ \E d \in deliveries :
          /\ d.id = i /\ d.attempts = rows[i].retry_count
          /\ d.phase \in {"claimed", "retrying", "burying"}

\* stuck_message_timeout passed since the last refresh.
LeaseLapse(i) ==
    /\ rows[i].status = "active" /\ rows[i].heartbeat_at = "fresh"
    /\ Punctual => ~Tended(i)
    /\ rows' = [rows EXCEPT ![i].heartbeat_at = "stale"]
    /\ UNCHANGED <<last_id, inserting, deliveries, inflight, beat>>

BecomeDue(i) ==
    /\ rows[i].status = "queued" /\ rows[i].scheduled_at = 1
    /\ rows' = [rows EXCEPT ![i].scheduled_at = 0]
    /\ UNCHANGED <<last_id, inserting, deliveries, inflight, beat>>

Sweep(S) ==
    /\ S # {} /\ S \subseteq Stuck(rows)
    /\ rows' = SweepMessages(rows, S)
    /\ UNCHANGED <<last_id, inserting, deliveries, inflight, beat>>

Cleanup(S) ==
    /\ S # {} /\ S \subseteq Completed(rows)
    /\ rows' = CleanupExpired(rows, S)
    /\ UNCHANGED <<last_id, inserting, deliveries, inflight, beat>>
-----------------------------------------------------------------------------
DeliveryStep(d) ==
    \/ Yield(d) \/ LoseClaim(d)
    \/ TaskFails(d) \/ Release(d) \/ ReleaseError(d)
    \/ TaskEnds(d) \/ AckComplete(d) \/ AckDiscard(d)
    \/ AckError(d) \/ NoAck(d)

TableStep ==
    \/ \E i \in DOMAIN rows : LeaseLapse(i) \/ BecomeDue(i)
    \/ \E S \in SUBSET DOMAIN rows : Sweep(S) \/ Cleanup(S)

Next ==
    \/ \E p \in Producers : Kick(p)
    \/ \E w \in Workers, i \in DOMAIN rows : Dequeue(w, i)
    \/ \E d \in deliveries : DeliveryStep(d)
    \/ \E w \in Workers : Crash(w) \/ HeartbeatList(w) \/ HeartbeatExecute(w)
    \/ TableStep

Spec == Init /\ [][Next]_vars

\* The listen loop claims a row that stays claimable, a delivery moves on
\* unless a fault takes it, a sweep finds no stale row locked once in a while
\* (MaxId is below its LIMIT), and time passes.  Nobody has to kick, crash or
\* send a heartbeat.
Held(w, i) == {d \in deliveries : d.worker = w /\ d.id = i}

Progress(d) == Yield(d) \/ Release(d) \/ TaskEnds(d) \/ AckComplete(d)
               \/ AckDiscard(d)

Fairness ==
    /\ \A i \in Ids :
          /\ WF_vars(i \in DOMAIN rows /\ \E w \in Workers : Dequeue(w, i))
          /\ WF_vars(i \in DOMAIN rows /\ BecomeDue(i))
          /\ WF_vars(i \in DOMAIN rows /\ ~Tended(i) /\ LeaseLapse(i))
    /\ WF_vars(Sweep(Stuck(rows)))
    /\ \A w \in Workers, i \in Ids :
          \A a \in 1 .. AttemptBound :
             WF_vars(\E d \in Held(w, i) : d.attempts = a /\ Progress(d))

FairSpec == Spec /\ Fairness
-----------------------------------------------------------------------------
(* What the broker promises, for every interleaving and fault *)

StateOf(status) ==
    CASE status = "queued"    -> "waiting"
      [] status = "active"    -> "running"
      [] status = "completed" -> "done"
      [] status = "dead"      -> "dead"

KindOf(kind) == [group_key |-> kind.group_key, ordered |-> kind.ordered,
                 cap |-> Cap(kind)]

WritersOf(g) == {p \in Producers : \E k \in MayKick[p] : k.group_key = g}

SoleWriter == {g \in {k.group_key : k \in AllKinds} \ {NoGroup} :
                  \E p \in Producers : WritersOf(g) = {p}}

MessageOf(row) == [kind |-> KindOf(row.kind), state |-> StateOf(row.status),
                   attempts |-> row.retry_count]

Messages == [i \in DOMAIN rows |-> MessageOf(rows[i])]

Queue == INSTANCE MessageQueue WITH
            Kinds <- {KindOf(k) : k \in AllKinds},
            msgs  <- Messages

\* The table the processes share behaves like MessageQueue: whatever order
\* claims, retries, sweeps, acks and heartbeats of live, slow and dead workers
\* land in, groups stay mutexed and ordered, budgets hold, ends are final.
QueueSpec == Queue!Spec

\* A completed row was completed by the delivery that owns its last attempt,
\* after its task ended: a late ack never completes somebody else's attempt.
CompletedMeansEnded ==
    \A d \in deliveries :
        /\ d.id \in DOMAIN rows
        /\ rows[d.id].status = "completed"
        /\ rows[d.id].retry_count = d.attempts
        => d.phase = "acked"

\* (id, attempts) names one delivery for ever, which is what the fences and
\* the labels _tpg_row_id and _tpg_attempts rely on.
OneHolderPerAttempt ==
    \A d, e \in deliveries :
        /\ d.id = e.id /\ d.attempts = e.attempts => d = e
        /\ d.id \in DOMAIN rows => d.attempts <= rows[d.id].retry_count

\* As long as a task runs, its row is taken from it only through a stale lease:
\* no late retry, dead letter or ack of an earlier attempt ends it.
OnlySweepTakes ==
    [][\A d \in deliveries \cap deliveries' :
          /\ d.phase = "running"
          /\ Owns(rows, d.id, d.attempts)
          /\ ~Owns(rows, d.id, d.attempts)'
          => rows[d.id].heartbeat_at = "stale"]_vars
-----------------------------------------------------------------------------
(* What it promises when heartbeats are on time *)

\* _inflight_ids holds what this process must keep alive (broker.py, the
\* attribute's comment): the id of every running delivery that owns its row.
RunningIsInflight ==
    \A d \in deliveries :
        d.phase = "running" /\ Owns(rows, d.id, d.attempts)
        => d.id \in inflight[d.worker]

\* Two messages that share a group_key never run at the same time
\* (UPGRADE_NOTES.md, "Mutex and order are separate labels now").
GroupsNeverOverlap ==
    \A d, e \in deliveries :
        /\ d.phase = "running" /\ e.phase = "running"
        /\ d.kind.group_key = e.kind.group_key /\ d.kind.group_key # NoGroup
        => d.id = e.id

\* A task that ended keeps its row until its ack lands: nobody sweeps it and
\* runs it again (broker.py, the comment in ack on discarding early).
EndedKeepsItsRow ==
    \A d \in deliveries :
        d.phase = "ended" =>
            d.id \in DOMAIN rows /\ Owns(rows, d.id, d.attempts)
-----------------------------------------------------------------------------
(* What it promises eventually *)

HaltedByDead(i) ==
    rows[i].kind.ordered
    /\ \E j \in Older(rows, i) : rows[j].status = "dead"

\* A message is acknowledged or dead in the end, or it is ordered and halted
\* behind a dead one, whatever crashes, lost claims and failed releases.
EveryMessageSettles ==
    \A i \in Ids :
        (i \in DOMAIN rows) ~>
            (i \in DOMAIN rows =>
                rows[i].status \in {"completed", "dead"} \/ HaltedByDead(i))

Orphaned(i, a) ==
    /\ Owns(rows, i, a)
    /\ \A d \in deliveries : d.id = i => d.attempts # a

\* A row is active while it runs (README.md, "Message States"): an attempt no
\* delivery holds any more does not keep its row active for ever.
OrphansAreReclaimed ==
    \A i \in Ids, a \in 1 .. AttemptBound : Orphaned(i, a) ~> ~Orphaned(i, a)

\* kick() validates max_retries, so the sweep's cast is bare (broker_queries.py,
\* the comment on SWEEP_MESSAGES_QUERY): an orphan whose own label casts is
\* reclaimed, whatever labels the other rows carry.
OneLabelHarmsNoOther ==
    \A i \in Ids, a \in 1 .. AttemptBound :
        (Orphaned(i, a) /\ Casts(rows[i].kind.max_retries)) ~> ~Orphaned(i, a)
=============================================================================
