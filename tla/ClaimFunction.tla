---------------------------- MODULE ClaimFunction ----------------------------
(***************************************************************************)
(* The plpgsql claim function (CLAIM_FUNCTION_QUERY) and the transaction   *)
(* _dequeue_message runs it in, statement by statement, on PostgreSQL      *)
(* under READ COMMITTED.  Each statement of a transaction sees what was    *)
(* committed when it began; what it finds may have changed when it gets to *)
(* lock it.  Row locks and advisory locks are held until the transaction   *)
(* ends, those on rejected candidates included.  Everybody else's          *)
(* statements (kick, ack, retry, dead letter, sweep, cleanup) are single   *)
(* steps that wait for the row locks they need.                            *)
(***************************************************************************)
EXTENDS BrokerQueries

CONSTANTS
    Backends,           \* one dequeue_conn per worker process
    Free,               \* nobody holds the lock
    Ids,                \* ids of the BIGSERIAL sequence
    Kinds,              \* kinds of message that may be kicked
    SoleWriter,         \* groups enqueued by a single producer
    AttemptBound,       \* bound on the claims of one message
    MaxClock,           \* bound on the clock
    MayRollback         \* may a dequeue transaction fail?

ASSUME ClaimAssumption ==
    /\ Ids \subseteq Nat \ {0}
    /\ Free \notin Backends /\ NoGroup \notin SoleWriter
    /\ AttemptBound \in Nat /\ MaxClock \in Nat /\ MayRollback \in BOOLEAN

VARIABLES
    rows,               \* the committed versions of the message table
    used,               \* ids that were ever committed
    clock,              \* the server's clock
    rowLock,            \* who holds FOR UPDATE on a row
    groupLock,          \* who holds the advisory lock of a group
    pc,                 \* the statement a backend runs next
    now,                \* NOW(): the clock when its transaction began
    cursor,             \* (cur_sched, cur_id)
    todo,               \* (scheduled_at, id) its candidate query has yet to lock
    cand                \* cand.id

table   == <<rows, used, clock>>
backend == <<rowLock, groupLock, pc, now, cursor, todo, cand>>
vars    == <<table, backend>>

Groups == {k.group_key : k \in Kinds} \ {NoGroup}

Times == 0 .. MaxClock

Row == [status : MessageStatus, retry_count : Nat, scheduled_at : Times,
        heartbeat_at : HeartbeatAges, kind : Kinds]

TypeOK ==
    /\ DOMAIN rows \subseteq used /\ used \subseteq Ids
    /\ rows \in [DOMAIN rows -> Row]
    /\ clock \in 0 .. MaxClock
    /\ rowLock \in [Ids -> Backends \cup {Free}]
    /\ groupLock \in [Groups -> Backends \cup {Free}]
    /\ pc \in [Backends -> {"idle", "select", "scan", "group", "recheck", "update"}]
    /\ now \in [Backends -> 0 .. MaxClock]
    /\ cursor \in [Backends -> (Times \cup {-1}) \X (Ids \cup {0})]
    /\ todo \in [Backends -> SUBSET (Times \X Ids)]
    /\ cand \in [Backends -> Ids \cup {0}]

Before(x, y) == x[1] < y[1] \/ (x[1] = y[1] /\ x[2] < y[2])

Place(i) == <<rows[i].scheduled_at, i>>

Start == <<-1, 0>>          \* ('-infinity', 0)

Init ==
    /\ rows = [i \in {} |-> 0]
    /\ used = {}
    /\ clock = 0
    /\ rowLock = [i \in Ids |-> Free]
    /\ groupLock = [g \in Groups |-> Free]
    /\ pc = [b \in Backends |-> "idle"]
    /\ now = [b \in Backends |-> 0]
    /\ cursor = [b \in Backends |-> Start]
    /\ todo = [b \in Backends |-> {}]
    /\ cand = [b \in Backends |-> 0]
-----------------------------------------------------------------------------
(* The transaction of _dequeue_message *)

Goto(b, label) == pc' = [pc EXCEPT ![b] = label]

Unlocked(lock, b) == [x \in DOMAIN lock |-> IF lock[x] = b THEN Free ELSE lock[x]]

\* Mutant: the cursor outlives the call.
EndTransactionKeepsCursor(b) ==
    /\ rowLock' = Unlocked(rowLock, b)
    /\ groupLock' = Unlocked(groupLock, b)
    /\ pc' = [pc EXCEPT ![b] = "idle"]
    /\ now' = [now EXCEPT ![b] = 0]
    /\ cursor' = cursor
    /\ todo' = [todo EXCEPT ![b] = {}]
    /\ cand' = [cand EXCEPT ![b] = 0]

\* The transaction ends and drops every lock it took.
EndTransaction(b) ==
    /\ rowLock' = Unlocked(rowLock, b)
    /\ groupLock' = Unlocked(groupLock, b)
    /\ pc' = [pc EXCEPT ![b] = "idle"]
    /\ now' = [now EXCEPT ![b] = 0]
    /\ cursor' = [cursor EXCEPT ![b] = Start]
    /\ todo' = [todo EXCEPT ![b] = {}]
    /\ cand' = [cand EXCEPT ![b] = 0]

Begin(b) ==
    /\ pc[b] = "idle"
    /\ now' = [now EXCEPT ![b] = clock]
    /\ Goto(b, "select")
    /\ UNCHANGED <<table, rowLock, groupLock, cursor, todo, cand>>

\* The candidate query takes its snapshot: every row that qualifies in it,
\* beyond the cursor.
Candidates(b) ==
    {Place(i) : i \in {j \in DOMAIN rows :
                          /\ Claimable(rows, j, now[b])
                          /\ Before(cursor[b], Place(j))
                          /\ rows[j].retry_count < AttemptBound}}

Select(b) ==
    /\ pc[b] = "select"
    /\ todo' = [todo EXCEPT ![b] = Candidates(b)]
    /\ Goto(b, "scan")
    /\ UNCHANGED <<table, rowLock, groupLock, now, cursor, cand>>

\* The next of its rows in (scheduled_at, id) order, as of the snapshot.
Head(b) == CHOOSE x \in todo[b] : \A y \in todo[b] \ {x} : Before(x, y)

\* Mutant: a plain SELECT.
LockableAlways(b, i) == i \in DOMAIN rows

Lockable(b, i) == i \in DOMAIN rows /\ rowLock[i] \in {b, Free}

\* Mutant: the newest version is not looked at again.
StillMatchesUnseen(b, i) ==
    Before(cursor[b], Place(i)) /\ rows[i].retry_count < AttemptBound

\* What EvalPlanQual asks of the version the lock was taken on; the NOT EXISTS
\* of the query keep the snapshot's answer.
StillMatches(b, i) ==
    /\ rows[i].status = "queued"
    /\ rows[i].scheduled_at <= now[b]
    /\ Before(cursor[b], Place(i))
    /\ rows[i].retry_count < AttemptBound

\* SKIP LOCKED, or the row is gone.
SkipRow(b) ==
    /\ pc[b] = "scan" /\ todo[b] # {}
    /\ ~Lockable(b, Head(b)[2])
    /\ todo' = [todo EXCEPT ![b] = @ \ {Head(b)}]
    /\ UNCHANGED <<table, rowLock, groupLock, pc, now, cursor, cand>>

\* The row is locked, but its newest version no longer qualifies.
RejectRow(b) ==
    /\ pc[b] = "scan" /\ todo[b] # {}
    /\ LET i == Head(b)[2] IN
          /\ Lockable(b, i) /\ ~StillMatches(b, i)
          /\ rowLock' = [rowLock EXCEPT ![i] = b]
    /\ todo' = [todo EXCEPT ![b] = @ \ {Head(b)}]
    /\ UNCHANGED <<table, groupLock, pc, now, cursor, cand>>

\* Mutant: the cursor stays.
TakeRowAgain(b) ==
    /\ pc[b] = "scan" /\ todo[b] # {}
    /\ LET i == Head(b)[2] IN
          /\ Lockable(b, i) /\ StillMatches(b, i)
          /\ rowLock' = [rowLock EXCEPT ![i] = b]
          /\ cand' = [cand EXCEPT ![b] = i]
    /\ todo' = [todo EXCEPT ![b] = {}]
    /\ Goto(b, "group")
    /\ UNCHANGED <<table, groupLock, now, cursor>>

\* LIMIT 1 is met; the cursor moves to the candidate.
TakeRow(b) ==
    /\ pc[b] = "scan" /\ todo[b] # {}
    /\ LET i == Head(b)[2] IN
          /\ Lockable(b, i) /\ StillMatches(b, i)
          /\ rowLock' = [rowLock EXCEPT ![i] = b]
          /\ cand' = [cand EXCEPT ![b] = i]
          /\ cursor' = [cursor EXCEPT ![b] = Place(i)]
    /\ todo' = [todo EXCEPT ![b] = {}]
    /\ Goto(b, "group")
    /\ UNCHANGED <<table, groupLock, now>>

\* EXIT WHEN NOT FOUND; the transaction commits without a claim.
NotFound(b) ==
    /\ pc[b] = "scan" /\ todo[b] = {}
    /\ EndTransaction(b)
    /\ UNCHANGED table

GroupOf(b) == rows[cand[b]].kind.group_key

\* Mutant: the group is only re-checked, not locked.
TryNoGroupLock(b) ==
    /\ pc[b] = "group"
    /\ Goto(b, IF GroupOf(b) = NoGroup THEN "update" ELSE "recheck")
    /\ UNCHANGED <<table, rowLock, groupLock, now, cursor, todo, cand>>

\* pg_try_advisory_xact_lock, for candidates with a group_key.
TryGroupLock(b) ==
    /\ pc[b] = "group"
    /\ IF GroupOf(b) = NoGroup
       THEN Goto(b, "update") /\ UNCHANGED groupLock
       ELSE IF groupLock[GroupOf(b)] \in {b, Free}
       THEN /\ groupLock' = [groupLock EXCEPT ![GroupOf(b)] = b]
            /\ Goto(b, "recheck")
       ELSE Goto(b, "select") /\ UNCHANGED groupLock
    /\ UNCHANGED <<table, rowLock, now, cursor, todo, cand>>

\* Mutant: the advisory lock is all there is.
RecheckNothing(b) ==
    /\ pc[b] = "recheck"
    /\ Goto(b, "update")
    /\ UNCHANGED <<table, rowLock, groupLock, now, cursor, todo, cand>>

\* The mutex once more, on a snapshot taken under the advisory lock.
Recheck(b) ==
    /\ pc[b] = "recheck"
    /\ Goto(b, IF GroupActive(rows, GroupOf(b)) THEN "select" ELSE "update")
    /\ UNCHANGED <<table, rowLock, groupLock, now, cursor, todo, cand>>

\* UPDATE, RETURN, the SELECT of the row, and COMMIT: nobody sees the claim
\* before the last of them.
Commit(b) ==
    /\ pc[b] = "update"
    /\ rows' = ClaimRow(rows, cand[b])
    /\ EndTransaction(b)
    /\ UNCHANGED <<used, clock>>

\* The connection drops, or the call raises, before the commit.
Rollback(b) ==
    /\ MayRollback
    /\ pc[b] # "idle"
    /\ EndTransaction(b)
    /\ UNCHANGED table

Call(b) ==
    \/ Select(b) \/ SkipRow(b) \/ RejectRow(b) \/ TakeRow(b)
    \/ TryGroupLock(b) \/ Recheck(b) \/ Commit(b) \/ NotFound(b)
-----------------------------------------------------------------------------
(* Everybody else *)

\* NOW(), or NOW() plus a delay of kick or of a retry.
Whens == {clock, clock + 1} \cap Times

InsertRow(i, kind, when) ==
    /\ i \notin used
    /\ kind.group_key \in SoleWriter =>
          \A j \in InGroup(rows, kind.group_key) : j < i
    /\ used' = used \cup {i}
    /\ rows' = InsertMessage(rows, i, kind, when)
    /\ UNCHANGED <<clock, backend>>

\* How the delivery of an active row may end: ack, retry in place, dead letter,
\* or a sweep after its lease lapsed.
Endings(i) ==
    LET a == rows[i].retry_count IN
    {CompleteMessage(rows, i, a), SweepMessages(rows, {i})} \cup
    (IF Spent(rows[i].kind, a) THEN {MarkDead(rows, i, a)}
     ELSE {RetryInPlace(rows, i, a, when) : when \in Whens})

EndDelivery(i) ==
    /\ rows[i].status = "active"
    /\ rowLock[i] = Free
    /\ rows' \in Endings(i)
    /\ UNCHANGED <<used, clock, backend>>

CleanupRow(i) ==
    /\ i \in Completed(rows)
    /\ rowLock[i] = Free
    /\ rows' = CleanupExpired(rows, {i})
    /\ UNCHANGED <<used, clock, backend>>

Tick ==
    /\ clock < MaxClock
    /\ clock' = clock + 1
    /\ UNCHANGED <<rows, used, backend>>

Others ==
    \/ \E i \in Ids, k \in Kinds, when \in Whens : InsertRow(i, k, when)
    \/ \E i \in DOMAIN rows : EndDelivery(i) \/ CleanupRow(i)
    \/ Tick

Next ==
    \/ \E b \in Backends : Begin(b) \/ Call(b) \/ Rollback(b)
    \/ Others

Spec == Init /\ [][Next]_vars

\* One backend, whichever, goes on with the call it is in.  Nothing else has to
\* happen: its rivals may stall inside their transactions for ever.
Lone == CHOOSE b \in Backends : TRUE

LoneFairness == WF_vars(Call(Lone))

\* listen polls for ever, transactions finish, deliveries end, time passes.
Fairness ==
    /\ \A b \in Backends : WF_vars(Begin(b)) /\ WF_vars(Call(b))
    /\ \A i \in Ids : WF_vars(i \in DOMAIN rows /\ EndDelivery(i))
    /\ WF_vars(Tick)
-----------------------------------------------------------------------------
StateOf(status) ==
    CASE status = "queued"    -> "waiting"
      [] status = "active"    -> "running"
      [] status = "completed" -> "done"
      [] status = "dead"      -> "dead"

KindOf(kind) == [group_key |-> kind.group_key, ordered |-> kind.ordered,
                 cap |-> Cap(kind)]

MessageOf(row) == [kind |-> KindOf(row.kind), state |-> StateOf(row.status),
                   attempts |-> row.retry_count]

Messages == [i \in DOMAIN rows |-> MessageOf(rows[i])]

Queue == INSTANCE MessageQueue WITH
            Kinds <- {KindOf(k) : k \in Kinds},
            msgs  <- Messages

\* Whatever their snapshots miss, the claims of several backends commit one at
\* a time and in the order MessageQueue allows: a group is never started twice,
\* an ordered message never overtakes, a claimed row is never claimed again.
QueueSpec == Queue!Spec

\* What a backend is about to claim is still there to be claimed: nobody
\* started its row or its group since it looked, and no rival that is about
\* to commit has the same row or the same group.
ClaimIsExclusive ==
    \A b \in Backends : pc[b] = "update" =>
        /\ cand[b] \in DOMAIN rows
        /\ rows[cand[b]].status = "queued"
        /\ ~GroupActive(rows, GroupOf(b))
        /\ \A c \in Backends \ {b} : pc[c] = "update" =>
              /\ cand[c] # cand[b]
              /\ GroupOf(c) = GroupOf(b) => GroupOf(b) = NoGroup

\* "Head-of-line and dead-halt need no re-check -- a stale read of either can
\* only over-block" (CLAIM_FUNCTION_QUERY): what was read of the older messages
\* of an ordered candidate still lets it go when its claim commits.
StaleReadOnlyOverBlocks ==
    \A b \in Backends :
        /\ pc[b] \in {"group", "recheck", "update"}
        /\ rows[cand[b]].kind.ordered /\ GroupOf(b) \in SoleWriter
        => \A i \in InGroup(rows, GroupOf(b)) :
              i < cand[b] => rows[i].status = "completed"

\* A claim comes back without waiting for anybody: SKIP LOCKED and the try-lock
\* never block, and the cursor never offers a rejected candidate again.
CallEnds == LoneFairness => (pc[Lone] # "idle" ~> pc[Lone] = "idle")

Halted(i) ==
    rows[i].kind.ordered
    /\ \E j \in Older(rows, i) : rows[j].status = "dead"

\* Rivals that poll at the same time cannot keep each other from a message for
\* ever, although each may skip, over-block and return nothing.
EveryMessageIsClaimed ==
    Fairness =>
        \A i \in Ids :
            (i \in DOMAIN rows /\ rows[i].status = "queued") ~>
                (i \in DOMAIN rows => rows[i].status # "queued" \/ Halted(i))
=============================================================================
