---------------------------- MODULE BrokerQueries ----------------------------
(***************************************************************************)
(* The SQL statements of taskiq_pg/broker_queries.py as operators on the   *)
(* message table.  A table is a function from ids to rows; the columns     *)
(* kept are the ones a statement reads or writes to decide what happens    *)
(* next.  task_id, task_name, message, created_at and lock_key are carried *)
(* along unread.  expire_at is NULL until COMPLETE sets it, so it equals    *)
(* "completed" here and the claim's expire_at test never fails.            *)
(***************************************************************************)
EXTENDS Labels

CONSTANT MaxRetryAttempts       \* the broker's max_retry_attempts

MessageStatus == {"queued", "active", "completed", "dead"}

\* heartbeat_at against NOW() - stuck_message_timeout.
HeartbeatAges == {"null", "fresh", "stale"}

Cap(kind) == IF kind.max_retries = NoLabel THEN MaxRetryAttempts
             ELSE kind.max_retries.value

\* What both the middleware and the sweeper ask before ending an attempt.
Spent(kind, attempts) == Cap(kind) >= 0 /\ attempts >= Cap(kind)

InGroup(rows, g) == {i \in DOMAIN rows : g # NoGroup /\ rows[i].kind.group_key = g}

\* Mutant: the group mutex is left out.
GroupNeverActive(rows, g) == FALSE

GroupActive(rows, g) == \E i \in InGroup(rows, g) : rows[i].status = "active"

\* Mutant: o.id <= m.id.
UpTo(rows, i) == {j \in InGroup(rows, rows[i].kind.group_key) : j <= i}

Older(rows, i) == {j \in InGroup(rows, rows[i].kind.group_key) : j < i}

\* Mutant: a dead message does not halt its group.
BlockingAlive == {"queued", "active"}

\* An older message of such a status holds an ordered one back.
Blocking == {"queued", "active", "dead"}

\* The WHERE clause of the claim's candidate query, without the cursor.
Claimable(rows, i, now) ==
    /\ rows[i].status = "queued"
    /\ rows[i].scheduled_at <= now
    /\ ~GroupActive(rows, rows[i].kind.group_key)
    /\ rows[i].kind.ordered =>
          \A j \in Older(rows, i) : rows[j].status \notin Blocking

InsertMessage(rows, i, kind, when) ==
    [j \in DOMAIN rows \cup {i} |->
        IF j = i
        THEN [status |-> "queued", retry_count |-> 0, scheduled_at |-> when,
              heartbeat_at |-> "null", kind |-> kind]
        ELSE rows[j]]

\* Mutant: the attempt is not counted.
ClaimRowUncounted(rows, i) ==
    [rows EXCEPT ![i].status = "active", ![i].heartbeat_at = "fresh"]

\* The UPDATE that ends the claim function; the only place that counts.
ClaimRow(rows, i) ==
    [rows EXCEPT ![i].status = "active",
                 ![i].heartbeat_at = "fresh",
                 ![i].retry_count = @ + 1]

\* Mutant: no fence.
OwnsAnything(rows, i, attempts) == i \in DOMAIN rows /\ rows[i].status = "active"

\* The fence of the three statements that end a delivery: attempts is the count
\* its worker was given at claim.
Owns(rows, i, attempts) ==
    /\ i \in DOMAIN rows
    /\ rows[i].status = "active"
    /\ rows[i].retry_count = attempts

\* Mutant: the delay is added twice.
RetryInPlaceLate(rows, i, attempts, when) ==
    IF Owns(rows, i, attempts)
    THEN [rows EXCEPT ![i].status = "queued",
                      ![i].scheduled_at = when + 1,
                      ![i].heartbeat_at = "null"]
    ELSE rows

RetryInPlace(rows, i, attempts, when) ==
    IF Owns(rows, i, attempts)
    THEN [rows EXCEPT ![i].status = "queued",
                      ![i].scheduled_at = when,
                      ![i].heartbeat_at = "null"]
    ELSE rows

MarkDead(rows, i, attempts) ==
    IF Owns(rows, i, attempts) THEN [rows EXCEPT ![i].status = "dead"] ELSE rows

CompleteMessage(rows, i, attempts) ==
    IF Owns(rows, i, attempts) THEN [rows EXCEPT ![i].status = "completed"]
    ELSE rows

\* Not fenced by attempts: it refreshes whichever attempt holds the row now.
HeartbeatMessages(rows, ids) ==
    [i \in DOMAIN rows |->
        IF i \in ids /\ rows[i].status = "active"
        THEN [rows[i] EXCEPT !.heartbeat_at = "fresh"]
        ELSE rows[i]]

Stuck(rows) == {i \in DOMAIN rows : rows[i].status = "active"
                                    /\ rows[i].heartbeat_at = "stale"}

\* S is what LIMIT 100 and SKIP LOCKED leave of the stuck rows.  One label that
\* does not cast aborts the statement.
SweepMessages(rows, S) ==
    IF \E i \in S : ~Casts(rows[i].kind.max_retries) THEN rows
    ELSE [i \in DOMAIN rows |->
            IF i \in S
            THEN [rows[i] EXCEPT !.status =
                    IF Spent(rows[i].kind, rows[i].retry_count) THEN "dead"
                    ELSE "queued"]
            ELSE rows[i]]

Completed(rows) == {i \in DOMAIN rows : rows[i].status = "completed"}

\* S are the completed rows whose expire_at passed, at most LIMIT 1000.
CleanupExpired(rows, S) == [i \in DOMAIN rows \ S |-> rows[i]]
=============================================================================
