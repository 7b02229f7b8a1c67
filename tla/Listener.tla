------------------------------ MODULE Listener ------------------------------
(***************************************************************************)
(* How a message that may be claimed comes to be claimed                   *)
(* (taskiq_pg/broker.py: kick's NOTIFY, _notification_handler, listen,     *)
(* _dequeue_message, _ensure_connection_healthy, startup).                 *)
(*                                                                         *)
(* A NOTIFY is only a hint.  It reaches the processes whose read_conn is   *)
(* alive, waits in their _queue as one token, and sends them back to the   *)
(* table.  A message that becomes claimable later (a delay, a retry, a     *)
(* sweep, its turn in a group) has no NOTIFY at all.  What a claim picks   *)
(* and what ends a delivery is Broker's and ClaimFunction's subject; here  *)
(* a message is claimable or it is not.                                    *)
(***************************************************************************)
EXTENDS Naturals, FiniteSets

CONSTANTS
    Workers,            \* worker processes
    Ids,                \* messages, each kicked once
    AttemptBound,       \* bound on the claims of one message
    FailureBound,       \* bound on the number of failures
    Faults,             \* which of the failures below may happen
    Nobody              \* holds no lock

ASSUME ListenerAssumption ==
    /\ IsFiniteSet(Ids)
    /\ AttemptBound \in Nat /\ FailureBound \in Nat
    /\ Nobody \notin Workers
    /\ Faults \subseteq {"server", "read_conn", "dequeue_conn", "notify", "crash"}

VARIABLES
    state,      \* what the table says of each message
    attempts,   \* claims of each message
    kicked,     \* how far each message's kick has come
    lock,       \* the worker whose open transaction has locked the row
    pc,         \* where each listen loop stands
    queue,      \* tokens in each _queue
    wire,       \* notifications on their way to each process
    heard,      \* is read_conn alive, and so listening?
    conn,       \* is dequeue_conn alive?
    server,     \* is PostgreSQL up?
    failures

processes == <<pc, queue, wire, heard, conn>>
table == <<state, attempts, kicked, lock>>
vars == <<state, attempts, kicked, lock, pc, queue, wire, heard, conn, server,
          failures>>

\* ready: claimable since its INSERT.  overdue: claimable since something
\* nobody was notified of.  held: queued, but not claimable yet.
States == {"none", "held", "ready", "overdue", "taken", "ended"}
Kicks == {"new", "inserted", "notified", "raised"}
Places == {"down", "check1", "claim1", "empty1", "commit1", "waiting",
           "check2", "claim2", "empty2", "commit2", "yielded"}

TypeOK ==
    /\ state \in [Ids -> States]
    /\ attempts \in [Ids -> 0 .. AttemptBound]
    /\ kicked \in [Ids -> Kicks]
    /\ lock \in [Ids -> Workers \cup {Nobody}]
    /\ pc \in [Workers -> Places]
    /\ queue \in [Workers -> 0 .. Cardinality(Ids)]
    /\ wire \in [Workers -> 0 .. Cardinality(Ids)]
    /\ heard \in [Workers -> BOOLEAN]
    /\ conn \in [Workers -> BOOLEAN]
    /\ server \in BOOLEAN
    /\ failures \in 0 .. FailureBound

\* Any process may start before or after any message is kicked.
Init ==
    /\ state = [i \in Ids |-> "none"]
    /\ attempts = [i \in Ids |-> 0]
    /\ kicked = [i \in Ids |-> "new"]
    /\ lock = [i \in Ids |-> Nobody]
    /\ pc = [w \in Workers |-> "down"]
    /\ queue = [w \in Workers |-> 0]
    /\ wire = [w \in Workers |-> 0]
    /\ heard = [w \in Workers |-> FALSE]
    /\ conn = [w \in Workers |-> FALSE]
    /\ server = TRUE
    /\ failures = 0

Claimable(i) == state[i] \in {"ready", "overdue"}
-----------------------------------------------------------------------------
(* kick: INSERT, then NOTIFY, each in a transaction of its own *)

KickInsert(i) ==
    /\ server
    /\ kicked[i] = "new"
    /\ kicked' = [kicked EXCEPT ![i] = "inserted"]
    /\ state' \in {[state EXCEPT ![i] = s] : s \in {"ready", "held"}}
    /\ UNCHANGED <<attempts, lock, processes, server, failures>>

Broadcast == [w \in Workers |-> IF heard[w] THEN wire[w] + 1 ELSE wire[w]]

KickNotify(i) ==
    /\ server
    /\ kicked[i] = "inserted"
    /\ kicked' = [kicked EXCEPT ![i] = "notified"]
    /\ wire' = Broadcast
    /\ UNCHANGED <<state, attempts, lock, pc, queue, heard, conn, server, failures>>

\* NOTIFY raises, applied or not, or the producer dies before it: the caller
\* of kick gets an error for a message that is in the table.
KickRaises(i) ==
    /\ kicked[i] = "inserted"
    /\ "notify" \in Faults \/ ~server
    /\ kicked' = [kicked EXCEPT ![i] = "raised"]
    /\ wire' \in {wire} \cup {b \in {Broadcast} : server}
    /\ UNCHANGED <<state, attempts, lock, pc, queue, heard, conn, server, failures>>
-----------------------------------------------------------------------------
(* _notification_handler *)

\* Mutant: only a loop that waits needs to be woken.
ReceiveWhenWaiting(w) ==
    /\ wire[w] > 0
    /\ wire' = [wire EXCEPT ![w] = @ - 1]
    /\ queue' = [queue EXCEPT ![w] = IF pc[w] = "waiting" THEN @ + 1 ELSE @]
    /\ UNCHANGED <<table, pc, heard, conn, server, failures>>

\* One token for every NOTIFY, whatever the loop is doing.
Receive(w) ==
    /\ wire[w] > 0
    /\ wire' = [wire EXCEPT ![w] = @ - 1]
    /\ queue' = [queue EXCEPT ![w] = @ + 1]
    /\ UNCHANGED <<table, pc, heard, conn, server, failures>>
-----------------------------------------------------------------------------
(* listen: dequeue; if there was nothing, wait and dequeue once more *)

GoTo(w, place) == pc' = [pc EXCEPT ![w] = place]

First(w) == pc[w] \in {"check1", "claim1", "empty1", "commit1"}

\* _dequeue_message returned None.
NoRow(w) == GoTo(w, IF First(w) THEN "waiting" ELSE "check1")

\* SELECT 1, and a new connection when it fails; while the server is down
\* that raises and the dequeue returns None.
Check(w) ==
    /\ pc[w] \in {"check1", "check2"}
    /\ conn' = [conn EXCEPT ![w] = @ \/ server]
    /\ IF conn'[w] THEN GoTo(w, IF First(w) THEN "claim1" ELSE "claim2")
       ELSE NoRow(w)
    /\ UNCHANGED <<table, queue, wire, heard, server, failures>>

Open(i) == Claimable(i) /\ lock[i] = Nobody

\* The claim function locks a claimable row nobody has locked.
ClaimLock(w, i) ==
    /\ pc[w] \in {"claim1", "claim2"} /\ conn[w]
    /\ Open(i) /\ attempts[i] < AttemptBound
    /\ lock' = [lock EXCEPT ![i] = w]
    /\ GoTo(w, IF First(w) THEN "commit1" ELSE "commit2")
    /\ UNCHANGED <<state, attempts, kicked, queue, wire, heard, conn, server, failures>>

\* The claim function sees no such row.
ClaimNothing(w) ==
    /\ pc[w] \in {"claim1", "claim2"} /\ conn[w]
    /\ \A i \in Ids : ~Open(i)
    /\ GoTo(w, IF First(w) THEN "empty1" ELSE "empty2")
    /\ UNCHANGED <<table, queue, wire, heard, conn, server, failures>>

\* The dequeue returns None some time after that, when its transaction has
\* ended, or when the connection fails and its locks are gone.
Return(w) ==
    /\ \/ pc[w] \in {"empty1", "empty2"}
       \/ pc[w] \in {"claim1", "claim2", "commit1", "commit2"} /\ ~conn[w]
    /\ NoRow(w)
    /\ UNCHANGED <<table, queue, wire, heard, conn, server, failures>>

\* The transaction commits and the message goes out.  It may close the way
\* for others of its group (S).
ClaimCommit(w, i, S) ==
    /\ pc[w] \in {"commit1", "commit2"} /\ conn[w]
    /\ lock[i] = w
    /\ S \subseteq {j \in Ids \ {i} : Open(j)}
    /\ state' = [j \in Ids |-> IF j = i THEN "taken"
                               ELSE IF j \in S THEN "held" ELSE state[j]]
    /\ attempts' = [attempts EXCEPT ![i] = @ + 1]
    /\ lock' = [lock EXCEPT ![i] = Nobody]
    /\ GoTo(w, "yielded")
    /\ UNCHANGED <<kicked, queue, wire, heard, conn, server, failures>>

\* Mutant: get() returns although there is nothing to get.
WakeAnyway(w) ==
    /\ pc[w] = "waiting"
    /\ queue' = [queue EXCEPT ![w] = @ - 1]
    /\ GoTo(w, "check2")
    /\ UNCHANGED <<table, wire, heard, conn, server, failures>>

Wake(w) ==
    /\ pc[w] = "waiting" /\ queue[w] > 0
    /\ queue' = [queue EXCEPT ![w] = @ - 1]
    /\ GoTo(w, "check2")
    /\ UNCHANGED <<table, wire, heard, conn, server, failures>>

\* Mutant: the loop waits for a NOTIFY and for nothing else.
TimeoutNever(w) == FALSE /\ UNCHANGED vars

\* wait_for gives up after a second; a token that comes at that very moment
\* stays in the queue.
Timeout(w) ==
    /\ pc[w] = "waiting"
    /\ GoTo(w, "check2")
    /\ UNCHANGED <<table, queue, wire, heard, conn, server, failures>>

\* The receiver asks for the next message.
Resume(w) ==
    /\ pc[w] = "yielded"
    /\ GoTo(w, "check1")
    /\ UNCHANGED <<table, queue, wire, heard, conn, server, failures>>

Listen(w) ==
    \/ Check(w) \/ ClaimNothing(w) \/ Return(w)
    \/ \E i \in Ids : ClaimLock(w, i)
    \/ \E i \in Ids, S \in SUBSET Ids : ClaimCommit(w, i, S)
    \/ Resume(w)
-----------------------------------------------------------------------------
(* deliveries and time, without a NOTIFY *)

\* A delivery ends: for good, or its row is queued again by a retry or sweep,
\* due now or later.
Deliver(i) ==
    /\ state[i] = "taken"
    /\ state' \in {[state EXCEPT ![i] = s] : s \in
           {"ended"} \cup IF attempts[i] < AttemptBound THEN {"held", "overdue"} ELSE {}}
    /\ UNCHANGED <<attempts, kicked, lock, processes, server, failures>>

\* Its delay is over, or it is its turn in the group.
BecomeClaimable(i) ==
    /\ state[i] = "held"
    /\ state' = [state EXCEPT ![i] = "overdue"]
    /\ UNCHANGED <<attempts, kicked, lock, processes, server, failures>>
-----------------------------------------------------------------------------
(* failures *)

Fail(fault) ==
    /\ fault \in Faults
    /\ failures < FailureBound
    /\ failures' = failures + 1

Unlocked(W) == [i \in Ids |-> IF lock[i] \in W THEN Nobody ELSE lock[i]]

\* read_conn is lost, with what was on its way.  Nothing opens it again.
LoseReadConn(w) ==
    /\ Fail("read_conn")
    /\ heard[w]
    /\ heard' = [heard EXCEPT ![w] = FALSE]
    /\ wire' = [wire EXCEPT ![w] = 0]
    /\ UNCHANGED <<table, pc, queue, conn, server>>

LoseDequeueConn(w) ==
    /\ Fail("dequeue_conn")
    /\ conn[w]
    /\ conn' = [conn EXCEPT ![w] = FALSE]
    /\ lock' = Unlocked({w})
    /\ UNCHANGED <<state, attempts, kicked, pc, queue, wire, heard, server>>

ServerDown ==
    /\ Fail("server")
    /\ server
    /\ server' = FALSE
    /\ heard' = [w \in Workers |-> FALSE]
    /\ wire' = [w \in Workers |-> 0]
    /\ conn' = [w \in Workers |-> FALSE]
    /\ lock' = Unlocked(Workers)
    /\ UNCHANGED <<state, attempts, kicked, pc, queue>>

ServerUp ==
    /\ ~server
    /\ server' = TRUE
    /\ UNCHANGED <<table, processes, failures>>

Crash(w) ==
    /\ Fail("crash")
    /\ pc[w] # "down"
    /\ GoTo(w, "down")
    /\ queue' = [queue EXCEPT ![w] = 0]
    /\ wire' = [wire EXCEPT ![w] = 0]
    /\ heard' = [heard EXCEPT ![w] = FALSE]
    /\ conn' = [conn EXCEPT ![w] = FALSE]
    /\ lock' = Unlocked({w})
    /\ UNCHANGED <<state, attempts, kicked, server>>

\* startup: it LISTENs before listen looks at the table for the first time.
Startup(w) ==
    /\ server
    /\ pc[w] = "down"
    /\ heard' = [heard EXCEPT ![w] = TRUE]
    /\ conn' = [conn EXCEPT ![w] = TRUE]
    /\ GoTo(w, "check1")
    /\ UNCHANGED <<table, queue, wire, server, failures>>
-----------------------------------------------------------------------------
Next ==
    \/ \E i \in Ids : KickInsert(i) \/ KickNotify(i) \/ KickRaises(i)
    \/ \E i \in Ids : Deliver(i) \/ BecomeClaimable(i)
    \/ \E w \in Workers : Receive(w) \/ Listen(w) \/ Wake(w) \/ Timeout(w)
    \/ \E w \in Workers : LoseReadConn(w) \/ LoseDequeueConn(w) \/ Crash(w)
                          \/ Startup(w)
    \/ ServerDown \/ ServerUp

Spec == Init /\ [][Next]_vars

\* A process runs its loop and its timer and is started again, the receiver
\* takes what it is given, the server comes back.  Nobody has to kick or
\* NOTIFY, no notification has to arrive, and nothing has to fail.
Fairness ==
    /\ \A w \in Workers : /\ WF_vars(Listen(w))
                          /\ WF_vars(Timeout(w))
                          /\ WF_vars(Startup(w))
    /\ WF_vars(ServerUp)

FairSpec == Spec /\ Fairness
-----------------------------------------------------------------------------
\* A loop with no token left does not sleep over a message it was notified of:
\* every token sends it to the table after the INSERT it stands for, and a token
\* that comes between an empty dequeue and the wait is kept.  Holds until a
\* connection, the server or a process fails: a dequeue that fails uses up a
\* token in vain, and a LISTEN that is lost brings none.
NoLostWakeup ==
    failures = 0 =>
        \A w \in Workers, i \in Ids :
            pc[w] = "waiting" /\ queue[w] = 0 /\ wire[w] = 0
            => ~(kicked[i] = "notified" /\ state[i] = "ready" /\ lock[i] = Nobody)

\* A message that may be claimed is claimed, or loses its turn to another of
\* its group, although its NOTIFY was never sent, missed or used up by a
\* dequeue that failed, although a rival locked its row and rolled back, and
\* although nobody hears notifications any more.
NothingIsOverslept == \A i \in Ids : Claimable(i) ~> ~Claimable(i)
=============================================================================
