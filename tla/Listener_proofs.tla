--------------------------- MODULE Listener_proofs ---------------------------
(***************************************************************************)
(* Theorems about Listener, for any number of processes and messages, any  *)
(* faults and any bounds.                                                  *)
(*                                                                         *)
(* A process holds at most one token for every NOTIFY that was sent        *)
(* (OneTokenEach), which bounds its queue.  As long as nothing has failed, *)
(* every process past its startup listens and has its connection           *)
(* (NothingFailed), so every NOTIFY reaches it; and a dequeue that found   *)
(* nothing ran before the NOTIFY of a row that was inserted ready and that *)
(* nobody has locked (WokenByToken), so its token is still to come.        *)
(***************************************************************************)
EXTENDS Listener, FiniteSetTheorems, TLAPS

\* The messages of which a NOTIFY may have been sent.
Sent == {i \in Ids : kicked[i] \in {"notified", "raised"}}

OneTokenEach ==
    /\ queue \in [Workers -> Nat] /\ wire \in [Workers -> Nat]
    /\ \A w \in Workers : queue[w] + wire[w] <= Cardinality(Sent)

\* A claim that is open counts one more attempt when it commits.
LockIsCounted == \A i \in Ids : lock[i] \in Workers => attempts[i] < AttemptBound

NothingFailed ==
    failures = 0 => /\ server
                    /\ \A w \in Workers : pc[w] # "down" => heard[w] /\ conn[w]

\* A row that a NOTIFY announced, that is claimable since its INSERT, and that
\* no open transaction has locked.
Announced(i) == kicked[i] = "notified" /\ state[i] = "ready" /\ lock[i] = Nobody

\* Already when the dequeue has found nothing, and not only once it waits.
WokenByToken ==
    failures = 0 =>
        \A w \in Workers, i \in Ids :
            pc[w] \in {"empty1", "waiting"} /\ Announced(i) => queue[w] + wire[w] > 0

\* TypeOK but for the bounds of the two counters of tokens.
Typed ==
    /\ state \in [Ids -> States]
    /\ attempts \in [Ids -> 0 .. AttemptBound]
    /\ kicked \in [Ids -> Kicks]
    /\ lock \in [Ids -> Workers \cup {Nobody}]
    /\ pc \in [Workers -> Places]
    /\ heard \in [Workers -> BOOLEAN]
    /\ conn \in [Workers -> BOOLEAN]
    /\ server \in BOOLEAN
    /\ failures \in 0 .. FailureBound

Inv == Typed /\ OneTokenEach /\ LockIsCounted /\ NothingFailed /\ WokenByToken
-----------------------------------------------------------------------------
\* Initially no process runs and nothing has been kicked.
LEMMA InitInv == Init => Inv
<1> SUFFICES ASSUME Init PROVE Inv
  OBVIOUS
<1>1. Cardinality(Sent) = 0
  <2>1. Sent = {}
    BY DEF Init, Sent
  <2>2. QED
    BY <2>1, FS_EmptySet
<1>2. QED
  BY <1>1, ListenerAssumption DEF Init, Inv, Typed, States, Kicks, Places, OneTokenEach,
     LockIsCounted, NothingFailed, WokenByToken

\* Every action keeps the variables to their kinds; a claim that commits was
\* counted when it locked its row.
LEMMA TypedStep == Typed /\ LockIsCounted /\ [Next]_vars => Typed' /\ LockIsCounted'
<1> SUFFICES ASSUME Typed, LockIsCounted, [Next]_vars PROVE Typed' /\ LockIsCounted'
  OBVIOUS
<1> USE ListenerAssumption DEF Typed, LockIsCounted, States, Kicks, Places, GoTo, table,
    processes
<1>1. ASSUME NEW i \in Ids, KickInsert(i) PROVE Typed' /\ LockIsCounted'
  BY <1>1 DEF KickInsert
<1>2. ASSUME NEW i \in Ids, KickNotify(i) PROVE Typed' /\ LockIsCounted'
  BY <1>2 DEF KickNotify, Broadcast
<1>3. ASSUME NEW i \in Ids, KickRaises(i) PROVE Typed' /\ LockIsCounted'
  BY <1>3 DEF KickRaises, Broadcast
<1>4. ASSUME NEW i \in Ids, Deliver(i) PROVE Typed' /\ LockIsCounted'
  BY <1>4 DEF Deliver
<1>5. ASSUME NEW i \in Ids, BecomeClaimable(i) PROVE Typed' /\ LockIsCounted'
  BY <1>5 DEF BecomeClaimable
<1>6. ASSUME NEW w \in Workers, Receive(w) PROVE Typed' /\ LockIsCounted'
  BY <1>6 DEF Receive
<1>7. ASSUME NEW w \in Workers, Check(w) PROVE Typed' /\ LockIsCounted'
  BY <1>7 DEF Check, NoRow, First
<1>8. ASSUME NEW w \in Workers, ClaimNothing(w) PROVE Typed' /\ LockIsCounted'
  BY <1>8 DEF ClaimNothing, First
<1>9. ASSUME NEW w \in Workers, Return(w) PROVE Typed' /\ LockIsCounted'
  BY <1>9 DEF Return, NoRow, First
<1>10. ASSUME NEW w \in Workers, NEW i \in Ids, ClaimLock(w, i) PROVE Typed' /\ LockIsCounted'
  BY <1>10 DEF ClaimLock, Open, First
<1>11. ASSUME NEW w \in Workers, NEW i \in Ids, NEW S \in SUBSET Ids, ClaimCommit(w, i, S) PROVE Typed' /\ LockIsCounted'
  BY <1>11 DEF ClaimCommit, Open
<1>12. ASSUME NEW w \in Workers, Resume(w) PROVE Typed' /\ LockIsCounted'
  BY <1>12 DEF Resume
<1>13. ASSUME NEW w \in Workers, Wake(w) PROVE Typed' /\ LockIsCounted'
  BY <1>13 DEF Wake
<1>14. ASSUME NEW w \in Workers, Timeout(w) PROVE Typed' /\ LockIsCounted'
  BY <1>14 DEF Timeout
<1>15. ASSUME NEW w \in Workers, LoseReadConn(w) PROVE Typed' /\ LockIsCounted'
  BY <1>15 DEF LoseReadConn, Fail
<1>16. ASSUME NEW w \in Workers, LoseDequeueConn(w) PROVE Typed' /\ LockIsCounted'
  BY <1>16 DEF LoseDequeueConn, Fail, Unlocked
<1>17. ASSUME NEW w \in Workers, Crash(w) PROVE Typed' /\ LockIsCounted'
  BY <1>17 DEF Crash, Fail, Unlocked
<1>18. ASSUME NEW w \in Workers, Startup(w) PROVE Typed' /\ LockIsCounted'
  BY <1>18 DEF Startup
<1>19. CASE ServerDown
  <2>1. lock' \in [Ids -> Workers \cup {Nobody}] /\ \A i \in Ids : lock'[i] = Nobody
    BY <1>19 DEF ServerDown, Unlocked
  <2>2. heard' \in [Workers -> BOOLEAN] /\ conn' \in [Workers -> BOOLEAN] /\ server' = FALSE
    BY <1>19 DEF ServerDown
  <2>3. failures' \in 0 .. FailureBound
    BY <1>19 DEF ServerDown, Fail
  <2>4. UNCHANGED <<state, attempts, kicked, pc>>
    BY <1>19 DEF ServerDown
  <2>5. QED
    BY <2>1, <2>2, <2>3, <2>4
<1>20. CASE ServerUp
  BY <1>20 DEF ServerUp
<1>21. CASE UNCHANGED vars
  BY <1>21 DEF vars
<1>22. QED
  BY <1>1, <1>2, <1>3, <1>4, <1>5, <1>6, <1>7, <1>8, <1>9, <1>10, <1>11, <1>12,
     <1>13, <1>14, <1>15, <1>16, <1>17, <1>18, <1>19, <1>20, <1>21 DEF Next, Listen

\* As long as nothing fails, a process that has started hears every NOTIFY and
\* has the connection its dequeues need.
LEMMA NothingFailedStep == Typed /\ NothingFailed /\ [Next]_vars => NothingFailed'
<1> SUFFICES ASSUME Typed, NothingFailed, [Next]_vars PROVE NothingFailed'
  OBVIOUS
<1> USE ListenerAssumption DEF Typed, NothingFailed, Places, GoTo, table, processes
<1>1. ASSUME NEW i \in Ids, KickInsert(i) PROVE NothingFailed'
  BY <1>1 DEF KickInsert
<1>2. ASSUME NEW i \in Ids, KickNotify(i) PROVE NothingFailed'
  BY <1>2 DEF KickNotify, Broadcast
<1>3. ASSUME NEW i \in Ids, KickRaises(i) PROVE NothingFailed'
  BY <1>3 DEF KickRaises, Broadcast
<1>4. ASSUME NEW i \in Ids, Deliver(i) PROVE NothingFailed'
  BY <1>4 DEF Deliver
<1>5. ASSUME NEW i \in Ids, BecomeClaimable(i) PROVE NothingFailed'
  BY <1>5 DEF BecomeClaimable
<1>6. ASSUME NEW w \in Workers, Receive(w) PROVE NothingFailed'
  BY <1>6 DEF Receive
<1>7. ASSUME NEW w \in Workers, Check(w) PROVE NothingFailed'
  BY <1>7 DEF Check, NoRow, First
<1>8. ASSUME NEW w \in Workers, ClaimNothing(w) PROVE NothingFailed'
  BY <1>8 DEF ClaimNothing, First
<1>9. ASSUME NEW w \in Workers, Return(w) PROVE NothingFailed'
  BY <1>9 DEF Return, NoRow, First
<1>10. ASSUME NEW w \in Workers, NEW i \in Ids, ClaimLock(w, i) PROVE NothingFailed'
  BY <1>10 DEF ClaimLock, Open, First
<1>11. ASSUME NEW w \in Workers, NEW i \in Ids, NEW S \in SUBSET Ids, ClaimCommit(w, i, S) PROVE NothingFailed'
  BY <1>11 DEF ClaimCommit, Open
<1>12. ASSUME NEW w \in Workers, Resume(w) PROVE NothingFailed'
  BY <1>12 DEF Resume
<1>13. ASSUME NEW w \in Workers, Wake(w) PROVE NothingFailed'
  BY <1>13 DEF Wake
<1>14. ASSUME NEW w \in Workers, Timeout(w) PROVE NothingFailed'
  BY <1>14 DEF Timeout
<1>15. ASSUME NEW w \in Workers, LoseReadConn(w) PROVE NothingFailed'
  BY <1>15 DEF LoseReadConn, Fail
<1>16. ASSUME NEW w \in Workers, LoseDequeueConn(w) PROVE NothingFailed'
  BY <1>16 DEF LoseDequeueConn, Fail, Unlocked
<1>17. ASSUME NEW w \in Workers, Crash(w) PROVE NothingFailed'
  BY <1>17 DEF Crash, Fail, Unlocked
<1>18. ASSUME NEW w \in Workers, Startup(w) PROVE NothingFailed'
  BY <1>18 DEF Startup
<1>19. CASE ServerDown
  BY <1>19 DEF ServerDown, Fail, Unlocked
<1>20. CASE ServerUp
  BY <1>20 DEF ServerUp
<1>21. CASE UNCHANGED vars
  BY <1>21 DEF vars
<1>22. QED
  BY <1>1, <1>2, <1>3, <1>4, <1>5, <1>6, <1>7, <1>8, <1>9, <1>10, <1>11, <1>12,
     <1>13, <1>14, <1>15, <1>16, <1>17, <1>18, <1>19, <1>20, <1>21 DEF Next, Listen
-----------------------------------------------------------------------------
\* A NOTIFY is sent once for a message, and the messages are finitely many.
LEMMA SentIsFinite == IsFiniteSet(Sent) /\ Cardinality(Sent) \in Nat
<1>1. IsFiniteSet(Sent)
  BY FS_Subset, ListenerAssumption DEF Sent
<1>2. QED
  BY <1>1, FS_CardinalityType

\* The NOTIFY of a message, however it ends, adds it to those that were sent.
LEMMA SentGrows ==
    ASSUME Typed, NEW i \in Ids, kicked[i] = "inserted",
           NEW k \in {"notified", "raised"}, kicked' = [kicked EXCEPT ![i] = k]
    PROVE  Cardinality(Sent') = Cardinality(Sent) + 1
<1>1. Sent' = Sent \cup {i} /\ i \notin Sent
  BY DEF Sent, Typed
<1>2. QED
  BY <1>1, SentIsFinite, FS_AddElement

\* Only the two ways a NOTIFY ends change the set of messages it was sent for.
LEMMA SentStep ==
    ASSUME Typed, [Next]_vars, \A i \in Ids : ~KickNotify(i) /\ ~KickRaises(i)
    PROVE  Sent' = Sent
<1> USE DEF Sent, Typed, table, processes
<1>1. ASSUME NEW i \in Ids, KickInsert(i) PROVE Sent' = Sent
  BY <1>1 DEF KickInsert
<1>2. ASSUME kicked' = kicked PROVE Sent' = Sent
  BY <1>2
<1>3. QED
  BY <1>1, <1>2 DEF Next, Listen, vars, Deliver, BecomeClaimable, Receive, Check, ClaimNothing,
     Return, ClaimLock, ClaimCommit, Resume, Wake, Timeout, LoseReadConn, LoseDequeueConn, Crash,
     Startup, ServerDown, ServerUp

\* One NOTIFY puts at most one token on its way to each process; receiving it
\* moves it, and waking up uses it up.
LEMMA TokensStep == Typed /\ OneTokenEach /\ [Next]_vars => OneTokenEach'
<1> SUFFICES ASSUME Typed, OneTokenEach, [Next]_vars PROVE OneTokenEach'
  OBVIOUS
<1> DEFINE N == Cardinality(Sent)
<1>n. N \in Nat
  BY SentIsFinite
<1> HIDE DEF N
<1>1. ASSUME NEW i \in Ids, KickNotify(i) \/ KickRaises(i) PROVE OneTokenEach'
  <2>1. N' = N + 1
    BY <1>1, SentGrows DEF KickNotify, KickRaises, N
  <2>2. queue' = queue /\ (wire' = wire \/ wire' = Broadcast)
    BY <1>1 DEF KickNotify, KickRaises
  <2>3. wire' \in [Workers -> Nat] /\ \A w \in Workers : wire'[w] <= wire[w] + 1
    BY <2>2 DEF Broadcast, OneTokenEach
  <2>4. ASSUME NEW w \in Workers PROVE queue'[w] + wire'[w] <= N'
    <3>1. /\ queue[w] \in Nat /\ wire[w] \in Nat /\ wire'[w] \in Nat /\ queue'[w] = queue[w]
          /\ queue[w] + wire[w] <= N
      BY <2>2, <2>3 DEF OneTokenEach, N
    <3>2. wire'[w] <= wire[w] + 1
      BY <2>3
    <3>3. QED
      BY <3>1, <3>2, <2>1, <1>n
  <2>5. QED
    BY <2>2, <2>3, <2>4 DEF OneTokenEach, N
<1>2. CASE \A i \in Ids : ~KickNotify(i) /\ ~KickRaises(i)
  <2>1. N' = N
    BY <1>2, SentStep DEF N
  <2>o. /\ queue \in [Workers -> Nat] /\ wire \in [Workers -> Nat]
        /\ \A w \in Workers : queue[w] + wire[w] <= N
    BY DEF OneTokenEach, N
  <2>2. SUFFICES /\ queue' \in [Workers -> Nat] /\ wire' \in [Workers -> Nat]
                 /\ \A w \in Workers : queue'[w] + wire'[w] <= queue[w] + wire[w]
    <3>1. ASSUME NEW w \in Workers PROVE queue'[w] + wire'[w] <= N'
      <4>1. /\ queue'[w] \in Nat /\ wire'[w] \in Nat /\ queue[w] \in Nat /\ wire[w] \in Nat
            /\ queue'[w] + wire'[w] <= queue[w] + wire[w] /\ queue[w] + wire[w] <= N
        BY <2>2, <2>o
      <4>2. QED
        BY <4>1, <2>1, <1>n
    <3>2. QED
      BY <3>1, <2>2 DEF OneTokenEach, N
  <2> DEFINE Fewer == /\ queue' \in [Workers -> Nat] /\ wire' \in [Workers -> Nat]
                      /\ \A w \in Workers : queue'[w] + wire'[w] <= queue[w] + wire[w]
  <2>3. ASSUME NEW w \in Workers, Receive(w) PROVE Fewer
    BY <2>3, <2>o DEF Receive
  <2>4. ASSUME NEW w \in Workers, Wake(w) PROVE Fewer
    BY <2>4, <2>o DEF Wake
  <2>5. ASSUME NEW w \in Workers, LoseReadConn(w) PROVE Fewer
    BY <2>5, <2>o DEF LoseReadConn
  <2>6. ASSUME NEW w \in Workers, Crash(w) PROVE Fewer
    BY <2>6, <2>o DEF Crash
  <2>7. CASE ServerDown
    BY <2>7, <2>o DEF ServerDown
  <2>8. CASE UNCHANGED <<queue, wire>>
    BY <2>8, <2>o
  <2>9. QED
    BY <1>2, <2>3, <2>4, <2>5, <2>6, <2>7, <2>8 DEF Next, Listen, vars, table, processes,
       KickInsert, Deliver, BecomeClaimable, Check, ClaimNothing, Return, ClaimLock, ClaimCommit,
       Resume, Timeout, LoseDequeueConn, Startup, ServerUp
<1>3. QED
  BY <1>1, <1>2
-----------------------------------------------------------------------------
\* A row becomes announced only by its own NOTIFY: a lock is given up without a
\* claim only where something fails, and no row is ready again once it was claimed.
LEMMA AnnouncedStep ==
    ASSUME Typed, [Next]_vars, failures' = 0, NEW i \in Ids, Announced(i)', ~Announced(i)
    PROVE  KickNotify(i)
<1> USE DEF Typed, Announced, table, processes
<1>1. ASSUME NEW j \in Ids, KickInsert(j) PROVE FALSE
  BY <1>1 DEF KickInsert
<1>2. ASSUME NEW j \in Ids, KickNotify(j) PROVE KickNotify(i)
  BY <1>2 DEF KickNotify
<1>3. ASSUME NEW j \in Ids, KickRaises(j) PROVE FALSE
  BY <1>3 DEF KickRaises
<1>4. ASSUME NEW j \in Ids, Deliver(j) \/ BecomeClaimable(j) PROVE FALSE
  BY <1>4 DEF Deliver, BecomeClaimable
<1>5. ASSUME NEW w \in Workers, NEW j \in Ids, ClaimLock(w, j) PROVE FALSE
  BY <1>5, ListenerAssumption DEF ClaimLock
<1>6. ASSUME NEW w \in Workers, NEW j \in Ids, NEW S \in SUBSET Ids, ClaimCommit(w, j, S)
      PROVE  FALSE
  BY <1>6 DEF ClaimCommit, Open
<1>7. ASSUME NEW fault, Fail(fault) PROVE FALSE
  BY <1>7 DEF Fail
<1>8. CASE UNCHANGED <<state, kicked, lock>>
  BY <1>8
<1>9. QED
  BY <1>1, <1>2, <1>3, <1>4, <1>5, <1>6, <1>7, <1>8 DEF Next, Listen, vars, Receive, Check,
     ClaimNothing, Return, Resume, Wake, Timeout, LoseReadConn, LoseDequeueConn, Crash, Startup,
     ServerDown, ServerUp

\* While nothing fails a loop reaches its wait from an empty dequeue only, and
\* a dequeue is empty only when no announced row is there.
LEMMA RestStep ==
    ASSUME Typed, NothingFailed, [Next]_vars, failures' = 0, NEW w \in Workers,
           pc'[w] \in {"empty1", "waiting"}
    PROVE  pc[w] \in {"empty1", "waiting"} \/ \A i \in Ids : ~Announced(i)
<1> USE DEF Typed, NothingFailed, GoTo, table, processes
<1>1. ASSUME NEW v \in Workers, Check(v) PROVE pc[w] \in {"empty1", "waiting"}
  BY <1>1 DEF Check, NoRow, First
<1>2. ASSUME NEW v \in Workers, ClaimNothing(v)
      PROVE  pc[w] \in {"empty1", "waiting"} \/ \A i \in Ids : ~Announced(i)
  BY <1>2 DEF ClaimNothing, Open, Claimable, Announced
<1>3. ASSUME NEW v \in Workers, Return(v) PROVE pc[w] \in {"empty1", "waiting"}
  BY <1>3 DEF Return, NoRow, First
<1>4. ASSUME NEW v \in Workers, NEW i \in Ids, ClaimLock(v, i)
      PROVE  pc[w] \in {"empty1", "waiting"}
  BY <1>4 DEF ClaimLock
<1>5. ASSUME NEW v \in Workers, NEW i \in Ids, NEW S \in SUBSET Ids, ClaimCommit(v, i, S)
      PROVE  pc[w] \in {"empty1", "waiting"}
  BY <1>5 DEF ClaimCommit
<1>6. ASSUME NEW v \in Workers, Resume(v) \/ Wake(v) \/ Timeout(v) \/ Startup(v)
      PROVE  pc[w] \in {"empty1", "waiting"}
  BY <1>6 DEF Resume, Wake, Timeout, Startup
<1>7. ASSUME NEW fault, Fail(fault) PROVE FALSE
  BY <1>7 DEF Fail
<1>8. CASE UNCHANGED pc
  BY <1>8
<1>9. QED
  BY <1>1, <1>2, <1>3, <1>4, <1>5, <1>6, <1>7, <1>8 DEF Next, Listen, vars, KickInsert,
     KickNotify, KickRaises, Deliver, BecomeClaimable, Receive, LoseReadConn, LoseDequeueConn,
     Crash, ServerDown, ServerUp

\* A loop at rest loses no token.
LEMMA TokensStay ==
    ASSUME Typed, OneTokenEach, [Next]_vars, failures' = 0, NEW w \in Workers,
           pc'[w] \in {"empty1", "waiting"}
    PROVE  queue'[w] + wire'[w] >= queue[w] + wire[w]
<1> USE DEF Typed, OneTokenEach, GoTo, table, processes
<1>1. ASSUME NEW i \in Ids, KickNotify(i) \/ KickRaises(i)
      PROVE  queue'[w] + wire'[w] >= queue[w] + wire[w]
  BY <1>1 DEF KickNotify, KickRaises, Broadcast
<1>2. ASSUME NEW v \in Workers, Receive(v) PROVE queue'[w] + wire'[w] >= queue[w] + wire[w]
  BY <1>2 DEF Receive
<1>3. ASSUME NEW v \in Workers, Wake(v) PROVE queue'[w] + wire'[w] >= queue[w] + wire[w]
  BY <1>3 DEF Wake
<1>4. ASSUME NEW fault, Fail(fault) PROVE FALSE
  BY <1>4 DEF Fail
<1>5. CASE UNCHANGED <<queue, wire>>
  BY <1>5
<1>6. QED
  BY <1>1, <1>2, <1>3, <1>4, <1>5 DEF Next, Listen, vars, KickInsert, Deliver,
     BecomeClaimable, Check, ClaimNothing, Return, ClaimLock, ClaimCommit, Resume, Timeout,
     Startup, LoseReadConn, LoseDequeueConn, Crash, ServerDown, ServerUp

\* The NOTIFY of a row leaves a token for every loop that rests, and that token
\* is there until the loop is back at the table.
LEMMA WokenStep ==
    Typed /\ OneTokenEach /\ NothingFailed /\ WokenByToken /\ [Next]_vars => WokenByToken'
<1> SUFFICES ASSUME Typed, OneTokenEach, NothingFailed, WokenByToken, [Next]_vars,
                    failures' = 0, NEW w \in Workers, NEW i \in Ids,
                    pc'[w] \in {"empty1", "waiting"}, Announced(i)'
             PROVE  queue'[w] + wire'[w] > 0
  BY DEF WokenByToken
<1>0. failures = 0
  <2>1. failures' = failures \/ \E fault : Fail(fault)
    BY DEF Next, Listen, vars, KickInsert, KickNotify, KickRaises, Deliver, BecomeClaimable,
       Receive, Check, ClaimNothing, Return, ClaimLock, ClaimCommit, Resume, Wake, Timeout,
       Startup, LoseReadConn, LoseDequeueConn, Crash, ServerDown, ServerUp
  <2>2. QED
    BY <2>1 DEF Fail, Typed
<1>t. /\ queue[w] \in Nat /\ wire[w] \in Nat /\ queue'[w] \in Nat /\ wire'[w] \in Nat
  BY TokensStep DEF OneTokenEach
<1>1. CASE ~Announced(i)
  <2>1. KickNotify(i)
    BY <1>1, AnnouncedStep
  <2>2. pc[w] # "down" /\ heard[w]
    BY <2>1, <1>0 DEF KickNotify, NothingFailed
  <2>3. wire'[w] = wire[w] + 1 /\ queue'[w] = queue[w]
    BY <2>1, <2>2 DEF KickNotify, Broadcast
  <2>4. QED
    BY <2>3, <1>t
<1>2. CASE Announced(i)
  <2>1. pc[w] \in {"empty1", "waiting"}
    BY <1>2, RestStep
  <2>2. queue[w] + wire[w] > 0
    BY <1>0, <1>2, <2>1 DEF WokenByToken
  <2>3. queue'[w] + wire'[w] >= queue[w] + wire[w]
    BY TokensStay
  <2>4. QED
    BY <2>2, <2>3, <1>t
<1>3. QED
  BY <1>1, <1>2
-----------------------------------------------------------------------------
\* The invariant of the listening processes is inductive.
LEMMA InvHolds == Spec => []Inv
<1>1. Inv /\ [Next]_vars => Inv'
  BY TypedStep, TokensStep, NothingFailedStep, WokenStep DEF Inv
<1>2. QED
  BY <1>1, InitInv, PTL DEF Spec

\* Tables, loops and connections stay of their kinds, and no process ever holds
\* or awaits more tokens than messages were kicked.
THEOREM TypeCorrect == Spec => []TypeOK
<1>1. Inv => TypeOK
  <2> SUFFICES ASSUME Inv PROVE TypeOK
    OBVIOUS
  <2>1. Cardinality(Sent) <= Cardinality(Ids) /\ Cardinality(Ids) \in Nat
    BY FS_Subset, FS_CardinalityType, ListenerAssumption DEF Sent
  <2>2. Cardinality(Sent) \in Nat
    BY SentIsFinite
  <2>3. ASSUME NEW w \in Workers
        PROVE  queue[w] \in 0 .. Cardinality(Ids) /\ wire[w] \in 0 .. Cardinality(Ids)
    <3>1. /\ queue[w] \in Nat /\ wire[w] \in Nat /\ queue[w] + wire[w] <= Cardinality(Sent)
      BY DEF Inv, OneTokenEach
    <3>2. QED
      BY <3>1, <2>1, <2>2
  <2>4. /\ queue \in [Workers -> 0 .. Cardinality(Ids)]
        /\ wire \in [Workers -> 0 .. Cardinality(Ids)]
    BY <2>3 DEF Inv, OneTokenEach
  <2>5. QED
    BY <2>4 DEF Inv, Typed, TypeOK
<1>2. QED
  BY <1>1, InvHolds, PTL

\* While nothing has failed, no listen loop waits without a token over a message
\* whose NOTIFY was sent, that was claimable from its INSERT, and that nobody
\* has locked: a token never gets lost between an empty dequeue and the wait.
THEOREM NoLostWakeupHolds == Spec => []NoLostWakeup
<1>1. Inv => NoLostWakeup
  <2> SUFFICES ASSUME Inv, failures = 0, NEW w \in Workers, NEW i \in Ids,
                      pc[w] = "waiting", queue[w] = 0, wire[w] = 0, Announced(i)
               PROVE  FALSE
    BY DEF NoLostWakeup, Announced
  <2>1. queue[w] + wire[w] > 0
    BY DEF Inv, WokenByToken
  <2>2. QED
    BY <2>1
<1>2. QED
  BY <1>1, InvHolds, PTL
=============================================================================
