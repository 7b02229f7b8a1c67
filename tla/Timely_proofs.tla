---------------------------- MODULE Timely_proofs ----------------------------
(***************************************************************************)
(* What Broker promises when heartbeats are on time and nothing is retried *)
(* in place, for any workers, producers, labels, faults and bounds.        *)
(***************************************************************************)
EXTENDS Broker_proofs

Timely == Punctual /\ ~RetryMiddleware

Owning == {"claimed", "running", "ended"}

\* Delivery d has its row, under a lease that is fresh.
Keeps(d) ==
    /\ Owns(rows, d.id, d.attempts)
    /\ rows[d.id].heartbeat_at = "fresh"
    /\ rows[d.id].kind = d.kind

Over(i) == i \in DOMAIN rows => rows[i].status = "completed"

\* A delivery keeps its row from the claim to its ack, and its id is listed for
\* as long as the process needs it.  Since an acked delivery's row is over, no
\* discard takes the id of another delivery.
LeasesHold ==
    \A d \in deliveries :
        /\ d.phase \notin {"retrying", "burying"}
        /\ d.phase \in Owning => Keeps(d)
        /\ d.phase \in {"running", "ended"} => d.id \in inflight[d.worker]
        /\ d.phase = "acked" => Over(d.id)

\* Only its own ack takes the row from a delivery that owns it.
LEMMA KeepsStays ==
    ASSUME TypeOK, OneHolderPerAttempt, LeasesHold, Timely, [Next]_vars,
           NEW d \in deliveries, d.phase \in Owning, ~AckComplete(d), ~AckError(d)
    PROVE  Keeps(d)'
<1> USE DEF Keeps
<1>h. /\ d.id \in DOMAIN rows /\ rows[d.id].status = "active"
      /\ rows[d.id].retry_count = d.attempts
      /\ rows[d.id].heartbeat_at = "fresh" /\ rows[d.id].kind = d.kind
  BY DEF LeasesHold, Owns
<1>t. /\ rows \in [DOMAIN rows -> Row] /\ DOMAIN inserting = Producers
      /\ \A p \in Producers : DOMAIN inserting[p] \cap DOMAIN rows = {}
      /\ deliveries \subseteq Delivery
  BY DEF TypeOK
<1>1. ASSUME NEW p \in Producers, Kick(p) PROVE Keeps(d)'
  BY <1>1, <1>h, <1>t DEF Kick, KickInsert, KickCommit, KickAbort, InsertMessage, Owns
<1>2. ASSUME NEW w \in Workers, NEW j \in DOMAIN rows, Dequeue(w, j) PROVE Keeps(d)'
  <2>1. d.id # j
    BY <1>2, <1>h DEF Dequeue, Claimable
  <2>2. QED
    BY <1>2, <1>h, <2>1 DEF Dequeue, ClaimRow, Owns
<1>3. ASSUME NEW e \in deliveries, DeliveryStep(e) PROVE Keeps(d)'
  <2>1. \/ rows' = rows
        \/ e # d /\ rows' = CompleteMessage(rows, e.id, e.attempts)
    BY <1>3 DEF DeliveryStep, Yield, LoseClaim, TaskFails, Release, ReleaseError,
       TaskEnds, AckComplete, AckDiscard, AckError, NoAck, LeasesHold
  <2>2. e # d => ~(e.id = d.id /\ Owns(rows, e.id, e.attempts))
    BY <1>h DEF Owns, OneHolderPerAttempt
  <2>3. QED
    BY <2>1, <2>2, <1>h DEF CompleteMessage, Owns
<1>4. ASSUME NEW w \in Workers, Crash(w) \/ HeartbeatList(w) \/ HeartbeatExecute(w)
      PROVE  Keeps(d)'
  BY <1>4, <1>h, <1>t DEF Crash, HeartbeatList, HeartbeatExecute, HeartbeatMessages, Owns, Row
<1>5. ASSUME NEW j \in DOMAIN rows, LeaseLapse(j) PROVE Keeps(d)'
  <2>1. d.worker \in Workers
    BY <1>t DEF Delivery
  <2>2. j # d.id
    BY <1>5, <1>h, <2>1 DEF LeaseLapse, Tended, Timely, LeasesHold, Owning
  <2>3. QED
    BY <1>5, <1>h, <2>2 DEF LeaseLapse, Owns
<1>6. ASSUME NEW j \in DOMAIN rows, BecomeDue(j) PROVE Keeps(d)'
  BY <1>6, <1>h, <1>t DEF BecomeDue, Owns
<1>7. ASSUME NEW S \in SUBSET DOMAIN rows, Sweep(S) PROVE Keeps(d)'
  BY <1>7, <1>h, <1>t DEF Sweep, SweepMessages, Stuck, Owns
<1>8. ASSUME NEW S \in SUBSET DOMAIN rows, Cleanup(S) PROVE Keeps(d)'
  BY <1>8, <1>h DEF Cleanup, CleanupExpired, Completed, Owns
<1>9. CASE UNCHANGED vars
  BY <1>9, <1>h DEF vars, Owns
<1>10. QED
  BY <1>1, <1>2, <1>3, <1>4, <1>5, <1>6, <1>7, <1>8, <1>9 DEF Next, TableStep

\* No INSERT of this id is under way, and none will be.
Drawn(i) ==
    /\ i \in 1 .. last_id
    /\ \A p \in Producers : i \notin DOMAIN inserting[p]

\* A row is inserted once, so what is over is over.
LEMMA OverStays ==
    ASSUME TypeOK, [Next]_vars, NEW i, Drawn(i), Over(i)
    PROVE  Over(i)'
<1> USE DEF Over
<1>t. rows \in [DOMAIN rows -> Row]
  BY DEF TypeOK
<1>1. ASSUME NEW p \in Producers, Kick(p) PROVE Over(i)'
  <2>1. CASE rows' = rows
    BY <2>1
  <2>2. ASSUME NEW j \in DOMAIN inserting[p], NEW when, KickCommit(p, j, when)
        PROVE  Over(i)'
    <3>1. i # j
      BY DEF Drawn
    <3>2. /\ DOMAIN rows' = DOMAIN rows \cup {j}
          /\ \A k \in DOMAIN rows \ {j} : rows'[k] = rows[k]
      BY <2>2 DEF KickCommit, InsertMessage
    <3>3. QED
      BY <3>1, <3>2
  <2>3. QED
    BY <1>1, <2>1, <2>2 DEF Kick, KickInsert, KickAbort
<1>2. ASSUME NEW w \in Workers, NEW j \in DOMAIN rows, Dequeue(w, j) PROVE Over(i)'
  BY <1>2 DEF Dequeue, Claimable, ClaimRow
<1>3. ASSUME NEW e \in deliveries, DeliveryStep(e) PROVE Over(i)'
  <2>1. rows' \in {rows} \cup Released(e) \cup {CompleteMessage(rows, e.id, e.attempts)}
    BY <1>3 DEF DeliveryStep, Yield, LoseClaim, TaskFails, Release, ReleaseError,
       TaskEnds, AckComplete, AckDiscard, AckError, NoAck
  <2>2. QED
    BY <2>1, <1>t DEF Released, RetryInPlace, MarkDead, CompleteMessage, Owns
<1>4. ASSUME NEW w \in Workers, Crash(w) \/ HeartbeatList(w) \/ HeartbeatExecute(w)
      PROVE  Over(i)'
  BY <1>4 DEF Crash, HeartbeatList, HeartbeatExecute, HeartbeatMessages
<1>5. ASSUME NEW j \in DOMAIN rows, LeaseLapse(j) \/ BecomeDue(j) PROVE Over(i)'
  BY <1>5, <1>t DEF LeaseLapse, BecomeDue
<1>6. ASSUME NEW S \in SUBSET DOMAIN rows, Sweep(S) \/ Cleanup(S) PROVE Over(i)'
  BY <1>6 DEF Sweep, SweepMessages, Stuck, Cleanup, CleanupExpired
<1>7. CASE UNCHANGED vars
  BY <1>7 DEF vars
<1>8. QED
  BY <1>1, <1>2, <1>3, <1>4, <1>5, <1>6, <1>7 DEF Next, TableStep

\* What is delivered was inserted.
LEMMA DeliveredIsDrawn ==
    ASSUME IdsDrawn, NEW d \in deliveries
    PROVE  Drawn(d.id)
BY DEF IdsDrawn, Drawn

\* LeasesHold is inductive.
LEMMA LeaseStep ==
    ASSUME TypeOK, IdsDrawn, OneHolderPerAttempt, LeasesHold, Timely, [Next]_vars
    PROVE  LeasesHold'
<1> DEFINE Fits(d) == /\ d.phase \notin {"retrying", "burying"}
                      /\ d.phase \in Owning => Keeps(d)'
                      /\ d.phase \in {"running", "ended"} => d.id \in inflight'[d.worker]
                      /\ d.phase = "acked" => Over(d.id)'
           Like(d, e) == d.worker = e.worker /\ d.id = e.id /\ d.attempts = e.attempts
                         /\ d.kind = e.kind
<1>t. /\ deliveries \subseteq Delivery /\ rows \in [DOMAIN rows -> Row]
      /\ \A d \in deliveries : d \in Delivery /\ d.worker \in Workers
      /\ inflight \in [Workers -> SUBSET Ids]
  BY DEF TypeOK, Delivery
<1>s. SUFFICES \A d \in deliveries' : Fits(d)
  BY DEF LeasesHold
<1>o. \A d \in deliveries :
         /\ d.phase \notin {"retrying", "burying"}
         /\ d.phase \in Owning /\ ~AckComplete(d) /\ ~AckError(d) => Keeps(d)'
         /\ d.phase \in {"running", "ended"} => d.id \in inflight[d.worker]
         /\ d.phase = "acked" => Over(d.id)'
  BY KeepsStays, OverStays, DeliveredIsDrawn DEF LeasesHold
<1>k. ASSUME NEW D \in SUBSET deliveries,
             \A d \in D : ~AckComplete(d) /\ ~AckError(d),
             \A d \in D : d.phase \in {"running", "ended"} /\ d.id \in inflight[d.worker]
                             => d.id \in inflight'[d.worker]
      PROVE  \A d \in D : Fits(d)
  BY <1>k, <1>o
<1>l. \A d, e : Like(d, e) /\ Keeps(e)' => Keeps(d)'
  BY DEF Keeps
<1>a. \A d \in deliveries : AckComplete(d) => d.phase = "ended" /\ Move(d, "acked") = deliveries'
  BY DEF AckComplete
<1>b. \A d \in deliveries : AckError(d) => d \notin deliveries'
  BY DEF AckError
<1>n. \A d \in deliveries : AckComplete(d) => d \notin deliveries'
  <2> SUFFICES ASSUME NEW d \in deliveries, AckComplete(d), d \in deliveries' PROVE FALSE
    OBVIOUS
  <2>1. d \in Move(d, "acked") /\ d.phase = "ended"
    BY <1>a
  <2>2. QED
    BY <2>1, <1>t, MoveFacts
<1>1. ASSUME deliveries' \subseteq deliveries, inflight' = inflight PROVE \A d \in deliveries' : Fits(d)
  BY <1>1, <1>k, <1>b, <1>n
<1>m. ASSUME NEW e \in deliveries, NEW phase, deliveries' = Move(e, phase),
             \A w \in Workers : inflight[w] \subseteq inflight'[w],
             NEW d \in deliveries'
      PROVE  \/ Like(d, e) /\ d.phase = phase
             \/ Fits(d)
  <2>1. \/ d \in deliveries
        \/ Like(d, e) /\ d.phase = phase
    BY <1>m, <1>t, MoveFacts
  <2>2. CASE d \in deliveries
    <3>1. ~AckComplete(d) /\ ~AckError(d)
      BY <2>2, <1>m, <1>b, <1>n
    <3>2. inflight[d.worker] \subseteq inflight'[d.worker]
      BY <2>2, <1>m, <1>t
    <3>3. Fits(d)
      BY <2>2, <3>1, <3>2, <1>o
    <3>4. QED
      BY <3>3
  <2>3. QED
    BY <2>1, <2>2
<1>2. ASSUME NEW w \in Workers, NEW i \in DOMAIN rows, Dequeue(w, i)
      PROVE  \A d \in deliveries' : Fits(d)
  <2>1. PICK new : /\ new = [worker |-> w, id |-> i, attempts |-> rows'[i].retry_count,
                             kind |-> rows[i].kind, phase |-> "claimed"]
                   /\ deliveries' = deliveries \cup {new}
    BY <1>2 DEF Dequeue
  <2>2. Keeps(new)'
    BY <1>2, <2>1, <1>t DEF Dequeue, ClaimRow, Keeps, Owns, Row
  <2>3. \A d \in deliveries : Fits(d)
    BY <1>2, <1>o, <1>b, <1>n, <2>1 DEF Dequeue
  <2>4. QED
    BY <2>1, <2>2, <2>3
<1>3. ASSUME NEW e \in deliveries, DeliveryStep(e) PROVE \A d \in deliveries' : Fits(d)
  <2>1. CASE Yield(e)
    <3>1. \A w \in Workers : inflight[w] \subseteq inflight'[w]
      BY <2>1, <1>t DEF Yield
    <3>2. e.phase = "claimed" /\ e.id \in inflight'[e.worker] /\ deliveries' = Move(e, "running")
      BY <2>1, <1>t DEF Yield
    <3>3. Keeps(e)'
      BY <3>2, <1>o DEF Owning, AckComplete, AckError
    <3>4. QED
      BY <3>1, <3>2, <3>3, <1>m, <1>l
  <2>2. CASE LoseClaim(e) \/ AckError(e) \/ NoAck(e)
    BY <2>2, <1>1 DEF LoseClaim, AckError, NoAck
  <2>3. CASE TaskFails(e)
    BY <2>3 DEF TaskFails, Timely
  <2>4. CASE Release(e) \/ ReleaseError(e)
    BY <2>4, <1>o DEF Release, ReleaseError
  <2>5. CASE TaskEnds(e)
    <3>1. e.phase = "running" /\ inflight' = inflight /\ deliveries' = Move(e, "ended")
      BY <2>5 DEF TaskEnds
    <3>2. Keeps(e)' /\ e.id \in inflight'[e.worker]
      BY <3>1, <1>o DEF Owning, AckComplete, AckError
    <3>3. QED
      BY <3>1, <3>2, <1>m, <1>l
  <2>6. CASE AckComplete(e)
    <3>1. e.phase = "ended" /\ inflight' = inflight /\ deliveries' = Move(e, "acked")
      BY <2>6 DEF AckComplete
    <3>2. Owns(rows, e.id, e.attempts)
      BY <3>1 DEF LeasesHold, Owning, Keeps
    <3>3. Over(e.id)'
      <4>1. rows' = [rows EXCEPT ![e.id].status = "completed"] /\ e.id \in DOMAIN rows
        BY <2>6, <3>2 DEF AckComplete, CompleteMessage, Owns
      <4>2. rows'[e.id].status = "completed"
        BY <4>1, <1>t DEF Row
      <4>3. QED
        BY <4>2 DEF Over
    <3>4. QED
      BY <3>1, <3>3, <1>m DEF Owning
  <2>7. CASE AckDiscard(e)
    <3>1. /\ e.phase = "acked" /\ deliveries' = deliveries \ {e}
          /\ inflight' = [inflight EXCEPT ![e.worker] = @ \ {e.id}]
      BY <2>7 DEF AckDiscard
    <3>2. \A d \in deliveries : d.phase \in {"running", "ended"} => d.id # e.id
      BY <3>1 DEF LeasesHold, Over, Keeps, Owns, Owning
    <3>3. QED
      BY <3>1, <3>2, <1>k, <1>b, <1>n, <1>t
  <2>8. QED
    BY <1>3, <2>1, <2>2, <2>3, <2>4, <2>5, <2>6, <2>7 DEF DeliveryStep
<1>4. ASSUME NEW w \in Workers, Crash(w) PROVE \A d \in deliveries' : Fits(d)
  <2>1. deliveries' = {d \in deliveries : d.worker # w} /\ inflight' = [inflight EXCEPT ![w] = {}]
    BY <1>4 DEF Crash
  <2>2. QED
    BY <2>1, <1>k, <1>b, <1>n, <1>t
<1>5. ASSUME \/ \E p \in Producers : Kick(p)
             \/ \E w \in Workers : HeartbeatList(w) \/ HeartbeatExecute(w)
             \/ TableStep
             \/ UNCHANGED vars
      PROVE  deliveries' \subseteq deliveries /\ inflight' = inflight
  BY <1>5 DEF Kick, KickInsert, KickCommit, KickAbort, HeartbeatList, HeartbeatExecute,
     TableStep, LeaseLapse, BecomeDue, Sweep, Cleanup, vars
<1>6. QED
  BY <1>1, <1>2, <1>3, <1>4, <1>5 DEF Next

\* So leases hold in every behaviour with heartbeats on time.
LEMMA LeasesHoldAlways == Spec => [](Timely => LeasesHold)
<1>1. Init => TypeOK /\ IdsDrawn /\ OneHolderPerAttempt /\ LeasesHold
  BY BrokerAssumption DEF Init, TypeOK, IdsDrawn, OneHolderPerAttempt, LeasesHold, Nothing, Ids
<1>2. TypeOK /\ IdsDrawn /\ OneHolderPerAttempt /\ (Timely => LeasesHold) /\ [Next]_vars
         => TypeOK' /\ IdsDrawn' /\ OneHolderPerAttempt' /\ (Timely => LeasesHold)'
  BY TypeStep, IdsStep, HolderStep, LeaseStep DEF Timely
<1>3. QED
  BY <1>1, <1>2, PTL DEF Spec

\* With heartbeats on time, _inflight_ids holds every running task's id: the
\* process keeps alive what it runs.
THEOREM RunningIsInflightHolds == Spec => [](Timely => RunningIsInflight)
<1>1. LeasesHold => RunningIsInflight
  BY DEF LeasesHold, RunningIsInflight
<1>2. QED
  BY <1>1, LeasesHoldAlways, PTL

\* With heartbeats on time, a task that ended keeps its row until its ack has
\* landed: nobody runs finished work again.
THEOREM EndedKeepsItsRowHolds == Spec => [](Timely => EndedKeepsItsRow)
<1>1. LeasesHold => EndedKeepsItsRow
  BY DEF LeasesHold, EndedKeepsItsRow, Keeps, Owning, Owns
<1>2. QED
  BY <1>1, LeasesHoldAlways, PTL
-----------------------------------------------------------------------------
\* The group mutex of the table: only a claim makes a row active, and it looks
\* at the whole group.
GroupRunsAlone ==
    \A i, j \in DOMAIN rows :
        /\ rows[i].status = "active" /\ rows[j].status = "active"
        /\ rows[i].kind.group_key = rows[j].kind.group_key
        /\ rows[i].kind.group_key # NoGroup
        => i = j

\* What was active, or is not a claim's row, stays in its group.
LEMMA AloneStep ==
    ASSUME TypeOK, GroupRunsAlone, [Next]_vars
    PROVE  GroupRunsAlone'
<1> DEFINE Calm == \A i \in DOMAIN rows' :
                      rows'[i].status = "active" =>
                         /\ i \in DOMAIN rows /\ rows[i].status = "active"
                         /\ rows'[i].kind = rows[i].kind
<1>t. rows \in [DOMAIN rows -> Row]
  BY DEF TypeOK
<1>c. Calm => GroupRunsAlone'
  BY DEF GroupRunsAlone
<1>1. ASSUME NEW p \in Producers, Kick(p) PROVE Calm
  <2>1. CASE rows' = rows
    BY <2>1
  <2>2. ASSUME NEW i, NEW when, KickCommit(p, i, when) PROVE Calm
    <3>1. /\ DOMAIN rows' = DOMAIN rows \cup {i} /\ rows'[i].status = "queued"
          /\ \A j \in DOMAIN rows \ {i} : rows'[j] = rows[j]
      BY <2>2 DEF KickCommit, InsertMessage
    <3>2. QED
      BY <3>1
  <2>3. QED
    BY <1>1, <2>1, <2>2 DEF Kick, KickInsert, KickAbort
<1>2. ASSUME NEW w \in Workers, NEW i \in DOMAIN rows, Dequeue(w, i) PROVE GroupRunsAlone'
  <2>1. /\ DOMAIN rows' = DOMAIN rows /\ rows'[i].kind = rows[i].kind
        /\ \A j \in DOMAIN rows \ {i} : rows'[j] = rows[j]
    BY <1>2, <1>t DEF Dequeue, ClaimRow, Row
  <2>2. \A j \in DOMAIN rows :
           /\ rows[j].kind.group_key = rows[i].kind.group_key
           /\ rows[i].kind.group_key # NoGroup
           => rows[j].status # "active"
    BY <1>2 DEF Dequeue, Claimable, GroupActive, InGroup
  <2>3. QED
    BY <2>1, <2>2 DEF GroupRunsAlone
<1>3. ASSUME NEW e \in deliveries, DeliveryStep(e) PROVE Calm
  <2>1. rows' \in {rows} \cup Released(e) \cup {CompleteMessage(rows, e.id, e.attempts)}
    BY <1>3 DEF DeliveryStep, Yield, LoseClaim, TaskFails, Release, ReleaseError,
       TaskEnds, AckComplete, AckDiscard, AckError, NoAck
  <2>2. QED
    BY <2>1, <1>t DEF Released, RetryInPlace, MarkDead, CompleteMessage, Owns, Row
<1>4. ASSUME NEW w \in Workers, Crash(w) \/ HeartbeatList(w) \/ HeartbeatExecute(w)
      PROVE  Calm
  BY <1>4, <1>t DEF Crash, HeartbeatList, HeartbeatExecute, HeartbeatMessages, Row
<1>5. ASSUME NEW j \in DOMAIN rows, LeaseLapse(j) \/ BecomeDue(j) PROVE Calm
  BY <1>5, <1>t DEF LeaseLapse, BecomeDue, Row
<1>6. ASSUME NEW S \in SUBSET DOMAIN rows, Sweep(S) \/ Cleanup(S) PROVE Calm
  BY <1>6, <1>t DEF Sweep, SweepMessages, Cleanup, CleanupExpired, Row
<1>7. CASE UNCHANGED vars
  BY <1>7, <1>c DEF vars
<1>8. QED
  BY <1>1, <1>2, <1>3, <1>4, <1>5, <1>6, <1>7, <1>c DEF Next, TableStep

\* With heartbeats on time, two messages that share a group_key never run at the
\* same time.
THEOREM GroupsNeverOverlapHolds == Spec => [](Timely => GroupsNeverOverlap)
<1>1. Init => GroupRunsAlone
  BY DEF Init, GroupRunsAlone, Nothing
<1>2. TypeOK /\ GroupRunsAlone /\ [Next]_vars => GroupRunsAlone'
  BY AloneStep
<1>3. LeasesHold /\ GroupRunsAlone => GroupsNeverOverlap
  BY DEF LeasesHold, GroupRunsAlone, GroupsNeverOverlap, Keeps, Owning, Owns
<1>4. QED
  BY <1>1, <1>2, <1>3, TypeCorrect, LeasesHoldAlways, PTL DEF Spec
=============================================================================
