---------------------------- MODULE Broker_proofs ----------------------------
(***************************************************************************)
(* Theorems about Broker, for any workers, producers and kinds of message, *)
(* any faults and any bounds.                                              *)
(***************************************************************************)
EXTENDS Broker, TLAPS

\* Every statement makes a well-formed table of a well-formed table.
LEMMA StatementsKeepRows ==
    ASSUME NEW t, t \in [DOMAIN t -> Row], NEW i \in DOMAIN t, NEW a \in Nat,
           NEW when \in {0, 1}, NEW S \in SUBSET DOMAIN t
    PROVE  /\ ClaimRow(t, i) \in [DOMAIN t -> Row]
           /\ RetryInPlace(t, i, a, when) \in [DOMAIN t -> Row]
           /\ MarkDead(t, i, a) \in [DOMAIN t -> Row]
           /\ CompleteMessage(t, i, a) \in [DOMAIN t -> Row]
           /\ HeartbeatMessages(t, S) \in [DOMAIN t -> Row]
           /\ SweepMessages(t, S) \in [DOMAIN t -> Row]
           /\ CleanupExpired(t, S) \in [DOMAIN t \ S -> Row]
<1> DEFINE D == DOMAIN t
<1> USE DEF Row, MessageStatus, HeartbeatAges
<1>1. ClaimRow(t, i) \in [D -> Row]
  <2>1. t[i] \in Row
    OBVIOUS
  <2>2. t[i].retry_count + 1 \in Nat
    BY <2>1
  <2>3. [t[i] EXCEPT !.status = "active", !.heartbeat_at = "fresh",
                     !.retry_count = @ + 1] \in Row
    BY <2>1, <2>2
  <2>4. ClaimRow(t, i) =
           [t EXCEPT ![i] = [t[i] EXCEPT !.status = "active", !.heartbeat_at = "fresh",
                                         !.retry_count = @ + 1]]
    BY DEF ClaimRow
  <2>5. QED
    BY <2>3, <2>4
<1>2. RetryInPlace(t, i, a, when) \in [D -> Row]
  <2>1. t[i] \in Row
    OBVIOUS
  <2>2. [t[i] EXCEPT !.status = "queued", !.scheduled_at = when,
                     !.heartbeat_at = "null"] \in Row
    BY <2>1
  <2>3. RetryInPlace(t, i, a, when) =
           IF Owns(t, i, a)
           THEN [t EXCEPT ![i] = [t[i] EXCEPT !.status = "queued",
                                              !.scheduled_at = when,
                                              !.heartbeat_at = "null"]]
           ELSE t
    BY DEF RetryInPlace
  <2>4. QED
    BY <2>2, <2>3
<1>3. MarkDead(t, i, a) \in [D -> Row]
  BY DEF MarkDead
<1>4. CompleteMessage(t, i, a) \in [D -> Row]
  BY DEF CompleteMessage
<1>5. HeartbeatMessages(t, S) \in [D -> Row]
  BY DEF HeartbeatMessages
<1>6. SweepMessages(t, S) \in [D -> Row]
  BY DEF SweepMessages
<1>7. CleanupExpired(t, S) \in [D \ S -> Row]
  BY DEF CleanupExpired
<1>8. QED
  BY <1>1, <1>2, <1>3, <1>4, <1>5, <1>6, <1>7

\* A delivery moves on: one record changes its phase, the rest stay.
LEMMA MoveFacts ==
    ASSUME NEW d \in deliveries, NEW phase, deliveries \subseteq Delivery,
           NEW e \in Move(d, phase)
    PROVE  \/ e \in deliveries /\ e # d
           \/ /\ e.worker = d.worker /\ e.id = d.id /\ e.attempts = d.attempts
              /\ e.kind = d.kind /\ e.phase = phase
BY DEF Move, Delivery

\* A delivery that moves on stays a delivery.
LEMMA MoveKeepsType ==
    ASSUME NEW d \in deliveries, NEW phase \in Phases, deliveries \subseteq Delivery
    PROVE  Move(d, phase) \subseteq Delivery
BY DEF Move, Delivery
-----------------------------------------------------------------------------
\* An id is drawn once: rows and deliveries have ids that were drawn, and an
\* id whose INSERT is under way belongs to one producer and to nothing else.
IdsDrawn ==
    /\ DOMAIN rows \subseteq 1 .. last_id
    /\ \A d \in deliveries : d.id \in 1 .. last_id
    /\ \A p \in Producers : \A i \in DOMAIN inserting[p] :
          /\ \A d \in deliveries : d.id # i
          /\ \A q \in Producers : i \in DOMAIN inserting[q] => q = p

\* No statement but the claim changes a count, and none adds a row.
KeepsCounts(t, r) ==
    /\ DOMAIN r \subseteq DOMAIN t
    /\ \A j \in DOMAIN r : r[j].retry_count = t[j].retry_count

\* Most steps end, requeue or refresh rows, and move or drop deliveries.
SameCounts == KeepsCounts(rows, rows')

Survivors ==
    \/ deliveries' \subseteq deliveries
    \/ \E d \in deliveries, phase \in Phases : deliveries' = Move(d, phase)

PendingShrinks ==
    \A p \in Producers : DOMAIN inserting'[p] \subseteq DOMAIN inserting[p]

Quiet == SameCounts /\ Survivors /\ PendingShrinks /\ last_id' = last_id

\* A release keeps the claim count of every row.
LEMMA RetryKeepsCounts ==
    ASSUME NEW t, t \in [DOMAIN t -> Row], NEW i, NEW a, NEW when
    PROVE  KeepsCounts(t, RetryInPlace(t, i, a, when))
BY DEF KeepsCounts, RetryInPlace, Owns, Row

\* So does a burial.
LEMMA DeadKeepsCounts ==
    ASSUME NEW t, t \in [DOMAIN t -> Row], NEW i, NEW a
    PROVE  KeepsCounts(t, MarkDead(t, i, a))
BY DEF KeepsCounts, MarkDead, Owns, Row

\* So does a completion.
LEMMA CompleteKeepsCounts ==
    ASSUME NEW t, t \in [DOMAIN t -> Row], NEW i, NEW a
    PROVE  KeepsCounts(t, CompleteMessage(t, i, a))
BY DEF KeepsCounts, CompleteMessage, Owns, Row

\* So do the statements over many rows, whichever rows they take.
LEMMA BulkKeepsCounts ==
    ASSUME NEW t, t \in [DOMAIN t -> Row], NEW S
    PROVE  /\ KeepsCounts(t, HeartbeatMessages(t, S))
           /\ KeepsCounts(t, SweepMessages(t, S))
           /\ KeepsCounts(t, CleanupExpired(t, S))
BY DEF KeepsCounts, HeartbeatMessages, SweepMessages, CleanupExpired, Row

\* What a step can do to the counts and the ids: insert, commit, claim, or leave
\* them as they are.
LEMMA StepShape ==
    ASSUME TypeOK, [Next]_vars
    PROVE  \/ \E p \in Producers, labels \in AllLabels : KickInsert(p, labels)
           \/ \E p \in Producers, when \in {0, 1} :
                 \E i \in DOMAIN inserting[p] : KickCommit(p, i, when)
           \/ \E w \in Workers, i \in DOMAIN rows : Dequeue(w, i)
           \/ Quiet
<1> USE DEF Quiet, SameCounts, Survivors, PendingShrinks, Phases
<1>t. rows \in [DOMAIN rows -> Row] /\ DOMAIN inserting = Producers
  BY DEF TypeOK
<1>1. ASSUME NEW p \in Producers, Kick(p)
      PROVE  \/ \E labels \in AllLabels : KickInsert(p, labels)
             \/ \E when \in {0, 1} : \E i \in DOMAIN inserting[p] : KickCommit(p, i, when)
             \/ Quiet
  <2>1. CASE KickAbort(p)
    BY <2>1, <1>t DEF KickAbort, Nothing, KeepsCounts
  <2>2. QED
    BY <1>1, <2>1 DEF Kick, AllLabels
<1>2. ASSUME NEW d \in deliveries, DeliveryStep(d) PROVE Quiet
  <2>1. CASE Yield(d)
    BY <2>1 DEF Yield, KeepsCounts
  <2>2. CASE LoseClaim(d)
    BY <2>2 DEF LoseClaim, KeepsCounts
  <2>3. CASE TaskFails(d)
    BY <2>3 DEF TaskFails, KeepsCounts
  <2>4. ASSUME rows' \in Released(d) \cup {rows} PROVE SameCounts
    BY <2>4, <1>t, RetryKeepsCounts, DeadKeepsCounts DEF Released, KeepsCounts
  <2>5. CASE Release(d)
    BY <2>4, <2>5 DEF Release
  <2>6. CASE ReleaseError(d)
    BY <2>4, <2>6 DEF ReleaseError
  <2>7. CASE TaskEnds(d)
    BY <2>7 DEF TaskEnds, KeepsCounts
  <2>8. CASE AckComplete(d)
    BY <2>8, <1>t, CompleteKeepsCounts DEF AckComplete
  <2>9. CASE AckDiscard(d)
    BY <2>9 DEF AckDiscard, KeepsCounts
  <2>10. CASE AckError(d)
    BY <2>10, <1>t, CompleteKeepsCounts DEF AckError, KeepsCounts
  <2>11. CASE NoAck(d)
    BY <2>11 DEF NoAck, KeepsCounts
  <2>12. QED
    BY <1>2, <2>1, <2>2, <2>3, <2>5, <2>6, <2>7, <2>8, <2>9, <2>10, <2>11 DEF DeliveryStep
<1>3. ASSUME NEW w \in Workers, Crash(w) \/ HeartbeatList(w) \/ HeartbeatExecute(w)
      PROVE Quiet
  <2>1. CASE Crash(w)
    BY <2>1 DEF Crash, KeepsCounts
  <2>2. CASE HeartbeatList(w)
    BY <2>2 DEF HeartbeatList, KeepsCounts
  <2>3. CASE HeartbeatExecute(w)
    BY <2>3, <1>t, BulkKeepsCounts DEF HeartbeatExecute
  <2>4. QED
    BY <1>3, <2>1, <2>2, <2>3
<1>4. ASSUME TableStep PROVE Quiet
  <2>1. ASSUME NEW i \in DOMAIN rows, LeaseLapse(i) PROVE Quiet
    BY <2>1, <1>t DEF LeaseLapse, Row, KeepsCounts
  <2>2. ASSUME NEW i \in DOMAIN rows, BecomeDue(i) PROVE Quiet
    BY <2>2, <1>t DEF BecomeDue, Row, KeepsCounts
  <2>3. ASSUME NEW S \in SUBSET DOMAIN rows, Sweep(S) PROVE Quiet
    BY <2>3, <1>t, BulkKeepsCounts DEF Sweep
  <2>4. ASSUME NEW S \in SUBSET DOMAIN rows, Cleanup(S) PROVE Quiet
    BY <2>4, <1>t, BulkKeepsCounts DEF Cleanup
  <2>5. QED
    BY <1>4, <2>1, <2>2, <2>3, <2>4 DEF TableStep
<1>5. CASE UNCHANGED vars
  BY <1>5 DEF vars, KeepsCounts
<1>6. QED
  BY <1>1, <1>2, <1>3, <1>4, <1>5 DEF Next
-----------------------------------------------------------------------------
\* Types.  An INSERT that commits must not meet a row of its id, which is where
\* IdsDrawn comes in.
LEMMA TypeStep ==
    ASSUME TypeOK, IdsDrawn, [Next]_vars
    PROVE  TypeOK'
<1> USE BrokerAssumption DEF TypeOK, Ids
<1>t. /\ rows \in [DOMAIN rows -> Row] /\ deliveries \subseteq Delivery
      /\ \A d \in deliveries : /\ d \in Delivery /\ d.worker \in Workers
                                /\ d.id \in Ids /\ d.attempts \in Nat
  BY DEF Delivery
<1>1. ASSUME NEW p \in Producers, Kick(p) PROVE TypeOK'
  <2>1. ASSUME NEW labels \in MayKick[p], KickInsert(p, labels) PROVE TypeOK'
    <3> DEFINE kind == Resolved(labels)
    <3>1. /\ last_id' = last_id + 1 /\ last_id < MaxId
          /\ inserting' = [inserting EXCEPT ![p] = [i \in {last_id + 1} |-> kind]]
          /\ UNCHANGED <<rows, deliveries, inflight, beat>>
      BY <2>1 DEF KickInsert
    <3>2. last_id' \in 0 .. MaxId /\ 1 .. last_id \subseteq 1 .. last_id'
      BY <3>1
    <3>3. last_id + 1 \in 1 .. last_id' /\ last_id + 1 \notin DOMAIN rows
      BY <3>1 DEF IdsDrawn
    <3>4. kind \in AllKinds
      BY <2>1 DEF KickInsert, AllKinds, AllLabels
    <3>5. \A q \in Producers :
             /\ DOMAIN inserting'[q] \subseteq 1 .. last_id' \ DOMAIN rows
             /\ \A j \in DOMAIN inserting'[q] : inserting'[q][j] \in AllKinds
      BY <3>1, <3>2, <3>3, <3>4
    <3>6. QED
      BY <3>1, <3>2, <3>5
  <2>2. ASSUME NEW i \in DOMAIN inserting[p], NEW when \in {0, 1}, KickCommit(p, i, when)
        PROVE TypeOK'
    <3>1. /\ rows' = InsertMessage(rows, i, inserting[p][i], when)
          /\ inserting' = [inserting EXCEPT ![p] = Nothing]
          /\ UNCHANGED <<last_id, deliveries, inflight, beat>>
      BY <2>2 DEF KickCommit
    <3>2. DOMAIN rows' = DOMAIN rows \cup {i}
      BY <3>1 DEF InsertMessage
    <3>3. rows' \in [DOMAIN rows' -> Row]
      BY <3>1, <1>t DEF InsertMessage, Row, MessageStatus, HeartbeatAges
    <3>4. \A q \in Producers :
             /\ DOMAIN inserting'[q] \subseteq 1 .. last_id \ DOMAIN rows'
             /\ \A j \in DOMAIN inserting'[q] : inserting'[q][j] \in AllKinds
      BY <3>1, <3>2 DEF IdsDrawn, Nothing
    <3>5. DOMAIN rows' \subseteq Ids
      BY <3>2
    <3>6. QED
      BY <3>1, <3>3, <3>4, <3>5
  <2>3. CASE KickAbort(p)
    BY <2>3 DEF KickAbort, Nothing
  <2>4. QED
    BY <1>1, <2>1, <2>2, <2>3 DEF Kick
<1>2. ASSUME NEW w \in Workers, NEW i \in DOMAIN rows, Dequeue(w, i) PROVE TypeOK'
  <2>1. rows' \in [DOMAIN rows -> Row] /\ DOMAIN rows' = DOMAIN rows
    BY <1>2, <1>t, StatementsKeepRows DEF Dequeue
  <2>2. rows[i].kind \in AllKinds /\ rows'[i].retry_count \in Nat
    BY <1>t, <2>1 DEF Row
  <2>3. deliveries' \subseteq Delivery
    BY <1>2, <2>2 DEF Dequeue, Delivery, Phases
  <2>4. QED
    BY <1>2, <2>1, <2>3 DEF Dequeue
<1>3. ASSUME NEW d \in deliveries, DeliveryStep(d) PROVE TypeOK'
  <2>m. ASSUME NEW phase \in Phases PROVE Move(d, phase) \subseteq Delivery
    BY <1>t, MoveKeepsType
  <2> USE DEF Phases
  <2>1. CASE Yield(d)
    BY <2>1, <2>m, <1>t DEF Yield
  <2>2. CASE LoseClaim(d)
    BY <2>2, <1>t DEF LoseClaim
  <2>3. CASE TaskFails(d)
    BY <2>3, <2>m, <1>t DEF TaskFails
  <2>4. ASSUME rows' \in Released(d) \cup {rows}
        PROVE rows' \in [DOMAIN rows -> Row] /\ DOMAIN rows' = DOMAIN rows
    <3>1. CASE rows' = rows
      BY <3>1, <1>t
    <3>2. CASE d.id \in DOMAIN rows /\ rows' \in Released(d)
      <4>1. MarkDead(rows, d.id, d.attempts) \in [DOMAIN rows -> Row]
        BY <3>2, <1>t, StatementsKeepRows
      <4>2. \A when \in {0, 1} :
               RetryInPlace(rows, d.id, d.attempts, when) \in [DOMAIN rows -> Row]
        BY <3>2, <1>t, StatementsKeepRows
      <4>3. QED
        BY <3>2, <4>1, <4>2 DEF Released
    <3>3. CASE d.id \notin DOMAIN rows
      BY <2>4, <3>3, <1>t DEF Released, RetryInPlace, MarkDead, Owns
    <3>4. QED
      BY <2>4, <3>1, <3>2, <3>3
  <2>5. CASE Release(d)
    BY <2>4, <2>5, <2>m, <1>t DEF Release
  <2>6. CASE ReleaseError(d)
    BY <2>4, <2>6, <1>t DEF ReleaseError
  <2>7. CASE TaskEnds(d)
    BY <2>7, <2>m DEF TaskEnds
  <2>8. CompleteMessage(rows, d.id, d.attempts) \in [DOMAIN rows -> Row]
    BY <1>t, StatementsKeepRows DEF CompleteMessage, Owns
  <2>9. CASE AckComplete(d)
    BY <2>9, <2>8, <2>m DEF AckComplete
  <2>10. CASE AckDiscard(d)
    BY <2>10, <1>t DEF AckDiscard
  <2>11. CASE AckError(d)
    BY <2>11, <2>8, <1>t DEF AckError
  <2>12. CASE NoAck(d)
    BY <2>12, <1>t DEF NoAck
  <2>13. QED
    BY <1>3, <2>1, <2>2, <2>3, <2>5, <2>6, <2>7, <2>9, <2>10, <2>11, <2>12
       DEF DeliveryStep
<1>4. ASSUME NEW w \in Workers, Crash(w) PROVE TypeOK'
  BY <1>4 DEF Crash
<1>5. ASSUME NEW w \in Workers, HeartbeatList(w) PROVE TypeOK'
  BY <1>5 DEF HeartbeatList
<1>6. ASSUME NEW w \in Workers, HeartbeatExecute(w) PROVE TypeOK'
  <2>1. rows' \in [DOMAIN rows -> Row] /\ DOMAIN rows' = DOMAIN rows
    BY <1>6, <1>t DEF HeartbeatExecute, HeartbeatMessages, Row, HeartbeatAges
  <2>2. QED
    BY <1>6, <2>1 DEF HeartbeatExecute
<1>7. ASSUME TableStep PROVE TypeOK'
  <2>1. ASSUME NEW i \in DOMAIN rows, LeaseLapse(i) \/ BecomeDue(i) PROVE TypeOK'
    <3>1. rows' \in [DOMAIN rows -> Row] /\ DOMAIN rows' = DOMAIN rows
      BY <2>1, <1>t DEF LeaseLapse, BecomeDue, Row, HeartbeatAges
    <3>2. QED
      BY <2>1, <3>1 DEF LeaseLapse, BecomeDue
  <2>2. ASSUME NEW S \in SUBSET DOMAIN rows, Sweep(S) PROVE TypeOK'
    <3>1. rows' \in [DOMAIN rows -> Row] /\ DOMAIN rows' = DOMAIN rows
      BY <2>2, <1>t DEF Sweep, SweepMessages, Row, MessageStatus
    <3>2. QED
      BY <2>2, <3>1 DEF Sweep
  <2>3. ASSUME NEW S \in SUBSET DOMAIN rows, Cleanup(S) PROVE TypeOK'
    <3>1. rows' \in [DOMAIN rows \ S -> Row] /\ DOMAIN rows' = DOMAIN rows \ S
      BY <2>3, <1>t DEF Cleanup, CleanupExpired
    <3>2. QED
      BY <2>3, <3>1 DEF Cleanup
  <2>4. QED
    BY <1>7, <2>1, <2>2, <2>3 DEF TableStep
<1>8. CASE UNCHANGED vars
  BY <1>8 DEF vars
<1>9. QED
  BY <1>1, <1>2, <1>3, <1>4, <1>5, <1>6, <1>7, <1>8 DEF Next

\* An id that is used was drawn from the sequence, and none is drawn twice.
LEMMA IdsStep ==
    ASSUME TypeOK, IdsDrawn, [Next]_vars
    PROVE  IdsDrawn'
<1> USE DEF TypeOK
<1>t. deliveries \subseteq Delivery /\ last_id \in Nat
  BY BrokerAssumption
<1>1. ASSUME NEW p \in Producers, NEW labels \in AllLabels, KickInsert(p, labels)
      PROVE  IdsDrawn'
  BY <1>1, <1>t DEF KickInsert, IdsDrawn
<1>2. ASSUME NEW p \in Producers, NEW when \in {0, 1}, NEW i \in DOMAIN inserting[p],
             KickCommit(p, i, when)
      PROVE  IdsDrawn'
  BY <1>2, <1>t DEF KickCommit, InsertMessage, Nothing, IdsDrawn
<1>3. ASSUME NEW w \in Workers, NEW i \in DOMAIN rows, Dequeue(w, i)
      PROVE  IdsDrawn'
  BY <1>3, <1>t DEF Dequeue, ClaimRow, IdsDrawn
<1>4. CASE Quiet
  <2>1. \A e \in deliveries' : \E d \in deliveries : e.id = d.id
    BY <1>4, <1>t, MoveFacts DEF Quiet, Survivors
  <2>2. QED
    BY <1>4, <2>1 DEF Quiet, SameCounts, KeepsCounts, PendingShrinks, IdsDrawn
<1>5. QED
  BY <1>1, <1>2, <1>3, <1>4, StepShape

\* Rows, pending inserts, deliveries and inflight sets stay of their kinds.
THEOREM TypeCorrect == Spec => []TypeOK
<1>1. Init => TypeOK /\ IdsDrawn
  BY BrokerAssumption DEF Init, TypeOK, IdsDrawn, Nothing, Ids
<1>2. TypeOK /\ IdsDrawn /\ [Next]_vars => TypeOK' /\ IdsDrawn'
  BY TypeStep, IdsStep
<1>3. QED
  BY <1>1, <1>2, PTL DEF Spec
-----------------------------------------------------------------------------
\* A claim gives a count no delivery of that row has had, and nothing but a
\* claim makes a delivery.
LEMMA HolderStep ==
    ASSUME TypeOK, IdsDrawn, OneHolderPerAttempt, [Next]_vars
    PROVE  OneHolderPerAttempt'
<1> USE DEF OneHolderPerAttempt
<1>t. /\ deliveries \subseteq Delivery /\ rows \in [DOMAIN rows -> Row]
      /\ \A d \in deliveries : d.attempts \in Nat
  BY DEF TypeOK, Delivery
<1>1. ASSUME NEW p \in Producers, NEW labels \in AllLabels, KickInsert(p, labels)
      PROVE  OneHolderPerAttempt'
  BY <1>1 DEF KickInsert
<1>2. ASSUME NEW p \in Producers, NEW when \in {0, 1}, NEW i \in DOMAIN inserting[p],
             KickCommit(p, i, when)
      PROVE  OneHolderPerAttempt'
  <2>1. \A d \in deliveries : d.id # i
    BY DEF IdsDrawn
  <2>2. QED
    BY <1>2, <2>1 DEF KickCommit, InsertMessage
<1>3. ASSUME NEW w \in Workers, NEW i \in DOMAIN rows, Dequeue(w, i)
      PROVE  OneHolderPerAttempt'
  <2> DEFINE new == [worker |-> w, id |-> i, attempts |-> rows'[i].retry_count,
                     kind |-> rows[i].kind, phase |-> "claimed"]
  <2>1. rows[i].retry_count \in Nat
    BY <1>t DEF Row
  <2>2. /\ DOMAIN rows' = DOMAIN rows
        /\ rows'[i].retry_count = rows[i].retry_count + 1
        /\ \A j \in DOMAIN rows : j # i => rows'[j] = rows[j]
    BY <1>3, <1>t DEF Dequeue, ClaimRow, Row
  <2>3. deliveries' = deliveries \cup {new}
    BY <1>3 DEF Dequeue
  <2>4. \A d \in deliveries : d.id = i => d.attempts < new.attempts
    BY <2>1, <2>2, <1>t
  <2>5. \A d \in deliveries : d.id \in DOMAIN rows =>
           rows[d.id].retry_count \in Nat /\ d.attempts <= rows[d.id].retry_count
    BY <1>t DEF Row
  <2>6. \A d \in deliveries : d.id \in DOMAIN rows' => d.attempts <= rows'[d.id].retry_count
    BY <2>1, <2>2, <2>5, <1>t
  <2>7. \A d \in deliveries : d.id = i => d.attempts # new.attempts
    BY <2>1, <2>2, <2>4, <1>t
  <2>8. new.attempts <= rows'[new.id].retry_count
    BY <2>1, <2>2
  <2>9. QED
    BY <2>3, <2>6, <2>7, <2>8
<1>4. CASE Quiet
  <2>1. \A d, e \in deliveries' : d.id = e.id /\ d.attempts = e.attempts => d = e
    <3>1. CASE deliveries' \subseteq deliveries
      BY <3>1
    <3>2. ASSUME NEW c \in deliveries, NEW phase \in Phases, deliveries' = Move(c, phase)
          PROVE \A d, e \in deliveries' : d.id = e.id /\ d.attempts = e.attempts => d = e
      <4>1. PICK m : /\ m.id = c.id /\ m.attempts = c.attempts
                     /\ deliveries' = (deliveries \ {c}) \cup {m}
        <5>1. /\ [c EXCEPT !.phase = phase].id = c.id
              /\ [c EXCEPT !.phase = phase].attempts = c.attempts
          BY <1>t DEF Delivery
        <5>2. QED
          BY <3>2, <5>1 DEF Move
      <4>2. \A d \in deliveries \ {c} : ~(d.id = c.id /\ d.attempts = c.attempts)
        OBVIOUS
      <4>3. QED
        BY <4>1, <4>2
    <3>3. QED
      BY <1>4, <3>1, <3>2 DEF Quiet, Survivors
  <2>2. \A e \in deliveries' : \E d \in deliveries : e.id = d.id /\ e.attempts = d.attempts
    BY <1>4, <1>t, MoveFacts DEF Quiet, Survivors
  <2>3. QED
    BY <1>4, <2>1, <2>2 DEF Quiet, SameCounts, KeepsCounts
<1>5. QED
  BY <1>1, <1>2, <1>3, <1>4, StepShape

\* (id, attempts) names one delivery for ever: the fences and the labels
\* _tpg_row_id and _tpg_attempts rest on it.
THEOREM OneHolderHolds == Spec => []OneHolderPerAttempt
<1>1. Init => TypeOK /\ IdsDrawn /\ OneHolderPerAttempt
  BY BrokerAssumption DEF Init, TypeOK, IdsDrawn, OneHolderPerAttempt, Nothing, Ids
<1>2. TypeOK /\ IdsDrawn /\ OneHolderPerAttempt /\ [Next]_vars
         => TypeOK' /\ IdsDrawn' /\ OneHolderPerAttempt'
  BY TypeStep, IdsStep, HolderStep
<1>3. QED
  BY <1>1, <1>2, PTL DEF Spec
-----------------------------------------------------------------------------
\* While a task runs, its row is taken from it only through a stale lease.  The
\* three fenced statements of other deliveries miss it, since no other has its
\* count.
THEOREM OnlySweepTakesHolds == Spec => OnlySweepTakes
<1> DEFINE Taken(d) == /\ d.phase = "running"
                       /\ Owns(rows, d.id, d.attempts)
                       /\ ~Owns(rows, d.id, d.attempts)'
           Kept == \A d \in deliveries \cap deliveries' :
                      Taken(d) => rows[d.id].heartbeat_at = "stale"
<1>1. TypeOK /\ OneHolderPerAttempt /\ [Next]_vars => [Kept]_vars
  <2> SUFFICES ASSUME TypeOK, OneHolderPerAttempt, Next,
                      NEW d \in deliveries \cap deliveries', Taken(d)
               PROVE  rows[d.id].heartbeat_at = "stale"
    OBVIOUS
  <2>t. rows \in [DOMAIN rows -> Row] /\ deliveries \subseteq Delivery
    BY DEF TypeOK
  <2>o. /\ d.id \in DOMAIN rows /\ rows[d.id].status = "active"
        /\ rows[d.id].retry_count = d.attempts
        /\ rows' # rows
    BY DEF Owns
  <2>1. ASSUME NEW p \in Producers, Kick(p) PROVE FALSE
    BY <2>1, <2>o, <2>t DEF Kick, KickInsert, KickCommit, KickAbort, InsertMessage, Owns,
       TypeOK
  <2>2. ASSUME NEW w \in Workers, NEW i \in DOMAIN rows, Dequeue(w, i) PROVE FALSE
    <3>1. i # d.id
      BY <2>2, <2>o DEF Dequeue, Claimable
    <3>2. QED
      BY <2>2, <2>o, <3>1 DEF Dequeue, ClaimRow, Owns
  <2>3. ASSUME NEW e \in deliveries, DeliveryStep(e) PROVE FALSE
    <3>1. e # d /\ rows' \in Released(e) \cup {CompleteMessage(rows, e.id, e.attempts)}
      BY <2>3, <2>o DEF DeliveryStep, Yield, LoseClaim, TaskFails, Release, ReleaseError,
         TaskEnds, AckComplete, AckDiscard, AckError, NoAck
    <3>2. ~(e.id = d.id /\ e.attempts = d.attempts)
      BY <3>1 DEF OneHolderPerAttempt
    <3>3. Owns(rows, e.id, e.attempts) => e.id # d.id
      BY <3>2, <2>o DEF Owns
    <3>4. QED
      BY <3>1, <3>3, <2>o DEF Released, RetryInPlace, MarkDead, CompleteMessage, Owns
  <2>4. ASSUME NEW w \in Workers, Crash(w) \/ HeartbeatList(w) \/ HeartbeatExecute(w)
        PROVE FALSE
    BY <2>4, <2>o, <2>t DEF Crash, HeartbeatList, HeartbeatExecute, HeartbeatMessages, Row, Owns
  <2>5. ASSUME NEW i \in DOMAIN rows, LeaseLapse(i) \/ BecomeDue(i) PROVE FALSE
    BY <2>5, <2>o, <2>t DEF LeaseLapse, BecomeDue, Row, Owns
  <2>6. ASSUME NEW S \in SUBSET DOMAIN rows, Sweep(S)
        PROVE rows[d.id].heartbeat_at = "stale"
    BY <2>6, <2>o DEF Sweep, SweepMessages, Stuck, Owns
  <2>7. ASSUME NEW S \in SUBSET DOMAIN rows, Cleanup(S) PROVE FALSE
    BY <2>7, <2>o DEF Cleanup, CleanupExpired, Completed, Owns
  <2>8. QED
    BY <2>1, <2>2, <2>3, <2>4, <2>5, <2>6, <2>7 DEF Next, TableStep
<1>2. QED
  BY <1>1, TypeCorrect, OneHolderHolds, PTL DEF Spec, OnlySweepTakes
-----------------------------------------------------------------------------
\* Row i was completed while a was its count.
CompletedAs(t, i, a) ==
    i \in DOMAIN t /\ t[i].status = "completed" /\ t[i].retry_count = a

\* An ack completes one row, at the count of the delivery acknowledged; the
\* other statements complete nothing.
LEMMA OnlyAckCompletes ==
    ASSUME NEW t, t \in [DOMAIN t -> Row], NEW i, NEW a, NEW j, NEW b, NEW when, NEW S
    PROVE  /\ CompletedAs(CompleteMessage(t, i, a), j, b)
                 => CompletedAs(t, j, b) \/ (j = i /\ b = a)
           /\ CompletedAs(RetryInPlace(t, i, a, when), j, b) => CompletedAs(t, j, b)
           /\ CompletedAs(MarkDead(t, i, a), j, b) => CompletedAs(t, j, b)
           /\ CompletedAs(HeartbeatMessages(t, S), j, b) => CompletedAs(t, j, b)
           /\ CompletedAs(SweepMessages(t, S), j, b) => CompletedAs(t, j, b)
           /\ CompletedAs(CleanupExpired(t, S), j, b) => CompletedAs(t, j, b)
<1> USE DEF CompletedAs, Row
<1>1. CompletedAs(CompleteMessage(t, i, a), j, b)
         => CompletedAs(t, j, b) \/ (j = i /\ b = a)
  BY DEF CompleteMessage, Owns
<1>2. CompletedAs(RetryInPlace(t, i, a, when), j, b) => CompletedAs(t, j, b)
  BY DEF RetryInPlace, Owns
<1>3. CompletedAs(MarkDead(t, i, a), j, b) => CompletedAs(t, j, b)
  BY DEF MarkDead, Owns
<1>4. CompletedAs(HeartbeatMessages(t, S), j, b) => CompletedAs(t, j, b)
  BY DEF HeartbeatMessages
<1>5. CompletedAs(SweepMessages(t, S), j, b) => CompletedAs(t, j, b)
  BY DEF SweepMessages
<1>6. CompletedAs(CleanupExpired(t, S), j, b) => CompletedAs(t, j, b)
  BY DEF CleanupExpired
<1>7. QED
  BY <1>1, <1>2, <1>3, <1>4, <1>5, <1>6

\* A step either completes nothing and moves no acknowledged delivery back, or
\* is the ack of the delivery whose count it completes.
LEMMA EndedStep ==
    ASSUME TypeOK, IdsDrawn, OneHolderPerAttempt, CompletedMeansEnded, [Next]_vars
    PROVE  CompletedMeansEnded'
<1> DEFINE Done(d) == CompletedAs(rows, d.id, d.attempts)
           NoneCompleted == \A j, b : CompletedAs(rows', j, b) => CompletedAs(rows, j, b)
<1>t. /\ rows \in [DOMAIN rows -> Row] /\ deliveries \subseteq Delivery
      /\ DOMAIN inserting = Producers
      /\ \A p \in Producers : DOMAIN inserting[p] \cap DOMAIN rows = {}
  BY DEF TypeOK
<1>d. \A d \in deliveries : Done(d) => d.phase = "acked"
  BY DEF CompletedMeansEnded, CompletedAs
<1>s. SUFFICES \A d \in deliveries' : CompletedAs(rows', d.id, d.attempts) => d.phase = "acked"
  BY DEF CompletedMeansEnded, CompletedAs
<1>k. ASSUME NoneCompleted, deliveries' \subseteq deliveries
      PROVE  \A d \in deliveries' : CompletedAs(rows', d.id, d.attempts) => d.phase = "acked"
  BY <1>k, <1>d
<1>1. ASSUME NEW p \in Producers, Kick(p)
      PROVE  NoneCompleted /\ deliveries' \subseteq deliveries
  <2>1. CASE rows' = rows /\ deliveries' = deliveries
    BY <2>1
  <2>2. ASSUME NEW i \in DOMAIN inserting[p], NEW when \in {0, 1}, KickCommit(p, i, when)
        PROVE  NoneCompleted /\ deliveries' \subseteq deliveries
    <3>1. rows' = InsertMessage(rows, i, inserting[p][i], when) /\ deliveries' = deliveries
      BY <2>2 DEF KickCommit
    <3>2. /\ DOMAIN rows' = DOMAIN rows \cup {i} /\ rows'[i].status = "queued"
          /\ \A j \in DOMAIN rows \ {i} : rows'[j] = rows[j]
      BY <3>1 DEF InsertMessage
    <3>3. QED
      BY <3>1, <3>2 DEF CompletedAs
  <2>3. QED
    BY <1>1, <2>1, <2>2 DEF Kick, KickInsert, KickAbort
<1>2. ASSUME NEW w \in Workers, NEW i \in DOMAIN rows, Dequeue(w, i)
      PROVE  \A d \in deliveries' : CompletedAs(rows', d.id, d.attempts) => d.phase = "acked"
  <2>1. \A j, b : CompletedAs(rows', j, b) => CompletedAs(rows, j, b) /\ j # i
    BY <1>2, <1>t DEF Dequeue, ClaimRow, CompletedAs, Row
  <2>2. \A d \in deliveries' : d \in deliveries \/ d.id = i
    BY <1>2 DEF Dequeue
  <2>3. QED
    BY <2>1, <2>2, <1>d
<1>3. ASSUME NEW e \in deliveries, DeliveryStep(e)
      PROVE  \A d \in deliveries' : CompletedAs(rows', d.id, d.attempts) => d.phase = "acked"
  <2>m. ASSUME NEW phase, NoneCompleted, deliveries' = Move(e, phase), e.phase # "acked"
        PROVE  \A d \in deliveries' : CompletedAs(rows', d.id, d.attempts) => d.phase = "acked"
    BY <2>m, <1>t, <1>d, MoveFacts
  <2>c. rows' = rows => NoneCompleted
    OBVIOUS
  <2>1. CASE Yield(e)
    BY <2>1, <2>m, <2>c DEF Yield
  <2>2. CASE LoseClaim(e) \/ AckDiscard(e) \/ NoAck(e)
    BY <2>2, <1>k, <2>c DEF LoseClaim, AckDiscard, NoAck
  <2>3. CASE TaskFails(e)
    BY <2>3, <2>m, <2>c DEF TaskFails
  <2>4. ASSUME rows' \in Released(e) \cup {rows} PROVE NoneCompleted
    BY <2>4, <1>t, OnlyAckCompletes DEF Released
  <2>5. CASE Release(e)
    BY <2>4, <2>5, <2>m DEF Release
  <2>6. CASE ReleaseError(e)
    BY <2>4, <2>6, <1>k DEF ReleaseError
  <2>7. CASE TaskEnds(e)
    BY <2>7, <2>m, <2>c DEF TaskEnds
  <2>8. ASSUME rows' \in {rows, CompleteMessage(rows, e.id, e.attempts)},
               NEW d \in deliveries \ {e}, CompletedAs(rows', d.id, d.attempts)
        PROVE  d.phase = "acked"
    <3>1. ~(d.id = e.id /\ d.attempts = e.attempts)
      BY <2>8 DEF OneHolderPerAttempt
    <3>2. Done(d)
      BY <2>8, <3>1, <1>t, OnlyAckCompletes
    <3>3. QED
      BY <3>2, <1>d
  <2>9. CASE AckComplete(e)
    BY <2>8, <2>9, <1>t, MoveFacts DEF AckComplete
  <2>10. CASE AckError(e)
    BY <2>8, <2>10 DEF AckError
  <2>11. QED
    BY <1>3, <2>1, <2>2, <2>3, <2>5, <2>6, <2>7, <2>9, <2>10 DEF DeliveryStep
<1>4. ASSUME NEW w \in Workers, Crash(w) \/ HeartbeatList(w) \/ HeartbeatExecute(w)
      PROVE  NoneCompleted /\ deliveries' \subseteq deliveries
  <2>1. CASE Crash(w) \/ HeartbeatList(w)
    BY <2>1 DEF Crash, HeartbeatList
  <2>2. CASE HeartbeatExecute(w)
    BY <2>2, <1>t, OnlyAckCompletes DEF HeartbeatExecute
  <2>3. QED
    BY <1>4, <2>1, <2>2
<1>5. ASSUME TableStep
      PROVE  NoneCompleted /\ deliveries' \subseteq deliveries
  <2>1. ASSUME NEW i \in DOMAIN rows, LeaseLapse(i) \/ BecomeDue(i)
        PROVE  NoneCompleted /\ deliveries' \subseteq deliveries
    BY <2>1, <1>t DEF LeaseLapse, BecomeDue, CompletedAs, Row
  <2>2. ASSUME NEW S \in SUBSET DOMAIN rows, Sweep(S) \/ Cleanup(S)
        PROVE  NoneCompleted /\ deliveries' \subseteq deliveries
    BY <2>2, <1>t, OnlyAckCompletes DEF Sweep, Cleanup
  <2>3. QED
    BY <1>5, <2>1, <2>2 DEF TableStep
<1>6. CASE UNCHANGED vars
  BY <1>6, <1>d DEF vars
<1>7. QED
  BY <1>1, <1>2, <1>3, <1>4, <1>5, <1>6, <1>k DEF Next

\* A completed row was completed by the delivery that holds its last attempt,
\* and that delivery is past its ack: a late ack completes nobody else's attempt.
THEOREM CompletedMeansEndedHolds == Spec => []CompletedMeansEnded
<1>1. Init => CompletedMeansEnded
  BY DEF Init, CompletedMeansEnded
<1>2. TypeOK /\ IdsDrawn /\ OneHolderPerAttempt /\ CompletedMeansEnded /\ [Next]_vars
         => CompletedMeansEnded'
  BY EndedStep
<1>3. Init => TypeOK /\ IdsDrawn /\ OneHolderPerAttempt
  BY BrokerAssumption DEF Init, TypeOK, IdsDrawn, OneHolderPerAttempt, Nothing, Ids
<1>4. TypeOK /\ IdsDrawn /\ OneHolderPerAttempt /\ [Next]_vars
         => TypeOK' /\ IdsDrawn' /\ OneHolderPerAttempt'
  BY TypeStep, IdsStep, HolderStep
<1>5. QED
  BY <1>1, <1>2, <1>3, <1>4, PTL DEF Spec
-----------------------------------------------------------------------------
\* The refinement.  Each statement on the table is an operation of
\* MessageQueue on its image, or changes nothing of it.

\* A message of the abstract queue, field by field.
LEMMA MessageFacts ==
    ASSUME TypeOK
    PROVE  /\ DOMAIN Messages = DOMAIN rows
           /\ \A i \in DOMAIN rows :
                 /\ Messages[i].kind = KindOf(rows[i].kind)
                 /\ Messages[i].attempts = rows[i].retry_count
                 /\ Messages[i].state = "waiting" <=> rows[i].status = "queued"
                 /\ Messages[i].state = "running" <=> rows[i].status = "active"
                 /\ Messages[i].state = "done" <=> rows[i].status = "completed"
                 /\ Messages[i].state = "dead" <=> rows[i].status = "dead"
                 /\ Messages[i].kind.group_key = rows[i].kind.group_key
                 /\ Messages[i].kind.ordered = rows[i].kind.ordered
                 /\ Messages[i].kind.cap = Cap(rows[i].kind)
                 /\ Queue!Spent(Messages[i]) <=> Spent(rows[i].kind, rows[i].retry_count)
<1>1. \A i \in DOMAIN rows : rows[i].status \in MessageStatus
  BY DEF TypeOK, Row
<1>2. QED
  BY <1>1 DEF Messages, MessageOf, KindOf, StateOf, MessageStatus, Queue!Spent, Spent

\* The claim's WHERE clause is what Start asks of the group.
LEMMA ClaimIsStart ==
    ASSUME TypeOK, NEW i \in DOMAIN rows, Claimable(rows, i, 0),
           rows[i].retry_count < AttemptBound, rows' = ClaimRow(rows, i)
    PROVE  Queue!Start(i)
<1>t. rows \in [DOMAIN rows -> Row]
  BY DEF TypeOK
<1>g. /\ Queue!Group(i) = rows[i].kind.group_key
      /\ Queue!In(Queue!Group(i)) = InGroup(rows, rows[i].kind.group_key)
  BY MessageFacts DEF Queue!Group, Queue!In, InGroup
<1>1. Messages[i].state = "waiting" /\ Messages[i].attempts < AttemptBound
  BY MessageFacts DEF Claimable
<1>2. Queue!GroupIdle(Queue!Group(i))
  BY <1>g, MessageFacts DEF Queue!GroupIdle, Claimable, GroupActive, InGroup
<1>3. Messages[i].kind.ordered => Queue!HeadOfGroup(i)
  BY <1>t, <1>g, MessageFacts
     DEF Queue!HeadOfGroup, Claimable, Older, Blocking, InGroup, Row, MessageStatus
<1>4. Messages' = [Messages EXCEPT ![i].state = "running", ![i].attempts = @ + 1]
  <2>1. DOMAIN rows' = DOMAIN rows /\ \A j \in DOMAIN rows \ {i} : rows'[j] = rows[j]
    BY DEF ClaimRow
  <2>2. /\ rows'[i].status = "active" /\ rows'[i].retry_count = rows[i].retry_count + 1
        /\ rows'[i].kind = rows[i].kind
    BY <1>t DEF ClaimRow, Row
  <2>3. MessageOf(rows'[i]) = [kind |-> KindOf(rows[i].kind), state |-> "running",
                               attempts |-> rows[i].retry_count + 1]
    BY <2>2 DEF MessageOf, StateOf
  <2>4. [MessageOf(rows[i]) EXCEPT !.state = "running", !.attempts = @ + 1] =
           [kind |-> KindOf(rows[i].kind), state |-> "running",
            attempts |-> rows[i].retry_count + 1]
    <3> DEFINE m == MessageOf(rows[i])
               n == [m EXCEPT !.state = "running"]
    <3>1. m = [kind |-> KindOf(rows[i].kind), state |-> StateOf(rows[i].status),
               attempts |-> rows[i].retry_count]
      BY DEF MessageOf
    <3> HIDE DEF m
    <3>2. /\ m.attempts = rows[i].retry_count
          /\ n = [kind |-> KindOf(rows[i].kind), state |-> "running",
                  attempts |-> rows[i].retry_count]
      BY <3>1
    <3> HIDE DEF n
    <3>3. [n EXCEPT !.attempts = m.attempts + 1] =
             [kind |-> KindOf(rows[i].kind), state |-> "running",
              attempts |-> rows[i].retry_count + 1]
      BY <3>2
    <3>4. QED
      BY <3>3 DEF m, n
  <2>5. QED
    BY <2>1, <2>3, <2>4 DEF Messages
<1>5. QED
  BY <1>1, <1>2, <1>3, <1>4 DEF Queue!Start

\* COMPLETE ends the attempt it is fenced by, or none.
LEMMA CompleteIsFinish ==
    ASSUME TypeOK, NEW i, NEW a, rows' = CompleteMessage(rows, i, a)
    PROVE  Messages' = Messages \/ (i \in DOMAIN Messages /\ Queue!Finish(i))
<1>t. rows \in [DOMAIN rows -> Row]
  BY DEF TypeOK
<1>1. CASE rows' = rows
  BY <1>1 DEF Messages
<1>2. CASE Owns(rows, i, a)
  <2>1. /\ DOMAIN rows' = DOMAIN rows /\ \A j \in DOMAIN rows \ {i} : rows'[j] = rows[j]
        /\ rows'[i] = [rows[i] EXCEPT !.status = "completed"]
    BY <1>2 DEF CompleteMessage, Owns
  <2>2. MessageOf(rows'[i]) = [MessageOf(rows[i]) EXCEPT !.state = "done"]
    BY <2>1, <1>2, <1>t DEF MessageOf, StateOf, Row, Owns
  <2>3. Messages' = [Messages EXCEPT ![i].state = "done"]
    BY <2>1, <2>2, <1>2 DEF Messages, Owns
  <2>4. QED
    BY <2>3, <1>2, MessageFacts DEF Queue!Finish, Owns
<1>3. QED
  BY <1>1, <1>2 DEF CompleteMessage

\* Only completed rows are deleted.
LEMMA CleanupIsForget ==
    ASSUME TypeOK, NEW S \in SUBSET DOMAIN rows, S \subseteq Completed(rows),
           rows' = CleanupExpired(rows, S)
    PROVE  Queue!Forget(S)
<1>1. \A i \in S : Messages[i].state = "done"
  BY MessageFacts DEF Completed
<1>2. Messages' = [i \in DOMAIN Messages \ S |-> Messages[i]]
  BY DEF Messages, CleanupExpired
<1>3. QED
  BY <1>1, <1>2 DEF Queue!Forget

\* The rows of S are active, and each is buried or requeued by its own cap.
LEMMA EndingIsRelease ==
    ASSUME TypeOK, NEW S \in SUBSET DOMAIN rows,
           DOMAIN rows' = DOMAIN rows,
           \A i \in DOMAIN rows \ S : rows'[i] = rows[i],
           \A i \in S : /\ rows[i].status = "active"
                        /\ rows'[i].kind = rows[i].kind
                        /\ rows'[i].retry_count = rows[i].retry_count
                        /\ rows'[i].status = IF Spent(rows[i].kind, rows[i].retry_count)
                                             THEN "dead" ELSE "queued"
    PROVE  Queue!Release(S)
<1>1. \A i \in S : Messages[i].state = "running"
  BY MessageFacts
<1>2. ASSUME NEW i \in S
      PROVE  MessageOf(rows'[i]) =
                [MessageOf(rows[i]) EXCEPT !.state = IF Queue!Spent(Messages[i])
                                                     THEN "dead" ELSE "waiting"]
  BY MessageFacts DEF MessageOf, StateOf
<1>3. Messages' = [i \in DOMAIN Messages |->
                     IF i \in S
                     THEN [Messages[i] EXCEPT !.state = IF Queue!Spent(Messages[i])
                                                        THEN "dead" ELSE "waiting"]
                     ELSE Messages[i]]
  BY <1>2 DEF Messages
<1>4. QED
  BY <1>1, <1>3 DEF Queue!Release
-----------------------------------------------------------------------------
\* What the mapping rests on.  An INSERT under way stores the labels of a call
\* of its producer; if that producer is the only one of the group, its id is the
\* group's largest, since a producer has one INSERT under way.  A worker ends an
\* attempt by the cap of its row.
PendingIsLast ==
    \A p \in Producers : \A i \in DOMAIN inserting[p] :
        LET g == inserting[p][i].group_key IN
        /\ DOMAIN inserting[p] = {i}
        /\ p \in WritersOf(g)
        /\ g \in SoleWriter => \A j \in InGroup(rows, g) : j < i

RoutedByCap ==
    \A d \in deliveries :
        /\ d.phase = "retrying" => ~Spent(d.kind, d.attempts)
        /\ d.phase = "burying" => Spent(d.kind, d.attempts)
        /\ d.id \in DOMAIN rows => rows[d.id].kind = d.kind

\* No statement but the INSERT adds a row, and none relabels one.
KeepsKinds(t, r) ==
    /\ DOMAIN r \subseteq DOMAIN t
    /\ \A j \in DOMAIN r : r[j].kind = t[j].kind

\* The statements, one by one.
LEMMA StatementsKeepKinds ==
    ASSUME NEW t, t \in [DOMAIN t -> Row], NEW i, NEW a, NEW when, NEW S
    PROVE  /\ i \in DOMAIN t => KeepsKinds(t, ClaimRow(t, i))
           /\ KeepsKinds(t, RetryInPlace(t, i, a, when))
           /\ KeepsKinds(t, MarkDead(t, i, a))
           /\ KeepsKinds(t, CompleteMessage(t, i, a))
           /\ KeepsKinds(t, HeartbeatMessages(t, S))
           /\ KeepsKinds(t, SweepMessages(t, S))
           /\ KeepsKinds(t, CleanupExpired(t, S))
<1> USE DEF KeepsKinds, Row
<1>1. i \in DOMAIN t => KeepsKinds(t, ClaimRow(t, i))
  BY DEF ClaimRow
<1>2. KeepsKinds(t, RetryInPlace(t, i, a, when))
  BY DEF RetryInPlace, Owns
<1>3. KeepsKinds(t, MarkDead(t, i, a))
  BY DEF MarkDead, Owns
<1>4. KeepsKinds(t, CompleteMessage(t, i, a))
  BY DEF CompleteMessage, Owns
<1>5. KeepsKinds(t, HeartbeatMessages(t, S))
  BY DEF HeartbeatMessages
<1>6. KeepsKinds(t, SweepMessages(t, S))
  BY DEF SweepMessages
<1>7. KeepsKinds(t, CleanupExpired(t, S))
  BY DEF CleanupExpired
<1>8. QED
  BY <1>1, <1>2, <1>3, <1>4, <1>5, <1>6, <1>7

\* A step commits one INSERT, or keeps the kinds.
LEMMA KindStep ==
    ASSUME TypeOK, [Next]_vars
    PROVE  \/ \E p \in Producers, when \in {0, 1} :
                 \E i \in DOMAIN inserting[p] : KickCommit(p, i, when)
           \/ KeepsKinds(rows, rows')
<1>t. rows \in [DOMAIN rows -> Row]
  BY DEF TypeOK
<1>u. rows' = rows => KeepsKinds(rows, rows')
  BY DEF KeepsKinds
<1>1. ASSUME NEW p \in Producers, Kick(p)
      PROVE  \/ \E when \in {0, 1} : \E i \in DOMAIN inserting[p] : KickCommit(p, i, when)
             \/ rows' = rows
  BY <1>1 DEF Kick, KickInsert, KickAbort
<1>2. ASSUME NEW w \in Workers, NEW i \in DOMAIN rows, Dequeue(w, i)
      PROVE  KeepsKinds(rows, rows')
  BY <1>2, <1>t, StatementsKeepKinds DEF Dequeue
<1>3. ASSUME NEW d \in deliveries, DeliveryStep(d) PROVE KeepsKinds(rows, rows')
  <2>1. rows' \in {rows} \cup Released(d) \cup {CompleteMessage(rows, d.id, d.attempts)}
    BY <1>3 DEF DeliveryStep, Yield, LoseClaim, TaskFails, Release, ReleaseError,
       TaskEnds, AckComplete, AckDiscard, AckError, NoAck
  <2>2. QED
    BY <2>1, <1>t, <1>u, StatementsKeepKinds DEF Released
<1>4. ASSUME NEW w \in Workers, Crash(w) \/ HeartbeatList(w) \/ HeartbeatExecute(w)
      PROVE  KeepsKinds(rows, rows')
  BY <1>4, <1>t, <1>u, StatementsKeepKinds DEF Crash, HeartbeatList, HeartbeatExecute
<1>5. ASSUME NEW i \in DOMAIN rows, LeaseLapse(i) \/ BecomeDue(i)
      PROVE  KeepsKinds(rows, rows')
  BY <1>5, <1>t DEF LeaseLapse, BecomeDue, KeepsKinds, Row
<1>6. ASSUME NEW S \in SUBSET DOMAIN rows, Sweep(S) \/ Cleanup(S)
      PROVE  KeepsKinds(rows, rows')
  BY <1>6, <1>t, StatementsKeepKinds DEF Sweep, Cleanup
<1>7. CASE UNCHANGED vars
  BY <1>7, <1>u DEF vars
<1>8. QED
  BY <1>1, <1>2, <1>3, <1>4, <1>5, <1>6, <1>7, <1>u DEF Next, TableStep

\* A rival INSERT into a group with one producer would be that producer's own.
LEMMA PendingStep ==
    ASSUME TypeOK, IdsDrawn, PendingIsLast, [Next]_vars
    PROVE  PendingIsLast'
<1> USE DEF PendingIsLast
<1>t. /\ DOMAIN inserting = Producers /\ last_id \in Nat
      /\ \A p \in Producers : \A i \in DOMAIN inserting[p] : i \in 1 .. last_id
  BY BrokerAssumption DEF TypeOK
<1>k. KeepsKinds(rows, rows') => \A g : InGroup(rows', g) \subseteq InGroup(rows, g)
  BY DEF KeepsKinds, InGroup
<1>p. \A g : WritersOf(g)' = WritersOf(g)
  BY DEF WritersOf
<1>q. ASSUME KeepsKinds(rows, rows'),
             \A p \in Producers : inserting'[p] \in {inserting[p], Nothing}
      PROVE  PendingIsLast'
  BY <1>k, <1>q DEF Nothing, WritersOf
<1>1. ASSUME NEW p \in Producers, NEW labels \in MayKick[p], KickInsert(p, labels)
      PROVE  PendingIsLast'
  <2>1. /\ rows' = rows
        /\ inserting' = [inserting EXCEPT ![p] = [i \in {last_id + 1} |-> Resolved(labels)]]
    BY <1>1 DEF KickInsert
  <2>2. Resolved(labels).group_key = labels.group_key
    BY DEF Resolved
  <2>3. p \in WritersOf(Resolved(labels).group_key)
    BY <2>2 DEF WritersOf
  <2>4. \A g : \A j \in InGroup(rows, g) : j < last_id + 1
    BY <1>t DEF IdsDrawn, InGroup
  <2>5. QED
    BY <2>1, <2>3, <2>4, <1>t DEF WritersOf
<1>2. ASSUME NEW p \in Producers, NEW when \in {0, 1}, NEW i \in DOMAIN inserting[p],
             KickCommit(p, i, when)
      PROVE  PendingIsLast'
  <2> DEFINE g == inserting[p][i].group_key
  <2>1. /\ rows' = InsertMessage(rows, i, inserting[p][i], when)
        /\ inserting' = [inserting EXCEPT ![p] = Nothing]
    BY <1>2 DEF KickCommit
  <2>2. \A h : InGroup(rows', h) \subseteq InGroup(rows, h) \cup (IF h = g THEN {i} ELSE {})
    BY <2>1 DEF InsertMessage, InGroup
  <2>3. ASSUME NEW q \in Producers, NEW j \in DOMAIN inserting[q], q # p,
               inserting[q][j].group_key = g
        PROVE  g \notin SoleWriter
    BY <2>3 DEF SoleWriter
  <2>4. \A q \in Producers : q # p => inserting'[q] = inserting[q]
    BY <2>1, <1>t
  <2>5. inserting'[p] = Nothing
    BY <2>1, <1>t
  <2>6. SUFFICES ASSUME NEW q \in Producers, NEW j \in DOMAIN inserting'[q]
                 PROVE  LET h == inserting'[q][j].group_key IN
                        /\ DOMAIN inserting'[q] = {j}
                        /\ q \in WritersOf(h)
                        /\ h \in SoleWriter => \A k \in InGroup(rows', h) : k < j
    BY DEF WritersOf
  <2>7. q # p /\ inserting'[q] = inserting[q]
    BY <2>4, <2>5 DEF Nothing
  <2>8. QED
    BY <2>2, <2>3, <2>7
<1>3. CASE /\ ~ \E p \in Producers : \E labels \in MayKick[p] : KickInsert(p, labels)
           /\ ~ \E p \in Producers, when \in {0, 1} :
                   \E i \in DOMAIN inserting[p] : KickCommit(p, i, when)
  <2>1. KeepsKinds(rows, rows')
    BY <1>3, KindStep
  <2>2. \A p \in Producers : inserting'[p] \in {inserting[p], Nothing}
    BY <1>3, <1>t DEF Next, Kick, KickAbort, Dequeue, DeliveryStep, Yield, LoseClaim,
       TaskFails, Release, ReleaseError, TaskEnds, AckComplete, AckDiscard, AckError, NoAck,
       Crash, HeartbeatList, HeartbeatExecute, TableStep, LeaseLapse, BecomeDue, Sweep,
       Cleanup, vars
  <2>3. QED
    BY <2>1, <2>2, <1>q
<1>4. QED
  BY <1>1, <1>2, <1>3

\* on_error asks the cap of the row it was given at claim, and a row keeps it.
LEMMA RoutedStep ==
    ASSUME TypeOK, IdsDrawn, RoutedByCap, [Next]_vars
    PROVE  RoutedByCap'
<1> DEFINE Fits(d) == /\ d.phase = "retrying" => ~Spent(d.kind, d.attempts)
                      /\ d.phase = "burying" => Spent(d.kind, d.attempts)
<1>t. deliveries \subseteq Delivery /\ rows \in [DOMAIN rows -> Row]
  BY DEF TypeOK
<1>o. \A d \in deliveries : Fits(d) /\ (d.id \in DOMAIN rows => rows[d.id].kind = d.kind)
  BY DEF RoutedByCap
<1>r. ASSUME NEW d, d.id \in DOMAIN rows => rows[d.id].kind = d.kind,
             d.id \in 1 .. last_id, \A p \in Producers : d.id \notin DOMAIN inserting[p]
      PROVE  d.id \in DOMAIN rows' => rows'[d.id].kind = d.kind
  <2>1. CASE KeepsKinds(rows, rows')
    BY <2>1, <1>r DEF KeepsKinds
  <2>2. ASSUME NEW p \in Producers, NEW when \in {0, 1}, NEW i \in DOMAIN inserting[p],
               KickCommit(p, i, when)
        PROVE  d.id \in DOMAIN rows' => rows'[d.id].kind = d.kind
    <3>1. d.id # i
      BY <1>r
    <3>2. rows' = InsertMessage(rows, i, inserting[p][i], when)
      BY <2>2 DEF KickCommit
    <3>3. QED
      BY <1>r, <3>1, <3>2 DEF InsertMessage
  <2>3. QED
    BY <2>1, <2>2, KindStep
<1>d. ASSUME NEW d \in deliveries
      PROVE  d.id \in DOMAIN rows' => rows'[d.id].kind = d.kind
  BY <1>o, <1>r DEF IdsDrawn
<1>s. SUFFICES ASSUME NEW d \in deliveries'
               PROVE  Fits(d) /\ (d.id \in DOMAIN rows' => rows'[d.id].kind = d.kind)
  BY DEF RoutedByCap
<1>1. CASE d \in deliveries
  BY <1>1, <1>o, <1>d
<1>2. ASSUME NEW w \in Workers, NEW i \in DOMAIN rows, Dequeue(w, i), d \notin deliveries
      PROVE  Fits(d) /\ (d.id \in DOMAIN rows' => rows'[d.id].kind = d.kind)
  <2>1. d.id = i /\ d.kind = rows[i].kind /\ d.phase = "claimed"
    BY <1>2 DEF Dequeue
  <2>2. rows'[i].kind = rows[i].kind
    BY <1>2, <1>t DEF Dequeue, ClaimRow, Row
  <2>3. QED
    BY <2>1, <2>2
<1>3. ASSUME NEW e \in deliveries, DeliveryStep(e), d \notin deliveries
      PROVE  Fits(d) /\ (d.id \in DOMAIN rows' => rows'[d.id].kind = d.kind)
  <2>m. ASSUME NEW phase, deliveries' = Move(e, phase)
        PROVE  d.id = e.id /\ d.attempts = e.attempts /\ d.kind = e.kind /\ d.phase = phase
    BY <2>m, <1>3, <1>t, MoveFacts
  <2>1. CASE TaskFails(e)
    <3>1. d.id = e.id /\ d.attempts = e.attempts /\ d.kind = e.kind
          /\ d.phase = IF Spent(e.kind, e.attempts) THEN "burying" ELSE "retrying"
      BY <2>1, <2>m DEF TaskFails
    <3>2. QED
      BY <3>1, <1>d
  <2>2. ASSUME NEW phase \in {"running", "ended", "acked"}, deliveries' = Move(e, phase)
        PROVE  Fits(d) /\ (d.id \in DOMAIN rows' => rows'[d.id].kind = d.kind)
    <3>1. d.id = e.id /\ d.kind = e.kind /\ d.phase = phase
      BY <2>2, <2>m
    <3>2. QED
      BY <3>1, <1>d
  <2>3. CASE Yield(e) \/ Release(e) \/ TaskEnds(e) \/ AckComplete(e)
    BY <2>2, <2>3 DEF Yield, Release, TaskEnds, AckComplete
  <2>4. CASE LoseClaim(e) \/ ReleaseError(e) \/ AckDiscard(e) \/ AckError(e) \/ NoAck(e)
    BY <1>3, <2>4 DEF LoseClaim, ReleaseError, AckDiscard, AckError, NoAck
  <2>5. QED
    BY <1>3, <2>1, <2>3, <2>4 DEF DeliveryStep
<1>4. ASSUME d \notin deliveries
      PROVE  \/ \E w \in Workers, i \in DOMAIN rows : Dequeue(w, i)
             \/ \E e \in deliveries : DeliveryStep(e)
  BY <1>4 DEF Next, Kick, KickInsert, KickCommit, KickAbort, Crash, HeartbeatList,
     HeartbeatExecute, TableStep, LeaseLapse, BecomeDue, Sweep, Cleanup, vars
<1>5. QED
  BY <1>1, <1>2, <1>3, <1>4
-----------------------------------------------------------------------------
\* The INSERT of a group's only producer is visible behind all of its group.
LEMMA CommitIsAccept ==
    ASSUME TypeOK, PendingIsLast, NEW p \in Producers, NEW i \in DOMAIN inserting[p],
           NEW when, rows' = InsertMessage(rows, i, inserting[p][i], when)
    PROVE  Queue!Accept(i, KindOf(inserting[p][i]))
<1> DEFINE k == inserting[p][i]
<1>1. i \notin DOMAIN Messages
  BY MessageFacts DEF TypeOK
<1>2. KindOf(k).group_key = k.group_key
  BY DEF KindOf
<1>3. Queue!In(k.group_key) = InGroup(rows, k.group_key)
  BY MessageFacts DEF Queue!In, InGroup
<1>4. KindOf(k).group_key \in SoleWriter => \A j \in Queue!In(KindOf(k).group_key) : j < i
  BY <1>2, <1>3 DEF PendingIsLast
<1>5. Messages' = [j \in DOMAIN Messages \cup {i} |->
                     IF j = i
                     THEN [kind |-> KindOf(k), state |-> "waiting", attempts |-> 0]
                     ELSE Messages[j]]
  <2>1. DOMAIN rows' = DOMAIN rows \cup {i} /\ \A j \in DOMAIN rows \ {i} : rows'[j] = rows[j]
    BY DEF InsertMessage
  <2>2. MessageOf(rows'[i]) = [kind |-> KindOf(k), state |-> "waiting", attempts |-> 0]
    BY DEF InsertMessage, MessageOf, StateOf
  <2>3. QED
    BY <2>1, <2>2 DEF Messages
<1>6. QED
  BY <1>1, <1>4, <1>5 DEF Queue!Accept

\* What becomes of a delivery that ends without an ack: its own row or none.
LEMMA ReleasedIsRelease ==
    ASSUME TypeOK, RoutedByCap, NEW d \in deliveries,
           d.phase \in {"retrying", "burying"}, rows' \in Released(d)
    PROVE  Messages' = Messages \/ (d.id \in DOMAIN rows /\ Queue!Release({d.id}))
<1>t. rows \in [DOMAIN rows -> Row]
  BY DEF TypeOK
<1>1. CASE rows' = rows
  BY <1>1 DEF Messages
<1>2. CASE Owns(rows, d.id, d.attempts)
  <2>1. rows[d.id].kind = d.kind /\ (d.phase = "retrying" <=> ~Spent(d.kind, d.attempts))
    BY <1>2 DEF RoutedByCap, Owns
  <2>2. DOMAIN rows' = DOMAIN rows /\ \A i \in DOMAIN rows \ {d.id} : rows'[i] = rows[i]
    BY <1>2 DEF Released, RetryInPlace, MarkDead, Owns
  <2>3. /\ rows[d.id].status = "active" /\ d.attempts = rows[d.id].retry_count
        /\ rows'[d.id].kind = rows[d.id].kind
        /\ rows'[d.id].retry_count = rows[d.id].retry_count
        /\ rows'[d.id].status = IF d.phase = "burying" THEN "dead" ELSE "queued"
    BY <1>2, <1>t DEF Released, RetryInPlace, MarkDead, Owns, Row
  <2>4. Queue!Release({d.id})
    BY <1>2, <2>1, <2>2, <2>3, EndingIsRelease DEF Owns
  <2>5. QED
    BY <1>2, <2>4 DEF Owns
<1>3. QED
  BY <1>1, <1>2 DEF Released, RetryInPlace, MarkDead

\* The sweep buries or requeues what it takes, each row by its own cap, or
\* aborts.
LEMMA SweepIsRelease ==
    ASSUME TypeOK, NEW S \in SUBSET DOMAIN rows, S \subseteq Stuck(rows),
           rows' = SweepMessages(rows, S)
    PROVE  Messages' = Messages \/ Queue!Release(S)
<1>t. rows \in [DOMAIN rows -> Row]
  BY DEF TypeOK
<1>1. CASE rows' = rows
  BY <1>1 DEF Messages
<1>2. CASE rows' = [i \in DOMAIN rows |->
                      IF i \in S
                      THEN [rows[i] EXCEPT !.status =
                              IF Spent(rows[i].kind, rows[i].retry_count) THEN "dead"
                              ELSE "queued"]
                      ELSE rows[i]]
  <2>1. DOMAIN rows' = DOMAIN rows /\ \A i \in DOMAIN rows \ S : rows'[i] = rows[i]
    BY <1>2
  <2>2. \A i \in S : /\ rows[i].status = "active"
                     /\ rows'[i].kind = rows[i].kind
                     /\ rows'[i].retry_count = rows[i].retry_count
                     /\ rows'[i].status = IF Spent(rows[i].kind, rows[i].retry_count)
                                          THEN "dead" ELSE "queued"
    BY <1>2, <1>t DEF Stuck, Row
  <2>3. QED
    BY <2>1, <2>2, EndingIsRelease
<1>3. QED
  BY <1>1, <1>2 DEF SweepMessages

\* A lease that is refreshed or lapses, or a delay that passes, is nothing to
\* the queue.
LEMMA LeaseIsNothing ==
    ASSUME TypeOK, DOMAIN rows' = DOMAIN rows,
           \A i \in DOMAIN rows : /\ rows'[i].kind = rows[i].kind
                                  /\ rows'[i].status = rows[i].status
                                  /\ rows'[i].retry_count = rows[i].retry_count
    PROVE  Messages' = Messages
BY DEF Messages, MessageOf

\* Every step of Broker is a step of MessageQueue or a stutter.
LEMMA QueueStep ==
    ASSUME TypeOK, PendingIsLast, RoutedByCap, [Next]_vars
    PROVE  Queue!Next \/ Messages' = Messages
<1>t. /\ rows \in [DOMAIN rows -> Row] /\ DOMAIN rows \subseteq Ids
      /\ DOMAIN Messages = DOMAIN rows
  BY MessageFacts DEF TypeOK
<1>u. rows' = rows => Messages' = Messages
  BY DEF Messages
<1>1. ASSUME NEW p \in Producers, Kick(p) PROVE Queue!Next \/ Messages' = Messages
  <2>1. ASSUME NEW i \in DOMAIN inserting[p], NEW when \in {0, 1}, KickCommit(p, i, when)
        PROVE  Queue!Next
    <3>1. Queue!Accept(i, KindOf(inserting[p][i]))
      BY <2>1, CommitIsAccept DEF KickCommit
    <3>2. i \in Ids /\ inserting[p][i] \in AllKinds
      BY BrokerAssumption DEF TypeOK, Ids
    <3>3. QED
      BY <3>1, <3>2 DEF Queue!Next
  <2>2. QED
    BY <1>1, <1>u, <2>1 DEF Kick, KickInsert, KickAbort
<1>2. ASSUME NEW w \in Workers, NEW i \in DOMAIN rows, Dequeue(w, i) PROVE Queue!Next
  <2>1. Queue!Start(i)
    BY <1>2, ClaimIsStart DEF Dequeue
  <2>2. QED
    BY <1>t, <2>1 DEF Queue!Next
<1>3. ASSUME NEW d \in deliveries, DeliveryStep(d)
      PROVE  Queue!Next \/ Messages' = Messages
  <2>1. \/ rows' = rows
        \/ d.phase \in {"retrying", "burying"} /\ rows' \in Released(d)
        \/ rows' = CompleteMessage(rows, d.id, d.attempts)
    BY <1>3 DEF DeliveryStep, Yield, LoseClaim, TaskFails, Release, ReleaseError,
       TaskEnds, AckComplete, AckDiscard, AckError, NoAck
  <2>2. CASE d.phase \in {"retrying", "burying"} /\ rows' \in Released(d)
    <3>1. Messages' = Messages \/ (d.id \in DOMAIN rows /\ Queue!Release({d.id}))
      BY <2>2, ReleasedIsRelease
    <3>2. QED
      BY <3>1, <1>t DEF Queue!Next
  <2>3. CASE rows' = CompleteMessage(rows, d.id, d.attempts)
    <3>1. Messages' = Messages \/ (d.id \in DOMAIN Messages /\ Queue!Finish(d.id))
      BY <2>3, CompleteIsFinish
    <3>2. QED
      BY <3>1 DEF Queue!Next
  <2>4. QED
    BY <2>1, <2>2, <2>3, <1>u
<1>4. ASSUME NEW w \in Workers, Crash(w) \/ HeartbeatList(w) \/ HeartbeatExecute(w)
      PROVE  Messages' = Messages
  <2>1. CASE HeartbeatExecute(w)
    BY <2>1, <1>t, LeaseIsNothing DEF HeartbeatExecute, HeartbeatMessages, Row
  <2>2. QED
    BY <1>4, <2>1, <1>u DEF Crash, HeartbeatList
<1>5. ASSUME NEW i \in DOMAIN rows, LeaseLapse(i) \/ BecomeDue(i) PROVE Messages' = Messages
  BY <1>5, <1>t, LeaseIsNothing DEF LeaseLapse, BecomeDue, Row
<1>6. ASSUME NEW S \in SUBSET DOMAIN rows, Sweep(S) PROVE Queue!Next \/ Messages' = Messages
  <2>1. Messages' = Messages \/ Queue!Release(S)
    BY <1>6, SweepIsRelease DEF Sweep
  <2>2. QED
    BY <2>1, <1>t DEF Queue!Next
<1>7. ASSUME NEW S \in SUBSET DOMAIN rows, Cleanup(S) PROVE Queue!Next
  <2>1. Queue!Forget(S)
    BY <1>7, CleanupIsForget DEF Cleanup
  <2>2. QED
    BY <2>1, <1>t DEF Queue!Next
<1>8. CASE UNCHANGED vars
  BY <1>8, <1>u DEF vars
<1>9. QED
  BY <1>1, <1>2, <1>3, <1>4, <1>5, <1>6, <1>7, <1>8 DEF Next, TableStep

\* The table the processes share behaves like MessageQueue, whatever order
\* claims, retries, sweeps, acks and heartbeats of live, slow and dead workers
\* land in: groups are mutexed and ordered, budgets hold, ends are final.
THEOREM BrokerImplementsQueue == Spec => QueueSpec
<1> DEFINE IInv == TypeOK /\ IdsDrawn /\ PendingIsLast /\ RoutedByCap
<1>1. Init => IInv /\ Queue!Init
  <2>1. Init => TypeOK /\ IdsDrawn
    BY BrokerAssumption DEF Init, TypeOK, IdsDrawn, Nothing, Ids
  <2>2. Init => PendingIsLast /\ RoutedByCap
    BY DEF Init, PendingIsLast, RoutedByCap, Nothing
  <2>3. Init => Queue!Init
    BY DEF Init, Nothing, Messages, Queue!Init
  <2>4. QED
    BY <2>1, <2>2, <2>3
<1>2. IInv /\ [Next]_vars => IInv'
  BY TypeStep, IdsStep, PendingStep, RoutedStep
<1>3. IInv /\ [Next]_vars => [Queue!Next]_Messages
  BY QueueStep
<1>4. QED
  BY <1>1, <1>2, <1>3, PTL DEF Spec, QueueSpec, Queue!Spec
-----------------------------------------------------------------------------
\* The theorems about MessageQueue, read of the table of Broker.
Theory == INSTANCE MessageQueue_proofs WITH
             Kinds <- {KindOf(k) : k \in AllKinds},
             msgs  <- Messages

\* The assumptions of MessageQueue, from those of Broker.
LEMMA TheoryApplies ==
    /\ Ids \subseteq Nat
    /\ \A k \in {KindOf(m) : m \in AllKinds} : k.cap \in Int /\ k.ordered \in BOOLEAN
    /\ NoGroup \notin SoleWriter
    /\ AttemptBound \in Nat
<1>1. ASSUME NEW l \in AllLabels
      PROVE  Cap(Resolved(l)) \in Int /\ Resolved(l).ordered \in BOOLEAN
  BY LabelsAssumption DEF Cap, Resolved, ResolveOrdered, Label
<1>2. ASSUME NEW k \in AllKinds PROVE KindOf(k).cap \in Int /\ KindOf(k).ordered \in BOOLEAN
  BY <1>1 DEF AllKinds, KindOf
<1>3. Ids \subseteq Nat /\ AttemptBound \in Nat
  BY BrokerAssumption DEF Ids
<1>4. NoGroup \notin SoleWriter
  BY DEF SoleWriter
<1>5. QED
  BY <1>2, <1>3, <1>4

\* Queue and Theory are the same specification.
LEMMA TheorySpec == Spec => Theory!Spec
<1>1. Queue!Init => Theory!Init
  BY DEF Queue!Init, Theory!Init
<1>2. Queue!Next => Theory!Next
  BY DEF Queue!Next, Theory!Next, Queue!Accept, Theory!Accept, Queue!Start, Theory!Start,
     Queue!Finish, Theory!Finish, Queue!Forget, Theory!Forget, Queue!Release, Theory!Release,
     Queue!Spent, Theory!Spent, Queue!GroupIdle, Theory!GroupIdle, Queue!HeadOfGroup,
     Theory!HeadOfGroup, Queue!In, Theory!In, Queue!Group, Theory!Group
<1>3. QED
  BY <1>1, <1>2, BrokerImplementsQueue, PTL DEF QueueSpec, Queue!Spec, Theory!Spec

\* What MessageQueue promises holds of the table the processes share: no two
\* messages of a group are active at once, no ordered message was ever claimed
\* before what is older in its group was completed, no message is delivered
\* beyond its cap, and what is completed or dead stays so.
THEOREM BrokerKeepsPromises ==
    Spec => /\ []Queue!GroupMutex
            /\ []Queue!Fifo
            /\ []Queue!Budget
            /\ Queue!EndsAreFinal
<1>1. Spec => []Theory!GroupMutex /\ []Theory!Fifo /\ []Theory!Budget /\ Theory!EndsAreFinal
  <2>1. Theory!Spec => []Theory!GroupMutex
    BY Theory!MutexHolds, TheoryApplies
  <2>2. Theory!Spec => []Theory!Fifo
    BY Theory!FifoHolds, TheoryApplies
  <2>3. Theory!Spec => []Theory!Budget
    BY Theory!BudgetHolds, TheoryApplies
  <2>4. Theory!Spec => Theory!EndsAreFinal
    BY Theory!EndsHold, TheoryApplies
  <2>5. QED
    BY TheorySpec, <2>1, <2>2, <2>3, <2>4
<1>2. Theory!GroupMutex => Queue!GroupMutex
  BY DEF Theory!GroupMutex, Queue!GroupMutex, Theory!Group, Queue!Group
<1>3. Theory!Fifo => Queue!Fifo
  BY DEF Theory!Fifo, Queue!Fifo, Theory!Group, Queue!Group
<1>4. Theory!Budget => Queue!Budget
  BY DEF Theory!Budget, Queue!Budget, Theory!Spent, Queue!Spent
<1>5. QED
  BY <1>1, <1>2, <1>3, <1>4, PTL DEF Theory!EndsAreFinal, Queue!EndsAreFinal
=============================================================================
