--------------------------- MODULE Receiver_proofs ---------------------------
(***************************************************************************)
(* Theorems about Receiver, for any workers, clients, labels, ack type,    *)
(* faults and bounds.  The second half (from Ended on) says why saving     *)
(* need not be fenced: with heartbeats on time a lease protects the row of *)
(* an attempt until its ack has landed, and so does no other attempt of    *)
(* the message have a result to save.                                      *)
(***************************************************************************)
EXTENDS Receiver, Timely_proofs

\* Every step of the composition is a step of Broker, or leaves it alone.
LEMMA StepIsBrokerStep ==
    ASSUME ReceiverNext \/ UNCHANGED rvars
    PROVE  [Next]_vars
<1>1. CASE Elsewhere
  BY <1>1 DEF Elsewhere, Next, DeliveryStep
<1>2. ASSUME NEW d \in deliveries,
             Finish(d) \/ Report(d) \/ FailRelease(d) \/ EndAck(d) \/ FailAck(d)
      PROVE  Next
  BY <1>2 DEF Finish, Report, FailRelease, EndAck, FailAck, Next, DeliveryStep
<1>3. ASSUME NEW o \in outcomes, Save(o) \/ SaveError(o) PROVE UNCHANGED vars
  BY <1>3 DEF Save, SaveError
<1>4. ASSUME NEW w \in Workers, Die(w) PROVE Next
  BY <1>4 DEF Die, Next
<1>5. ASSUME NEW c \in Readers,
             \/ \E i \in Awaits[c] \cap DOMAIN rows : Wait(c, i)
             \/ IsResultReady(c) \/ Select(c) \/ Return(c) \/ ReadError(c)
      PROVE  UNCHANGED vars
  BY <1>5 DEF Wait, IsResultReady, Select, Return, ReadError
<1>6. ASSUME NEW w \in Workers, NEW i \in DOMAIN rows, Claim(w, i) PROVE Next
  BY <1>6 DEF Claim, Next
<1>7. CASE UNCHANGED rvars
  BY <1>7 DEF rvars, vars
<1>8. QED
  BY <1>1, <1>2, <1>3, <1>4, <1>5, <1>6, <1>7 DEF ReceiverNext

\* The receiver, the result backend and the clients add no behaviour to the
\* broker: what Broker promises holds under them.
THEOREM ReceiverImplementsBroker == ReceiverSpec => Spec
<1>1. ReceiverInit => Init
  BY DEF ReceiverInit
<1>2. [ReceiverNext]_rvars => [Next]_vars
  BY StepIsBrokerStep
<1>3. QED
  BY <1>1, <1>2, PTL DEF ReceiverSpec, Spec

\* So the table behaves like MessageQueue under them, too.
THEOREM ReceiverImplementsQueue == ReceiverSpec => QueueSpec
BY ReceiverImplementsBroker, BrokerImplementsQueue, PTL
-----------------------------------------------------------------------------
\* The row of delivery d still carries its count, and has not been handed on.
AtItsCount(d) ==
    /\ d.id \in DOMAIN rows
    /\ rows[d.id].kind = d.kind
    /\ rows[d.id].retry_count = d.attempts
    /\ rows[d.id].status \in {"active", "dead"}

Unfinished == {"claimed", "running", "retrying", "burying"}

\* on_error goes by the cap, and the row of a delivery that is at its cap can
\* only die: no retry and no sweep requeues it.
SpentIsHeld ==
    \A d \in deliveries :
        /\ d.phase = "retrying" => ~Spent(d.kind, d.attempts)
        /\ d.phase = "burying" => Spent(d.kind, d.attempts)
        /\ d.phase \in Unfinished /\ Spent(d.kind, d.attempts) => AtItsCount(d)

Dead(i) == i \in DOMAIN rows /\ rows[i].status = "dead"

\* No statement takes a row out of the dead.
LEMMA DeadStays ==
    ASSUME TypeOK, [Next]_vars, NEW i, Dead(i)
    PROVE  Dead(i)'
<1> USE DEF Dead
<1>t. /\ rows \in [DOMAIN rows -> Row] /\ DOMAIN inserting = Producers
      /\ \A p \in Producers : DOMAIN inserting[p] \cap DOMAIN rows = {}
  BY DEF TypeOK
<1>1. ASSUME NEW p \in Producers, Kick(p) PROVE Dead(i)'
  BY <1>1, <1>t DEF Kick, KickInsert, KickCommit, KickAbort, InsertMessage
<1>2. ASSUME NEW w \in Workers, NEW j \in DOMAIN rows, Dequeue(w, j) PROVE Dead(i)'
  <2>1. i # j
    BY <1>2 DEF Dequeue, Claimable
  <2>2. QED
    BY <1>2, <2>1 DEF Dequeue, ClaimRow
<1>3. ASSUME NEW d \in deliveries, DeliveryStep(d) PROVE Dead(i)'
  <2>1. rows' \in {rows} \cup Released(d) \cup {CompleteMessage(rows, d.id, d.attempts)}
    BY <1>3 DEF DeliveryStep, Yield, LoseClaim, TaskFails, Release, ReleaseError,
       TaskEnds, AckComplete, AckDiscard, AckError, NoAck
  <2>2. QED
    BY <2>1 DEF Released, RetryInPlace, MarkDead, CompleteMessage, Owns
<1>4. ASSUME NEW w \in Workers, Crash(w) \/ HeartbeatList(w) \/ HeartbeatExecute(w)
      PROVE  Dead(i)'
  BY <1>4 DEF Crash, HeartbeatList, HeartbeatExecute, HeartbeatMessages
<1>5. ASSUME NEW j \in DOMAIN rows, LeaseLapse(j) \/ BecomeDue(j) PROVE Dead(i)'
  BY <1>5, <1>t DEF LeaseLapse, BecomeDue, Row
<1>6. ASSUME NEW S \in SUBSET DOMAIN rows, Sweep(S) PROVE Dead(i)'
  BY <1>6 DEF Sweep, SweepMessages, Stuck
<1>7. ASSUME NEW S \in SUBSET DOMAIN rows, Cleanup(S) PROVE Dead(i)'
  BY <1>7 DEF Cleanup, CleanupExpired, Completed
<1>8. CASE UNCHANGED vars
  BY <1>8 DEF vars
<1>9. QED
  BY <1>1, <1>2, <1>3, <1>4, <1>5, <1>6, <1>7, <1>8 DEF Next, TableStep

\* The row of a delivery at its cap stays with it, or dies.
LEMMA HeldStays ==
    ASSUME TypeOK, OneHolderPerAttempt, SpentIsHeld, [Next]_vars, NEW d \in deliveries,
           d.phase \in Unfinished, Spent(d.kind, d.attempts)
    PROVE  AtItsCount(d)'
<1> USE DEF AtItsCount
<1>h. AtItsCount(d) /\ d.phase # "retrying"
  BY DEF SpentIsHeld
<1>t. /\ rows \in [DOMAIN rows -> Row] /\ DOMAIN inserting = Producers
      /\ \A p \in Producers : DOMAIN inserting[p] \cap DOMAIN rows = {}
  BY DEF TypeOK
<1>1. ASSUME NEW p \in Producers, Kick(p) PROVE AtItsCount(d)'
  BY <1>1, <1>h, <1>t DEF Kick, KickInsert, KickCommit, KickAbort, InsertMessage
<1>2. ASSUME NEW w \in Workers, NEW j \in DOMAIN rows, Dequeue(w, j) PROVE AtItsCount(d)'
  <2>1. d.id # j
    BY <1>2, <1>h DEF Dequeue, Claimable
  <2>2. QED
    BY <1>2, <1>h, <2>1 DEF Dequeue, ClaimRow
<1>3. ASSUME NEW e \in deliveries, DeliveryStep(e) PROVE AtItsCount(d)'
  <2>1. \/ rows' = rows
        \/ e.phase \in {"retrying", "burying"} /\ rows' \in Released(e)
        \/ e.phase = "ended" /\ rows' = CompleteMessage(rows, e.id, e.attempts)
    BY <1>3 DEF DeliveryStep, Yield, LoseClaim, TaskFails, Release, ReleaseError,
       TaskEnds, AckComplete, AckDiscard, AckError, NoAck
  <2>2. e.id = d.id /\ Owns(rows, e.id, e.attempts) => e = d
    BY <1>h DEF Owns, OneHolderPerAttempt
  <2>3. CASE e = d
    BY <2>1, <2>3, <1>h, <1>t DEF Released, MarkDead, Owns, Unfinished, Row
  <2>4. CASE ~(e.id = d.id /\ Owns(rows, e.id, e.attempts))
    BY <2>1, <2>4, <1>h DEF Released, RetryInPlace, MarkDead, CompleteMessage, Owns
  <2>5. QED
    BY <2>2, <2>3, <2>4
<1>4. ASSUME NEW w \in Workers, Crash(w) \/ HeartbeatList(w) \/ HeartbeatExecute(w)
      PROVE  AtItsCount(d)'
  BY <1>4, <1>h, <1>t DEF Crash, HeartbeatList, HeartbeatExecute, HeartbeatMessages, Row
<1>5. ASSUME NEW j \in DOMAIN rows, LeaseLapse(j) \/ BecomeDue(j) PROVE AtItsCount(d)'
  BY <1>5, <1>h, <1>t DEF LeaseLapse, BecomeDue, Row
<1>6. ASSUME NEW S \in SUBSET DOMAIN rows, Sweep(S) PROVE AtItsCount(d)'
  BY <1>6, <1>h, <1>t DEF Sweep, SweepMessages, Row
<1>7. ASSUME NEW S \in SUBSET DOMAIN rows, Cleanup(S) PROVE AtItsCount(d)'
  BY <1>7, <1>h DEF Cleanup, CleanupExpired, Completed
<1>8. CASE UNCHANGED vars
  BY <1>8, <1>h DEF vars
<1>9. QED
  BY <1>1, <1>2, <1>3, <1>4, <1>5, <1>6, <1>7, <1>8 DEF Next, TableStep

\* SpentIsHeld is inductive.
LEMMA SpentStep ==
    ASSUME TypeOK, OneHolderPerAttempt, SpentIsHeld, [Next]_vars
    PROVE  SpentIsHeld'
<1> DEFINE Fits(d) == /\ d.phase = "retrying" => ~Spent(d.kind, d.attempts)
                      /\ d.phase = "burying" => Spent(d.kind, d.attempts)
           Holds(d) == d.phase \in Unfinished /\ Spent(d.kind, d.attempts)
                          => AtItsCount(d)'
<1>t. /\ deliveries \subseteq Delivery /\ rows \in [DOMAIN rows -> Row]
      /\ \A d \in deliveries : d \in Delivery
  BY DEF TypeOK
<1>s. SUFFICES \A d \in deliveries' : Fits(d) /\ Holds(d)
  BY DEF SpentIsHeld
<1>o. \A d \in deliveries : Fits(d) /\ Holds(d)
  BY HeldStays DEF SpentIsHeld
<1>k. ASSUME deliveries' \subseteq deliveries PROVE \A d \in deliveries' : Fits(d) /\ Holds(d)
  BY <1>k, <1>o
<1>1. ASSUME NEW p \in Producers, Kick(p) PROVE deliveries' \subseteq deliveries
  BY <1>1 DEF Kick, KickInsert, KickCommit, KickAbort
<1>2. ASSUME NEW w \in Workers, NEW i \in DOMAIN rows, Dequeue(w, i)
      PROVE  \A d \in deliveries' : Fits(d) /\ Holds(d)
  <2>1. PICK new :
           new = [worker |-> w, id |-> i, attempts |-> rows'[i].retry_count,
                  kind |-> rows[i].kind, phase |-> "claimed"]
    OBVIOUS
  <2>2. AtItsCount(new)'
    BY <1>2, <2>1, <1>t DEF Dequeue, ClaimRow, AtItsCount, Row
  <2>3. deliveries' = deliveries \cup {new}
    BY <1>2, <2>1 DEF Dequeue
  <2>4. QED
    BY <2>1, <2>2, <2>3, <1>o
<1>3. ASSUME NEW e \in deliveries, DeliveryStep(e)
      PROVE  \A d \in deliveries' : Fits(d) /\ Holds(d)
  <2>1. CASE LoseClaim(e) \/ ReleaseError(e) \/ AckDiscard(e) \/ AckError(e) \/ NoAck(e)
    BY <2>1, <1>k DEF LoseClaim, ReleaseError, AckDiscard, AckError, NoAck
  <2>m. ASSUME NEW phase \in {"ended", "acked"}, deliveries' = Move(e, phase)
        PROVE  \A d \in deliveries' : Fits(d) /\ Holds(d)
    BY <2>m, <1>o, <1>t, MoveFacts DEF Unfinished
  <2>u. ASSUME NEW phase \in {"running", "retrying", "burying"}, e.phase \in {"claimed", "running"},
               deliveries' = Move(e, phase),
               phase = "retrying" => ~Spent(e.kind, e.attempts),
               phase = "burying" => Spent(e.kind, e.attempts)
        PROVE  \A d \in deliveries' : Fits(d) /\ Holds(d)
    <3>1. Spent(e.kind, e.attempts) => AtItsCount(e)'
      BY <2>u, <1>o DEF Unfinished
    <3>2. ASSUME NEW d \in deliveries', d \notin deliveries PROVE Fits(d) /\ Holds(d)
      <4>1. /\ d.id = e.id /\ d.attempts = e.attempts /\ d.kind = e.kind /\ d.phase = phase
        BY <2>u, <3>2, <1>t, MoveFacts
      <4>2. AtItsCount(e)' => AtItsCount(d)'
        BY <4>1 DEF AtItsCount
      <4>3. QED
        BY <2>u, <3>1, <4>1, <4>2
    <3>3. QED
      BY <3>2, <1>o
  <2>2. CASE Yield(e)
    BY <2>2, <2>u DEF Yield
  <2>3. CASE TaskFails(e)
    BY <2>3, <2>u DEF TaskFails
  <2>4. CASE Release(e) \/ TaskEnds(e) \/ AckComplete(e)
    BY <2>4, <2>m DEF Release, TaskEnds, AckComplete
  <2>5. QED
    BY <1>3, <2>1, <2>2, <2>3, <2>4 DEF DeliveryStep
<1>4. ASSUME NEW w \in Workers, Crash(w) \/ HeartbeatList(w) \/ HeartbeatExecute(w)
      PROVE  deliveries' \subseteq deliveries
  BY <1>4 DEF Crash, HeartbeatList, HeartbeatExecute
<1>5. ASSUME TableStep PROVE deliveries' \subseteq deliveries
  BY <1>5 DEF TableStep, LeaseLapse, BecomeDue, Sweep, Cleanup
<1>6. CASE UNCHANGED vars
  BY <1>6, <1>k DEF vars
<1>7. QED
  BY <1>1, <1>2, <1>3, <1>4, <1>5, <1>6, <1>k DEF Next
-----------------------------------------------------------------------------
\* A result that says spent, on its way or stored, is about a dead message.
SpentIsDead ==
    /\ \A o \in outcomes : o.value = "spent" => Dead(o.id)
    /\ \A i \in DOMAIN results : results[i].value = "spent" => Dead(i)

\* SpentIsDead is inductive.
LEMMA FinalStep ==
    ASSUME TypeOK, SpentIsHeld, SpentIsDead, ReceiverNext \/ UNCHANGED rvars
    PROVE  SpentIsDead'
<1> USE DEF SpentIsDead
<1>d. \A i : Dead(i) => Dead(i)'
  BY DeadStays, StepIsBrokerStep
<1>k. ASSUME outcomes' \subseteq outcomes,
             \A i \in DOMAIN results' : i \in DOMAIN results /\ results'[i] = results[i]
      PROVE  SpentIsDead'
  BY <1>k, <1>d
<1>1. CASE Elsewhere
  BY <1>1, <1>k DEF Elsewhere, resultVars
<1>2. ASSUME NEW d \in deliveries, Finish(d) PROVE SpentIsDead'
  <2>1. \A value \in Endings \cap Values : value # "spent"
    BY ReceiverAssumption
  <2>2. QED
    BY <1>2, <2>1, <1>d DEF Finish, OutcomeOf
<1>3. ASSUME NEW d \in deliveries, Report(d) PROVE SpentIsDead'
  <2>1. d.phase = "burying" => AtItsCount(d)
    BY DEF SpentIsHeld, Unfinished
  <2>2. d.phase = "burying" => Dead(d.id)'
    BY <1>3, <2>1 DEF Report, Release, Released, MarkDead, Owns, AtItsCount, Dead, TypeOK, Row
  <2>3. QED
    BY <1>3, <2>2, <1>d DEF Report, OutcomeOf
<1>4. ASSUME NEW d \in deliveries, FailRelease(d) \/ EndAck(d) \/ FailAck(d)
      PROVE  SpentIsDead'
  BY <1>4, <1>k DEF FailRelease, EndAck, FailAck, resultVars
<1>5. ASSUME NEW o \in outcomes, Save(o) \/ SaveError(o) PROVE SpentIsDead'
  <2>1. outcomes' \subseteq outcomes /\ results' \in {results, SetResult(o)}
    BY <1>5 DEF Save, SaveError
  <2>2. \A i \in DOMAIN SetResult(o) : SetResult(o)[i].value = "spent" => Dead(i)
    BY DEF SetResult
  <2>3. QED
    BY <2>1, <2>2, <1>d
<1>6. ASSUME NEW w \in Workers, Die(w) PROVE SpentIsDead'
  BY <1>6, <1>k DEF Die
<1>7. ASSUME NEW c \in Readers,
             \/ \E i \in Awaits[c] \cap DOMAIN rows : Wait(c, i)
             \/ IsResultReady(c) \/ Select(c) \/ Return(c) \/ ReadError(c)
      PROVE  SpentIsDead'
  BY <1>7, <1>k DEF Wait, IsResultReady, Select, Return, ReadError, Delete, Without
<1>8. ASSUME NEW w \in Workers, NEW i \in DOMAIN rows, Claim(w, i) PROVE SpentIsDead'
  BY <1>8, <1>k DEF Claim
<1>9. CASE UNCHANGED rvars
  BY <1>9, <1>k DEF rvars
<1>10. QED
  BY <1>1, <1>2, <1>3, <1>4, <1>5, <1>6, <1>7, <1>8, <1>9 DEF ReceiverNext

\* A message that reports that its attempts are spent is dead, for ever: saving
\* is not fenced, but by then no retry, sweep or claim can bring the row back.
THEOREM FailureIsFinalHolds == ReceiverSpec => []FailureIsFinal
<1>1. ReceiverInit => SpentIsHeld /\ SpentIsDead
  BY DEF ReceiverInit, Init, SpentIsHeld, SpentIsDead
<1>2. TypeOK /\ OneHolderPerAttempt /\ SpentIsHeld /\ SpentIsDead /\ [ReceiverNext]_rvars
         => SpentIsHeld' /\ SpentIsDead'
  BY SpentStep, FinalStep, StepIsBrokerStep
<1>3. SpentIsDead => FailureIsFinal
  BY DEF SpentIsDead, Dead, FailureIsFinal
<1>4. ReceiverSpec => []TypeOK /\ []OneHolderPerAttempt
  BY ReceiverImplementsBroker, TypeCorrect, OneHolderHolds, PTL
<1>5. QED
  BY <1>1, <1>2, <1>3, <1>4, PTL DEF ReceiverSpec
-----------------------------------------------------------------------------
\* Attempt a of message i is over for its task: its delivery, if it is still
\* there, is at its ack, and no later claim counts that number again.
Ended(i, a) ==
    /\ Drawn(i)
    /\ i \in DOMAIN rows => a <= rows[i].retry_count
    /\ \A d \in deliveries : d.id = i /\ d.attempts = a => d.phase \in {"ended", "acked"}

\* A delivery is claimed, or moves on, and none moves back from its ack.
LEMMA NewPhase ==
    ASSUME [Next]_vars, NEW d \in deliveries', d \notin deliveries
    PROVE  \/ \E w \in Workers, i \in DOMAIN rows : Dequeue(w, i)
           \/ \E e \in deliveries, phase \in Phases :
                 /\ deliveries' = Move(e, phase)
                 /\ phase \notin {"ended", "acked"} => e.phase \notin {"ended", "acked"}
<1>1. ASSUME NEW e \in deliveries, DeliveryStep(e)
      PROVE  \E phase \in Phases :
                 /\ deliveries' = Move(e, phase)
                 /\ phase \notin {"ended", "acked"} => e.phase \notin {"ended", "acked"}
  <2>1. CASE LoseClaim(e) \/ ReleaseError(e) \/ AckDiscard(e) \/ AckError(e) \/ NoAck(e)
    BY <2>1 DEF LoseClaim, ReleaseError, AckDiscard, AckError, NoAck
  <2>2. CASE Yield(e)
    BY <2>2 DEF Yield, Phases
  <2>3. CASE TaskFails(e)
    <3>1. PICK phase \in {"retrying", "burying"} : deliveries' = Move(e, phase)
      BY <2>3 DEF TaskFails
    <3>2. QED
      BY <2>3, <3>1 DEF TaskFails, Phases
  <2>4. CASE Release(e) \/ TaskEnds(e) \/ AckComplete(e)
    BY <2>4 DEF Release, TaskEnds, AckComplete, Phases
  <2>5. QED
    BY <1>1, <2>1, <2>2, <2>3, <2>4 DEF DeliveryStep
<1>2. ASSUME \/ \E p \in Producers : Kick(p)
             \/ \E w \in Workers : Crash(w) \/ HeartbeatList(w) \/ HeartbeatExecute(w)
             \/ TableStep
             \/ UNCHANGED vars
      PROVE  FALSE
  BY <1>2 DEF Kick, KickInsert, KickCommit, KickAbort, Crash, HeartbeatList,
     HeartbeatExecute, TableStep, LeaseLapse, BecomeDue, Sweep, Cleanup, vars
<1>3. QED
  BY <1>1, <1>2 DEF Next

\* An attempt that is over stays over.
LEMMA EndedStays ==
    ASSUME TypeOK, IdsDrawn, [Next]_vars, NEW i, NEW a \in Nat, Ended(i, a)
    PROVE  Ended(i, a)'
<1> USE DEF Ended, Drawn
<1>t. /\ deliveries \subseteq Delivery /\ rows \in [DOMAIN rows -> Row]
      /\ last_id \in Nat /\ DOMAIN inserting = Producers
      /\ \A j \in DOMAIN rows : rows[j].retry_count \in Nat
  BY BrokerAssumption DEF TypeOK, Row
<1>1. ASSUME NEW p \in Producers, NEW labels \in AllLabels, KickInsert(p, labels)
      PROVE  Ended(i, a)'
  <2>1. i \in 1 .. last_id' /\ i # last_id + 1 /\ UNCHANGED <<rows, deliveries>>
    BY <1>1, <1>t DEF KickInsert
  <2>2. \A q \in Producers : i \notin DOMAIN inserting'[q]
    BY <1>1, <1>t, <2>1 DEF KickInsert
  <2>3. QED
    BY <2>1, <2>2
<1>2. ASSUME NEW p \in Producers, NEW when \in {0, 1}, NEW j \in DOMAIN inserting[p],
             KickCommit(p, j, when)
      PROVE  Ended(i, a)'
  <2>1. i # j
    OBVIOUS
  <2>2. \A q \in Producers : i \notin DOMAIN inserting'[q]
    BY <1>2, <1>t DEF KickCommit, Nothing
  <2>3. /\ UNCHANGED <<last_id, deliveries>> /\ DOMAIN rows' = DOMAIN rows \cup {j}
        /\ \A k \in DOMAIN rows \ {j} : rows'[k] = rows[k]
    BY <1>2 DEF KickCommit, InsertMessage
  <2>4. QED
    BY <2>1, <2>2, <2>3
<1>3. ASSUME NEW w \in Workers, NEW j \in DOMAIN rows, Dequeue(w, j)
      PROVE  Ended(i, a)'
  <2>1. /\ DOMAIN rows' = DOMAIN rows
        /\ rows'[j].retry_count = rows[j].retry_count + 1
        /\ \A k \in DOMAIN rows : k # j => rows'[k] = rows[k]
        /\ UNCHANGED <<last_id, inserting>>
    BY <1>3, <1>t DEF Dequeue, ClaimRow, Row
  <2>2. \A d \in deliveries' :
           d \in deliveries \/ (d.id = j /\ d.attempts = rows[j].retry_count + 1)
    BY <1>3, <2>1 DEF Dequeue
  <2>3. i = j => a < rows[j].retry_count + 1
    BY <1>t
  <2>4. i \in DOMAIN rows' => a <= rows'[i].retry_count
    BY <1>t, <2>1
  <2>5. \A d \in deliveries' : d.id = i /\ d.attempts = a => d \in deliveries
    BY <1>t, <2>2, <2>3
  <2>6. QED
    BY <2>1, <2>4, <2>5
<1>4. CASE Quiet /\ ~\E w \in Workers, j \in DOMAIN rows : Dequeue(w, j)
  <2>1. Drawn(i)' /\ (i \in DOMAIN rows' => a <= rows'[i].retry_count)
    BY <1>4, <1>t DEF Quiet, SameCounts, KeepsCounts, PendingShrinks
  <2>2. ASSUME NEW d \in deliveries', d.id = i, d.attempts = a
        PROVE  d.phase \in {"ended", "acked"}
    <3>1. CASE d \in deliveries
      BY <2>2, <3>1
    <3>2. CASE d \notin deliveries
      <4>1. PICK e \in deliveries, phase \in Phases :
               /\ deliveries' = Move(e, phase)
               /\ phase \notin {"ended", "acked"} => e.phase \notin {"ended", "acked"}
        BY <1>4, <3>2, NewPhase
      <4>2. d.id = e.id /\ d.attempts = e.attempts /\ d.phase = phase
        BY <4>1, <3>2, <1>t, MoveFacts
      <4>3. e.phase \in {"ended", "acked"}
        BY <4>2, <2>2
      <4>4. QED
        BY <4>1, <4>2, <4>3
    <3>3. QED
      BY <3>1, <3>2
  <2>3. QED
    BY <2>1, <2>2
<1>5. QED
  BY <1>1, <1>2, <1>3, <1>4, StepShape

\* A task that ends now was at no ack before, so nobody holds a result of it.
LEMMA EndsNow ==
    ASSUME TypeOK, IdsDrawn, OneHolderPerAttempt, NEW d \in deliveries, SameCounts,
           deliveries' = Move(d, "ended"), UNCHANGED <<last_id, inserting>>,
           d.phase \notin {"ended", "acked"}
    PROVE  /\ ~Ended(d.id, d.attempts)
           /\ Ended(d.id, d.attempts)'
<1>t. /\ deliveries \subseteq Delivery /\ rows \in [DOMAIN rows -> Row]
      /\ Drawn(d.id)
  BY DeliveredIsDrawn DEF TypeOK
<1>1. ~Ended(d.id, d.attempts)
  BY DEF Ended
<1>2. ASSUME NEW e \in deliveries', e.id = d.id, e.attempts = d.attempts
      PROVE  e.phase \in {"ended", "acked"}
  BY <1>2, <1>t, MoveFacts DEF OneHolderPerAttempt
<1>3. d.id \in DOMAIN rows' => d.attempts <= rows'[d.id].retry_count
  BY DEF OneHolderPerAttempt, SameCounts, KeepsCounts
<1>4. QED
  BY <1>1, <1>2, <1>3, <1>t DEF Ended, Drawn

\* Whatever result a receiver holds, has dropped or has saved is of an attempt
\* that is over.
ResultsAreOfEnded ==
    /\ \A o \in outcomes : Ended(o.id, o.attempts)
    /\ \A x \in absent : Ended(x.id, x.attempts)
    /\ \A i \in DOMAIN results : \A a \in Nat : results[i].attempts = a => Ended(i, a)

\* An attempt whose on_error raises is given up, and over with that.
LEMMA GivenUpNow ==
    ASSUME TypeOK, IdsDrawn, OneHolderPerAttempt, NEW d \in deliveries, SameCounts,
           deliveries' = deliveries \ {d}, UNCHANGED <<last_id, inserting>>,
           d.phase \notin {"ended", "acked"}
    PROVE  /\ ~Ended(d.id, d.attempts)
           /\ Ended(d.id, d.attempts)'
<1>1. ~Ended(d.id, d.attempts)
  BY DEF Ended
<1>2. \A e \in deliveries' : ~(e.id = d.id /\ e.attempts = d.attempts)
  BY DEF OneHolderPerAttempt
<1>3. d.id \in DOMAIN rows' => d.attempts <= rows'[d.id].retry_count
  BY DEF OneHolderPerAttempt, SameCounts, KeepsCounts
<1>4. QED
  BY <1>1, <1>2, <1>3, DeliveredIsDrawn DEF Ended, Drawn

Client == [phase : ReaderPhases, id : Ids \cup {0}, attempts : Nat]

\* What a client does next.
Reads(c) ==
    \/ \E i \in Awaits[c] \cap DOMAIN rows : Wait(c, i)
    \/ IsResultReady(c) \/ Select(c) \/ Return(c) \/ ReadError(c)

\* A client moves on by itself, and answers for what it deletes.
LEMMA ReaderStep ==
    ASSUME ReceiverTypeOK, NEW c \in Readers, Reads(c)
    PROVE  /\ readers' \in [Readers -> Client]
           /\ \A e \in Readers \ {c} : readers'[e] = readers[e]
           /\ readers[c].phase \in {"idle", "waiting", "ready", "selected"}
           /\ readers'[c].phase = "ready" => readers'[c].id \in DOMAIN results'
           /\ readers'[c].phase = "missing"
                 => /\ readers[c].phase = "ready" /\ readers'[c].id = readers[c].id
                    /\ readers[c].id \notin DOMAIN results
           /\ \/ results' = results
              \/ /\ ~KeepResults
                 /\ \E i \in DOMAIN results, a \in Nat :
                       /\ results[i].attempts = a
                       /\ results' = Without(i)
                       /\ Took(c, i, a)'
<1>t. /\ readers \in [Readers -> Client]
      /\ \A i \in DOMAIN results : results[i].attempts \in Nat
      /\ \A i \in Awaits[c] : i \in Ids
  BY ReceiverAssumption DEF ReceiverTypeOK, Client, Result
<1>1. ASSUME NEW phase \in ReaderPhases, Goes(c, phase)
      PROVE  /\ readers' \in [Readers -> Client]
             /\ \A e \in Readers \ {c} : readers'[e] = readers[e]
             /\ readers'[c].phase = phase /\ readers'[c].id = readers[c].id
             /\ readers'[c].attempts = readers[c].attempts
  BY <1>1, <1>t DEF Goes, Client
<1>2. ASSUME NEW phase \in ReaderPhases, NEW a \in Nat,
             readers' = [readers EXCEPT ![c].phase = phase, ![c].attempts = a]
      PROVE  /\ readers' \in [Readers -> Client]
             /\ \A e \in Readers \ {c} : readers'[e] = readers[e]
             /\ readers'[c].phase = phase /\ readers'[c].id = readers[c].id
             /\ readers'[c].attempts = a
  BY <1>2, <1>t DEF Client
<1>3. ASSUME NEW i \in Awaits[c], Wait(c, i)
      PROVE  /\ readers' \in [Readers -> Client]
             /\ \A e \in Readers \ {c} : readers'[e] = readers[e]
             /\ readers[c].phase = "idle" /\ readers'[c].phase = "waiting"
             /\ results' = results
  <2>1. /\ readers[c].phase = "idle" /\ results' = results
        /\ readers' = [readers EXCEPT ![c].phase = "waiting", ![c].id = i]
    BY <1>3 DEF Wait
  <2>2. QED
    BY <2>1, <1>t DEF Client, ReaderPhases
<1>4. CASE IsResultReady(c)
  BY <1>4, <1>1 DEF IsResultReady, ReaderPhases
<1>5. CASE Select(c)
  <2>1. readers[c].phase = "ready" /\ results' = results
    BY <1>5 DEF Select
  <2>2. CASE readers[c].id \in DOMAIN results
    <3>1. PICK a \in Nat : a = results[readers[c].id].attempts
      BY <2>2, <1>t
    <3>2. readers' = [readers EXCEPT ![c].phase = "selected", ![c].attempts = a]
      BY <1>5, <2>2, <3>1 DEF Select
    <3>3. QED
      BY <2>1, <3>2, <1>2 DEF ReaderPhases
  <2>3. CASE readers[c].id \notin DOMAIN results
    BY <1>5, <2>1, <2>3, <1>1 DEF Select, ReaderPhases
  <2>4. QED
    BY <2>2, <2>3
<1>6. CASE Return(c) \/ ReadError(c)
  <2>1. PICK phase \in {"answered", "failed"} :
           Delete(c, phase) \/ (Goes(c, phase) /\ results' = results)
    BY <1>6 DEF Return, ReadError
  <2>2. phase \in ReaderPhases /\ readers[c].phase = "selected"
    BY <1>6 DEF Return, ReadError, ReaderPhases
  <2>3. CASE ~KeepResults /\ readers[c].id \in DOMAIN results /\ Delete(c, phase)
    <3>1. PICK i \in DOMAIN results, a \in Nat : i = readers[c].id /\ a = results[readers[c].id].attempts
      BY <2>3, <1>t
    <3>2. /\ results' = Without(i)
          /\ readers' = [readers EXCEPT ![c].phase = phase, ![c].attempts = a]
      BY <2>3, <3>1 DEF Delete
    <3>3. /\ readers' \in [Readers -> Client]
          /\ \A e \in Readers \ {c} : readers'[e] = readers[e]
          /\ readers'[c].phase = phase /\ readers'[c].id = i
          /\ readers'[c].attempts = a
      BY <3>1, <3>2, <2>2, <1>2
    <3>4. Took(c, i, a)'
      BY <3>3, <2>1 DEF Took
    <3>5. QED
      BY <2>1, <2>2, <2>3, <3>1, <3>2, <3>3, <3>4
  <2>4. CASE Goes(c, phase) /\ results' = results
    BY <2>1, <2>2, <2>4, <1>1
  <2>5. QED
    BY <2>1, <2>3, <2>4 DEF Delete
<1>7. QED
  BY <1>3, <1>4, <1>5, <1>6 DEF Reads

\* Every step keeps the results well formed, and of attempts that are over.
LEMMA ResultsStep ==
    ASSUME TypeOK, IdsDrawn, OneHolderPerAttempt, ReceiverTypeOK, ResultsAreOfEnded,
           [ReceiverNext]_rvars
    PROVE  ReceiverTypeOK' /\ ResultsAreOfEnded'
<1> DEFINE Typed == /\ DOMAIN results \subseteq Ids
                    /\ \A i \in DOMAIN results : results[i] \in Result
                    /\ outcomes \subseteq Outcome
                    /\ absent \subseteq Absence
           Shape == readers \in [Readers -> Client]
           Single == /\ \A o, p \in outcomes :
                           o.id = p.id /\ o.attempts = p.attempts => o = p
                     /\ \A o \in outcomes, x \in absent :
                           o.id = x.id => o.attempts # x.attempts
           Inv == Typed /\ Single /\ ResultsAreOfEnded
<1>i. (Inv /\ Shape)' => ReceiverTypeOK' /\ ResultsAreOfEnded'
  BY DEF ReceiverTypeOK, Client
<1>t. Inv /\ Shape
  BY DEF ReceiverTypeOK, Client
<1>n. [Next]_vars
  BY StepIsBrokerStep
<1>d. \A d \in deliveries : d \in Delivery
  BY DEF TypeOK
<1>a. /\ \A o \in outcomes : /\ o.attempts \in Nat /\ o.id \in Ids /\ o.value \in Values
                             /\ o.worker \in Workers
      /\ \A x \in absent : x.attempts \in Nat
      /\ \A i \in DOMAIN results : results[i].attempts \in Nat
  BY <1>t DEF Outcome, Absence, Result
<1>e. /\ \A o \in outcomes : Ended(o.id, o.attempts)'
      /\ \A x \in absent : Ended(x.id, x.attempts)'
      /\ \A i \in DOMAIN results : \A a \in Nat : results[i].attempts = a => Ended(i, a)'
  BY <1>a, <1>n, EndedStays DEF ResultsAreOfEnded
<1>k. ASSUME outcomes' \subseteq outcomes, absent' \subseteq absent,
             DOMAIN results' \subseteq DOMAIN results,
             \A i \in DOMAIN results' : results'[i] = results[i]
      PROVE  Inv'
  <2>1. Typed' /\ Single'
    BY <1>k, <1>t
  <2>2. ResultsAreOfEnded'
    BY <1>k, <1>e DEF ResultsAreOfEnded
  <2>3. QED
    BY <2>1, <2>2
<1>x. ASSUME NEW d, NEW why, d.worker \in Workers, d.id \in Ids, d.attempts \in Nat,
             why \in Reasons
      PROVE  /\ Absent(d, why) \in Absence
             /\ Absent(d, why).id = d.id /\ Absent(d, why).attempts = d.attempts
  BY <1>x DEF Absent, Absence
\* A receiver drops the results of D, and records why.
<1>l. ASSUME NEW D \in SUBSET outcomes, NEW why \in Reasons, results' = results,
             outcomes' = outcomes \ D, absent' = absent \cup {Absent(o, why) : o \in D}
      PROVE  Inv'
  <2>1. \A o \in D : /\ Absent(o, why) \in Absence
                     /\ Absent(o, why).id = o.id /\ Absent(o, why).attempts = o.attempts
    BY <1>a, <1>x
  <2>2. Typed'
    BY <1>l, <2>1, <1>t
  <2>3. Single'
    BY <1>l, <2>1, <1>t
  <2>4. ResultsAreOfEnded'
    BY <1>l, <2>1, <1>e DEF ResultsAreOfEnded
  <2>5. QED
    BY <2>2, <2>3, <2>4
\* An attempt that ends now leaves a result, or none, or is dropped.
<1>g. ASSUME NEW d \in deliveries, results' = results,
             ~Ended(d.id, d.attempts), Ended(d.id, d.attempts)',
             \/ /\ \E value \in Values : outcomes' = outcomes \cup {OutcomeOf(d, value)}
                /\ absent' = absent
             \/ /\ \E why \in Reasons : absent' = absent \cup {Absent(d, why)}
                /\ outcomes' = outcomes
      PROVE  Inv'
  <2>1. d.worker \in Workers /\ d.id \in Ids /\ d.attempts \in Nat
    BY <1>d DEF Delivery
  <2>2. /\ \A o \in outcomes : ~(o.id = d.id /\ o.attempts = d.attempts)
        /\ \A x \in absent : ~(x.id = d.id /\ x.attempts = d.attempts)
    <3>1. \A o \in outcomes : ~(o.id = d.id /\ o.attempts = d.attempts)
      BY <1>g DEF ResultsAreOfEnded
    <3>2. \A x \in absent : ~(x.id = d.id /\ x.attempts = d.attempts)
      BY <1>g DEF ResultsAreOfEnded
    <3>3. QED
      BY <3>1, <3>2
  <2>3. CASE \E value \in Values : outcomes' = outcomes \cup {OutcomeOf(d, value)} /\ absent' = absent
    <3>1. PICK value \in Values : outcomes' = outcomes \cup {OutcomeOf(d, value)} /\ absent' = absent
      BY <2>3
    <3>2. PICK new : /\ new = OutcomeOf(d, value) /\ new.id = d.id
                     /\ new.attempts = d.attempts /\ new \in Outcome
      <4>1. /\ OutcomeOf(d, value).id = d.id
            /\ OutcomeOf(d, value).attempts = d.attempts
            /\ OutcomeOf(d, value) \in Outcome
        BY <2>1 DEF OutcomeOf, Outcome
      <4>2. QED
        BY <4>1
    <3>3. Typed'
      BY <1>g, <3>1, <3>2, <1>t
    <3>4. Single'
      BY <3>1, <3>2, <2>2, <1>t
    <3>5. ResultsAreOfEnded'
      BY <1>g, <3>1, <3>2, <1>e DEF ResultsAreOfEnded
    <3>6. QED
      BY <3>3, <3>4, <3>5
  <2>4. CASE \E why \in Reasons : absent' = absent \cup {Absent(d, why)} /\ outcomes' = outcomes
    <3>1. PICK why \in Reasons : absent' = absent \cup {Absent(d, why)} /\ outcomes' = outcomes
      BY <2>4
    <3>2. PICK new : /\ new = Absent(d, why) /\ new.id = d.id
                     /\ new.attempts = d.attempts /\ new \in Absence
      BY <2>1, <1>x
    <3>3. Typed'
      BY <1>g, <3>1, <3>2, <1>t
    <3>4. Single'
      BY <3>1, <3>2, <2>2, <1>t
    <3>5. ResultsAreOfEnded'
      BY <1>g, <3>1, <3>2, <1>e DEF ResultsAreOfEnded
    <3>6. QED
      BY <3>3, <3>4, <3>5
  <2>5. QED
    BY <1>g, <2>3, <2>4
<1>1. CASE Elsewhere
  BY <1>1, <1>k, <1>t, <1>i DEF Elsewhere, resultVars
<1>2. ASSUME NEW d \in deliveries, Finish(d) PROVE Inv' /\ Shape'
  <2>1. /\ deliveries' = Move(d, "ended") /\ d.phase = "running"
        /\ UNCHANGED <<rows, last_id, inserting, results, readers>>
    BY <1>2 DEF Finish, TaskEnds
  <2>2. ~Ended(d.id, d.attempts) /\ Ended(d.id, d.attempts)'
    BY <2>1, EndsNow DEF SameCounts, KeepsCounts
  <2>3. Inv'
    BY <1>2, <2>1, <2>2, <1>g DEF Finish, Reasons
  <2>4. QED
    BY <2>1, <2>3, <1>t
<1>3. ASSUME NEW d \in deliveries, Report(d) PROVE Inv' /\ Shape'
  <2>1. /\ deliveries' = Move(d, "ended") /\ d.phase \in {"retrying", "burying"}
        /\ rows' \in Released(d)
        /\ UNCHANGED <<last_id, inserting, results, absent, readers>>
    BY <1>3 DEF Report, Release
  <2>2. ~Ended(d.id, d.attempts) /\ Ended(d.id, d.attempts)'
    <3>1. SameCounts
      BY <2>1, RetryKeepsCounts, DeadKeepsCounts DEF SameCounts, Released, TypeOK
    <3>2. QED
      BY <2>1, <3>1, EndsNow
  <2>3. \E value \in Values : outcomes' \in {outcomes, outcomes \cup {OutcomeOf(d, value)}}
    BY <1>3 DEF Report, Values
  <2>4. Inv'
    BY <2>1, <2>2, <2>3, <1>g, <1>k
  <2>5. QED
    BY <2>1, <2>4, <1>t
<1>4. ASSUME NEW d \in deliveries, FailRelease(d) PROVE Inv' /\ Shape'
  <2>1. /\ deliveries' = deliveries \ {d} /\ d.phase \in {"retrying", "burying"}
        /\ rows' \in Released(d) \cup {rows}
        /\ UNCHANGED <<last_id, inserting, results, outcomes, readers>>
        /\ absent' = absent \cup {Absent(d, "unreleased")}
    BY <1>4 DEF FailRelease, ReleaseError
  <2>2. ~Ended(d.id, d.attempts) /\ Ended(d.id, d.attempts)'
    <3>1. SameCounts
      BY <2>1, RetryKeepsCounts, DeadKeepsCounts DEF SameCounts, KeepsCounts, Released, TypeOK
    <3>2. QED
      BY <2>1, <3>1, GivenUpNow
  <2>3. Inv'
    BY <2>1, <2>2, <1>g DEF Reasons
  <2>4. QED
    BY <2>1, <2>3, <1>t
<1>5. ASSUME NEW d \in deliveries, EndAck(d) PROVE Inv' /\ Shape'
  BY <1>5, <1>k, <1>t DEF EndAck, resultVars
<1>6. ASSUME NEW d \in deliveries, FailAck(d) PROVE Inv' /\ Shape'
  <2>1. /\ outcomes' = outcomes \ Unsaved(d) /\ UNCHANGED <<results, readers>>
        /\ absent' = absent \cup {Absent(o, "unacked") : o \in Unsaved(d)}
    BY <1>6 DEF FailAck
  <2>2. Unsaved(d) \subseteq outcomes /\ "unacked" \in Reasons
    BY DEF Unsaved, Reasons
  <2>3. QED
    BY <2>1, <2>2, <1>l, <1>t
<1>7. ASSUME NEW o \in outcomes, Save(o) \/ SaveError(o) PROVE Inv' /\ Shape'
  <2>1. /\ outcomes' = outcomes \ {o} /\ readers' = readers
        /\ \/ results' = SetResult(o) /\ absent' = absent
           \/ results' = results /\ absent' = absent \cup {Absent(o, "unsaved")}
    BY <1>7 DEF Save, SaveError
  <2>2. CASE results' = SetResult(o) /\ absent' = absent
    <3>1. /\ DOMAIN SetResult(o) = DOMAIN results \cup {o.id}
          /\ \A i \in DOMAIN results : i # o.id => SetResult(o)[i] = results[i]
          /\ SetResult(o)[o.id].attempts = o.attempts
          /\ SetResult(o)[o.id] \in Result
      BY <1>a DEF SetResult, Result
    <3>2. Typed' /\ Single'
      BY <2>1, <2>2, <3>1, <1>a, <1>t
    <3>3. ResultsAreOfEnded'
      <4>1. \A p \in outcomes' : Ended(p.id, p.attempts)'
        BY <2>1, <1>e
      <4>2. \A x \in absent' : Ended(x.id, x.attempts)'
        BY <2>2, <1>e
      <4>3. \A i \in DOMAIN results' : \A a \in Nat : results'[i].attempts = a => Ended(i, a)'
        BY <2>2, <3>1, <1>e
      <4>4. QED
        BY <4>1, <4>2, <4>3 DEF ResultsAreOfEnded
    <3>4. QED
      BY <2>1, <3>2, <3>3, <1>t
  <2>3. CASE results' = results /\ absent' = absent \cup {Absent(o, "unsaved")}
    <3>1. absent' = absent \cup {Absent(p, "unsaved") : p \in {o}}
      BY <2>3
    <3>2. Inv'
      BY <2>1, <2>3, <3>1, <1>l DEF Reasons
    <3>3. QED
      BY <2>1, <3>2, <1>t
  <2>4. QED
    BY <2>1, <2>2, <2>3
<1>8. ASSUME NEW w \in Workers, Die(w) PROVE Inv' /\ Shape'
  <2>1. PICK theirs : theirs = {o \in outcomes : o.worker = w}
    OBVIOUS
  <2>2. /\ outcomes' = outcomes \ theirs /\ UNCHANGED <<results, readers>>
        /\ absent' = absent \cup {Absent(o, "died") : o \in theirs}
    BY <1>8, <2>1 DEF Die
  <2>3. theirs \subseteq outcomes /\ "died" \in Reasons
    BY <2>1 DEF Reasons
  <2>4. QED
    BY <2>2, <2>3, <1>l, <1>t
<1>9. ASSUME NEW c \in Readers, Reads(c) PROVE Inv' /\ Shape'
  <2>1. UNCHANGED <<outcomes, absent>>
    BY <1>9 DEF Reads, Wait, IsResultReady, Select, Return, ReadError
  <2>2. /\ DOMAIN results' \subseteq DOMAIN results
        /\ \A i \in DOMAIN results' : results'[i] = results[i]
    BY <1>9, ReaderStep DEF Without
  <2>3. QED
    BY <1>9, <2>1, <2>2, <1>k, ReaderStep
<1>10. ASSUME NEW w \in Workers, NEW i \in DOMAIN rows, Claim(w, i) PROVE Inv' /\ Shape'
  BY <1>10, <1>k, <1>t DEF Claim
<1>11. CASE UNCHANGED rvars
  BY <1>11, <1>k, <1>t, <1>i DEF rvars
<1>12. QED
  BY <1>1, <1>2, <1>3, <1>4, <1>5, <1>6, <1>7, <1>8, <1>9, <1>10, <1>11, <1>i
     DEF ReceiverNext, Reads

\* Results and clients are well formed, and a receiver holds one result per attempt
\* and none it has dropped.
THEOREM ReceiverTypeCorrect == ReceiverSpec => []ReceiverTypeOK
<1>1. ReceiverInit => TypeOK /\ IdsDrawn /\ OneHolderPerAttempt
                       /\ ReceiverTypeOK /\ ResultsAreOfEnded
  BY BrokerAssumption DEF ReceiverInit, Init, TypeOK, IdsDrawn, OneHolderPerAttempt,
     ReceiverTypeOK, ResultsAreOfEnded, Nothing, Ids, ReaderPhases
<1>2. TypeOK /\ IdsDrawn /\ OneHolderPerAttempt /\ ReceiverTypeOK /\ ResultsAreOfEnded
         /\ [ReceiverNext]_rvars
      => TypeOK' /\ IdsDrawn' /\ OneHolderPerAttempt' /\ ReceiverTypeOK' /\ ResultsAreOfEnded'
  BY StepIsBrokerStep, TypeStep, IdsStep, HolderStep, ResultsStep
<1>3. QED
  BY <1>1, <1>2, PTL DEF ReceiverSpec
-----------------------------------------------------------------------------
TakenBy(c, i) == readers[c].id = i /\ readers[c].phase \in {"answered", "failed"}

\* A client that was told its result is ready finds it, unless another took it.
ReadyIsThere ==
    \A c \in Readers :
        readers[c].phase = "ready" =>
            \/ readers[c].id \in DOMAIN results
            \/ /\ ~KeepResults
               /\ \E e \in Readers \ {c} : TakenBy(e, readers[c].id)

\* get_result finds nothing after is_result_ready only when another client took
\* the result and deleted it.
THEOREM MissingMeansTakenHolds == ReceiverSpec => []MissingMeansTaken
<1> DEFINE Inv == ReadyIsThere /\ MissingMeansTaken
<1>1. ReceiverInit => Inv
  BY DEF ReceiverInit, ReadyIsThere, MissingMeansTaken
<1>2. Inv /\ ReceiverTypeOK /\ [ReceiverNext]_rvars => Inv'
  <2> SUFFICES ASSUME Inv, ReceiverTypeOK, [ReceiverNext]_rvars PROVE Inv'
    OBVIOUS
  <2> USE DEF ReadyIsThere, MissingMeansTaken, TakenBy
  <2>k. ASSUME readers' = readers, DOMAIN results \subseteq DOMAIN results' PROVE Inv'
    BY <2>k
  <2>1. ASSUME \/ Elsewhere
               \/ \E w \in Workers, i \in DOMAIN rows : Claim(w, i)
               \/ \E d \in deliveries :
                     Finish(d) \/ Report(d) \/ FailRelease(d) \/ EndAck(d) \/ FailAck(d)
               \/ \E w \in Workers : Die(w)
        PROVE  UNCHANGED <<results, readers>>
    BY <2>1 DEF Elsewhere, Claim, resultVars, Finish, Report, FailRelease, EndAck, FailAck, Die
  <2>2. ASSUME NEW o \in outcomes, Save(o) \/ SaveError(o) PROVE Inv'
    BY <2>2, <2>k DEF Save, SaveError, SetResult
  <2>3. ASSUME NEW c \in Readers, Reads(c) PROVE Inv'
    <3>1. /\ \A e \in Readers \ {c} : readers'[e] = readers[e]
          /\ readers[c].phase \notin {"answered", "failed"}
          /\ readers'[c].phase = "ready" => readers'[c].id \in DOMAIN results'
          /\ readers'[c].phase = "missing"
                => /\ readers[c].phase = "ready" /\ readers'[c].id = readers[c].id
                   /\ readers[c].id \notin DOMAIN results
      BY <2>3, ReaderStep
    <3>2. \A e \in Readers : \A i : TakenBy(e, i) => e # c /\ TakenBy(e, i)'
      BY <3>1
    <3>3. ASSUME NEW j, j \in DOMAIN results, j \notin DOMAIN results'
          PROVE  ~KeepResults /\ TakenBy(c, j)' /\ readers'[c].phase \notin {"ready", "missing"}
      <4>1. PICK i \in DOMAIN results, a \in Nat :
               ~KeepResults /\ results' = Without(i) /\ Took(c, i, a)'
        BY <2>3, <3>3, ReaderStep
      <4>2. i = j
        BY <3>3, <4>1 DEF Without
      <4>3. QED
        BY <4>1, <4>2 DEF Took
    <3>4. ReadyIsThere'
      <4> SUFFICES ASSUME NEW x \in Readers, readers'[x].phase = "ready",
                          NEW j, j = readers'[x].id, j \notin DOMAIN results'
                   PROVE  ~KeepResults /\ \E e \in Readers \ {x} : TakenBy(e, j)'
        OBVIOUS
      <4>1. x # c /\ readers'[x] = readers[x]
        BY <3>1
      <4>2. CASE j \in DOMAIN results
        BY <3>3, <4>1, <4>2
      <4>3. CASE j \notin DOMAIN results
        BY <3>2, <4>1, <4>3
      <4>4. QED
        BY <4>2, <4>3
    <3>5. MissingMeansTaken'
      <4> SUFFICES ASSUME NEW x \in Readers, readers'[x].phase = "missing",
                          NEW j, j = readers'[x].id
                   PROVE  ~KeepResults /\ \E e \in Readers \ {x} : TakenBy(e, j)'
        OBVIOUS
      <4>1. readers[x].id = j /\ ~KeepResults /\ \E e \in Readers \ {x} : TakenBy(e, j)
        BY <3>1
      <4>2. QED
        BY <4>1, <3>2
    <3>6. QED
      BY <3>4, <3>5
  <2>4. CASE UNCHANGED rvars
    BY <2>4, <2>k DEF rvars
  <2>5. QED
    BY <2>1, <2>2, <2>3, <2>4, <2>k DEF ReceiverNext, Reads
<1>3. QED
  BY <1>1, <1>2, ReceiverTypeCorrect, PTL DEF ReceiverSpec
-----------------------------------------------------------------------------
\* The delivery o came from is at its ack.
FromEnded(o) ==
    \E d \in deliveries :
        /\ d.phase = "ended"
        /\ d.worker = o.worker /\ d.id = o.id /\ d.attempts = o.attempts

\* A result waits to be saved by the worker that holds the row, or the message is
\* over: no other attempt of it is under way, and none will be.
OutcomesAreOwned == \A o \in outcomes : FromEnded(o) \/ Over(o.id)

\* With heartbeats on time, no step gives a result that waits a second owner.
LEMMA OwnedStep ==
    ASSUME TypeOK, IdsDrawn, OneHolderPerAttempt, LeasesHold, Timely, LeasesHold',
           ResultsAreOfEnded, OutcomesAreOwned, [ReceiverNext]_rvars
    PROVE  OutcomesAreOwned'
<1>t. /\ deliveries \subseteq Delivery
      /\ \A d \in deliveries : d.phase \notin {"retrying", "burying"}
  BY DEF TypeOK, LeasesHold
<1>o. \A o \in outcomes : Over(o.id) => Over(o.id)'
  BY OverStays, StepIsBrokerStep DEF ResultsAreOfEnded, Ended
<1>k. ASSUME outcomes' \subseteq outcomes,
             \A o \in outcomes' : \A d \in deliveries :
                /\ d.phase = "ended"
                /\ d.worker = o.worker /\ d.id = o.id /\ d.attempts = o.attempts
                => d \in deliveries' \/ Over(d.id)'
      PROVE  OutcomesAreOwned'
  BY <1>k, <1>o DEF OutcomesAreOwned, FromEnded
<1>1. ASSUME Elsewhere PROVE OutcomesAreOwned'
  <2>1. outcomes' = outcomes
    BY <1>1 DEF Elsewhere, resultVars
  <2>2. ASSUME NEW e \in deliveries,
               Yield(e) \/ LoseClaim(e) \/ TaskFails(e) \/ NoAck(e)
        PROVE  \A d \in deliveries : d.phase = "ended" => d \in deliveries'
    BY <2>2, <1>t DEF Yield, LoseClaim, TaskFails, NoAck, Timely, Move
  <2>3. ASSUME NEW e \in deliveries, AckComplete(e), NEW d \in deliveries, d.phase = "ended"
        PROVE  d \in deliveries' \/ Over(d.id)'
    <3>1. CASE d # e
      BY <2>3, <3>1 DEF AckComplete, Move
    <3>2. CASE d = e
      <4>1. PICK new : /\ new = [d EXCEPT !.phase = "acked"] /\ new \in deliveries'
        BY <2>3, <3>2 DEF AckComplete, Move
      <4>2. new.id = d.id /\ new.phase = "acked"
        BY <4>1, <1>t DEF Delivery
      <4>3. QED
        BY <4>1, <4>2 DEF LeasesHold
    <3>3. QED
      BY <3>1, <3>2
  <2>4. ASSUME \/ \E p \in Producers : Kick(p)
               \/ \E w \in Workers : HeartbeatList(w) \/ HeartbeatExecute(w)
               \/ TableStep
        PROVE  deliveries' = deliveries
    BY <2>4 DEF Kick, KickInsert, KickCommit, KickAbort, HeartbeatList, HeartbeatExecute,
       TableStep, LeaseLapse, BecomeDue, Sweep, Cleanup
  <2>5. \A d \in deliveries : d.phase = "ended" => d \in deliveries' \/ Over(d.id)'
    BY <1>1, <2>2, <2>3, <2>4 DEF Elsewhere
  <2>6. QED
    BY <2>1, <2>5, <1>k
<1>2. ASSUME NEW d \in deliveries, Finish(d) PROVE OutcomesAreOwned'
  <2>1. deliveries' = Move(d, "ended") /\ d.phase = "running"
    BY <1>2 DEF Finish, TaskEnds
  <2>2. \A e \in deliveries : e.phase = "ended" => e \in deliveries'
    BY <2>1 DEF Move
  <2>3. CASE outcomes' = outcomes
    BY <2>2, <2>3, <1>k
  <2>4. CASE \E value \in Values : outcomes' = outcomes \cup {OutcomeOf(d, value)}
    <3>1. PICK value \in Values : outcomes' = outcomes \cup {OutcomeOf(d, value)}
      BY <2>4
    <3>2. PICK new : new = [d EXCEPT !.phase = "ended"] /\ new \in deliveries'
      BY <2>1 DEF Move
    <3>3. new.worker = d.worker /\ new.id = d.id /\ new.attempts = d.attempts
          /\ new.phase = "ended"
      BY <3>2, <1>t DEF Delivery
    <3>4. PICK o : /\ o = OutcomeOf(d, value)
                   /\ o.worker = d.worker /\ o.id = d.id /\ o.attempts = d.attempts
      <4>1. /\ OutcomeOf(d, value).id = d.id
            /\ OutcomeOf(d, value).worker = d.worker
            /\ OutcomeOf(d, value).attempts = d.attempts
        BY DEF OutcomeOf
      <4>2. QED
        BY <4>1
    <3>5. FromEnded(o)'
      BY <3>2, <3>3, <3>4 DEF FromEnded
    <3>6. \A p \in outcomes : FromEnded(p)' \/ Over(p.id)'
      BY <2>2, <1>o DEF OutcomesAreOwned, FromEnded
    <3>7. QED
      BY <3>1, <3>4, <3>5, <3>6 DEF OutcomesAreOwned
  <2>5. QED
    BY <1>2, <2>3, <2>4 DEF Finish
<1>3. ASSUME NEW d \in deliveries, Report(d) \/ FailRelease(d) PROVE FALSE
  BY <1>3, <1>t DEF Report, FailRelease, Release, ReleaseError
<1>4. ASSUME NEW d \in deliveries, EndAck(d) PROVE OutcomesAreOwned'
  BY <1>4, <1>k DEF EndAck, AckDiscard, resultVars
<1>5. ASSUME NEW d \in deliveries, FailAck(d) PROVE OutcomesAreOwned'
  BY <1>5, <1>k DEF FailAck, AckError, Unsaved
<1>6. ASSUME NEW o \in outcomes, Save(o) \/ SaveError(o) PROVE OutcomesAreOwned'
  BY <1>6, <1>k DEF Save, SaveError, vars
<1>7. ASSUME NEW w \in Workers, Die(w) PROVE OutcomesAreOwned'
  BY <1>7, <1>k DEF Die, Crash
<1>8. ASSUME NEW c \in Readers,
             \/ \E i \in Awaits[c] \cap DOMAIN rows : Wait(c, i)
             \/ IsResultReady(c) \/ Select(c) \/ Return(c) \/ ReadError(c)
      PROVE  OutcomesAreOwned'
  BY <1>8, <1>k DEF Wait, IsResultReady, Select, Return, ReadError, vars
<1>9. ASSUME NEW w \in Workers, NEW i \in DOMAIN rows, Claim(w, i) PROVE OutcomesAreOwned'
  BY <1>9, <1>k DEF Claim, Dequeue
<1>10. CASE UNCHANGED rvars
  BY <1>10, <1>k DEF rvars
<1>11. QED
  BY <1>1, <1>2, <1>3, <1>4, <1>5, <1>6, <1>7, <1>8, <1>9, <1>10 DEF ReceiverNext

\* The holder of a row is the only one with a result of its message to save.
LEMMA HolderSaves ==
    ASSUME OneHolderPerAttempt, LeasesHold, OutcomesAreOwned,
           NEW d \in deliveries, d.phase \in Owning, NEW o \in outcomes, o.id = d.id
    PROVE  o.attempts = d.attempts /\ o.worker = d.worker
<1>1. Owns(rows, d.id, d.attempts)
  BY DEF LeasesHold, Keeps
<1>2. PICK e \in deliveries :
         /\ e.phase = "ended"
         /\ e.worker = o.worker /\ e.id = o.id /\ e.attempts = o.attempts
  BY <1>1 DEF OutcomesAreOwned, FromEnded, Over, Owns
<1>3. Owns(rows, e.id, e.attempts)
  BY <1>2 DEF LeasesHold, Keeps, Owning
<1>4. QED
  BY <1>1, <1>2, <1>3 DEF Owns, OneHolderPerAttempt

\* What is stored is never of a later attempt than what waits to be saved.
ResultsTrail ==
    /\ \A o, p \in outcomes : o.id = p.id => o.attempts = p.attempts
    /\ \A o \in outcomes :
          o.id \in DOMAIN results => results[o.id].attempts <= o.attempts

\* Since a result that waits has the one attempt that is not over, none that is
\* older comes after it.
LEMMA TrailStep ==
    ASSUME TypeOK, IdsDrawn, OneHolderPerAttempt, LeasesHold, Timely, ReceiverTypeOK,
           ResultsAreOfEnded, OutcomesAreOwned, ResultsTrail, [ReceiverNext]_rvars
    PROVE  ResultsTrail'
<1> USE DEF ResultsTrail
<1>a. /\ \A o \in outcomes : o.attempts \in Nat
      /\ \A i \in DOMAIN results : results[i].attempts \in Nat
      /\ \A d \in deliveries : d.attempts \in Nat
  BY DEF ReceiverTypeOK, Outcome, Result, TypeOK, Delivery
<1>k. ASSUME outcomes' \subseteq outcomes,
             \A i \in DOMAIN results' : i \in DOMAIN results /\ results'[i] = results[i]
      PROVE  ResultsTrail'
  BY <1>k
<1>1. CASE Elsewhere
  BY <1>1, <1>k DEF Elsewhere, resultVars
<1>2. ASSUME NEW d \in deliveries, Finish(d) PROVE ResultsTrail'
  <2>1. d.phase = "running" /\ results' = results
    BY <1>2 DEF Finish, TaskEnds
  <2>2. CASE outcomes' = outcomes
    BY <2>1, <2>2, <1>k
  <2>3. CASE \E value \in Values : outcomes' = outcomes \cup {OutcomeOf(d, value)}
    <3>1. PICK o : /\ outcomes' = outcomes \cup {o}
                   /\ o.id = d.id /\ o.attempts = d.attempts
      <4>1. PICK value \in Values : outcomes' = outcomes \cup {OutcomeOf(d, value)}
        BY <2>3
      <4>2. /\ OutcomeOf(d, value).id = d.id
            /\ OutcomeOf(d, value).attempts = d.attempts
        BY DEF OutcomeOf
      <4>3. QED
        BY <4>1, <4>2
    <3>2. \A p \in outcomes : p.id = o.id => p.attempts = o.attempts
      BY <2>1, <3>1, HolderSaves DEF Owning
    <3>3. d.id \in DOMAIN rows /\ rows[d.id].retry_count = d.attempts
      BY <2>1 DEF LeasesHold, Owning, Keeps, Owns
    <3>4. o.id \in DOMAIN results => results[o.id].attempts <= o.attempts
      BY <3>1, <3>3, <1>a DEF ResultsAreOfEnded, Ended
    <3>5. QED
      BY <2>1, <3>1, <3>2, <3>4
  <2>4. QED
    BY <1>2, <2>2, <2>3 DEF Finish
<1>3. ASSUME NEW d \in deliveries, Report(d) \/ FailRelease(d) PROVE FALSE
  BY <1>3 DEF Report, FailRelease, Release, ReleaseError, LeasesHold
<1>4. ASSUME NEW d \in deliveries, EndAck(d) \/ FailAck(d) PROVE ResultsTrail'
  BY <1>4, <1>k DEF EndAck, FailAck, resultVars
<1>5. ASSUME NEW o \in outcomes, Save(o) \/ SaveError(o) PROVE ResultsTrail'
  <2>1. outcomes' = outcomes \ {o} /\ results' \in {results, SetResult(o)}
    BY <1>5 DEF Save, SaveError
  <2>2. /\ DOMAIN SetResult(o) = DOMAIN results \cup {o.id}
        /\ \A i \in DOMAIN results : i # o.id => SetResult(o)[i] = results[i]
        /\ SetResult(o)[o.id].attempts = o.attempts
    BY DEF SetResult
  <2>3. QED
    BY <2>1, <2>2, <1>a
<1>6. ASSUME NEW w \in Workers, Die(w) PROVE ResultsTrail'
  BY <1>6, <1>k DEF Die
<1>7. ASSUME NEW c \in Readers,
             \/ \E i \in Awaits[c] \cap DOMAIN rows : Wait(c, i)
             \/ IsResultReady(c) \/ Select(c) \/ Return(c) \/ ReadError(c)
      PROVE  ResultsTrail'
  BY <1>7, <1>k DEF Wait, IsResultReady, Select, Return, ReadError, Delete, Without
<1>8. ASSUME NEW w \in Workers, NEW i \in DOMAIN rows, Claim(w, i) PROVE ResultsTrail'
  BY <1>8, <1>k DEF Claim
<1>9. CASE UNCHANGED rvars
  BY <1>9, <1>k DEF rvars
<1>10. QED
  BY <1>1, <1>2, <1>3, <1>4, <1>5, <1>6, <1>7, <1>8, <1>9 DEF ReceiverNext
-----------------------------------------------------------------------------
\* What may have become of an attempt whose set_result is over.
Accounted(d) ==
    \/ d.id \in DOMAIN results /\ results[d.id].attempts = d.attempts
    \/ \E c \in Readers : Took(c, d.id, d.attempts)
    \/ \E why \in {"none", "unsaved"} : Absent(d, why) \in absent

\* The result of a delivery at its ack waits, or is accounted for.
EndedIsAnswered ==
    \A d \in deliveries : d.phase = "ended" => Unsaved(d) # {} \/ Accounted(d)

\* With heartbeats on time, EndedIsAnswered is kept by every step.
LEMMA AnsweredStep ==
    ASSUME TypeOK, IdsDrawn, OneHolderPerAttempt, LeasesHold, Timely, ReceiverTypeOK,
           OutcomesAreOwned, EndedIsAnswered, [ReceiverNext]_rvars
    PROVE  EndedIsAnswered'
<1> DEFINE Has(d) == Unsaved(d) # {} \/ Accounted(d)
<1>o. \A d \in deliveries : d.phase = "ended" => Has(d)
  BY DEF EndedIsAnswered
<1>t. deliveries \subseteq Delivery
  BY DEF TypeOK
<1>s. (\A d \in deliveries' : d.phase = "ended" => Has(d)') => EndedIsAnswered'
  BY DEF EndedIsAnswered
<1>a. ASSUME NEW d, Accounted(d), results' = results, readers' = readers,
             \A x \in absent : x.id = d.id => x \in absent'
      PROVE  Accounted(d)'
  <2>1. \A why : Absent(d, why).id = d.id
    BY DEF Absent
  <2>2. QED
    BY <1>a, <2>1 DEF Accounted, Took
<1>k. ASSUME \A d \in deliveries' : d.phase = "ended" => d \in deliveries,
             \A d \in deliveries' : d.phase = "ended" => Unsaved(d) \subseteq outcomes',
             results' = results, readers' = readers,
             \A d \in deliveries' : d.phase = "ended" =>
                \A x \in absent : x.id = d.id => x \in absent'
      PROVE  EndedIsAnswered'
  <2>1. ASSUME NEW d \in deliveries', d.phase = "ended" PROVE Has(d)'
    <3>1. CASE Unsaved(d) # {}
      BY <1>k, <2>1, <3>1 DEF Unsaved
    <3>2. CASE Accounted(d)
      BY <1>k, <2>1, <3>2, <1>a
    <3>3. QED
      BY <1>k, <2>1, <3>1, <3>2, <1>o
  <2>2. QED
    BY <2>1, <1>s
<1>1. ASSUME Elsewhere PROVE EndedIsAnswered'
  <2>1. UNCHANGED resultVars
    BY <1>1 DEF Elsewhere
  <2>2. ASSUME NEW e \in deliveries,
               \/ Yield(e) \/ LoseClaim(e) \/ TaskFails(e)
               \/ AckComplete(e) \/ NoAck(e)
        PROVE  \A d \in deliveries' : d.phase = "ended" => d \in deliveries
    <3>1. CASE LoseClaim(e) \/ NoAck(e)
      BY <3>1 DEF LoseClaim, NoAck
    <3>2. ASSUME NEW phase, phase # "ended", deliveries' = Move(e, phase)
          PROVE  \A d \in deliveries' : d.phase = "ended" => d \in deliveries
      BY <3>2, <1>t, MoveFacts
    <3>3. CASE Yield(e) \/ AckComplete(e)
      BY <3>2, <3>3 DEF Yield, AckComplete
    <3>4. CASE TaskFails(e)
      BY <3>4 DEF TaskFails, Timely
    <3>5. QED
      BY <2>2, <3>1, <3>3, <3>4
  <2>3. ASSUME \/ \E p \in Producers : Kick(p)
               \/ \E w \in Workers : HeartbeatList(w) \/ HeartbeatExecute(w)
               \/ TableStep
        PROVE  deliveries' = deliveries
    BY <2>3 DEF Kick, KickInsert, KickCommit, KickAbort, HeartbeatList, HeartbeatExecute,
       TableStep, LeaseLapse, BecomeDue, Sweep, Cleanup
  <2>4. \A d \in deliveries' : d.phase = "ended" => d \in deliveries
    BY <1>1, <2>2, <2>3 DEF Elsewhere
  <2>5. QED
    BY <2>1, <2>4, <1>k DEF resultVars, Unsaved
<1>2. ASSUME NEW d \in deliveries, Finish(d) PROVE EndedIsAnswered'
  <2>1. /\ deliveries' = Move(d, "ended") /\ UNCHANGED <<results, readers>>
        /\ \/ /\ \E value \in Values : outcomes' = outcomes \cup {OutcomeOf(d, value)}
              /\ absent' = absent
           \/ outcomes' = outcomes /\ absent' = absent \cup {Absent(d, "none")}
    BY <1>2 DEF Finish, TaskEnds
  <2>2. ASSUME NEW e \in deliveries, e.phase = "ended" PROVE Has(e)'
    <3>1. Unsaved(e) \subseteq Unsaved(e)'
      BY <2>1 DEF Unsaved
    <3>2. Accounted(e) => Accounted(e)'
      BY <2>1, <1>a
    <3>3. QED
      BY <2>2, <3>1, <3>2, <1>o
  <2>3. ASSUME NEW e, e.id = d.id, e.attempts = d.attempts, e.worker = d.worker
        PROVE  Has(e)'
    <3>1. CASE \E value \in Values : outcomes' = outcomes \cup {OutcomeOf(d, value)}
      <4>1. PICK value \in Values : outcomes' = outcomes \cup {OutcomeOf(d, value)}
        BY <3>1
      <4>2. /\ OutcomeOf(d, value).id = e.id
            /\ OutcomeOf(d, value).attempts = e.attempts
        BY <2>3 DEF OutcomeOf
      <4>3. Unsaved(e)' # {}
        BY <4>1, <4>2 DEF Unsaved
      <4>4. QED
        BY <4>3
    <3>2. CASE Absent(d, "none") \in absent'
      <4>1. Absent(e, "none") = Absent(d, "none")
        BY <2>3 DEF Absent
      <4>2. QED
        BY <3>2, <4>1 DEF Accounted
    <3>3. QED
      BY <2>1, <3>1, <3>2
  <2>4. QED
    BY <2>1, <2>2, <2>3, <1>s, <1>t, MoveFacts
<1>3. ASSUME NEW d \in deliveries, Report(d) \/ FailRelease(d) PROVE FALSE
  BY <1>3 DEF Report, FailRelease, Release, ReleaseError, LeasesHold
<1>4. ASSUME NEW d \in deliveries, EndAck(d) \/ FailAck(d) PROVE EndedIsAnswered'
  <2>1. /\ deliveries' = deliveries \ {d} /\ UNCHANGED <<results, readers>>
        /\ absent \subseteq absent'
        /\ outcomes' \in {outcomes, outcomes \ Unsaved(d)}
    BY <1>4 DEF EndAck, AckDiscard, FailAck, AckError, resultVars
  <2>2. ASSUME NEW e \in deliveries', e.phase = "ended" PROVE Unsaved(e) \subseteq outcomes'
    <3>1. e \in deliveries /\ ~(e.id = d.id /\ e.attempts = d.attempts)
      BY <2>1, <2>2 DEF OneHolderPerAttempt
    <3>2. QED
      BY <2>1, <3>1 DEF Unsaved
  <2>3. QED
    BY <2>1, <2>2, <1>k
<1>5. ASSUME NEW o \in outcomes, Save(o) \/ SaveError(o) PROVE EndedIsAnswered'
  <2>1. /\ outcomes' = outcomes \ {o} /\ UNCHANGED <<deliveries, readers>>
        /\ \/ results' = SetResult(o) /\ absent' = absent
           \/ results' = results /\ absent' = absent \cup {Absent(o, "unsaved")}
    BY <1>5 DEF Save, SaveError, vars
  <2>2. /\ DOMAIN SetResult(o) = DOMAIN results \cup {o.id}
        /\ \A i \in DOMAIN results : i # o.id => SetResult(o)[i] = results[i]
        /\ SetResult(o)[o.id].attempts = o.attempts
    BY DEF SetResult
  <2>3. ASSUME NEW d \in deliveries, d.phase = "ended" PROVE Has(d)'
    <3>1. CASE d.id = o.id
      <4>1. o.attempts = d.attempts /\ o.worker = d.worker
        BY <2>3, <3>1, HolderSaves DEF Owning
      <4>2. Absent(d, "unsaved") = Absent(o, "unsaved")
        BY <3>1, <4>1 DEF Absent
      <4>3. QED
        BY <2>1, <2>2, <3>1, <4>1, <4>2 DEF Accounted
    <3>2. CASE d.id # o.id
      <4>1. Unsaved(d)' = Unsaved(d)
        BY <2>1, <3>2 DEF Unsaved
      <4>2. Accounted(d) => Accounted(d)'
        <5>1. absent \subseteq absent'
          BY <2>1
        <5>2. d.id \in DOMAIN results
                 => d.id \in DOMAIN results' /\ results'[d.id] = results[d.id]
          BY <2>1, <2>2, <3>2
        <5>3. QED
          BY <2>1, <5>1, <5>2 DEF Accounted, Took
      <4>3. QED
        BY <2>3, <4>1, <4>2, <1>o
    <3>3. QED
      BY <3>1, <3>2
  <2>4. QED
    BY <2>1, <2>3, <1>s
<1>6. ASSUME NEW w \in Workers, Die(w) PROVE EndedIsAnswered'
  <2>1. /\ deliveries' = {d \in deliveries : d.worker # w} /\ UNCHANGED <<results, readers>>
        /\ outcomes' = outcomes \ {o \in outcomes : o.worker = w}
        /\ absent \subseteq absent'
    BY <1>6 DEF Die, Crash
  <2>2. ASSUME NEW d \in deliveries', d.phase = "ended" PROVE Unsaved(d) \subseteq outcomes'
    <3>1. d \in deliveries /\ d.worker # w
      BY <2>1
    <3>2. \A o \in Unsaved(d) : o.worker = d.worker
      BY <2>2, <3>1, HolderSaves DEF Owning, Unsaved
    <3>3. QED
      BY <2>1, <3>1, <3>2 DEF Unsaved
  <2>3. QED
    BY <2>1, <2>2, <1>k
<1>7. ASSUME NEW c \in Readers, Reads(c) PROVE EndedIsAnswered'
  <2>1. UNCHANGED <<deliveries, outcomes, absent>>
    BY <1>7 DEF Reads, Wait, IsResultReady, Select, Return, ReadError, vars
  <2>2. \A e \in Readers : \A i, a : Took(e, i, a) => Took(e, i, a)'
    BY <1>7, ReaderStep DEF Took
  <2>3. ASSUME NEW d \in deliveries, d.phase = "ended" PROVE Has(d)'
    <3>1. Unsaved(d)' = Unsaved(d)
      BY <2>1 DEF Unsaved
    <3>2. ASSUME d.id \in DOMAIN results, results[d.id].attempts = d.attempts
          PROVE  Accounted(d)'
      <4>1. CASE results' = results
        BY <3>2, <4>1 DEF Accounted
      <4>2. ASSUME NEW i, NEW a, results[i].attempts = a, results' = Without(i),
                   Took(c, i, a)'
            PROVE  Accounted(d)'
        <5>1. CASE i = d.id
          <6>1. d.attempts = a
            BY <4>2, <5>1, <3>2
          <6>2. QED
            BY <4>2, <5>1, <6>1 DEF Accounted, Took
        <5>2. CASE i # d.id
          BY <4>2, <5>2, <3>2 DEF Accounted, Without
        <5>3. QED
          BY <5>1, <5>2
      <4>3. QED
        BY <4>1, <4>2, <1>7, ReaderStep
    <3>3. Accounted(d) => Accounted(d)'
      BY <2>1, <2>2, <3>2 DEF Accounted
    <3>4. QED
      BY <2>3, <3>1, <3>3, <1>o
  <2>4. QED
    BY <2>1, <2>3, <1>s
<1>8. ASSUME NEW w \in Workers, NEW i \in DOMAIN rows, Claim(w, i) PROVE EndedIsAnswered'
  <2>1. /\ UNCHANGED <<results, outcomes, readers>> /\ rows[i].status = "queued"
        /\ absent' = {x \in absent : x.id # i}
    BY <1>8 DEF Claim, Dequeue, Claimable
  <2>2. \A d \in deliveries' : d.phase = "ended" => d \in deliveries
    BY <1>8 DEF Claim, Dequeue
  <2>3. \A d \in deliveries : d.phase = "ended" => d.id # i
    BY <2>1 DEF LeasesHold, Owning, Keeps, Owns
  <2>4. QED
    BY <2>1, <2>2, <2>3, <1>k DEF Unsaved
<1>9. CASE UNCHANGED rvars
  BY <1>9, <1>k DEF rvars, Unsaved
<1>10. QED
  BY <1>1, <1>2, <1>3, <1>4, <1>5, <1>6, <1>7, <1>8, <1>9 DEF ReceiverNext, Reads

\* All of this together, in every behaviour.
LEMMA ResultsInvariant ==
    ReceiverSpec => [](/\ TypeOK /\ IdsDrawn /\ OneHolderPerAttempt
                       /\ ReceiverTypeOK /\ ResultsAreOfEnded
                       /\ Timely => /\ LeasesHold /\ OutcomesAreOwned
                                    /\ ResultsTrail /\ EndedIsAnswered)
<1> DEFINE Always == /\ TypeOK /\ IdsDrawn /\ OneHolderPerAttempt
                     /\ ReceiverTypeOK /\ ResultsAreOfEnded
           InTime == /\ LeasesHold /\ OutcomesAreOwned
                     /\ ResultsTrail /\ EndedIsAnswered
           Inv == Always /\ (Timely => InTime)
<1>1. ReceiverInit => Inv
  <2> SUFFICES ASSUME ReceiverInit PROVE Inv
    OBVIOUS
  <2>1. Always
    BY BrokerAssumption DEF ReceiverInit, Init, TypeOK, IdsDrawn, OneHolderPerAttempt,
       ReceiverTypeOK, ResultsAreOfEnded, Nothing, Ids, ReaderPhases
  <2>2. InTime
    BY DEF ReceiverInit, Init, LeasesHold, OutcomesAreOwned, ResultsTrail, EndedIsAnswered
  <2>3. QED
    BY <2>1, <2>2
<1>2. Inv /\ [ReceiverNext]_rvars => Inv'
  <2> SUFFICES ASSUME Inv, [ReceiverNext]_rvars PROVE Inv'
    OBVIOUS
  <2>1. [Next]_vars
    BY StepIsBrokerStep
  <2>2. Always'
    BY <2>1, TypeStep, IdsStep, HolderStep, ResultsStep
  <2>3. ASSUME Timely PROVE InTime'
    <3>1. LeasesHold'
      BY <2>1, <2>3, LeaseStep
    <3>2. OutcomesAreOwned' /\ ResultsTrail' /\ EndedIsAnswered'
      BY <2>3, <3>1, OwnedStep, TrailStep, AnsweredStep
    <3>3. QED
      BY <3>1, <3>2
  <2>4. QED
    BY <2>2, <2>3 DEF Timely
<1>3. QED
  BY <1>1, <1>2, PTL DEF ReceiverSpec

\* With heartbeats on time, the result of an attempt is never overwritten by an
\* earlier attempt's, although saving is not fenced.
THEOREM ResultsMoveForwardHolds ==
    ASSUME Timely PROVE ReceiverSpec => ResultsMoveForward
<1> DEFINE Forward == \A i \in DOMAIN results \cap DOMAIN results' :
                         results[i].attempts <= results'[i].attempts
<1>1. ReceiverTypeOK /\ (Timely => ResultsTrail) /\ [ReceiverNext]_rvars => [Forward]_rvars
  <2> SUFFICES ASSUME ReceiverTypeOK, ResultsTrail, ReceiverNext PROVE Forward
    OBVIOUS
  <2>1. \A i \in DOMAIN results : results[i].attempts \in Nat
    BY DEF ReceiverTypeOK, Result
  <2>2. ASSUME NEW o \in outcomes, Save(o) \/ SaveError(o) PROVE Forward
    BY <2>1, <2>2 DEF Save, SaveError, SetResult, ResultsTrail
  <2>3. ASSUME NEW c \in Readers,
               \/ \E i \in Awaits[c] \cap DOMAIN rows : Wait(c, i)
               \/ IsResultReady(c) \/ Select(c) \/ Return(c) \/ ReadError(c)
        PROVE  Forward
    BY <2>1, <2>3 DEF Wait, IsResultReady, Select, Return, ReadError, Delete, Without
  <2>4. ASSUME \/ Elsewhere
               \/ \E w \in Workers, i \in DOMAIN rows : Claim(w, i)
               \/ \E d \in deliveries :
                     Finish(d) \/ Report(d) \/ FailRelease(d) \/ EndAck(d) \/ FailAck(d)
               \/ \E w \in Workers : Die(w)
        PROVE  results' = results
    BY <2>4 DEF Elsewhere, Claim, resultVars, Finish, Report, FailRelease, EndAck,
       FailAck, Die
  <2>5. QED
    BY <2>1, <2>2, <2>3, <2>4 DEF ReceiverNext
<1>2. QED
  BY <1>1, ResultsInvariant, PTL DEF ReceiverSpec, ResultsMoveForward

\* Only the ack of the delivery that counts as the row does completes a row.
LEMMA CompletedByAck ==
    ASSUME TypeOK, IdsDrawn, [Next]_vars, NEW i \in DOMAIN rows \cap DOMAIN rows',
           rows[i].status # "completed", rows'[i].status = "completed"
    PROVE  /\ ~\E p \in Producers : Kick(p)
           /\ ~\E w \in Workers, j \in DOMAIN rows : Dequeue(w, j)
           /\ ~\E w \in Workers : Crash(w) \/ HeartbeatList(w) \/ HeartbeatExecute(w)
           /\ ~TableStep
           /\ \A d \in deliveries :
                 DeliveryStep(d) => /\ AckComplete(d) \/ AckError(d)
                                    /\ d.id = i /\ d.attempts = rows[i].retry_count
<1>t. /\ rows \in [DOMAIN rows -> Row] /\ DOMAIN inserting = Producers
      /\ \A p \in Producers : DOMAIN inserting[p] \cap DOMAIN rows = {}
  BY DEF TypeOK
<1>c. /\ ~CompletedAs(rows, i, rows'[i].retry_count)
      /\ CompletedAs(rows', i, rows'[i].retry_count)
  BY DEF CompletedAs
<1>1. ASSUME NEW p \in Producers, Kick(p) PROVE FALSE
  <2>1. CASE rows' = rows
    BY <2>1
  <2>2. ASSUME NEW j \in DOMAIN inserting[p], NEW when \in {0, 1}, KickCommit(p, j, when)
        PROVE  FALSE
    <3>1. rows'[i] = rows[i]
      BY <2>2, <1>t DEF KickCommit, InsertMessage
    <3>2. QED
      BY <3>1
  <2>3. QED
    BY <1>1, <2>1, <2>2 DEF Kick, KickInsert, KickAbort
<1>2. ASSUME NEW w \in Workers, NEW j \in DOMAIN rows, Dequeue(w, j) PROVE FALSE
  BY <1>2, <1>t DEF Dequeue, ClaimRow, Row
<1>3. ASSUME NEW d \in deliveries, DeliveryStep(d)
      PROVE  /\ AckComplete(d) \/ AckError(d)
             /\ d.id = i /\ d.attempts = rows[i].retry_count
  <2>1. ASSUME rows' \in Released(d) \cup {rows} PROVE FALSE
    BY <2>1, <1>t, <1>c, OnlyAckCompletes DEF Released
  <2>2. CASE \/ Yield(d) \/ LoseClaim(d) \/ TaskFails(d) \/ Release(d)
             \/ ReleaseError(d) \/ TaskEnds(d) \/ AckDiscard(d) \/ NoAck(d)
    BY <2>1, <2>2 DEF Yield, LoseClaim, TaskFails, Release, ReleaseError, TaskEnds,
       AckDiscard, NoAck
  <2>3. CASE AckComplete(d) \/ AckError(d)
    <3>1. rows' = CompleteMessage(rows, d.id, d.attempts)
      BY <2>3 DEF AckComplete, AckError
    <3>2. d.id = i /\ Owns(rows, d.id, d.attempts)
      BY <3>1, <1>t DEF CompleteMessage
    <3>3. QED
      BY <2>3, <3>2 DEF Owns
  <2>4. QED
    BY <1>3, <2>2, <2>3 DEF DeliveryStep
<1>4. ASSUME NEW w \in Workers, Crash(w) \/ HeartbeatList(w) \/ HeartbeatExecute(w)
      PROVE  FALSE
  BY <1>4, <1>t, <1>c, OnlyAckCompletes DEF Crash, HeartbeatList, HeartbeatExecute
<1>5. ASSUME NEW j \in DOMAIN rows, LeaseLapse(j) \/ BecomeDue(j) PROVE FALSE
  BY <1>5, <1>t DEF LeaseLapse, BecomeDue, Row
<1>6. ASSUME NEW S \in SUBSET DOMAIN rows, Sweep(S) \/ Cleanup(S) PROVE FALSE
  BY <1>6, <1>t, <1>c, OnlyAckCompletes DEF Sweep, Cleanup
<1>7. QED
  BY <1>1, <1>2, <1>3, <1>4, <1>5, <1>6 DEF TableStep

\* With heartbeats on time a message is completed by the delivery that has its
\* row's count, and under when_saved once set_result is over for that attempt: its
\* result is stored or a client took it, or the task left none, or set_result
\* raised.
THEOREM CompletedHasResultHolds ==
    ASSUME Timely PROVE ReceiverSpec => CompletedHasResult
<1> DEFINE Answering(i, d) ==
               /\ d.id = i /\ d.attempts = rows[i].retry_count
               /\ AckType[d.worker] = "when_saved" => Accounted(d)
           Ends(i) == rows[i].status # "completed" /\ rows'[i].status = "completed"
<1>1. /\ TypeOK /\ IdsDrawn /\ (Timely => EndedIsAnswered)
      /\ [ReceiverNext]_rvars
      => [\A i \in DOMAIN rows \cap DOMAIN rows' :
             Ends(i) => \E d \in deliveries : Answering(i, d)]_rvars
  <2> SUFFICES ASSUME TypeOK, IdsDrawn, EndedIsAnswered, ReceiverNext,
                      NEW i \in DOMAIN rows \cap DOMAIN rows', Ends(i)
               PROVE  \E d \in deliveries : Answering(i, d)
    OBVIOUS
  <2> DEFINE Acked(d) == /\ d.phase = "ended" /\ MayAck(d)
                         /\ d.id = i /\ d.attempts = rows[i].retry_count
  <2>1. /\ ~\E p \in Producers : Kick(p)
        /\ ~\E w \in Workers, j \in DOMAIN rows : Dequeue(w, j)
        /\ ~\E w \in Workers : Crash(w) \/ HeartbeatList(w) \/ HeartbeatExecute(w)
        /\ ~TableStep
        /\ \A d \in deliveries :
              DeliveryStep(d) => /\ AckComplete(d) \/ AckError(d)
                                 /\ d.id = i /\ d.attempts = rows[i].retry_count
    BY CompletedByAck, StepIsBrokerStep
  <2>2. \A d \in deliveries : DeliveryStep(d) => d.phase = "ended"
    BY <2>1 DEF AckComplete, AckError
  <2>3. ASSUME Elsewhere PROVE \E d \in deliveries : Acked(d)
    <3>1. PICK d \in deliveries :
             \/ Yield(d) \/ LoseClaim(d) \/ TaskFails(d)
             \/ (MayAck(d) /\ AckComplete(d)) \/ NoAck(d)
      BY <2>1, <2>3 DEF Elsewhere
    <3>2. ~(Yield(d) \/ LoseClaim(d) \/ TaskFails(d) \/ NoAck(d))
      BY <2>2 DEF DeliveryStep, Yield, LoseClaim, TaskFails, NoAck
    <3>3. Acked(d)
      BY <2>1, <2>2, <3>1, <3>2 DEF DeliveryStep
    <3>4. QED
      BY <3>3
  <2>4. ASSUME NEW d \in deliveries, Finish(d) \/ Report(d) \/ FailRelease(d) \/ EndAck(d)
        PROVE  FALSE
    BY <2>2, <2>4 DEF Finish, Report, FailRelease, EndAck, DeliveryStep, TaskEnds, Release,
       ReleaseError, AckDiscard
  <2>5. ASSUME NEW d \in deliveries, FailAck(d) PROVE Acked(d)
    BY <2>1, <2>2, <2>5 DEF FailAck, DeliveryStep
  <2>6. ASSUME \/ \E w \in Workers : Die(w)
               \/ \E w \in Workers, j \in DOMAIN rows : Claim(w, j)
        PROVE  FALSE
    BY <2>1, <2>6 DEF Die, Claim
  <2>7. ASSUME UNCHANGED vars PROVE FALSE
    BY <2>7 DEF vars
  <2>8. PICK d \in deliveries : Acked(d)
    BY <2>3, <2>4, <2>5, <2>6, <2>7
       DEF ReceiverNext, Save, SaveError, Wait, IsResultReady, Select, Return, ReadError
  <2>9. AckType[d.worker] = "when_saved" => Accounted(d)
    BY <2>8 DEF MayAck, EndedIsAnswered
  <2>10. QED
    BY <2>8, <2>9
<1>2. (\A i \in DOMAIN rows \cap DOMAIN rows' :
          Ends(i) => \E d \in deliveries : Answering(i, d))
      => \A i \in DOMAIN rows \cap DOMAIN rows' :
            Ends(i)
            => \E d \in deliveries :
                  /\ d.id = i /\ d.attempts = rows[i].retry_count
                  /\ AckType[d.worker] = "when_saved"
                     => \/ i \in DOMAIN results /\ results[i].attempts = d.attempts
                        \/ \E c \in Readers : Took(c, i, d.attempts)
                        \/ \E why \in {"none", "unsaved"} : Absent(d, why) \in absent
  BY DEF Accounted
<1>3. QED
  BY <1>1, <1>2, ResultsInvariant, PTL DEF ReceiverSpec, CompletedHasResult
===============================================================================
