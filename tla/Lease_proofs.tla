---------------------------- MODULE Lease_proofs ----------------------------
(***************************************************************************)
(* The two bounds of Lease, for all settings and delays.                   *)
(***************************************************************************)
EXTENDS Lease, TLAPS

\* Products of a counter and a period, for provers that cannot multiply.
LEMMA Debts ==
    ASSUME NEW K \in Nat, NEW m \in 0 .. K, NEW P \in Nat
    PROVE  /\ m * P \in Nat
           /\ K * P \in Nat
           /\ m * P <= K * P
           /\ (m + 1) * P = m * P + P
           /\ m < K => m * P + P <= K * P
  <1>1. m * P \in Nat /\ K * P \in Nat
    OBVIOUS
  <1>2. (m + 1) * P = m * P + P
    OBVIOUS
  <1>3. PICK r \in Nat : K = m + r
    <2>1. K - m \in Nat /\ K = m + (K - m)
      OBVIOUS
    <2> QED
      BY <2>1
  <1>4. K * P = m * P + r * P /\ r * P \in Nat
    BY <1>3
  <1>5. m < K => r * P >= P
    <2> SUFFICES ASSUME m < K PROVE r * P >= P
      OBVIOUS
    <2>1. PICK q \in Nat : r = q + 1
      <3>1. r - 1 \in Nat /\ r = (r - 1) + 1
        BY <1>3
      <3> QED
        BY <3>1
    <2>2. r * P = q * P + P /\ q * P \in Nat
      BY <2>1
    <2> QED
      BY <2>2
  <1> QED
    BY <1>1, <1>2, <1>4, <1>5

\* What the failed rounds cost so far, and what one more costs.
LEMMA DebtFacts ==
    ASSUME TypeOK
    PROVE  /\ Period \in Nat /\ SweepPeriod \in Nat
           /\ missedBeats * Period \in Nat
           /\ missedBeats * Period <= MissedBeats * Period
           /\ (missedBeats + 1) * Period = missedBeats * Period + Period
           /\ missedBeats < MissedBeats =>
                 missedBeats * Period + Period <= MissedBeats * Period
           /\ MissedBeats * Period \in Nat
           /\ LeaseBound = ClaimDelay + Delay + MissedBeats * Period + Period
           /\ missedSweeps * SweepPeriod \in Nat
           /\ missedSweeps * SweepPeriod <= MissedSweeps * SweepPeriod
           /\ (missedSweeps + 1) * SweepPeriod = missedSweeps * SweepPeriod + SweepPeriod
           /\ MissedSweeps * SweepPeriod \in Nat
           /\ ReclaimBound = stuck_message_timeout + MissedSweeps * SweepPeriod
                              + SweepPeriod
           /\ 0 * Period = 0 /\ 0 * SweepPeriod = 0
  <1>1. Period \in Nat /\ SweepPeriod \in Nat
    BY LeaseAssumption DEF Period, SweepPeriod
  <1>2. missedBeats \in 0 .. MissedBeats /\ missedSweeps \in 0 .. MissedSweeps
        /\ MissedBeats \in Nat /\ MissedSweeps \in Nat
    BY LeaseAssumption DEF TypeOK
  <1>3. /\ missedBeats * Period \in Nat
        /\ missedBeats * Period <= MissedBeats * Period
        /\ (missedBeats + 1) * Period = missedBeats * Period + Period
        /\ missedBeats < MissedBeats =>
              missedBeats * Period + Period <= MissedBeats * Period
        /\ MissedBeats * Period \in Nat
    BY <1>1, <1>2, Debts
  <1>4. /\ missedSweeps * SweepPeriod \in Nat
        /\ missedSweeps * SweepPeriod <= MissedSweeps * SweepPeriod
        /\ (missedSweeps + 1) * SweepPeriod = missedSweeps * SweepPeriod + SweepPeriod
        /\ MissedSweeps * SweepPeriod \in Nat
    BY <1>1, <1>2, Debts
  <1>5. /\ (MissedBeats + 1) * Period = MissedBeats * Period + Period
        /\ (MissedSweeps + 1) * SweepPeriod = MissedSweeps * SweepPeriod + SweepPeriod
        /\ 0 * Period = 0 /\ 0 * SweepPeriod = 0
    BY <1>1, <1>2
  <1>6. LeaseBound = ClaimDelay + Delay + MissedBeats * Period + Period
    BY <1>1, <1>3, <1>5, LeaseAssumption DEF LeaseBound
  <1>7. ReclaimBound = stuck_message_timeout + MissedSweeps * SweepPeriod + SweepPeriod
    BY <1>1, <1>4, <1>5, LeaseAssumption DEF ReclaimBound
  <1> QED
    BY <1>1, <1>3, <1>4, <1>5, <1>6, <1>7

\* The two periods as sums.
LEMMA PeriodFacts ==
    /\ Period \in Nat /\ SweepPeriod \in Nat
    /\ Period = heartbeat_interval + Jitter + Delay
    /\ SweepPeriod = sweep_interval + Jitter + Delay + Delay
  BY LeaseAssumption DEF Period, SweepPeriod
-----------------------------------------------------------------------------
\* Every action keeps the variables to their kinds.
LEMMA TypeStep ==
    ASSUME TypeOK, [Next]_vars
    PROVE  TypeOK'
  <1> USE LeaseAssumption DEF TypeOK, Holders, Beats
  <1>1. CASE Claim \/ Yield \/ Ack \/ GiveUp \/ Release \/ Drop
    BY <1>1 DEF Claim, Yield, Ack, GiveUp, Release, Drop, beating, sweeping
  <1>2. CASE Crash \/ Restart
    BY <1>2 DEF Crash, Restart, sweeping
  <1>3. CASE BeatList \/ BeatExecute \/ BeatError
    BY <1>3 DEF BeatList, BeatExecute, BeatError, holding, sweeping
  <1>4. CASE SweepWake \/ Sweep \/ SweepError \/ CleanUp
    BY <1>4 DEF SweepWake, Sweep, SweepError, CleanUp, holding, beating
  <1>5. CASE Tick
    BY <1>5 DEF Tick
  <1>6. CASE UNCHANGED vars
    BY <1>6 DEF vars
  <1> QED
    BY <1>1, <1>2, <1>3, <1>4, <1>5, <1>6 DEF Next

\* Variables and settings are numbers of their kind in every reachable state.
THEOREM TypeCorrect == Spec => []TypeOK
  <1>1. Init => TypeOK
    BY LeaseAssumption DEF Init, TypeOK, Holders, Beats
  <1> QED
    BY <1>1, TypeStep, PTL DEF Spec
-----------------------------------------------------------------------------
\* No second passes once a loop's or a worker's time is up.
Deadlines ==
    /\ holder = "claimed" => since <= ClaimDelay
    /\ holder = "releasing" => since <= Delay
    /\ holder # "down" => beatSince <= Limit(beat, heartbeat_interval)
    /\ sweepSince <= Limit(sweep, sweep_interval)

\* Deadlines is inductive.
LEMMA DeadlinesHold == Spec => []Deadlines
  <1>1. Init => Deadlines
    BY LeaseAssumption DEF Init, Deadlines, Limit
  <1>2. TypeOK /\ Deadlines /\ [Next]_vars => Deadlines'
    <2> SUFFICES ASSUME TypeOK, Deadlines, [Next]_vars PROVE Deadlines'
      OBVIOUS
    <2> USE LeaseAssumption DEF TypeOK, Holders, Beats, Deadlines, Limit
    <2>1. CASE Claim \/ Yield \/ Ack \/ GiveUp \/ Release \/ Drop
      BY <2>1 DEF Claim, Yield, Ack, GiveUp, Release, Drop, beating, sweeping
    <2>2. CASE Crash \/ Restart
      BY <2>2 DEF Crash, Restart, sweeping
    <2>3. CASE BeatList \/ BeatExecute \/ BeatError
      BY <2>3 DEF BeatList, BeatExecute, BeatError, holding, sweeping
    <2>4. CASE SweepWake \/ Sweep \/ SweepError \/ CleanUp
      BY <2>4 DEF SweepWake, Sweep, SweepError, CleanUp, holding, beating
    <2>5. CASE Tick
      BY <2>5 DEF Tick
    <2>6. CASE UNCHANGED vars
      BY <2>6 DEF vars
    <2> QED
      BY <2>1, <2>2, <2>3, <2>4, <2>5, <2>6 DEF Next
  <1> QED
    BY <1>1, <1>2, TypeCorrect, PTL DEF Spec
-----------------------------------------------------------------------------
\* The age of a tended row, by where the heartbeat loop stands: the claim and
\* the rest of a round that did not list the row, the rounds that failed, and
\* what has passed of this one.
BeatAge ==
    ClaimDelay +
    CASE beat = "asleep"     -> Delay + missedBeats * Period + beatSince
      [] beat = "writing"    -> beatSince
      [] beat = "refreshing" -> Delay + missedBeats * Period
                                + heartbeat_interval + Jitter + beatSince

\* No round refreshes a row that is being released, but one that listed it before.
ReleaseAge ==
    IF beat = "refreshing" THEN BeatAge
    ELSE ClaimDelay + Delay + MissedBeats * Period + heartbeat_interval + Jitter
         + since

Refreshed ==
    status = "active" =>
        /\ holder = "claimed" => age <= since
        /\ holder = "running" => age <= BeatAge
        /\ holder = "releasing" => age <= ReleaseAge

\* Refreshed holds beside the types and the deadlines.
LEMMA RefreshedHolds == Spec => []Refreshed
  <1>1. Init => Refreshed
    BY DEF Init, Refreshed
  <1>2. TypeOK /\ Deadlines /\ Refreshed /\ [Next]_vars => Refreshed'
    <2> SUFFICES ASSUME TypeOK, Deadlines, Refreshed, [Next]_vars PROVE Refreshed'
      OBVIOUS
    <2>1. TypeOK'
      BY TypeStep
    <2> USE <2>1, DebtFacts, PeriodFacts, LeaseAssumption
        DEF TypeOK, Holders, Beats, Deadlines, Limit, Refreshed, BeatAge, ReleaseAge
    <2>2. CASE Claim \/ Ack \/ Release \/ Drop
      <3>1. /\ age' = 0 \/ age' = age
            /\ holder' = "idle" \/ (holder' = "claimed" /\ age' = 0 /\ since' = 0)
        BY <2>2 DEF Claim, Ack, Release, Drop
      <3> QED
        BY <3>1
    <2>3. CASE Yield
      BY <2>3 DEF Yield, beating, sweeping
    <2>4. CASE GiveUp
      BY <2>4 DEF GiveUp, beating, sweeping
    <2>5. CASE Crash \/ Restart
      BY <2>5 DEF Crash, Restart, sweeping
    <2>6. CASE BeatList
      BY <2>6 DEF BeatList, holding, sweeping
    <2>7. CASE BeatExecute
      BY <2>7 DEF BeatExecute, holding, sweeping
    <2>8. CASE BeatError
      BY <2>8 DEF BeatError, holding, sweeping
    <2>9. CASE SweepWake \/ Sweep \/ SweepError \/ CleanUp
      BY <2>9 DEF SweepWake, Sweep, SweepError, CleanUp, holding, beating
    <2>10. CASE Tick
      BY <2>10 DEF Tick
    <2>11. CASE UNCHANGED vars
      BY <2>11 DEF vars
    <2> QED
      BY <2>2, <2>3, <2>4, <2>5, <2>6, <2>7, <2>8, <2>9, <2>10, <2>11 DEF Next
  <1> QED
    BY <1>1, <1>2, TypeCorrect, DeadlinesHold, PTL DEF Spec

\* The lease of a row that is held is never older than the bound.
LEMMA LeaseIsYoung ==
    ASSUME TypeOK, Deadlines, Refreshed, Held, status = "active"
    PROVE  age <= LeaseBound
  BY DebtFacts, PeriodFacts, LeaseAssumption
     DEF TypeOK, Holders, Beats, Deadlines, Limit, Refreshed, BeatAge, ReleaseAge, Held

\* A process that lives keeps the row it holds, for all settings whose timeout
\* covers the claim, MissedBeats + 1 heartbeat periods and one wait.
THEOREM LivingKeepTheirLeaseHolds == Spec => LivingKeepTheirLease
  <1>1. TypeOK /\ Deadlines /\ Refreshed /\ [Next]_vars
        => [Held /\ status = "active" /\ holder' = holder => status' = "active"]_vars
    <2> SUFFICES ASSUME TypeOK, Deadlines, Refreshed, [Next]_vars,
                        Held, status = "active", holder' = holder
                 PROVE  status' = "active"
      OBVIOUS
    <2>1. ~Stale
      <3>1. age <= LeaseBound /\ age \in Nat
        BY LeaseIsYoung DEF TypeOK
      <3>2. LeaseBound \in Nat
        BY DebtFacts, LeaseAssumption
      <3> QED
        BY <3>1, <3>2, TimeoutSuffices, LeaseAssumption DEF Stale
    <2>2. CASE Claim \/ Yield \/ Ack \/ GiveUp \/ Release \/ Drop \/ Crash \/ Restart
      BY <2>2 DEF Claim, Yield, Ack, GiveUp, Release, Drop, Crash, Restart, Held
    <2>3. CASE BeatList \/ BeatExecute \/ BeatError
      BY <2>3 DEF BeatList, BeatExecute, BeatError
    <2>4. CASE SweepWake \/ Sweep \/ SweepError \/ CleanUp
      BY <2>1, <2>4 DEF SweepWake, Sweep, SweepError, CleanUp
    <2>5. CASE Tick
      BY <2>5 DEF Tick
    <2>6. CASE UNCHANGED vars
      BY <2>6 DEF vars
    <2> QED
      BY <2>2, <2>3, <2>4, <2>5, <2>6 DEF Next
  <1> QED
    BY <1>1, TypeCorrect, DeadlinesHold, RefreshedHolds, PTL
       DEF Spec, LivingKeepTheirLease
-----------------------------------------------------------------------------
\* The age of any row beyond the timeout, by where the sweep loop stands.
SweepAge ==
    CASE sweep = "asleep"   -> missedSweeps * SweepPeriod + Delay + sweepSince
      [] sweep = "sweeping" -> missedSweeps * SweepPeriod + Delay
                               + sweep_interval + Jitter + sweepSince
      [] sweep = "cleaning" -> missedSweeps * SweepPeriod + sweepSince

Swept == status = "active" => age <= stuck_message_timeout + SweepAge

\* Swept holds beside the types and the deadlines.
LEMMA SweptHolds == Spec => []Swept
  <1>1. Init => Swept
    BY DEF Init, Swept
  <1>2. TypeOK /\ Deadlines /\ Swept /\ [Next]_vars => Swept'
    <2> SUFFICES ASSUME TypeOK, Deadlines, Swept, [Next]_vars PROVE Swept'
      OBVIOUS
    <2>1. TypeOK'
      BY TypeStep
    <2> USE <2>1, DebtFacts, PeriodFacts, LeaseAssumption
        DEF TypeOK, Deadlines, Limit, Swept, SweepAge
    <2>2. CASE Claim \/ Yield \/ Ack \/ GiveUp \/ Release \/ Drop \/ Crash \/ Restart
      BY <2>2 DEF Claim, Yield, Ack, GiveUp, Release, Drop, Crash, Restart, sweeping
    <2>3. CASE BeatList \/ BeatExecute \/ BeatError
      BY <2>3 DEF BeatList, BeatExecute, BeatError, sweeping
    <2>4. CASE SweepWake
      BY <2>4 DEF SweepWake
    <2>5. CASE Sweep
      BY <2>5 DEF Sweep, Stale
    <2>6. CASE SweepError
      BY <2>6 DEF SweepError
    <2>7. CASE CleanUp
      BY <2>7 DEF CleanUp
    <2>8. CASE Tick
      BY <2>8 DEF Tick
    <2>9. CASE UNCHANGED vars
      BY <2>9 DEF vars
    <2> QED
      BY <2>2, <2>3, <2>4, <2>5, <2>6, <2>7, <2>8, <2>9 DEF Next
  <1> QED
    BY <1>1, <1>2, TypeCorrect, DeadlinesHold, PTL DEF Spec

\* At most one heartbeat renews the lease of a row nobody tends: the one that
\* listed it before.
Unrenewed ==
    /\ holder = "down" => beat = "asleep"
    /\ ~Orphaned => alone = 0
    /\ alone <= IF beat = "refreshing" THEN beatSince ELSE age + Delay

\* Unrenewed holds beside the types and the deadlines.
LEMMA UnrenewedHolds == Spec => []Unrenewed
  <1>1. Init => Unrenewed
    BY LeaseAssumption DEF Init, Unrenewed, Orphaned
  <1>2. TypeOK /\ Deadlines /\ Unrenewed /\ [Next]_vars => Unrenewed'
    <2> SUFFICES ASSUME TypeOK, Deadlines, Unrenewed, [Next]_vars PROVE Unrenewed'
      OBVIOUS
    <2> USE LeaseAssumption
        DEF TypeOK, Holders, Beats, Deadlines, Limit, Unrenewed, Orphaned, Held
    <2>1. CASE Claim \/ Yield \/ Ack \/ GiveUp \/ Release \/ Drop
      BY <2>1 DEF Claim, Yield, Ack, GiveUp, Release, Drop, beating, sweeping
    <2>2. CASE Crash
      BY <2>2 DEF Crash, sweeping
    <2>3. CASE Restart
      BY <2>3 DEF Restart, sweeping
    <2>4. CASE BeatList
      BY <2>4 DEF BeatList, holding, sweeping
    <2>5. CASE BeatExecute
      BY <2>5 DEF BeatExecute, holding, sweeping
    <2>6. CASE BeatError
      BY <2>6 DEF BeatError, holding, sweeping
    <2>7. CASE SweepWake \/ Sweep \/ SweepError \/ CleanUp
      BY <2>7 DEF SweepWake, Sweep, SweepError, CleanUp, holding, beating
    <2>8. CASE Tick
      BY <2>8 DEF Tick
    <2>9. CASE UNCHANGED vars
      BY <2>9 DEF vars
    <2> QED
      BY <2>1, <2>2, <2>3, <2>4, <2>5, <2>6, <2>7, <2>8, <2>9 DEF Next
  <1> QED
    BY <1>1, <1>2, TypeCorrect, DeadlinesHold, PTL DEF Spec

\* A row nobody tends goes back to the queue within one timeout, MissedSweeps + 1
\* rounds of the sweep loop and one wait, for all settings.
THEOREM OrphansAreReclaimedInTimeHolds == Spec => []OrphansAreReclaimedInTime
  <1>1. TypeOK /\ Deadlines /\ Swept /\ Unrenewed => OrphansAreReclaimedInTime
    <2> SUFFICES ASSUME TypeOK, Deadlines, Swept, Unrenewed
                 PROVE  alone <= ReclaimBound + Delay
      BY DEF OrphansAreReclaimedInTime
    <2>1. status = "active" => age <= ReclaimBound
      BY DebtFacts, PeriodFacts, LeaseAssumption
         DEF TypeOK, Deadlines, Limit, Swept, SweepAge
    <2>2. ReclaimBound \in Nat
      BY DebtFacts, LeaseAssumption
    <2>3. CASE ~Orphaned
      BY <2>2, <2>3, LeaseAssumption DEF Unrenewed
    <2>4. CASE Orphaned /\ beat = "refreshing"
      BY <2>2, <2>4, LeaseAssumption
         DEF Unrenewed, Orphaned, Held, TypeOK, Holders, Deadlines, Limit
    <2>5. CASE Orphaned /\ beat # "refreshing"
      BY <2>1, <2>2, <2>5, LeaseAssumption DEF Unrenewed, Orphaned, TypeOK
    <2> QED
      BY <2>3, <2>4, <2>5
  <1> QED
    BY <1>1, TypeCorrect, DeadlinesHold, SweptHolds, UnrenewedHolds, PTL
=============================================================================
