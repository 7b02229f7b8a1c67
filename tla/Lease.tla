------------------------------- MODULE Lease -------------------------------
(***************************************************************************)
(* The lease of one row on a clock (taskiq_pg/broker.py: _heartbeat_loop,  *)
(* _sweep_loop, listen, _release; the HEARTBEAT and SWEEP statements).     *)
(* One process holds the row and beats, another one sweeps; both have work *)
(* besides.  Broker lets a lease lapse by a step of its own, or forbids it *)
(* while somebody tends the row (Punctual).  Here lapsing is a matter of   *)
(* seconds, and the module says which settings make Punctual true.  What   *)
(* Broker shows to go wrong with _inflight_ids (a stale ack, an ack that   *)
(* raises) is left out: a discard follows the statement it belongs to.     *)
(*                                                                         *)
(* Tick is a second.  A loop sleeps for its interval, wakes at most Jitter *)
(* later, and its statement has run at most Delay after that: the wait for *)
(* a pool connection is the greater part of it.                            *)
(***************************************************************************)
EXTENDS Integers

CONSTANTS
    heartbeat_interval,
    stuck_message_timeout,
    sweep_interval,
    Jitter,         \* how late a sleeping loop wakes
    Delay,          \* from a loop's turn, or a worker's, to its statement's end
    ClaimDelay,     \* from the claim's NOW() to the id joining _inflight_ids
    MissedBeats,    \* heartbeats in a row that raise
    MissedSweeps    \* sweeps in a row that raise

Period == heartbeat_interval + Jitter + Delay

SweepPeriod == sweep_interval + Jitter + Delay + Delay

\* How old a lease gets while its holder lives.
LeaseBound == ClaimDelay + Delay + (MissedBeats + 1) * Period

\* How old it gets when nobody tends it.
ReclaimBound == stuck_message_timeout + (MissedSweeps + 1) * SweepPeriod

ASSUME LeaseAssumption ==
    /\ heartbeat_interval \in Nat /\ stuck_message_timeout \in Nat
    /\ sweep_interval \in Nat /\ Jitter \in Nat
    /\ Delay \in Nat /\ ClaimDelay \in Nat
    /\ MissedBeats \in Nat /\ MissedSweeps \in Nat

\* The settings fit the loops' delays.  The defaults do with room to spare: of
\* ten heartbeats in one timeout (30 s, 300 s) several may fail.
ASSUME TimeoutSuffices == stuck_message_timeout >= LeaseBound

VARIABLES
    status,         \* of the row
    age,            \* NOW() - heartbeat_at of an active row
    holder,         \* what the process does with the row
    since,          \* for how long, until its next statement
    beat,           \* where _heartbeat_loop stands
    beatSince,      \* for how long
    missedBeats,    \* heartbeats that raised since the last that did not
    sweep,          \* where the other process's _sweep_loop stands
    sweepSince,
    missedSweeps,
    alone           \* history: for how long nobody has held the active row

holding == <<holder, since>>
beating == <<beat, beatSince, missedBeats>>
sweeping == <<sweep, sweepSince, missedSweeps, alone>>
vars == <<status, age, holder, since, beat, beatSince, missedBeats,
          sweep, sweepSince, missedSweeps, alone>>

\* claimed: not in _inflight_ids yet.  running: in it, until the ack has landed.
\* releasing: no longer in it, the UPDATE of _release is under way.
Holders == {"idle", "claimed", "running", "releasing", "down"}

\* refreshing: the row is among the ids of this round.  writing: it is not.
Beats == {"asleep", "writing", "refreshing"}

TypeOK ==
    /\ status \in {"queued", "active"} /\ age \in Nat
    /\ holder \in Holders /\ since \in Nat
    /\ beat \in Beats /\ beatSince \in Nat
    /\ missedBeats \in 0 .. MissedBeats
    /\ sweep \in {"asleep", "sweeping", "cleaning"} /\ sweepSince \in Nat
    /\ missedSweeps \in 0 .. MissedSweeps /\ alone \in Nat

Init ==
    /\ status = "queued" /\ age = 0
    /\ holder = "idle" /\ since = 0
    /\ beat = "asleep" /\ beatSince = 0 /\ missedBeats = 0
    /\ sweep = "asleep" /\ sweepSince = 0 /\ missedSweeps = 0
    /\ alone = 0

Held == holder \in {"claimed", "running", "releasing"}

Orphaned == status = "active" /\ ~Held
-----------------------------------------------------------------------------
(* The holder.  Once it has finished with the row, the row stands for the    *)
(* next message.                                                             *)

Claim ==
    /\ holder = "idle" /\ status = "queued"
    /\ status' = "active" /\ age' = 0
    /\ holder' = "claimed" /\ since' = 0
    /\ UNCHANGED <<beating, sweeping>>

Yield ==
    /\ holder = "claimed"
    /\ holder' = "running" /\ since' = 0
    /\ UNCHANGED <<status, age, beating, sweeping>>

\* The ack's COMPLETE lands, and only then is the id discarded.
Ack ==
    /\ holder = "running"
    /\ status' = "queued" /\ age' = 0
    /\ holder' = "idle"
    /\ UNCHANGED <<since, beating, sweeping>>

\* _release discards the id first.
GiveUp ==
    /\ holder = "running"
    /\ holder' = "releasing" /\ since' = 0
    /\ UNCHANGED <<status, age, beating, sweeping>>

Release ==
    /\ holder = "releasing"
    /\ status' = "queued" /\ age' = 0
    /\ holder' = "idle" /\ since' = 0
    /\ UNCHANGED <<beating, sweeping>>

\* A claim whose reply is lost, a release that raises: the process goes on
\* without the row.
Drop ==
    /\ holder \in {"claimed", "releasing"}
    /\ holder' = "idle" /\ since' = 0
    /\ UNCHANGED <<status, age, beating, sweeping>>

\* The process dies, its loop with it, and is started again.
Crash ==
    /\ holder # "down"
    /\ holder' = "down" /\ since' = 0
    /\ beat' = "asleep" /\ beatSince' = 0
    /\ missedBeats' = 0
    /\ UNCHANGED <<status, age, sweeping>>

Restart ==
    /\ holder = "down"
    /\ holder' = "idle"
    /\ beatSince' = 0
    /\ UNCHANGED <<status, age, since, beat, missedBeats, sweeping>>
-----------------------------------------------------------------------------
(* _heartbeat_loop *)

\* Mutant: an id that was given up is listed as before.
BeatListAll ==
    /\ holder # "down"
    /\ beat = "asleep" /\ beatSince >= heartbeat_interval
    /\ beatSince' = 0
    /\ beat' = "refreshing"
    /\ UNCHANGED <<status, age, holding, missedBeats, sweeping>>

\* The loop wakes and lists _inflight_ids, this row's id and others; when
\* there are none it sleeps again.
BeatList ==
    /\ holder # "down"
    /\ beat = "asleep" /\ beatSince >= heartbeat_interval
    /\ beatSince' = 0
    /\ beat' \in IF holder = "running" THEN {"refreshing"} ELSE {"writing", "asleep"}
    /\ UNCHANGED <<status, age, holding, missedBeats, sweeping>>

BeatExecute ==
    /\ beat # "asleep"
    /\ age' = IF beat = "refreshing" /\ status = "active" THEN 0 ELSE age
    /\ beat' = "asleep" /\ beatSince' = 0 /\ missedBeats' = 0
    /\ UNCHANGED <<status, holding, sweeping>>

\* Mutant: the exception ends the loop.
BeatErrorEnds ==
    /\ beat # "asleep" /\ missedBeats < MissedBeats
    /\ beat' = "ended" /\ beatSince' = 0
    /\ missedBeats' = missedBeats + 1
    /\ UNCHANGED <<status, age, holding, sweeping>>

\* It raises; the loop logs that and sleeps.
BeatError ==
    /\ beat # "asleep" /\ missedBeats < MissedBeats
    /\ beat' = "asleep" /\ beatSince' = 0
    /\ missedBeats' = missedBeats + 1
    /\ UNCHANGED <<status, age, holding, sweeping>>
-----------------------------------------------------------------------------
(* _sweep_loop of another process: sleep, sweep, clean up *)

SweepWake ==
    /\ sweep = "asleep" /\ sweepSince >= sweep_interval
    /\ sweep' = "sweeping" /\ sweepSince' = 0
    /\ UNCHANGED <<status, age, holding, beating, missedSweeps, alone>>

\* Mutant: heartbeat_at <= NOW() - stuck_message_timeout.
StaleAtOnce == status = "active" /\ age >= stuck_message_timeout

Stale == status = "active" /\ age > stuck_message_timeout

Sweep ==
    /\ sweep = "sweeping"
    /\ status' = IF Stale THEN "queued" ELSE status
    /\ age' = IF Stale THEN 0 ELSE age
    /\ alone' = IF Stale THEN 0 ELSE alone
    /\ sweep' = "cleaning" /\ sweepSince' = 0 /\ missedSweeps' = 0
    /\ UNCHANGED <<holding, beating>>

\* It raises; _sweep_stuck_messages logs that, and the cleanup comes next.
SweepError ==
    /\ sweep = "sweeping" /\ missedSweeps < MissedSweeps
    /\ sweep' = "cleaning" /\ sweepSince' = 0
    /\ missedSweeps' = missedSweeps + 1
    /\ UNCHANGED <<status, age, holding, beating, alone>>

CleanUp ==
    /\ sweep = "cleaning"
    /\ sweep' = "asleep" /\ sweepSince' = 0
    /\ UNCHANGED <<status, age, holding, beating, missedSweeps, alone>>
-----------------------------------------------------------------------------
(* A second passes unless somebody's time is up.                             *)

Limit(loop, interval) == IF loop = "asleep" THEN interval + Jitter ELSE Delay

Tick ==
    /\ holder = "claimed" => since < ClaimDelay
    /\ holder = "releasing" => since < Delay
    /\ holder # "down" => beatSince < Limit(beat, heartbeat_interval)
    /\ sweepSince < Limit(sweep, sweep_interval)
    /\ since' = IF holder \in {"claimed", "releasing"} THEN since + 1 ELSE since
    /\ beatSince' = IF holder # "down" THEN beatSince + 1 ELSE beatSince
    /\ sweepSince' = sweepSince + 1
    /\ age' = IF status = "active" THEN age + 1 ELSE age
    /\ alone' = IF Orphaned THEN alone + 1 ELSE alone
    /\ UNCHANGED <<status, holder, beat, missedBeats, sweep, missedSweeps>>

Next ==
    \/ Claim \/ Yield \/ Ack \/ GiveUp \/ Release \/ Drop \/ Crash \/ Restart
    \/ BeatList \/ BeatExecute \/ BeatError
    \/ SweepWake \/ Sweep \/ SweepError \/ CleanUp
    \/ Tick

Spec == Init /\ [][Next]_vars
-----------------------------------------------------------------------------
\* No sweep takes a row from a process that holds it and lives, from the claim
\* to the end of its ack or release: not while the message is being handed out,
\* nor when heartbeats come late or fail.  It is what Broker calls Punctual.
LivingKeepTheirLease == 
    [][Held /\ status = "active" /\ holder' = holder => status' = "active"]_vars

\* A lease does not outlive its holder for long: within one timeout, one round
\* of the sweep loop (two, if one fails) and the heartbeat that was under way,
\* the row is back in the queue.  No beat of a process that goes on without the
\* row renews its lease.
OrphansAreReclaimedInTime == alone <= ReclaimBound + Delay
=============================================================================
