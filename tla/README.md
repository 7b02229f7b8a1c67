# taskiq-pg in TLA+

Specifications of the message queue of `taskiq_pg`: producers insert messages into a
PostgreSQL table, worker processes claim them one transaction at a time, run them under a
heartbeat lease, and acknowledge, retry or bury them, while every process sweeps stale
leases back; clients wait for results that a receiver saves. The modules are model-checked
with TLC; the theorems are checked with TLAPS.

Paths below are relative to the repository.

## The system

| component | code | state | operations |
|---|---|---|---|
| message table | `taskiq_pg/broker_queries.py`, `status.py` | one row per message: `status`, `retry_count`, `scheduled_at`, `heartbeat_at`, `expire_at`, `group_key`, `ordered`, labels | INSERT, claim, RETRY_IN_PLACE, MARK_DEAD, COMPLETE, HEARTBEAT, SWEEP, CLEANUP |
| claim function | `broker_queries.py:124-203`, `broker.py:388-417` | per transaction: NOW(), cursor, candidate, row locks, advisory group lock | candidate query, try-lock, re-check, UPDATE, commit |
| labels and settings | `broker.py:104-160, 228-250`, `broker_queries.py:262-272` | none: what `kick` admits and what each reader makes of it | `_resolve_ordered`, the `max_retries` check, the casts |
| broker, producer side | `broker.py:220-271` | the id sequence, INSERTs in flight | `kick` |
| broker, worker side | `broker.py:282-507` | `_inflight_ids`, the deliveries it handed out, the ids a heartbeat round listed | `listen`, `ack`, `_release`, `_heartbeat_loop`, `_sweep_loop` |
| `OrderedRetryMiddleware` | `middlewares.py` | none of its own: row id and attempts come as labels | `on_error` |
| notification | `broker.py:170, 195-217, 269-279, 300-304` | `_queue` | NOTIFY, wake-up, one-second poll |
| schema installation | `schema.py`, `broker_queries.py:9-111` | the table's comment (a fingerprint), the installed function | `ensure` |
| result backend | `result_backend.py`, `queries.py` | one row per task id | `set_result`, `is_result_ready`, `get_result` |
| taskiq receiver | not in the repository | tasks being run, results not saved yet | calls `on_error`, then `set_result` and `ack` in the order of the ack type |

The parts meet in the table. A producer and a worker share nothing else but a NOTIFY, two
workers nothing at all; a worker's memory (`_inflight_ids`, the `ack` closures) refers to
rows by id and, for the statements that end a delivery, by the attempt count the row had
when it was claimed.

The result backend is reached from both ends, by the receivers that save and the clients
that wait, and knows nothing of the message table: a result is keyed by task id, with no
attempt count to fence it.

What is hard here: READ COMMITTED snapshots that are stale when a lock is granted; leases
that lapse under a living worker, so that two processes hold the same message; late acks,
retries and heartbeats of a worker that lost its row; steps that commit in the database
and fail in the process, or the other way round; ids drawn before their rows are visible; results
saved by workers that lost their row; labels that two languages read differently.

What makes each part correct:

* table and broker: a group runs one message at a time; an ordered message waits for all
  older ones of its group to be completed; a message is delivered at most as often as its
  cap; completed and dead are final; only the delivery that owns a row ends it; every
  message settles in the end; nothing stays active that nobody runs;
* claim function: the above survives any interleaving of claims at statement level; a
  claim never waits for a rival, and rivals do not starve a message;
* leases: a running task's id is in `_inflight_ids` until its ack has landed; a live
  holder's lease never reaches the timeout, a dead one's is reclaimed within a bound;
* labels: what `kick` admits, no later reader stumbles over;
* notification: a message that may be claimed is claimed although its NOTIFY was late,
  lost, used up or never sent, and a loop that can hear does not sleep over one it heard of;
* schema installation: DDL is serial, runs only when needed, and the fingerprint never
  names what is not installed;
* result backend: a failure reported because the attempts are spent is final; a result that
  was announced is there unless another client took it; what completes a message is an
  attempt whose result was saved first; a later attempt's result is not overwritten by an
  earlier one's; every message leaves a result in the end, or one of a few reasons why not.

## Modules

* `MessageQueue` - the abstract specification. One variable: the messages, each waiting,
  running, done or dead, with its attempts. Accept, Start, Finish, Release (retry, dead
  letter or sweep), Forget (cleanup).
* `MessageQueue_proofs` - the theorems about it.
* `Labels` - the forms a label may have, which of them `kick` admits, and what the INSERT,
  `on_error` and the sweep make of them.
* `BrokerQueries` - each SQL statement as an operator from a table to a table. Broker and
  ClaimFunction are built from these operators, so both mean the same statement. A sweep
  whose rows hold a label that does not cast changes nothing.
* `Broker` - processes and table. A step is what runs between two awaits; a statement is
  one step. `deliveries` are the messages a process has been given, with the phase they
  are in: claimed (not yielded yet), running, retrying or burying (`_release` has dropped
  the lease, its UPDATE is under way), ended (the receiver is about to COMPLETE), acked
  (COMPLETE landed, the discard has not run). `inflight` is `_inflight_ids`, `beat` the list
  a heartbeat round took before it awaited its connection, `inserting` the INSERTs that
  drew an id and have not committed. A producer kicks raw labels; `MayKick` lists them.
* `Broker_proofs` - the theorems about it that hold whatever heartbeats do, and that it
  implements `MessageQueue`; `Timely_proofs` - those that need heartbeats on time.
* `Receiver` - Broker composed with the receiver's half of a result, the result table and
  the clients. `outcomes` are results held in memory and not saved yet, `results` the table,
  `readers` the clients in `wait_result`, each with the attempt whose result it read or
  deleted. `absent` is auxiliary: the attempts, since a message's last claim, that leave no
  result, and why: NoResultError, a save that raised, an ack that raised before the save, an
  `on_error` that raised, a crash. The receiver's steps are Broker's with their effect on the
  results added (Claim is Dequeue, Finish is TaskEnds, Report is Release, FailRelease is
  ReleaseError, EndAck is AckDiscard, ...); what touches no result is `Elsewhere`. `AckType`
  says for each worker process when it saves and when it acknowledges, `Withholding` whose
  middleware has `no_result_on_retry` (`middlewares.py:66`).
* `Receiver_proofs` - that it implements Broker, what follows for failures and clients, and
  what heartbeats on time give the results.
* `Lease` - one row's lease in seconds: the process that holds it and its `_heartbeat_loop`,
  another process's `_sweep_loop`, waits for a connection, rounds that raise, crashes. Broker
  assumes `Punctual`; this module says when that is true.
* `Lease_proofs` - the theorems about it.
* `ClaimFunction` - the claim, statement by statement. `todo` is what is left of the
  candidate query's snapshot, `rowLock` and `groupLock` are held to the end of the
  transaction. TakeRow judges the newest version of the row it locked, as EvalPlanQual
  does; the rest of the WHERE clause keeps the snapshot's answer.
* `ClaimFunction_proofs` - the theorems about it.
* `Listener` - how a claimable message comes to be claimed: NOTIFY, its arrival as a token
  in `_queue` (`wire`, `queue`), the listen loop (`pc`: the first dequeue, the wait of one
  second, the second dequeue), the health check and reconnect of `dequeue_conn`, `read_conn`
  that is never opened again, the server's outages. Which message a claim picks is left to
  Broker; a message is `ready` (claimable since its INSERT), `overdue` (claimable since
  something nobody was notified of), `held`, `taken` or `ended`. A claim is two steps here,
  lock and commit, since a rival's rollback is what uses up a token in vain.
* `Listener_proofs` - the theorems about it.
* `SchemaInstall` - `schema.ensure` in several starting processes. The DDL text is three
  statements; `staged` is what a transaction wrote and has not committed.
* `SchemaInstall_proofs` - the theorems about it.
* `MCMessageQueue`, `MCBroker`, `MCReceiver`, `MCLease`, `MCClaimFunction`, `MCListener`,
  `MCSchemaInstall` - the small instances.

`Broker` and `ClaimFunction` are each shown to implement `MessageQueue` (`QueueSpec`), the
first across processes with the claim as one step, the second across the statements of
concurrent claims with everything else as one step. `Receiver` implements `Broker`. TLC checks
the first two on small instances and all three are proved, so what holds of the queue holds
of Broker, and under the result backend.

A few definitions come in a second, mutated form ("Mutant:" above them). They are not
used by the specifications. Each is a bug somebody could have written in the line it
stands for, and replacing the definition by it makes TLC find the property it is listed
with in PROJECT.json violated; that is how we know the property looks at that line.


## Runs

| run | states | what it shows |
|---|---|---|
| `queue` | 14 k | the abstract queue keeps mutex, order, budget and endings |
| `broker` | 508 k | two messages of a group, ordered ones with a cap of their own or mutexed, leases that lapse at any time, heartbeats that list an id and refresh it late, crashes, failing kicks and releases, labels `kick` refuses: the table implements `MessageQueue` (`QueueSpec`), a completed row was completed by the delivery that owns it, (id, attempts) names one delivery, a running task loses its row only through a stale lease |
| `results` | 2.3 M | heartbeats on time, no retry middleware, `when_saved`: a running task's id is in `_inflight_ids`, a group's tasks do not overlap, a task that ended keeps its row until its ack, no message is completed before `set_result` is over for the attempt that completes it, results move forward, and an announced result is missing only when the other client took it; through crashes, lost claims, dropped messages, failing acks, saves and reads |
| `answers` | 125 k | the retry middleware and fair loops; one worker acknowledges when saved and withholds the failures it retries, the other acknowledges when executed and stores them: every message settles (completed, dead, or halted behind a dead one) and leaves a result or a reason, an attempt nobody holds is reclaimed, a failure reported as spent is final; through crashes, lost claims, releases and saves that raise |
| `timing` | 68 k | with the smallest timeout that suffices, no sweep takes a row from a live holder, and none nobody holds stays active for longer than `ReclaimBound + Delay`; nothing in the three loops deadlocks |
| `overlap` | - | violated, see Findings |
| `stranded` | - | violated, see Findings |
| `poisoned` | - | violated, see Findings |
| `claim` | 708 k | claims of one group interleaved statement by statement, while candidates are retried, delayed, swept and cleaned up under their snapshots, implement `MessageQueue`; two claims never return one row or two of a group; what the unchecked clauses saw can only have blocked too much |
| `claim_live` | 168 k | the first two of these for groups with several producers and outside groups; a call ends although its rival stalls in mid-transaction (`CallEnds` assumes fairness of one backend only); polling backends do not starve a message |
| `listener` | 268 k | no lost wake-up as long as nothing has failed, under every order of NOTIFY, arrival, dequeue and wait; and nothing is overslept whatever connection, NOTIFY, server or process fails |
| `install` | 2 k | serial DDL, a fingerprint that is true, no needless install, every startup ends |

### Bounds, and why they are enough

* Two workers or backends. The statements that can conflict involve two sessions: a claim
  and the one it races, a late worker and the one that has the row now. `Permutations` of
  them are symmetric in the safety runs; no liveness run uses symmetry.
* Two messages of a group in the broker runs, three in `queue` and `claim`: head of line,
  one behind it, and a third for a claim that goes past a rejected candidate.
* Two attempts in the broker and receiver runs, three in `overlap` and `queue`: a claim, the
  retry or sweep that follows, and the claim after it. `AttemptBound` is at least every
  cap in `answers` and `stranded`, so it never holds a message back there; a cap of -1 (retry
  for ever) occurs in `queue`, where the bound is what stops it. In `poisoned` one attempt is
  enough, the property is about the row before its second.
* Time is not counted in seconds. A lease is fresh or stale, a message is due or not, and
  `LeaseLapse` and `BecomeDue` are steps that may come at any moment. In `ClaimFunction`,
  where `(scheduled_at, id)` orders the candidates, a clock runs to `MaxClock`.
* `Beating` names the processes whose heartbeat runs. `broker` and `results` have both, since
  a round listed before a release or a discard lands late. In `answers`,
  `overlap`, `stranded` and `poisoned` it is empty: a lease the process tends does not lapse there
  (`Punctual`), so a refresh changes nothing. `Punctual` says that a heartbeat always comes within
  `stuck_message_timeout`; it is off in `broker`, whose properties need no such thing, and on
  in the others that have it. `timing` gives the settings under which it is true.
* `timing`: a heartbeat every 3 seconds, a sweep every 4, each of jitter, wait, missed beat and
  missed sweep 1, and `stuck_message_timeout` exactly `LeaseBound`. With the mutants the bounds
  are crossed, so they are tight. The theorems hold for every value.
* `Faults` and the counters of failures (two in `listener` and `install`) say what may go
  wrong in a run. Two suffice for the cases that need a coincidence: a dequeue that fails
  twice in a row, a server that goes down while a reconnect is due. `listener` has one message:
  a second adds tokens, which only make waking easier. `NoLostWakeup` speaks of the behaviours
  in which nothing has failed yet.
* `answers` kicks ordered messages only: an unordered one waits for less. Its tasks end in a
  failure `on_error` leaves alone, or in one it retries; a success would be saved and
  acknowledged the same way, and `results` has it. Left out is what keeps an id in
  `_inflight_ids`, a COMPLETE that raises and a delivery the receiver drops: the row is then
  never reclaimed, which is the finding `stranded`.
* `EveryMessageIsAnswered` names the cases in which a message ends without a result
  (`Unreported`, `SweptDead`): the task asked for none; `set_result` raised; the sweep buried
  the message; its process died, or `mark_dead` raised, after the UPDATE that buried it; and
  for an attempt that is acknowledged when executed, the process died or its ack raised between
  the ack and the save. So under `when_saved` a completed message always leaves a result unless
  set_result raised or there was nothing to save. TLC refutes the property when any of these
  exceptions is taken away, but for the first, which does not occur in this run.
* `CompletedHasResult` is about the attempt that completes the message: a client that took the
  result of an earlier attempt does not count, nor does an earlier attempt that left none.
* `Awaits`: both clients wait for the first message, the second is there to hold it back.
* Deadlock is checked in `timing`. Elsewhere ids, attempts and failures are bounded, so every
  instance comes to its end, and a queue without messages rightly does nothing.

### Fairness, and why the code justifies it

* `Broker.FairSpec`: the listen loop never returns and polls every second, so a message
  that stays claimable is claimed; a delivery moves on unless a fault takes it (the receiver
  awaits the task, `on_error` and `ack`); once in a while a sweep finds no stale row locked by
  another session and takes them all (there are fewer than its LIMIT of 100); time passes.
  Kicks, crashes, faults and heartbeats are never assumed.
* `Receiver.ReceiverFairSpec`: the same, and a receiver saves what it holds. Clients need do
  nothing: `EveryMessageIsAnswered` says that the answer is there.
* `Lease` needs none. `Tick` is guarded by what is due, which is how the loops' sleeps and
  the waits for a connection are bounded, and both properties are safety properties.
* `ClaimFunction` states fairness inside its properties. `LoneFairness` is fair to a single
  backend, so `CallEnds` says that nothing in a claim waits for another session; `Fairness`
  is fair to all of them.
* `Listener.FairSpec`: the loop and its timer run, a crashed process is started again, the
  receiver asks for the next message, the server comes back. No notification need arrive.
* `SchemaInstall.FairSpec`: a startup goes on, PostgreSQL grants an advisory lock in the
  order it was asked for (hence strong fairness on Lock), a failed process is restarted.

## Findings

* `overlap`. `_inflight_ids` holds ids, not (id, attempts). After a retry in place the
  receiver still acknowledges the old delivery; COMPLETE is fenced and changes nothing, but
  the discard that follows (`broker.py:347`) takes away the lease of the next attempt if the
  same process holds it. That attempt is not heartbeated, is swept while it runs, and
  another message of its group starts. `UPGRADE_NOTES.md:145` says "Two messages that share
  a `group_key` never run at the same time."; `tests/test_middlewares.py:169` describes the
  order of events but looks only at the row.
* `stranded`. If COMPLETE raises (`broker.py:341`), the discard is skipped. The heartbeat
  then keeps a row `active` that nothing runs, and its group halted, until the process ends.
  `README.md:154` says a message is "`active` while it runs".
* `poisoned`. `kick` takes for `max_retries` whatever Python's `int()` takes (`broker.py:240`),
  digits of other scripts and surrounding non-ASCII spaces among them; the sweep casts the
  text of every stuck row to INTEGER in one statement (`broker_queries.py:262`). One such
  row, once stuck, makes every sweep raise, and no row of any worker is reclaimed any more.
  `broker_queries.py:249` says "kick() validates it, so the cast is bare.", `broker.py:237`
  "The sweeper casts this straight to INTEGER; reject it here instead."
* Met on the way, no run:
  - A `set_result` that raises is logged and the message acknowledged all the same: its client
    waits for ever. Nothing in the repository promises otherwise.
  - Under `when_executed` a process that dies between the ack and the save leaves a completed
    message without a result; under either ack type one that dies between `mark_dead` and
    the save leaves a dead message without one.
  - With `no_result_on_retry` off, the failure of a retried attempt is stored, and may be saved
    after the next attempt's result and replace it: saving is not fenced.
  - A worker that lives but was swept can have its result stored under a message that runs
    again. `FailureIsFinal` speaks only of failures reported as spent.
  - A message the sweep buries has no result, whatever its client waits for: `README.md:195`
    says a message out of retries "ends the same way" when its worker dies. `SweptDead` excepts
    it from `EveryMessageIsAnswered`.
  - A message can be dead and have a stored success: under `when_saved` the process dies
    between the save and the ack of the last attempt.
  - `get_result` deletes whatever the row holds by then, so a result that was overwritten
    between its SELECT and its DELETE is lost unread.
  - A `max_retries` label of None passes `kick` and raises in `on_error`; one given as text is
    accepted although `README.md:198` says it must be an integer. A `ttl` label given as
    text is ignored without a word.
  - `README.md:239` says "the broker has no per-message lock, so with `-w > 1` every
    worker runs every task"; `claim` shows that a claim is exclusive, as
    `bench/throughput.py:20` says.

## Proofs

`MessageQueue_proofs`: `TypeCorrect`, `MutexHolds`, `FifoHolds`, `BudgetHolds` as
`Spec => []...`, and `EndsHold` as an action property, for any set of ids, groups and kinds
and any bound. They assume that ids are natural numbers and that kinds are well formed
(`IdsAssumption`, `KindsAssumption`, `BoundAssumption`). Each invariant is inductive
together with `TypeOK`: a start looks at the whole group, so no more need be remembered.
`Fifo` needs one argument more, that a sole writer's messages come in the order of their
ids: a message accepted later never goes in front of one that started.

`SchemaInstall_proofs`: `TypeCorrect`, `DdlSerialHolds`, `FingerprintHolds`, `InstallsHold`, for any number
of processes and versions. The invariants the runs check are not inductive; `Inv` adds
that whoever is in the transaction holds the lock (`LockIsHeld`), that what its second probe
saw is still so (`ProbeStillHolds`, because only the holder changes the comment, and a drop
removes it), and that what it will commit is its own (`StagedIsOwn`).

`Broker_proofs`: `TypeCorrect`, `OneHolderHolds`, `CompletedMeansEndedHolds` as
`Spec => []...`, and `OnlySweepTakesHolds` as an action property, for any processes,
producers, kinds, faults and bounds (`BrokerAssumption` gives the types of the bounds and
switches only). They build on each other:

* `TypeOK` is not inductive: an INSERT that commits must not meet a row of its id.
  `IdsDrawn` adds that every id was drawn from the sequence, and that an id whose INSERT is
  under way has no delivery and one producer.
* `StepShape` sorts the steps once: all but the draw, the commit and the claim are `Quiet`,
  they add no row, change no count and make no delivery. So `OneHolderPerAttempt` has one
  real case, the claim, which gives a count above every count that row was claimed with.
* Since `(id, attempts)` names one delivery, another delivery's fenced UPDATE finds no row
  of the running one (`OnlySweepTakes`), and its COMPLETE completes no attempt but its own
  (`CompletedMeansEnded`).

`BrokerImplementsQueue`, in the same module, is `Spec => QueueSpec` for the same constants
and one more assumption, `LabelsAssumption`: `max_retry_attempts` is an integer, and
every max_retries label a producer passes is one of the forms `Labels` describes. The mapping
(`Messages`) reads a row as a message: queued is waiting, active is running, and the claim
count is the attempts. Each statement is matched by one lemma:

* the claim is a Start (`ClaimIsStart`): its WHERE clause asks of the group what Start asks;
* the commit of an INSERT is an Accept (`CommitIsAccept`). Accept wants a sole writer's
  message to come behind all of its group, and ids are drawn before they commit; the
  invariant `PendingIsLast` says that the pending id of a group's only producer is its
  largest, since a producer has one INSERT under way;
* an ack is a Finish or nothing (`CompleteIsFinish`), a cleanup is a Forget (`CleanupIsForget`);
* a retry, a dead letter and a sweep are a Release or nothing (`EndingIsRelease`). Release
  decides between waiting and dead by the row's own cap, `on_error` by the one it was given
  at the claim; `RoutedByCap` says that they agree. A sweep that aborts is a stutter.
* heartbeats, lapses, delays and crashes are stutters (`LeaseIsNothing`).

`BrokerKeepsPromises` then instantiates the theorems of `MessageQueue_proofs` through the
mapping: mutex, order, budget and endings hold of the table. Their assumptions are not taken
again but derived from Broker's (`TheoryApplies`).

`ClaimFunction_proofs`: `TypeCorrect`, `ClaimIsExclusiveHolds`, `StaleReadHolds` as
`Spec => []...`, and `ClaimImplementsQueue` as `Spec => QueueSpec`, for any backends, messages,
groups and bounds. `TypeOK` alone is not inductive, for a claim writes a row it found some
statements earlier. `ClaimInv` adds three facts, one for each kind of read in the function:

* `CandidateIsHeld`: the candidate's row is locked until the transaction ends, and still queued;
* `GroupIsHeld`: from the re-check on the group's advisory lock is held, and from its success
  to the commit nothing of the group is active. The two need each other: a group becomes
  active by a claim, and whoever claims in it holds that lock;
* `SnapshotHolds`: what the snapshot said of the older messages of an ordered candidate is
  still so, with no lock at all. What is completed stays completed or is deleted, ids are
  not used again, and a new message of a group with one producer is younger than the group.

Under `ClaimInv` the commit of a claim is a Start, whatever committed since its snapshot.
The scan takes the least of the rows it has left; that there is a least one, for any set of
rows, comes from the well-foundedness of the lexicographic order (`FirstExists`).

`Listener_proofs`: `TypeCorrect` and `NoLostWakeupHolds` as `Spec => []...`, for any finite set
of messages and any processes, faults and bounds. The bound on the queues is an argument by
counting (`OneTokenEach`): a process holds and awaits at most one token for every message a
NOTIFY may have been sent of. `NoLostWakeup` is not inductive, for it looks at a loop only
when it waits; `WokenByToken` looks at it from the moment its dequeue has found nothing, which
is where a token could get lost. A row becomes announced by its own NOTIFY only
(`AnnouncedStep`), and as long as nothing fails every process past its startup hears that
NOTIFY (`NothingFailed`) and reaches its wait from an empty dequeue only (`RestStep`).

`Receiver_proofs` (it extends `Timely_proofs`): `ReceiverImplementsBroker`, that every step of
the composition is a step of Broker or leaves it alone, and from it what Broker's invariants
and its refinement (`ReceiverImplementsQueue`) give; `FailureIsFinalHolds` and `MissingMeansTakenHolds` as `Spec => []...`, for any workers,
clients, ack type, faults and bounds. `FailureIsFinal` is the one that needs an argument,
since saving is not fenced. A failure is reported only by a delivery whose attempts are at
the cap (`SpentIsHeld`). The row of such a delivery keeps its kind and count and is active
or dead: the sweep decides by the same comparison, so it cannot requeue it, and a claim
needs it queued. When the dead letter runs, the row is therefore dead afterwards whether the
statement found it or not, and dead stays dead (`DeadStays`), cleanup included.

`Timely_proofs` (it extends `Broker_proofs`): `RunningIsInflightHolds`, `EndedKeepsItsRowHolds`
and `GroupsNeverOverlapHolds` as `Spec => [](Timely => ...)`, for any processes, labels, faults
and bounds. `Timely` says that heartbeats are punctual and nothing is retried in place;
with retries groups do overlap, which is what `overlap` shows. They come from one invariant,
`LeasesHold`: from the claim to its ack a delivery owns its row, under a fresh lease, and its
id is listed as soon as it has been handed out; an acknowledged one's row is over. The last
part is what makes the discard harmless: the id that an ack takes from `_inflight_ids` is no
other delivery's, since a row that is completed is never claimed again. Without a retry no
other statement takes an id away while somebody needs it.

The second half of `Receiver_proofs`: `ReceiverTypeCorrect` as `ReceiverSpec => []...`, for any
constants, and `ResultsMoveForwardHolds` and `CompletedHasResultHolds` as action properties
under `Timely`. `ResultsAreOfEnded` says that what is stored, held or dropped belongs to an
attempt whose task is over and never counts above its row; `OutcomesAreOwned` that a result
not saved yet has its delivery before its ack, or a row that is over. With `LeasesHold`, whoever
holds a row is then the only one with a result of its message to save (`HolderSaves`), so
no save is late (`ResultsTrail`). For `CompletedHasResult`, `EndedIsAnswered` follows a delivery
at its ack: the result of its own attempt waits, is stored, is with a client (`ReaderStep`: a
client answers for the attempt it deletes), or the task left none, or set_result raised; only
the ack of the delivery that has the row's count completes a row (`CompletedByAck`), and under
`when_saved` that ack is sent when nothing waits. The theorem names the delivery, so a
completion by anybody else would refute it as well.

`Lease_proofs`: `TypeCorrect`, `OrphansAreReclaimedInTimeHolds` as `Spec => []...`, and
`LivingKeepTheirLeaseHolds` as an action property, for any intervals, delays and numbers of
failures (`LeaseAssumption`; the last also needs `TimeoutSuffices`, that the timeout is at
least `LeaseBound`). The invariant accounts for the age of the lease: at any moment it is at
most what the loop has used up of its own time plus what the rounds missed so far cost
(`Debts`). Without the conjunct on the loop's place in its round it is not inductive. An orphan
besides may be refreshed once, by the round that listed it before it was one (`Unrenewed`).

Only model-checked: liveness. `EveryMessageSettles`, `EveryMessageIsAnswered`, `OrphansAreReclaimed`,
`CallEnds`, `EveryMessageIsClaimed`, `NothingIsOverslept` and `EveryStartEnds` hold under fairness, and
the proof system has no rule for ENABLED, on which weak and strong fairness rest. Every
invariant and every action property a passing run checks is proved, and so are the two
refinements.

## Plan

What is left, in order:

1. Safety lemmas under the liveness properties: from which states a settled message is
   reached by enabled steps only, as far as that can be said without ENABLED.
2. Retention on a clock: `expire_at`, `_resolve_ttl`, cleanup against a client that asks late.

## Not modelled

* The body of a message, its serialisation, task names, logging.
* `when_received` acknowledgement, which the repository forbids with retries.
* Several kicks of one producer process at once. A producer here calls `kick` and waits for
  it; the order of a group is promised to such a producer only (`README.md:174` asks for a
  single one, and its kicks on a pool may commit out of order just as two producers' do).
* Processes with different `max_retry_attempts` on one table; an operator who edits rows.
* `shutdown`; the DDL's effect on the rows of a legacy table; `_schedule_notification`,
  which nothing calls; `DELETE_MESSAGE_QUERY`, which nothing uses.
* `ttl` and the length of a delay: rows have no clock in Broker. A completed row may expire
  at any time there, a delayed one become due.
* Results' serialisation; the result backend's CREATE TABLE IF NOT EXISTS, which several
  processes may run at once: it succeeds or raises inside PostgreSQL's catalogue, and no
  state of the backend depends on it.
* Drills, benchmarks and examples: clients without protocol state of their own. The drills'
  questions are properties of `ClaimFunction` and `Broker`.
