------------------------------ MODULE Receiver ------------------------------
(***************************************************************************)
(* The life of a result: Broker's deliveries composed with taskiq's        *)
(* receiver, AsyncpgResultBackend (taskiq_pg/result_backend.py) and the    *)
(* clients that wait for a result.                                         *)
(*                                                                         *)
(* A receiver awaits the task, then on_error if it failed, then saves the  *)
(* result and acknowledges (when_saved), or the other way round            *)
(* (when_executed).  Saving is an upsert under the task id, without a      *)
(* fence.  A message's task id is its row's id here: a kick draws one of   *)
(* each.                                                                   *)
(***************************************************************************)
EXTENDS Broker

CONSTANTS
    Endings,            \* how a task may end that is not handed to a retry
    Readers,            \* clients that wait for results
    Awaits,             \* the task ids each of them may wait for
    AckType,            \* the --ack-type of each worker process
    Withholding,        \* the workers whose middleware has no_result_on_retry
    KeepResults,        \* keep_results
    ResultFaults        \* which statements of the result backend may raise

ASSUME ReceiverAssumption ==
    /\ Endings \subseteq {"success", "failure", "none"}
    /\ Awaits \in [Readers -> SUBSET Ids]
    /\ AckType \in [Workers -> {"when_saved", "when_executed"}]
    /\ Withholding \subseteq Workers
    /\ KeepResults \in BOOLEAN
    /\ ResultFaults \subseteq {"save_error", "read_error"}

VARIABLES
    results,        \* the result table: task id -> outcome
    outcomes,       \* results the receivers hold, not saved yet
    absent,         \* auxiliary: attempts that will leave no result, and why
    readers         \* what each client is doing

resultVars == <<results, outcomes, absent, readers>>
rvars == <<rows, last_id, inserting, deliveries, inflight, beat,
           results, outcomes, absent, readers>>

\* spent: the failure of a message whose attempts are used up.  retried: that of
\* an attempt that is retried.  failure: one that on_error leaves alone.
Values == {"success", "failure", "spent", "retried"}

\* none: the task raised NoResultError.  unsaved: set_result raised.  unacked: the
\* ack raised before it.  unreleased: on_error raised.  died: its process did.
Reasons == {"none", "unsaved", "unacked", "unreleased", "died"}

Absence == [worker : Workers, id : Ids, attempts : Nat, why : Reasons]
Result == [attempts : Nat, value : Values]
Outcome == [worker : Workers, id : Ids, attempts : Nat, value : Values]

\* ready: is_result_ready said so.  selected: get_result read the row.
ReaderPhases == {"idle", "waiting", "ready", "selected", "answered", "missing",
                 "failed"}

ReceiverTypeOK ==
    /\ DOMAIN results \subseteq Ids
    /\ \A i \in DOMAIN results : results[i] \in Result
    /\ outcomes \subseteq Outcome
    /\ absent \subseteq Absence
    /\ readers \in [Readers -> [phase : ReaderPhases, id : Ids \cup {0}, attempts : Nat]]
    \* A receiver holds one result per attempt, and none it has dropped.
    /\ \A o, p \in outcomes :
          o.id = p.id /\ o.attempts = p.attempts => o = p
    /\ \A o \in outcomes, x \in absent : o.id = x.id => o.attempts # x.attempts

ReceiverInit ==
    /\ Init
    /\ results = [i \in {} |-> 0]
    /\ outcomes = {}
    /\ absent = {}
    /\ readers = [c \in Readers |-> [phase |-> "idle", id |-> 0, attempts |-> 0]]
-----------------------------------------------------------------------------
(* The receiver *)

OutcomeOf(d, value) == [worker |-> d.worker, id |-> d.id,
                        attempts |-> d.attempts, value |-> value]

\* The attempt of a delivery or of a result leaves none.
Absent(d, why) == [worker |-> d.worker, id |-> d.id, attempts |-> d.attempts, why |-> why]

Unsaved(d) == {o \in outcomes : o.id = d.id /\ o.attempts = d.attempts}

\* A new attempt: how the earlier ones ended no longer matters.
Claim(w, i) ==
    /\ Dequeue(w, i)
    /\ absent' = {x \in absent : x.id # i}
    /\ UNCHANGED <<results, outcomes, readers>>

\* The task is over, with something to save or (NoResultError) without.
Finish(d) ==
    /\ TaskEnds(d)
    /\ \/ /\ \E value \in Endings \cap Values :
                outcomes' = outcomes \cup {OutcomeOf(d, value)}
          /\ UNCHANGED absent
       \/ /\ "none" \in Endings
          /\ absent' = absent \cup {Absent(d, "none")}
          /\ UNCHANGED outcomes
    /\ UNCHANGED <<results, readers>>

\* Mutant: a retried failure is told as a final one.
ReportAlways(d) ==
    /\ Release(d)
    /\ outcomes' = outcomes \cup {OutcomeOf(d, "spent")}
    /\ UNCHANGED <<results, absent, readers>>

\* Mutant: NoResultError on both branches.
ReportNothing(d) ==
    /\ Release(d)
    /\ UNCHANGED <<results, outcomes, absent, readers>>

\* on_error is over.  A spent message reports its failure, whether or not
\* mark_dead found the row; a retry does unless no_result_on_retry is set.
Report(d) ==
    /\ Release(d)
    /\ outcomes' = outcomes \cup
          CASE d.phase = "burying"       -> {OutcomeOf(d, "spent")}
            [] d.worker \in Withholding -> {}
            [] OTHER                     -> {OutcomeOf(d, "retried")}
    /\ UNCHANGED <<results, absent, readers>>

\* on_error raises: nothing is saved, nothing acknowledged.
FailRelease(d) ==
    /\ ReleaseError(d)
    /\ absent' = absent \cup {Absent(d, "unreleased")}
    /\ UNCHANGED <<results, outcomes, readers>>

MayAck(d) == AckType[d.worker] = "when_saved" => Unsaved(d) = {}

\* Mutant: the first result stays.
SetResultOnce(o) ==
    [i \in DOMAIN results \cup {o.id} |->
        IF i \in DOMAIN results THEN results[i]
        ELSE [attempts |-> o.attempts, value |-> o.value]]

\* The upsert of set_result.
SetResult(o) ==
    [i \in DOMAIN results \cup {o.id} |->
        IF i = o.id THEN [attempts |-> o.attempts, value |-> o.value]
        ELSE results[i]]

\* The receiver's turn to save: at once, or after the ack.
SaveIsDue(o) ==
    AckType[o.worker] = "when_executed" =>
        \A d \in deliveries : d.id = o.id => d.attempts # o.attempts

Save(o) ==
    /\ SaveIsDue(o)
    /\ results' = SetResult(o)
    /\ outcomes' = outcomes \ {o}
    /\ UNCHANGED <<vars, absent, readers>>

\* Mutant: the receiver tries again.
SaveErrorAgain(o) ==
    /\ "save_error" \in ResultFaults
    /\ SaveIsDue(o)
    /\ absent' = absent \cup {Absent(o, "unsaved")}
    /\ UNCHANGED <<vars, results, outcomes, readers>>

\* set_result raises, applied or not: the receiver logs it and goes on.
SaveError(o) ==
    /\ "save_error" \in ResultFaults
    /\ SaveIsDue(o)
    /\ \/ results' = SetResult(o) /\ UNCHANGED absent
       \/ absent' = absent \cup {Absent(o, "unsaved")} /\ UNCHANGED results
    /\ outcomes' = outcomes \ {o}
    /\ UNCHANGED <<vars, readers>>

\* COMPLETE landed and the discard is done.
EndAck(d) ==
    /\ AckDiscard(d)
    /\ UNCHANGED resultVars

\* An ack that raises ends the callback: under when_executed nothing is saved.
FailAck(d) ==
    /\ MayAck(d) /\ AckError(d)
    /\ outcomes' = outcomes \ Unsaved(d)
    /\ absent' = absent \cup {Absent(o, "unacked") : o \in Unsaved(d)}
    /\ UNCHANGED <<results, readers>>

\* A process that dies takes its results with it.
Die(w) ==
    /\ Crash(w)
    /\ LET theirs == {o \in outcomes : o.worker = w} IN
       /\ outcomes' = outcomes \ theirs
       /\ absent' = absent \cup {Absent(o, "died") : o \in theirs}
    /\ UNCHANGED <<results, readers>>
-----------------------------------------------------------------------------
(* wait_result: is_result_ready until it is, then get_result *)

Goes(c, phase) == readers' = [readers EXCEPT ![c].phase = phase]

Wait(c, i) ==
    /\ readers[c].phase = "idle"
    /\ readers' = [readers EXCEPT ![c].phase = "waiting", ![c].id = i]
    /\ UNCHANGED <<vars, results, outcomes, absent>>

IsResultReady(c) ==
    /\ readers[c].phase = "waiting"
    /\ readers[c].id \in DOMAIN results
    /\ Goes(c, "ready")
    /\ UNCHANGED <<vars, results, outcomes, absent>>

Without(i) == [j \in DOMAIN results \ {i} |-> results[j]]

\* Mutant: DELETE before SELECT.
SelectDeleted(c) ==
    /\ readers[c].phase = "ready"
    /\ Goes(c, "missing")
    /\ results' = Without(readers[c].id)
    /\ UNCHANGED <<vars, outcomes, absent>>

\* SELECT_RESULT_QUERY; no row is a ResultIsMissingError.
Select(c) ==
    /\ readers[c].phase = "ready"
    /\ IF readers[c].id \in DOMAIN results
       THEN readers' = [readers EXCEPT ![c].phase = "selected",
                                       ![c].attempts = results[readers[c].id].attempts]
       ELSE Goes(c, "missing")
    /\ UNCHANGED <<vars, results, outcomes, absent>>

\* DELETE_RESULT_QUERY unless results are kept, whatever the row holds by now:
\* the client answers for the attempt it deletes, read or not.
Delete(c, phase) ==
    IF ~KeepResults /\ readers[c].id \in DOMAIN results
    THEN /\ results' = Without(readers[c].id)
         /\ readers' = [readers EXCEPT ![c].phase = phase,
                                       ![c].attempts = results[readers[c].id].attempts]
    ELSE Goes(c, phase) /\ UNCHANGED results

Return(c) ==
    /\ readers[c].phase = "selected"
    /\ Delete(c, "answered")
    /\ UNCHANGED <<vars, outcomes, absent>>

\* DELETE raises, applied or not, or the bytes do not decode after it.
ReadError(c) ==
    /\ "read_error" \in ResultFaults
    /\ readers[c].phase = "selected"
    /\ \/ Delete(c, "failed")
       \/ Goes(c, "failed") /\ UNCHANGED results
    /\ UNCHANGED <<vars, outcomes, absent>>
-----------------------------------------------------------------------------
\* What Broker does on its own: nothing of it touches a result.
Elsewhere ==
    /\ \/ \E p \in Producers : Kick(p)
       \/ \E d \in deliveries :
             Yield(d) \/ LoseClaim(d) \/ TaskFails(d)
             \/ (MayAck(d) /\ AckComplete(d)) \/ NoAck(d)
       \/ \E w \in Workers : HeartbeatList(w) \/ HeartbeatExecute(w)
       \/ TableStep
    /\ UNCHANGED resultVars

ReceiverNext ==
    \/ Elsewhere
    \/ \E w \in Workers, i \in DOMAIN rows : Claim(w, i)
    \/ \E d \in deliveries :
          Finish(d) \/ Report(d) \/ FailRelease(d) \/ EndAck(d) \/ FailAck(d)
    \/ \E o \in outcomes : Save(o) \/ SaveError(o)
    \/ \E w \in Workers : Die(w)
    \/ \E c \in Readers : \E i \in Awaits[c] \cap DOMAIN rows : Wait(c, i)
    \/ \E c \in Readers : IsResultReady(c) \/ Select(c) \/ Return(c) \/ ReadError(c)

ReceiverSpec == ReceiverInit /\ [][ReceiverNext]_rvars

\* A receiver saves what it holds, and goes on with a delivery as in Broker.
Advance(d) ==
    \/ (Yield(d) \/ (MayAck(d) /\ AckComplete(d))) /\ UNCHANGED resultVars
    \/ Finish(d) \/ Report(d) \/ EndAck(d)

Alone(action) == action /\ UNCHANGED resultVars

ReceiverFairness ==
    /\ \A i \in Ids :
          /\ WF_rvars(i \in DOMAIN rows /\ \E w \in Workers : Claim(w, i))
          /\ WF_rvars(i \in DOMAIN rows /\ Alone(BecomeDue(i)))
          /\ WF_rvars(i \in DOMAIN rows /\ ~Tended(i) /\ Alone(LeaseLapse(i)))
    /\ WF_rvars(Alone(Sweep(Stuck(rows))))
    /\ \A i \in Ids, a \in 1 .. AttemptBound :
          /\ WF_rvars(\E d \in deliveries :
                         d.id = i /\ d.attempts = a /\ Advance(d))
          /\ WF_rvars(\E o \in outcomes : o.id = i /\ o.attempts = a /\ Save(o))

ReceiverFairSpec == ReceiverSpec /\ ReceiverFairness
-----------------------------------------------------------------------------
(* What a client can rely on, for every interleaving and fault *)

\* A failure that is reported because the attempts are spent (middlewares.py, "a
\* spent message reports its failure") is that of a dead message: nobody runs it
\* again, though saving is not fenced and the sweep may have taken the row from
\* its worker.  Of no other failure is that true: one on_error leaves alone runs
\* again after a crash before the ack, and one saved without no_result_on_retry
\* is retried.
FailureIsFinal ==
    \A i \in DOMAIN results :
        results[i].value = "spent" => i \in DOMAIN rows /\ rows[i].status = "dead"

\* get_result finds nothing after is_result_ready only when another client took
\* the result and deleted it.
MissingMeansTaken ==
    \A c \in Readers :
        readers[c].phase = "missing" =>
            /\ ~KeepResults
            /\ \E e \in Readers \ {c} :
                  /\ readers[e].id = readers[c].id
                  /\ readers[e].phase \in {"answered", "failed"}
-----------------------------------------------------------------------------
(* What it can rely on when heartbeats are on time and nothing is retried *)

\* Client c read the result of attempt a of message i, or deleted it.
Took(c, i, a) ==
    /\ readers[c].phase \in {"answered", "failed"}
    /\ readers[c].id = i /\ readers[c].attempts = a

\* A message is completed by the worker that holds its row, and under when_saved
\* only once set_result is over for that very attempt: its result is stored,
\* unless a client took it since, the task left none, or set_result raised (the
\* receiver acknowledges all the same).
CompletedHasResult ==
    [][\A i \in DOMAIN rows \cap DOMAIN rows' :
          rows[i].status # "completed" /\ rows'[i].status = "completed"
          => \E d \in deliveries :
                /\ d.id = i /\ d.attempts = rows[i].retry_count
                /\ AckType[d.worker] = "when_saved"
                   => \/ i \in DOMAIN results /\ results[i].attempts = d.attempts
                      \/ \E c \in Readers : Took(c, i, d.attempts)
                      \/ \E why \in {"none", "unsaved"} : Absent(d, why) \in absent]_rvars

\* The result of an attempt is never overwritten by an earlier attempt's.
ResultsMoveForward ==
    [][\A i \in DOMAIN results \cap DOMAIN results' :
          results[i].attempts <= results'[i].attempts]_rvars
-----------------------------------------------------------------------------
(* What it can rely on eventually *)

Settled(i) == rows[i].status \in {"completed", "dead"}

\* What is stored is the result of the attempt that ended the message.  Without
\* no_result_on_retry the failure of an earlier one may come late and stand there
\* instead.
Answered(i) ==
    /\ i \in DOMAIN results
    /\ i \in DOMAIN rows =>
          /\ Settled(i)
          /\ \/ results[i].attempts = rows[i].retry_count
             \/ results[i].value = "retried"

\* The sweep buried it: nobody was left to report a failure.
SweptDead(i) == rows[i].status = "dead" /\ rows[i].heartbeat_at = "stale"

\* The attempt that ended it left no result: the task raised NoResultError, or
\* set_result raised; or, after the statement that buried it or the ack that goes
\* first under when_executed, the process died or that statement raised, applied.
Unreported(i) ==
    \E x \in absent :
        /\ x.id = i
        /\ i \in DOMAIN rows => Settled(i) /\ x.attempts = rows[i].retry_count
        /\ \/ x.why \in {"none", "unsaved"}
           \/ AckType[x.worker] = "when_executed"
           \/ i \in DOMAIN rows /\ rows[i].status = "dead"

\* A message leaves a result in the end, except in these ways, or when it is
\* halted behind a dead one.  A crash before the ack costs no result: under
\* when_saved every message that is completed has been answered.
EveryMessageIsAnswered ==
    \A i \in Ids :
        (i \in DOMAIN rows) ~>
            \/ Answered(i)
            \/ Unreported(i)
            \/ i \in DOMAIN rows /\ (HaltedByDead(i) \/ SweptDead(i))
=============================================================================
