--------------------------- MODULE SchemaInstall ----------------------------
(***************************************************************************)
(* schema.ensure (taskiq_pg/schema.py): processes that start install the   *)
(* message table and its claim function unless the table's comment, a      *)
(* fingerprint of the DDL text, says that it was done.  The processes may  *)
(* run different versions of the text, die anywhere, and find that the     *)
(* table was dropped.                                                      *)
(*                                                                         *)
(* The DDL is three statements here: the table with its columns and        *)
(* indexes, the claim function, the comment.  They stay in the             *)
(* transaction until it commits.                                           *)
(***************************************************************************)
EXTENDS Naturals

CONSTANTS
    Starters,           \* processes that run startup
    VersionOf,          \* the fingerprint of the DDL text a process brings
    FailureBound,       \* bound on crashes and failing statements
    DropBound,          \* bound on DROP TABLE
    None                \* no comment, no function, nobody

Versions == {VersionOf[s] : s \in Starters}

ASSUME InstallAssumption ==
    /\ FailureBound \in Nat /\ DropBound \in Nat
    /\ None \notin Versions /\ None \notin Starters

VARIABLES
    table,      \* the versions whose columns and indexes the table has
    function,   \* the version of the claim function
    comment,    \* the fingerprint on the table
    staged,     \* per process, what its transaction wrote and did not commit
    holder,     \* who holds the advisory lock
    pc,         \* where each startup stands
    failures, drops

vars == <<table, function, comment, staged, holder, pc, failures, drops>>

Places == {"probe1", "lock", "probe2", "create_table", "create_function",
           "comment", "commit", "started", "failed"}

Writes == [table : SUBSET Versions, function : Versions \cup {None},
           comment : Versions \cup {None}]

TypeOK ==
    /\ table \in SUBSET Versions
    /\ function \in Versions \cup {None}
    /\ comment \in Versions \cup {None}
    /\ staged \in [Starters -> Writes]
    /\ holder \in Starters \cup {None}
    /\ pc \in [Starters -> Places]
    /\ failures \in 0 .. FailureBound
    /\ drops \in 0 .. DropBound

Blank == [table |-> {}, function |-> None, comment |-> None]

Init ==
    /\ table = {} /\ function = None /\ comment = None
    /\ staged = [s \in Starters |-> Blank]
    /\ holder = None
    /\ pc = [s \in Starters |-> "probe1"]
    /\ failures = 0 /\ drops = 0
-----------------------------------------------------------------------------
GoTo(s, place) == pc' = [pc EXCEPT ![s] = place]

Unchanged == UNCHANGED <<table, function, comment, failures, drops>>

IsCurrent(s) == comment = VersionOf[s]

\* The probe outside the transaction, without the lock.
Probe1(s) ==
    /\ pc[s] = "probe1"
    /\ GoTo(s, IF IsCurrent(s) THEN "started" ELSE "lock")
    /\ UNCHANGED <<staged, holder>> /\ Unchanged

\* Mutant: nobody waits for the lock.
LockAnyway(s) ==
    /\ pc[s] = "lock"
    /\ holder' = s
    /\ GoTo(s, "probe2")
    /\ UNCHANGED staged /\ Unchanged

Lock(s) ==
    /\ pc[s] = "lock"
    /\ holder = None
    /\ holder' = s
    /\ GoTo(s, "probe2")
    /\ UNCHANGED staged /\ Unchanged

\* Mutant: whoever gets the lock runs the DDL.
Probe2Never(s) ==
    /\ pc[s] = "probe2"
    /\ GoTo(s, "create_table")
    /\ UNCHANGED <<staged, holder>> /\ Unchanged

\* Mutant: a session lock, which the early return does not release.
Probe2KeepsLock(s) ==
    /\ pc[s] = "probe2"
    /\ GoTo(s, IF IsCurrent(s) THEN "started" ELSE "create_table")
    /\ UNCHANGED <<staged, holder>> /\ Unchanged

\* The probe under the lock is a statement of its own and sees what was
\* committed while the process waited; returning ends the transaction.
Probe2(s) ==
    /\ pc[s] = "probe2"
    /\ GoTo(s, IF IsCurrent(s) THEN "started" ELSE "create_table")
    /\ holder' = IF IsCurrent(s) THEN None ELSE holder
    /\ UNCHANGED staged /\ Unchanged

\* CREATE TABLE and ADD COLUMN, each IF NOT EXISTS: nothing is taken away.
CreateTable(s) ==
    /\ pc[s] = "create_table"
    /\ staged' = [staged EXCEPT ![s].table = table \cup {VersionOf[s]}]
    /\ GoTo(s, "create_function")
    /\ UNCHANGED holder /\ Unchanged

\* CREATE OR REPLACE FUNCTION.
CreateFunction(s) ==
    /\ pc[s] = "create_function"
    /\ staged' = [staged EXCEPT ![s].function = VersionOf[s]]
    /\ GoTo(s, "comment")
    /\ UNCHANGED holder /\ Unchanged

\* Mutant: the fingerprint is written on another connection, which commits at once.
CommentAtOnce(s) ==
    /\ pc[s] = "comment"
    /\ comment' = VersionOf[s]
    /\ staged' = [staged EXCEPT ![s].comment = VersionOf[s]]
    /\ GoTo(s, "commit")
    /\ UNCHANGED <<table, function, holder, failures, drops>>

\* Mutant: the comment is the whole digest, the probe asks for its first half.
CommentWhole(s) ==
    /\ pc[s] = "comment"
    /\ staged' = [staged EXCEPT ![s].comment = <<VersionOf[s], "rest">>]
    /\ GoTo(s, "commit")
    /\ UNCHANGED holder /\ Unchanged

\* The fingerprint is written on the table.
Comment(s) ==
    /\ pc[s] = "comment"
    /\ staged' = [staged EXCEPT ![s].comment = VersionOf[s]]
    /\ GoTo(s, "commit")
    /\ UNCHANGED holder /\ Unchanged

\* The transaction commits; its lock ends with it.
Commit(s) ==
    /\ pc[s] = "commit"
    /\ table' = staged[s].table
    /\ function' = staged[s].function
    /\ comment' = staged[s].comment
    /\ staged' = [staged EXCEPT ![s] = Blank]
    /\ holder' = None
    /\ GoTo(s, "started")
    /\ UNCHANGED <<failures, drops>>
-----------------------------------------------------------------------------
InTransaction == {"probe2", "create_table", "create_function", "comment", "commit"}

\* A statement raises or the process dies: its transaction rolls back.
Fail(s) ==
    /\ failures < FailureBound
    /\ failures' = failures + 1
    /\ pc[s] \notin {"started", "failed"}
    /\ GoTo(s, "failed")
    /\ staged' = [staged EXCEPT ![s] = Blank]
    /\ holder' = IF holder = s THEN None ELSE holder
    /\ UNCHANGED <<table, function, comment, drops>>

\* The process is started again, after a failure or in a later deployment.
Restart(s) ==
    /\ pc[s] = "failed"
    /\ GoTo(s, "probe1")
    /\ UNCHANGED <<staged, holder>> /\ Unchanged

\* Somebody drops the table; it cannot be done while a transaction has altered
\* it.  The comment goes with it, the claim function stays.
\* The processes that used the table are started again.
DropTable ==
    /\ drops < DropBound
    /\ table # {}
    /\ \A s \in Starters : pc[s] \notin {"create_function", "comment", "commit"}
    /\ drops' = drops + 1
    /\ table' = {} /\ comment' = None
    /\ pc' = [s \in Starters |-> IF pc[s] = "started" THEN "failed" ELSE pc[s]]
    /\ UNCHANGED <<function, staged, holder, failures>>
-----------------------------------------------------------------------------
Step(s) ==
    \/ Probe1(s) \/ Lock(s) \/ Probe2(s)
    \/ CreateTable(s) \/ CreateFunction(s) \/ Comment(s) \/ Commit(s)

Next ==
    \/ \E s \in Starters : Step(s) \/ Fail(s) \/ Restart(s)
    \/ DropTable

Spec == Init /\ [][Next]_vars

\* A startup that is not killed goes on and gets the lock in its turn, and a
\* supervisor starts a failed process again.
Fairness == \A s \in Starters :
                /\ WF_vars(Step(s) /\ pc[s] # "lock")
                /\ SF_vars(Lock(s))
                /\ WF_vars(Restart(s))

FairSpec == Spec /\ Fairness
-----------------------------------------------------------------------------
InDdl == {"create_table", "create_function", "comment", "commit"}

\* DDL never runs concurrently, which PostgreSQL would refuse ("tuple
\* concurrently updated", a duplicate key): the docstring of ensure.
DdlIsSerial ==
    \A s, r \in Starters : pc[s] \in InDdl /\ pc[r] \in InDdl => s = r

\* What the fingerprint says is what is installed, whoever died in between:
\* the table has the columns of the version on the comment, and the claim
\* function is that version's (the docstring of ensure, on reinstalling).
FingerprintIsTrue ==
    comment # None => comment \in table /\ function = comment

\* DDL runs only when it is needed: a commit of the DDL changes the
\* fingerprint, so N processes of one version that start cold run it once.
InstallsOnlyWhatIsNew ==
    [][\A s \in Starters :
          pc[s] = "commit" /\ pc'[s] = "started" => comment' # comment]_vars

\* Every process that waits for the lock is up in the end, whoever holds it,
\* returns early with it or dies with it.
EveryStartEnds == \A s \in Starters : pc[s] = "lock" ~> pc[s] = "started"
=============================================================================
