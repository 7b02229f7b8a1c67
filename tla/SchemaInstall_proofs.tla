------------------------ MODULE SchemaInstall_proofs ------------------------
(***************************************************************************)
(* Theorems about SchemaInstall, for any set of starting processes and any *)
(* versions they bring.  The argument is the lock: whoever is in the       *)
(* transaction holds it (LockIsHeld), so what its second probe saw stays   *)
(* true until it commits (ProbeStillHolds), and what it commits is what it *)
(* staged (StagedIsOwn).                                                   *)
(***************************************************************************)
EXTENDS SchemaInstall, TLAPS

LockIsHeld == \A s \in Starters : pc[s] \in InTransaction => holder = s

\* A dropped table has no comment, so a drop does not disturb it.
ProbeStillHolds == \A s \in Starters : pc[s] \in InDdl => comment # VersionOf[s]

StagedIsOwn == \A s \in Starters :
    /\ pc[s] \in {"create_function", "comment", "commit"} =>
          VersionOf[s] \in staged[s].table
    /\ pc[s] \in {"comment", "commit"} => staged[s].function = VersionOf[s]
    /\ pc[s] = "commit" => staged[s].comment = VersionOf[s]

Inv == TypeOK /\ LockIsHeld /\ ProbeStillHolds /\ StagedIsOwn /\ FingerprintIsTrue

-----------------------------------------------------------------------------
\* A database without the schema, and processes that have not started.
LEMMA InitInv == Init => Inv
BY InstallAssumption DEF Init, Inv, TypeOK, LockIsHeld, ProbeStillHolds, StagedIsOwn,
   FingerprintIsTrue, Writes, Blank, Places, InTransaction, InDdl, Versions

\* Every action keeps the variables to their kinds.
LEMMA TypeInductive == TypeOK /\ [Next]_vars => TypeOK'
<1> SUFFICES ASSUME TypeOK, [Next]_vars PROVE TypeOK'
  OBVIOUS
<1> USE InstallAssumption DEF TypeOK, Places, Versions, GoTo, Unchanged
<1>1. ASSUME NEW s \in Starters, Probe1(s) PROVE TypeOK'
  BY <1>1 DEF Probe1, Writes
<1>2. ASSUME NEW s \in Starters, Lock(s) PROVE TypeOK'
  BY <1>2 DEF Lock, Writes
<1>3. ASSUME NEW s \in Starters, Probe2(s) PROVE TypeOK'
  BY <1>3 DEF Probe2, Writes
<1>4. ASSUME NEW s \in Starters, CreateTable(s) PROVE TypeOK'
  BY <1>4 DEF CreateTable, Writes
<1>5. ASSUME NEW s \in Starters, CreateFunction(s) PROVE TypeOK'
  BY <1>5 DEF CreateFunction, Writes
<1>6. ASSUME NEW s \in Starters, Comment(s) PROVE TypeOK'
  BY <1>6 DEF Comment, Writes
<1>7. ASSUME NEW s \in Starters, Commit(s) PROVE TypeOK'
  BY <1>7 DEF Commit, Writes, Blank
<1>8. ASSUME NEW s \in Starters, Fail(s) PROVE TypeOK'
  BY <1>8 DEF Fail, Writes, Blank
<1>9. ASSUME NEW s \in Starters, Restart(s) PROVE TypeOK'
  BY <1>9 DEF Restart, Writes
<1>10. CASE DropTable
  BY <1>10 DEF DropTable, Writes
<1>11. CASE UNCHANGED vars
  BY <1>11 DEF vars
<1>12. QED
  BY <1>1, <1>2, <1>3, <1>4, <1>5, <1>6, <1>7, <1>8, <1>9, <1>10, <1>11 DEF Next, Step

\* Every action keeps the invariant.
LEMMA InvInductive == Inv /\ [Next]_vars => Inv'
<1> SUFFICES ASSUME Inv, [Next]_vars PROVE (LockIsHeld /\ ProbeStillHolds /\ StagedIsOwn
                                             /\ FingerprintIsTrue)'
  BY TypeInductive DEF Inv
<1> USE InstallAssumption DEF Inv, TypeOK, LockIsHeld, ProbeStillHolds, StagedIsOwn,
        FingerprintIsTrue, InTransaction, InDdl, GoTo, Unchanged
<1> DEFINE Goal == (LockIsHeld /\ ProbeStillHolds /\ StagedIsOwn /\ FingerprintIsTrue)'
<1>1. ASSUME NEW s \in Starters, Probe1(s) PROVE Goal
  BY <1>1 DEF Probe1
<1>2. ASSUME NEW s \in Starters, Lock(s) PROVE Goal
  BY <1>2 DEF Lock
<1>3. ASSUME NEW s \in Starters, Probe2(s) PROVE Goal
  BY <1>3 DEF Probe2, IsCurrent
<1>4. ASSUME NEW s \in Starters, CreateTable(s) PROVE Goal
  BY <1>4 DEF CreateTable, Writes
<1>5. ASSUME NEW s \in Starters, CreateFunction(s) PROVE Goal
  BY <1>5 DEF CreateFunction, Writes
<1>6. ASSUME NEW s \in Starters, Comment(s) PROVE Goal
  BY <1>6 DEF Comment, Writes
\* Nobody else is in the transaction, so nobody's probe is falsified.
<1>7. ASSUME NEW s \in Starters, Commit(s) PROVE Goal
  BY <1>7 DEF Commit, Writes, Blank
<1>8. ASSUME NEW s \in Starters, Fail(s) PROVE Goal
  BY <1>8 DEF Fail, Blank
<1>9. ASSUME NEW s \in Starters, Restart(s) PROVE Goal
  BY <1>9 DEF Restart
<1>10. CASE DropTable
  BY <1>10 DEF DropTable, Versions
<1>11. CASE UNCHANGED vars
  BY <1>11 DEF vars
<1>12. QED
  BY <1>1, <1>2, <1>3, <1>4, <1>5, <1>6, <1>7, <1>8, <1>9, <1>10, <1>11 DEF Next, Step

\* The inductive invariant holds of every installation.
THEOREM InvHolds == Spec => []Inv
BY InitInv, InvInductive, PTL DEF Spec

\* The places of schema.ensure, what it writes and what it has staged stay of
\* their kinds.
THEOREM TypeCorrect == Spec => []TypeOK
<1>1. Inv => TypeOK
  BY DEF Inv
<1>2. QED
  BY <1>1, InvHolds, PTL

\* schema.ensure never runs DDL in two processes at once.
THEOREM DdlSerialHolds == Spec => []DdlIsSerial
<1>1. Inv => DdlIsSerial
  BY DEF Inv, LockIsHeld, DdlIsSerial, InTransaction, InDdl
<1>2. QED
  BY <1>1, InvHolds, PTL

\* The table's comment never names a version that is not installed.
THEOREM FingerprintHolds == Spec => []FingerprintIsTrue
<1>1. Inv => FingerprintIsTrue
  BY DEF Inv
<1>2. QED
  BY <1>1, InvHolds, PTL

\* Every DDL run that commits was needed: the second probe under the lock.
THEOREM InstallsHold == Spec => InstallsOnlyWhatIsNew
<1> DEFINE Install == \A s \in Starters :
                         pc[s] = "commit" /\ pc'[s] = "started" => comment' # comment
<1>1. Inv /\ [Next]_vars => [Install]_vars
  <2> SUFFICES ASSUME Inv, Next, NEW s \in Starters, pc[s] = "commit", pc'[s] = "started"
               PROVE comment' # comment
    BY DEF Install
  <2>1. Commit(s)
    BY DEF Inv, TypeOK, Next, Step, Probe1, Lock, Probe2, CreateTable, CreateFunction,
       Comment, Commit, Fail, Restart, DropTable, GoTo
  <2>2. QED
    BY <2>1 DEF Inv, ProbeStillHolds, StagedIsOwn, InDdl, Commit
<1>2. QED
  BY <1>1, InvHolds, PTL DEF Spec, InstallsOnlyWhatIsNew
=============================================================================
