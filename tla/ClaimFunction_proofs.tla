------------------------ MODULE ClaimFunction_proofs ------------------------
(***************************************************************************)
(* Theorems about ClaimFunction, for any backends, messages, groups and    *)
(* bounds.  The argument is the locks.  A candidate's row is locked until  *)
(* its transaction ends, so it stays as it was (CandidateIsHeld).  Its     *)
(* group is locked before the re-check, and a group becomes active only    *)
(* by a claim under its lock, so the re-check holds when the claim commits *)
(* (GroupIsHeld).  The older messages are not locked, but what the         *)
(* snapshot requires of them never comes undone (SnapshotHolds).           *)
(***************************************************************************)
EXTENDS ClaimFunction, WellFoundedInduction, TLAPS

\* The call has chosen a candidate.
InCall(b) == pc[b] \in {"group", "recheck", "update"}

\* Nobody but b can touch b's candidate: it is locked, and as it was then.
CandidateIsHeld ==
    \A b \in Backends : InCall(b) =>
        /\ cand[b] \in DOMAIN rows
        /\ rowLock[cand[b]] = b
        /\ rows[cand[b]].status = "queued"
        /\ rows[cand[b]].retry_count < AttemptBound

\* The re-check is made under the group's lock, so it still holds at the UPDATE.
GroupIsHeld ==
    \A b \in Backends :
        /\ pc[b] \in {"recheck", "update"} /\ GroupOf(b) # NoGroup
              => groupLock[GroupOf(b)] = b
        /\ pc[b] = "update" => ~GroupActive(rows, GroupOf(b))

\* Nothing older holds message i back.
Unhindered(i) ==
    rows[i].kind.ordered /\ rows[i].kind.group_key \in SoleWriter =>
        \A j \in Older(rows, i) : rows[j].status = "completed"

\* What the snapshot said of the older messages is still so.
SnapshotHolds ==
    \A b \in Backends :
        /\ \A x \in todo[b] :
              x[2] \in used /\ (x[2] \in DOMAIN rows => Unhindered(x[2]))
        /\ InCall(b) => Unhindered(cand[b])

\* The scan always has a next row: (scheduled_at, id) pairs are well ordered.
LEMMA FirstExists ==
    ASSUME NEW T \in SUBSET (Nat \X Nat), T # {}
    PROVE  \E x \in T : \A y \in T \ {x} : Before(x, y)
<1> DEFINE Less == {z \in Nat \X Nat : z[1] < z[2]}
           Lex == LexPairOrdering(Less, Less, Nat, Nat)
<1>1. IsWellFoundedOn(Less, Nat)
  BY NatLessThanWellFounded DEF OpToRel
<1>2. IsWellFoundedOn(Lex, Nat \X Nat)
  <2> HIDE DEF Less
  <2>1. QED
    BY <1>1, WFLexPairOrdering
<1>3. PICK x \in T : \A y \in T : <<y, x>> \notin Lex
  <2> HIDE DEF Lex
  <2>1. QED
    BY <1>2, WFMin
<1>4. ASSUME NEW y \in T \ {x} PROVE Before(x, y)
  <2>1. x \in Nat \X Nat /\ y \in Nat \X Nat /\ y # x
    OBVIOUS
  <2>2. ~(y[1] < x[1]) /\ ~(y[1] = x[1] /\ y[2] < x[2])
    BY <1>3, <2>1 DEF LexPairOrdering
  <2>3. x[1] # y[1] \/ x[2] # y[2]
    BY <2>1
  <2>4. x[1] \in Nat /\ x[2] \in Nat /\ y[1] \in Nat /\ y[2] \in Nat
    BY <2>1
  <2>5. QED
    BY <2>2, <2>3, <2>4 DEF Before
<1>5. QED
  BY <1>4

\* The scan's next row is one of those it has yet to lock.
LEMMA HeadFacts ==
    ASSUME TypeOK, NEW b \in Backends, todo[b] # {}
    PROVE  /\ Head(b) \in todo[b]
           /\ Head(b)[1] \in Times /\ Head(b)[2] \in Ids
<1>1. todo[b] \in SUBSET (Times \X Ids) /\ Times \subseteq Nat /\ Ids \subseteq Nat
  BY ClaimAssumption DEF TypeOK, Times
<1>2. todo[b] \in SUBSET (Nat \X Nat)
  BY <1>1
<1>3. \E x \in todo[b] : \A y \in todo[b] \ {x} : Before(x, y)
  BY <1>2, FirstExists
<1>4. Head(b) \in todo[b]
  BY <1>3 DEF Head
<1>5. QED
  BY <1>1, <1>4
-----------------------------------------------------------------------------
\* The statements keep the table well-formed.
LEMMA ClaimKeepsRows ==
    ASSUME NEW t, t \in [DOMAIN t -> Row], NEW i \in DOMAIN t
    PROVE  ClaimRow(t, i) \in [DOMAIN t -> Row]
<1>1. t[i] \in Row /\ t[i].retry_count + 1 \in Nat
  BY DEF Row
<1>2. [t[i] EXCEPT !.status = "active", !.heartbeat_at = "fresh",
                   !.retry_count = @ + 1] \in Row
  BY <1>1 DEF Row, MessageStatus, HeartbeatAges
<1>3. ClaimRow(t, i) =
         [t EXCEPT ![i] = [t[i] EXCEPT !.status = "active", !.heartbeat_at = "fresh",
                                       !.retry_count = @ + 1]]
  BY DEF ClaimRow
<1>4. QED
  BY <1>2, <1>3

\* How a delivery ends: one active row is ended or handed back, or none.
LEMMA EndingFacts ==
    ASSUME TypeOK, NEW i \in DOMAIN rows, rows[i].status = "active", rows' \in Endings(i)
    PROVE  /\ DOMAIN rows' = DOMAIN rows
           /\ \A j \in DOMAIN rows \ {i} : rows'[j] = rows[j]
           /\ rows'[i] \in Row
           /\ rows'[i].kind = rows[i].kind
           /\ rows'[i].retry_count = rows[i].retry_count
           /\ rows'[i].status \in {"active", "completed"}
                 \cup {IF Spent(rows[i].kind, rows[i].retry_count) THEN "dead" ELSE "queued"}
<1> DEFINE a == rows[i].retry_count
<1> USE DEF Row, MessageStatus, HeartbeatAges
<1>t. rows \in [DOMAIN rows -> Row] /\ Whens \subseteq Times
  BY DEF TypeOK, Whens
<1>o. Owns(rows, i, a)
  BY DEF Owns
<1>1. CASE rows' = CompleteMessage(rows, i, a)
  BY <1>1, <1>o, <1>t DEF CompleteMessage
<1>2. CASE rows' = SweepMessages(rows, {i})
  BY <1>2, <1>t DEF SweepMessages
<1>3. CASE Spent(rows[i].kind, a) /\ rows' = MarkDead(rows, i, a)
  BY <1>3, <1>o, <1>t DEF MarkDead
<1>4. ASSUME ~Spent(rows[i].kind, a), NEW when \in Times, rows' = RetryInPlace(rows, i, a, when)
      PROVE  /\ DOMAIN rows' = DOMAIN rows
             /\ \A j \in DOMAIN rows \ {i} : rows'[j] = rows[j]
             /\ rows'[i] \in Row
             /\ rows'[i].kind = rows[i].kind
             /\ rows'[i].retry_count = rows[i].retry_count
             /\ rows'[i].status = "queued"
  <2>1. rows'[i] = [rows[i] EXCEPT !.status = "queued", !.scheduled_at = when,
                                   !.heartbeat_at = "null"]
    BY <1>4, <1>o, <1>t DEF RetryInPlace
  <2>2. rows'[i] \in Row
    BY <2>1, <1>t
  <2>3. QED
    BY <1>4, <1>o, <1>t, <2>1, <2>2 DEF RetryInPlace
<1>5. QED
  BY <1>1, <1>2, <1>3, <1>4, <1>t DEF Endings

\* What a step may do to the table.
Inserts(i, kind, when) ==
    /\ i \notin used
    /\ kind.group_key \in SoleWriter =>
          \A j \in InGroup(rows, kind.group_key) : j < i
    /\ rows' = InsertMessage(rows, i, kind, when)
    /\ used' = used \cup {i}

Ends(i) ==
    /\ rows[i].status = "active" /\ rowLock[i] = Free
    /\ rows' \in Endings(i)
    /\ used' = used /\ rowLock' = rowLock

Forgets(i) ==
    /\ i \in Completed(rows) /\ rowLock[i] = Free
    /\ rows' = CleanupExpired(rows, {i})
    /\ used' = used

\* What a step can do to the committed rows.
LEMMA RowStep ==
    ASSUME [Next]_vars
    PROVE  \/ rows' = rows /\ used' = used
           \/ \E b \in Backends : Commit(b)
           \/ \E i \in Ids, kind \in Kinds, when \in Times : Inserts(i, kind, when)
           \/ \E i \in DOMAIN rows : Ends(i) \/ Forgets(i)
<1>1. ASSUME NEW b \in Backends, Begin(b) \/ Call(b) \/ Rollback(b)
      PROVE  (rows' = rows /\ used' = used) \/ Commit(b)
  BY <1>1 DEF Begin, Call, Select, SkipRow, RejectRow, TakeRow, TryGroupLock, Recheck,
     NotFound, Rollback, table
<1>2. ASSUME NEW i \in Ids, NEW kind \in Kinds, NEW when \in Whens, InsertRow(i, kind, when)
      PROVE  Inserts(i, kind, when) /\ when \in Times
  BY <1>2 DEF InsertRow, Inserts, Whens
<1>3. ASSUME NEW i \in DOMAIN rows, EndDelivery(i) \/ CleanupRow(i)
      PROVE  Ends(i) \/ Forgets(i)
  BY <1>3 DEF EndDelivery, CleanupRow, Ends, Forgets, backend
<1>4. Tick \/ UNCHANGED vars => rows' = rows /\ used' = used
  BY DEF Tick, vars, table
<1>5. QED
  BY <1>1, <1>2, <1>3, <1>4 DEF Next, Others
-----------------------------------------------------------------------------
\* The table's part of the types.
LEMMA RowsTyped ==
    ASSUME TypeOK, CandidateIsHeld, [Next]_vars
    PROVE  /\ DOMAIN rows' \subseteq used' /\ used' \subseteq Ids
           /\ rows' \in [DOMAIN rows' -> Row]
<1>t. /\ DOMAIN rows \subseteq used /\ used \subseteq Ids
      /\ rows \in [DOMAIN rows -> Row]
  BY DEF TypeOK
<1>1. CASE rows' = rows /\ used' = used
  BY <1>1, <1>t
<1>2. ASSUME NEW b \in Backends, Commit(b)
      PROVE  /\ DOMAIN rows' \subseteq used' /\ used' \subseteq Ids
             /\ rows' \in [DOMAIN rows' -> Row]
  <2>1. cand[b] \in DOMAIN rows
    BY <1>2 DEF Commit, CandidateIsHeld, InCall
  <2>2. rows' \in [DOMAIN rows -> Row] /\ used' = used
    BY <1>2, <1>t, <2>1, ClaimKeepsRows DEF Commit
  <2>3. QED
    BY <1>t, <2>2
<1>3. ASSUME NEW i \in Ids, NEW kind \in Kinds, NEW when \in Times, Inserts(i, kind, when)
      PROVE  /\ DOMAIN rows' \subseteq used' /\ used' \subseteq Ids
             /\ rows' \in [DOMAIN rows' -> Row]
  BY <1>3, <1>t DEF Inserts, InsertMessage, Row, MessageStatus, HeartbeatAges
<1>4. ASSUME NEW i \in DOMAIN rows, Ends(i)
      PROVE  /\ DOMAIN rows' \subseteq used' /\ used' \subseteq Ids
             /\ rows' \in [DOMAIN rows' -> Row]
  <2>1. /\ DOMAIN rows' = DOMAIN rows /\ rows'[i] \in Row
        /\ \A j \in DOMAIN rows \ {i} : rows'[j] = rows[j]
    BY <1>4, EndingFacts DEF Ends
  <2>2. \A j \in DOMAIN rows : rows'[j] \in Row
    BY <1>t, <2>1
  <2>f. rows' = [j \in DOMAIN rows' |-> rows'[j]]
    BY <1>4, <1>t DEF Ends, Endings, CompleteMessage, SweepMessages, MarkDead, RetryInPlace
  <2>3. QED
    BY <1>4, <1>t, <2>1, <2>2, <2>f DEF Ends
<1>5. ASSUME NEW i \in DOMAIN rows, Forgets(i)
      PROVE  /\ DOMAIN rows' \subseteq used' /\ used' \subseteq Ids
             /\ rows' \in [DOMAIN rows' -> Row]
  BY <1>5, <1>t DEF Forgets, CleanupExpired
<1>6. QED
  BY <1>1, <1>2, <1>3, <1>4, <1>5, RowStep

\* A claim writes the row of its candidate, which must still be there.
LEMMA TypeStep ==
    ASSUME TypeOK, CandidateIsHeld, [Next]_vars
    PROVE  TypeOK'
<1> DEFINE BackendOK ==
      /\ rowLock \in [Ids -> Backends \cup {Free}]
      /\ groupLock \in [Groups -> Backends \cup {Free}]
      /\ pc \in [Backends -> {"idle", "select", "scan", "group", "recheck", "update"}]
      /\ now \in [Backends -> 0 .. MaxClock]
      /\ cursor \in [Backends -> (Times \cup {-1}) \X (Ids \cup {0})]
      /\ todo \in [Backends -> SUBSET (Times \X Ids)]
      /\ cand \in [Backends -> Ids \cup {0}]
<1>t. /\ BackendOK /\ clock \in 0 .. MaxClock
      /\ DOMAIN rows \subseteq Ids /\ rows \in [DOMAIN rows -> Row]
  BY DEF TypeOK
<1>m. MaxClock \in Nat
  BY ClaimAssumption
<1>e. ASSUME NEW b \in Backends, EndTransaction(b) PROVE BackendOK'
  BY <1>e, <1>t, <1>m DEF EndTransaction, Unlocked, Start
<1>1. ASSUME NEW b \in Backends, Begin(b) PROVE BackendOK' /\ clock' = clock
  BY <1>1, <1>t DEF Begin, Goto, table
<1>2. ASSUME NEW b \in Backends, Select(b) PROVE BackendOK' /\ clock' = clock
  <2>1. Candidates(b) \subseteq Times \X Ids
    <3>1. \A j \in DOMAIN rows : rows[j].scheduled_at \in Times /\ j \in Ids
      BY <1>t DEF Row
    <3>2. \A j \in DOMAIN rows : Place(j) \in Times \X Ids
      BY <3>1 DEF Place
    <3>3. QED
      BY <3>2 DEF Candidates
  <2>2. QED
    BY <1>2, <1>t, <2>1 DEF Select, Goto, table
<1>3. ASSUME NEW b \in Backends, SkipRow(b) PROVE BackendOK' /\ clock' = clock
  BY <1>3, <1>t DEF SkipRow, table
<1>4. ASSUME NEW b \in Backends, RejectRow(b) PROVE BackendOK' /\ clock' = clock
  BY <1>4, <1>t, HeadFacts DEF RejectRow, table
<1>5. ASSUME NEW b \in Backends, TakeRow(b) PROVE BackendOK' /\ clock' = clock
  <2> DEFINE i == Head(b)[2]
  <2>1. i \in DOMAIN rows
    BY <1>5 DEF TakeRow, Lockable
  <2>2. i \in Ids /\ Place(i) \in Times \X Ids
    BY <1>t, <2>1 DEF Place, Row
  <2>3. QED
    BY <1>5, <1>t, <2>2 DEF TakeRow, Goto, table
<1>6. ASSUME NEW b \in Backends, TryGroupLock(b) PROVE BackendOK' /\ clock' = clock
  BY <1>6, <1>t DEF TryGroupLock, Goto, table
<1>7. ASSUME NEW b \in Backends, Recheck(b) PROVE BackendOK' /\ clock' = clock
  BY <1>7, <1>t DEF Recheck, Goto, table
<1>8. ASSUME NEW b \in Backends, Commit(b) \/ NotFound(b) \/ Rollback(b)
      PROVE  BackendOK' /\ clock' = clock
  BY <1>8, <1>e DEF Commit, NotFound, Rollback, table
<1>9. ASSUME NEW i \in Ids, NEW kind \in Kinds, NEW when \in Whens, InsertRow(i, kind, when)
      PROVE  BackendOK' /\ clock' = clock
  BY <1>9, <1>t DEF InsertRow, backend
<1>10. ASSUME NEW i \in DOMAIN rows, EndDelivery(i) \/ CleanupRow(i)
       PROVE  BackendOK' /\ clock' = clock
  BY <1>10, <1>t DEF EndDelivery, CleanupRow, backend
<1>11. CASE Tick
  <2>1. BackendOK' /\ clock' \in 0 .. MaxClock
    BY <1>11, <1>t, <1>m DEF Tick, backend
  <2>2. QED
    BY <2>1, RowsTyped DEF TypeOK
<1>12. CASE UNCHANGED vars
  BY <1>12, <1>t DEF vars, table, backend, TypeOK
<1>13. ASSUME BackendOK', clock' = clock PROVE TypeOK'
  BY <1>13, <1>t, RowsTyped DEF TypeOK
<1>14. QED
  BY <1>1, <1>2, <1>3, <1>4, <1>5, <1>6, <1>7, <1>8, <1>9, <1>10, <1>11, <1>12, <1>13
     DEF Next, Call, Others
-----------------------------------------------------------------------------
\* No step touches the row another backend has locked.
LEMMA LockedRowStays ==
    ASSUME TypeOK, CandidateIsHeld, [Next]_vars, NEW b \in Backends,
           NEW i \in DOMAIN rows, rowLock[i] = b, ~Commit(b)
    PROVE  i \in DOMAIN rows' /\ rows'[i] = rows[i]
<1>f. b # Free
  BY ClaimAssumption
<1>1. CASE rows' = rows /\ used' = used
  BY <1>1
<1>2. ASSUME NEW c \in Backends, Commit(c) PROVE i \in DOMAIN rows' /\ rows'[i] = rows[i]
  <2>1. cand[c] # i
    BY <1>2 DEF Commit, CandidateIsHeld, InCall
  <2>2. QED
    BY <1>2, <2>1 DEF Commit, ClaimRow
<1>3. ASSUME NEW j \in Ids, NEW kind \in Kinds, NEW when \in Times, Inserts(j, kind, when)
      PROVE  i \in DOMAIN rows' /\ rows'[i] = rows[i]
  BY <1>3 DEF Inserts, InsertMessage, TypeOK
<1>4. ASSUME NEW j \in DOMAIN rows, Ends(j) PROVE i \in DOMAIN rows' /\ rows'[i] = rows[i]
  BY <1>4, <1>f, EndingFacts DEF Ends
<1>5. ASSUME NEW j \in DOMAIN rows, Forgets(j) PROVE i \in DOMAIN rows' /\ rows'[i] = rows[i]
  BY <1>5, <1>f DEF Forgets, CleanupExpired
<1>6. QED
  BY <1>1, <1>2, <1>3, <1>4, <1>5, RowStep

\* Locks are dropped by the end of a transaction, and by nothing else.
LEMMA LocksStay ==
    ASSUME TypeOK, [Next]_vars, NEW b \in Backends, ~EndTransaction(b)
    PROVE  /\ \A i \in Ids : rowLock[i] = b => rowLock'[i] = b
           /\ \A g \in Groups : groupLock[g] = b => groupLock'[g] = b
<1>t. /\ rowLock \in [Ids -> Backends \cup {Free}]
      /\ groupLock \in [Groups -> Backends \cup {Free}]
      /\ b # Free
  BY ClaimAssumption DEF TypeOK
<1>1. ASSUME NEW c \in Backends, EndTransaction(c)
      PROVE  /\ \A i \in Ids : rowLock[i] = b => rowLock'[i] = b
             /\ \A g \in Groups : groupLock[g] = b => groupLock'[g] = b
  BY <1>1, <1>t DEF EndTransaction, Unlocked
<1>2. ASSUME NEW c \in Backends, RejectRow(c) \/ TakeRow(c)
      PROVE  /\ \A i \in Ids : rowLock[i] = b => rowLock'[i] = b
             /\ \A g \in Groups : groupLock[g] = b => groupLock'[g] = b
  BY <1>2, <1>t DEF RejectRow, TakeRow, Lockable
<1>3. ASSUME NEW c \in Backends, TryGroupLock(c)
      PROVE  /\ \A i \in Ids : rowLock[i] = b => rowLock'[i] = b
             /\ \A g \in Groups : groupLock[g] = b => groupLock'[g] = b
  BY <1>3, <1>t DEF TryGroupLock
<1>4. CASE UNCHANGED <<rowLock, groupLock>>
  BY <1>4
<1>5. \/ \E c \in Backends : EndTransaction(c) \/ RejectRow(c) \/ TakeRow(c) \/ TryGroupLock(c)
      \/ UNCHANGED <<rowLock, groupLock>>
  BY DEF Next, Call, Others, Begin, Select, SkipRow, Recheck, NotFound, Rollback, Tick,
     InsertRow, EndDelivery, CleanupRow, Commit, vars, backend
<1>6. QED
  BY <1>1, <1>2, <1>3, <1>4, <1>5
-----------------------------------------------------------------------------
\* A backend that stays in its call keeps its candidate, or has just taken it.
LEMMA CallStep ==
    ASSUME TypeOK, [Next]_vars, NEW b \in Backends, InCall(b)'
    PROVE  \/ TakeRow(b)
           \/ /\ InCall(b) /\ cand'[b] = cand[b]
              /\ ~EndTransaction(b) /\ ~Commit(b)
<1>t. /\ pc \in [Backends -> {"idle", "select", "scan", "group", "recheck", "update"}]
      /\ cand \in [Backends -> Ids \cup {0}]
  BY DEF TypeOK
<1> USE DEF InCall
<1>e. ~EndTransaction(b) /\ ~Commit(b)
  BY <1>t DEF EndTransaction, Commit
<1>1. ASSUME NEW c \in Backends, c # b, Begin(c) \/ Call(c) \/ Rollback(c)
      PROVE  pc'[b] = pc[b] /\ cand'[b] = cand[b]
  BY <1>1, <1>t DEF Begin, Call, Select, SkipRow, RejectRow, TakeRow, TryGroupLock, Recheck,
     NotFound, Rollback, Commit, Goto, EndTransaction
<1>2. ASSUME Begin(b) \/ Call(b) \/ Rollback(b)
      PROVE  TakeRow(b) \/ (InCall(b) /\ cand'[b] = cand[b])
  BY <1>2, <1>t DEF Begin, Call, Select, SkipRow, RejectRow, TryGroupLock, Recheck,
     NotFound, Rollback, Commit, Goto, EndTransaction
<1>3. CASE Others \/ UNCHANGED vars
  BY <1>3, <1>e DEF Others, InsertRow, EndDelivery, CleanupRow, Tick, vars, backend
<1>4. QED
  BY <1>e, <1>1, <1>2, <1>3 DEF Next

\* A row is locked before it is tested, and kept until the transaction ends.
LEMMA CandidateStep ==
    ASSUME TypeOK, CandidateIsHeld, [Next]_vars
    PROVE  CandidateIsHeld'
<1> SUFFICES ASSUME NEW b \in Backends, InCall(b)'
             PROVE  /\ cand'[b] \in DOMAIN rows'
                    /\ rowLock'[cand'[b]] = b
                    /\ rows'[cand'[b]].status = "queued"
                    /\ rows'[cand'[b]].retry_count < AttemptBound
  BY DEF CandidateIsHeld
<1>1. CASE TakeRow(b)
  BY <1>1, HeadFacts DEF TakeRow, Lockable, StillMatches, TypeOK, table
<1>2. CASE InCall(b) /\ cand'[b] = cand[b] /\ ~EndTransaction(b) /\ ~Commit(b)
  <2>1. /\ cand[b] \in DOMAIN rows /\ rowLock[cand[b]] = b
        /\ rows[cand[b]].status = "queued"
        /\ rows[cand[b]].retry_count < AttemptBound
    BY <1>2 DEF CandidateIsHeld
  <2>2. cand[b] \in Ids
    BY <2>1 DEF TypeOK
  <2>3. cand[b] \in DOMAIN rows' /\ rows'[cand[b]] = rows[cand[b]]
    BY <1>2, <2>1, LockedRowStays
  <2>4. rowLock'[cand[b]] = b
    BY <1>2, <2>1, <2>2, LocksStay
  <2>5. QED
    BY <1>2, <2>1, <2>3, <2>4
<1>3. QED
  BY <1>1, <1>2, CallStep

\* A group becomes active by a claim, and its lock is held by whoever claims.
LEMMA GroupStep ==
    ASSUME TypeOK, CandidateIsHeld, GroupIsHeld, [Next]_vars
    PROVE  GroupIsHeld'
<1>t. /\ pc \in [Backends -> {"idle", "select", "scan", "group", "recheck", "update"}]
      /\ rows \in [DOMAIN rows -> Row]
      /\ groupLock \in [Groups -> Backends \cup {Free}]
  BY DEF TypeOK
<1> SUFFICES ASSUME NEW b \in Backends, pc'[b] \in {"recheck", "update"}
             PROVE  /\ GroupOf(b)' # NoGroup => groupLock'[GroupOf(b)'] = b
                    /\ pc'[b] = "update" => ~GroupActive(rows, GroupOf(b))'
  BY DEF GroupIsHeld
<1>c. /\ InCall(b) /\ cand'[b] = cand[b] /\ ~EndTransaction(b) /\ ~Commit(b)
  <2>1. ~TakeRow(b)
    BY <1>t DEF TakeRow, Goto
  <2>2. QED
    BY <2>1, CallStep DEF InCall
<1>h. /\ cand[b] \in DOMAIN rows /\ rowLock[cand[b]] = b
  BY <1>c DEF CandidateIsHeld
<1>g. /\ GroupOf(b)' = GroupOf(b)
      /\ GroupOf(b) # NoGroup => GroupOf(b) \in Groups
  <2>1. rows'[cand[b]] = rows[cand[b]]
    BY <1>c, <1>h, LockedRowStays
  <2>2. rows[cand[b]].kind \in Kinds
    BY <1>h, <1>t DEF Row
  <2>3. QED
    BY <1>c, <2>1, <2>2 DEF GroupOf, Groups
<1>l. GroupOf(b) # NoGroup /\ groupLock[GroupOf(b)] = b => groupLock'[GroupOf(b)] = b
  BY <1>c, <1>g, LocksStay
<1>1. CASE pc[b] \in {"recheck", "update"} /\ pc'[b] = pc[b]
  <2>1. GroupOf(b) # NoGroup => groupLock[GroupOf(b)] = b
    BY <1>1 DEF GroupIsHeld
  <2>2. ASSUME pc[b] = "update", GroupOf(b) # NoGroup PROVE ~GroupActive(rows', GroupOf(b))
    <3>1. ~GroupActive(rows, GroupOf(b))
      BY <2>2 DEF GroupIsHeld
    <3>2. ASSUME NEW c \in Backends, Commit(c) PROVE GroupOf(c) # GroupOf(b)
      <4>1. c # b
        BY <1>c, <3>2
      <4>2. pc[c] = "update"
        BY <3>2 DEF Commit
      <4>3. QED
        BY <2>1, <2>2, <4>1, <4>2 DEF GroupIsHeld
    <3>3. ASSUME NEW j \in InGroup(rows', GroupOf(b)) PROVE rows'[j].status # "active"
      <4>1. CASE rows' = rows /\ used' = used
        BY <3>1, <3>3, <4>1 DEF GroupActive
      <4>2. ASSUME NEW c \in Backends, Commit(c) PROVE rows'[j].status # "active"
        <5>1. rows' = ClaimRow(rows, cand[c]) /\ cand[c] \in DOMAIN rows
          BY <4>2 DEF Commit, CandidateIsHeld, InCall
        <5>2. j \in DOMAIN rows /\ rows'[j].kind = rows[j].kind
          BY <3>3, <5>1, <1>t DEF InGroup, ClaimRow, Row
        <5>3. j # cand[c]
          BY <3>2, <3>3, <4>2, <5>2 DEF InGroup, GroupOf
        <5>4. rows'[j] = rows[j]
          BY <5>1, <5>2, <5>3 DEF ClaimRow
        <5>5. QED
          BY <3>1, <3>3, <5>2, <5>4 DEF GroupActive, InGroup
      <4>3. ASSUME NEW i \in Ids, NEW kind \in Kinds, NEW when \in Times, Inserts(i, kind, when)
            PROVE  rows'[j].status # "active"
        BY <3>1, <3>3, <4>3 DEF Inserts, InsertMessage, GroupActive, InGroup
      <4>4. ASSUME NEW i \in DOMAIN rows, Ends(i) PROVE rows'[j].status # "active"
        <5>1. /\ DOMAIN rows' = DOMAIN rows /\ rows'[i].kind = rows[i].kind
              /\ \A k \in DOMAIN rows \ {i} : rows'[k] = rows[k]
              /\ rows[i].status = "active"
          BY <4>4, EndingFacts DEF Ends
        <5>2. QED
          BY <3>1, <3>3, <5>1 DEF GroupActive, InGroup
      <4>5. ASSUME NEW i \in DOMAIN rows, Forgets(i) PROVE rows'[j].status # "active"
        BY <3>1, <3>3, <4>5 DEF Forgets, CleanupExpired, GroupActive, InGroup
      <4>6. QED
        BY <4>1, <4>2, <4>3, <4>4, <4>5, RowStep
    <3>4. QED
      BY <3>3 DEF GroupActive
  <2>3. GroupOf(b) = NoGroup => ~GroupActive(rows', GroupOf(b))
    BY DEF GroupActive, InGroup
  <2>4. QED
    BY <1>1, <1>g, <1>l, <2>1, <2>2, <2>3
<1>2. CASE TryGroupLock(b)
  <2>1. pc'[b] = "update" => GroupOf(b) = NoGroup
    BY <1>2, <1>t DEF TryGroupLock, Goto
  <2>2. pc'[b] = "recheck" => groupLock'[GroupOf(b)] = b
    BY <1>2, <1>g, <1>t DEF TryGroupLock, Goto
  <2>3. QED
    BY <1>g, <2>1, <2>2 DEF GroupActive, InGroup
<1>3. CASE Recheck(b)
  <2>1. /\ pc[b] = "recheck" /\ ~GroupActive(rows, GroupOf(b))
        /\ rows' = rows /\ groupLock' = groupLock
    BY <1>3, <1>t DEF Recheck, Goto, table
  <2>2. QED
    BY <1>g, <2>1 DEF GroupIsHeld
<1>4. pc'[b] = pc[b] \/ TryGroupLock(b) \/ Recheck(b)
  <2>1. ASSUME NEW c \in Backends, c # b, Begin(c) \/ Call(c) \/ Rollback(c)
        PROVE  pc'[b] = pc[b]
    BY <2>1, <1>t DEF Begin, Call, Select, SkipRow, RejectRow, TakeRow, TryGroupLock, Recheck,
       NotFound, Rollback, Commit, Goto, EndTransaction
  <2>2. ASSUME Begin(b) \/ Call(b) \/ Rollback(b)
        PROVE  pc'[b] = pc[b] \/ TryGroupLock(b) \/ Recheck(b)
    BY <2>2, <1>t DEF Begin, Call, Select, SkipRow, RejectRow, TakeRow,
       NotFound, Rollback, Commit, Goto, EndTransaction
  <2>3. Others \/ UNCHANGED vars => pc' = pc
    BY DEF Others, InsertRow, EndDelivery, CleanupRow, Tick, vars, backend
  <2>4. QED
    BY <2>1, <2>2, <2>3 DEF Next
<1>5. QED
  BY <1>1, <1>2, <1>3, <1>4
-----------------------------------------------------------------------------
\* Completed rows stay completed, and a message that arrives in a group with
\* one producer is younger than all of it.
LEMMA UnhinderedStays ==
    ASSUME TypeOK, CandidateIsHeld, [Next]_vars, NEW i \in DOMAIN rows,
           i \in DOMAIN rows', Unhindered(i)
    PROVE  Unhindered(i)'
<1>t. /\ rows \in [DOMAIN rows -> Row] /\ DOMAIN rows \subseteq used
      /\ DOMAIN rows \subseteq Nat /\ Ids \subseteq Nat
  BY ClaimAssumption DEF TypeOK
<1> SUFFICES ASSUME rows'[i].kind.ordered, rows'[i].kind.group_key \in SoleWriter,
                    NEW j \in Older(rows', i)
             PROVE  rows'[j].status = "completed"
  BY DEF Unhindered
<1> DEFINE g == rows[i].kind.group_key
<1>o. /\ j \in DOMAIN rows' /\ j < i /\ rows'[j].kind.group_key = rows'[i].kind.group_key
      /\ rows'[i].kind.group_key # NoGroup
  BY DEF Older, InGroup
<1>u. ASSUME rows'[i].kind = rows[i].kind, j \in DOMAIN rows, rows'[j].kind = rows[j].kind
      PROVE  rows[j].status = "completed"
  BY <1>o, <1>u DEF Unhindered, Older, InGroup
<1>1. CASE rows' = rows /\ used' = used
  BY <1>1, <1>u, <1>o
<1>2. ASSUME NEW c \in Backends, Commit(c) PROVE rows'[j].status = "completed"
  <2>1. /\ rows' = ClaimRow(rows, cand[c]) /\ cand[c] \in DOMAIN rows
        /\ rows[cand[c]].status = "queued"
    BY <1>2 DEF Commit, CandidateIsHeld, InCall
  <2>2. DOMAIN rows' = DOMAIN rows /\ \A k \in DOMAIN rows : rows'[k].kind = rows[k].kind
    BY <2>1, <1>t DEF ClaimRow, Row
  <2>3. rows[j].status = "completed" /\ j # cand[c]
    BY <1>u, <1>o, <2>1, <2>2
  <2>4. QED
    BY <1>o, <2>1, <2>2, <2>3 DEF ClaimRow
<1>3. ASSUME NEW k \in Ids, NEW kind \in Kinds, NEW when \in Times, Inserts(k, kind, when)
      PROVE  rows'[j].status = "completed"
  <2>1. /\ k \notin DOMAIN rows /\ DOMAIN rows' = DOMAIN rows \cup {k}
        /\ rows'[k].kind = kind /\ \A l \in DOMAIN rows : rows'[l] = rows[l]
        /\ kind.group_key \in SoleWriter => \A l \in InGroup(rows, kind.group_key) : l < k
    BY <1>3, <1>t DEF Inserts, InsertMessage
  <2>2. j # k
    <3>1. SUFFICES ASSUME j = k PROVE FALSE
      OBVIOUS
    <3>2. kind.group_key = rows[i].kind.group_key /\ kind.group_key \in SoleWriter
          /\ kind.group_key # NoGroup
      BY <1>o, <2>1, <3>1
    <3>3. i \in InGroup(rows, kind.group_key)
      BY <3>2 DEF InGroup
    <3>4. i < k
      BY <2>1, <3>2, <3>3
    <3>5. QED
      BY <1>o, <1>t, <3>1, <3>4
  <2>3. QED
    BY <1>o, <1>u, <2>1, <2>2
<1>4. ASSUME NEW k \in DOMAIN rows, Ends(k) PROVE rows'[j].status = "completed"
  <2>1. /\ DOMAIN rows' = DOMAIN rows /\ rows'[k].kind = rows[k].kind
        /\ \A l \in DOMAIN rows \ {k} : rows'[l] = rows[l]
        /\ rows[k].status = "active"
    BY <1>4, EndingFacts DEF Ends
  <2>2. rows[j].status = "completed"
    BY <1>o, <1>u, <2>1
  <2>3. QED
    BY <1>o, <2>1, <2>2
<1>5. ASSUME NEW k \in DOMAIN rows, Forgets(k) PROVE rows'[j].status = "completed"
  BY <1>5, <1>o, <1>u DEF Forgets, CleanupExpired
<1>6. QED
  BY <1>1, <1>2, <1>3, <1>4, <1>5, RowStep

\* The snapshot outlives the rows it saw: an id is not used again.
LEMMA SnapshotStep ==
    ASSUME TypeOK, CandidateIsHeld, SnapshotHolds, [Next]_vars
    PROVE  SnapshotHolds'
<1>t. /\ todo \in [Backends -> SUBSET (Times \X Ids)]
      /\ pc \in [Backends -> {"idle", "select", "scan", "group", "recheck", "update"}]
      /\ rows \in [DOMAIN rows -> Row] /\ DOMAIN rows \subseteq used
  BY DEF TypeOK
<1>r. used \subseteq used' /\ \A i \in used : i \in DOMAIN rows' => i \in DOMAIN rows
  <2>1. ASSUME NEW i \in DOMAIN rows, Ends(i) PROVE DOMAIN rows' = DOMAIN rows
    BY <2>1, EndingFacts DEF Ends
  <2>2. QED
    BY <2>1, RowStep DEF Commit, ClaimRow, Inserts, InsertMessage, Ends, Forgets, CleanupExpired
<1>x. ASSUME NEW b \in Backends, NEW x \in todo[b]
      PROVE  x[2] \in used' /\ (x[2] \in DOMAIN rows' => Unhindered(x[2])')
  <2>1. x[2] \in used /\ (x[2] \in DOMAIN rows => Unhindered(x[2]))
    BY DEF SnapshotHolds
  <2>2. ASSUME x[2] \in DOMAIN rows' PROVE Unhindered(x[2])'
    <3>1. x[2] \in DOMAIN rows
      BY <1>r, <2>1, <2>2
    <3>2. QED
      BY <2>1, <2>2, <3>1, UnhinderedStays
  <2>3. QED
    BY <1>r, <2>1, <2>2
<1>s. ASSUME NEW b \in Backends, Select(b), NEW x \in Candidates(b)
      PROVE  x[2] \in used' /\ (x[2] \in DOMAIN rows' => Unhindered(x[2])')
  <2>1. PICK i \in DOMAIN rows : Claimable(rows, i, now[b]) /\ x = Place(i)
    BY DEF Candidates
  <2>2. x[2] = i /\ rows' = rows /\ used' = used
    BY <1>s, <2>1 DEF Place, Select, table
  <2>3. Unhindered(i)
    <3>1. \A j \in Older(rows, i) : rows[j].status \in MessageStatus
      BY <1>t DEF Older, InGroup, Row
    <3>2. QED
      BY <2>1, <3>1 DEF Claimable, Unhindered, Blocking, MessageStatus
  <2>4. Unhindered(i)'
    BY <2>2, <2>3 DEF Unhindered
  <2>5. QED
    BY <1>t, <2>1, <2>2, <2>4
<1>1. ASSUME NEW b \in Backends, NEW x \in todo'[b]
      PROVE  x[2] \in used' /\ (x[2] \in DOMAIN rows' => Unhindered(x[2])')
  <2>1. \/ todo'[b] \subseteq todo[b]
        \/ Select(b) /\ todo'[b] = Candidates(b)
    <3>1. ASSUME NEW c \in Backends, Begin(c) \/ SkipRow(c) \/ RejectRow(c) \/ TakeRow(c)
                 \/ TryGroupLock(c) \/ Recheck(c) \/ Commit(c) \/ NotFound(c) \/ Rollback(c)
          PROVE  todo'[b] \subseteq todo[b]
      BY <3>1, <1>t DEF Begin, SkipRow, RejectRow, TakeRow, TryGroupLock, Recheck,
         NotFound, Rollback, Commit, EndTransaction
    <3>2. ASSUME NEW c \in Backends, Select(c)
          PROVE  todo'[b] \subseteq todo[b] \/ (Select(b) /\ todo'[b] = Candidates(b))
      BY <3>2, <1>t DEF Select
    <3>3. Others \/ UNCHANGED vars => todo' = todo
      BY DEF Others, InsertRow, EndDelivery, CleanupRow, Tick, vars, backend
    <3>4. QED
      BY <3>1, <3>2, <3>3 DEF Next, Call
  <2>2. QED
    BY <1>x, <1>s, <2>1
<1>2. ASSUME NEW b \in Backends, InCall(b)' PROVE Unhindered(cand[b])'
  <2>1. CASE TakeRow(b)
    <3>1. Head(b) \in todo[b] /\ Head(b)[2] \in DOMAIN rows /\ rows' = rows
          /\ cand'[b] = Head(b)[2]
      BY <2>1, <1>t, HeadFacts DEF TakeRow, Lockable, table, TypeOK
    <3>2. PICK x \in todo[b] : x[2] \in DOMAIN rows' /\ cand'[b] = x[2]
      BY <3>1
    <3>3. Unhindered(x[2])'
      BY <1>x, <3>2
    <3>4. QED
      BY <3>2, <3>3 DEF Unhindered
  <2>2. CASE InCall(b) /\ cand'[b] = cand[b] /\ ~EndTransaction(b) /\ ~Commit(b)
    <3>1. cand[b] \in DOMAIN rows /\ rowLock[cand[b]] = b /\ Unhindered(cand[b])
      BY <2>2 DEF CandidateIsHeld, SnapshotHolds
    <3>2. cand[b] \in DOMAIN rows'
      BY <2>2, <3>1, LockedRowStays
    <3>3. QED
      BY <2>2, <3>1, <3>2, UnhinderedStays DEF Unhindered
  <2>3. QED
    BY <1>2, <2>1, <2>2, CallStep
<1>3. QED
  BY <1>1, <1>2 DEF SnapshotHolds
-----------------------------------------------------------------------------
\* The inductive invariant.
ClaimInv == TypeOK /\ CandidateIsHeld /\ GroupIsHeld /\ SnapshotHolds

\* It holds at the start and every step keeps it.
LEMMA ClaimInvInductive ==
    /\ Init => ClaimInv
    /\ ClaimInv /\ [Next]_vars => ClaimInv'
<1>1. Init => TypeOK
  BY ClaimAssumption DEF Init, TypeOK, Start, Times
<1>2. Init => CandidateIsHeld /\ GroupIsHeld /\ SnapshotHolds
  BY DEF Init, CandidateIsHeld, GroupIsHeld, SnapshotHolds, InCall
<1>3. ClaimInv /\ [Next]_vars => ClaimInv'
  BY TypeStep, CandidateStep, GroupStep, SnapshotStep DEF ClaimInv
<1>4. QED
  BY <1>1, <1>2, <1>3 DEF ClaimInv

\* So it holds of every behaviour of the claim function.
LEMMA ClaimInvHolds == Spec => []ClaimInv
BY ClaimInvInductive, PTL DEF Spec

\* Types, for any number of backends, messages and ticks.
THEOREM TypeCorrect == Spec => []TypeOK
<1>1. ClaimInv => TypeOK
  BY DEF ClaimInv
<1>2. QED
  BY <1>1, ClaimInvHolds, PTL

\* What a backend is about to claim is there to be claimed, by it alone: the
\* row lock keeps its row, the advisory lock its group.
THEOREM ClaimIsExclusiveHolds == Spec => []ClaimIsExclusive
<1>1. ClaimInv => ClaimIsExclusive
  <2> SUFFICES ASSUME ClaimInv, NEW b \in Backends, pc[b] = "update"
               PROVE  /\ cand[b] \in DOMAIN rows
                      /\ rows[cand[b]].status = "queued"
                      /\ ~GroupActive(rows, GroupOf(b))
                      /\ \A c \in Backends \ {b} : pc[c] = "update" =>
                            /\ cand[c] # cand[b]
                            /\ GroupOf(c) = GroupOf(b) => GroupOf(b) = NoGroup
    BY DEF ClaimIsExclusive
  <2>1. \A c \in Backends : pc[c] = "update" =>
           /\ cand[c] \in DOMAIN rows /\ rows[cand[c]].status = "queued"
           /\ rowLock[cand[c]] = c
           /\ GroupOf(c) # NoGroup => groupLock[GroupOf(c)] = c
           /\ ~GroupActive(rows, GroupOf(c))
    BY DEF ClaimInv, CandidateIsHeld, GroupIsHeld, InCall
  <2>2. QED
    BY <2>1
<1>2. QED
  BY <1>1, ClaimInvHolds, PTL

\* The head-of-line and dead-halt tests need no re-check: what the snapshot
\* said of the older messages of an ordered candidate is still so.
THEOREM StaleReadHolds == Spec => []StaleReadOnlyOverBlocks
<1>1. ClaimInv => StaleReadOnlyOverBlocks
  BY DEF ClaimInv, SnapshotHolds, InCall, Unhindered, Older, GroupOf, StaleReadOnlyOverBlocks
<1>2. QED
  BY <1>1, ClaimInvHolds, PTL
-----------------------------------------------------------------------------
\* The refinement.

\* A message of the abstract queue, field by field.
LEMMA MessageFacts ==
    ASSUME TypeOK
    PROVE  /\ DOMAIN Messages = DOMAIN rows
           /\ \A i \in DOMAIN rows :
                 /\ Messages[i].kind = KindOf(rows[i].kind)
                 /\ Messages[i].attempts = rows[i].retry_count
                 /\ Messages[i].state = "waiting" <=> rows[i].status = "queued"
                 /\ Messages[i].state = "running" <=> rows[i].status = "active"
                 /\ Messages[i].state = "done" <=> rows[i].status = "completed"
                 /\ Messages[i].kind.group_key = rows[i].kind.group_key
                 /\ Messages[i].kind.ordered = rows[i].kind.ordered
                 /\ Queue!Spent(Messages[i]) <=> Spent(rows[i].kind, rows[i].retry_count)
<1>1. \A i \in DOMAIN rows : rows[i].status \in MessageStatus
  BY DEF TypeOK, Row
<1>2. QED
  BY <1>1 DEF Messages, MessageOf, KindOf, StateOf, MessageStatus, Queue!Spent, Spent

\* What the locks have kept since the candidate was chosen is what Start asks.
LEMMA CommitIsStart ==
    ASSUME ClaimInv, NEW b \in Backends, Commit(b)
    PROVE  cand[b] \in DOMAIN Messages /\ Queue!Start(cand[b])
<1> DEFINE i == cand[b]
           m == Messages[i]
           n == [m EXCEPT !.state = "running"]
<1>t. TypeOK /\ rows \in [DOMAIN rows -> Row]
  BY DEF ClaimInv, TypeOK
<1>b. /\ i \in DOMAIN rows /\ rows[i].status = "queued"
      /\ rows[i].retry_count < AttemptBound
      /\ ~GroupActive(rows, rows[i].kind.group_key)
      /\ Unhindered(i)
      /\ rows' = ClaimRow(rows, i)
  BY DEF Commit, ClaimInv, CandidateIsHeld, GroupIsHeld, SnapshotHolds, InCall, GroupOf
<1>g. /\ Queue!Group(i) = rows[i].kind.group_key
      /\ Queue!In(Queue!Group(i)) = InGroup(rows, rows[i].kind.group_key)
  BY <1>t, <1>b, MessageFacts DEF Queue!Group, Queue!In, InGroup
<1>1. i \in DOMAIN Messages /\ m.state = "waiting" /\ m.attempts < AttemptBound
  BY <1>t, <1>b, MessageFacts
<1>2. Queue!GroupIdle(Queue!Group(i))
  BY <1>t, <1>b, <1>g, MessageFacts DEF Queue!GroupIdle, GroupActive, InGroup
<1>3. m.kind.ordered => Queue!HeadOfGroup(i)
  BY <1>t, <1>b, <1>g, MessageFacts DEF Queue!HeadOfGroup, Unhindered, Older, InGroup
<1>4. Messages' = [Messages EXCEPT ![i].state = "running", ![i].attempts = @ + 1]
  <2>1. DOMAIN rows' = DOMAIN rows /\ \A j \in DOMAIN rows \ {i} : rows'[j] = rows[j]
    BY <1>b DEF ClaimRow
  <2>2. /\ rows'[i].status = "active" /\ rows'[i].retry_count = rows[i].retry_count + 1
        /\ rows'[i].kind = rows[i].kind /\ rows[i].retry_count \in Nat
    BY <1>b, <1>t DEF ClaimRow, Row
  <2>3. MessageOf(rows'[i]) = [kind |-> KindOf(rows[i].kind), state |-> "running",
                               attempts |-> rows[i].retry_count + 1]
    BY <2>2 DEF MessageOf, StateOf
  <2>4. [m EXCEPT !.state = "running", !.attempts = @ + 1] =
           [kind |-> KindOf(rows[i].kind), state |-> "running",
            attempts |-> rows[i].retry_count + 1]
    <3>1. m = [kind |-> KindOf(rows[i].kind), state |-> StateOf(rows[i].status),
               attempts |-> rows[i].retry_count]
      BY <1>b DEF Messages, MessageOf
    <3> HIDE DEF m
    <3>2. /\ m.attempts = rows[i].retry_count
          /\ n = [kind |-> KindOf(rows[i].kind), state |-> "running",
                  attempts |-> rows[i].retry_count]
      BY <3>1
    <3> HIDE DEF n
    <3>3. [n EXCEPT !.attempts = m.attempts + 1] =
             [kind |-> KindOf(rows[i].kind), state |-> "running",
              attempts |-> rows[i].retry_count + 1]
      BY <3>2
    <3>4. QED
      BY <3>3 DEF n
  <2>5. QED
    BY <1>b, <2>1, <2>3, <2>4 DEF Messages
<1>5. QED
  BY <1>1, <1>2, <1>3, <1>4 DEF Queue!Start

\* The INSERT.
LEMMA InsertIsAccept ==
    ASSUME TypeOK, NEW i \in Ids, NEW kind \in Kinds, NEW when, Inserts(i, kind, when)
    PROVE  Queue!Accept(i, KindOf(kind))
<1>1. i \notin DOMAIN Messages /\ KindOf(kind).group_key = kind.group_key
  BY MessageFacts DEF TypeOK, Inserts, KindOf
<1>2. Queue!In(kind.group_key) = InGroup(rows, kind.group_key)
  BY MessageFacts DEF Queue!In, InGroup
<1>3. Messages' = [j \in DOMAIN Messages \cup {i} |->
                     IF j = i
                     THEN [kind |-> KindOf(kind), state |-> "waiting", attempts |-> 0]
                     ELSE Messages[j]]
  <2>1. /\ DOMAIN rows' = DOMAIN rows \cup {i}
        /\ \A j \in DOMAIN rows \ {i} : rows'[j] = rows[j]
        /\ rows'[i].kind = kind /\ rows'[i].status = "queued" /\ rows'[i].retry_count = 0
    BY DEF Inserts, InsertMessage
  <2>2. MessageOf(rows'[i]) = [kind |-> KindOf(kind), state |-> "waiting", attempts |-> 0]
    BY <2>1 DEF MessageOf, StateOf
  <2>3. QED
    BY <2>1, <2>2 DEF Messages
<1>4. QED
  BY <1>1, <1>2, <1>3 DEF Queue!Accept, Inserts

\* An ack finishes its message; a retry, a dead letter and a sweep release it;
\* a sweep that meets a label it cannot cast does nothing.
LEMMA EndingIsFinishOrRelease ==
    ASSUME TypeOK, NEW i \in DOMAIN rows, Ends(i)
    PROVE  Messages' = Messages \/ Queue!Finish(i) \/ Queue!Release({i})
<1>1. /\ DOMAIN rows' = DOMAIN rows /\ rows[i].status = "active"
      /\ \A j \in DOMAIN rows \ {i} : rows'[j] = rows[j]
      /\ rows'[i].kind = rows[i].kind
      /\ rows'[i].retry_count = rows[i].retry_count
      /\ rows'[i].status \in {"active", "completed"}
            \cup {IF Spent(rows[i].kind, rows[i].retry_count) THEN "dead" ELSE "queued"}
  BY EndingFacts DEF Ends
<1>2. Messages[i].state = "running"
  BY <1>1, MessageFacts
<1>m. Messages[i] = [kind |-> KindOf(rows[i].kind), state |-> StateOf(rows[i].status),
                     attempts |-> rows[i].retry_count]
  BY DEF Messages, MessageOf
<1>s. ASSUME NEW s PROVE [Messages[i] EXCEPT !.state = s] =
                            [kind |-> KindOf(rows[i].kind), state |-> s,
                             attempts |-> rows[i].retry_count]
  BY <1>m
<1>d. DOMAIN Messages' = DOMAIN Messages /\ DOMAIN Messages = DOMAIN rows
      /\ Messages = [j \in DOMAIN rows |-> MessageOf(rows[j])]
      /\ Messages' = [j \in DOMAIN rows |-> MessageOf(rows'[j])]
  BY <1>1 DEF Messages
<1>3. CASE rows'[i].status = "active"
  <2>1. MessageOf(rows'[i]) = MessageOf(rows[i])
    BY <1>1, <1>3 DEF MessageOf
  <2>2. QED
    BY <1>1, <1>d, <2>1
<1>4. CASE rows'[i].status = "completed"
  <2>1. MessageOf(rows'[i]) = [Messages[i] EXCEPT !.state = "done"]
    BY <1>1, <1>4, <1>s DEF MessageOf, StateOf
  <2>2. Messages' = [Messages EXCEPT ![i].state = "done"]
    BY <1>1, <1>d, <2>1
  <2>3. QED
    BY <1>2, <2>2 DEF Queue!Finish
<1>5. CASE rows'[i].status = IF Spent(rows[i].kind, rows[i].retry_count) THEN "dead" ELSE "queued"
  <2>1. MessageOf(rows'[i]) =
           [Messages[i] EXCEPT !.state = IF Queue!Spent(Messages[i]) THEN "dead"
                                         ELSE "waiting"]
    BY <1>1, <1>5, <1>s, MessageFacts DEF MessageOf, StateOf
  <2>2. Messages' = [j \in DOMAIN Messages |->
                       IF j \in {i}
                       THEN [Messages[j] EXCEPT !.state = IF Queue!Spent(Messages[j])
                                                          THEN "dead" ELSE "waiting"]
                       ELSE Messages[j]]
    BY <1>1, <1>d, <2>1
  <2>3. QED
    BY <1>2, <2>2 DEF Queue!Release
<1>6. QED
  BY <1>1, <1>3, <1>4, <1>5

\* Every step is a step of MessageQueue or a stutter.
LEMMA QueueStep ==
    ASSUME ClaimInv, [Next]_vars
    PROVE  Queue!Next \/ Messages' = Messages
<1>t. TypeOK /\ DOMAIN rows \subseteq Ids /\ DOMAIN Messages = DOMAIN rows
  BY MessageFacts DEF ClaimInv, TypeOK
<1>1. CASE rows' = rows /\ used' = used
  BY <1>1 DEF Messages
<1>2. ASSUME NEW b \in Backends, Commit(b) PROVE Queue!Next
  BY <1>2, <1>t, CommitIsStart DEF Queue!Next
<1>3. ASSUME NEW i \in Ids, NEW kind \in Kinds, NEW when \in Times, Inserts(i, kind, when)
      PROVE  Queue!Next
  <2>1. Queue!Accept(i, KindOf(kind))
    BY <1>3, <1>t, InsertIsAccept
  <2>2. QED
    BY <2>1 DEF Queue!Next
<1>4. ASSUME NEW i \in DOMAIN rows, Ends(i) PROVE Queue!Next \/ Messages' = Messages
  <2>1. Messages' = Messages \/ Queue!Finish(i) \/ Queue!Release({i})
    BY <1>4, <1>t, EndingIsFinishOrRelease
  <2>2. QED
    BY <2>1, <1>t DEF Queue!Next
<1>5. ASSUME NEW i \in DOMAIN rows, Forgets(i) PROVE Queue!Next
  <2>1. Messages[i].state = "done"
    BY <1>5, <1>t, MessageFacts DEF Forgets, Completed
  <2>2. Messages' = [j \in DOMAIN Messages \ {i} |-> Messages[j]]
    BY <1>5 DEF Forgets, CleanupExpired, Messages
  <2>3. Queue!Forget({i})
    BY <2>1, <2>2 DEF Queue!Forget
  <2>4. QED
    BY <1>t, <2>3 DEF Queue!Next
<1>6. QED
  BY <1>1, <1>2, <1>3, <1>4, <1>5, RowStep

\* Whatever their snapshots miss, the claims of any number of backends commit
\* one at a time and in the order MessageQueue allows.
THEOREM ClaimImplementsQueue == Spec => QueueSpec
<1>1. Init => Queue!Init
  BY DEF Init, Messages, Queue!Init
<1>2. ClaimInv /\ [Next]_vars => [Queue!Next]_Messages
  BY QueueStep
<1>3. QED
  BY <1>1, <1>2, ClaimInvHolds, PTL DEF Spec, QueueSpec, Queue!Spec
=============================================================================
