------------------------ MODULE MessageQueue_proofs ------------------------
(***************************************************************************)
(* The invariants of MessageQueue, for any number of messages, groups and  *)
(* kinds, and any bound on attempts.                                       *)
(***************************************************************************)
EXTENDS MessageQueue, TLAPS

\* Every step keeps the table a function from ids to messages.
LEMMA TypeStep == TypeOK /\ [Next]_msgs => TypeOK'
<1> USE IdsAssumption, KindsAssumption, BoundAssumption
<1> SUFFICES ASSUME TypeOK, [Next]_msgs PROVE TypeOK'
  OBVIOUS
<1>1. ASSUME NEW i \in Ids, NEW k \in Kinds, Accept(i, k) PROVE TypeOK'
  BY <1>1 DEF TypeOK, Accept, Message, States
<1>2. ASSUME NEW i \in DOMAIN msgs, Start(i) PROVE TypeOK'
  <2>1. msgs[i].attempts + 1 \in Nat
    BY DEF TypeOK, Message
  <2> QED
    BY <1>2, <2>1 DEF TypeOK, Start, Message, States
<1>3. ASSUME NEW i \in DOMAIN msgs, Finish(i) PROVE TypeOK'
  BY <1>3 DEF TypeOK, Finish, Message, States
<1>4. ASSUME NEW S \in SUBSET DOMAIN msgs, Release(S) PROVE TypeOK'
  BY <1>4 DEF TypeOK, Release, Message, States
<1>5. ASSUME NEW S \in SUBSET DOMAIN msgs, Forget(S) PROVE TypeOK'
  BY <1>5 DEF TypeOK, Forget
<1>6. CASE UNCHANGED msgs
  BY <1>6 DEF TypeOK
<1> QED
  BY <1>1, <1>2, <1>3, <1>4, <1>5, <1>6 DEF Next

\* The table always is a function from ids to well-formed messages.
THEOREM TypeCorrect == Spec => []TypeOK
<1>1. Init => TypeOK
  BY DEF Init, TypeOK
<1> QED
  BY <1>1, TypeStep, PTL DEF Spec

\* A claim looks at the whole group before it starts a message, and nothing
\* else makes a message run.
LEMMA MutexStep == TypeOK /\ GroupMutex /\ [Next]_msgs => GroupMutex'
<1> SUFFICES ASSUME TypeOK, GroupMutex, [Next]_msgs PROVE GroupMutex'
  OBVIOUS
<1>1. ASSUME NEW i \in Ids, NEW k \in Kinds, Accept(i, k) PROVE GroupMutex'
  BY <1>1 DEF TypeOK, Message, GroupMutex, Accept, Group
<1>2. ASSUME NEW i \in DOMAIN msgs, Start(i) PROVE GroupMutex'
  <2>1. DOMAIN msgs' = DOMAIN msgs
    BY <1>2 DEF Start
  <2>2. \A j \in DOMAIN msgs : msgs'[j].kind = msgs[j].kind
    BY <1>2 DEF Start, TypeOK, Message
  <2>3. \A j \in DOMAIN msgs : j # i => msgs'[j] = msgs[j]
    BY <1>2 DEF Start
  <2>4. \A j \in DOMAIN msgs :
           Group(i) # NoGroup /\ Group(j) = Group(i) => msgs[j].state # "running"
    BY <1>2 DEF Start, GroupIdle, In, Group
  <2> QED
    BY <2>1, <2>2, <2>3, <2>4 DEF GroupMutex, Group
<1>3. ASSUME NEW i \in DOMAIN msgs, Finish(i) PROVE GroupMutex'
  BY <1>3 DEF TypeOK, Message, GroupMutex, Finish, Group
<1>4. ASSUME NEW S \in SUBSET DOMAIN msgs, Release(S) PROVE GroupMutex'
  BY <1>4 DEF TypeOK, Message, GroupMutex, Release, Group
<1>5. ASSUME NEW S \in SUBSET DOMAIN msgs, Forget(S) PROVE GroupMutex'
  BY <1>5 DEF GroupMutex, Forget, Group
<1>6. CASE UNCHANGED msgs
  BY <1>6 DEF GroupMutex, Group
<1> QED
  BY <1>1, <1>2, <1>3, <1>4, <1>5, <1>6 DEF Next

\* Two messages of one group never run at the same time.
THEOREM MutexHolds == Spec => []GroupMutex
<1>1. Init => GroupMutex
  BY DEF Init, GroupMutex
<1> QED
  BY <1>1, TypeCorrect, MutexStep, PTL DEF Spec

\* A new message of a single-producer group is younger than all of its group,
\* so it cannot slip in front of one that was already claimed; and what is done
\* stays done until it is deleted.
LEMMA FifoStep == TypeOK /\ Fifo /\ [Next]_msgs => Fifo'
<1> USE IdsAssumption, GroupAssumption
<1> SUFFICES ASSUME TypeOK, Fifo, [Next]_msgs PROVE Fifo'
  OBVIOUS
<1>1. ASSUME NEW i \in Ids, NEW k \in Kinds, Accept(i, k) PROVE Fifo'
  <2> SUFFICES ASSUME NEW a \in DOMAIN msgs', NEW b \in DOMAIN msgs',
                      Group(b)' \in SoleWriter, Group(a)' = Group(b)', a < b,
                      msgs'[b].kind.ordered, msgs'[b].attempts > 0
               PROVE  msgs'[a].state = "done"
    BY DEF Fifo
  <2>1. b # i /\ b \in DOMAIN msgs /\ msgs'[b] = msgs[b]
    BY <1>1 DEF Accept
  <2>2. CASE a = i
    <3>1. Group(b) = k.group_key /\ b \in In(k.group_key)
      BY <1>1, <2>1, <2>2 DEF Accept, Group, In
    <3>2. b < a
      BY <1>1, <2>2, <3>1, <2>1 DEF Accept, Group
    <3> QED
      BY <3>2, <2>1, <2>2 DEF TypeOK
  <2>3. CASE a # i
    <3>1. a \in DOMAIN msgs /\ msgs'[a] = msgs[a]
      BY <1>1, <2>3 DEF Accept
    <3> QED
      BY <3>1, <2>1 DEF Fifo, Group
  <2> QED
    BY <2>2, <2>3
<1>2. ASSUME NEW i \in DOMAIN msgs, Start(i) PROVE Fifo'
  <2> SUFFICES ASSUME NEW a \in DOMAIN msgs', NEW b \in DOMAIN msgs',
                      Group(b)' \in SoleWriter, Group(a)' = Group(b)', a < b,
                      msgs'[b].kind.ordered, msgs'[b].attempts > 0
               PROVE  msgs'[a].state = "done"
    BY DEF Fifo
  <2>1. a \in DOMAIN msgs /\ b \in DOMAIN msgs
    BY <1>2 DEF Start
  <2>2. Group(a)' = Group(a) /\ Group(b)' = Group(b)
        /\ msgs'[b].kind = msgs[b].kind
    BY <1>2, <2>1 DEF Start, Group, TypeOK, Message
  <2>3. msgs[a].state = "done"
    <3>1. CASE b = i
      BY <1>2, <2>1, <2>2, <3>1 DEF Start, HeadOfGroup, In, Group
    <3>2. CASE b # i
      BY <1>2, <2>1, <2>2, <3>2 DEF Start, Fifo
    <3> QED
      BY <3>1, <3>2
  <2>4. a # i
    BY <1>2, <2>3 DEF Start
  <2> QED
    BY <1>2, <2>1, <2>3, <2>4 DEF Start
<1>3. ASSUME NEW i \in DOMAIN msgs, Finish(i) PROVE Fifo'
  BY <1>3 DEF TypeOK, Message, Fifo, Finish, Group
<1>4. ASSUME NEW S \in SUBSET DOMAIN msgs, Release(S) PROVE Fifo'
  BY <1>4 DEF TypeOK, Message, Fifo, Release, Group
<1>5. ASSUME NEW S \in SUBSET DOMAIN msgs, Forget(S) PROVE Fifo'
  BY <1>5 DEF Fifo, Forget, Group
<1>6. CASE UNCHANGED msgs
  BY <1>6 DEF Fifo, Group
<1> QED
  BY <1>1, <1>2, <1>3, <1>4, <1>5, <1>6 DEF Next

\* An ordered message of a single-producer group never starts, and never has
\* started, ahead of anything older in its group.
THEOREM FifoHolds == Spec => []Fifo
<1>1. Init => Fifo
  BY DEF Init, Fifo
<1> QED
  BY <1>1, TypeCorrect, FifoStep, PTL DEF Spec

\* The claim counts the attempt, and a release reads the count it left: a
\* message goes back to waiting only below its cap and to dead only at it.
LEMMA BudgetStep == TypeOK /\ Budget /\ [Next]_msgs => Budget'
<1> USE KindsAssumption
<1> SUFFICES ASSUME TypeOK, Budget, [Next]_msgs PROVE Budget'
  OBVIOUS
<1>1. ASSUME NEW i \in Ids, NEW k \in Kinds, Accept(i, k) PROVE Budget'
  BY <1>1 DEF TypeOK, Message, Budget, Accept, Spent
<1>2. ASSUME NEW i \in DOMAIN msgs, Start(i) PROVE Budget'
  <2> DEFINE m == msgs[i]
  <2>1. m \in Message /\ m.kind.cap \in Int /\ m.attempts \in Nat
    BY DEF TypeOK, Message
  <2>2. DOMAIN msgs' = DOMAIN msgs
        /\ \A j \in DOMAIN msgs : j # i => msgs'[j] = msgs[j]
    BY <1>2 DEF Start
  <2>3. msgs'[i] = [m EXCEPT !.state = "running", !.attempts = m.attempts + 1]
    BY <1>2 DEF Start
  <2>4. /\ msgs'[i].kind = m.kind
        /\ msgs'[i].state = "running"
        /\ msgs'[i].attempts = m.attempts + 1
    BY <2>1, <2>3 DEF Message
  <2>5. m.attempts = 0 \/ ~(m.kind.cap >= 0 /\ m.attempts >= m.kind.cap)
    BY <1>2 DEF Start, Budget, Spent
  <2> QED
    BY <2>1, <2>2, <2>4, <2>5 DEF Budget, Spent
<1>3. ASSUME NEW i \in DOMAIN msgs, Finish(i) PROVE Budget'
  BY <1>3 DEF TypeOK, Message, Budget, Finish, Spent
<1>4. ASSUME NEW S \in SUBSET DOMAIN msgs, Release(S) PROVE Budget'
  BY <1>4 DEF TypeOK, Message, Budget, Release, Spent
<1>5. ASSUME NEW S \in SUBSET DOMAIN msgs, Forget(S) PROVE Budget'
  BY <1>5 DEF Budget, Forget, Spent
<1>6. CASE UNCHANGED msgs
  BY <1>6 DEF Budget, Spent
<1> QED
  BY <1>1, <1>2, <1>3, <1>4, <1>5, <1>6 DEF Next

\* No message is delivered more often than its cap allows, and none is dead
\* with attempts left.
THEOREM BudgetHolds == Spec => []Budget
<1>1. Init => Budget
  BY DEF Init, Budget
<1> QED
  BY <1>1, TypeCorrect, BudgetStep, PTL DEF Spec

\* A message that ended stays as it ended, and an attempt count only grows.
THEOREM EndsHold == Spec => EndsAreFinal
<1> DEFINE E(i) ==
      IF i \in DOMAIN msgs'
      THEN /\ msgs'[i].kind = msgs[i].kind
           /\ msgs'[i].attempts >= msgs[i].attempts
           /\ msgs[i].state \in {"done", "dead"} =>
                 msgs'[i].state = msgs[i].state
           /\ msgs[i].state # "running" /\ msgs'[i].state = "running" =>
                 msgs'[i].attempts > msgs[i].attempts
      ELSE msgs[i].state = "done"
<1>1. ASSUME TypeOK, Next, NEW i \in DOMAIN msgs PROVE E(i)
  <2>1. msgs[i].attempts \in Nat /\ msgs[i] \in Message
    BY <1>1 DEF TypeOK, Message
  <2>2. ASSUME NEW j \in Ids, NEW k \in Kinds, Accept(j, k) PROVE E(i)
    BY <1>1, <2>1, <2>2 DEF Accept
  <2>3. ASSUME NEW j \in DOMAIN msgs, Start(j) PROVE E(i)
    BY <1>1, <2>1, <2>3 DEF Start, Message
  <2>4. ASSUME NEW j \in DOMAIN msgs, Finish(j) PROVE E(i)
    BY <1>1, <2>1, <2>4 DEF Finish, Message
  <2>5. ASSUME NEW S \in SUBSET DOMAIN msgs, Release(S) PROVE E(i)
    BY <1>1, <2>1, <2>5 DEF Release, Message
  <2>6. ASSUME NEW S \in SUBSET DOMAIN msgs, Forget(S) PROVE E(i)
    BY <1>1, <2>1, <2>6 DEF Forget
  <2> QED
    BY <1>1, <2>2, <2>3, <2>4, <2>5, <2>6 DEF Next
<1>2. TypeOK /\ [Next]_msgs => [\A i \in DOMAIN msgs : E(i)]_msgs
  BY <1>1
<1> QED
  BY <1>2, TypeCorrect, PTL DEF Spec, EndsAreFinal
=============================================================================
