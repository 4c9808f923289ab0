------------------------- MODULE BoundedQueue_proofs -------------------------
(***************************************************************************)
(* Proofs about BoundedQueue, for every capacity and any finite number of  *)
(* threads.  EnoughWakeups needs nothing but TypeOK to be inductive: each  *)
(* push adds an item and a notification, a notification becomes an awake   *)
(* consumer, and an awake consumer takes an item with it or finds none.    *)
(***************************************************************************)
EXTENDS BoundedQueue, FiniteSetTheorems, TLAPS

\* The sets that EnoughWakeups counts are finite.
LEMMA CountedSetsFinite ==
  ASSUME TypeOK
  PROVE  /\ IsFiniteSet(popping) /\ Cardinality(popping) \in Nat
         /\ IsFiniteSet(waiting)
         /\ IsFiniteSet(Notifying) /\ Cardinality(Notifying) \in Nat
<1>1. IsFiniteSet(popping) /\ IsFiniteSet(waiting)
  BY ThreadsAssumption, FS_Subset DEF TypeOK
<1>2. IsFiniteSet(Notifying)
  BY ThreadsAssumption, FS_Subset DEF Notifying
<1>3. QED
  BY <1>1, <1>2, FS_CardinalityType

\* TypeOK, capacity included, holds of the initial state and of every step: the
\* capacity test and the push of TryPush are under one lock.
LEMMA TypeInit == Init => TypeOK
<1> SUFFICES ASSUME Init PROVE TypeOK
  OBVIOUS
<1>1. items \in Seq(Item) /\ Len(items) <= Capacity
  BY CapacityAssumption DEF Init
<1>2. closed \in BOOLEAN
  BY Zenon DEF Init
<1>3. QED
  BY <1>1, <1>2 DEF Init, TypeOK

LEMMA TypeStep == TypeOK /\ [Next]_vars => TypeOK'
<1> SUFFICES ASSUME TypeOK, [Next]_vars PROVE TypeOK'
  OBVIOUS
<1> USE CapacityAssumption DEF TypeOK
<1>1. ASSUME NEW p \in Callers, NEW x \in Item, TryPush(p, x) PROVE TypeOK'
  <2>1. items' \in Seq(Item) /\ Len(items') = Len(items) + 1
    BY <1>1 DEF TryPush, Full, OwedByPush
  <2>2. QED
    BY <1>1, <2>1 DEF TryPush, Full, OwedByPush
<1>2. ASSUME NEW p \in Callers, TryPushRejected(p) PROVE TypeOK'
  BY <1>2 DEF TryPushRejected, vars
<1>3. ASSUME NEW p \in Callers, NotifyOne(p) PROVE TypeOK'
  BY <1>3 DEF NotifyOne
<1>4. ASSUME NEW p \in Callers, Close(p) PROVE TypeOK'
  BY <1>4 DEF Close, OwedByClose
<1>5. ASSUME NEW p \in Callers, NotifyAll(p) PROVE TypeOK'
  BY <1>5 DEF NotifyAll
<1>6. ASSUME NEW c \in Consumers, BeginPop(c) PROVE TypeOK'
  BY <1>6 DEF BeginPop
<1>7. ASSUME NEW c \in Consumers, PopWait(c) PROVE TypeOK'
  BY <1>7 DEF PopWait
<1>8. ASSUME NEW c \in Consumers, SpuriousWakeup(c) PROVE TypeOK'
  BY <1>8 DEF SpuriousWakeup
<1>9. ASSUME NEW c \in Consumers, PopItem(c) PROVE TypeOK'
  <2>1. items' \in Seq(Item) /\ Len(items') = Len(items) - 1
    BY <1>9 DEF PopItem
  <2>2. QED
    BY <1>9, <2>1 DEF PopItem
<1>10. ASSUME NEW c \in Consumers, PopClosed(c) PROVE TypeOK'
  BY <1>10 DEF PopClosed
<1>11. CASE UNCHANGED vars
  BY <1>11 DEF vars
<1>12. QED
  BY <1>1, <1>2, <1>3, <1>4, <1>5, <1>6, <1>7, <1>8, <1>9, <1>10, <1>11
  DEF Next, CallerStep, ConsumerStep

\* At any moment the queue holds at most capacity_ items, and no thread is both
\* awake and asleep inside Pop.
THEOREM TypeCorrect == Spec => []TypeOK
  BY TypeInit, TypeStep, PTL DEF Spec

LEMMA EnoughWakeupsStep == TypeOK /\ EnoughWakeups /\ [Next]_vars => EnoughWakeups'
<1> SUFFICES ASSUME TypeOK, EnoughWakeups, [Next]_vars, waiting' # {}
             PROVE  Len(items') <= Cardinality(popping') + Cardinality(Notifying')
  BY DEF EnoughWakeups
<1> DEFINE Goal == Len(items') <= Cardinality(popping') + Cardinality(Notifying')
<1>t. TypeOK'
  BY TypeStep
<1>a. /\ IsFiniteSet(popping) /\ Cardinality(popping) \in Nat
      /\ IsFiniteSet(Notifying) /\ Cardinality(Notifying) \in Nat
  BY CountedSetsFinite
<1>b. /\ IsFiniteSet(popping') /\ Cardinality(popping') \in Nat
      /\ IsFiniteSet(Notifying') /\ Cardinality(Notifying') \in Nat
  <2>1. IsFiniteSet(popping') /\ IsFiniteSet(Notifying')
    BY <1>t, ThreadsAssumption, FS_Subset DEF TypeOK, Notifying
  <2>2. QED
    BY <2>1, FS_CardinalityType
<1>len. Len(items) \in Nat /\ Len(items') \in Nat
  BY <1>t DEF TypeOK
\* A caller that owed no notify_one now owes one.
<1>1. ASSUME NEW p \in Callers, NEW x \in Item, TryPush(p, x) PROVE Goal
  <2>1. Notifying' = Notifying \cup {p} /\ p \notin Notifying
    BY <1>1 DEF TryPush, OwedByPush, Notifying, TypeOK
  <2>2. Cardinality(Notifying') = Cardinality(Notifying) + 1
    BY <2>1, <1>a, FS_AddElement
  <2>3. Len(items') = Len(items) + 1 /\ popping' = popping /\ waiting' = waiting
    BY <1>1 DEF TryPush, OwedByPush, TypeOK
  <2>4. QED
    BY <2>2, <2>3, <1>a, <1>len DEF EnoughWakeups
<1>2. ASSUME NEW p \in Callers, TryPushRejected(p) PROVE Goal
  BY <1>2 DEF TryPushRejected, vars, EnoughWakeups, Notifying
\* The notification becomes an awake consumer; there was one to wake, since one
\* still sleeps.
<1>3. ASSUME NEW p \in Callers, NotifyOne(p) PROVE Goal
  <2>1. Notifying' = Notifying \ {p} /\ p \in Notifying
    BY <1>3 DEF NotifyOne, Notifying, TypeOK
  <2>2. Cardinality(Notifying') = Cardinality(Notifying) - 1
    BY <2>1, <1>a, FS_RemoveElement
  <2>3. PICK c \in waiting : waiting' = waiting \ {c} /\ popping' = popping \cup {c}
    BY <1>3 DEF NotifyOne
  <2>4. Cardinality(popping') = Cardinality(popping) + 1
    BY <2>3, <1>a, FS_AddElement DEF TypeOK
  <2>5. items' = items /\ waiting # {}
    BY <1>3, <2>3 DEF NotifyOne
  <2>6. QED
    BY <2>2, <2>4, <2>5, <1>a, <1>len DEF EnoughWakeups
\* A caller about to close owes no notify_one before or after.
<1>4. ASSUME NEW p \in Callers, Close(p) PROVE Goal
  <2>1. Notifying' = Notifying
    BY <1>4 DEF Close, OwedByClose, Notifying, TypeOK
  <2>2. QED
    BY <1>4, <2>1 DEF Close, OwedByClose, EnoughWakeups
<1>5. ASSUME NEW p \in Callers, NotifyAll(p) PROVE Goal
  BY <1>5 DEF NotifyAll
<1>6. ASSUME NEW c \in Consumers, BeginPop(c) PROVE Goal
  <2>1. popping' = popping \cup {c} /\ c \notin popping
    BY <1>6 DEF BeginPop
  <2>2. Cardinality(popping') = Cardinality(popping) + 1
    BY <2>1, <1>a, FS_AddElement
  <2>3. items' = items /\ waiting' = waiting /\ Notifying' = Notifying
    BY <1>6 DEF BeginPop, Notifying
  <2>4. QED
    BY <2>2, <2>3, <1>a, <1>len DEF EnoughWakeups
\* A consumer goes to sleep only when there is nothing to take.
<1>7. ASSUME NEW c \in Consumers, PopWait(c) PROVE Goal
  <2>1. Len(items') = 0
    BY <1>7 DEF PopWait
  <2>2. QED
    BY <2>1, <1>b
<1>8. ASSUME NEW c \in Consumers, SpuriousWakeup(c) PROVE Goal
  <2>1. popping' = popping \cup {c} /\ c \notin popping /\ waiting # {}
    BY <1>8 DEF SpuriousWakeup, TypeOK
  <2>2. Cardinality(popping') = Cardinality(popping) + 1
    BY <2>1, <1>a, FS_AddElement
  <2>3. items' = items /\ Notifying' = Notifying
    BY <1>8 DEF SpuriousWakeup, Notifying
  <2>4. QED
    BY <2>1, <2>2, <2>3, <1>a, <1>len DEF EnoughWakeups
\* An awake consumer leaves with an item.
<1>9. ASSUME NEW c \in Consumers, PopItem(c) PROVE Goal
  <2>1. popping' = popping \ {c} /\ c \in popping
    BY <1>9 DEF PopItem
  <2>2. Cardinality(popping') = Cardinality(popping) - 1
    BY <2>1, <1>a, FS_RemoveElement
  <2>3. Len(items') = Len(items) - 1
    BY <1>9 DEF PopItem, TypeOK
  <2>4. waiting' = waiting /\ Notifying' = Notifying
    BY <1>9 DEF PopItem, Notifying
  <2>5. QED
    BY <2>2, <2>3, <2>4, <1>a, <1>len DEF EnoughWakeups
\* ... or finds the queue empty.
<1>10. ASSUME NEW c \in Consumers, PopClosed(c) PROVE Goal
  <2>1. Len(items') = 0
    BY <1>10 DEF PopClosed
  <2>2. QED
    BY <2>1, <1>b
<1>11. CASE UNCHANGED vars
  BY <1>11 DEF vars, EnoughWakeups, Notifying
<1>12. QED
  BY <1>1, <1>2, <1>3, <1>4, <1>5, <1>6, <1>7, <1>8, <1>9, <1>10, <1>11
  DEF Next, CallerStep, ConsumerStep

\* No wake-up is lost between TryPush, which notifies after it has released the
\* mutex, and the sleeping threads in Pop: for any capacity and any threads.
THEOREM NoLostWakeups == Spec => []EnoughWakeups
<1>1. Init => EnoughWakeups
  BY DEF Init, EnoughWakeups
<1>2. QED
  BY <1>1, TypeCorrect, EnoughWakeupsStep, PTL DEF Spec

LEMMA CloseWakesAllStep == TypeOK /\ CloseWakesAll /\ [Next]_vars => CloseWakesAll'
<1> SUFFICES ASSUME TypeOK, CloseWakesAll, [Next]_vars, closed', waiting' # {}
             PROVE  \E p \in Callers : notify'[p] = "all"
  BY DEF CloseWakesAll
<1> DEFINE Goal == \E q \in Callers : notify'[q] = "all"
<1> USE DEF TypeOK, CloseWakesAll
<1>1. ASSUME NEW p \in Callers, NEW x \in Item, TryPush(p, x) PROVE Goal
  BY <1>1 DEF TryPush, Full, OwedByPush
<1>2. ASSUME NEW p \in Callers, TryPushRejected(p) PROVE Goal
  BY <1>2 DEF TryPushRejected, vars
<1>3. ASSUME NEW p \in Callers, NotifyOne(p) PROVE Goal
  <2>1. PICK q \in Callers : notify[q] = "all"
    BY <1>3 DEF NotifyOne
  <2>2. notify'[q] = "all"
    BY <1>3, <2>1 DEF NotifyOne
  <2>3. QED
    BY <2>2
<1>4. ASSUME NEW p \in Callers, Close(p) PROVE Goal
  BY <1>4 DEF Close, OwedByClose
<1>5. ASSUME NEW p \in Callers, NotifyAll(p) PROVE Goal
  BY <1>5 DEF NotifyAll
<1>6. ASSUME NEW c \in Consumers, ConsumerStep(c) PROVE Goal
  BY <1>6 DEF ConsumerStep, BeginPop, PopWait, SpuriousWakeup, PopItem, PopClosed
<1>7. CASE UNCHANGED vars
  BY <1>7 DEF vars
<1>8. QED
  BY <1>1, <1>2, <1>3, <1>4, <1>5, <1>6, <1>7 DEF Next, CallerStep

\* No thread sleeps on in a closed queue once the notify_all of Close was
\* called, also if it went to sleep while Close was running.
THEOREM CloseWakesEveryone == Spec => []CloseWakesAll
<1>1. Init => CloseWakesAll
  BY DEF Init, CloseWakesAll
<1>2. QED
  BY <1>1, TypeCorrect, CloseWakesAllStep, PTL DEF Spec
=============================================================================
