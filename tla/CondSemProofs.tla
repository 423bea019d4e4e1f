---------------------------- MODULE CondSemProofs ----------------------------
(***************************************************************************)
(* Proofs about module CondSem (13/sem.c), for every finite set of threads *)
(* and with spurious wakeups allowed.                                      *)
(***************************************************************************)
EXTENDS CondSem, FiniteSetTheorems, TLAPS

\* Every set of threads is finite, so its cardinality is a natural number.
LEMMA ThreadSets ==
  ASSUME NEW S \in SUBSET Thread
  PROVE  IsFiniteSet(S) /\ Cardinality(S) \in Nat
BY ThreadsFinite, FS_Subset, FS_CardinalityType

\* A thread that joins a set raises its cardinality by one, a thread that leaves
\* lowers it by one.
LEMMA Join ==
  ASSUME NEW S \in SUBSET Thread, NEW t \in Thread, t \notin S
  PROVE  Cardinality(S \cup {t}) = Cardinality(S) + 1
BY ThreadSets, FS_AddElement

LEMMA Leave ==
  ASSUME NEW S \in SUBSET Thread, NEW t \in S
  PROVE  Cardinality(S \ {t}) = Cardinality(S) - 1
BY ThreadSets, FS_RemoveElement

\* The initial states satisfy the inductive invariant: init() (sem.c:7) lets no
\* negative value through.
LEMMA InitIInv == Init => IInv
<1> SUFFICES ASSUME Init PROVE IInv
  OBVIOUS
<1>1. TypeOK
  BY CondSemAssumption DEF Init, TypeOK, Labels
<1>2. MutexOwner
  BY CondSemAssumption DEF Init, MutexOwner, Owning
<1>3. TestStillTrue
  BY DEF Init, TestStillTrue
<1>4. NoLostWakeup
  BY DEF Init, NoLostWakeup, Asleep, At
<1> QED
  BY <1>1, <1>2, <1>3, <1>4 DEF IInv

\* The part of the invariant that only the mutex is needed for.
LEMMA NextMutex ==
  ASSUME TypeOK, MutexOwner, TestStillTrue, [Next]_vars
  PROVE  TypeOK' /\ MutexOwner' /\ TestStillTrue'
<1> USE CondSemAssumption DEF TypeOK, MutexOwner, TestStillTrue, Labels, Owning,
      Goto, Lock, Unlock
<1>1. CASE UNCHANGED vars
  BY <1>1 DEF vars
<1>2. ASSUME NEW t \in Thread, CallWait(t) PROVE TypeOK' /\ MutexOwner' /\ TestStillTrue'
  BY <1>2 DEF CallWait
<1>3. ASSUME NEW t \in Thread, CallPost(t) PROVE TypeOK' /\ MutexOwner' /\ TestStillTrue'
  BY <1>3 DEF CallPost
<1>4. ASSUME NEW t \in Thread, WaitLock(t) PROVE TypeOK' /\ MutexOwner' /\ TestStillTrue'
  BY <1>4 DEF WaitLock
<1>5. ASSUME NEW t \in Thread, WaitWake(t) PROVE TypeOK' /\ MutexOwner' /\ TestStillTrue'
  BY <1>5 DEF WaitWake
<1>6. ASSUME NEW t \in Thread, PostLock(t) PROVE TypeOK' /\ MutexOwner' /\ TestStillTrue'
  BY <1>6 DEF PostLock
<1>7. ASSUME NEW t \in Thread, WaitTest(t) PROVE TypeOK' /\ MutexOwner' /\ TestStillTrue'
  BY <1>7 DEF WaitTest
<1>8. ASSUME NEW t \in Thread, WaitTake(t) PROVE TypeOK' /\ MutexOwner' /\ TestStillTrue'
  BY <1>8 DEF WaitTake
<1>9. ASSUME NEW t \in Thread, WaitUnlock(t) PROVE TypeOK' /\ MutexOwner' /\ TestStillTrue'
  BY <1>9 DEF WaitUnlock
<1>10. ASSUME NEW t \in Thread, PostAdd(t) PROVE TypeOK' /\ MutexOwner' /\ TestStillTrue'
  BY <1>10 DEF PostAdd
<1>11. ASSUME NEW t \in Thread, PostSignal(t) PROVE TypeOK' /\ MutexOwner' /\ TestStillTrue'
  <2>1. CASE Goto(t, "post34")
    BY <1>11, <2>1 DEF PostSignal
  <2>2. ASSUME NEW s \in Asleep, pc' = [pc EXCEPT ![s] = "relock", ![t] = "post34"]
        PROVE  TypeOK' /\ MutexOwner' /\ TestStillTrue'
    BY <1>11, <2>2 DEF PostSignal, Asleep, At
  <2> QED
    BY <1>11, <2>1, <2>2 DEF PostSignal, CondSignal
<1>12. ASSUME NEW t \in Thread, PostUnlock(t) PROVE TypeOK' /\ MutexOwner' /\ TestStillTrue'
  BY <1>12 DEF PostUnlock
<1>13. ASSUME NEW t \in Thread, SpuriousWakeup(t) PROVE TypeOK' /\ MutexOwner' /\ TestStillTrue'
  BY <1>13 DEF SpuriousWakeup
<1> QED
  BY <1>1, <1>2, <1>3, <1>4, <1>5, <1>6, <1>7, <1>8, <1>9, <1>10, <1>11, <1>12, <1>13
  DEF Next, Wait, Post, GetMutex

\* How one step of a thread changes the number of committed threads: the count
\* follows the thread's own move, whatever the others do.
LEMMA CommittedMove ==
  ASSUME TypeOK, NEW t \in Thread, NEW l \in Labels, Goto(t, l)
  PROVE  LET C == {"relock", "wait19", "wait24", "post33"} IN
         /\ (pc[t] \notin C /\ l \notin C) => Committed' = Committed
         /\ (pc[t] \in C /\ l \in C) => Committed' = Committed
         /\ (pc[t] \notin C /\ l \in C) => Cardinality(Committed') = Cardinality(Committed) + 1
         /\ (pc[t] \in C /\ l \notin C) => Cardinality(Committed') = Cardinality(Committed) - 1
<1> DEFINE C == {"relock", "wait19", "wait24", "post33"}
<1>0. Committed \in SUBSET Thread
  BY DEF Committed, At
<1>1. ASSUME pc[t] \notin C, l \in C PROVE Cardinality(Committed') = Cardinality(Committed) + 1
  <2>1. Committed' = Committed \cup {t} /\ t \notin Committed
    BY <1>1 DEF Committed, At, Goto, TypeOK
  <2> QED
    BY <2>1, <1>0, Join
<1>2. ASSUME pc[t] \in C, l \notin C PROVE Cardinality(Committed') = Cardinality(Committed) - 1
  <2>1. Committed' = Committed \ {t} /\ t \in Committed
    BY <1>2 DEF Committed, At, Goto, TypeOK
  <2> QED
    BY <2>1, <1>0, Leave
<1>3. ASSUME pc[t] \in C <=> l \in C PROVE Committed' = Committed
  BY <1>3 DEF Committed, At, Goto, TypeOK
<1> QED
  BY <1>1, <1>2, <1>3

\* A step that neither adds a unit, nor sends anyone to sleep, nor takes a thread
\* off its way to the counter keeps the balance of units and committed threads.
LEMMA NextWakeup ==
  ASSUME TypeOK, MutexOwner, TestStillTrue, NoLostWakeup, [Next]_vars
  PROVE  NoLostWakeup'
<1> DEFINE C == {"relock", "wait19", "wait24", "post33"}
<1>0. /\ Committed \in SUBSET Thread
      /\ Cardinality(Committed) \in Nat
      /\ Cardinality(Committed') \in Nat
  BY ThreadSets DEF Committed, At
<1>a. ASSUME NEW t \in Thread, NEW l \in Labels, Goto(t, l), value' = value,
             l # "asleep", pc[t] \in C => l \in C
      PROVE  NoLostWakeup'
  <2>1. Cardinality(Committed') >= Cardinality(Committed)
    BY <1>a, <1>0, CommittedMove
  <2>2. Asleep' \subseteq Asleep
    BY <1>a DEF Asleep, At, Goto, TypeOK
  <2> QED
    BY <1>a, <1>0, <2>1, <2>2 DEF NoLostWakeup, TypeOK
<1>1. CASE UNCHANGED vars
  <2>1. Asleep' = Asleep /\ Committed' = Committed
    BY <1>1 DEF vars, Asleep, Committed, At
  <2> QED
    BY <2>1, <1>1 DEF vars, NoLostWakeup
<1>2. ASSUME NEW t \in Thread, CallWait(t) PROVE NoLostWakeup'
  BY <1>2, <1>a DEF CallWait, Labels
<1>3. ASSUME NEW t \in Thread, CallPost(t) PROVE NoLostWakeup'
  BY <1>3, <1>a DEF CallPost, Labels
<1>4. ASSUME NEW t \in Thread, WaitLock(t) PROVE NoLostWakeup'
  BY <1>4, <1>a DEF WaitLock, Labels
<1>5. ASSUME NEW t \in Thread, WaitWake(t) PROVE NoLostWakeup'
  BY <1>5, <1>a DEF WaitWake, Labels
<1>6. ASSUME NEW t \in Thread, PostLock(t) PROVE NoLostWakeup'
  BY <1>6, <1>a DEF PostLock, Labels
<1>7. ASSUME NEW t \in Thread, WaitTest(t) PROVE NoLostWakeup'
  <2>1. CASE value = 0
    BY <2>1, <1>7, <1>0 DEF WaitTest, NoLostWakeup
  <2>2. CASE value # 0
    BY <2>2, <1>7, <1>a DEF WaitTest, Labels
  <2> QED
    BY <2>1, <2>2
<1>8. ASSUME NEW t \in Thread, WaitTake(t) PROVE NoLostWakeup'
  <2>1. Goto(t, "wait25") /\ pc[t] = "wait24" /\ value' = value - 1 /\ "wait25" \in Labels
    BY <1>8 DEF WaitTake, Labels
  <2>2. Cardinality(Committed') = Cardinality(Committed) - 1
    BY <2>1, CommittedMove
  <2>3. Asleep' = Asleep
    BY <2>1 DEF Asleep, At, Goto, TypeOK
  <2> QED
    BY <1>0, <2>1, <2>2, <2>3 DEF NoLostWakeup, TypeOK
<1>9. ASSUME NEW t \in Thread, WaitUnlock(t) PROVE NoLostWakeup'
  BY <1>9, <1>a DEF WaitUnlock, Labels
<1>10. ASSUME NEW t \in Thread, PostAdd(t) PROVE NoLostWakeup'
  <2>1. Goto(t, "post33") /\ pc[t] = "post31" /\ value' = value + 1 /\ "post33" \in Labels
    BY <1>10 DEF PostAdd, Labels
  <2>2. Cardinality(Committed') = Cardinality(Committed) + 1
    BY <2>1, CommittedMove
  <2>3. Asleep' = Asleep
    BY <2>1 DEF Asleep, At, Goto, TypeOK
  <2> QED
    BY <1>0, <2>1, <2>2, <2>3 DEF NoLostWakeup, TypeOK
<1>11. ASSUME NEW t \in Thread, PostSignal(t) PROVE NoLostWakeup'
  <2>0. pc[t] = "post33" /\ value' = value
    BY <1>11 DEF PostSignal
  <2>1. CASE Asleep = {} /\ Goto(t, "post34")
    <3>1. Asleep' = {}
      BY <2>1 DEF Asleep, At, Goto, TypeOK
    <3> QED
      BY <3>1 DEF NoLostWakeup
  <2>2. ASSUME NEW s \in Asleep, pc' = [pc EXCEPT ![s] = "relock", ![t] = "post34"]
        PROVE  NoLostWakeup'
    <3>1. /\ s \in Thread
          /\ pc[s] = "asleep"
          /\ t \in Committed
          /\ s \notin Committed
      BY <2>0 DEF Asleep, Committed, At
    <3>2. Committed' = (Committed \ {t}) \cup {s}
      BY <2>0, <2>2, <3>1 DEF Committed, At, TypeOK
    <3>3. Cardinality(Committed') = Cardinality(Committed)
      <4>1. Cardinality(Committed \ {t}) = Cardinality(Committed) - 1
        BY <1>0, <3>1, Leave
      <4>2. Cardinality((Committed \ {t}) \cup {s}) = Cardinality(Committed \ {t}) + 1
        BY <1>0, <3>1, Join
      <4> QED
        BY <1>0, <3>2, <4>1, <4>2
    <3>4. Asleep' \subseteq Asleep
      BY <2>2, <3>1 DEF Asleep, At, TypeOK
    <3> QED
      BY <2>0, <3>3, <3>4 DEF NoLostWakeup
  <2> QED
    BY <1>11, <2>1, <2>2 DEF PostSignal, CondSignal
<1>12. ASSUME NEW t \in Thread, PostUnlock(t) PROVE NoLostWakeup'
  BY <1>12, <1>a DEF PostUnlock, Labels
<1>13. ASSUME NEW t \in Thread, SpuriousWakeup(t) PROVE NoLostWakeup'
  BY <1>13, <1>a DEF SpuriousWakeup, Labels
<1> QED
  BY <1>1, <1>2, <1>3, <1>4, <1>5, <1>6, <1>7, <1>8, <1>9, <1>10, <1>11, <1>12, <1>13
  DEF Next, Wait, Post, GetMutex

\* The inductive invariant holds in every reachable state.
THEOREM CondSemInvariant == Spec => []IInv
<1>1. Init => IInv
  BY InitIInv
<1>2. IInv /\ [Next]_vars => IInv'
  BY NextMutex, NextWakeup DEF IInv
<1> QED
  BY <1>1, <1>2, PTL DEF Spec

\* The counter of sem.c is never negative, whatever the threads do.
THEOREM CounterNeverNegative == Spec => []TypeOK
<1>1. IInv => TypeOK
  BY DEF IInv
<1> QED
  BY <1>1, CondSemInvariant, PTL

\* The single pthread_cond_signal of post() loses no wakeup (sem.c:33).
THEOREM NoWakeupIsLost == Spec => []NoLostWakeup
<1>1. IInv => NoLostWakeup
  BY DEF IInv
<1> QED
  BY <1>1, CondSemInvariant, PTL

\* sem.c is a semaphore: every step of wait() and post() is a step of the atomic
\* semaphore of module AtomicSem, or changes nothing it can see.
THEOREM ImplementsAtomicSem == Spec => Sem!Spec
<1> DEFINE W == {"wait18", "wait19", "asleep", "relock", "wait24"}
<1>1. Init => Sem!Init
  BY CondSemAssumption DEF Init, Sem!Init, At
<1>2. ASSUME IInv, [Next]_vars PROVE [Sem!Next]_(Sem!vars)
  <2> USE DEF IInv, TypeOK, Goto, At, Sem!vars, Labels
  <2>a. ASSUME NEW t \in Thread, NEW l \in Labels, Goto(t, l), value' = value,
               pc[t] \in W <=> l \in W
        PROVE  UNCHANGED Sem!vars
    BY <1>2, <2>a
  <2>1. CASE UNCHANGED vars
    BY <2>1 DEF vars
  <2>2. ASSUME NEW t \in Thread, CallWait(t) PROVE Sem!Arrive(t)
    BY <1>2, <2>2 DEF CallWait, Sem!Arrive
  <2>3. ASSUME NEW t \in Thread, WaitTake(t) PROVE Sem!P(t)
    BY <1>2, <2>3 DEF WaitTake, Sem!P, TestStillTrue
  <2>4. ASSUME NEW t \in Thread, PostAdd(t) PROVE Sem!V
    BY <1>2, <2>4 DEF PostAdd, Sem!V
  <2>5. ASSUME NEW t \in Thread, PostSignal(t) PROVE UNCHANGED Sem!vars
    BY <1>2, <2>5 DEF PostSignal, CondSignal, Asleep
  <2>6. ASSUME NEW t \in Thread,
               \/ CallPost(t) \/ GetMutex(t) \/ WaitTest(t) \/ WaitUnlock(t)
               \/ PostUnlock(t) \/ SpuriousWakeup(t)
        PROVE  UNCHANGED Sem!vars
    BY <1>2, <2>6, <2>a DEF CallPost, GetMutex, WaitLock, WaitWake, PostLock,
      WaitTest, WaitUnlock, PostUnlock, SpuriousWakeup
  <2> QED
    BY <1>2, <2>1, <2>2, <2>3, <2>4, <2>5, <2>6 DEF Next, Wait, Post, Sem!Next
<1> QED
  BY <1>1, <1>2, CondSemInvariant, PTL DEF Spec, Sem!Spec
=============================================================================
