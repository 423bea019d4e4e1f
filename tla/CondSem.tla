------------------------------- MODULE CondSem -------------------------------
(***************************************************************************)
(* 13/sem.c: a counting semaphore made of a pthread mutex, a condition     *)
(* variable and an int.  Every thread may call wait() and post() any       *)
(* number of times.  A label of pc is a point between two steps of the     *)
(* code; the number in it is the line about to run.                        *)
(***************************************************************************)
EXTENDS Integers, FiniteSets

CONSTANTS
  Thread,      \* the threads that share the semaphore
  InitVal,     \* the values init() is called with
  MaxValue,    \* bound: post() is not called when the counter and the posts
               \* under way reach it (in the code, the largest int)
  NoThread,    \* the owner of a free mutex
  Spurious     \* TRUE: pthread_cond_wait may return without a signal

ASSUME CondSemAssumption ==
  /\ MaxValue \in Nat
  /\ InitVal \subseteq Int
  /\ \A v \in InitVal : v <= MaxValue
  /\ NoThread \notin Thread
  /\ Spurious \in BOOLEAN

ASSUME ThreadsFinite == IsFiniteSet(Thread)

VARIABLES
  value,       \* sem->value
  mutex,       \* the thread that owns sem->mutex, or NoThread
  pc           \* where each thread is

vars == <<value, mutex, pc>>

Labels ==
  {"idle",
   "wait18", "wait19", "asleep", "relock", "wait24", "wait25",
   "post29", "post31", "post33", "post34"}

\* The labels at which a thread owns the mutex.
Owning == {"wait19", "wait24", "wait25", "post31", "post33", "post34"}

At(labels) == {t \in Thread : pc[t] \in labels}

\* The threads on the queue of the condition variable.
Asleep == At({"asleep"})

Goto(t, label) == pc' = [pc EXCEPT ![t] = label]

\* init() ends the process on a negative value, so no thread ever meets one.
Init ==
  /\ value \in {v \in InitVal : v >= 0}
  /\ mutex = NoThread
  /\ pc = [t \in Thread |-> "idle"]

-----------------------------------------------------------------------------
\* pthread_mutex_lock, pthread_mutex_unlock.
Lock(t) == mutex = NoThread /\ mutex' = t
Unlock(t) == mutex' = NoThread

\* pthread_cond_signal: some sleeping thread, if there is one, is released and
\* goes back for the mutex; with nobody asleep the signal is lost.  The thread
\* that signals moves on to label.
CondSignal(t, label) ==
  \/ /\ Asleep = {}
     /\ Goto(t, label)
  \/ \E s \in Asleep : pc' = [pc EXCEPT ![s] = "relock", ![t] = label]

-----------------------------------------------------------------------------
CallWait(t) ==
  /\ pc[t] = "idle"
  /\ Goto(t, "wait18")
  /\ UNCHANGED <<value, mutex>>

WaitLock(t) ==
  /\ pc[t] = "wait18"
  /\ Lock(t)
  /\ Goto(t, "wait19")
  /\ UNCHANGED value

\* The loop test, and pthread_cond_wait when it holds: the mutex is given up
\* and the thread falls asleep in one step.
WaitTest(t) ==
  /\ pc[t] = "wait19"
  /\ \/ /\ value = 0
        /\ Unlock(t)
        /\ Goto(t, "asleep")
     \/ /\ value # 0
        /\ Goto(t, "wait24")
        /\ UNCHANGED mutex
  /\ UNCHANGED value

\* pthread_cond_wait returns after it has the mutex again, back to the test.
\* The mutant returns past it: an if in the place of the while.
WaitWakeOnce(t) ==
  /\ pc[t] = "relock"
  /\ Lock(t)
  /\ Goto(t, "wait24")
  /\ UNCHANGED value

WaitWake(t) ==
  /\ pc[t] = "relock"
  /\ Lock(t)
  /\ Goto(t, "wait19")
  /\ UNCHANGED value

SpuriousWakeup(t) ==
  /\ Spurious
  /\ pc[t] = "asleep"
  /\ Goto(t, "relock")
  /\ UNCHANGED <<value, mutex>>

WaitTake(t) ==
  /\ pc[t] = "wait24"
  /\ value' = value - 1
  /\ Goto(t, "wait25")
  /\ UNCHANGED mutex

WaitUnlock(t) ==
  /\ pc[t] = "wait25"
  /\ Unlock(t)
  /\ Goto(t, "idle")
  /\ UNCHANGED value

-----------------------------------------------------------------------------
CallPost(t) ==
  /\ pc[t] = "idle"
  /\ value + Cardinality(At({"post29", "post31"})) < MaxValue
  /\ Goto(t, "post29")
  /\ UNCHANGED <<value, mutex>>

PostLock(t) ==
  /\ pc[t] = "post29"
  /\ Lock(t)
  /\ Goto(t, "post31")
  /\ UNCHANGED value

PostAdd(t) ==
  /\ pc[t] = "post31"
  /\ value' = value + 1
  /\ Goto(t, "post33")
  /\ UNCHANGED mutex

\* The mutant signals only when the counter leaves zero, a tempting saving.
PostSignalOnZero(t) ==
  /\ pc[t] = "post33"
  /\ IF value = 1 THEN CondSignal(t, "post34") ELSE Goto(t, "post34")
  /\ UNCHANGED <<value, mutex>>

PostSignal(t) ==
  /\ pc[t] = "post33"
  /\ CondSignal(t, "post34")
  /\ UNCHANGED <<value, mutex>>

PostUnlock(t) ==
  /\ pc[t] = "post34"
  /\ Unlock(t)
  /\ Goto(t, "idle")
  /\ UNCHANGED value

-----------------------------------------------------------------------------
\* What a thread does on its own once it is inside an operation.
Wait(t) == WaitTest(t) \/ WaitTake(t) \/ WaitUnlock(t)
Post(t) == PostAdd(t) \/ PostSignal(t) \/ PostUnlock(t)
GetMutex(t) == WaitLock(t) \/ WaitWake(t) \/ PostLock(t)

Next ==
  \E t \in Thread :
    \/ CallWait(t) \/ CallPost(t)
    \/ GetMutex(t) \/ Wait(t) \/ Post(t)
    \/ SpuriousWakeup(t)

Spec == Init /\ [][Next]_vars

\* A thread that can run runs, and one that keeps asking for the mutex gets it:
\* a waiter of a pthread mutex is woken by the unlock and competes for it.
Fairness ==
  \A t \in Thread :
    /\ WF_vars(Wait(t) \/ Post(t))
    /\ SF_vars(GetMutex(t))

FairSpec == Spec /\ Fairness

-----------------------------------------------------------------------------
\* The counter is a natural number: it never goes below zero, which
\* 13/writeup.md:60 asks of every semaphore.  A unit is only taken (sem.c:24)
\* when there is one, although the thread may have slept, and others may have
\* taken units, since its first test of the counter.
TypeOK ==
  /\ value \in Nat
  /\ mutex \in Thread \cup {NoThread}
  /\ pc \in [Thread -> Labels]

\* The mutex is owned by the thread that is between lock and unlock.
MutexOwner == \A t \in Thread : pc[t] \in Owning <=> mutex = t

\* The result of the loop test (sem.c:19) still holds when the unit is taken.
TestStillTrue == \A t \in Thread : pc[t] = "wait24" => value > 0

\* The threads that will still see the present units: those on their way from
\* the condition variable to the test, the one at the test, and the poster that
\* has not signalled yet.
Committed == At({"relock", "wait19", "wait24", "post33"})

\* No wakeup is lost: while a thread sleeps (sem.c:20) every unit of the counter
\* is matched by a thread that is already on its way to take it, or by a signal
\* that is about to be sent.  One signal per post is therefore enough.
NoLostWakeup == Asleep # {} => value <= Cardinality(Committed)

\* The inductive invariant: with the mutex held by the thread inside, nothing a
\* thread learned about the counter (sem.c:19) changes before it acts on it.
IInv == TypeOK /\ MutexOwner /\ TestStillTrue /\ NoLostWakeup

\* The promise of module AtomicSem, read off this module's state: a thread waits
\* from its call of wait() until it has taken its unit.
Sem ==
  INSTANCE AtomicSem WITH
    waiting <- At({"wait18", "wait19", "asleep", "relock", "wait24"})

\* Safety and progress of the semaphore: each step of the code is one step of
\* the atomic semaphore or none, and a unit that can be taken is taken.
ImplementsSem == Sem!FairSpec
=============================================================================
