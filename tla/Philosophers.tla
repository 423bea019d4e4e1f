---------------------------- MODULE Philosophers ----------------------------
(***************************************************************************)
(* 13/so21_lista_13/philosophers.c: N philosophers, a semaphore for every  *)
(* fork and the semaphore "footman" that lets N - 1 of them to the table.  *)
(* Philosopher p takes fork p (right), then fork p - 1 (left).  A label of *)
(* pc names the operation the philosopher is about to perform.             *)
(***************************************************************************)
EXTENDS Integers, FiniteSets

CONSTANT N   \* how many philosophers, and forks, there are

ASSUME NAssumption == N \in Nat /\ N >= 2

VARIABLES
  footman,   \* the value of the semaphore footman
  forks,     \* forks[i]: the value of the semaphore of fork i
  pc         \* where each philosopher is

vars == <<footman, forks, pc>>

Id == 0 .. N - 1

\* The index of the left fork, and of the philosopher who shares it.
LeftOf(p) == IF p = 0 THEN N - 1 ELSE p - 1

Labels ==
  {"think", "footman", "right", "left", "eat",
   "putFootman", "putRight", "putLeft"}

\* Where a philosopher has passed the footman, holds the fork on the right, and
\* holds the fork on the left.
Seated == {"right", "left", "eat", "putFootman"}
HasRight == {"left", "eat", "putFootman", "putRight"}
HasLeft == {"eat", "putFootman", "putRight", "putLeft"}

At(labels) == {p \in Id : pc[p] \in labels}

\* The mutant of Init seats all N.
InitSeatAll ==
  /\ footman = N
  /\ forks = [i \in Id |-> 1]
  /\ pc = [p \in Id |-> "think"]

Init ==
  /\ footman = N - 1
  /\ forks = [i \in Id |-> 1]
  /\ pc = [p \in Id |-> "think"]

-----------------------------------------------------------------------------
Step(p, from, to) == pc[p] = from /\ pc' = [pc EXCEPT ![p] = to]

\* sem_wait and sem_post on footman and on a fork.
WaitFootman == footman > 0 /\ footman' = footman - 1 /\ UNCHANGED forks
PostFootman == footman' = footman + 1 /\ UNCHANGED forks

WaitFork(i) ==
  /\ forks[i] > 0
  /\ forks' = [forks EXCEPT ![i] = @ - 1]
  /\ UNCHANGED footman

PostFork(i) ==
  /\ forks' = [forks EXCEPT ![i] = @ + 1]
  /\ UNCHANGED footman

-----------------------------------------------------------------------------
Think(p) == Step(p, "think", "footman") /\ UNCHANGED <<footman, forks>>
PassFootman(p) == Step(p, "footman", "right") /\ WaitFootman
TakeRight(p) == Step(p, "right", "left") /\ WaitFork(p)
TakeLeft(p) == Step(p, "left", "eat") /\ WaitFork(LeftOf(p))
Eat(p) == Step(p, "eat", "putFootman") /\ UNCHANGED <<footman, forks>>

\* The mutant takes the forks once, before its loop, and keeps them.
KeepForks(p) == Step(p, "putFootman", "eat") /\ UNCHANGED <<footman, forks>>

LeaveFootman(p) == Step(p, "putFootman", "putRight") /\ PostFootman
PutRight(p) == Step(p, "putRight", "putLeft") /\ PostFork(p)

\* The mutant puts the right fork back twice.
PutRightAgain(p) == Step(p, "putLeft", "think") /\ PostFork(p)

PutLeft(p) == Step(p, "putLeft", "think") /\ PostFork(LeftOf(p))

Wait(p) == PassFootman(p) \/ TakeRight(p) \/ TakeLeft(p)
Run(p) == Think(p) \/ Eat(p) \/ LeaveFootman(p) \/ PutRight(p) \/ PutLeft(p)

Next == \E p \in Id : Wait(p) \/ Run(p)

Spec == Init /\ [][Next]_vars

\* usleep returns and sem_post never blocks; a sem_wait on a semaphore that is
\* posted again and again returns (the wakeup of the futex goes to some waiter,
\* and each of them is assumed to have its turn).
Fairness ==
  \A p \in Id :
    /\ WF_vars(Run(p))
    /\ SF_vars(PassFootman(p))
    /\ SF_vars(TakeRight(p))
    /\ SF_vars(TakeLeft(p))

FairSpec == Spec /\ Fairness

-----------------------------------------------------------------------------
\* No semaphore goes beyond the value it was made with, so a fork is never put
\* back twice and the footman never admits more than N - 1.
TypeOK ==
  /\ footman \in 0 .. N - 1
  /\ forks \in [Id -> 0 .. 1]
  /\ pc \in [Id -> Labels]

\* A fork lies on the table exactly when neither of the two philosophers who
\* share it (philosophers.c:28-30) holds it, and they never hold it together.
RightUser(i) == pc[i] \in HasRight
LeftUser(i) == \E q \in Id : LeftOf(q) = i /\ pc[q] \in HasLeft

ForkOwnership ==
  \A i \in Id :
    /\ ~(RightUser(i) /\ LeftUser(i))
    /\ forks[i] = 1 <=> ~RightUser(i) /\ ~LeftUser(i)

\* Two neighbours never eat at the same time.
NeighboursDoNotEat == \A p \in Id : ~(pc[p] = "eat" /\ pc[LeftOf(p)] = "eat")

\* The footman counts the philosophers between Sem_wait(&footman) and
\* Sem_post(&footman); the forks are put back only after the post.
FootmanCount == footman + Cardinality(At(Seated)) = N - 1

\* The inductive invariant: the semaphores tell the truth about the table.
IInv == TypeOK /\ ForkOwnership /\ FootmanCount

\* "Take forks (without deadlock & starvation)", philosophers.c:27: whatever the
\* philosophers have done, one of them is not blocked in a Sem_wait.
CanMove(p) ==
  \/ pc[p] \in {"think", "eat", "putFootman", "putRight", "putLeft"}
  \/ pc[p] = "footman" /\ footman > 0
  \/ pc[p] = "right" /\ forks[p] > 0
  \/ pc[p] = "left" /\ forks[LeftOf(p)] > 0

NoDeadlock == \E p \in Id : CanMove(p)

\* "without ... starvation", philosophers.c:27: a hungry philosopher eats.
NoStarvation == \A p \in Id : pc[p] = "footman" ~> pc[p] = "eat"
=============================================================================
