------------------------------ MODULE AtomicSem ------------------------------
(***************************************************************************)
(* What a counting semaphore promises to the threads that use it: P takes  *)
(* one unit as soon as one can be taken, V adds one, each in a single      *)
(* indivisible step.  13/sem.c has to implement this with a mutex and a    *)
(* condition variable (module CondSem).                                    *)
(***************************************************************************)
EXTENDS Integers

CONSTANT Thread  \* the threads that share the semaphore

VARIABLES
  value,       \* the units that can be taken
  waiting      \* the threads inside wait() that have not taken a unit yet

vars == <<value, waiting>>

Init ==
  /\ value \in Nat
  /\ waiting = {}

\* A thread enters wait().
Arrive(t) ==
  /\ t \notin waiting
  /\ waiting' = waiting \cup {t}
  /\ UNCHANGED value

\* The unit a waiting thread asked for is taken.
P(t) ==
  /\ t \in waiting
  /\ value > 0
  /\ value' = value - 1
  /\ waiting' = waiting \ {t}

\* Some thread adds a unit.
V ==
  /\ value' = value + 1
  /\ UNCHANGED waiting

Next == V \/ \E t \in Thread : Arrive(t) \/ P(t)

Spec == Init /\ [][Next]_vars

\* The promise of progress: units and waiting threads do not sit beside each
\* other for ever.  Nothing is promised to one particular thread.
Progress == WF_vars(\E t \in Thread : P(t))

FairSpec == Spec /\ Progress
=============================================================================
