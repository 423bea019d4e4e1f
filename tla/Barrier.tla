------------------------------- MODULE Barrier -------------------------------
(***************************************************************************)
(* 13/so21_lista_13/barrier.c: a barrier for n processes made of three     *)
(* semaphores and a counter in shared memory, and the horses that run      *)
(* their laps through it.  A label names the line about to run.            *)
(***************************************************************************)
EXTENDS Integers, FiniteSets

CONSTANTS
  Horse,         \* the processes that run at the same time (P in the code)
  n,             \* b->n, the size of the barrier
  Laps,          \* the numbers of laps a horse may draw (K .. 2 * K - 1)
  Replacements   \* how often main() replaces a horse that is done

ASSUME BarrierAssumption ==
  /\ IsFiniteSet(Horse)
  /\ n \in Nat \ {0}
  /\ Laps \subseteq Nat \ {0}
  /\ Replacements \in Nat

VARIABLES
  sem,        \* the values of the semaphores
  waiting,    \* b->waiting
  line,       \* where each horse is
  lap,        \* i, the laps each horse has behind it
  goal,       \* the local n of horse(), the laps it has to run
  forked,     \* the replacements main() has forked
  entered     \* history: how often barrier.c:35 was executed, up to n

barrierVars == <<sem, waiting, line, lap, goal, forked, entered>>

Labels ==
  {"wait34", "inc35", "wait37", "post38", "post40", "wait42", "post43",
   "wait45", "dec46", "wait48", "post49", "post51", "wait53", "post54",
   "wait57", "inc58", "post59", "test60", "post61", "wait63", "post64",
   "rest", "done"}

\* The labels behind the first turnstile.
Through == Labels \ {"wait34", "inc35", "wait37", "post38", "post40", "wait42", "rest", "done"}

BarrierInit ==
  /\ sem = [mutex |-> 1, turnsnile |-> 0, turnsnile2 |-> 1]
  /\ waiting = 0
  /\ line = [h \in Horse |-> "wait34"]
  /\ lap = [h \in Horse |-> 0]
  /\ goal \in [Horse -> Laps]
  /\ forked = 0
  /\ entered = 0

Goto(h, from, to) == line[h] = from /\ line' = [line EXCEPT ![h] = to]

\* sem_wait and sem_post of horse h on the semaphore s.
Wait(h, s, from, to) ==
  /\ Goto(h, from, to)
  /\ sem[s] > 0
  /\ sem' = [sem EXCEPT ![s] = @ - 1]
  /\ UNCHANGED <<waiting, lap, goal, forked, entered>>

Post(h, s, from, to) ==
  /\ Goto(h, from, to)
  /\ sem' = [sem EXCEPT ![s] = @ + 1]
  /\ UNCHANGED <<waiting, lap, goal, forked, entered>>

-----------------------------------------------------------------------------
\* Lines 34-43: the last of n to arrive closes the second turnstile and opens the
\* first.
Arrive(h) ==
  /\ Goto(h, "inc35", IF waiting + 1 = n THEN "wait37" ELSE "post40")
  /\ waiting' = waiting + 1
  /\ entered' = IF entered < n THEN entered + 1 ELSE n
  /\ UNCHANGED <<sem, lap, goal, forked>>

FirstTurnstile(h) ==
  \/ Wait(h, "mutex", "wait34", "inc35")
  \/ Arrive(h)
  \/ Wait(h, "turnsnile2", "wait37", "post38")
  \/ Post(h, "turnsnile", "post38", "post40")
  \/ Post(h, "mutex", "post40", "wait42")
  \/ Wait(h, "turnsnile", "wait42", "post43")
  \/ Post(h, "turnsnile", "post43", "wait45")

\* Lines 45-54: the last one through closes the first turnstile and opens the
\* second.
Depart(h) ==
  /\ Goto(h, "dec46", IF waiting - 1 = 0 THEN "wait48" ELSE "post51")
  /\ waiting' = waiting - 1
  /\ UNCHANGED <<sem, lap, goal, forked, entered>>

SecondTurnstile(h) ==
  \/ Wait(h, "mutex", "wait45", "dec46")
  \/ Depart(h)
  \/ Wait(h, "turnsnile", "wait48", "post49")
  \/ Post(h, "turnsnile2", "post49", "post51")
  \/ Post(h, "mutex", "post51", "wait53")
  \/ Wait(h, "turnsnile2", "wait53", "post54")
  \/ Post(h, "turnsnile2", "post54", "wait57")

\* Lines 57-64: a third meeting; the counter is read after the mutex was given
\* back, and nobody counts down again.
ArriveAgain(h) ==
  /\ Goto(h, "inc58", "post59")
  /\ waiting' = waiting + 1
  /\ UNCHANGED <<sem, lap, goal, forked, entered>>

\* The mutants read the counter with an off-by-one: nobody opens, or it is opened
\* too early.
ReadCounterLate(h) ==
  /\ Goto(h, "test60", IF waiting = n + 1 THEN "post61" ELSE "wait63")
  /\ UNCHANGED <<sem, waiting, lap, goal, forked, entered>>

ReadCounterEarly(h) ==
  /\ Goto(h, "test60", IF waiting = n - 1 THEN "post61" ELSE "wait63")
  /\ UNCHANGED <<sem, waiting, lap, goal, forked, entered>>

ReadCounter(h) ==
  /\ Goto(h, "test60", IF waiting = n THEN "post61" ELSE "wait63")
  /\ UNCHANGED <<sem, waiting, lap, goal, forked, entered>>

ThirdTurnstile(h) ==
  \/ Wait(h, "mutex", "wait57", "inc58")
  \/ ArriveAgain(h)
  \/ Post(h, "mutex", "post59", "test60")
  \/ ReadCounter(h)
  \/ Post(h, "turnsnile", "post61", "wait63")
  \/ Wait(h, "turnsnile", "wait63", "post64")

\* barrier_wait returns.
LeaveBarrier(h) ==
  /\ Goto(h, "post64", "rest")
  /\ sem' = [sem EXCEPT !.turnsnile = @ + 1]
  /\ lap' = [lap EXCEPT ![h] = @ + 1]
  /\ UNCHANGED <<waiting, goal, forked, entered>>

-----------------------------------------------------------------------------
\* horse(): the next lap, or the end of the process.
NextLap(h) ==
  /\ Goto(h, "rest", IF lap[h] < goal[h] THEN "wait34" ELSE "done")
  /\ UNCHANGED <<sem, waiting, lap, goal, forked, entered>>

\* main(): Wait(NULL) returns for a horse that is done, and a new one is forked.
Replace(h) ==
  /\ forked < Replacements
  /\ Goto(h, "done", "wait34")
  /\ lap' = [lap EXCEPT ![h] = 0]
  /\ \E k \in Laps : goal' = [goal EXCEPT ![h] = k]
  /\ forked' = forked + 1
  /\ UNCHANGED <<sem, waiting, entered>>

BarrierWait(h) ==
  FirstTurnstile(h) \/ SecondTurnstile(h) \/ ThirdTurnstile(h) \/ LeaveBarrier(h)

Run(h) == BarrierWait(h) \/ NextLap(h) \/ Replace(h)

BarrierNext == \E h \in Horse : Run(h)

BarrierSpec == BarrierInit /\ [][BarrierNext]_barrierVars

\* Strong fairness of a horse: a sem_wait whose semaphore is posted again and
\* again returns in the end.
BarrierFairSpec == BarrierSpec /\ \A h \in Horse : SF_barrierVars(Run(h))

-----------------------------------------------------------------------------
\* The mutex is never posted twice, and waiting counts no horse below zero.
BarrierTypeOK ==
  /\ sem.mutex \in 0 .. 1
  /\ sem.turnsnile \in Nat
  /\ sem.turnsnile2 \in Nat
  /\ waiting \in Nat
  /\ line \in [Horse -> Labels]
  /\ lap \in [Horse -> Nat]
  /\ goal \in [Horse -> Laps]
  /\ \A h \in Horse : lap[h] <= goal[h]

\* No horse starts a second lap while another one is still inside the first two
\* turnstiles, although the counter is read without the mutex (barrier.c:60).  A horse
\* that replaces another one starts its laps anew, so this speaks of the time before
\* main() forks a replacement.
NobodyLapped ==
  forked = 0 /\ (\E h \in Horse : lap[h] >= 1) =>
    \A h \in Horse : lap[h] >= 1 \/ line[h] \in {"post59", "test60", "post61", "wait63", "post64"}

\* The barrier works for the first lap.  However many horses run, none is through the
\* first turnstile (barrier.c:42) before n have arrived.  When they are no more than n,
\* none starts a second lap before all have finished the first, and the second
\* turnstile is never posted twice; main() starts 100 for a barrier of 50, and then
\* neither is promised.  (The variables have their types, too.)
FirstLapTogether ==
  /\ BarrierTypeOK
  /\ (\E h \in Horse : line[h] \in Through) => entered = n
  /\ Cardinality(Horse) <= n => NobodyLapped /\ sem.turnsnile2 <= 1

\* "jeden kon biegnie n okrazen, potem jest zastapiony przez innego konia",
\* barrier.c:80 (one horse runs n laps, then another one replaces it): every horse
\* finishes its laps.
HorsesFinish == \A h \in Horse : <>(line[h] = "done")
=============================================================================
