--------------------------- MODULE MCSharedMemory ---------------------------
(***************************************************************************)
(* Instance for TLC of the two programs of list 13: processes that share   *)
(* semaphores and a counter in mapped memory.  They do not interact: the   *)
(* initial state chooses which one runs.                                   *)
(***************************************************************************)
EXTENDS Savages, Barrier

VARIABLE program

mcVars == <<program, vars, barrierVars>>

MCInit == program \in {"savages", "barrier"} /\ Init /\ BarrierInit

\* An action of one of the programs.
OfSavages(act) == program = "savages" /\ act /\ UNCHANGED <<program, barrierVars>>
OfBarrier(act) == program = "barrier" /\ act /\ UNCHANGED <<program, vars>>

MCNext == OfSavages(Next) \/ OfBarrier(BarrierNext)

\* With the fairness of FairSpec in Savages and of BarrierFairSpec in Barrier.
MCSpec ==
  /\ MCInit /\ [][MCNext]_mcVars
  /\ WF_mcVars(OfSavages(Cook))
  /\ \A s \in Savage : WF_mcVars(OfSavages(Eat(s))) /\ SF_mcVars(OfSavages(TakeMutex(s)))
  /\ \A h \in Horse : SF_mcVars(OfBarrier(Run(h)))

\* When the savages run, every one eats again and again although a savage sleeps with
\* the mutex held (savages.c:26).
SavagesEat == program = "savages" => EverySavageEats

\* When the horses run, as many as the barrier has room for, every one finishes its laps
\* although the barrier is left open and counts from n (barrier.c:64).
RaceEnds == program = "barrier" => HorsesFinish
=============================================================================
