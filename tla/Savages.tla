------------------------------- MODULE Savages -------------------------------
(***************************************************************************)
(* 13/so21_lista_13/savages.c: savages eat from one pot in shared memory;  *)
(* the savage who finds it empty wakes the cook and waits, with the mutex  *)
(* held, until the cook has filled it.  Each side is a process; a label    *)
(* names the line about to run.                                            *)
(***************************************************************************)
EXTENDS Integers, FiniteSets

CONSTANTS
  Savage,    \* the savage processes
  M          \* how many meals the cook prepares

ASSUME SavagesAssumption == M \in Nat \ {0}

VARIABLES
  meals,     \* shared->meals
  mutex,     \* the values of the three shared semaphores
  empty,
  full,
  pc,        \* where each savage is
  cook       \* where the cook is

vars == <<meals, mutex, empty, full, pc, cook>>

SavageLabels ==
  {"wait23", "test24", "post25", "wait26", "eat29", "post30", "digest"}

CookLabels == {"wait42", "cook45", "post46"}

\* The labels between sem_wait(&mutex) and sem_post(&mutex).
Inside == {"test24", "post25", "wait26", "eat29", "post30"}

Init ==
  /\ meals = 0
  /\ mutex = 1
  /\ empty = 0
  /\ full = 0
  /\ pc = [s \in Savage |-> "wait23"]
  /\ cook = "wait42"

Step(s, from, to) ==
  /\ pc[s] = from
  /\ pc' = [pc EXCEPT ![s] = to]
  /\ UNCHANGED cook

-----------------------------------------------------------------------------
TakeMutex(s) ==
  /\ Step(s, "wait23", "test24")
  /\ mutex > 0
  /\ mutex' = mutex - 1
  /\ UNCHANGED <<meals, empty, full>>

TestPot(s) ==
  /\ Step(s, "test24", IF meals = 0 THEN "post25" ELSE "eat29")
  /\ UNCHANGED <<meals, mutex, empty, full>>

WakeCook(s) ==
  /\ Step(s, "post25", "wait26")
  /\ empty' = empty + 1
  /\ UNCHANGED <<meals, mutex, full>>

WaitFull(s) ==
  /\ Step(s, "wait26", "eat29")
  /\ full > 0
  /\ full' = full - 1
  /\ UNCHANGED <<meals, mutex, empty>>

EatMeal(s) ==
  /\ Step(s, "eat29", "post30")
  /\ meals' = meals - 1
  /\ UNCHANGED <<mutex, empty, full>>

\* The mutant takes the mutex once for the whole loop.
ReleaseNever(s) ==
  /\ Step(s, "post30", "test24")
  /\ UNCHANGED <<meals, mutex, empty, full>>

ReleaseMutex(s) ==
  /\ Step(s, "post30", "digest")
  /\ mutex' = mutex + 1
  /\ UNCHANGED <<meals, empty, full>>

Digest(s) ==
  /\ Step(s, "digest", "wait23")
  /\ UNCHANGED <<meals, mutex, empty, full>>

-----------------------------------------------------------------------------
\* The mutant starts cooking without having been asked.
CookEager ==
  /\ cook = "wait42"
  /\ cook' = "cook45"
  /\ UNCHANGED <<meals, mutex, empty, full, pc>>

CookWait ==
  /\ cook = "wait42"
  /\ empty > 0
  /\ empty' = empty - 1
  /\ cook' = "cook45"
  /\ UNCHANGED <<meals, mutex, full, pc>>

CookMeals ==
  /\ cook = "cook45"
  /\ meals' = M
  /\ cook' = "post46"
  /\ UNCHANGED <<mutex, empty, full, pc>>

CookPost ==
  /\ cook = "post46"
  /\ full' = full + 1
  /\ cook' = "wait42"
  /\ UNCHANGED <<meals, mutex, empty, pc>>

Cook == CookWait \/ CookMeals \/ CookPost

Eat(s) ==
  \/ TestPot(s) \/ WakeCook(s) \/ WaitFull(s) \/ EatMeal(s)
  \/ ReleaseMutex(s) \/ Digest(s)

Next == Cook \/ \E s \in Savage : TakeMutex(s) \/ Eat(s)

Spec == Init /\ [][Next]_vars

\* The scheduler runs every process that is not blocked; a savage who waits for
\* the mutex while it is released again and again gets it in the end.
Fairness ==
  /\ WF_vars(Cook)
  /\ \A s \in Savage : WF_vars(Eat(s)) /\ SF_vars(TakeMutex(s))

FairSpec == Spec /\ Fairness

-----------------------------------------------------------------------------
\* The pot holds between 0 and M meals: meals-- (savages.c:29) never meets an
\* empty pot although the cook fills it without the mutex, and no semaphore
\* collects more than one post.
TypeOK ==
  /\ meals \in 0 .. M
  /\ mutex \in 0 .. 1
  /\ empty \in 0 .. 1
  /\ full \in 0 .. 1
  /\ pc \in [Savage -> SavageLabels]
  /\ cook \in CookLabels

\* The mutex is free, or exactly one savage is inside.
OneInside ==
  /\ \A s, r \in Savage : pc[s] \in Inside /\ pc[r] \in Inside => s = r
  /\ mutex = 1 <=> \A s \in Savage : pc[s] \notin Inside

\* An order for a refill is in one of three places: with the cook not yet called
\* (empty), with the cook at work, or reported (full).  There is one exactly while
\* a savage waits at savages.c:26.
OneOrder ==
  empty + full + (IF cook = "wait42" THEN 0 ELSE 1)
    = IF \E s \in Savage : pc[s] = "wait26" THEN 1 ELSE 0

\* The pot in each stage: empty until the cook is done, full until the savage
\* eats, and never empty where a meal is taken.
PotContents ==
  /\ empty = 1 \/ cook = "cook45" => meals = 0
  /\ full = 1 \/ cook = "post46" => meals = M
  /\ \A s \in Savage :
       /\ pc[s] = "post25" => meals = 0
       /\ pc[s] = "eat29" => meals > 0

\* The inductive invariant: the savage who ordered keeps everyone else out until
\* the order is done, so the cook may fill the pot without the mutex.
IInv == TypeOK /\ OneInside /\ OneOrder /\ PotContents

\* "Cook is asleep as long as there are meals", savages.c:40: whenever the cook is
\* about to cook, the pot is empty and a savage is waiting for that very refill.
CookSleepsWhileMeals ==
  cook = "cook45" => meals = 0 /\ \E s \in Savage : pc[s] = "wait26"

\* "If woken up they cook exactly M meals", savages.c:41: the number of meals only
\* grows from 0 to M, and otherwise falls by one.
PotSteps == meals' # meals => (meals = 0 /\ meals' = M) \/ meals' = meals - 1
PotChanges == [][PotSteps]_vars

\* Every savage eats again and again.
EverySavageEats == \A s \in Savage : []<>(pc[s] = "post30")
=============================================================================
