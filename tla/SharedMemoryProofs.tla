------------------------- MODULE SharedMemoryProofs -------------------------
(***************************************************************************)
(* Proofs about three programs whose processes are forked around one       *)
(* shared mapping, modules Savages (13/so21_lista_13/savages.c), Barrier   *)
(* (13/so21_lista_13/barrier.c) and ForkSort (7/so21_lista_7/forksort.c).  *)
(*                                                                         *)
(* Savages: for every set of savages and every size M of the pot.          *)
(*                                                                         *)
(* Barrier: for every size n of the barrier and at most n horses, the      *)
(* horses run their first lap together.                                    *)
(*                                                                         *)
(* ForkSort: for every length of the table, every table, every choice of   *)
(* pivots, every order in which the processes run and every fork that      *)
(* fails, the processes keep off each other's elements and main finds the  *)
(* table sorted, except inside a range whose fork has failed.              *)
(***************************************************************************)
EXTENDS Savages, Barrier, ForkSort, FiniteSetTheorems, WellFoundedInduction, TLAPS

USE SavagesAssumption

\* The state main() prepares (savages.c:57-60) satisfies the invariant.
LEMMA InitIInv == Init => IInv
BY DEF Init, IInv, TypeOK, OneInside, OneOrder, PotContents, SavageLabels, CookLabels, Inside

\* Every step of a savage or of the cook preserves the invariant.
LEMMA NextIInv == IInv /\ [Next]_vars => IInv'
<1> SUFFICES ASSUME IInv, [Next]_vars PROVE IInv'
  OBVIOUS
<1> USE DEF IInv, TypeOK, OneInside, OneOrder, PotContents, SavageLabels, CookLabels,
      Inside, Step
<1>1. CASE UNCHANGED vars
  BY <1>1 DEF vars
<1>2. ASSUME NEW s \in Savage, TakeMutex(s) PROVE IInv'
  BY <1>2 DEF TakeMutex
<1>3. ASSUME NEW s \in Savage, TestPot(s) PROVE IInv'
  BY <1>3 DEF TestPot
<1>4. ASSUME NEW s \in Savage, WakeCook(s) PROVE IInv'
  BY <1>4 DEF WakeCook
<1>5. ASSUME NEW s \in Savage, WaitFull(s) PROVE IInv'
  BY <1>5 DEF WaitFull
<1>6. ASSUME NEW s \in Savage, EatMeal(s) PROVE IInv'
  BY <1>6 DEF EatMeal
<1>7. ASSUME NEW s \in Savage, ReleaseMutex(s) PROVE IInv'
  BY <1>7 DEF ReleaseMutex
<1>8. ASSUME NEW s \in Savage, Digest(s) PROVE IInv'
  BY <1>8 DEF Digest
<1>9. CASE CookWait
  BY <1>9 DEF CookWait
<1>10. CASE CookMeals
  BY <1>10 DEF CookMeals
<1>11. CASE CookPost
  BY <1>11 DEF CookPost
<1> QED
  BY <1>1, <1>2, <1>3, <1>4, <1>5, <1>6, <1>7, <1>8, <1>9, <1>10, <1>11
  DEF Next, Cook, Eat

\* The inductive invariant, and with it the bounds of the pot and of the
\* semaphores, holds in every reachable state.
THEOREM SavagesInvariant == Spec => []IInv
BY InitIInv, NextIInv, PTL DEF Spec

\* No savage eats from an empty pot, and the pot never overflows.
THEOREM PotWithinBounds == Spec => []TypeOK
<1>1. IInv => TypeOK
  BY DEF IInv
<1> QED
  BY <1>1, SavagesInvariant, PTL

\* The cook works only on an empty pot, for a savage who waits (savages.c:40).
THEOREM CookOnlyWhenEmpty == Spec => []CookSleepsWhileMeals
<1>1. IInv => CookSleepsWhileMeals
  BY DEF IInv, TypeOK, OneOrder, PotContents, CookSleepsWhileMeals, CookLabels
<1> QED
  BY <1>1, SavagesInvariant, PTL

\* A refill is always of exactly M meals into an empty pot (savages.c:41).
THEOREM PotChangesProved == Spec => PotChanges
<1>1. IInv /\ [Next]_vars => [PotSteps]_vars
  <2> SUFFICES ASSUME IInv, Next, meals' # meals PROVE PotSteps
    BY DEF PotSteps
  <2>1. CASE CookMeals
    BY <2>1 DEF CookMeals, IInv, PotContents, PotSteps
  <2>2. ASSUME NEW s \in Savage, EatMeal(s) PROVE PotSteps
    BY <2>2 DEF EatMeal, PotSteps
  <2> QED
    BY <2>1, <2>2 DEF Next, Cook, Eat, CookWait, CookPost, TakeMutex, TestPot, WakeCook,
      WaitFull, ReleaseMutex, Digest
<1> QED
  BY <1>1, SavagesInvariant, PTL DEF Spec, PotChanges

-----------------------------------------------------------------------------
(***************************************************************************)
(* The barrier of barrier.c, for every n, any number of horses, of laps    *)
(* and of replacements.  Until n have arrived all horses are in front of   *)
(* the first turnstile, which is closed (Closed).  What follows depends on *)
(* how many horses there are.  When they are at most n the first lap goes  *)
(* through three stages (Gather, Pass, Meet), in each of which waiting is  *)
(* exactly the number of horses between two lines and the turnstiles are   *)
(* binary semaphores; after it (Open) the counter stays at n or above, so  *)
(* nobody closes a turnstile any more.                                     *)
(***************************************************************************)
HIDE SavagesAssumption
USE BarrierAssumption

Semaphore == {"mutex", "turnsnile", "turnsnile2"}

HorsesAt(L) == {h \in Horse : line[h] \in L}

\* The semaphore s is free, or exactly one horse is at one of the labels L.
Binary(s, L) ==
  /\ sem[s] \in 0 .. 1
  /\ \A g, h \in Horse : line[g] \in L /\ line[h] \in L => g = h
  /\ sem[s] = 1 <=> \A h \in Horse : line[h] \notin L

\* The labels with the mutex held, between two of its semaphore calls.
Locked ==
  {"inc35", "wait37", "post38", "post40", "dec46", "wait48", "post49", "post51", "inc58", "post59"}

\* The types of the variables, the mutex, and that a horse in the barrier has a lap to run.
BarrierBase ==
  /\ sem \in [Semaphore -> Nat]
  /\ waiting \in Int
  /\ line \in [Horse -> Labels]
  /\ lap \in [Horse -> Nat]
  /\ goal \in [Horse -> Laps]
  /\ forked \in Nat
  /\ Binary("mutex", Locked)
  /\ \A h \in Horse : lap[h] <= goal[h] /\ (line[h] \in {"rest", "done"} \/ lap[h] < goal[h])

NoLapYet == forked = 0 /\ \A h \in Horse : lap[h] = 0

\* From barrier.c:35 to barrier.c:46, and behind barrier.c:58.
Arrived == {"wait37", "post38", "post40", "wait42"}
CountedIn == {"post40", "wait42", "post43", "wait45", "dec46"}
CountedAgain == {"post59", "test60", "post61", "wait63", "post64"}

\* The horses gather in front of the first turnstile.
Gather ==
  /\ NoLapYet
  /\ \A h \in Horse : line[h] \in {"wait34", "inc35", "wait37", "post38", "post40", "wait42"}
  /\ waiting = Cardinality(HorsesAt(Arrived))
  /\ entered = waiting
  /\ sem["turnsnile"] = 0
  /\ Binary("turnsnile2", {"post38"})
  /\ \A g, h \in Horse : line[h] \in {"wait37", "post38"} => g = h \/ line[g] = "wait42"
  /\ \A h \in Horse : line[h] \in {"wait37", "post38"} => waiting = n

\* All have arrived, the first turnstile is open and the second one closed.
Pass ==
  /\ NoLapYet
  /\ entered = n
  /\ \A h \in Horse : line[h] \in CountedIn \cup {"wait48", "post49", "post51", "wait53"}
  /\ waiting = Cardinality(HorsesAt(CountedIn))
  /\ Binary("turnsnile", {"post43", "post49"})
  /\ sem["turnsnile2"] = 0
  /\ \A g, h \in Horse : line[h] \in {"wait48", "post49"} => g = h \/ line[g] = "wait53"

\* The first turnstile is closed again and the second one open; nobody has read at
\* barrier.c:60 that all are counted again.
Meet ==
  /\ NoLapYet
  /\ entered = n
  /\ \A h \in Horse :
       line[h] \in {"post51", "wait53", "post54", "wait57", "inc58", "post59", "test60", "wait63"}
  /\ waiting = Cardinality(HorsesAt(CountedAgain))
  /\ waiting < n
  /\ sem["turnsnile"] = 0
  /\ Binary("turnsnile2", {"post54"})

\* From then on the counter never falls below n and both turnstiles stay open.
Open ==
  /\ entered = n
  /\ \A h \in Horse : line[h] \notin {"wait37", "post38", "wait48", "post49"}
  /\ waiting >= n + Cardinality(HorsesAt(CountedIn))
  /\ Binary("turnsnile2", {"post54"})
  /\ forked = 0 => \A h \in Horse : lap[h] >= 1 \/ line[h] \in CountedAgain

Stages == Gather \/ Pass \/ Meet \/ Open
BarrierInv == BarrierBase /\ Stages

LEMMA HorseSets ==
  ASSUME NEW S \in SUBSET Horse
  PROVE  IsFiniteSet(S) /\ Cardinality(S) \in Nat /\ (Cardinality(S) = 0 <=> S = {})
BY FS_Subset, FS_CardinalityType, FS_EmptySet

\* How the number of horses at some labels changes when a horse goes on.
LEMMA MoveCounts ==
  ASSUME NEW h \in Horse, NEW from, NEW to, NEW L, line \in [Horse -> Labels], Goto(h, from, to)
  PROVE  /\ Cardinality(HorsesAt(L)) \in Nat /\ Cardinality(HorsesAt(L))' \in Nat
         /\ (from \in L <=> to \in L) => Cardinality(HorsesAt(L))' = Cardinality(HorsesAt(L))
         /\ from \notin L /\ to \in L => Cardinality(HorsesAt(L))' = Cardinality(HorsesAt(L)) + 1
         /\ from \in L /\ to \notin L => Cardinality(HorsesAt(L))' = Cardinality(HorsesAt(L)) - 1
<1>1. HorsesAt(L) \in SUBSET Horse /\ HorsesAt(L)' \in SUBSET Horse
  BY DEF HorsesAt
<1>2. /\ line[h] = from
      /\ \A g \in Horse : line'[g] = IF g = h THEN to ELSE line[g]
  BY DEF Goto
<1>3. ASSUME from \in L <=> to \in L PROVE HorsesAt(L)' = HorsesAt(L)
  BY <1>2, <1>3 DEF HorsesAt
<1>4. ASSUME from \notin L, to \in L PROVE h \notin HorsesAt(L) /\ HorsesAt(L)' = HorsesAt(L) \cup {h}
  BY <1>2, <1>4 DEF HorsesAt
<1>5. ASSUME from \in L, to \notin L PROVE h \in HorsesAt(L) /\ HorsesAt(L)' = HorsesAt(L) \ {h}
  BY <1>2, <1>5 DEF HorsesAt
<1>6. ASSUME from \notin L, to \in L PROVE Cardinality(HorsesAt(L)') = Cardinality(HorsesAt(L)) + 1
  BY <1>1, <1>4, <1>6, HorseSets, FS_AddElement
<1>7. ASSUME from \in L, to \notin L PROVE Cardinality(HorsesAt(L)') = Cardinality(HorsesAt(L)) - 1
  BY <1>1, <1>5, <1>7, HorseSets, FS_RemoveElement
<1> QED
  BY <1>1, <1>3, <1>6, <1>7, HorseSets

\* A horse that takes the semaphore s, gives it back, or does neither.
LEMMA BinaryTaken ==
  ASSUME NEW h \in Horse, NEW from, NEW to, NEW L, NEW s \in Semaphore,
         line \in [Horse -> Labels], sem \in [Semaphore -> Nat], Goto(h, from, to),
         Binary(s, L), sem[s] > 0, sem' = [sem EXCEPT ![s] = @ - 1], to \in L
  PROVE  Binary(s, L)'
<1>1. sem[s] = 1 /\ sem'[s] = 0
  BY DEF Binary
<1>2. \A g \in Horse : line[g] \notin L
  BY <1>1 DEF Binary
<1>3. \A g \in Horse : line'[g] = IF g = h THEN to ELSE line[g]
  BY DEF Goto
<1> QED
  BY <1>1, <1>2, <1>3 DEF Binary

LEMMA BinaryGiven ==
  ASSUME NEW h \in Horse, NEW from, NEW to, NEW L, NEW s \in Semaphore,
         line \in [Horse -> Labels], sem \in [Semaphore -> Nat], Goto(h, from, to),
         Binary(s, L), sem' = [sem EXCEPT ![s] = @ + 1], from \in L, to \notin L
  PROVE  Binary(s, L)'
<1>0. line[h] = from
  BY DEF Goto
<1>1. sem[s] = 0 /\ sem'[s] = 1
  BY <1>0 DEF Binary
<1>2. \A g \in Horse : line[g] \in L => g = h
  BY <1>0 DEF Binary
<1>3. \A g \in Horse : line'[g] = IF g = h THEN to ELSE line[g]
  BY DEF Goto
<1> QED
  BY <1>1, <1>2, <1>3 DEF Binary

LEMMA BinaryKept ==
  ASSUME NEW h \in Horse, NEW from, NEW to, NEW L, NEW s \in Semaphore,
         line \in [Horse -> Labels], Goto(h, from, to),
         Binary(s, L), sem'[s] = sem[s], from \in L <=> to \in L
  PROVE  Binary(s, L)'
<1>0. line[h] = from
  BY DEF Goto
<1>3. \A g \in Horse : line'[g] = IF g = h THEN to ELSE line[g]
  BY DEF Goto
<1>4. \A g \in Horse : line'[g] \in L <=> line[g] \in L
  BY <1>0, <1>3
<1> QED
  BY <1>4 DEF Binary

LEMMA BarrierInitInv == BarrierInit => BarrierInv
<1> SUFFICES ASSUME BarrierInit PROVE BarrierInv
  OBVIOUS
<1>1. sem \in [Semaphore -> Nat] /\ sem["mutex"] = 1 /\ sem["turnsnile"] = 0 /\ sem["turnsnile2"] = 1
  BY DEF BarrierInit, Semaphore
<1>2. BarrierBase
  <2>0. goal \in [Horse -> Laps] /\ lap = [h \in Horse |-> 0] /\ line = [h \in Horse |-> "wait34"]
    BY DEF BarrierInit
  <2>1. \A h \in Horse : goal[h] \in Nat /\ goal[h] > 0 /\ lap[h] = 0 /\ line[h] = "wait34"
    <3> SUFFICES ASSUME NEW h \in Horse
                 PROVE  goal[h] \in Nat /\ goal[h] > 0 /\ lap[h] = 0 /\ line[h] = "wait34"
      OBVIOUS
    <3>1. goal[h] \in Laps
      BY <2>0
    <3>2. goal[h] \in Nat /\ goal[h] # 0
      BY <3>1
    <3> QED
      BY <2>0, <3>2
  <2>2. Binary("mutex", Locked)
    BY <1>1, <2>1 DEF Binary, Locked
  <2> QED
    BY <1>1, <2>1, <2>2 DEF BarrierInit, BarrierBase, Labels
<1>3. HorsesAt(Arrived) = {}
  BY DEF BarrierInit, HorsesAt, Arrived
<1>4. Gather
  BY <1>1, <1>3, FS_EmptySet DEF BarrierInit, Gather, NoLapYet, Binary
<1> QED
  BY <1>2, <1>4 DEF BarrierInv, Stages

-----------------------------------------------------------------------------
\* Every step preserves the types and the mutex.
LEMMA BaseKept ==
  ASSUME BarrierBase, NEW h \in Horse, Run(h)
  PROVE  BarrierBase'
<1> USE DEF BarrierBase
<1>t. "mutex" \in Semaphore /\ "turnsnile" \in Semaphore /\ "turnsnile2" \in Semaphore
  BY DEF Semaphore
<1>w. ASSUME NEW s \in Semaphore, NEW from \in Labels \ {"rest", "done"}, NEW to \in Labels \ {"rest", "done"},
             Wait(h, s, from, to),
             s = "mutex" => to \in Locked,
             s # "mutex" => (from \in Locked <=> to \in Locked)
      PROVE  BarrierBase'
  <2>1. Goto(h, from, to) /\ line[h] = from /\ sem[s] > 0 /\ sem' = [sem EXCEPT ![s] = @ - 1]
    BY <1>w DEF Wait, Goto
  <2>2. sem' \in [Semaphore -> Nat]
    BY <2>1
  <2>3. line' \in [Horse -> Labels] /\ \A g \in Horse : line'[g] = IF g = h THEN to ELSE line[g]
    BY <2>1 DEF Goto
  <2>4. Binary("mutex", Locked)'
    <3>1. CASE s = "mutex"
      BY <1>w, <2>1, <3>1, BinaryTaken
    <3>2. CASE s # "mutex"
      <4>1. sem'["mutex"] = sem["mutex"]
        BY <1>t, <2>1, <3>2
      <4> QED
        BY <1>t, <1>w, <2>1, <3>2, <4>1, BinaryKept
    <3> QED
      BY <3>1, <3>2
  <2> QED
    BY <1>w, <2>1, <2>2, <2>3, <2>4 DEF Wait
<1>p. ASSUME NEW s \in Semaphore, NEW from \in Labels \ {"rest", "done"}, NEW to \in Labels \ {"rest", "done"},
             Post(h, s, from, to),
             s = "mutex" => from \in Locked /\ to \notin Locked,
             s # "mutex" => (from \in Locked <=> to \in Locked)
      PROVE  BarrierBase'
  <2>1. Goto(h, from, to) /\ line[h] = from /\ sem' = [sem EXCEPT ![s] = @ + 1]
    BY <1>p DEF Post, Goto
  <2>2. sem' \in [Semaphore -> Nat]
    BY <2>1
  <2>3. line' \in [Horse -> Labels] /\ \A g \in Horse : line'[g] = IF g = h THEN to ELSE line[g]
    BY <2>1 DEF Goto
  <2>4. Binary("mutex", Locked)'
    <3>1. CASE s = "mutex"
      BY <1>p, <2>1, <3>1, BinaryGiven
    <3>2. CASE s # "mutex"
      <4>1. sem'["mutex"] = sem["mutex"]
        BY <1>t, <2>1, <3>2
      <4> QED
        BY <1>t, <1>p, <2>1, <3>2, <4>1, BinaryKept
    <3> QED
      BY <3>1, <3>2
  <2> QED
    BY <1>p, <2>1, <2>2, <2>3, <2>4 DEF Post
<1>c. ASSUME NEW from \in Labels \ {"rest", "done"}, NEW to \in Labels \ {"rest", "done"},
             Goto(h, from, to), from \in Locked <=> to \in Locked,
             waiting' \in Int, UNCHANGED <<sem, lap, goal, forked>>
      PROVE  BarrierBase'
  <2>1. line[h] = from
    BY <1>c DEF Goto
  <2>2. line' \in [Horse -> Labels] /\ \A g \in Horse : line'[g] = IF g = h THEN to ELSE line[g]
    BY <1>c DEF Goto
  <2>3. Binary("mutex", Locked)'
    BY <1>t, <1>c, BinaryKept
  <2> QED
    BY <1>c, <2>1, <2>2, <2>3
<1>1. CASE FirstTurnstile(h)
  <2>1. CASE Arrive(h)
    BY <1>c, <2>1 DEF Arrive, Labels, Locked
  <2> QED
    BY <1>t, <1>w, <1>p, <1>1, <2>1 DEF FirstTurnstile, Labels, Locked
<1>2. CASE SecondTurnstile(h)
  <2>1. CASE Depart(h)
    BY <1>c, <2>1 DEF Depart, Labels, Locked
  <2> QED
    BY <1>t, <1>w, <1>p, <1>2, <2>1 DEF SecondTurnstile, Labels, Locked
<1>3. CASE ThirdTurnstile(h)
  <2>1. CASE ArriveAgain(h)
    BY <1>c, <2>1 DEF ArriveAgain, Labels, Locked
  <2>2. CASE ReadCounter(h)
    BY <1>c, <2>2 DEF ReadCounter, Labels, Locked
  <2> QED
    BY <1>t, <1>w, <1>p, <1>3, <2>1, <2>2 DEF ThirdTurnstile, Labels, Locked
<1>4. CASE LeaveBarrier(h)
  <2>1. Goto(h, "post64", "rest") /\ line[h] = "post64" /\ sem' = [sem EXCEPT !["turnsnile"] = @ + 1]
    BY <1>4 DEF LeaveBarrier, Goto
  <2>2. sem' \in [Semaphore -> Nat] /\ sem'["mutex"] = sem["mutex"]
    BY <1>t, <2>1
  <2>3. line' \in [Horse -> Labels] /\ \A g \in Horse : line'[g] = IF g = h THEN "rest" ELSE line[g]
    BY <2>1 DEF Goto, Labels
  <2>4. Binary("mutex", Locked)'
    BY <1>t, <2>1, <2>2, BinaryKept DEF Locked
  <2>5. lap' = [lap EXCEPT ![h] = @ + 1] /\ UNCHANGED <<waiting, goal, forked>>
    BY <1>4 DEF LeaveBarrier
  <2>6. \A g \in Horse : goal[g] \in Nat
    OBVIOUS
  <2>7. lap[h] < goal[h]
    BY <2>1
  <2>8. lap' \in [Horse -> Nat] /\ \A g \in Horse : lap'[g] = IF g = h THEN lap[g] + 1 ELSE lap[g]
    BY <2>5
  <2>9. \A g \in Horse : lap'[g] <= goal[g] /\ (line'[g] \in {"rest", "done"} \/ lap'[g] < goal[g])
    BY <2>3, <2>6, <2>7, <2>8
  <2> QED
    BY <2>2, <2>3, <2>4, <2>5, <2>8, <2>9
<1>5. CASE NextLap(h)
  <2>1. PICK to \in {"wait34", "done"} : Goto(h, "rest", to) /\ (to = "wait34" => lap[h] < goal[h])
    BY <1>5 DEF NextLap
  <2>2. line' \in [Horse -> Labels] /\ \A g \in Horse : line'[g] = IF g = h THEN to ELSE line[g]
    BY <2>1 DEF Goto, Labels
  <2>3. Binary("mutex", Locked)'
    BY <1>t, <1>5, <2>1, BinaryKept DEF Locked, NextLap
  <2> QED
    BY <1>5, <2>1, <2>2, <2>3 DEF NextLap
<1>6. CASE Replace(h)
  <2>1. Goto(h, "done", "wait34") /\ UNCHANGED <<sem, waiting>> /\ forked' = forked + 1
    BY <1>6 DEF Replace
  <2>2. line' \in [Horse -> Labels] /\ \A g \in Horse : line'[g] = IF g = h THEN "wait34" ELSE line[g]
    BY <2>1 DEF Goto, Labels
  <2>3. Binary("mutex", Locked)'
    BY <1>t, <2>1, BinaryKept DEF Locked
  <2>4. PICK k \in Laps : goal' = [goal EXCEPT ![h] = k]
    BY <1>6 DEF Replace
  <2>5. lap' = [lap EXCEPT ![h] = 0]
    BY <1>6 DEF Replace
  <2>6. k \in Nat /\ 0 < k
    OBVIOUS
  <2>7. goal' \in [Horse -> Laps] /\ lap' \in [Horse -> Nat]
    BY <2>4, <2>5
  <2>8. \A g \in Horse : lap'[g] <= goal'[g] /\ (line'[g] \in {"rest", "done"} \/ lap'[g] < goal'[g])
    BY <2>2, <2>4, <2>5, <2>6
  <2> QED
    BY <2>1, <2>2, <2>3, <2>7, <2>8
<1> QED
  BY <1>1, <1>2, <1>3, <1>4, <1>5, <1>6 DEF Run, BarrierWait

-----------------------------------------------------------------------------
\* Where everyone is after a horse has gone on.
LEMMA Moved ==
  ASSUME NEW h \in Horse, NEW from, NEW to, line \in [Horse -> Labels], Goto(h, from, to)
  PROVE  line[h] = from /\ \A g \in Horse : line'[g] = IF g = h THEN to ELSE line[g]
BY DEF Goto

\* When one horse is missing and n - 1 are at the labels L, all the others are there.
LEMMA OneMissing ==
  ASSUME Cardinality(Horse) <= n, NEW L, NEW h \in Horse, line[h] \notin L,
         Cardinality(HorsesAt(L)) + 1 = n
  PROVE  \A g \in Horse : g = h \/ line[g] \in L
<1>1. HorsesAt(L) \in SUBSET (Horse \ {h})
  BY DEF HorsesAt
<1>2. IsFiniteSet(Horse \ {h}) /\ Cardinality(Horse \ {h}) = Cardinality(Horse) - 1
  BY FS_RemoveElement
<1>3. Cardinality(Horse) \in Nat /\ Cardinality(HorsesAt(L)) \in Nat
  BY <1>1, HorseSets
<1>4. Cardinality(HorsesAt(L)) <= Cardinality(Horse \ {h})
  BY <1>1, <1>2, FS_Subset
<1>5. Cardinality(Horse \ {h}) = Cardinality(HorsesAt(L))
  BY <1>2, <1>3, <1>4
<1>6. HorsesAt(L) = Horse \ {h}
  BY <1>1, <1>2, <1>5, FS_Subset
<1> QED
  BY <1>6 DEF HorsesAt

\* A step in front of the first turnstile; the last to arrive opens it.
LEMMA GatherStep ==
  ASSUME BarrierBase, Gather, Cardinality(Horse) <= n, NEW h \in Horse, Run(h)
  PROVE  Gather' \/ Pass'
<1>t. /\ "mutex" \in Semaphore /\ "turnsnile" \in Semaphore /\ "turnsnile2" \in Semaphore
      /\ sem \in [Semaphore -> Nat] /\ line \in [Horse -> Labels]
  BY DEF Semaphore, BarrierBase
<1>s. Cardinality(HorsesAt(Arrived)) \in Nat
  BY HorseSets DEF HorsesAt
<1>l. line[h] \in {"wait34", "inc35", "wait37", "post38", "post40", "wait42"}
  BY DEF Gather
<1>1. ASSUME NEW from, NEW to, Goto(h, from, to), <<from, to>> \in {<<"wait34", "inc35">>, <<"post40", "wait42">>},
             sem' = [sem EXCEPT !["mutex"] = sem'["mutex"]], UNCHANGED <<waiting, lap, goal, forked, entered>>
      PROVE  Gather'
  <2>0. from \in {"wait34", "post40"} /\ to \in {"inc35", "wait42"} /\ (from \in Arrived <=> to \in Arrived)
    BY <1>1 DEF Arrived
  <2>1. line[h] = from /\ \A g \in Horse : line'[g] = IF g = h THEN to ELSE line[g]
    BY <1>t, <1>1, Moved
  <2>2. sem'["turnsnile"] = sem["turnsnile"] /\ sem'["turnsnile2"] = sem["turnsnile2"]
    BY <1>t, <1>1
  <2>3. Binary("turnsnile2", {"post38"})'
    BY <1>t, <1>1, <2>0, <2>2, BinaryKept DEF Gather
  <2>4. Cardinality(HorsesAt(Arrived))' = Cardinality(HorsesAt(Arrived))
    BY <1>t, <1>1, <2>0, MoveCounts
  <2> QED
    BY <1>1, <2>0, <2>1, <2>2, <2>3, <2>4 DEF Gather, NoLapYet
<1>2. CASE Arrive(h)
  <2>1. PICK to \in {"wait37", "post40"} :
          Goto(h, "inc35", to) /\ (IF waiting + 1 = n THEN to = "wait37" ELSE to = "post40")
    BY <1>2 DEF Arrive
  <2>2. line[h] = "inc35" /\ \A g \in Horse : line'[g] = IF g = h THEN to ELSE line[g]
    BY <1>t, <2>1, Moved
  <2>3. Binary("turnsnile2", {"post38"})'
    BY <1>t, <1>2, <2>1, BinaryKept DEF Gather, Arrive
  <2>4. Cardinality(HorsesAt(Arrived))' = Cardinality(HorsesAt(Arrived)) + 1
    <3>1. "inc35" \notin Arrived /\ to \in Arrived
      BY DEF Arrived
    <3> QED
      BY <1>t, <2>1, <3>1, MoveCounts
  <2>5. waiting' = waiting + 1 /\ waiting = Cardinality(HorsesAt(Arrived)) /\ entered = waiting
    BY <1>2 DEF Arrive, Gather
  <2>6. \A g \in Horse : g # h => line[g] \notin {"wait37", "post38", "post40"}
    BY <2>2 DEF BarrierBase, Binary, Locked
  <2>7. waiting + 1 = n => \A g \in Horse : g = h \/ line[g] = "wait42"
    <3>1. line[h] \notin Arrived
      BY <2>2 DEF Arrived
    <3>2. waiting + 1 = n => \A g \in Horse : g = h \/ line[g] \in Arrived
      BY <2>5, <3>1, OneMissing
    <3> QED
      BY <2>6, <3>2 DEF Arrived
  <2>8. waiting < n
    <3>1. HorsesAt(Arrived) \in SUBSET (Horse \ {h})
      BY <2>2 DEF HorsesAt, Arrived
    <3>2. IsFiniteSet(Horse \ {h}) /\ Cardinality(Horse \ {h}) = Cardinality(Horse) - 1
      BY FS_RemoveElement
    <3>3. Cardinality(HorsesAt(Arrived)) <= Cardinality(Horse \ {h}) /\ Cardinality(Horse) \in Nat
      BY <3>1, <3>2, FS_Subset, HorseSets
    <3> QED
      BY <1>s, <2>5, <3>2, <3>3
  <2>9. entered' = waiting'
    BY <1>2, <1>s, <2>5, <2>8 DEF Arrive
  <2>10. \A g \in Horse : line'[g] \in {"wait34", "inc35", "wait37", "post38", "post40", "wait42"}
    BY <2>2 DEF Gather
  <2>11. /\ \A f, g \in Horse : line'[g] \in {"wait37", "post38"} => f = g \/ line'[f] = "wait42"
         /\ \A g \in Horse : line'[g] \in {"wait37", "post38"} => waiting' = n
    BY <1>s, <2>1, <2>2, <2>5, <2>6, <2>7
  <2>12. NoLapYet' /\ sem'["turnsnile"] = 0
    BY <1>2 DEF Arrive, Gather, NoLapYet
  <2>13. Gather'
    BY <2>3, <2>4, <2>5, <2>9, <2>10, <2>11, <2>12 DEF Gather
  <2> QED
    BY <2>13
<1>3. CASE Wait(h, "turnsnile2", "wait37", "post38")
  <2>1. Goto(h, "wait37", "post38") /\ sem["turnsnile2"] > 0
        /\ sem' = [sem EXCEPT !["turnsnile2"] = @ - 1] /\ UNCHANGED <<waiting, lap, goal, forked, entered>>
    BY <1>3 DEF Wait
  <2>2. line[h] = "wait37" /\ \A g \in Horse : line'[g] = IF g = h THEN "post38" ELSE line[g]
    BY <1>t, <2>1, Moved
  <2>3. Binary("turnsnile2", {"post38"})'
    BY <1>t, <2>1, BinaryTaken DEF Gather
  <2>4. Cardinality(HorsesAt(Arrived))' = Cardinality(HorsesAt(Arrived))
    <3>1. "wait37" \in Arrived /\ "post38" \in Arrived /\ "post40" \in Arrived
      BY DEF Arrived
    <3> QED
      BY <1>t, <2>1, <3>1, MoveCounts
  <2>5. sem'["turnsnile"] = sem["turnsnile"]
    BY <1>t, <2>1
  <2>6. Gather'
    BY <2>1, <2>2, <2>3, <2>4, <2>5 DEF Gather, NoLapYet
  <2> QED
    BY <2>6
<1>4. CASE Post(h, "turnsnile", "post38", "post40")
  <2>1. Goto(h, "post38", "post40")
        /\ sem' = [sem EXCEPT !["turnsnile"] = @ + 1] /\ UNCHANGED <<waiting, lap, goal, forked, entered>>
    BY <1>4 DEF Post
  <2>2. line[h] = "post38" /\ \A g \in Horse : line'[g] = IF g = h THEN "post40" ELSE line[g]
    BY <1>t, <2>1, Moved
  <2>3. \A g \in Horse : g = h \/ line[g] = "wait42"
    BY <2>2 DEF Gather
  <2>4. \A g \in Horse : line'[g] \in {"post40", "wait42"}
    BY <2>2, <2>3
  <2>5. sem'["turnsnile"] = 1 /\ sem'["turnsnile2"] = 0
    <3>1. sem["turnsnile2"] = 0 /\ sem["turnsnile"] = 0
      BY <2>2 DEF Gather, Binary
    <3> QED
      BY <1>t, <2>1, <3>1
  <2>6. Binary("turnsnile", {"post43", "post49"})'
    BY <2>4, <2>5 DEF Binary
  <2>7. Cardinality(HorsesAt(Arrived))' = Cardinality(HorsesAt(Arrived))
    <3>1. "wait37" \in Arrived /\ "post38" \in Arrived /\ "post40" \in Arrived
      BY DEF Arrived
    <3> QED
      BY <1>t, <2>1, <3>1, MoveCounts
  <2>8. HorsesAt(Arrived)' = HorsesAt(CountedIn)'
    BY <2>4 DEF HorsesAt, Arrived, CountedIn
  <2>9. waiting' = Cardinality(HorsesAt(CountedIn))' /\ waiting' = n /\ entered' = n
    BY <2>1, <2>2, <2>7, <2>8 DEF Gather
  <2>10. Pass'
    BY <2>1, <2>4, <2>5, <2>6, <2>9 DEF Gather, Pass, NoLapYet, CountedIn
  <2> QED
    BY <2>10
<1>5. CASE Wait(h, "turnsnile", "wait42", "post43")
  BY <1>5 DEF Wait, Gather
<1>6. ASSUME NEW s \in {"mutex"}, NEW from, NEW to, Wait(h, s, from, to) \/ Post(h, s, from, to)
      PROVE  /\ Goto(h, from, to)
             /\ sem' = [sem EXCEPT !["mutex"] = sem'["mutex"]]
             /\ UNCHANGED <<waiting, lap, goal, forked, entered>>
  BY <1>t, <1>6 DEF Wait, Post
<1>7. CASE Wait(h, "mutex", "wait34", "inc35") \/ Post(h, "mutex", "post40", "wait42")
  BY <1>1, <1>6, <1>7
<1> QED
  BY <1>l, <1>2, <1>3, <1>4, <1>5, <1>7
  DEF Run, BarrierWait, FirstTurnstile, SecondTurnstile, ThirdTurnstile, LeaveBarrier, NextLap, Replace,
      Depart, ArriveAgain, ReadCounter, Wait, Post, Goto

\* A step between the turnstiles; the last one through closes the first and opens the second.
LEMMA PassStep ==
  ASSUME BarrierBase, Pass, NEW h \in Horse, Run(h)
  PROVE  Pass' \/ Meet'
<1>t. /\ "mutex" \in Semaphore /\ "turnsnile" \in Semaphore /\ "turnsnile2" \in Semaphore
      /\ sem \in [Semaphore -> Nat] /\ line \in [Horse -> Labels]
  BY DEF Semaphore, BarrierBase
<1>s. Cardinality(HorsesAt(CountedIn)) \in Nat
  BY HorseSets DEF HorsesAt
<1>l. /\ line[h] \in {"post40", "wait42", "post43", "wait45", "dec46", "wait48", "post49", "post51", "wait53"}
      /\ "dec46" \in CountedIn /\ \A x \in {"wait48", "post49", "post51", "wait53"} : x \notin CountedIn
  BY DEF Pass, CountedIn
\* The steps on the mutex and on the first turnstile that leave the counter alone.
<1>1. ASSUME NEW from, NEW to, Goto(h, from, to),
             \/ from \in CountedIn /\ to \in CountedIn
             \/ <<from, to>> \in {<<"wait48", "post49">>, <<"post51", "wait53">>},
             sem'["turnsnile2"] = sem["turnsnile2"], Binary("turnsnile", {"post43", "post49"})',
             UNCHANGED <<waiting, lap, goal, forked, entered>>
      PROVE  Pass'
  <2>0. /\ from \in CountedIn <=> to \in CountedIn
        /\ to \in CountedIn \cup {"wait48", "post49", "post51", "wait53"}
        /\ to \in {"wait48", "post49"} => from = "wait48"
        /\ from = "wait53" => FALSE
    BY <1>1, <1>l DEF CountedIn
  <2>1. line[h] = from /\ \A g \in Horse : line'[g] = IF g = h THEN to ELSE line[g]
    BY <1>t, <1>1, Moved
  <2>2. Cardinality(HorsesAt(CountedIn))' = Cardinality(HorsesAt(CountedIn))
    BY <1>t, <1>1, <2>0, MoveCounts
  <2>3. \A f, g \in Horse : line'[g] \in {"wait48", "post49"} => f = g \/ line'[f] = "wait53"
    BY <2>0, <2>1 DEF Pass
  <2> QED
    BY <1>1, <2>0, <2>1, <2>2, <2>3 DEF Pass, NoLapYet
<1>2. ASSUME NEW from, NEW to, NEW s \in {"mutex", "turnsnile"}, Wait(h, s, from, to) \/ Post(h, s, from, to)
      PROVE  /\ Goto(h, from, to)
             /\ sem'["turnsnile2"] = sem["turnsnile2"] /\ (s = "mutex" => sem'["turnsnile"] = sem["turnsnile"])
             /\ UNCHANGED <<waiting, lap, goal, forked, entered>>
  BY <1>t, <1>2 DEF Wait, Post
<1>3. CASE Wait(h, "mutex", "wait45", "dec46") \/ Post(h, "mutex", "post40", "wait42")
           \/ Post(h, "mutex", "post51", "wait53")
  <2>1. PICK from, to : /\ Wait(h, "mutex", from, to) \/ Post(h, "mutex", from, to)
                        /\ <<from, to>> \in {<<"wait45", "dec46">>, <<"post40", "wait42">>, <<"post51", "wait53">>}
    BY <1>3
  <2>2. Goto(h, from, to) /\ sem'["turnsnile2"] = sem["turnsnile2"] /\ sem'["turnsnile"] = sem["turnsnile"]
        /\ UNCHANGED <<waiting, lap, goal, forked, entered>>
    BY <1>2, <2>1
  <2>3. from \notin {"post43", "post49"} /\ to \notin {"post43", "post49"}
    BY <2>1
  <2>4. Binary("turnsnile", {"post43", "post49"})'
    BY <1>t, <2>2, <2>3, BinaryKept DEF Pass
  <2>5. \/ from \in CountedIn /\ to \in CountedIn
        \/ <<from, to>> \in {<<"wait48", "post49">>, <<"post51", "wait53">>}
    BY <2>1 DEF CountedIn
  <2> QED
    BY <1>1, <2>2, <2>4, <2>5
<1>4. CASE Wait(h, "turnsnile", "wait42", "post43") \/ Wait(h, "turnsnile", "wait48", "post49")
  <2>1. PICK from, to : /\ Wait(h, "turnsnile", from, to)
                        /\ <<from, to>> \in {<<"wait42", "post43">>, <<"wait48", "post49">>}
    BY <1>4
  <2>2. Goto(h, from, to) /\ sem'["turnsnile2"] = sem["turnsnile2"]
        /\ UNCHANGED <<waiting, lap, goal, forked, entered>>
    BY <1>2, <2>1
  <2>3. to \in {"post43", "post49"} /\ sem["turnsnile"] > 0 /\ sem' = [sem EXCEPT !["turnsnile"] = @ - 1]
    BY <2>1 DEF Wait
  <2>4. Binary("turnsnile", {"post43", "post49"})'
    BY <1>t, <2>2, <2>3, BinaryTaken DEF Pass
  <2>5. \/ from \in CountedIn /\ to \in CountedIn
        \/ <<from, to>> \in {<<"wait48", "post49">>, <<"post51", "wait53">>}
    BY <2>1 DEF CountedIn
  <2> QED
    BY <1>1, <2>2, <2>4, <2>5
<1>5. CASE Post(h, "turnsnile", "post43", "wait45")
  <2>1. Goto(h, "post43", "wait45") /\ sem'["turnsnile2"] = sem["turnsnile2"]
        /\ UNCHANGED <<waiting, lap, goal, forked, entered>>
    BY <1>2, <1>5
  <2>2. sem' = [sem EXCEPT !["turnsnile"] = @ + 1]
    BY <1>5 DEF Post
  <2>3. Binary("turnsnile", {"post43", "post49"})'
    BY <1>t, <2>1, <2>2, BinaryGiven DEF Pass
  <2>4. "post43" \in CountedIn /\ "wait45" \in CountedIn
    BY DEF CountedIn
  <2> QED
    BY <1>1, <2>1, <2>3, <2>4
<1>6. CASE Depart(h)
  <2>1. PICK to \in {"wait48", "post51"} :
          Goto(h, "dec46", to) /\ (IF waiting - 1 = 0 THEN to = "wait48" ELSE to = "post51")
    BY <1>6 DEF Depart
  <2>2. line[h] = "dec46" /\ \A g \in Horse : line'[g] = IF g = h THEN to ELSE line[g]
    BY <1>t, <2>1, Moved
  <2>3. Binary("turnsnile", {"post43", "post49"})'
    BY <1>t, <1>6, <2>1, BinaryKept DEF Pass, Depart
  <2>4. Cardinality(HorsesAt(CountedIn))' = Cardinality(HorsesAt(CountedIn)) - 1
    BY <1>t, <1>l, <2>1, MoveCounts
  <2>5. waiting' = Cardinality(HorsesAt(CountedIn))'
    BY <1>6, <2>4 DEF Depart, Pass
  <2>6. \A g \in Horse : g # h => line[g] \notin {"wait48", "post49", "post51"}
    BY <2>2 DEF BarrierBase, Binary, Locked
  <2>7. to = "wait48" => \A g \in Horse : g = h \/ line[g] = "wait53"
    <3> SUFFICES ASSUME to = "wait48", NEW g \in Horse, g # h PROVE line[g] = "wait53"
      OBVIOUS
    <3>1. waiting' = 0
      BY <1>6, <2>1 DEF Depart
    <3>2. Cardinality(HorsesAt(CountedIn)') = 0 /\ HorsesAt(CountedIn)' \in SUBSET Horse
      BY <2>5, <3>1 DEF HorsesAt
    <3>3. HorsesAt(CountedIn)' = {}
      BY <3>2, HorseSets
    <3>4. line[g] \notin CountedIn
      BY <2>2, <3>3 DEF HorsesAt
    <3> QED
      BY <2>6, <3>4 DEF Pass
  <2>8. \A g \in Horse : line'[g] \in CountedIn \cup {"wait48", "post49", "post51", "wait53"}
    BY <2>2 DEF Pass
  <2>9. \A f, g \in Horse : line'[g] \in {"wait48", "post49"} => f = g \/ line'[f] = "wait53"
    BY <2>1, <2>2, <2>6, <2>7
  <2>10. NoLapYet' /\ entered' = n /\ sem'["turnsnile2"] = 0
    BY <1>6 DEF Depart, Pass, NoLapYet
  <2>11. Pass'
    BY <2>3, <2>5, <2>8, <2>9, <2>10 DEF Pass
  <2> QED
    BY <2>11
<1>7. CASE Post(h, "turnsnile2", "post49", "post51")
  <2>1. Goto(h, "post49", "post51")
        /\ sem' = [sem EXCEPT !["turnsnile2"] = @ + 1] /\ UNCHANGED <<waiting, lap, goal, forked, entered>>
    BY <1>7 DEF Post
  <2>2. line[h] = "post49" /\ \A g \in Horse : line'[g] = IF g = h THEN "post51" ELSE line[g]
    BY <1>t, <2>1, Moved
  <2>3. \A g \in Horse : g = h \/ line[g] = "wait53"
    BY <2>2 DEF Pass
  <2>4. \A g \in Horse : line'[g] \in {"post51", "wait53"}
    BY <2>2, <2>3
  <2>5. sem'["turnsnile"] = 0 /\ sem'["turnsnile2"] = 1
    <3>1. sem["turnsnile2"] = 0 /\ sem["turnsnile"] = 0
      BY <2>2 DEF Pass, Binary
    <3> QED
      BY <1>t, <2>1, <3>1
  <2>6. Binary("turnsnile2", {"post54"})'
    BY <2>4, <2>5 DEF Binary
  <2>7. HorsesAt(CountedIn) = {}
    BY <2>2, <2>3 DEF HorsesAt, CountedIn
  <2>8. HorsesAt(CountedAgain)' = {}
    BY <2>4 DEF HorsesAt, CountedAgain
  <2>9. waiting' = Cardinality(HorsesAt(CountedAgain))' /\ waiting' < n
    BY <2>1, <2>7, <2>8, FS_EmptySet DEF Pass
  <2>10. Meet'
    BY <2>1, <2>4, <2>5, <2>6, <2>9 DEF Pass, Meet, NoLapYet
  <2> QED
    BY <2>10
<1>8. CASE Wait(h, "turnsnile2", "wait53", "post54")
  BY <1>8 DEF Wait, Pass
<1> QED
  BY <1>l, <1>3, <1>4, <1>5, <1>6, <1>7, <1>8
  DEF Run, BarrierWait, FirstTurnstile, SecondTurnstile, ThirdTurnstile, LeaveBarrier, NextLap, Replace,
      Arrive, ArriveAgain, ReadCounter, Wait, Post, Goto

\* A step behind the second turnstile, up to the one that counts the last horse again.
LEMMA MeetStep ==
  ASSUME BarrierBase, Meet, Cardinality(Horse) <= n, NEW h \in Horse, Run(h)
  PROVE  Meet' \/ Open'
<1>t. /\ "mutex" \in Semaphore /\ "turnsnile" \in Semaphore /\ "turnsnile2" \in Semaphore
      /\ sem \in [Semaphore -> Nat] /\ line \in [Horse -> Labels]
  BY DEF Semaphore, BarrierBase
<1>s. Cardinality(HorsesAt(CountedAgain)) \in Nat
  BY HorseSets DEF HorsesAt
<1>l. line[h] \in {"post51", "wait53", "post54", "wait57", "inc58", "post59", "test60", "wait63"}
  BY DEF Meet
<1>1. ASSUME NEW from, NEW to, Goto(h, from, to), from \in CountedAgain <=> to \in CountedAgain,
             to \in {"wait53", "post54", "wait57", "inc58", "test60", "wait63"},
             sem'["turnsnile"] = sem["turnsnile"], Binary("turnsnile2", {"post54"})',
             UNCHANGED <<waiting, lap, goal, forked, entered>>
      PROVE  Meet'
  <2>1. line[h] = from /\ \A g \in Horse : line'[g] = IF g = h THEN to ELSE line[g]
    BY <1>t, <1>1, Moved
  <2>2. Cardinality(HorsesAt(CountedAgain))' = Cardinality(HorsesAt(CountedAgain))
    BY <1>t, <1>1, MoveCounts
  <2>3. \A g \in Horse :
          line'[g] \in {"post51", "wait53", "post54", "wait57", "inc58", "post59", "test60", "wait63"}
    BY <1>1, <2>1 DEF Meet
  <2> QED
    BY <1>1, <2>2, <2>3 DEF Meet, NoLapYet
<1>2. ASSUME NEW from, NEW to, NEW s \in {"mutex", "turnsnile2"}, Wait(h, s, from, to) \/ Post(h, s, from, to)
      PROVE  /\ Goto(h, from, to)
             /\ sem'["turnsnile"] = sem["turnsnile"] /\ (s = "mutex" => sem'["turnsnile2"] = sem["turnsnile2"])
             /\ UNCHANGED <<waiting, lap, goal, forked, entered>>
  BY <1>t, <1>2 DEF Wait, Post
<1>3. CASE Wait(h, "mutex", "wait57", "inc58") \/ Post(h, "mutex", "post51", "wait53")
           \/ Post(h, "mutex", "post59", "test60")
  <2>1. PICK from, to : /\ Wait(h, "mutex", from, to) \/ Post(h, "mutex", from, to)
                        /\ <<from, to>> \in {<<"wait57", "inc58">>, <<"post51", "wait53">>, <<"post59", "test60">>}
    BY <1>3
  <2>2. Goto(h, from, to) /\ sem'["turnsnile2"] = sem["turnsnile2"] /\ sem'["turnsnile"] = sem["turnsnile"]
        /\ UNCHANGED <<waiting, lap, goal, forked, entered>>
    BY <1>2, <2>1
  <2>3. from \notin {"post54"} /\ to \notin {"post54"}
    BY <2>1
  <2>4. Binary("turnsnile2", {"post54"})'
    BY <1>t, <2>2, <2>3, BinaryKept DEF Meet
  <2>5. /\ from \in CountedAgain <=> to \in CountedAgain
        /\ to \in {"wait53", "post54", "wait57", "inc58", "test60", "wait63"}
    BY <2>1 DEF CountedAgain
  <2> QED
    BY <1>1, <2>2, <2>4, <2>5
<1>4. CASE Wait(h, "turnsnile2", "wait53", "post54") \/ Post(h, "turnsnile2", "post54", "wait57")
  <2>1. PICK from, to : /\ Wait(h, "turnsnile2", from, to) \/ Post(h, "turnsnile2", from, to)
                        /\ <<from, to>> \in {<<"wait53", "post54">>, <<"post54", "wait57">>}
    BY <1>4
  <2>2. Goto(h, from, to) /\ sem'["turnsnile"] = sem["turnsnile"]
        /\ UNCHANGED <<waiting, lap, goal, forked, entered>>
    BY <1>2, <2>1
  <2>3. Binary("turnsnile2", {"post54"})'
    BY <1>t, <1>4, BinaryTaken, BinaryGiven DEF Meet, Wait, Post
  <2>4. /\ from \in CountedAgain <=> to \in CountedAgain
        /\ to \in {"wait53", "post54", "wait57", "inc58", "test60", "wait63"}
    BY <2>1 DEF CountedAgain
  <2> QED
    BY <1>1, <2>2, <2>3, <2>4
<1>5. CASE ReadCounter(h)
  <2>1. Goto(h, "test60", "wait63") /\ UNCHANGED <<sem, waiting, lap, goal, forked, entered>>
    BY <1>5, <1>s DEF ReadCounter, Meet
  <2>2. Binary("turnsnile2", {"post54"})'
    BY <1>t, <2>1, BinaryKept DEF Meet
  <2>3. "test60" \in CountedAgain /\ "wait63" \in CountedAgain
    BY DEF CountedAgain
  <2> QED
    BY <1>1, <2>1, <2>2, <2>3
<1>6. CASE ArriveAgain(h)
  <2>1. Goto(h, "inc58", "post59") /\ waiting' = waiting + 1 /\ UNCHANGED <<sem, lap, goal, forked, entered>>
    BY <1>6 DEF ArriveAgain
  <2>2. line[h] = "inc58" /\ \A g \in Horse : line'[g] = IF g = h THEN "post59" ELSE line[g]
    BY <1>t, <2>1, Moved
  <2>3. Binary("turnsnile2", {"post54"})'
    BY <1>t, <2>1, BinaryKept DEF Meet
  <2>4. "inc58" \notin CountedAgain /\ "post59" \in CountedAgain
    BY DEF CountedAgain
  <2>5. Cardinality(HorsesAt(CountedAgain))' = Cardinality(HorsesAt(CountedAgain)) + 1
    BY <1>t, <2>1, <2>4, MoveCounts
  <2>6. \A g \in Horse :
          line'[g] \in {"post51", "wait53", "post54", "wait57", "inc58", "post59", "test60", "wait63"}
    BY <2>2 DEF Meet
  <2>7. waiting' = Cardinality(HorsesAt(CountedAgain))' /\ waiting \in Nat /\ waiting < n
    BY <1>s, <2>1, <2>5 DEF Meet
  <2>8. CASE waiting + 1 < n
    <3>1. Meet'
      BY <2>1, <2>3, <2>6, <2>7, <2>8 DEF Meet, NoLapYet
    <3> QED
      BY <3>1
  <2>9. CASE waiting + 1 = n
    <3>1. Cardinality(HorsesAt(CountedAgain)) + 1 = n
      BY <2>9 DEF Meet
    <3>2. \A g \in Horse : g = h \/ line[g] \in CountedAgain
      BY <2>2, <2>4, <3>1, OneMissing
    <3>3. \A g \in Horse : line'[g] \in CountedAgain
      BY <2>2, <2>4, <3>2
    <3>4. HorsesAt(CountedIn)' = {}
      BY <3>3 DEF HorsesAt, CountedIn, CountedAgain
    <3>5. waiting' >= n + Cardinality(HorsesAt(CountedIn))'
      BY <2>1, <2>9, <3>4, FS_EmptySet
    <3>6. \A g \in Horse : line'[g] \notin {"wait37", "post38", "wait48", "post49"}
      BY <2>6
    <3>7. Open'
      BY <2>1, <2>3, <3>3, <3>5, <3>6 DEF Meet, Open
    <3> QED
      BY <3>7
  <2> QED
    BY <2>7, <2>8, <2>9
<1>7. CASE Wait(h, "turnsnile", "wait63", "post64")
  BY <1>7 DEF Wait, Meet
<1> QED
  BY <1>l, <1>3, <1>4, <1>5, <1>6, <1>7
  DEF Run, BarrierWait, FirstTurnstile, SecondTurnstile, ThirdTurnstile, LeaveBarrier, NextLap, Replace,
      Arrive, Depart, Wait, Post, Goto

\* Once open, the barrier stays open.
LEMMA OpenStep ==
  ASSUME BarrierBase, Open, NEW h \in Horse, Run(h)
  PROVE  Open'
<1>t. /\ "mutex" \in Semaphore /\ "turnsnile" \in Semaphore /\ "turnsnile2" \in Semaphore
      /\ sem \in [Semaphore -> Nat] /\ line \in [Horse -> Labels]
  BY DEF Semaphore, BarrierBase
<1>s. Cardinality(HorsesAt(CountedIn)) \in Nat /\ waiting \in Int
  BY HorseSets DEF HorsesAt, BarrierBase
<1>l. line[h] \notin {"wait37", "post38", "wait48", "post49"}
  BY DEF Open
<1>1. ASSUME NEW from, NEW to, Goto(h, from, to), to \notin {"wait37", "post38", "wait48", "post49"},
             entered' = entered, Binary("turnsnile2", {"post54"})',
             waiting' >= n + Cardinality(HorsesAt(CountedIn))',
             forked' = 0 => /\ forked = 0
                            /\ \A g \in Horse : lap'[g] = lap[g] \/ lap'[g] >= 1
                            /\ from \in CountedAgain => to \in CountedAgain \/ lap'[h] >= 1
      PROVE  Open'
  <2>1. line[h] = from /\ \A g \in Horse : line'[g] = IF g = h THEN to ELSE line[g]
    BY <1>t, <1>1, Moved
  <2>2. forked' = 0 => \A g \in Horse : lap'[g] >= 1 \/ line'[g] \in CountedAgain
    BY <1>1, <2>1 DEF Open
  <2> QED
    BY <1>1, <2>1, <2>2 DEF Open
<1>2. ASSUME NEW from, NEW to, Goto(h, from, to), waiting' = waiting,
             (from \in CountedIn) \/ (to \notin CountedIn)
      PROVE  waiting' >= n + Cardinality(HorsesAt(CountedIn))'
  <2>1. /\ Cardinality(HorsesAt(CountedIn))' \in Nat
        /\ \/ Cardinality(HorsesAt(CountedIn))' = Cardinality(HorsesAt(CountedIn))
           \/ Cardinality(HorsesAt(CountedIn))' = Cardinality(HorsesAt(CountedIn)) - 1
    <3>1. Cardinality(HorsesAt(CountedIn))' \in Nat
      BY <1>t, <1>2, MoveCounts
    <3>2. CASE from \in CountedIn <=> to \in CountedIn
      BY <1>t, <1>2, <3>1, <3>2, MoveCounts
    <3>3. CASE from \in CountedIn /\ to \notin CountedIn
      BY <1>t, <1>2, <3>1, <3>3, MoveCounts
    <3> QED
      BY <1>2, <3>2, <3>3
  <2> QED
    BY <1>2, <1>s, <2>1 DEF Open
\* The steps on the semaphores.
<1>3. ASSUME NEW s \in Semaphore, NEW from, NEW to, Wait(h, s, from, to) \/ Post(h, s, from, to),
             to \notin {"wait37", "post38", "wait48", "post49"},
             (from \in CountedIn) \/ (to \notin CountedIn), from \in CountedAgain => to \in CountedAgain,
             s = "turnsnile2" => (Wait(h, s, from, to) /\ to = "post54") \/ (Post(h, s, from, to) /\ from = "post54" /\ to # "post54"),
             s # "turnsnile2" => from # "post54" /\ to # "post54"
      PROVE  Open'
  <2>1. Goto(h, from, to) /\ UNCHANGED <<waiting, lap, goal, forked, entered>>
    BY <1>3 DEF Wait, Post
  <2>2. Binary("turnsnile2", {"post54"})'
    <3>1. CASE s = "turnsnile2" /\ Wait(h, s, from, to) /\ to = "post54"
      BY <1>t, <2>1, <3>1, BinaryTaken DEF Open, Wait
    <3>2. CASE s = "turnsnile2" /\ Post(h, s, from, to) /\ from = "post54" /\ to # "post54"
      BY <1>t, <2>1, <3>2, BinaryGiven DEF Open, Post
    <3>3. CASE s # "turnsnile2"
      <4>1. sem'["turnsnile2"] = sem["turnsnile2"]
        BY <1>t, <1>3, <3>3 DEF Wait, Post
      <4> QED
        BY <1>t, <1>3, <2>1, <3>3, <4>1, BinaryKept DEF Open
    <3> QED
      BY <1>3, <3>1, <3>2, <3>3
  <2>3. waiting' >= n + Cardinality(HorsesAt(CountedIn))'
    BY <1>2, <1>3, <2>1
  <2> QED
    BY <1>1, <1>3, <2>1, <2>2, <2>3
<1>4. CASE Arrive(h)
  <2>1. waiting + 1 # n
    BY <1>s DEF Open
  <2>2. Goto(h, "inc35", "post40") /\ waiting' = waiting + 1 /\ UNCHANGED <<sem, lap, goal, forked>>
    BY <1>4, <2>1 DEF Arrive
  <2>3. entered' = entered
    BY <1>4 DEF Arrive, Open
  <2>4. "inc35" \notin CountedIn /\ "post40" \in CountedIn
    BY DEF CountedIn
  <2>5. Cardinality(HorsesAt(CountedIn))' = Cardinality(HorsesAt(CountedIn)) + 1
    BY <1>t, <2>2, <2>4, MoveCounts
  <2>6. waiting' >= n + Cardinality(HorsesAt(CountedIn))'
    BY <1>s, <2>2, <2>5 DEF Open
  <2>7. Binary("turnsnile2", {"post54"})'
    BY <1>t, <2>2, BinaryKept DEF Open
  <2>8. "inc35" \notin CountedAgain
    BY DEF CountedAgain
  <2> QED
    BY <1>1, <2>2, <2>3, <2>6, <2>7, <2>8
<1>5. CASE Depart(h)
  <2>0. "dec46" \in CountedIn /\ "post51" \notin CountedIn /\ "wait48" \notin CountedIn
    BY DEF CountedIn
  <2>1. waiting - 1 # 0
    <3>1. Cardinality(HorsesAt(CountedIn)) # 0
      <4>1. h \in HorsesAt(CountedIn) /\ HorsesAt(CountedIn) \in SUBSET Horse
        BY <1>5, <2>0 DEF Depart, Goto, HorsesAt
      <4> QED
        BY <4>1, HorseSets
    <3> QED
      BY <1>s, <3>1 DEF Open
  <2>2. Goto(h, "dec46", "post51") /\ waiting' = waiting - 1 /\ UNCHANGED <<sem, lap, goal, forked, entered>>
    BY <1>5, <2>1 DEF Depart
  <2>5. Cardinality(HorsesAt(CountedIn))' = Cardinality(HorsesAt(CountedIn)) - 1
    BY <1>t, <2>0, <2>2, MoveCounts
  <2>6. waiting' >= n + Cardinality(HorsesAt(CountedIn))'
    BY <1>s, <2>2, <2>5 DEF Open
  <2>7. Binary("turnsnile2", {"post54"})'
    BY <1>t, <2>2, BinaryKept DEF Open
  <2>8. "dec46" \notin CountedAgain
    BY DEF CountedAgain
  <2> QED
    BY <1>1, <2>2, <2>6, <2>7, <2>8
<1>6. CASE ArriveAgain(h)
  <2>0. "inc58" \notin CountedIn /\ "post59" \notin CountedIn /\ "inc58" \notin CountedAgain
    BY DEF CountedIn, CountedAgain
  <2>2. Goto(h, "inc58", "post59") /\ waiting' = waiting + 1 /\ UNCHANGED <<sem, lap, goal, forked, entered>>
    BY <1>6 DEF ArriveAgain
  <2>5. Cardinality(HorsesAt(CountedIn))' = Cardinality(HorsesAt(CountedIn))
    BY <1>t, <2>0, <2>2, MoveCounts
  <2>6. waiting' >= n + Cardinality(HorsesAt(CountedIn))'
    BY <1>s, <2>2, <2>5 DEF Open
  <2>7. Binary("turnsnile2", {"post54"})'
    BY <1>t, <2>2, BinaryKept DEF Open
  <2> QED
    BY <1>1, <2>0, <2>2, <2>6, <2>7
\* The steps that touch neither a semaphore nor the counter.
<1>7. ASSUME NEW from, NEW to \in {"post61", "wait63", "wait34", "done"}, from \in {"test60", "rest", "done"},
             Goto(h, from, to), UNCHANGED <<sem, waiting, entered>>,
             \/ forked' # 0
             \/ UNCHANGED <<lap, forked>> /\ (from = "test60" => to \in {"post61", "wait63"})
      PROVE  Open'
  <2>0. to \notin CountedIn /\ (from \in CountedAgain <=> from = "test60") /\ from # "post54"
        /\ (to \in {"post61", "wait63"} => to \in CountedAgain)
    BY <1>7 DEF CountedIn, CountedAgain
  <2>6. waiting' >= n + Cardinality(HorsesAt(CountedIn))'
    BY <1>2, <1>7, <2>0
  <2>7. Binary("turnsnile2", {"post54"})'
    BY <1>t, <1>7, <2>0, BinaryKept DEF Open
  <2> QED
    BY <1>1, <1>7, <2>0, <2>6, <2>7
<1>8. CASE ReadCounter(h)
  BY <1>7, <1>8 DEF ReadCounter
<1>9. CASE NextLap(h)
  BY <1>7, <1>9 DEF NextLap
<1>10. CASE Replace(h)
  <2>1. forked' # 0
    BY <1>10 DEF Replace, BarrierBase
  <2> QED
    BY <1>7, <1>10, <2>1 DEF Replace
<1>11. CASE LeaveBarrier(h)
  <2>0. "post64" \notin CountedIn /\ "rest" \notin CountedIn
    BY DEF CountedIn
  <2>1. Goto(h, "post64", "rest") /\ sem' = [sem EXCEPT !["turnsnile"] = @ + 1]
        /\ lap' = [lap EXCEPT ![h] = @ + 1] /\ UNCHANGED <<waiting, goal, forked, entered>>
    BY <1>11 DEF LeaveBarrier
  <2>2. lap'[h] >= 1 /\ \A g \in Horse : lap'[g] = lap[g] \/ lap'[g] >= 1
    BY <2>1 DEF BarrierBase
  <2>3. sem'["turnsnile2"] = sem["turnsnile2"]
    BY <1>t, <2>1
  <2>4. Binary("turnsnile2", {"post54"})'
    BY <1>t, <2>1, <2>3, BinaryKept DEF Open
  <2>5. waiting' >= n + Cardinality(HorsesAt(CountedIn))'
    BY <1>2, <2>0, <2>1
  <2> QED
    BY <1>1, <2>1, <2>2, <2>4, <2>5
<1>12. CASE FirstTurnstile(h)
  BY <1>l, <1>t, <1>3, <1>4, <1>12 DEF FirstTurnstile, CountedIn, CountedAgain, Wait, Post, Goto
<1>13. CASE SecondTurnstile(h)
  <2>1. CASE Wait(h, "mutex", "wait45", "dec46")
    BY <1>t, <1>3, <2>1 DEF CountedIn, CountedAgain
  <2>2. CASE Wait(h, "turnsnile", "wait48", "post49") \/ Post(h, "turnsnile2", "post49", "post51")
    BY <1>l, <2>2 DEF Wait, Post, Goto
  <2>3. CASE Post(h, "mutex", "post51", "wait53")
    BY <1>t, <1>3, <2>3 DEF CountedIn, CountedAgain
  <2>4. CASE Wait(h, "turnsnile2", "wait53", "post54")
    BY <1>t, <1>3, <2>4 DEF CountedIn, CountedAgain
  <2>5. CASE Post(h, "turnsnile2", "post54", "wait57")
    BY <1>t, <1>3, <2>5 DEF CountedIn, CountedAgain
  <2> QED
    BY <1>5, <1>13, <2>1, <2>2, <2>3, <2>4, <2>5 DEF SecondTurnstile
<1>14. CASE ThirdTurnstile(h)
  BY <1>l, <1>t, <1>3, <1>6, <1>8, <1>14 DEF ThirdTurnstile, CountedIn, CountedAgain, Wait, Post, Goto
<1> QED
  BY <1>9, <1>10, <1>11, <1>12, <1>13, <1>14 DEF Run, BarrierWait

-----------------------------------------------------------------------------
\* Every step preserves the invariant.
LEMMA BarrierNextInv ==
  ASSUME Cardinality(Horse) <= n, BarrierInv, [BarrierNext]_barrierVars
  PROVE  BarrierInv'
<1>1. CASE UNCHANGED barrierVars
  <2>1. \A L : HorsesAt(L)' = HorsesAt(L)
    BY <1>1 DEF barrierVars, HorsesAt
  <2>2. \A s, L : Binary(s, L)' <=> Binary(s, L)
    BY <1>1 DEF barrierVars, Binary
  <2> QED
    BY <1>1, <2>1, <2>2
    DEF barrierVars, BarrierInv, BarrierBase, Stages, Gather, Pass, Meet, Open, NoLapYet
<1>2. ASSUME NEW h \in Horse, Run(h) PROVE BarrierInv'
  BY <1>2, BaseKept, GatherStep, PassStep, MeetStep, OpenStep DEF BarrierInv, Stages
<1> QED
  BY <1>1, <1>2 DEF BarrierNext

-----------------------------------------------------------------------------
\* With any number of horses: the labels in front of the first turnstile, and the ones
\* at which a horse is counted in waiting for sure.
Front == {"wait34", "inc35", "wait37", "post38", "post40", "wait42"}
CountedAll == CountedIn \cup {"wait37", "post38"}

\* Nobody has opened the first turnstile; waiting is n exactly from the moment when the
\* horse that is about to open it has the mutex.
Closed ==
  /\ \A h \in Horse : line[h] \in Front
  /\ sem["turnsnile"] = 0
  /\ waiting = Cardinality(HorsesAt(Arrived))
  /\ entered = waiting
  /\ waiting <= n
  /\ waiting = n <=> \E h \in Horse : line[h] \in {"wait37", "post38"}

CrowdInv ==
  /\ BarrierBase
  /\ waiting >= Cardinality(HorsesAt(CountedAll))
  /\ Closed \/ entered = n

\* Every step of a horse keeps the horses inside counted.
LEMMA CountedKept ==
  ASSUME BarrierBase, waiting >= Cardinality(HorsesAt(CountedAll)), NEW h \in Horse, Run(h)
  PROVE  waiting' >= Cardinality(HorsesAt(CountedAll))'
<1>t. line \in [Horse -> Labels] /\ waiting \in Int
  BY DEF BarrierBase
<1>s. Cardinality(HorsesAt(CountedAll)) \in Nat
  BY HorseSets DEF HorsesAt
<1>i. CountedAll = {"post40", "wait42", "post43", "wait45", "dec46", "wait37", "post38"}
  BY DEF CountedAll, CountedIn
<1>1. ASSUME NEW from, NEW to, Goto(h, from, to), waiting' = waiting, from \in CountedAll <=> to \in CountedAll
      PROVE  waiting' >= Cardinality(HorsesAt(CountedAll))'
  <2>1. Cardinality(HorsesAt(CountedAll))' = Cardinality(HorsesAt(CountedAll))
    BY <1>t, <1>1, MoveCounts
  <2> QED
    BY <1>1, <2>1
<1>2. CASE Arrive(h)
  <2>1. PICK to \in {"wait37", "post40"} : Goto(h, "inc35", to)
    BY <1>2 DEF Arrive
  <2>2. "inc35" \notin CountedAll /\ to \in CountedAll
    BY <1>i
  <2>3. Cardinality(HorsesAt(CountedAll))' = Cardinality(HorsesAt(CountedAll)) + 1
    BY <1>t, <2>1, <2>2, MoveCounts
  <2>4. waiting' = waiting + 1
    BY <1>2 DEF Arrive
  <2> QED
    BY <1>t, <1>s, <2>3, <2>4
<1>3. CASE Depart(h)
  <2>1. PICK to \in {"wait48", "post51"} : Goto(h, "dec46", to)
    BY <1>3 DEF Depart
  <2>2. "dec46" \in CountedAll /\ to \notin CountedAll
    BY <1>i
  <2>3. Cardinality(HorsesAt(CountedAll))' = Cardinality(HorsesAt(CountedAll)) - 1
    BY <1>t, <2>1, <2>2, MoveCounts
  <2>4. waiting' = waiting - 1
    BY <1>3 DEF Depart
  <2> QED
    BY <1>t, <1>s, <2>3, <2>4
<1>4. CASE ArriveAgain(h)
  <2>1. Goto(h, "inc58", "post59") /\ waiting' = waiting + 1
    BY <1>4 DEF ArriveAgain
  <2>2. "inc58" \notin CountedAll /\ "post59" \notin CountedAll
    BY <1>i
  <2>3. Cardinality(HorsesAt(CountedAll))' = Cardinality(HorsesAt(CountedAll))
    BY <1>t, <2>1, <2>2, MoveCounts
  <2> QED
    BY <1>t, <1>s, <2>1, <2>3
<1>5. ASSUME NEW s, NEW from, NEW to, Wait(h, s, from, to) \/ Post(h, s, from, to),
             from \in CountedAll <=> to \in CountedAll
      PROVE  waiting' >= Cardinality(HorsesAt(CountedAll))'
  BY <1>1, <1>5 DEF Wait, Post
<1>6. CASE FirstTurnstile(h)
  BY <1>i, <1>2, <1>5, <1>6 DEF FirstTurnstile
<1>7. CASE SecondTurnstile(h)
  BY <1>i, <1>3, <1>5, <1>7 DEF SecondTurnstile
<1>8. CASE ThirdTurnstile(h)
  <2>1. CASE ReadCounter(h)
    <3>1. PICK to \in {"post61", "wait63"} : Goto(h, "test60", to)
      BY <2>1 DEF ReadCounter
    <3> QED
      BY <1>i, <1>1, <2>1, <3>1 DEF ReadCounter
  <2> QED
    BY <1>i, <1>4, <1>5, <1>8, <2>1 DEF ThirdTurnstile
<1>9. CASE LeaveBarrier(h)
  BY <1>i, <1>1, <1>9 DEF LeaveBarrier
<1>10. CASE NextLap(h)
  <2>1. PICK to \in {"wait34", "done"} : Goto(h, "rest", to)
    BY <1>10 DEF NextLap
  <2> QED
    BY <1>i, <1>1, <1>10, <2>1 DEF NextLap
<1>11. CASE Replace(h)
  BY <1>i, <1>1, <1>11 DEF Replace
<1> QED
  BY <1>6, <1>7, <1>8, <1>9, <1>10, <1>11 DEF Run, BarrierWait

\* The first turnstile stays closed until the last of n has arrived.
LEMMA ClosedStep ==
  ASSUME BarrierBase, Closed, NEW h \in Horse, Run(h)
  PROVE  Closed' \/ entered' = n
<1>t. /\ "mutex" \in Semaphore /\ "turnsnile" \in Semaphore /\ "turnsnile2" \in Semaphore
      /\ sem \in [Semaphore -> Nat] /\ line \in [Horse -> Labels]
  BY DEF Semaphore, BarrierBase
<1>s. Cardinality(HorsesAt(Arrived)) \in Nat
  BY HorseSets DEF HorsesAt
<1>l. line[h] \in Front
  BY DEF Closed
\* The steps that neither count nor touch the first turnstile.
<1>1. ASSUME NEW from, NEW to, Goto(h, from, to), from \in Arrived <=> to \in Arrived, to \in Front,
             from \in {"wait37", "post38"} <=> to \in {"wait37", "post38"},
             sem'["turnsnile"] = sem["turnsnile"], UNCHANGED <<waiting, entered>>
      PROVE  Closed'
  <2>1. line[h] = from /\ \A g \in Horse : line'[g] = IF g = h THEN to ELSE line[g]
    BY <1>t, <1>1, Moved
  <2>2. Cardinality(HorsesAt(Arrived))' = Cardinality(HorsesAt(Arrived))
    BY <1>t, <1>1, MoveCounts
  <2>3. \A g \in Horse : line'[g] \in {"wait37", "post38"} <=> line[g] \in {"wait37", "post38"}
    BY <1>1, <2>1
  <2>4. \A g \in Horse : line'[g] \in Front
    BY <1>1, <2>1 DEF Closed
  <2> QED
    BY <1>1, <2>2, <2>3, <2>4 DEF Closed
<1>2. CASE Wait(h, "mutex", "wait34", "inc35") \/ Post(h, "mutex", "post40", "wait42")
           \/ Wait(h, "turnsnile2", "wait37", "post38")
  <2>1. PICK from, to : /\ Goto(h, from, to)
                        /\ <<from, to>> \in {<<"wait34", "inc35">>, <<"post40", "wait42">>, <<"wait37", "post38">>}
    BY <1>2 DEF Wait, Post
  <2>2. sem'["turnsnile"] = sem["turnsnile"] /\ UNCHANGED <<waiting, entered>>
    BY <1>t, <1>2 DEF Wait, Post
  <2>3. /\ from \in Arrived <=> to \in Arrived
        /\ to \in Front
        /\ from \in {"wait37", "post38"} <=> to \in {"wait37", "post38"}
    BY <2>1 DEF Arrived, Front
  <2> QED
    BY <1>1, <2>1, <2>2, <2>3
<1>3. CASE Arrive(h)
  <2>1. PICK to \in {"wait37", "post40"} :
          Goto(h, "inc35", to) /\ (IF waiting + 1 = n THEN to = "wait37" ELSE to = "post40")
    BY <1>3 DEF Arrive
  <2>2. line[h] = "inc35" /\ \A g \in Horse : line'[g] = IF g = h THEN to ELSE line[g]
    BY <1>t, <2>1, Moved
  <2>3. \A g \in Horse : line[g] \notin {"wait37", "post38"}
    BY <2>2 DEF BarrierBase, Binary, Locked
  <2>4. waiting \in Nat /\ waiting < n /\ entered = waiting
    BY <1>s, <2>3 DEF Closed
  <2>5. Cardinality(HorsesAt(Arrived))' = Cardinality(HorsesAt(Arrived)) + 1
    <3>1. "inc35" \notin Arrived /\ to \in Arrived
      BY DEF Arrived
    <3> QED
      BY <1>t, <2>1, <3>1, MoveCounts
  <2>6. waiting' = waiting + 1 /\ entered' = waiting + 1 /\ sem' = sem
    BY <1>3, <2>4 DEF Arrive
  <2>7. \A g \in Horse : line'[g] \in Front
    BY <2>2 DEF Closed, Front
  <2>8. waiting' = n <=> \E g \in Horse : line'[g] \in {"wait37", "post38"}
    BY <2>1, <2>2, <2>3, <2>6
  <2>9. waiting' = Cardinality(HorsesAt(Arrived))' /\ waiting' <= n
    BY <2>4, <2>5, <2>6 DEF Closed
  <2>10. Closed'
    BY <2>6, <2>7, <2>8, <2>9 DEF Closed
  <2> QED
    BY <2>10
<1>4. CASE Post(h, "turnsnile", "post38", "post40")
  BY <1>4 DEF Post, Goto, Closed
<1>5. CASE Wait(h, "turnsnile", "wait42", "post43")
  BY <1>5 DEF Wait, Closed
<1> QED
  BY <1>l, <1>2, <1>3, <1>4, <1>5
  DEF Run, BarrierWait, FirstTurnstile, SecondTurnstile, ThirdTurnstile, LeaveBarrier, NextLap, Replace,
      Depart, ArriveAgain, ReadCounter, Wait, Post, Goto, Front

LEMMA CrowdNextInv ==
  ASSUME CrowdInv, [BarrierNext]_barrierVars
  PROVE  CrowdInv'
<1>1. CASE UNCHANGED barrierVars
  <2>1. \A L : HorsesAt(L)' = HorsesAt(L)
    BY <1>1 DEF barrierVars, HorsesAt
  <2>2. \A s, L : Binary(s, L)' <=> Binary(s, L)
    BY <1>1 DEF barrierVars, Binary
  <2> QED
    BY <1>1, <2>1, <2>2 DEF barrierVars, CrowdInv, BarrierBase, Closed
<1>2. ASSUME NEW h \in Horse, Run(h) PROVE CrowdInv'
  <2>1. CASE entered = n
    <3>1. entered' = n
      BY <1>2, <2>1
      DEF Run, BarrierWait, FirstTurnstile, SecondTurnstile, ThirdTurnstile, LeaveBarrier, NextLap, Replace,
          Arrive, Depart, ArriveAgain, ReadCounter, Wait, Post
    <3> QED
      BY <1>2, <3>1, BaseKept, CountedKept DEF CrowdInv
  <2> QED
    BY <1>2, <2>1, BaseKept, CountedKept, ClosedStep DEF CrowdInv
<1> QED
  BY <1>1, <1>2 DEF BarrierNext

\* However many horses run through a barrier for n, none is through the first turnstile
\* (barrier.c:42) before n have arrived, the mutex is never posted twice and the counter
\* never falls below zero.  When they are at most n, none starts a second lap while
\* another is still inside the first two turnstiles, and the second turnstile is never
\* posted twice.  Both whatever the laps and the replacements, and although barrier.c:60
\* reads the counter without the mutex.
THEOREM BarrierFirstLap == BarrierSpec => []FirstLapTogether
<1> DEFINE Inv == CrowdInv /\ (Cardinality(Horse) <= n => BarrierInv)
<1>1. BarrierInit => Inv
  <2> SUFFICES ASSUME BarrierInit PROVE Inv
    OBVIOUS
  <2>1. BarrierInv
    BY BarrierInitInv
  <2>2. HorsesAt(Arrived) = {} /\ HorsesAt(CountedAll) = {}
    BY DEF BarrierInit, HorsesAt, Arrived, CountedAll, CountedIn
  <2>3. Closed
    BY <2>2, FS_EmptySet DEF BarrierInit, Closed, Front
  <2>4. waiting >= Cardinality(HorsesAt(CountedAll))
    BY <2>2, FS_EmptySet DEF BarrierInit
  <2> QED
    BY <2>1, <2>3, <2>4 DEF CrowdInv, BarrierInv
<1>2. Inv /\ [BarrierNext]_barrierVars => Inv'
  BY CrowdNextInv, BarrierNextInv
<1>3. Inv => FirstLapTogether
  <2> SUFFICES ASSUME Inv PROVE FirstLapTogether
    OBVIOUS
  <2>0. BarrierBase /\ Cardinality(HorsesAt(CountedAll)) \in Nat
    BY HorseSets DEF HorsesAt, CrowdInv
  <2>1. waiting \in Nat
    BY <2>0 DEF CrowdInv, BarrierBase
  <2>2. sem["mutex"] \in 0 .. 1 /\ sem["turnsnile"] \in Nat /\ sem["turnsnile2"] \in Nat
    BY <2>0 DEF BarrierBase, Binary, Semaphore
  <2>3. BarrierTypeOK
    BY <2>0, <2>1, <2>2 DEF BarrierTypeOK, BarrierBase
  <2>4. (\E h \in Horse : line[h] \in Through) => entered = n
    BY DEF CrowdInv, Closed, Front, Through
  <2>5. ASSUME Cardinality(Horse) <= n PROVE NobodyLapped /\ sem["turnsnile2"] <= 1
    <3>1. Stages
      BY <2>5 DEF BarrierInv
    <3>2. sem["turnsnile2"] <= 1
      BY <3>1 DEF Stages, Gather, Pass, Meet, Open, Binary
    <3>3. forked = 0 /\ (\E h \in Horse : lap[h] >= 1) =>
            \A h \in Horse : lap[h] >= 1 \/ line[h] \in CountedAgain
      BY <3>1 DEF Stages, Gather, Pass, Meet, Open, NoLapYet
    <3> QED
      BY <3>2, <3>3 DEF NobodyLapped, CountedAgain
  <2> QED
    BY <2>3, <2>4, <2>5 DEF FirstLapTogether
<1> HIDE DEF Inv
<1> QED
  BY <1>1, <1>2, <1>3, PTL DEF BarrierSpec

-----------------------------------------------------------------------------
(***************************************************************************)
(* The table of forksort.c is cut into pieces: the calls that some process *)
(* is in or has still to make.  The argument is that                       *)
(*   - no element is in two pieces, nor in a piece and a lost range;       *)
(*   - two elements that are in no common piece or lost range are in order;*)
(*   - a process waits as often as it has children, and a child sorts a    *)
(*     proper part of what its parent sorts,                               *)
(* so that when main goes on no process and no piece is left.              *)
(***************************************************************************)
HIDE BarrierAssumption
USE SortAssumption

\* The calls: a range is never empty.
Intervals == {r \in Index \X Index : r[1] <= r[2]}
SortLabels == {"none", "call", "body", "insert", "partition", "zombie", "gone", "check"}
\* The state of a call of QuickSort with its InsertionSort or Partition.
Calls == [left : Index, right : Index, i : Int, j : Int, pivot : Index, val : Int]
\* The process is in a call.
Busy == {"body", "insert", "partition"}

\* The types; the call a process is or was in has a range that is not empty.
SortTypeOK ==
  /\ table \in [Index -> Int]
  /\ at \in [Process -> SortLabels]
  /\ todo \in [Process -> Seq(Intervals)]
  /\ call \in [Process -> Calls]
  /\ \A p \in Process : call[p].left <= call[p].right
  /\ parent \in [Process -> Process]
  /\ lost \subseteq Ranges

\* Element x is in piece k of p: piece 0 is the call it is in, piece k > 0 the k-th it has to make.
Held(p, k, x) ==
  IF k = 0 THEN at[p] \in Busy /\ x \in call[p].left .. call[p].right
           ELSE k \in DOMAIN todo[p] /\ x \in Span(todo[p][k])

\* No element is in two pieces.
Disjoint ==
  \A p, q \in Process, k, l \in Nat, x \in Index : Held(p, k, x) /\ Held(q, l, x) => p = q /\ k = l

\* What a failed fork has left unsorted is in no piece.
LostApart == \A r \in lost, p \in Process, k \in Nat, x \in Index : x \in Span(r) => ~Held(p, k, x)

\* A range is forked once: no piece but the child itself covers the range of a forked child.
Fresh ==
  \A r \in Ranges, p \in Process, k \in Nat :
    at[r] # "none" /\ Held(p, k, r[1]) /\ Held(p, k, r[2]) => p = r /\ k = 0

\* A child has no piece outside the range it was forked for.
Within == \A p \in Ranges, k \in Nat, x \in Index : Held(p, k, x) => x \in Span(p)

\* A process that is not running has nothing to do.
Idle ==
  \A p \in Process : at[p] \in {"none", "zombie", "gone", "check"} => todo[p] = <<>> /\ waits[p] = 0

\* How the table is cut.
Pieces == Disjoint /\ LostApart /\ Fresh /\ Within

\* What the ranges of forksort.c:51 are.
LEMMA Bounds ==
  /\ Index \subseteq Nat /\ Ranges \subseteq Intervals /\ Main \notin Ranges /\ Main \in Process
  /\ Whole \in Intervals
  /\ \A r \in Intervals : r = <<r[1], r[2]>> /\ r[1] \in Index /\ r[2] \in Index /\ r[1] <= r[2]
  /\ \A r \in Ranges : r \in Process /\ r[1] < r[2]
BY DEF Index, Ranges, Intervals, Main, Whole, Process

\* A step that leaves every piece as it is.
LEMMA SamePieces ==
  ASSUME SortTypeOK, Pieces,
         \A p \in Process, k \in Nat, x \in Index : Held(p, k, x)' <=> Held(p, k, x),
         lost' = lost, \A r \in Ranges : at'[r] = "none" <=> at[r] = "none"
  PROVE  Pieces'
BY Bounds, SMTT(30) DEF Pieces, Disjoint, LostApart, Fresh, Within

\* A step that ends the call of p.
LEMMA DropPiece ==
  ASSUME SortTypeOK, Pieces, NEW p \in Process,
         \A q \in Process, k \in Nat, x \in Index :
            Held(q, k, x)' <=> ~(q = p /\ k = 0) /\ Held(q, k, x),
         lost' = lost, \A r \in Ranges : at'[r] = "none" <=> at[r] = "none"
  PROVE  Pieces'
BY Bounds, SMTT(30) DEF Pieces, Disjoint, LostApart, Fresh, Within

\* The first call of the list of p, and what is left of the list.
LEMMA HeadAndTail ==
  ASSUME SortTypeOK, NEW p \in Process, todo[p] # <<>>, at[p] = "call"
  PROVE  /\ Head(todo[p]) \in Intervals
         /\ Tail(todo[p]) \in Seq(Intervals)
         /\ \A x \in Index : x \in Span(Head(todo[p])) <=> Held(p, 1, x)
         /\ \A x \in Index : ~Held(p, 0, x)
         /\ \A k \in Nat \ {0}, x \in Index :
               k \in DOMAIN Tail(todo[p]) /\ x \in Span(Tail(todo[p])[k]) <=> Held(p, k + 1, x)
<1>1. todo[p] \in Seq(Intervals)
  BY DEF SortTypeOK
<1>2. Len(todo[p]) \in Nat \ {0} /\ DOMAIN todo[p] = 1 .. Len(todo[p])
  BY <1>1
<1>3. Head(todo[p]) = todo[p][1] /\ Tail(todo[p]) \in Seq(Intervals) /\ Head(todo[p]) \in Intervals
  BY <1>1, <1>2
<1>4. DOMAIN Tail(todo[p]) = 1 .. Len(todo[p]) - 1
      /\ \A k \in 1 .. Len(todo[p]) - 1 : Tail(todo[p])[k] = todo[p][k + 1]
  BY <1>1, <1>2
<1> QED
  BY <1>2, <1>3, <1>4 DEF Held, Busy

\* When the first call is taken off the list the others move up.
LEMMA ListMovesUp ==
  ASSUME SortTypeOK, NEW p \in Process, todo[p] # <<>>, at[p] = "call",
         todo' = [todo EXCEPT ![p] = Tail(@)], NEW k \in Nat, k > 0, NEW x \in Index
  PROVE  Held(p, k, x)' <=> Held(p, k + 1, x)
<1>1. todo'[p] = Tail(todo[p])
  BY DEF SortTypeOK
<1>2. Held(p, k, x)' <=> k \in DOMAIN Tail(todo[p]) /\ x \in Span(Tail(todo[p])[k])
  BY <1>1, k # 0 DEF Held, Span
<1>3. \A l \in Nat \ {0}, y \in Index :
        l \in DOMAIN Tail(todo[p]) /\ y \in Span(Tail(todo[p])[l]) <=> Held(p, l + 1, y)
  BY HeadAndTail
<1>4. k \in Nat \ {0}
  OBVIOUS
<1>5. k \in DOMAIN Tail(todo[p]) /\ x \in Span(Tail(todo[p])[k]) <=> Held(p, k + 1, x)
  BY ONLY <1>3, <1>4, x \in Index
<1> QED
  BY <1>2, <1>5

\* The first call of a list, as a process that has not been forked yet when it is long.
LEMMA HeadIsFresh ==
  ASSUME SortTypeOK, Pieces, Idle, NEW p \in Process, todo[p] # <<>>, at[p] = "call",
         Head(todo[p])[2] - Head(todo[p])[1] > FORKSORT_MIN
  PROVE  /\ Head(todo[p]) \in Ranges \ {p}
         /\ at[Head(todo[p])] = "none" /\ todo[Head(todo[p])] = <<>>
<1> DEFINE r == Head(todo[p])
<1>1. r \in Intervals /\ \A x \in Index : x \in Span(r) <=> Held(p, 1, x)
  BY HeadAndTail
<1>2. r[2] - r[1] > FORKSORT_MIN
  OBVIOUS
<1> HIDE DEF r
<1>3. r \in Ranges
  BY <1>1, <1>2 DEF Ranges, Intervals
<1>4. r[1] \in Index /\ r[2] \in Index /\ r[1] \in Span(r) /\ r[2] \in Span(r)
  BY <1>3, Bounds DEF Span
<1>5. at[r] = "none"
  BY <1>1, <1>3, <1>4 DEF Pieces, Fresh
<1> QED
  BY <1>3, <1>5, Bounds DEF r, Idle

-----------------------------------------------------------------------------
(* What each step does to the pieces. *)

\* fork() hands the first piece of the list to the child (forksort.c:51-56).
LEMMA ForkCallEffect ==
  ASSUME SortTypeOK, Pieces, Idle, NEW p \in Process, ForkCall(p)
  PROVE  LET r == Head(todo[p]) IN
         /\ SortTypeOK'
         /\ \A x \in Index : x \in Span(r) <=> Held(p, 1, x)
         /\ \A q \in Process, k \in Nat, x \in Index :
              Held(q, k, x)' <=> IF q = p THEN k > 0 /\ Held(p, k + 1, x)
                                 ELSE IF q = r /\ k = 0 THEN Held(p, 1, x) ELSE Held(q, k, x)
<1> DEFINE r == Head(todo[p])
<1>1. at[p] = "call" /\ todo[p] # <<>> /\ r[2] - r[1] > FORKSORT_MIN
  BY DEF ForkCall
<1>2. r \in Ranges \ {p} /\ at[r] = "none" /\ todo[r] = <<>>
  BY <1>1, HeadIsFresh
<1>3. Tail(todo[p]) \in Seq(Intervals) /\ \A x \in Index : x \in Span(r) <=> Held(p, 1, x)
  BY <1>1, HeadAndTail
<1>4. \A x \in Index : ~Held(p, 0, x)
  BY <1>1, HeadAndTail
<1>5. /\ at' = [at EXCEPT ![r] = "body"] /\ call' = [call EXCEPT ![r] = Enter(r)]
      /\ parent' = [parent EXCEPT ![r] = p] /\ todo' = [todo EXCEPT ![p] = Tail(@)]
      /\ UNCHANGED <<table, lost>>
  BY DEF ForkCall
<1> HIDE DEF r
<1>6. r \in Process /\ r[1] <= r[2] /\ r[1] \in Index /\ r[2] \in Index
  BY <1>2, Bounds
<1>7. Enter(r) \in Calls /\ Enter(r).left = r[1] /\ Enter(r).right = r[2]
  BY <1>6, Bounds DEF Enter, Calls
<1>8. SortTypeOK'
  BY <1>3, <1>5, <1>6, <1>7 DEF SortTypeOK, SortLabels
<1>9. ASSUME NEW q \in Process, NEW k \in Nat, NEW x \in Index
      PROVE  Held(q, k, x)' <=> IF q = p THEN k > 0 /\ Held(p, k + 1, x)
                                 ELSE IF q = r /\ k = 0 THEN Held(p, 1, x) ELSE Held(q, k, x)
  <2>1. CASE q = p /\ k = 0
    BY <1>1, <1>2, <1>5, <2>1 DEF Held, Busy, SortTypeOK
  <2>2. CASE q = p /\ k > 0
    BY <1>1, <1>5, <2>2, ListMovesUp
  <2>3. CASE q = r /\ k = 0
    <3>1. at'[r] = "body" /\ call'[r] = Enter(r)
      BY <1>5, <1>6 DEF SortTypeOK
    <3>2. Held(q, k, x)' <=> x \in Span(r)
      BY <1>7, <2>3, <3>1 DEF Held, Busy, Span
    <3> QED
      BY <1>2, <1>3, <2>3, <3>2
  <2>4. CASE q = r /\ k > 0
    <3>1. ~Held(q, k, x) /\ todo'[q] = todo[q]
      BY <1>2, <1>5, <1>6, <2>4 DEF Held, SortTypeOK
    <3> QED
      BY <1>2, <2>4, <3>1 DEF Held
  <2>5. CASE q # p /\ q # r
    BY <1>5, <2>5 DEF Held, SortTypeOK
  <2> QED
    BY <1>2, <2>1, <2>2, <2>3, <2>4, <2>5
<1> QED
  BY <1>3, <1>8, <1>9 DEF r

\* A fork() that fails drops the first piece of the list (forksort.c:55-56).
LEMMA ForkFailsEffect ==
  ASSUME SortTypeOK, Pieces, Idle, NEW p \in Process, ForkFails(p)
  PROVE  LET r == Head(todo[p]) IN
         /\ SortTypeOK'
         /\ \A x \in Index : x \in Span(r) <=> Held(p, 1, x)
         /\ \A q \in Process, k \in Nat, x \in Index :
              Held(q, k, x)' <=> IF q = p THEN k > 0 /\ Held(p, k + 1, x) ELSE Held(q, k, x)
<1> DEFINE r == Head(todo[p])
<1>1. at[p] = "call" /\ todo[p] # <<>> /\ r[2] - r[1] > FORKSORT_MIN
  BY DEF ForkFails
<1>2. r \in Ranges
  BY <1>1, HeadIsFresh
<1>3. Tail(todo[p]) \in Seq(Intervals) /\ \A x \in Index : x \in Span(r) <=> Held(p, 1, x)
  BY <1>1, HeadAndTail
<1>4. /\ lost' = lost \cup {r} /\ todo' = [todo EXCEPT ![p] = Tail(@)]
      /\ UNCHANGED <<table, at, call, waits, parent>>
  BY DEF ForkFails
<1> HIDE DEF r
<1>5. SortTypeOK'
  BY <1>2, <1>3, <1>4 DEF SortTypeOK
<1>6. ASSUME NEW q \in Process, NEW k \in Nat, NEW x \in Index
      PROVE  Held(q, k, x)' <=> IF q = p THEN k > 0 /\ Held(p, k + 1, x) ELSE Held(q, k, x)
  <2>1. CASE q = p /\ k = 0
    BY <1>1, <1>4, <2>1 DEF Held, Busy
  <2>2. CASE q = p /\ k > 0
    BY <1>1, <1>4, <2>2, ListMovesUp
  <2>3. CASE q # p
    BY <1>4, <2>3 DEF Held, SortTypeOK
  <2> QED
    BY <2>1, <2>2, <2>3
<1> QED
  BY <1>3, <1>5, <1>6 DEF r

\* A short call takes the first piece of the list (forksort.c:59).
LEMMA InlineCallEffect ==
  ASSUME SortTypeOK, NEW p \in Process, InlineCall(p)
  PROVE  /\ SortTypeOK'
         /\ \A q \in Process, k \in Nat, x \in Index :
              Held(q, k, x)' <=> IF q = p THEN Held(p, k + 1, x) ELSE Held(q, k, x)
<1> DEFINE r == Head(todo[p])
<1>1. at[p] = "call" /\ todo[p] # <<>>
  BY DEF InlineCall, Move
<1>2. /\ r \in Intervals /\ Tail(todo[p]) \in Seq(Intervals)
      /\ \A x \in Index : x \in Span(r) <=> Held(p, 1, x)
  BY <1>1, HeadAndTail
<1>3. /\ at' = [at EXCEPT ![p] = "body"] /\ call' = [call EXCEPT ![p] = Enter(r)]
      /\ todo' = [todo EXCEPT ![p] = Tail(@)]
      /\ UNCHANGED <<table, waits, parent, lost>>
  BY DEF InlineCall, Move
<1> HIDE DEF r
<1>4. Enter(r) \in Calls /\ Enter(r).left = r[1] /\ Enter(r).right = r[2] /\ r[1] <= r[2]
  BY <1>2, Bounds DEF Enter, Calls
<1>5. SortTypeOK'
  BY <1>2, <1>3, <1>4 DEF SortTypeOK, SortLabels
<1>6. ASSUME NEW q \in Process, NEW k \in Nat, NEW x \in Index
      PROVE  Held(q, k, x)' <=> IF q = p THEN Held(p, k + 1, x) ELSE Held(q, k, x)
  <2>1. CASE q = p /\ k = 0
    <3>1. at'[p] = "body" /\ call'[p] = Enter(r)
      BY <1>3 DEF SortTypeOK
    <3>2. Held(p, 0, x)' <=> x \in Span(r)
      BY <1>4, <3>1 DEF Held, Busy, Span
    <3> QED
      BY <1>2, <2>1, <3>2
  <2>2. CASE q = p /\ k > 0
    BY <1>1, <1>3, <2>2, ListMovesUp
  <2>3. CASE q # p
    BY <1>3, <2>3 DEF Held, SortTypeOK
  <2> QED
    BY <2>1, <2>2, <2>3
<1> QED
  BY <1>5, <1>6

\* New calls in front of a list.
LEMMA OneInFront ==
  ASSUME NEW s \in Seq(Intervals), NEW a \in Intervals
  PROVE  /\ <<a>> \o s \in Seq(Intervals) /\ DOMAIN (<<a>> \o s) = 1 .. Len(s) + 1
         /\ (<<a>> \o s)[1] = a /\ \A k \in 1 .. Len(s) : (<<a>> \o s)[k + 1] = s[k]
OBVIOUS

\* Two new calls in front of a list.
LEMMA TwoInFront ==
  ASSUME NEW s \in Seq(Intervals), NEW a \in Intervals, NEW b \in Intervals
  PROVE  /\ <<a, b>> \o s \in Seq(Intervals) /\ DOMAIN (<<a, b>> \o s) = 1 .. Len(s) + 2
         /\ (<<a, b>> \o s)[1] = a /\ (<<a, b>> \o s)[2] = b
         /\ \A k \in 1 .. Len(s) : (<<a, b>> \o s)[k + 2] = s[k]
OBVIOUS

\* The call becomes the piece without its first element (forksort.c:66-68, 73).
LEMMA SplitOneEffect ==
  ASSUME SortTypeOK, NEW p \in Process, Recurse(p), call[p].left = call[p].i,
         call[p].left < call[p].right
  PROVE  /\ SortTypeOK'
         /\ at[p] = "partition"
         /\ \A q \in Process, k \in Nat, x \in Index :
              Held(q, k, x)' <=>
                IF q # p THEN Held(q, k, x)
                ELSE \/ k = 1 /\ x \in call[p].left + 1 .. call[p].right
                     \/ k > 1 /\ Held(p, k - 1, x)
<1> DEFINE c == call[p]
           a == <<c.i + 1, c.right>>
<1>1. /\ at[p] = "partition" /\ at' = [at EXCEPT ![p] = "call"]
      /\ table' = SwapElem(table, c.left, c.pivot)
      /\ todo' = [todo EXCEPT ![p] = <<a>> \o @]
      /\ UNCHANGED <<call, waits, parent, lost>>
  BY DEF Recurse, Move
<1>2. c \in Calls /\ c.left \in Index /\ c.right \in Index /\ c.pivot \in Index
  BY DEF SortTypeOK, Calls
<1>3. a \in Intervals /\ a[1] = c.left + 1 /\ a[2] = c.right
  BY <1>2, SMTT(30) DEF Intervals, Index
<1>4. todo[p] \in Seq(Intervals) /\ todo'[p] = <<a>> \o todo[p] /\ at'[p] = "call"
  BY <1>1 DEF SortTypeOK
<1>5. DOMAIN todo[p] = 1 .. Len(todo[p]) /\ Len(todo[p]) \in Nat
  BY <1>4
<1> HIDE DEF a, c
<1>6. /\ todo'[p] \in Seq(Intervals) /\ DOMAIN todo'[p] = 1 .. Len(todo[p]) + 1
      /\ todo'[p][1] = a /\ \A k \in 1 .. Len(todo[p]) : todo'[p][k + 1] = todo[p][k]
  BY <1>3, <1>4, OneInFront
<1>7. SortTypeOK'
  <2>1. table' \in [Index -> Int]
    BY <1>1, <1>2 DEF SwapElem, SortTypeOK
  <2>2. todo' \in [Process -> Seq(Intervals)]
    BY <1>1, <1>4, <1>6 DEF SortTypeOK
  <2> QED
    BY <1>1, <2>1, <2>2 DEF SortTypeOK, SortLabels
<1>8. ASSUME NEW q \in Process, NEW k \in Nat, NEW x \in Index
      PROVE  Held(q, k, x)' <=>
                IF q # p THEN Held(q, k, x)
                ELSE \/ k = 1 /\ x \in c.left + 1 .. c.right
                     \/ k > 1 /\ Held(p, k - 1, x)
  <2>1. CASE q # p
    BY <1>1, <2>1 DEF Held, SortTypeOK
  <2>2. CASE q = p /\ k = 0
    BY <1>4, <2>2 DEF Held, Busy
  <2>3. CASE q = p /\ k = 1
    <3>1. Held(q, k, x)' <=> x \in Span(a)
      BY <1>5, <1>6, <2>3 DEF Held
    <3> QED
      BY <1>3, <2>3, <3>1 DEF Span
  <2>4. CASE q = p /\ k > 1
    <3>1. k - 1 \in Nat /\ k - 1 # 0 /\ k # 0
      BY <2>4
    <3>2. k \in DOMAIN todo'[p] <=> k - 1 \in DOMAIN todo[p]
      BY <1>5, <1>6, <2>4
    <3>3. k \in DOMAIN todo'[p] => todo'[p][k] = todo[p][k - 1]
      BY <1>5, <1>6, <2>4
    <3> QED
      BY <2>4, <3>1, <3>2, <3>3 DEF Held
  <2> QED
    BY <2>1, <2>2, <2>3, <2>4
<1> QED
  BY <1>1, <1>7, <1>8 DEF c

\* The call becomes the pieces before and after the split (forksort.c:69-73).
LEMMA SplitTwoEffect ==
  ASSUME SortTypeOK, NEW p \in Process, Recurse(p),
         call[p].left < call[p].i, call[p].i <= call[p].right
  PROVE  /\ SortTypeOK'
         /\ at[p] = "partition"
         /\ \A q \in Process, k \in Nat, x \in Index :
              Held(q, k, x)' <=>
                IF q # p THEN Held(q, k, x)
                ELSE \/ k = 1 /\ x \in call[p].left .. call[p].i - 1
                     \/ k = 2 /\ x \in call[p].i .. call[p].right
                     \/ k > 2 /\ Held(p, k - 2, x)
<1> DEFINE c == call[p]
           a == <<c.left, c.i - 1>>
           b == <<c.i, c.right>>
<1>0. c \in Calls /\ c.left \in Index /\ c.right \in Index /\ c.i \in Int
  BY DEF SortTypeOK, Calls
<1>1. /\ at[p] = "partition" /\ at' = [at EXCEPT ![p] = "call"]
      /\ todo' = [todo EXCEPT ![p] = <<a, b>> \o @]
      /\ UNCHANGED <<table, call, waits, parent, lost>>
  <2>1. call[p].left # call[p].i
    BY <1>0 DEF Index
  <2> QED
    BY <2>1 DEF Recurse, Move
<1>3. a \in Intervals /\ a[1] = c.left /\ a[2] = c.i - 1 /\ b \in Intervals /\ b[1] = c.i /\ b[2] = c.right
  BY <1>0, SMTT(30) DEF Intervals, Index
<1>4. todo[p] \in Seq(Intervals) /\ todo'[p] = <<a, b>> \o todo[p] /\ at'[p] = "call"
  BY <1>1 DEF SortTypeOK
<1>5. DOMAIN todo[p] = 1 .. Len(todo[p]) /\ Len(todo[p]) \in Nat
  BY <1>4
<1> HIDE DEF a, b, c
<1>6. /\ todo'[p] \in Seq(Intervals) /\ DOMAIN todo'[p] = 1 .. Len(todo[p]) + 2
      /\ todo'[p][1] = a /\ todo'[p][2] = b
      /\ \A k \in 1 .. Len(todo[p]) : todo'[p][k + 2] = todo[p][k]
  BY <1>3, <1>4, TwoInFront
<1>7. SortTypeOK'
  <2>2. todo' \in [Process -> Seq(Intervals)]
    BY <1>1, <1>4, <1>6 DEF SortTypeOK
  <2> QED
    BY <1>1, <2>2 DEF SortTypeOK, SortLabels
<1>8. ASSUME NEW q \in Process, NEW k \in Nat, NEW x \in Index
      PROVE  Held(q, k, x)' <=>
                IF q # p THEN Held(q, k, x)
                ELSE \/ k = 1 /\ x \in c.left .. c.i - 1
                     \/ k = 2 /\ x \in c.i .. c.right
                     \/ k > 2 /\ Held(p, k - 2, x)
  <2>1. CASE q # p
    BY <1>1, <2>1 DEF Held, SortTypeOK
  <2>2. CASE q = p /\ k = 0
    BY <1>4, <2>2 DEF Held, Busy
  <2>3. CASE q = p /\ k = 1
    <3>1. Held(q, k, x)' <=> x \in Span(a)
      BY <1>5, <1>6, <2>3 DEF Held
    <3> QED
      BY <1>3, <2>3, <3>1 DEF Span
  <2>4. CASE q = p /\ k = 2
    <3>1. Held(q, k, x)' <=> x \in Span(b)
      BY <1>5, <1>6, <2>4 DEF Held
    <3> QED
      BY <1>3, <2>4, <3>1 DEF Span
  <2>5. CASE q = p /\ k > 2
    <3>1. k - 2 \in Nat /\ k - 2 # 0 /\ k # 0
      BY <2>5
    <3>2. k \in DOMAIN todo'[p] <=> k - 2 \in DOMAIN todo[p]
      BY <1>5, <1>6, <2>5
    <3>3. k \in DOMAIN todo'[p] => todo'[p][k] = todo[p][k - 2]
      BY <1>5, <1>6, <2>5
    <3> QED
      BY <2>5, <3>1, <3>2, <3>3 DEF Held
  <2> QED
    BY <2>1, <2>2, <2>3, <2>4, <2>5
<1> QED
  BY <1>1, <1>7, <1>8 DEF c

-----------------------------------------------------------------------------
(* The pieces stay apart. *)

\* Handing a piece to a child keeps the pieces apart.
LEMMA ForkPieces ==
  ASSUME SortTypeOK, Pieces, NEW p \in Process, NEW r \in Ranges, r # p,
         \A x \in Index : x \in Span(r) <=> Held(p, 1, x),
         \A q \in Process, k \in Nat, x \in Index :
           Held(q, k, x)' <=> IF q = p THEN k > 0 /\ Held(p, k + 1, x)
                              ELSE IF q = r /\ k = 0 THEN Held(p, 1, x) ELSE Held(q, k, x),
         lost' = lost, \A s \in Ranges : at'[s] # "none" => at[s] # "none" \/ s = r
  PROVE  Pieces'
<1>1. r[1] \in Index /\ r[1] \in Span(r) /\ r \in Process
  BY Bounds DEF Span
<1>2. Disjoint'
  <2> SUFFICES ASSUME NEW q \in Process, NEW u \in Process, NEW k \in Nat, NEW l \in Nat,
                      NEW x \in Index, Held(q, k, x)', Held(u, l, x)'
               PROVE  q = u /\ k = l
    BY DEF Disjoint
  <2>1. \A q1, q2 \in Process, k1, k2 \in Nat :
          Held(q1, k1, x) /\ Held(q2, k2, x) => q1 = q2 /\ k1 = k2
    BY DEF Pieces, Disjoint
  <2>2. IF q = p THEN k > 0 /\ Held(p, k + 1, x)
                 ELSE IF q = r /\ k = 0 THEN Held(p, 1, x) ELSE Held(q, k, x)
    OBVIOUS
  <2>3. IF u = p THEN l > 0 /\ Held(p, l + 1, x)
                 ELSE IF u = r /\ l = 0 THEN Held(p, 1, x) ELSE Held(u, l, x)
    OBVIOUS
  <2> QED
    BY ONLY <2>1, <2>2, <2>3, k \in Nat, l \in Nat, p \in Process, q \in Process, u \in Process
<1>3. LostApart'
  <2> SUFFICES ASSUME NEW s \in lost', NEW q \in Process, NEW k \in Nat, NEW x \in Index,
                      x \in Span(s), Held(q, k, x)'
               PROVE  FALSE
    BY DEF LostApart
  <2>1. \A l \in Nat, u \in Process : ~Held(u, l, x)
    BY DEF Pieces, LostApart
  <2> QED
    BY <2>1
<1>4. Fresh'
  <2> SUFFICES ASSUME NEW s \in Ranges, NEW q \in Process, NEW k \in Nat, at'[s] # "none",
                      Held(q, k, s[1])', Held(q, k, s[2])'
               PROVE  q = s /\ k = 0
    BY DEF Fresh
  <2>0. s[1] \in Index /\ s[2] \in Index
    BY Bounds
  <2>1. CASE s = r
    <3>1. \A l \in Nat, u \in Process : Held(u, l, s[1]) => u = p /\ l = 1
      BY <1>1, <2>0, <2>1 DEF Pieces, Disjoint
    <3>2. IF q = p THEN k > 0 /\ Held(p, k + 1, s[1])
                   ELSE IF q = r /\ k = 0 THEN Held(p, 1, s[1]) ELSE Held(q, k, s[1])
      BY <2>0
    <3> QED
      BY ONLY <2>1, <3>1, <3>2, k \in Nat, p \in Process, q \in Process
  <2>2. CASE s # r
    <3>1. \A l \in Nat, u \in Process : Held(u, l, s[1]) /\ Held(u, l, s[2]) => u = s /\ l = 0
      BY <2>2 DEF Pieces, Fresh
    <3>2. CASE q = p
      BY <2>0, <3>1, <3>2
    <3>3. CASE q = r /\ k = 0
      BY <2>0, <3>1, <3>3
    <3>4. CASE q # p /\ ~(q = r /\ k = 0)
      BY <2>0, <3>1, <3>4
    <3> QED
      BY <3>2, <3>3, <3>4
  <2> QED
    BY <2>1, <2>2
<1>5. Within'
  <2> SUFFICES ASSUME NEW q \in Ranges, NEW k \in Nat, NEW x \in Index, Held(q, k, x)'
               PROVE  x \in Span(q)
    BY DEF Within
  <2>1. \A l \in Nat : Held(q, l, x) => x \in Span(q)
    BY DEF Pieces, Within
  <2>2. q \in Process
    BY Bounds
  <2>3. CASE q = p
    BY <2>1, <2>3
  <2>4. CASE q = r /\ k = 0
    <3>1. Held(p, 1, x)
      BY <2>2, <2>4
    <3> QED
      BY <2>4, <3>1
  <2>5. CASE q # p /\ ~(q = r /\ k = 0)
    BY <2>1, <2>2, <2>5
  <2> QED
    BY <2>3, <2>4, <2>5
<1> QED
  BY <1>2, <1>3, <1>4, <1>5 DEF Pieces

\* A step that takes the first piece off the list of p, for p itself or for nobody.
LEMMA ShiftPieces ==
  ASSUME SortTypeOK, Pieces, NEW p \in Process,
         \A q \in Process, k \in Nat, x \in Index :
           Held(q, k, x)' => IF q = p THEN Held(p, k + 1, x) ELSE Held(q, k, x),
         \A r \in lost', x \in Index :
           r \in lost \/ (x \in Span(r) => Held(p, 1, x) /\ ~Held(p, 0, x)'),
         \A r \in Ranges : at'[r] = "none" <=> at[r] = "none"
  PROVE  Pieces'
<1>1. Disjoint'
  BY DEF Pieces, Disjoint
<1>2. LostApart'
  <2> SUFFICES ASSUME NEW s \in lost', NEW q \in Process, NEW k \in Nat, NEW x \in Index,
                      x \in Span(s), Held(q, k, x)'
               PROVE  FALSE
    BY DEF LostApart
  <2>1. CASE s \in lost
    <3>1. \A l \in Nat, u \in Process : ~Held(u, l, x)
      BY <2>1 DEF Pieces, LostApart
    <3> QED
      BY <3>1
  <2>2. CASE s \notin lost
    <3>1. Held(p, 1, x) /\ ~(q = p /\ k = 0)
      BY <2>2
    <3>2. \A l \in Nat, u \in Process : Held(u, l, x) => u = p /\ l = 1
      BY <3>1 DEF Pieces, Disjoint
    <3> QED
      BY <3>1, <3>2
  <2> QED
    BY <2>1, <2>2
<1>3. Fresh'
  <2> SUFFICES ASSUME NEW s \in Ranges, NEW q \in Process, NEW k \in Nat, at'[s] # "none",
                      Held(q, k, s[1])', Held(q, k, s[2])'
               PROVE  q = s /\ k = 0
    BY DEF Fresh
  <2>0. s[1] \in Index /\ s[2] \in Index
    BY Bounds
  <2>1. \A l \in Nat, u \in Process : Held(u, l, s[1]) /\ Held(u, l, s[2]) => u = s /\ l = 0
    BY DEF Pieces, Fresh
  <2> QED
    BY <2>0, <2>1, SMTT(30)
<1>4. Within'
  <2> SUFFICES ASSUME NEW q \in Ranges, NEW k \in Nat, NEW x \in Index, Held(q, k, x)'
               PROVE  x \in Span(q)
    BY DEF Within
  <2>1. \A l \in Nat : Held(q, l, x) => x \in Span(q)
    BY DEF Pieces, Within
  <2> QED
    BY <2>1, Bounds
<1> QED
  BY <1>1, <1>2, <1>3, <1>4 DEF Pieces

\* The two halves, or what is left of the call without its least element.
LEMMA SplitPieces ==
  ASSUME SortTypeOK, Pieces, NEW p \in Process, at[p] \in Busy,
         NEW m \in Int, NEW add \in {1, 2},
         call[p].left < m, m <= call[p].right,
         \A q \in Process, k \in Nat, x \in Index :
           Held(q, k, x)' =>
             IF q # p THEN Held(q, k, x)
             ELSE \/ k = add /\ m <= x /\ x <= call[p].right
                  \/ add = 2 /\ k = 1 /\ call[p].left <= x /\ x < m
                  \/ k > add /\ Held(p, k - add, x),
         lost' = lost, \A s \in Ranges : at'[s] = "none" <=> at[s] = "none"
  PROVE  Pieces'
<1>0. /\ call[p].left \in Index /\ call[p].right \in Index
      /\ \A x \in Index : Held(p, 0, x) <=> call[p].left <= x /\ x <= call[p].right
  BY DEF SortTypeOK, Calls, Held, Index
<1>1. \A q \in Process, k \in Nat, x \in Index : Held(q, k, x)' =>
        Held(q, IF q # p THEN k ELSE IF k > add THEN k - add ELSE 0, x)
  BY <1>0, Bounds, SMTT(30) DEF Index
<1>2. Disjoint'
  <2> SUFFICES ASSUME NEW q \in Process, NEW u \in Process, NEW k \in Nat, NEW l \in Nat,
                      NEW x \in Index, Held(q, k, x)', Held(u, l, x)'
               PROVE  q = u /\ k = l
    BY DEF Disjoint
  <2>1. \A k1, k2 \in Nat : Held(q, k1, x) /\ Held(u, k2, x) => q = u /\ k1 = k2
    BY DEF Pieces, Disjoint
  <2>2. q = u
    BY <1>1, <2>1
  <2>3. CASE q # p
    BY <1>1, <2>1, <2>2, <2>3
  <2>4. CASE q = p
    <3>1. (IF k > add THEN k - add ELSE 0) = (IF l > add THEN l - add ELSE 0)
      BY <1>1, <2>1, <2>2, <2>4
    <3> QED
      BY <1>0, <2>2, <2>4, <3>1 DEF Index
  <2> QED
    BY <2>3, <2>4
<1>3. LostApart'
  <2> SUFFICES ASSUME NEW s \in lost', NEW q \in Process, NEW k \in Nat, NEW x \in Index,
                      x \in Span(s), Held(q, k, x)'
               PROVE  FALSE
    BY DEF LostApart
  <2>1. \A l \in Nat, u \in Process : ~Held(u, l, x)
    BY DEF Pieces, LostApart
  <2> QED
    BY <1>1, <2>1
<1>4. Fresh'
  <2> SUFFICES ASSUME NEW s \in Ranges, NEW q \in Process, NEW k \in Nat, at'[s] # "none",
                      Held(q, k, s[1])', Held(q, k, s[2])'
               PROVE  q = s /\ k = 0
    BY DEF Fresh
  <2>0. s[1] \in Index /\ s[2] \in Index
    BY Bounds
  <2>1. \A l \in Nat, u \in Process : Held(u, l, s[1]) /\ Held(u, l, s[2]) => u = s /\ l = 0
    BY DEF Pieces, Fresh
  <2>2. CASE q # p
    BY <2>0, <2>1, <2>2
  <2>3. CASE q = p
    <3>1. k <= add /\ p = s
      <4>1. PICK j \in Nat : j = IF k > add THEN k - add ELSE 0
        OBVIOUS
      <4>2. Held(p, j, s[1]) /\ Held(p, j, s[2])
        BY <1>1, <2>0, <2>3, <4>1
      <4>3. p = s /\ j = 0
        BY <2>1, <4>2
      <4> QED
        BY ONLY <4>1, <4>3, k \in Nat, add \in {1, 2}
    <3>2. \A x \in Index : Held(s, 0, x) => s[1] <= x /\ x <= s[2]
      BY DEF Pieces, Within, Span
    <3>3. Held(s, 0, s[1]) /\ Held(s, 0, s[2])
      BY <1>1, <2>0, <2>3, <3>1
    <3>4. call[p].left = s[1] /\ call[p].right = s[2]
      BY <1>0, <2>0, <3>1, <3>2, <3>3, SMTT(30) DEF Index
    <3> QED
      BY <2>0, <2>3, <3>1, <3>4 DEF Index
  <2> QED
    BY <2>2, <2>3
<1>5. Within'
  <2> SUFFICES ASSUME NEW q \in Ranges, NEW k \in Nat, NEW x \in Index, Held(q, k, x)'
               PROVE  x \in Span(q)
    BY DEF Within
  <2>1. \A l \in Nat : Held(q, l, x) => x \in Span(q)
    BY DEF Pieces, Within
  <2> QED
    BY <1>1, <2>1, Bounds
<1> QED
  BY <1>2, <1>3, <1>4, <1>5 DEF Pieces

-----------------------------------------------------------------------------
(* The table. *)

\* Two elements that nothing has put in order yet, or that nothing ever will.
Together(x, y) ==
  \/ \E r \in lost : x \in Span(r) /\ y \in Span(r)
  \/ \E p \in Process, k \in Nat : Held(p, k, x) /\ Held(p, k, y)

\* All other pairs of elements are in order.
SortedApart == \A x, y \in Index : x < y /\ ~Together(x, y) => table[x] <= table[y]

\* The loops.  InsertionSort: the elements before i are in order.  Partition: the elements
\* before i are less than the pivot, those after j are not; j has stopped at an element that is
\* not less, or has not moved; and while i has not moved the pivot is where it was.
LoopOK(p) ==
  /\ at[p] = "body" => call[p].i = call[p].left /\ call[p].j = call[p].right
  /\ at[p] = "insert" =>
       /\ call[p].left < call[p].i /\ call[p].i <= call[p].right + 1
       /\ \A x, y \in Index :
            call[p].left <= x /\ x < y /\ y < call[p].i => table[x] <= table[y]
  /\ at[p] = "partition" =>
       /\ call[p].left < call[p].right
       /\ call[p].left <= call[p].i /\ call[p].i <= call[p].j /\ call[p].j <= call[p].right
       /\ call[p].left <= call[p].pivot /\ call[p].pivot <= call[p].right
       /\ \A x \in Index : call[p].left <= x /\ x < call[p].i => table[x] < call[p].val
       /\ \A x \in Index : call[p].j < x /\ x <= call[p].right => table[x] >= call[p].val
       /\ \/ table[call[p].j] >= call[p].val
          \/ /\ call[p].j = call[p].right
             /\ \E x \in Index : call[p].left <= x /\ x <= call[p].right /\ table[x] >= call[p].val
       /\ call[p].i = call[p].left =>
            table[call[p].left] < call[p].val \/ table[call[p].pivot] = call[p].val

\* All the loops that are running.
Loops == \A p \in Process : LoopOK(p)

\* A set of natural numbers has a least element.
LEMMA LeastNat == ASSUME NEW S \in SUBSET Nat, S # {} PROVE \E x \in S : \A y \in S : x <= y
<1> DEFINE R == OpToRel(<, Nat)
<1>1. IsWellFoundedOn(R, Nat)
  BY NatLessThanWellFounded
<1>2. PICK x \in S : \A y \in S : ~(<<y, x>> \in R)
  <2> HIDE DEF R
  <2> QED
    BY <1>1, WFMin
<1>3. ASSUME NEW y \in S PROVE x <= y
  <2>1. <<y, x>> \notin R
    BY <1>2
  <2>2. ~(y < x)
    BY <2>1 DEF OpToRel
  <2> QED
    BY <2>2
<1> QED
  BY <1>2, <1>3

\* Where a loop that counts up stops (forksort.c:7, 30).
LEMMA FirstIs ==
  ASSUME NEW S \in SUBSET Nat, S # {}
  PROVE  FirstIn(S) \in S /\ \A k \in S : FirstIn(S) <= k
BY LeastNat DEF FirstIn

\* Where a loop that counts down stops (forksort.c:33).
LEMMA LastIs ==
  ASSUME NEW b \in Nat, NEW S \in SUBSET (0 .. b), S # {}
  PROVE  LastIn(S) \in S /\ \A k \in S : k <= LastIn(S)
<1> DEFINE T == {b - k : k \in S}
<1>1. T \in SUBSET Nat /\ T # {}
  OBVIOUS
<1>2. PICK x \in T : \A y \in T : x <= y
  <2> HIDE DEF T
  <2> QED
    BY <1>1, LeastNat
<1>3. PICK m \in S : x = b - m
  BY <1>2
<1>4. \A k \in S : k <= m
  <2> TAKE k \in S
  <2>1. b - k \in T
    OBVIOUS
  <2>2. b - m <= b - k
    BY <1>2, <1>3, <2>1
  <2> QED
    BY <2>2
<1> QED
  BY <1>4 DEF LastIn

\* A call is held as a whole.
LEMMA HeldCall ==
  ASSUME SortTypeOK, NEW p \in Process, at[p] \in Busy
  PROVE  /\ call[p].left \in Index /\ call[p].right \in Index /\ call[p].left <= call[p].right
         /\ \A x \in Index : Held(p, 0, x) <=> call[p].left <= x /\ x <= call[p].right
BY DEF SortTypeOK, Calls, Held, Index

\* The types of a call.
LEMMA CallTyped ==
  ASSUME SortTypeOK, NEW p \in Process
  PROVE  /\ call[p].left \in Index /\ call[p].right \in Index /\ call[p].pivot \in Index
         /\ call[p].i \in Int /\ call[p].j \in Int /\ call[p].val \in Int
         /\ call[p].left \in Int /\ call[p].right \in Int
<1>1. call[p] \in Calls
  BY DEF SortTypeOK
<1> QED
  BY <1>1 DEF Calls, Index

\* As long as the table is left alone it stays sorted outside the pieces.
LEMMA SortedKept ==
  ASSUME SortedApart, table' = table,
         \A x, y \in Index : x < y /\ Together(x, y) => Together(x, y)' \/ table[x] <= table[y]
  PROVE  SortedApart'
BY DEF SortedApart

\* Whatever p does to the elements of its call, it does not disturb the order with the
\* rest of the table.
LEMMA Permuted ==
  ASSUME SortTypeOK, Pieces, SortedApart, NEW p \in Process, at[p] \in Busy,
         \A x \in Index : ~Held(p, 0, x) => table'[x] = table[x],
         \A x \in Index : Held(p, 0, x) => \E z \in Index : Held(p, 0, z) /\ table'[x] = table[z],
         NEW x \in Index, NEW y \in Index, x < y, ~Together(x, y)
  PROVE  table'[x] <= table'[y]
<1>0. \A z \in Index : Held(p, 0, z) <=> call[p].left <= z /\ z <= call[p].right
  BY HeldCall
<1>1. /\ call[p].left \in Int /\ call[p].right \in Int
      /\ Index \subseteq Int
  BY HeldCall, Bounds DEF Index
<1>2. ASSUME NEW z \in Index, NEW w \in Index, Held(p, 0, z), ~Held(p, 0, w)
      PROVE  ~Together(z, w) /\ ~Together(w, z)
  <2>1. \A r \in lost : z \notin Span(r)
    BY <1>2 DEF Pieces, LostApart
  <2>2. \A q \in Process, k \in Nat : Held(q, k, z) => q = p /\ k = 0
    BY <1>2 DEF Pieces, Disjoint
  <2> QED
    BY <1>2, <2>1, <2>2 DEF Together
<1>3. CASE ~Held(p, 0, x) /\ ~Held(p, 0, y)
  BY <1>3 DEF SortedApart
<1>4. CASE Held(p, 0, x) /\ ~Held(p, 0, y)
  <2>1. PICK z \in Index : Held(p, 0, z) /\ table'[x] = table[z]
    BY <1>4
  <2>2. z < y
    <3>1. z \in Int /\ y \in Int /\ x \in Int
      BY <1>1
    <3>2. z <= call[p].right /\ call[p].left <= x /\ ~(call[p].left <= y /\ y <= call[p].right)
      BY <1>0, <1>4, <2>1
    <3> QED
      BY ONLY <1>1, <3>1, <3>2, x < y
  <2>3. ~Together(z, y)
    BY <1>2, <1>4, <2>1
  <2>4. table[z] <= table[y] /\ table'[y] = table[y]
    BY <1>4, <2>2, <2>3 DEF SortedApart
  <2> QED
    BY <2>1, <2>4
<1>5. CASE ~Held(p, 0, x) /\ Held(p, 0, y)
  <2>1. PICK z \in Index : Held(p, 0, z) /\ table'[y] = table[z]
    BY <1>5
  <2>2. x < z
    <3>1. z \in Int /\ y \in Int /\ x \in Int
      BY <1>1
    <3>2. call[p].left <= z /\ y <= call[p].right /\ ~(call[p].left <= x /\ x <= call[p].right)
      BY <1>0, <1>5, <2>1
    <3> QED
      BY ONLY <1>1, <3>1, <3>2, x < y
  <2>3. ~Together(x, z)
    BY <1>2, <1>5, <2>1
  <2>4. table[x] <= table[z] /\ table'[x] = table[x]
    BY <1>5, <2>2, <2>3 DEF SortedApart
  <2> QED
    BY <2>1, <2>4
<1>6. ~(Held(p, 0, x) /\ Held(p, 0, y))
  BY DEF Together
<1> QED
  BY <1>3, <1>4, <1>5, <1>6

\* What p does inside its call is not seen by the loops of other processes.
LEMMA OtherLoops ==
  ASSUME SortTypeOK, Pieces, Loops, NEW p \in Process, NEW q \in Process, q # p,
         \A x \in Index : ~Held(p, 0, x) => table'[x] = table[x],
         at'[q] = at[q], call'[q] = call[q]
  PROVE  LoopOK(q)'
<1>1. CASE at[q] \in Busy
  <2>1. ASSUME NEW x \in Index, call[q].left <= x, x <= call[q].right PROVE table'[x] = table[x]
    <3>1. Held(q, 0, x)
      BY <1>1, <2>1, HeldCall
    <3> QED
      BY <3>1 DEF Pieces, Disjoint
  <2>2. /\ call[q].left \in Index /\ call[q].right \in Index
        /\ call[q].i \in Int /\ call[q].j \in Int /\ call[q].pivot \in Index /\ Index \subseteq Int
    BY CallTyped, Bounds
  <2>3. CASE at[q] = "body"
    BY <2>3 DEF Loops, LoopOK
  <2>4. CASE at[q] = "insert"
    <3>1. /\ call[q].left < call[q].i /\ call[q].i <= call[q].right + 1
          /\ \A x, y \in Index :
               call[q].left <= x /\ x < y /\ y < call[q].i => table[x] <= table[y]
      BY <2>4 DEF Loops, LoopOK
    <3>2. \A x, y \in Index :
            call[q].left <= x /\ x < y /\ y < call[q].i => table'[x] <= table'[y]
      <4> SUFFICES ASSUME NEW x \in Index, NEW y \in Index, call[q].left <= x, x < y, y < call[q].i
                   PROVE  table'[x] <= table'[y]
        OBVIOUS
      <4>1. x \in Int /\ y \in Int /\ x <= call[q].right /\ call[q].left <= y /\ y <= call[q].right
        <5>1. x \in Int /\ y \in Int
          BY Bounds
        <5>2. call[q].i <= call[q].right + 1
          BY <3>1
        <5>3. call[q].left \in Int /\ call[q].right \in Int /\ call[q].i \in Int
          BY CallTyped
        <5> QED
          BY ONLY <5>1, <5>2, <5>3, call[q].left <= x, x < y, y < call[q].i
      <4>2. table'[x] = table[x] /\ table'[y] = table[y]
        BY <2>1, <4>1
      <4> QED
        BY <3>1, <4>2
    <3> QED
      BY <2>4, <3>1, <3>2 DEF LoopOK
  <2>5. CASE at[q] = "partition"
    <3>1. LoopOK(q)
      BY DEF Loops
    <3>2. /\ call[q].left < call[q].right
          /\ call[q].left <= call[q].i /\ call[q].i <= call[q].j /\ call[q].j <= call[q].right
          /\ call[q].left <= call[q].pivot /\ call[q].pivot <= call[q].right
      BY <2>5, <3>1 DEF LoopOK
    <3>3. call[q].j \in Index
      BY <2>2, <3>2 DEF Index
    <3>4. /\ table'[call[q].j] = table[call[q].j] /\ table'[call[q].left] = table[call[q].left]
          /\ table'[call[q].pivot] = table[call[q].pivot]
      BY <2>1, <2>2, <3>2, <3>3
    <3>5. \A x \in Index : call[q].left <= x /\ x < call[q].i => table'[x] < call[q].val
      <4> SUFFICES ASSUME NEW x \in Index, call[q].left <= x, x < call[q].i
                   PROVE  table'[x] < call[q].val
        OBVIOUS
      <4>1. x \in Int /\ x <= call[q].right
        BY <2>2, <3>2, Bounds, SMTT(30)
      <4> QED
        BY <2>1, <2>5, <3>1, <4>1 DEF LoopOK
    <3>6. \A x \in Index : call[q].j < x /\ x <= call[q].right => table'[x] >= call[q].val
      <4> SUFFICES ASSUME NEW x \in Index, call[q].j < x, x <= call[q].right
                   PROVE  table'[x] >= call[q].val
        OBVIOUS
      <4>1. x \in Int /\ call[q].left <= x
        BY <2>2, <3>2, Bounds, SMTT(30)
      <4> QED
        BY <2>1, <2>5, <3>1, <4>1 DEF LoopOK
    <3>7. \/ table'[call[q].j] >= call[q].val
          \/ /\ call[q].j = call[q].right
             /\ \E x \in Index : call[q].left <= x /\ x <= call[q].right /\ table'[x] >= call[q].val
      BY <2>1, <2>5, <3>1, <3>4 DEF LoopOK
    <3>8. call[q].i = call[q].left =>
            table'[call[q].left] < call[q].val \/ table'[call[q].pivot] = call[q].val
      BY <2>5, <3>1, <3>4 DEF LoopOK
    <3> QED
      BY <2>5, <3>2, <3>5, <3>6, <3>7, <3>8 DEF LoopOK
  <2> QED
    BY <1>1, <2>3, <2>4, <2>5 DEF Busy
<1>2. CASE at[q] \notin Busy
  BY <1>2 DEF LoopOK, Busy
<1> QED
  BY <1>1, <1>2

-----------------------------------------------------------------------------
(* The steps that leave the table alone. *)

\* What holds of the table.
TableInv == SortTypeOK /\ Pieces /\ SortedApart /\ Loops

\* A call that is left to a child (forksort.c:51-56).
LEMMA ForkCallInv ==
  ASSUME TableInv, Idle, NEW p \in Process, ForkCall(p)
  PROVE  TableInv'
<1> USE DEF TableInv
<1> DEFINE r == Head(todo[p])
<1>1. /\ SortTypeOK' /\ \A x \in Index : x \in Span(r) <=> Held(p, 1, x)
      /\ \A q \in Process, k \in Nat, x \in Index :
           Held(q, k, x)' <=> IF q = p THEN k > 0 /\ Held(p, k + 1, x)
                              ELSE IF q = r /\ k = 0 THEN Held(p, 1, x) ELSE Held(q, k, x)
  BY ForkCallEffect
<1>2. r \in Ranges \ {p} /\ at[p] = "call" /\ \A x \in Index : ~Held(p, 0, x)
  BY HeadIsFresh, HeadAndTail DEF ForkCall
<1>3. /\ at' = [at EXCEPT ![r] = "body"] /\ call' = [call EXCEPT ![r] = Enter(r)]
      /\ UNCHANGED <<table, lost>>
  BY DEF ForkCall
<1> HIDE DEF r
<1>4. r \in Process /\ \A s \in Ranges : at'[s] # "none" => at[s] # "none" \/ s = r
  BY <1>2, <1>3, Bounds DEF SortTypeOK
<1>5. Pieces'
  BY <1>1, <1>2, <1>3, <1>4, ForkPieces
<1>8. PICK child \in Process : child = r
  BY <1>4
<1>6. SortedApart'
  <2> SUFFICES ASSUME NEW x \in Index, NEW y \in Index, Together(x, y) PROVE Together(x, y)'
    BY <1>3, SortedKept
  <2>1. CASE \E s \in lost : x \in Span(s) /\ y \in Span(s)
    BY <1>3, <2>1 DEF Together
  <2>2. ASSUME NEW q \in Process, NEW k \in Nat, Held(q, k, x), Held(q, k, y)
        PROVE  Together(x, y)'
    <3>1. CASE q = p /\ k = 0
      BY <1>2, <2>2, <3>1
    <3>2. CASE q = p /\ k = 1
      <4>1. Held(child, 0, x)' /\ Held(child, 0, y)'
        BY <1>1, <1>2, <1>8, <2>2, <3>2
      <4> QED
        BY <4>1 DEF Together
    <3>3. CASE q = p /\ k > 1
      <4>1. k - 1 \in Nat /\ k - 1 > 0 /\ (k - 1) + 1 = k
        BY <3>3
      <4>2. Held(p, k - 1, x)' /\ Held(p, k - 1, y)'
        BY <1>1, <2>2, <3>3, <4>1
      <4> QED
        BY <4>1, <4>2 DEF Together
    <3>4. CASE q # p
      <4>1. CASE q = r /\ k = 0
        <5>1. FALSE
          <6>1. at[r] = "none"
            BY HeadIsFresh DEF ForkCall, r
          <6> QED
            BY <2>2, <4>1, <6>1 DEF Held, Busy
        <5> QED
          BY <5>1
      <4>2. CASE ~(q = r /\ k = 0)
        <5>1. Held(q, k, x)' /\ Held(q, k, y)'
          BY <1>1, <2>2, <3>4, <4>2
        <5> QED
          BY <5>1 DEF Together
      <4> QED
        BY <4>1, <4>2
    <3> QED
      BY <3>1, <3>2, <3>3, <3>4
  <2> QED
    BY <2>1, <2>2 DEF Together
<1>7. Loops'
  <2>1. LoopOK(child)'
    <3>1. at'[child] = "body" /\ call'[child] = Enter(child)
      BY <1>3, <1>8 DEF SortTypeOK
    <3> QED
      BY <3>1 DEF LoopOK, Enter
  <2>2. ASSUME NEW q \in Process, q # child PROVE LoopOK(q)'
    <3>1. at'[q] = at[q] /\ call'[q] = call[q]
      BY <1>3, <1>8, <2>2 DEF SortTypeOK
    <3> QED
      BY <1>3, <2>2, <3>1, OtherLoops
  <2> QED
    BY <2>1, <2>2 DEF Loops
<1> QED
  BY <1>1, <1>5, <1>6, <1>7

\* A fork that fails (forksort.c:55-56).
LEMMA ForkFailsInv ==
  ASSUME TableInv, Idle, NEW p \in Process, ForkFails(p)
  PROVE  TableInv'
<1> USE DEF TableInv
<1> DEFINE r == Head(todo[p])
<1>1. /\ SortTypeOK' /\ \A x \in Index : x \in Span(r) <=> Held(p, 1, x)
      /\ \A q \in Process, k \in Nat, x \in Index :
           Held(q, k, x)' <=> IF q = p THEN k > 0 /\ Held(p, k + 1, x) ELSE Held(q, k, x)
  BY ForkFailsEffect
<1>2. at[p] = "call" /\ \A x \in Index : ~Held(p, 0, x)
  BY HeadAndTail DEF ForkFails
<1>3. lost' = lost \cup {r} /\ UNCHANGED <<table, at, call>>
  BY DEF ForkFails
<1> HIDE DEF r
<1>4. Pieces'
  BY <1>1, <1>3, ShiftPieces
<1>5. SortedApart'
  <2> SUFFICES ASSUME NEW x \in Index, NEW y \in Index, Together(x, y) PROVE Together(x, y)'
    BY <1>3, SortedKept
  <2>1. CASE \E s \in lost : x \in Span(s) /\ y \in Span(s)
    BY <1>3, <2>1 DEF Together
  <2>2. ASSUME NEW q \in Process, NEW k \in Nat, Held(q, k, x), Held(q, k, y)
        PROVE  Together(x, y)'
    <3>1. CASE q = p /\ k = 0
      BY <1>2, <2>2, <3>1
    <3>2. CASE q = p /\ k = 1
      <4>1. x \in Span(r) /\ y \in Span(r) /\ r \in lost'
        BY <1>1, <1>3, <2>2, <3>2
      <4> QED
        BY <4>1 DEF Together
    <3>3. CASE q = p /\ k > 1
      <4>1. k - 1 \in Nat /\ k - 1 > 0 /\ (k - 1) + 1 = k
        BY <3>3
      <4>2. Held(p, k - 1, x)' /\ Held(p, k - 1, y)'
        BY <1>1, <2>2, <3>3, <4>1
      <4> QED
        BY <4>1, <4>2 DEF Together
    <3>4. CASE q # p
      <4>1. Held(q, k, x)' /\ Held(q, k, y)'
        BY <1>1, <2>2, <3>4
      <4> QED
        BY <4>1 DEF Together
    <3> QED
      BY <3>1, <3>2, <3>3, <3>4
  <2> QED
    BY <2>1, <2>2 DEF Together
<1>6. Loops'
  BY <1>3 DEF Loops, LoopOK
<1> QED
  BY <1>1, <1>4, <1>5, <1>6

\* A call the process makes itself (forksort.c:59).
LEMMA InlineCallInv ==
  ASSUME TableInv, NEW p \in Process, InlineCall(p)
  PROVE  TableInv'
<1> USE DEF TableInv
<1> DEFINE r == Head(todo[p])
<1>1. /\ SortTypeOK'
      /\ \A q \in Process, k \in Nat, x \in Index :
           Held(q, k, x)' <=> IF q = p THEN Held(p, k + 1, x) ELSE Held(q, k, x)
  BY InlineCallEffect
<1>2. at[p] = "call" /\ \A x \in Index : ~Held(p, 0, x)
  BY HeadAndTail DEF InlineCall, Move
<1>3. /\ at' = [at EXCEPT ![p] = "body"] /\ call' = [call EXCEPT ![p] = Enter(r)]
      /\ UNCHANGED <<table, lost>>
  BY DEF InlineCall, Move
<1> HIDE DEF r
<1>4. \A s \in Ranges : at'[s] = "none" <=> at[s] = "none"
  BY <1>2, <1>3, Bounds DEF SortTypeOK
<1>5. Pieces'
  BY <1>1, <1>3, <1>4, ShiftPieces
<1>6. SortedApart'
  <2> SUFFICES ASSUME NEW x \in Index, NEW y \in Index, Together(x, y) PROVE Together(x, y)'
    BY <1>3, SortedKept
  <2>1. CASE \E s \in lost : x \in Span(s) /\ y \in Span(s)
    BY <1>3, <2>1 DEF Together
  <2>2. ASSUME NEW q \in Process, NEW k \in Nat, Held(q, k, x), Held(q, k, y)
        PROVE  Together(x, y)'
    <3>1. CASE q = p /\ k = 0
      BY <1>2, <2>2, <3>1
    <3>2. CASE q = p /\ k > 0
      <4>1. k - 1 \in Nat /\ (k - 1) + 1 = k
        BY <3>2
      <4>2. Held(p, k - 1, x)' /\ Held(p, k - 1, y)'
        BY <1>1, <2>2, <3>2, <4>1
      <4> QED
        BY <4>1, <4>2 DEF Together
    <3>3. CASE q # p
      <4>1. Held(q, k, x)' /\ Held(q, k, y)'
        BY <1>1, <2>2, <3>3
      <4> QED
        BY <4>1 DEF Together
    <3> QED
      BY <3>1, <3>2, <3>3
  <2> QED
    BY <2>1, <2>2 DEF Together
<1>7. Loops'
  <2>1. LoopOK(p)'
    <3>1. at'[p] = "body" /\ call'[p] = Enter(r)
      BY <1>3 DEF SortTypeOK
    <3> QED
      BY <3>1 DEF LoopOK, Enter
  <2>2. ASSUME NEW q \in Process, q # p PROVE LoopOK(q)'
    <3>1. at'[q] = at[q] /\ call'[q] = call[q]
      BY <1>3, <2>2 DEF SortTypeOK
    <3> QED
      BY <1>3, <2>2, <3>1, OtherLoops
  <2> QED
    BY <2>1, <2>2 DEF Loops
<1> QED
  BY <1>1, <1>5, <1>6, <1>7

\* A call that ends with its elements in order.
LEMMA CallEnds ==
  ASSUME TableInv, NEW p \in Process, at[p] \in Busy, at' = [at EXCEPT ![p] = "call"],
         UNCHANGED <<table, todo, call, parent, lost>>,
         \A x, y \in Index : x < y /\ Held(p, 0, x) /\ Held(p, 0, y) => table[x] <= table[y]
  PROVE  TableInv'
<1> USE DEF TableInv
<1>1. SortTypeOK'
  BY DEF SortTypeOK, SortLabels
<1>2. \A q \in Process, k \in Nat, x \in Index :
        Held(q, k, x)' <=> ~(q = p /\ k = 0) /\ Held(q, k, x)
  BY DEF Held, Busy, SortTypeOK
<1>3. \A s \in Ranges : at'[s] = "none" <=> at[s] = "none"
  BY Bounds DEF SortTypeOK, Busy
<1>4. Pieces'
  BY <1>2, <1>3, DropPiece
<1>5. SortedApart'
  <2> SUFFICES ASSUME NEW x \in Index, NEW y \in Index, x < y, Together(x, y), ~Together(x, y)'
               PROVE  table[x] <= table[y]
    BY SortedKept
  <2>1. \A q \in Process, k \in Nat : Held(q, k, x) /\ Held(q, k, y) => q = p /\ k = 0
    BY <1>2 DEF Together
  <2>2. ~\E s \in lost : x \in Span(s) /\ y \in Span(s)
    BY DEF Together
  <2> QED
    BY <2>1, <2>2 DEF Together
<1>6. Loops'
  <2>1. LoopOK(p)'
    BY DEF LoopOK, SortTypeOK
  <2>2. ASSUME NEW q \in Process, q # p PROVE LoopOK(q)'
    <3>1. at'[q] = at[q] /\ call'[q] = call[q]
      BY <2>2 DEF SortTypeOK
    <3> QED
      BY <2>2, <3>1, OtherLoops
  <2> QED
    BY <2>1, <2>2 DEF Loops
<1> QED
  BY <1>1, <1>4, <1>5, <1>6

\* A call for one element (forksort.c:59).
LEMMA NothingInv ==
  ASSUME TableInv, NEW p \in Process, Nothing(p)
  PROVE  TableInv'
<1>1. /\ at[p] = "body" /\ at' = [at EXCEPT ![p] = "call"] /\ call[p].left >= call[p].right
      /\ UNCHANGED <<table, todo, call, parent, lost>>
  BY DEF Nothing, Move
<1>2. \A x, y \in Index : ~(x < y /\ Held(p, 0, x) /\ Held(p, 0, y))
  <2> SUFFICES ASSUME NEW x \in Index, NEW y \in Index, x < y, Held(p, 0, x), Held(p, 0, y)
               PROVE  FALSE
    OBVIOUS
  <2>1. x \in call[p].left .. call[p].right /\ y \in call[p].left .. call[p].right
    BY DEF Held
  <2>2. call[p].left \in Int /\ call[p].right \in Int
    BY CallTyped DEF TableInv
  <2> QED
    BY <1>1, <2>1, <2>2
<1> QED
  BY <1>1, <1>2, CallEnds DEF Busy

\* InsertionSort returns (forksort.c:4).
LEMMA EndInsertionInv ==
  ASSUME TableInv, NEW p \in Process, EndInsertion(p)
  PROVE  TableInv'
<1>1. /\ at[p] = "insert" /\ at' = [at EXCEPT ![p] = "call"] /\ call[p].i > call[p].right
      /\ UNCHANGED <<table, todo, call, parent, lost>>
  BY DEF EndInsertion, Move
<1>2. ASSUME NEW x \in Index, NEW y \in Index, x < y, Held(p, 0, x), Held(p, 0, y)
      PROVE  table[x] <= table[y]
  <2>1. x \in call[p].left .. call[p].right /\ y \in call[p].left .. call[p].right
    BY <1>2 DEF Held
  <2>2. call[p].left \in Int /\ call[p].right \in Int /\ call[p].i \in Int
    BY CallTyped DEF TableInv
  <2>3. call[p].left <= x /\ y < call[p].i
    BY <1>1, <2>1, <2>2
  <2> QED
    BY <1>1, <1>2, <2>3 DEF TableInv, Loops, LoopOK
<1> QED
  BY <1>1, <1>2, CallEnds DEF Busy

-----------------------------------------------------------------------------
(* The steps inside a call. *)

\* A step inside the call of p that moves its elements around.
LEMMA InsideCall ==
  ASSUME TableInv, NEW p \in Process, at[p] \in Busy, NEW label \in Busy, NEW d \in Calls,
         at' = [at EXCEPT ![p] = label], call' = [call EXCEPT ![p] = d],
         d.left = call[p].left, d.right = call[p].right,
         UNCHANGED <<todo, parent, lost>>, table' \in [Index -> Int],
         \A x \in Index : ~Held(p, 0, x) => table'[x] = table[x],
         \A x \in Index : Held(p, 0, x) => \E z \in Index : Held(p, 0, z) /\ table'[x] = table[z],
         LoopOK(p)'
  PROVE  TableInv'
<1> USE DEF TableInv
<1>1. SortTypeOK'
  BY DEF SortTypeOK, SortLabels, Busy
<1>2. \A q \in Process, k \in Nat, x \in Index : Held(q, k, x)' <=> Held(q, k, x)
  <2> TAKE q \in Process, k \in Nat, x \in Index
  <2>1. CASE q = p /\ k = 0
    <3>1. at'[p] = label /\ call'[p] = d
      BY DEF SortTypeOK
    <3> QED
      BY <2>1, <3>1 DEF Held
  <2>2. CASE q # p \/ k # 0
    BY <2>2 DEF Held, SortTypeOK
  <2> QED
    BY <2>1, <2>2
<1>3. \A s \in Ranges : at'[s] = "none" <=> at[s] = "none"
  BY Bounds DEF SortTypeOK, Busy
<1>4. Pieces'
  BY <1>2, <1>3, SamePieces
<1>5. SortedApart'
  <2> SUFFICES ASSUME NEW x \in Index, NEW y \in Index, x < y, ~Together(x, y)'
               PROVE  table'[x] <= table'[y]
    BY DEF SortedApart
  <2>1. ~Together(x, y)
    BY <1>2 DEF Together
  <2> QED
    BY <2>1, Permuted
<1>6. ASSUME NEW q \in Process, q # p PROVE LoopOK(q)'
  <2>1. at'[q] = at[q] /\ call'[q] = call[q]
    BY <1>6 DEF SortTypeOK
  <2> QED
    BY <1>6, <2>1, OtherLoops
<1> QED
  BY <1>1, <1>4, <1>5, <1>6 DEF Loops

\* InsertionSort starts with the second element (forksort.c:4).
LEMMA StartInsertionInv ==
  ASSUME TableInv, NEW p \in Process, StartInsertion(p)
  PROVE  TableInv'
<1> DEFINE d == [call[p] EXCEPT !.i = @ + 1]
<1>1. /\ at[p] = "body" /\ at' = [at EXCEPT ![p] = "insert"] /\ call' = [call EXCEPT ![p] = d]
      /\ call[p].left < call[p].right /\ UNCHANGED <<table, todo, parent, lost>>
  BY DEF StartInsertion, Move
<1>2. call[p] \in Calls
  BY DEF TableInv, SortTypeOK
<1>3. d \in Calls /\ d.left = call[p].left /\ d.right = call[p].right /\ d.i = call[p].i + 1
  BY <1>2, SMTT(30) DEF Calls
<1>4. call[p].i = call[p].left
  BY <1>1 DEF TableInv, Loops, LoopOK
<1>5. at'[p] = "insert" /\ call'[p] = d
  BY <1>1 DEF TableInv, SortTypeOK
<1> HIDE DEF d
<1>6. LoopOK(p)'
  <2>1. call[p].left \in Int /\ call[p].right \in Int /\ Index \subseteq Int
    BY CallTyped, Bounds DEF TableInv
  <2>2. d.left < d.i /\ d.i <= d.right + 1
    BY <1>1, <1>3, <1>4, <2>1
  <2>3. \A x, y \in Index : ~(d.left <= x /\ x < y /\ y < d.i)
    <3> SUFFICES ASSUME NEW x \in Index, NEW y \in Index, d.left <= x, x < y, y < d.i PROVE FALSE
      OBVIOUS
    <3>1. x \in Int /\ y \in Int /\ d.i = d.left + 1 /\ d.left \in Int
      BY <1>3, <1>4, <2>1
    <3> QED
      BY ONLY <3>1, d.left <= x, x < y, y < d.i
  <2> QED
    BY <1>5, <2>2, <2>3 DEF LoopOK
<1>7. table' \in [Index -> Int]
  BY <1>1 DEF TableInv, SortTypeOK
<1> QED
  BY <1>1, <1>3, <1>6, <1>7, InsideCall DEF Busy

\* The pivot is any element of the range (forksort.c:63-64).
LEMMA StartPartitionInv ==
  ASSUME TableInv, NEW p \in Process, StartPartition(p)
  PROVE  TableInv'
<1>1. /\ at[p] = "body" /\ at' = [at EXCEPT ![p] = "partition"]
      /\ call[p].right - call[p].left > INSERTSORT_MAX /\ UNCHANGED <<table, todo, parent, lost>>
  BY DEF StartPartition, Move
<1>2. PICK k \in call[p].left .. call[p].right :
        call' = [call EXCEPT ![p].pivot = k, ![p].val = table[k]]
  BY DEF StartPartition
<1> DEFINE d == [call[p] EXCEPT !.pivot = k, !.val = table[k]]
<1>3. call[p] \in Calls /\ call[p].left \in Index /\ call[p].right \in Index
  BY CallTyped DEF TableInv, SortTypeOK
<1>4. k \in Index /\ k \in Int
  BY <1>2, <1>3 DEF Index
<1>5. table[k] \in Int /\ table' \in [Index -> Int]
  BY <1>1, <1>4 DEF TableInv, SortTypeOK
<1>6. call' = [call EXCEPT ![p] = d]
  BY <1>2 DEF TableInv, SortTypeOK
<1>7. /\ d \in Calls /\ d.left = call[p].left /\ d.right = call[p].right /\ d.i = call[p].i
      /\ d.j = call[p].j /\ d.pivot = k /\ d.val = table[k]
  BY <1>3, <1>4, <1>5 DEF Calls
<1>8. call[p].i = call[p].left /\ call[p].j = call[p].right
  BY <1>1 DEF TableInv, Loops, LoopOK
<1>9. at'[p] = "partition" /\ call'[p] = d
  BY <1>1, <1>6 DEF TableInv, SortTypeOK
<1> HIDE DEF d
<1>10. LoopOK(p)'
  <2>1. call[p].left \in Int /\ call[p].right \in Int /\ Index \subseteq Int
    BY CallTyped, Bounds DEF TableInv
  <2>2. d.left < d.right /\ d.left <= d.i /\ d.i <= d.j /\ d.j <= d.right /\ d.left <= k /\ k <= d.right
    BY <1>1, <1>2, <1>7, <1>8, <2>1
  <2>3. \A x \in Index : ~(d.left <= x /\ x < d.i) /\ ~(d.j < x /\ x <= d.right)
    <3>1. d.i = d.left /\ d.j = d.right /\ d.left \in Int /\ d.right \in Int
      BY <1>7, <1>8, <2>1
    <3> QED
      BY ONLY <2>1, <3>1
  <2>4. d.j = d.right /\ \E x \in Index : d.left <= x /\ x <= d.right /\ table[x] >= d.val
    BY <1>4, <1>5, <1>7, <1>8, <2>2
  <2>5. table[d.pivot] = d.val
    BY <1>7
  <2> QED
    BY <1>1, <1>7, <1>9, <2>2, <2>3, <2>4, <2>5 DEF LoopOK
<1> QED
  BY <1>1, <1>5, <1>6, <1>7, <1>10, InsideCall DEF Busy

\* A step of a process that is in no call and has none to make: its exit, or its end as a zombie.
LEMMA SortQuietInv ==
  ASSUME TableInv, NEW q \in Process, NEW label \in SortLabels \ (Busy \cup {"none"}),
         at[q] \notin Busy \cup {"none"}, at' = [at EXCEPT ![q] = label],
         UNCHANGED <<table, todo, call, parent, lost>>
  PROVE  TableInv'
<1> USE DEF TableInv
<1>1. SortTypeOK'
  BY DEF SortTypeOK
<1>2. \A p \in Process, k \in Nat, x \in Index : Held(p, k, x)' <=> Held(p, k, x)
  BY DEF Held, SortTypeOK
<1>3. \A s \in Ranges : at'[s] = "none" <=> at[s] = "none"
  BY Bounds DEF SortTypeOK
<1>4. Pieces'
  BY <1>2, <1>3, SamePieces
<1>5. SortedApart'
  BY <1>2 DEF SortedApart, Together
<1>6. Loops'
  <2> SUFFICES ASSUME NEW p \in Process PROVE LoopOK(p)'
    BY DEF Loops
  <2>1. CASE p = q
    BY <2>1 DEF LoopOK, SortTypeOK, Busy
  <2>2. CASE p # q
    BY <2>2 DEF Loops, LoopOK, SortTypeOK
  <2> QED
    BY <2>1, <2>2
<1> QED
  BY <1>1, <1>4, <1>5, <1>6

\* One round of InsertionSort (forksort.c:4-16): the element i is put where it belongs.
LEMMA InsertionSortInv ==
  ASSUME TableInv, NEW p \in Process, InsertionSort(p)
  PROVE  TableInv'
<1> DEFINE left == call[p].left
           i == call[p].i
           right == call[p].right
           S == {k \in left .. i : k = i \/ table[k] >= table[i]}
           ins == FirstIn(S)
           d == [call[p] EXCEPT !.i = @ + 1]
<1>1. /\ at[p] = "insert" /\ i <= right
      /\ table' = [k \in Index |-> CASE k = ins -> table[i]
                                     [] k \in ins + 1 .. i -> table[k - 1]
                                     [] OTHER -> table[k]]
      /\ call' = [call EXCEPT ![p].i = @ + 1]
      /\ UNCHANGED <<at, todo, parent, lost>>
  BY DEF InsertionSort
<1>2. /\ left \in Index /\ right \in Index /\ left \in Int /\ right \in Int /\ i \in Int
      /\ call[p] \in Calls /\ table \in [Index -> Int] /\ Index \subseteq Int
  BY CallTyped, Bounds DEF TableInv, SortTypeOK
<1>3. /\ left < i
      /\ \A x, y \in Index : left <= x /\ x < y /\ y < i => table[x] <= table[y]
  BY <1>1 DEF TableInv, Loops, LoopOK
<1>4. \A x \in Int : left <= x /\ x <= right => x \in Index
  BY <1>2 DEF Index
<1>5. S \in SUBSET Nat /\ S # {}
  BY <1>2, <1>3, SMTT(30) DEF Index
<1>6. ins \in S /\ \A k \in S : ins <= k
  BY <1>5, FirstIs
<1>7. ins \in Int /\ left <= ins /\ ins <= i /\ (ins = i \/ table[ins] >= table[i])
  <2>1. ins \in left .. i /\ (ins = i \/ table[ins] >= table[i])
    BY <1>6
  <2> HIDE DEF ins, S
  <2> QED
    BY <1>2, <2>1
<1>8. \A x \in Int : left <= x /\ x < ins => table[x] < table[i]
  <2> SUFFICES ASSUME NEW x \in Int, left <= x, x < ins, ~(table[x] < table[i]) PROVE FALSE
    OBVIOUS
  <2>1. x \in left .. i /\ x \in Index /\ i \in Index
    BY <1>1, <1>2, <1>4, <1>7, SMTT(30)
  <2>2. x \in S
    BY <1>2, <2>1
  <2> QED
    BY <1>6, <1>7, <2>2
<1>9. /\ d \in Calls /\ d.left = left /\ d.right = right /\ d.i = i + 1
      /\ call' = [call EXCEPT ![p] = d]
  <2>1. call' = [call EXCEPT ![p] = d]
    BY <1>1
  <2>2. \A c \in Calls : LET e == [c EXCEPT !.i = @ + 1]
                         IN  e \in Calls /\ e.left = c.left /\ e.right = c.right /\ e.i = c.i + 1
    BY DEF Calls
  <2> QED
    BY <1>2, <2>1, <2>2
<1>10. at'[p] = "insert" /\ call'[p] = d
  BY <1>1, <1>9 DEF TableInv, SortTypeOK
<1> HIDE DEF S, ins, d, left, i, right
<1>11. /\ i \in Index /\ ins \in Index
       /\ \A k \in Index : k \in ins + 1 .. i => k - 1 \in Index /\ k \in Int
  <2>1. i <= right
    BY <1>1
  <2>2. ASSUME NEW k \in Index, k \in ins + 1 .. i PROVE k - 1 \in Index /\ k \in Int
    BY <1>2, <1>4, <1>7, <2>1, <2>2
  <2> QED
    BY <1>2, <1>3, <1>4, <1>7, <2>1, <2>2
<1>12. /\ table'[ins] = table[i]
       /\ \A k \in Index : ins < k /\ k <= i => table'[k] = table[k - 1]
       /\ \A k \in Index : k < ins \/ i < k => table'[k] = table[k]
  <2>1. \A k \in Index : table'[k] = CASE k = ins -> table[i]
                                       [] k \in ins + 1 .. i -> table[k - 1]
                                       [] OTHER -> table[k]
    BY <1>1
  <2>2. table'[ins] = table[i]
    BY <1>11, <2>1
  <2>3. ASSUME NEW k \in Index, ins < k, k <= i PROVE table'[k] = table[k - 1]
    <3>1. k # ins /\ k \in ins + 1 .. i
      BY <1>2, <1>7, <2>3
    <3> QED
      BY <2>1, <3>1
  <2>4. ASSUME NEW k \in Index, k < ins \/ i < k PROVE table'[k] = table[k]
    <3>1. k # ins /\ k \notin ins + 1 .. i
      BY <1>2, <1>7, <2>4
    <3> QED
      BY <2>1, <3>1
  <2> QED
    BY <2>2, <2>3, <2>4
<1>13. table' \in [Index -> Int]
  <2>1. \A k \in Index : (CASE k = ins -> table[i]
                            [] k \in ins + 1 .. i -> table[k - 1]
                            [] OTHER -> table[k]) \in Int
    BY <1>2, <1>11
  <2> QED
    BY <1>1, <2>1
<1>14. \A x \in Index : Held(p, 0, x) <=> left <= x /\ x <= right
  BY <1>1, HeldCall DEF TableInv, Busy, left, right
<1>15. \A x \in Index : ~Held(p, 0, x) => table'[x] = table[x]
  <2> SUFFICES ASSUME NEW x \in Index, ~(left <= x /\ x <= right) PROVE table'[x] = table[x]
    BY <1>14
  <2>1. x < ins \/ i < x
    BY <1>1, <1>2, <1>7
  <2> QED
    BY <1>12, <2>1
<1>16. ASSUME NEW x \in Index, Held(p, 0, x)
       PROVE  \E z \in Index : Held(p, 0, z) /\ table'[x] = table[z]
  <2>0. x \in Int /\ left <= x /\ x <= right
    BY <1>2, <1>14, <1>16
  <2>1. CASE x = ins
    <3>1. Held(p, 0, i)
      BY <1>1, <1>2, <1>3, <1>11, <1>14
    <3> QED
      BY <1>11, <1>12, <2>1, <3>1
  <2>2. CASE ins < x /\ x <= i
    <3>1. x - 1 \in Index /\ left <= x - 1 /\ x - 1 <= right
      BY <1>2, <1>4, <1>7, <2>0, <2>2
    <3>2. Held(p, 0, x - 1)
      BY <1>14, <3>1
    <3> QED
      BY <1>12, <2>2, <3>1, <3>2
  <2>3. CASE x < ins \/ i < x
    BY <1>12, <1>16, <2>3
  <2> QED
    BY <1>2, <1>7, <2>0, <2>1, <2>2, <2>3
<1>17. ASSUME NEW x \in Index, NEW y \in Index, left <= x, x < y, y < i + 1
       PROVE  table'[x] <= table'[y]
  <2>0. x \in Int /\ y \in Int /\ table[x] \in Int /\ table[y] \in Int /\ table[i] \in Int
    BY <1>2, <1>11
  <2>1. CASE y < ins
    BY <1>2, <1>3, <1>7, <1>12, <1>17, <2>0, <2>1
  <2>2. CASE y = ins
    <3>1. table'[y] = table[i] /\ table'[x] = table[x] /\ table[x] < table[i]
      BY <1>8, <1>12, <1>17, <2>0, <2>2
    <3> QED
      BY <2>0, <3>1
  <2>3. CASE ins < y
    <3>0. y - 1 \in Index /\ y - 1 \in Int /\ table'[y] = table[y - 1] /\ y - 1 < i /\ table[y - 1] \in Int
          /\ left <= y - 1
      BY <1>2, <1>4, <1>7, <1>11, <1>12, <1>17, <2>0, <2>3
    <3>1. table[ins] <= table[y - 1] /\ table[ins] \in Int
      BY <1>2, <1>3, <1>7, <1>11, <2>0, <2>3, <3>0
    <3>2. table[i] <= table[y - 1]
      BY <1>2, <1>7, <2>0, <2>3, <3>0, <3>1
    <3>3. CASE x < ins
      <4>1. table'[x] = table[x] /\ table[x] < table[i]
        BY <1>8, <1>12, <1>17, <2>0, <3>3
      <4> QED
        BY <2>0, <3>0, <3>2, <4>1
    <3>4. CASE x = ins
      BY <1>12, <3>0, <3>2, <3>4
    <3>5. CASE ins < x
      <4>1. x - 1 \in Index /\ x <= i /\ left <= x - 1 /\ x - 1 < y - 1
        BY <1>2, <1>4, <1>7, <1>11, <1>17, <2>0, <3>0, <3>5
      <4>2. table'[x] = table[x - 1]
        BY <1>12, <3>5, <4>1
      <4> QED
        BY <1>3, <3>0, <4>1, <4>2
    <3> QED
      BY <1>7, <2>0, <3>3, <3>4, <3>5
  <2> QED
    BY <1>7, <2>0, <2>1, <2>2, <2>3
<1>18. LoopOK(p)'
  <2>1. d.left < d.i /\ d.i <= d.right + 1
    BY <1>1, <1>2, <1>3, <1>9
  <2> QED
    BY <1>9, <1>10, <1>17, <2>1 DEF LoopOK
<1>19. at' = [at EXCEPT ![p] = "insert"]
  BY <1>1 DEF TableInv, SortTypeOK
<1> QED
  BY <1>1, <1>9, <1>13, <1>15, <1>16, <1>18, <1>19, InsideCall DEF Busy, left, right

\* One round of the loop of Partition (forksort.c:29-38).
LEMMA PartitionInv ==
  ASSUME TableInv, NEW p \in Process, Partition(p)
  PROVE  TableInv'
<1> DEFINE c == call[p]
           S == {k \in c.i .. c.j : k = c.j \/ table[k] >= c.val}
           i == FirstIn(S)
           T == {k \in i .. c.j : k = i \/ table[k] < c.val}
           j == LastIn(T)
           d == [call[p] EXCEPT !.i = i, !.j = j]
<1>1. /\ at[p] = "partition" /\ c.i < c.j /\ table' = SwapElem(table, i, j)
      /\ call' = [call EXCEPT ![p] = d] /\ UNCHANGED <<at, todo, parent, lost>>
  BY DEF Partition
<1>2. /\ c.left \in Index /\ c.right \in Index /\ c.left \in Int /\ c.right \in Int /\ c.pivot \in Index
      /\ c.i \in Int /\ c.j \in Int /\ c.val \in Int
      /\ c \in Calls /\ table \in [Index -> Int] /\ Index \subseteq Int
  BY CallTyped, Bounds, SMTT(30) DEF TableInv, SortTypeOK
<1>3. LoopOK(p)
  BY DEF TableInv, Loops
<1>4. /\ c.left < c.right /\ c.left <= c.i /\ c.i <= c.j /\ c.j <= c.right
      /\ c.left <= c.pivot /\ c.pivot <= c.right
  BY <1>1, <1>3 DEF LoopOK
<1>5. /\ \A x \in Index : c.left <= x /\ x < c.i => table[x] < c.val
      /\ \A x \in Index : c.j < x /\ x <= c.right => table[x] >= c.val
  BY <1>1, <1>3 DEF LoopOK
<1>6. \/ table[c.j] >= c.val
      \/ /\ c.j = c.right
         /\ \E x \in Index : c.left <= x /\ x <= c.right /\ table[x] >= c.val
  BY <1>1, <1>3 DEF LoopOK
<1>7. c.i = c.left => table[c.left] < c.val \/ table[c.pivot] = c.val
  BY <1>1, <1>3 DEF LoopOK
<1>8. \A x \in Int : c.left <= x /\ x <= c.right => x \in Index
  BY <1>2 DEF Index
<1>9. /\ i \in Int /\ c.i <= i /\ i <= c.j /\ (i = c.j \/ table[i] >= c.val)
      /\ \A x \in Index : c.i <= x /\ x < i => table[x] < c.val
  <2>1. S \in SUBSET Nat /\ S # {}
    <3>1. c.i \in Nat /\ c.j \in c.i .. c.j
      BY <1>2, <1>4 DEF Index
    <3>2. c.j \in S
      BY <3>1
    <3> QED
      BY <1>2, <3>1, <3>2
  <2>2. i \in S /\ \A k \in S : i <= k
    BY <2>1, FirstIs
  <2>3. i \in c.i .. c.j /\ (i = c.j \/ table[i] >= c.val)
    BY <2>2
  <2> HIDE DEF i
  <2>4. i \in Int /\ c.i <= i /\ i <= c.j
    BY <1>2, <2>3
  <2>5. ASSUME NEW x \in Index, c.i <= x, x < i PROVE table[x] < c.val
    <3>1. x \in Int /\ table[x] \in Int /\ x \in c.i .. c.j
      BY <1>2, <2>4, <2>5
    <3>2. x \notin S
      BY <1>2, <2>2, <2>4, <2>5, <3>1
    <3>3. ~(table[x] >= c.val)
      BY <3>1, <3>2
    <3> QED
      BY <1>2, <3>1, <3>3
  <2> QED
    BY <2>3, <2>4, <2>5
<1> HIDE DEF i, S
<1>10. i \in Index
  BY <1>2, <1>4, <1>8, <1>9
<1>11. /\ j \in Int /\ i <= j /\ j <= c.j /\ (j = i \/ table[j] < c.val)
       /\ \A x \in Index : j < x /\ x <= c.j => table[x] >= c.val
  <2>1. c.j \in Nat /\ T \in SUBSET (0 .. c.j) /\ T # {}
    <3>1. c.j \in Nat /\ i \in Nat /\ i \in i .. c.j
      BY <1>2, <1>4, <1>9, <1>10 DEF Index
    <3>2. i \in T
      BY <3>1
    <3>3. \A k \in i .. c.j : k \in 0 .. c.j
      BY <3>1
    <3> QED
      BY <3>1, <3>2, <3>3
  <2>2. j \in T /\ \A k \in T : k <= j
    BY <2>1, LastIs
  <2>3. j \in i .. c.j /\ (j = i \/ table[j] < c.val)
    BY <2>2
  <2> HIDE DEF j
  <2>4. j \in Int /\ i <= j /\ j <= c.j
    BY <1>2, <1>9, <2>3
  <2>5. ASSUME NEW x \in Index, j < x, x <= c.j PROVE table[x] >= c.val
    <3>1. x \in Int /\ table[x] \in Int /\ x \in i .. c.j
      BY <1>2, <1>9, <2>4, <2>5
    <3>2. x \notin T
      BY <1>2, <2>2, <2>4, <2>5, <3>1
    <3>3. ~(table[x] < c.val)
      BY <3>1, <3>2
    <3> QED
      BY <1>2, <3>1, <3>3
  <2> QED
    BY <2>3, <2>4, <2>5
<1> HIDE DEF j, T
<1>12. j \in Index
  BY <1>2, <1>4, <1>8, <1>9, <1>11
<1>13. /\ d \in Calls /\ d.left = c.left /\ d.right = c.right /\ d.i = i /\ d.j = j
       /\ d.pivot = c.pivot /\ d.val = c.val
  <2>1. PICK e \in Calls, k \in Int, l \in Int : e = c /\ k = i /\ l = j
    BY <1>2, <1>9, <1>11
  <2>2. d = [e EXCEPT !.i = k, !.j = l]
    BY <2>1
  <2> HIDE DEF c, d
  <2>3. /\ d \in Calls /\ d.left = e.left /\ d.right = e.right /\ d.i = k /\ d.j = l
        /\ d.pivot = e.pivot /\ d.val = e.val
    BY <2>2 DEF Calls
  <2> QED
    BY <2>1, <2>3
<1>14. at'[p] = "partition" /\ call'[p] = d /\ at' = [at EXCEPT ![p] = "partition"]
  BY <1>1 DEF TableInv, SortTypeOK
<1>15. /\ table' \in [Index -> Int] /\ table'[i] = table[j] /\ table'[j] = table[i]
       /\ \A x \in Index : x # i /\ x # j => table'[x] = table[x]
       /\ i = j => table' = table
  <2>1. table' = SwapElem(table, i, j)
    BY <1>1
  <2>2. table \in [Index -> Int]
    BY <1>2
  <2>3. PICK a \in Index, b \in Index : a = i /\ b = j
    BY <1>10, <1>12
  <2>4. table' = SwapElem(table, a, b)
    BY <2>1, <2>3
  <2>5. /\ table' \in [Index -> Int] /\ table'[a] = table[b] /\ table'[b] = table[a]
        /\ \A x \in Index : x # a /\ x # b => table'[x] = table[x]
        /\ a = b => table' = table
    <3>1. \A t \in [Index -> Int] :
            LET u == [t EXCEPT ![a] = t[b], ![b] = t[a]]
            IN  /\ u \in [Index -> Int] /\ u[a] = t[b] /\ u[b] = t[a]
                /\ \A x \in Index : x # a /\ x # b => u[x] = t[x]
                /\ a = b => u = t
      <4> USE DEF Index
      <4> QED
        BY ONLY a \in Index, b \in Index
    <3> QED
      BY ONLY <2>2, <2>4, <3>1 DEF SwapElem
  <2> QED
    BY <2>3, <2>5
<1> HIDE DEF d, c
<1>16. c.left <= i /\ i <= c.right /\ c.left <= j /\ j <= c.right
  BY <1>2, <1>4, <1>9, <1>11
<1>17. \A x \in Index : Held(p, 0, x) <=> c.left <= x /\ x <= c.right
  BY <1>1, HeldCall DEF TableInv, Busy, c
<1>18. \A x \in Index : ~Held(p, 0, x) => table'[x] = table[x]
  BY <1>10, <1>12, <1>15, <1>16, <1>17
<1>19. ASSUME NEW x \in Index, Held(p, 0, x)
       PROVE  \E z \in Index : Held(p, 0, z) /\ table'[x] = table[z]
  <2>1. Held(p, 0, i) /\ Held(p, 0, j)
    BY <1>10, <1>12, <1>16, <1>17
  <2> QED
    BY <1>10, <1>12, <1>15, <1>19, <2>1
<1>20. LoopOK(p)'
  <2>1. ASSUME NEW x \in Index, c.left <= x, x < i PROVE table'[x] < c.val
    <3>1. x \in Int /\ x # i /\ x # j
      BY <1>2, <1>9, <1>11, <2>1
    <3>2. table[x] < c.val
      BY <1>2, <1>5, <1>9, <2>1, <3>1
    <3> QED
      BY <1>15, <3>1, <3>2
  <2>2. ASSUME NEW x \in Index, j < x, x <= c.right PROVE table'[x] >= c.val
    <3>1. x \in Int /\ x # i /\ x # j
      BY <1>2, <1>9, <1>11, <2>2
    <3>2. table[x] >= c.val
      BY <1>2, <1>5, <1>11, <2>2, <3>1
    <3> QED
      BY <1>15, <3>1, <3>2
  <2>3. \/ table'[j] >= c.val
        \/ /\ j = c.right
           /\ \E x \in Index : c.left <= x /\ x <= c.right /\ table'[x] >= c.val
    <3>1. CASE table[i] >= c.val
      BY <1>15, <3>1
    <3>2. CASE ~(table[i] >= c.val)
      <4>1. i = c.j /\ j = c.j
        BY <1>2, <1>9, <1>11, <3>2
      <4>2. table' = table
        BY <1>15, <4>1
      <4> QED
        BY <1>6, <4>1, <4>2
    <3> QED
      BY <3>1, <3>2
  <2>4. i = c.left => table'[c.left] < c.val \/ table'[c.pivot] = c.val
    <3> SUFFICES ASSUME i = c.left PROVE table'[c.left] < c.val \/ table'[c.pivot] = c.val
      OBVIOUS
    <3>1. c.i = c.left /\ i < c.j
      <4>1. c.i < c.j
        BY <1>1 DEF c
      <4> QED
        BY <1>2, <1>4, <1>9, <4>1
    <3>2. table[i] >= c.val /\ table[i] \in Int
      BY <1>2, <1>9, <1>10, <3>1
    <3>3. table[c.pivot] = c.val
      BY <1>2, <1>7, <3>1, <3>2
    <3>4. CASE j = i
      BY <1>15, <3>3, <3>4
    <3>5. CASE j # i
      BY <1>11, <1>15, <3>5
    <3> QED
      BY <3>4, <3>5
  <2>5. /\ d.left < d.right /\ d.left <= d.i /\ d.i <= d.j /\ d.j <= d.right
        /\ d.left <= d.pivot /\ d.pivot <= d.right
    BY <1>4, <1>11, <1>13, <1>16
  <2> QED
    BY <1>13, <1>14, <2>1, <2>2, <2>3, <2>4, <2>5 DEF LoopOK
<1> QED
  BY <1>1, <1>13, <1>14, <1>15, <1>18, <1>19, <1>20, InsideCall DEF Busy, c

\* When a call is split only elements of that call are separated.
LEMMA Separated ==
  ASSUME NEW p \in Process, NEW add \in {1, 2},
         \A q \in Process, k \in Nat, x \in Index : q # p => (Held(q, k, x)' <=> Held(q, k, x)),
         \A k \in Nat, x \in Index : k > 0 => (Held(p, k + add, x)' <=> Held(p, k, x)),
         lost' = lost, NEW x \in Index, NEW y \in Index, Together(x, y), ~Together(x, y)'
  PROVE  Held(p, 0, x) /\ Held(p, 0, y)
<1>1. ~\E r \in lost : x \in Span(r) /\ y \in Span(r)
  BY DEF Together
<1>2. PICK q \in Process, k \in Nat : Held(q, k, x) /\ Held(q, k, y)
  BY <1>1 DEF Together
<1>3. CASE q # p
  <2>1. Held(q, k, x)' /\ Held(q, k, y)'
    BY <1>2, <1>3
  <2> QED
    BY <2>1 DEF Together
<1>4. CASE q = p /\ k > 0
  <2>1. k + add \in Nat
    OBVIOUS
  <2>2. Held(p, k + add, x)' /\ Held(p, k + add, y)'
    BY <1>2, <1>4
  <2> QED
    BY <2>1, <2>2 DEF Together
<1> QED
  BY <1>2, <1>3, <1>4

\* The end of Partition and the calls for the halves (forksort.c:66-73).
LEMMA SplitInv ==
  ASSUME TableInv, NEW p \in Process, Recurse(p)
  PROVE  TableInv'
<1> DEFINE c == call[p]
<1>1. /\ at[p] = "partition" /\ c.i = c.j /\ at' = [at EXCEPT ![p] = "call"]
      /\ UNCHANGED <<call, parent, lost>>
  BY DEF Recurse, Move
<1>2. /\ c.left \in Index /\ c.right \in Index /\ c.left \in Int /\ c.right \in Int /\ c.pivot \in Index
      /\ c.i \in Int /\ c.j \in Int /\ c.val \in Int /\ table \in [Index -> Int] /\ Index \subseteq Int
  BY CallTyped, Bounds, SMTT(30) DEF TableInv, SortTypeOK
<1>3. LoopOK(p)
  BY DEF TableInv, Loops
<1>4. /\ c.left < c.right /\ c.left <= c.i /\ c.i <= c.right
      /\ c.left <= c.pivot /\ c.pivot <= c.right
  BY <1>1, <1>3 DEF LoopOK
<1>5. /\ \A x \in Index : c.left <= x /\ x < c.i => table[x] < c.val
      /\ \A x \in Index : c.i < x /\ x <= c.right => table[x] >= c.val
  BY <1>1, <1>3 DEF LoopOK
<1>6. \/ table[c.i] >= c.val
      \/ /\ c.i = c.right
         /\ \E x \in Index : c.left <= x /\ x <= c.right /\ table[x] >= c.val
  BY <1>1, <1>3 DEF LoopOK
<1>7. c.i = c.left => table[c.left] < c.val \/ table[c.pivot] = c.val
  BY <1>1, <1>3 DEF LoopOK
<1>8. \A x \in Index : Held(p, 0, x) <=> c.left <= x /\ x <= c.right
  BY <1>1, HeldCall DEF TableInv, Busy
<1>9. \A s \in Ranges : at'[s] = "none" <=> at[s] = "none"
  BY <1>1, Bounds DEF TableInv, SortTypeOK
<1>10. c.i \in Index
  BY <1>2, <1>4 DEF Index
<1>11. table[c.i] >= c.val
  <2> SUFFICES ASSUME ~(table[c.i] >= c.val) PROVE FALSE
    OBVIOUS
  <2>1. PICK x \in Index : c.left <= x /\ x <= c.right /\ table[x] >= c.val
    BY <1>6
  <2>2. c.i = c.right /\ table[x] \in Int /\ x \in Int
    BY <1>2, <1>6
  <2>3. x = c.i \/ table[x] < c.val
    BY <1>2, <1>5, <2>1, <2>2
  <2> QED
    BY <1>2, <2>1, <2>2, <2>3
<1> HIDE DEF c
<1>12. ASSUME \A x \in Index : ~Held(p, 0, x) => table'[x] = table[x], NEW q \in Process
       PROVE  LoopOK(q)'
  <2>1. CASE q = p
    <3>1. at'[p] = "call"
      BY <1>1 DEF TableInv, SortTypeOK
    <3> QED
      BY <2>1, <3>1 DEF LoopOK
  <2>2. CASE q # p
    <3>1. at'[q] = at[q] /\ call'[q] = call[q]
      BY <1>1, <2>2 DEF TableInv, SortTypeOK
    <3> QED
      BY <1>12, <2>2, <3>1, OtherLoops DEF TableInv
  <2> QED
    BY <2>1, <2>2
<1>13. CASE c.left = c.i
  <2>1. /\ SortTypeOK'
        /\ \A q \in Process, k \in Nat, x \in Index :
             Held(q, k, x)' <=>
               IF q # p THEN Held(q, k, x)
               ELSE \/ k = 1 /\ x \in c.left + 1 .. c.right
                    \/ k > 1 /\ Held(p, k - 1, x)
    BY <1>4, <1>13, SplitOneEffect DEF c, TableInv
  <2>2. Pieces'
    <3>1. PICK m \in Int : m = c.left + 1
      BY <1>2
    <3>2. \A q \in Process, k \in Nat, x \in Index :
           Held(q, k, x)' =>
             IF q # p THEN Held(q, k, x)
             ELSE \/ k = 1 /\ m <= x /\ x <= c.right
                  \/ k > 1 /\ Held(p, k - 1, x)
      BY <1>2, <2>1, <3>1
    <3>3. c.left < m /\ m <= c.right
      BY <1>2, <1>4, <3>1
    <3> QED
      BY <1>1, <1>9, <3>2, <3>3, SplitPieces DEF TableInv, Busy, c
  <2>3. table' = SwapElem(table, c.left, c.pivot)
    BY <1>13 DEF Recurse, c
  <2>4. /\ table' \in [Index -> Int] /\ table'[c.left] = table[c.pivot]
        /\ table'[c.pivot] = table[c.left]
        /\ \A x \in Index : x # c.left /\ x # c.pivot => table'[x] = table[x]
    <3>1. PICK a \in Index, b \in Index : a = c.left /\ b = c.pivot
      BY <1>2
    <3>2. table' = SwapElem(table, a, b)
      BY <2>3, <3>1
    <3>3. /\ table' \in [Index -> Int] /\ table'[a] = table[b] /\ table'[b] = table[a]
          /\ \A x \in Index : x # a /\ x # b => table'[x] = table[x]
      <4>1. \A t \in [Index -> Int] :
              LET u == [t EXCEPT ![a] = t[b], ![b] = t[a]]
              IN  /\ u \in [Index -> Int] /\ u[a] = t[b] /\ u[b] = t[a]
                  /\ \A x \in Index : x # a /\ x # b => u[x] = t[x]
        OBVIOUS
      <4>2. table \in [Index -> Int]
        BY <1>2
      <4> QED
        BY ONLY <3>2, <4>1, <4>2 DEF SwapElem
    <3> QED
      BY <3>1, <3>3
  <2>5. \A x \in Index : ~Held(p, 0, x) => table'[x] = table[x]
    BY <1>2, <1>4, <1>8, <2>4
  <2>6. \A x \in Index : Held(p, 0, x) => \E z \in Index : Held(p, 0, z) /\ table'[x] = table[z]
    <3>0. c.left <= c.left /\ c.left <= c.right
      BY <1>2, <1>4
    <3>1. Held(p, 0, c.left) /\ Held(p, 0, c.pivot)
      BY <1>2, <1>4, <1>8, <3>0
    <3> QED
      BY <1>2, <2>4, <3>1
  <2>7. table[c.pivot] = c.val
    <3>1. table[c.left] \in Int
      BY <1>2
    <3> QED
      BY <1>2, <1>7, <1>11, <1>13, <3>1
  <2>8. ASSUME NEW x \in Index, Held(p, 0, x) PROVE table'[x] >= c.val /\ table'[x] \in Int
    <3>1. PICK z \in Index : Held(p, 0, z) /\ table'[x] = table[z]
      BY <2>6, <2>8
    <3>2. c.left <= z /\ z <= c.right /\ z \in Int /\ table[z] \in Int
      BY <1>2, <1>8, <3>1
    <3>3. z = c.i \/ c.i < z
      BY <1>2, <1>13, <3>2
    <3> QED
      BY <1>5, <1>11, <3>1, <3>2, <3>3
  <2>9. SortedApart'
    <3> SUFFICES ASSUME NEW x \in Index, NEW y \in Index, x < y, ~Together(x, y)'
                 PROVE  table'[x] <= table'[y]
      BY DEF SortedApart
    <3>1. CASE ~Together(x, y)
      BY <1>1, <2>5, <2>6, <3>1, Permuted DEF TableInv, Busy
    <3>2. CASE Together(x, y)
      <4>1. /\ \A q \in Process, k \in Nat, z \in Index : q # p => (Held(q, k, z)' <=> Held(q, k, z))
            /\ \A k \in Nat, z \in Index : k > 0 => (Held(p, k + 1, z)' <=> Held(p, k, z))
        <5>1. ASSUME NEW k \in Nat, NEW z \in Index, k > 0
              PROVE  Held(p, k + 1, z)' <=> Held(p, k, z)
          <6>1. k + 1 \in Nat /\ k + 1 > 1 /\ k + 1 # 1 /\ (k + 1) - 1 = k
            BY <5>1
          <6> QED
            BY <2>1, <6>1
        <5> QED
          BY <2>1, <5>1
      <4>2. lost' = lost
        BY <1>1
      <4>3. Held(p, 0, x) /\ Held(p, 0, y)
        BY <3>2, <4>1, <4>2, Separated
      <4>4. ~(Held(p, 1, x)' /\ Held(p, 1, y)')
        BY DEF Together
      <4>5. ~(x \in c.left + 1 .. c.right /\ y \in c.left + 1 .. c.right)
        BY <2>1, <4>4
      <4>6. x \in Int /\ y \in Int /\ c.left <= x /\ x <= c.right /\ c.left <= y /\ y <= c.right
        BY <1>2, <1>8, <4>3
      <4>7. x = c.left
        BY <1>2, <4>5, <4>6
      <4>8. table'[x] = c.val /\ table'[y] >= c.val /\ table'[y] \in Int
        BY <2>4, <2>7, <2>8, <4>3, <4>7
      <4> QED
        BY <1>2, <4>8
    <3> QED
      BY <3>1, <3>2
  <2> QED
    BY <1>12, <2>1, <2>2, <2>5, <2>9 DEF TableInv, Loops
<1>14. CASE c.left # c.i
  <2>0. c.left < c.i
    BY <1>2, <1>4, <1>14
  <2>1. /\ SortTypeOK'
        /\ \A q \in Process, k \in Nat, x \in Index :
             Held(q, k, x)' <=>
               IF q # p THEN Held(q, k, x)
               ELSE \/ k = 1 /\ x \in c.left .. c.i - 1
                    \/ k = 2 /\ x \in c.i .. c.right
                    \/ k > 2 /\ Held(p, k - 2, x)
    BY <1>4, <2>0, SplitTwoEffect DEF c, TableInv
  <2>2. Pieces'
    <3>1. PICK m \in Int : m = c.i
      BY <1>2
    <3>2. \A q \in Process, k \in Nat, x \in Index :
           Held(q, k, x)' =>
             IF q # p THEN Held(q, k, x)
             ELSE \/ k = 2 /\ m <= x /\ x <= c.right
                  \/ k = 1 /\ c.left <= x /\ x < m
                  \/ k > 2 /\ Held(p, k - 2, x)
      BY <1>2, <2>1, <3>1
    <3>3. c.left < m /\ m <= c.right
      BY <1>4, <2>0, <3>1
    <3>4. at[p] \in Busy /\ lost' = lost /\ SortTypeOK /\ Pieces
      BY <1>1 DEF TableInv, Busy
    <3>5. PICK add \in {1, 2} : add = 2
      OBVIOUS
    <3>6. \A q \in Process, k \in Nat, x \in Index :
           Held(q, k, x)' =>
             IF q # p THEN Held(q, k, x)
             ELSE \/ k = add /\ m <= x /\ x <= c.right
                  \/ add = 2 /\ k = 1 /\ c.left <= x /\ x < m
                  \/ k > add /\ Held(p, k - add, x)
      BY ONLY <3>2, <3>5
    <3> QED
      BY <1>9, <3>3, <3>4, <3>6, SplitPieces DEF c
  <2>3. table' = table
    BY <1>14 DEF Recurse, c
  <2>4. SortedApart'
    <3> SUFFICES ASSUME NEW x \in Index, NEW y \in Index, x < y, Together(x, y), ~Together(x, y)'
                 PROVE  table[x] <= table[y]
      BY <2>3, SortedKept DEF TableInv
    <3>1. /\ \A q \in Process, k \in Nat, z \in Index : q # p => (Held(q, k, z)' <=> Held(q, k, z))
          /\ \A k \in Nat, z \in Index : k > 0 => (Held(p, k + 2, z)' <=> Held(p, k, z))
      <4>1. ASSUME NEW k \in Nat, NEW z \in Index, k > 0
            PROVE  Held(p, k + 2, z)' <=> Held(p, k, z)
        <5>1. k + 2 \in Nat /\ k + 2 > 2 /\ k + 2 # 1 /\ k + 2 # 2 /\ (k + 2) - 2 = k
          BY <4>1
        <5> QED
          BY <2>1, <5>1
      <4> QED
        BY <2>1, <4>1
    <3>2. lost' = lost
      BY <1>1
    <3>3. Held(p, 0, x) /\ Held(p, 0, y)
      BY <3>1, <3>2, Separated
    <3>4. ~(Held(p, 1, x)' /\ Held(p, 1, y)') /\ ~(Held(p, 2, x)' /\ Held(p, 2, y)')
      BY DEF Together
    <3>5. /\ ~(x \in c.left .. c.i - 1 /\ y \in c.left .. c.i - 1)
          /\ ~(x \in c.i .. c.right /\ y \in c.i .. c.right)
      BY <2>1, <3>4
    <3>6. x \in Int /\ y \in Int /\ c.left <= x /\ x <= c.right /\ c.left <= y /\ y <= c.right
      BY <1>2, <1>8, <3>3
    <3>7. x < c.i /\ c.i <= y
      BY <1>2, <3>5, <3>6
    <3>8. table[x] < c.val /\ table[y] >= c.val
      <4>1. y = c.i \/ c.i < y
        BY <1>2, <3>6, <3>7
      <4> QED
        BY <1>5, <1>11, <3>6, <3>7, <4>1
    <3>9. table[x] \in Int /\ table[y] \in Int
      BY <1>2
    <3> QED
      BY <1>2, <3>8, <3>9
  <2> QED
    BY <1>12, <2>1, <2>2, <2>3, <2>4 DEF TableInv, Loops
<1> QED
  BY <1>13, <1>14

-----------------------------------------------------------------------------
(* The family of processes: who waits for whom. *)

\* The children p has forked and not waited for.
Kids(p) == {q \in Ranges : parent[q] = p /\ at[q] \notin {"none", "gone"}}

\* A call that was left to a child returns its pid, and every pid that was returned is
\* waited for once (forksort.c:76-79, 109-110): a process has as many waits before it as
\* children.
Counted == waits \in [Process -> Nat] /\ \A p \in Process : waits[p] = Cardinality(Kids(p))

\* A child sorts a proper part of what its parent sorts.
Nested ==
  \A q \in Ranges : at[q] \notin {"none", "gone"} =>
    \/ parent[q] = Main
    \/ /\ parent[q] \in Ranges /\ parent[q] # q
       /\ parent[q][1] <= q[1] /\ q[2] <= parent[q][2]

\* What holds of the processes.
Family == Idle /\ Counted /\ Nested

\* There are only so many ranges.
LEMMA KidsFinite == ASSUME NEW p \in Process PROVE IsFiniteSet(Kids(p))
<1>1. IsFiniteSet(Index \X Index)
  <2>1. IsFiniteSet(Index)
    BY FS_Interval DEF Index
  <2> QED
    BY <2>1, FS_Product
<1>2. Kids(p) \subseteq Index \X Index
  BY DEF Kids, Ranges
<1> QED
  BY <1>1, <1>2, FS_Subset

\* A step of a process that neither forks, nor waits, nor exits.
LEMMA QuietFamily ==
  ASSUME SortTypeOK, Family, NEW p \in Process, at[p] \in Busy \cup {"call"},
         NEW label \in Busy \cup {"call"}, at' = [at EXCEPT ![p] = label],
         \A q \in Process : q # p => todo'[q] = todo[q], UNCHANGED <<waits, parent>>
  PROVE  Family'
<1>1. \A q \in Process : q # p => at'[q] = at[q]
  BY DEF SortTypeOK
<1>2. at'[p] = label
  BY DEF SortTypeOK
<1>3. \A q \in Ranges : at'[q] \in {"none", "gone"} <=> at[q] \in {"none", "gone"}
  BY <1>1, <1>2, Bounds DEF Busy
<1>4. Idle'
  BY <1>1, <1>2 DEF Family, Idle, Busy
<1>5. \A u \in Process : Kids(u)' = Kids(u)
  BY <1>3 DEF Kids
<1>6. Counted'
  BY <1>5 DEF Family, Counted
<1>7. Nested'
  BY <1>3 DEF Family, Nested
<1> QED
  BY <1>4, <1>6, <1>7 DEF Family

\* A fork adds one child and one wait (forksort.c:55-56).
LEMMA ForkCallFamily ==
  ASSUME TableInv, Family, NEW p \in Process, ForkCall(p)
  PROVE  Family'
<1> DEFINE r == Head(todo[p])
<1>1. at[p] = "call" /\ todo[p] # <<>> /\ r[2] - r[1] > FORKSORT_MIN
  BY DEF ForkCall
<1>2. r \in Ranges \ {p} /\ at[r] = "none" /\ todo[r] = <<>>
  BY <1>1, HeadIsFresh DEF TableInv, Family
<1>3. \A x \in Index : x \in Span(r) <=> Held(p, 1, x)
  BY <1>1, HeadAndTail DEF TableInv
<1>4. /\ at' = [at EXCEPT ![r] = "body"] /\ parent' = [parent EXCEPT ![r] = p]
      /\ todo' = [todo EXCEPT ![p] = Tail(@)] /\ waits' = [waits EXCEPT ![p] = @ + 1]
  BY DEF ForkCall
<1> HIDE DEF r
<1>5. r \in Process /\ r[1] \in Index /\ r[2] \in Index /\ r[1] \in Span(r) /\ r[2] \in Span(r)
  BY <1>2, Bounds DEF Span
<1>6. /\ at'[r] = "body" /\ parent'[r] = p
      /\ \A q \in Process : q # r => at'[q] = at[q] /\ parent'[q] = parent[q]
      /\ \A q \in Process : q # p => todo'[q] = todo[q]
  BY <1>4, <1>5 DEF TableInv, SortTypeOK
<1>7. waits \in [Process -> Nat] /\ \A q \in Process : waits[q] = Cardinality(Kids(q))
  BY DEF Family, Counted
<1>8. /\ waits' \in [Process -> Nat] /\ waits'[p] = waits[p] + 1
      /\ \A q \in Process : q # p => waits'[q] = waits[q]
  BY <1>4, <1>7
<1>9. Idle'
  <2> SUFFICES ASSUME NEW q \in Process, at'[q] \in {"none", "zombie", "gone", "check"}
               PROVE  todo'[q] = <<>> /\ waits'[q] = 0
    BY DEF Idle
  <2>1. q # r /\ at'[q] = at[q] /\ q # p
    BY <1>1, <1>2, <1>6
  <2> QED
    BY <1>6, <1>8, <2>1 DEF Family, Idle
<1>10. ASSUME NEW u \in Process, u # p PROVE Kids(u)' = Kids(u)
  BY <1>2, <1>6, <1>10, Bounds DEF Kids
<1>11. Kids(p)' = Kids(p) \cup {r} /\ r \notin Kids(p)
  BY <1>2, <1>6, Bounds DEF Kids
<1>12. Cardinality(Kids(p) \cup {r}) = Cardinality(Kids(p)) + 1
  BY <1>11, KidsFinite, FS_AddElement
<1>13. Counted'
  <2> SUFFICES ASSUME NEW u \in Process PROVE waits'[u] = Cardinality(Kids(u)')
    BY <1>8 DEF Counted
  <2>1. CASE u = p
    BY <1>7, <1>8, <1>11, <1>12, <2>1
  <2>2. CASE u # p
    BY <1>7, <1>8, <1>10, <2>2
  <2> QED
    BY <2>1, <2>2
<1>14. Nested'
  <2> SUFFICES ASSUME NEW q \in Ranges, at'[q] \notin {"none", "gone"}
               PROVE  \/ parent'[q] = Main
                      \/ /\ parent'[q] \in Ranges /\ parent'[q] # q
                         /\ parent'[q][1] <= q[1] /\ q[2] <= parent'[q][2]
    BY DEF Nested
  <2>1. CASE q = r
    <3>1. CASE p = Main
      BY <1>6, <2>1, <3>1
    <3>2. CASE p # Main
      <4>1. p \in Ranges
        BY <3>2 DEF Process
      <4>2. r[1] \in Span(p) /\ r[2] \in Span(p)
        BY <1>3, <1>5, <4>1 DEF TableInv, Pieces, Within
      <4>3. p[1] \in Int /\ p[2] \in Int
        BY <4>1, Bounds
      <4>4. p[1] <= r[1] /\ r[2] <= p[2]
        BY <4>2, <4>3 DEF Span
      <4> QED
        BY <1>2, <1>6, <2>1, <4>1, <4>4
    <3> QED
      BY <3>1, <3>2
  <2>2. CASE q # r
    <3>1. at'[q] = at[q] /\ parent'[q] = parent[q]
      BY <1>6, <2>2, Bounds
    <3> QED
      BY <3>1 DEF Family, Nested
  <2> QED
    BY <2>1, <2>2
<1> QED
  BY <1>9, <1>13, <1>14 DEF Family

\* A wait takes one child away, whichever it is (forksort.c:77, 79, 110).
LEMMA WaitChildFamily ==
  ASSUME SortTypeOK, Family, NEW p \in Process, WaitChild(p)
  PROVE  Family'
<1>1. PICK q \in Ranges : parent[q] = p /\ at[q] = "zombie" /\ at' = [at EXCEPT ![q] = "gone"]
  BY DEF WaitChild, Move
<1>2. /\ at[p] = "call" /\ waits[p] > 0 /\ waits' = [waits EXCEPT ![p] = @ - 1]
      /\ UNCHANGED <<todo, parent>>
  BY DEF WaitChild
<1>3. q \in Process /\ q # p
  BY <1>1, <1>2, Bounds
<1>4. at'[q] = "gone" /\ \A u \in Process : u # q => at'[u] = at[u]
  BY <1>1, <1>3 DEF SortTypeOK
<1>5. waits \in [Process -> Nat] /\ \A u \in Process : waits[u] = Cardinality(Kids(u))
  BY DEF Family, Counted
<1>6. /\ waits' \in [Process -> Nat] /\ waits'[p] = waits[p] - 1
      /\ \A u \in Process : u # p => waits'[u] = waits[u]
  BY <1>2, <1>5
<1>7. Idle'
  <2> SUFFICES ASSUME NEW u \in Process, at'[u] \in {"none", "zombie", "gone", "check"}
               PROVE  todo'[u] = <<>> /\ waits'[u] = 0
    BY DEF Idle
  <2>1. u # p /\ at[u] \in {"none", "zombie", "gone", "check"}
    BY <1>1, <1>2, <1>3, <1>4
  <2> QED
    BY <1>2, <1>6, <2>1 DEF Family, Idle
<1>8. ASSUME NEW u \in Process, u # p PROVE Kids(u)' = Kids(u)
  BY <1>1, <1>2, <1>4, <1>8, Bounds DEF Kids
<1>9. Kids(p)' = Kids(p) \ {q} /\ q \in Kids(p)
  BY <1>1, <1>2, <1>4, Bounds DEF Kids
<1>10. Cardinality(Kids(p) \ {q}) = Cardinality(Kids(p)) - 1
  BY <1>9, KidsFinite, FS_RemoveElement
<1>11. Counted'
  <2> SUFFICES ASSUME NEW u \in Process PROVE waits'[u] = Cardinality(Kids(u)')
    BY <1>6 DEF Counted
  <2>1. CASE u = p
    BY <1>5, <1>6, <1>9, <1>10, <2>1
  <2>2. CASE u # p
    BY <1>5, <1>6, <1>8, <2>2
  <2> QED
    BY <2>1, <2>2
<1>12. Nested'
  <2>1. \A u \in Ranges : at'[u] \notin {"none", "gone"} => at[u] \notin {"none", "gone"}
    BY <1>4, Bounds
  <2> QED
    BY <1>2, <2>1 DEF Family, Nested
<1> QED
  BY <1>7, <1>11, <1>12 DEF Family

\* A process exits after its waits (forksort.c:82), main goes on to the check.
LEMMA ExitFamily ==
  ASSUME SortTypeOK, Family, NEW p \in Process, Exit(p)
  PROVE  Family'
<1>1. PICK label \in {"check", "zombie"} : at' = [at EXCEPT ![p] = label]
  BY DEF Exit, Move
<1>2. at[p] = "call" /\ todo[p] = <<>> /\ waits[p] = 0 /\ UNCHANGED <<todo, waits, parent>>
  BY DEF Exit, Move
<1>3. at'[p] = label /\ \A q \in Process : q # p => at'[q] = at[q]
  BY <1>1 DEF SortTypeOK
<1>4. \A q \in Ranges : at'[q] \in {"none", "gone"} <=> at[q] \in {"none", "gone"}
  BY <1>2, <1>3, Bounds
<1>5. Idle'
  BY <1>2, <1>3 DEF Family, Idle
<1>6. \A u \in Process : Kids(u)' = Kids(u)
  BY <1>2, <1>4 DEF Kids
<1>7. Counted'
  BY <1>2, <1>6 DEF Family, Counted
<1>8. Nested'
  BY <1>2, <1>4 DEF Family, Nested
<1> QED
  BY <1>5, <1>7, <1>8 DEF Family

-----------------------------------------------------------------------------
(* The theorems. *)

\* The inductive invariant.
SortIInv == TableInv /\ Family

\* At the start the table is one piece and main has to sort it (forksort.c:109).
LEMMA SortInitInv == SortInit => SortIInv
<1> SUFFICES ASSUME SortInit PROVE SortIInv
  OBVIOUS
<1>1. /\ table \in [Index -> Int]
      /\ at = [p \in Process |-> IF p = Main THEN "call" ELSE "none"]
      /\ todo = [p \in Process |-> IF p = Main THEN <<Whole>> ELSE <<>>]
      /\ call = [p \in Process |-> Enter(Whole)]
      /\ waits = [p \in Process |-> 0] /\ parent = [p \in Process |-> Main] /\ lost = {}
  BY DEF SortInit, Index
<1>2. Enter(Whole) \in Calls /\ Enter(Whole).left <= Enter(Whole).right
  BY DEF Enter, Whole, Calls, Index
<1>3. todo \in [Process -> Seq(Intervals)]
  BY <1>1, Bounds
<1>4. SortTypeOK
  BY <1>1, <1>2, <1>3, Bounds DEF SortTypeOK, SortLabels
<1>5. \A p \in Process, k \in Nat, x \in Index : Held(p, k, x) <=> p = Main /\ k = 1
  <2> TAKE p \in Process, k \in Nat, x \in Index
  <2>1. CASE k = 0
    BY <1>1, <2>1 DEF Held, Busy
  <2>2. CASE k # 0 /\ p # Main
    BY <1>1, <2>2 DEF Held
  <2>3. CASE k # 0 /\ p = Main
    <3>1. todo[p] = <<Whole>> /\ DOMAIN <<Whole>> = {1} /\ <<Whole>>[1] = Whole
      BY <1>1, <2>3
    <3>2. x \in Span(Whole)
      BY DEF Span, Whole, Index
    <3>3. Held(p, k, x) <=> k \in DOMAIN todo[p] /\ x \in Span(todo[p][k])
      BY <2>3 DEF Held
    <3> QED
      BY <2>3, <3>1, <3>2, <3>3
  <2> QED
    BY <2>1, <2>2, <2>3
<1>6. Disjoint
  BY <1>5 DEF Disjoint
<1>7. LostApart
  BY <1>1 DEF LostApart
<1>8. Fresh
  BY <1>1, Bounds DEF Fresh
<1>9. Within
  <2> SUFFICES ASSUME NEW p \in Ranges, NEW k \in Nat, NEW x \in Index, Held(p, k, x) PROVE FALSE
    BY DEF Within
  <2> QED
    BY <1>5, Bounds
<1>10. SortedApart
  <2>1. \A x, y \in Index : Held(Main, 1, x) /\ Held(Main, 1, y)
    BY <1>5, Bounds
  <2> QED
    BY <2>1, Bounds DEF SortedApart, Together
<1>11. Loops
  BY <1>1 DEF Loops, LoopOK
<1>12. Idle
  BY <1>1 DEF Idle
<1>13. Counted
  <2>1. \A p \in Process : Kids(p) = {}
    BY <1>1, Bounds DEF Kids
  <2> QED
    BY <1>1, <2>1, FS_EmptySet DEF Counted
<1>14. Nested
  BY <1>1, Bounds DEF Nested
<1> QED
  BY <1>4, <1>6, <1>7, <1>8, <1>9, <1>10, <1>11, <1>12, <1>13, <1>14
     DEF SortIInv, TableInv, Pieces, Family

\* Every step of every process preserves the invariant.
LEMMA SortStepInv ==
  ASSUME SortIInv, NEW p \in Process, SortStep(p)
  PROVE  SortIInv'
<1> USE DEF SortIInv
<1>0. SortTypeOK /\ Idle
  BY DEF TableInv, Family
<1>1. CASE ForkCall(p)
  BY <1>0, <1>1, ForkCallInv, ForkCallFamily
<1>2. CASE ForkFails(p)
  <2>1. Family'
    <3>1. /\ at[p] = "call" /\ at' = [at EXCEPT ![p] = "call"] /\ UNCHANGED <<waits, parent>>
          /\ \A q \in Process : q # p => todo'[q] = todo[q]
      BY <1>0, <1>2 DEF ForkFails, SortTypeOK
    <3> QED
      BY <1>0, <3>1, QuietFamily
  <2> QED
    BY <1>0, <1>2, <2>1, ForkFailsInv
<1>3. CASE InlineCall(p)
  <2>1. Family'
    <3>1. /\ at[p] = "call" /\ at' = [at EXCEPT ![p] = "body"] /\ UNCHANGED <<waits, parent>>
          /\ \A q \in Process : q # p => todo'[q] = todo[q]
      BY <1>0, <1>3 DEF InlineCall, Move, SortTypeOK
    <3> QED
      BY <1>0, <3>1, QuietFamily DEF Busy
  <2> QED
    BY <1>3, <2>1, InlineCallInv
<1>4. CASE Nothing(p)
  <2>1. Family'
    <3>1. /\ at[p] = "body" /\ at' = [at EXCEPT ![p] = "call"] /\ UNCHANGED <<waits, parent, todo>>
      BY <1>4 DEF Nothing, Move
    <3> QED
      BY <1>0, <3>1, QuietFamily DEF Busy
  <2> QED
    BY <1>4, <2>1, NothingInv
<1>5. CASE StartInsertion(p)
  <2>1. Family'
    <3>1. /\ at[p] = "body" /\ at' = [at EXCEPT ![p] = "insert"] /\ UNCHANGED <<waits, parent, todo>>
      BY <1>5 DEF StartInsertion, Move
    <3> QED
      BY <1>0, <3>1, QuietFamily DEF Busy
  <2> QED
    BY <1>5, <2>1, StartInsertionInv
<1>6. CASE InsertionSort(p)
  <2>1. Family'
    <3>1. /\ at[p] = "insert" /\ at' = [at EXCEPT ![p] = "insert"] /\ UNCHANGED <<waits, parent, todo>>
      BY <1>0, <1>6 DEF InsertionSort, SortTypeOK
    <3> QED
      BY <1>0, <3>1, QuietFamily DEF Busy
  <2> QED
    BY <1>6, <2>1, InsertionSortInv
<1>7. CASE EndInsertion(p)
  <2>1. Family'
    <3>1. /\ at[p] = "insert" /\ at' = [at EXCEPT ![p] = "call"] /\ UNCHANGED <<waits, parent, todo>>
      BY <1>7 DEF EndInsertion, Move
    <3> QED
      BY <1>0, <3>1, QuietFamily DEF Busy
  <2> QED
    BY <1>7, <2>1, EndInsertionInv
<1>8. CASE StartPartition(p)
  <2>1. Family'
    <3>1. /\ at[p] = "body" /\ at' = [at EXCEPT ![p] = "partition"] /\ UNCHANGED <<waits, parent, todo>>
      BY <1>8 DEF StartPartition, Move
    <3> QED
      BY <1>0, <3>1, QuietFamily DEF Busy
  <2> QED
    BY <1>8, <2>1, StartPartitionInv
<1>9. CASE Partition(p)
  <2>1. Family'
    <3>1. /\ at[p] = "partition" /\ at' = [at EXCEPT ![p] = "partition"]
          /\ UNCHANGED <<waits, parent, todo>>
      BY <1>0, <1>9 DEF Partition, SortTypeOK
    <3> QED
      BY <1>0, <3>1, QuietFamily DEF Busy
  <2> QED
    BY <1>9, <2>1, PartitionInv
<1>10. CASE Recurse(p)
  <2>1. Family'
    <3>1. /\ at[p] = "partition" /\ at' = [at EXCEPT ![p] = "call"] /\ UNCHANGED <<waits, parent>>
      BY <1>10 DEF Recurse, Move
    <3>2. \A q \in Process : q # p => todo'[q] = todo[q]
      BY <1>0, <1>10 DEF Recurse, SortTypeOK
    <3> QED
      BY <1>0, <3>1, <3>2, QuietFamily DEF Busy
  <2> QED
    BY <1>10, <2>1, SplitInv
<1>11. CASE WaitChild(p)
  <2>1. TableInv'
    <3>1. PICK q \in Ranges : at[q] = "zombie" /\ at' = [at EXCEPT ![q] = "gone"]
      BY <1>11 DEF WaitChild, Move
    <3>2. UNCHANGED <<table, todo, call, parent, lost>> /\ q \in Process
      BY <1>11, <3>1, Bounds DEF WaitChild
    <3> QED
      BY <3>1, <3>2, SortQuietInv DEF SortLabels, Busy
  <2> QED
    BY <1>0, <1>11, <2>1, WaitChildFamily
<1>12. CASE Exit(p)
  <2>1. TableInv'
    <3>1. PICK label \in {"check", "zombie"} : at' = [at EXCEPT ![p] = label]
      BY <1>12 DEF Exit, Move
    <3>2. UNCHANGED <<table, todo, call, parent, lost>> /\ at[p] = "call"
      BY <1>12 DEF Exit, Move
    <3> QED
      BY <3>1, <3>2, SortQuietInv DEF SortLabels, Busy
  <2> QED
    BY <1>0, <1>12, <2>1, ExitFamily
<1> QED
  BY <1>1, <1>2, <1>3, <1>4, <1>5, <1>6, <1>7, <1>8, <1>9, <1>10, <1>11, <1>12 DEF SortStep

\* So does a step that changes nothing.
LEMMA SortStutter == SortIInv /\ UNCHANGED sortVars => SortIInv'
<1> SUFFICES ASSUME SortIInv, UNCHANGED sortVars PROVE SortIInv'
  OBVIOUS
<1>1. UNCHANGED <<table, at, todo, call, waits, parent, lost>>
  BY DEF sortVars
<1>2. \A p \in Process, k \in Nat, x \in Index : Held(p, k, x)' <=> Held(p, k, x)
  BY <1>1 DEF Held
<1>3. SortTypeOK'
  BY <1>1 DEF SortIInv, TableInv, SortTypeOK
<1>4. Pieces'
  BY <1>1, <1>2, SamePieces DEF SortIInv, TableInv
<1>5. SortedApart'
  BY <1>1, <1>2 DEF SortIInv, TableInv, SortedApart, Together
<1>6. Loops'
  BY <1>1 DEF SortIInv, TableInv, Loops, LoopOK
<1>7. Family'
  <2>1. \A p \in Process : Kids(p)' = Kids(p)
    BY <1>1 DEF Kids
  <2> QED
    BY <1>1, <2>1 DEF SortIInv, Family, Idle, Counted, Nested
<1> QED
  BY <1>3, <1>4, <1>5, <1>6, <1>7 DEF SortIInv, TableInv

\* The invariant holds in every state the program reaches.
LEMMA SortInductive == SortSpec => []SortIInv
<1>1. SortIInv /\ [SortNext]_sortVars => SortIInv'
  BY SortStepInv, SortStutter DEF SortNext
<1> QED
  BY <1>1, SortInitInv, PTL DEF SortSpec

\* No element of the table is within the reach of two processes (forksort.c:46-87 works on
\* shared memory without a lock), for every table and every order of forks and failures.
THEOREM OneOwnerProved == SortSpec => []OneOwner
<1>1. ASSUME SortIInv PROVE OneOwner
  <2>1. ASSUME NEW p \in Process, NEW x \in Area(p)
        PROVE  x \in Index /\ \E k \in Nat : Held(p, k, x)
    <3>0. SortTypeOK
      BY <1>1 DEF SortIInv, TableInv
    <3>1. CASE x \in UNION {Span(todo[p][k]) : k \in DOMAIN todo[p]}
      <4>1. PICK k \in DOMAIN todo[p] : x \in Span(todo[p][k])
        BY <3>1
      <4>2. todo[p] \in Seq(Intervals)
        BY <3>0 DEF SortTypeOK
      <4>3. k \in Nat /\ k # 0 /\ todo[p][k] \in Intervals
        BY <4>1, <4>2
      <4>4. x \in Index
        BY <4>1, <4>3 DEF Span, Intervals, Index
      <4> QED
        BY <4>1, <4>3, <4>4 DEF Held
    <3>2. CASE at[p] \in {"body", "insert", "partition"} /\ x \in call[p].left .. call[p].right
      <4>1. call[p].left \in Index /\ call[p].right \in Index
        BY <3>0, CallTyped
      <4>2. x \in Index
        BY <3>2, <4>1 DEF Index
      <4>3. Held(p, 0, x)
        BY <3>2 DEF Held, Busy
      <4> QED
        BY <4>2, <4>3
    <3> QED
      BY <2>1, <3>1, <3>2 DEF Area
  <2> QED
    BY <1>1, <2>1 DEF OneOwner, SortIInv, TableInv, Pieces, Disjoint
<1> QED
  BY <1>1, SortInductive, PTL

\* When main verifies the table (forksort.c:112-115) it has waited for every process, and the
\* table is sorted except inside the ranges whose fork has failed.
THEOREM SortedWhenCheckedProved == SortSpec => []SortedWhenChecked
<1>1. ASSUME SortIInv PROVE SortedWhenChecked
  <2> SUFFICES ASSUME at[Main] = "check"
               PROVE  /\ \A r \in Ranges : at[r] \in {"none", "gone"}
                      /\ \A i, j \in Index :
                           i < j /\ ~(\E r \in lost : {i, j} \subseteq Span(r)) => table[i] <= table[j]
    BY DEF SortedWhenChecked
  <2>1. Idle /\ Counted /\ Nested /\ SortTypeOK
    BY <1>1 DEF SortIInv, Family, TableInv
  <2>2. ASSUME NEW q \in Ranges, at[q] \notin {"none", "gone"}
        PROVE  /\ parent[q] \in Ranges /\ at[parent[q]] \notin {"none", "gone"}
               /\ parent[q][2] - parent[q][1] > q[2] - q[1]
    <3>1. parent[q] \in Process
      BY <2>1, Bounds DEF SortTypeOK
    <3>2. q \in Kids(parent[q])
      BY <2>2 DEF Kids
    <3>3. Cardinality(Kids(parent[q])) # 0
      BY <3>1, <3>2, KidsFinite, FS_EmptySet
    <3>4. waits[parent[q]] # 0
      BY <2>1, <3>1, <3>3 DEF Counted
    <3>5. at[parent[q]] \notin {"none", "gone", "check"}
      BY <2>1, <3>1, <3>4 DEF Idle
    <3>6. parent[q] # Main
      BY <3>5
    <3>7. /\ parent[q] \in Ranges /\ parent[q] # q
          /\ parent[q][1] <= q[1] /\ q[2] <= parent[q][2]
      BY <2>1, <2>2, <3>6 DEF Nested
    <3>8. \A s, u \in Ranges : s # u /\ s[1] <= u[1] /\ u[2] <= s[2] => s[2] - s[1] > u[2] - u[1]
      <4> SUFFICES ASSUME NEW s \in Ranges, NEW u \in Ranges, s # u, s[1] <= u[1], u[2] <= s[2]
                   PROVE  s[2] - s[1] > u[2] - u[1]
        OBVIOUS
      <4>1. s = <<s[1], s[2]>> /\ u = <<u[1], u[2]>>
        BY Bounds
      <4>2. s[1] \in Int /\ s[2] \in Int /\ u[1] \in Int /\ u[2] \in Int
        BY Bounds
      <4>3. s[1] # u[1] \/ s[2] # u[2]
        BY <4>1
      <4> QED
        BY ONLY <4>2, <4>3, s[1] <= u[1], u[2] <= s[2]
    <3> QED
      BY <3>5, <3>7, <3>8
  <2>3. ASSUME NEW r \in Ranges PROVE at[r] \in {"none", "gone"}
    <3> DEFINE Room(q) == NELEMS - (q[2] - q[1])
               S == {Room(q) : q \in {q \in Ranges : at[q] \notin {"none", "gone"}}}
    <3>1. \A q \in Ranges : Room(q) \in Nat /\ q[1] \in Int /\ q[2] \in Int
      BY DEF Ranges, Index
    <3>2. S \in SUBSET Nat
      BY <3>1
    <3> SUFFICES ASSUME at[r] \notin {"none", "gone"} PROVE FALSE
      OBVIOUS
    <3>3. S # {}
      BY <2>3
    <3>4. PICK m \in S : \A y \in S : m <= y
      <4> HIDE DEF S
      <4> QED
        BY <3>2, <3>3, LeastNat
    <3>5. PICK q \in Ranges : at[q] \notin {"none", "gone"} /\ m = Room(q)
      BY <3>4
    <3>6. /\ parent[q] \in Ranges /\ at[parent[q]] \notin {"none", "gone"}
          /\ parent[q][2] - parent[q][1] > q[2] - q[1]
      BY <2>2, <3>5
    <3>7. m <= Room(parent[q])
      BY <3>4, <3>6
    <3>8. parent[q][1] \in Int /\ parent[q][2] \in Int /\ q[1] \in Int /\ q[2] \in Int
      BY <3>1, <3>6
    <3> QED
      BY <3>5, <3>6, <3>7, <3>8
  <2>4. \A p \in Process, k \in Nat, x \in Index : ~Held(p, k, x)
    <3> SUFFICES ASSUME NEW p \in Process, NEW k \in Nat, NEW x \in Index PROVE ~Held(p, k, x)
      OBVIOUS
    <3>1. at[p] \in {"none", "gone", "check"}
      BY <2>3 DEF Process
    <3>2. todo[p] = <<>>
      BY <2>1, <3>1 DEF Idle
    <3> QED
      BY <3>1, <3>2 DEF Held, Busy
  <2>5. ASSUME NEW i \in Index, NEW j \in Index, i < j,
               ~(\E r \in lost : {i, j} \subseteq Span(r))
        PROVE  table[i] <= table[j]
    <3>1. ~Together(i, j)
      BY <2>4, <2>5 DEF Together
    <3> QED
      BY <1>1, <2>5, <3>1 DEF SortIInv, TableInv, SortedApart
  <2> QED
    BY <2>3, <2>5
<1> QED
  BY <1>1, SortInductive, PTL
=============================================================================
