------------------------- MODULE PhilosophersProofs -------------------------
(***************************************************************************)
(* Proofs about module Philosophers (13/so21_lista_13/philosophers.c), for *)
(* every number N >= 2 of philosophers: each fork has at most one holder,  *)
(* neighbours do not eat together, and the table never deadlocks.          *)
(***************************************************************************)
EXTENDS Philosophers, FiniteSetTheorems, WellFoundedInduction, TLAPS

USE NAssumption

\* Every philosopher has a left neighbour, another one, and shares the left fork
\* with nobody else.
LEMMA LeftOfFacts ==
  /\ \A p \in Id : LeftOf(p) \in Id /\ LeftOf(p) # p
  /\ \A p, q \in Id : LeftOf(p) = LeftOf(q) => p = q
BY DEF Id, LeftOf

\* There are N philosophers, and any set of them is finite.
LEMMA IdFinite == IsFiniteSet(Id) /\ Cardinality(Id) = N
BY FS_Interval DEF Id

\* A set of philosophers is finite and has at most N members.
LEMMA IdSets ==
  ASSUME NEW S \in SUBSET Id
  PROVE  IsFiniteSet(S) /\ Cardinality(S) \in Nat /\ Cardinality(S) <= N
BY IdFinite, FS_Subset, FS_CardinalityType

\* The table as main() sets it (philosophers.c:47-51) satisfies the invariant.
LEMMA InitIInv == Init => IInv
<1> SUFFICES ASSUME Init PROVE IInv
  OBVIOUS
<1>1. TypeOK
  BY DEF Init, TypeOK, Labels
<1>2. ForkOwnership
  BY DEF Init, ForkOwnership, RightUser, LeftUser, HasRight, HasLeft, Id
<1>3. FootmanCount
  <2>1. At(Seated) = {}
    BY DEF Init, At, Seated
  <2> QED
    BY <2>1, FS_EmptySet DEF Init, FootmanCount
<1> QED
  BY <1>1, <1>2, <1>3 DEF IInv

\* The number of seated philosophers follows the move of the one who steps.
LEMMA SeatedMove ==
  ASSUME TypeOK, NEW p \in Id, NEW l \in Labels, pc' = [pc EXCEPT ![p] = l]
  PROVE  /\ (pc[p] \in Seated <=> l \in Seated) => At(Seated)' = At(Seated)
         /\ (pc[p] \notin Seated /\ l \in Seated) =>
               Cardinality(At(Seated)') = Cardinality(At(Seated)) + 1
         /\ (pc[p] \in Seated /\ l \notin Seated) =>
               Cardinality(At(Seated)') = Cardinality(At(Seated)) - 1
<1>0. At(Seated) \in SUBSET Id
  BY DEF At
<1>1. ASSUME pc[p] \in Seated <=> l \in Seated PROVE At(Seated)' = At(Seated)
  BY <1>1 DEF At, TypeOK, Seated
<1>2. ASSUME pc[p] \notin Seated, l \in Seated
      PROVE  Cardinality(At(Seated)') = Cardinality(At(Seated)) + 1
  <2>1. At(Seated)' = At(Seated) \cup {p} /\ p \notin At(Seated)
    BY <1>2 DEF At, TypeOK, Seated
  <2> QED
    BY <1>0, <2>1, IdSets, FS_AddElement
<1>3. ASSUME pc[p] \in Seated, l \notin Seated
      PROVE  Cardinality(At(Seated)') = Cardinality(At(Seated)) - 1
  <2>1. At(Seated)' = At(Seated) \ {p} /\ p \in At(Seated)
    BY <1>3 DEF At, TypeOK, Seated
  <2> QED
    BY <1>0, <2>1, IdSets, FS_RemoveElement
<1> QED
  BY <1>1, <1>2, <1>3

\* The footman's count: it moves with PassFootman and LeaveFootman only.
LEMMA NextFootman ==
  ASSUME TypeOK, FootmanCount, [Next]_vars
  PROVE  FootmanCount' /\ footman' \in 0 .. N - 1
<1> USE DEF Labels, Seated, Step
<1>0. /\ Cardinality(At(Seated)) \in Nat
      /\ Cardinality(At(Seated)') \in Nat
  BY IdSets DEF At
<1>1. CASE UNCHANGED vars
  <2>1. At(Seated)' = At(Seated)
    BY <1>1 DEF vars, At
  <2> QED
    BY <1>1, <2>1 DEF vars, FootmanCount, TypeOK
<1>2. ASSUME NEW p \in Id, PassFootman(p) PROVE FootmanCount' /\ footman' \in 0 .. N - 1
  <2>1. Cardinality(At(Seated)') = Cardinality(At(Seated)) + 1
    BY <1>2, SeatedMove DEF PassFootman
  <2> QED
    BY <1>0, <1>2, <2>1 DEF PassFootman, WaitFootman, FootmanCount, TypeOK
<1>3. ASSUME NEW p \in Id, LeaveFootman(p) PROVE FootmanCount' /\ footman' \in 0 .. N - 1
  <2>1. Cardinality(At(Seated)') = Cardinality(At(Seated)) - 1
    BY <1>3, SeatedMove DEF LeaveFootman
  <2> QED
    BY <1>0, <1>3, <2>1 DEF LeaveFootman, PostFootman, FootmanCount, TypeOK
<1>4. ASSUME NEW p \in Id,
             Think(p) \/ TakeRight(p) \/ TakeLeft(p) \/ Eat(p) \/ PutRight(p) \/ PutLeft(p)
      PROVE  FootmanCount' /\ footman' \in 0 .. N - 1
  <2>1. At(Seated)' = At(Seated)
    BY <1>4, SeatedMove DEF Think, TakeRight, TakeLeft, Eat, PutRight, PutLeft
  <2>2. footman' = footman
    BY <1>4 DEF Think, TakeRight, TakeLeft, Eat, PutRight, PutLeft, WaitFork, PostFork
  <2> QED
    BY <2>1, <2>2 DEF FootmanCount, TypeOK
<1> QED
  BY <1>1, <1>2, <1>3, <1>4 DEF Next, Wait, Run

\* The forks: a fork changes hands only through its semaphore.
LEMMA NextForks ==
  ASSUME TypeOK, ForkOwnership, [Next]_vars
  PROVE  ForkOwnership' /\ forks' \in [Id -> 0 .. 1] /\ pc' \in [Id -> Labels]
<1> DEFINE Goal == ForkOwnership' /\ forks' \in [Id -> 0 .. 1] /\ pc' \in [Id -> Labels]
<1> USE LeftOfFacts DEF TypeOK, ForkOwnership, RightUser, LeftUser, HasRight, HasLeft,
      Labels, Step
<1>1. CASE UNCHANGED vars
  BY <1>1 DEF vars
<1>2. ASSUME NEW p \in Id, Think(p) PROVE Goal
  BY <1>2 DEF Think
<1>3. ASSUME NEW p \in Id, PassFootman(p) PROVE Goal
  BY <1>3 DEF PassFootman, WaitFootman
<1>4. ASSUME NEW p \in Id, TakeRight(p) PROVE Goal
  BY <1>4 DEF TakeRight, WaitFork
<1>5. ASSUME NEW p \in Id, TakeLeft(p) PROVE Goal
  BY <1>5 DEF TakeLeft, WaitFork
<1>6. ASSUME NEW p \in Id, Eat(p) PROVE Goal
  BY <1>6 DEF Eat
<1>7. ASSUME NEW p \in Id, LeaveFootman(p) PROVE Goal
  BY <1>7 DEF LeaveFootman, PostFootman
<1>8. ASSUME NEW p \in Id, PutRight(p) PROVE Goal
  BY <1>8 DEF PutRight, PostFork
<1>9. ASSUME NEW p \in Id, PutLeft(p) PROVE Goal
  BY <1>9 DEF PutLeft, PostFork
<1> QED
  BY <1>1, <1>2, <1>3, <1>4, <1>5, <1>6, <1>7, <1>8, <1>9 DEF Next, Wait, Run

\* The inductive invariant holds in every reachable state: each fork has at most
\* one holder and the footman's count is exact.
THEOREM PhilosophersInvariant == Spec => []IInv
<1>1. Init => IInv
  BY InitIInv
<1>2. IInv /\ [Next]_vars => IInv'
  BY NextFootman, NextForks DEF IInv, TypeOK
<1> QED
  BY <1>1, <1>2, PTL DEF Spec

\* Two neighbours never eat together: the fork between them has one holder.
THEOREM NeighboursNeverEatTogether == Spec => []NeighboursDoNotEat
<1>1. IInv => NeighboursDoNotEat
  BY LeftOfFacts
  DEF IInv, ForkOwnership, RightUser, LeftUser, HasRight, HasLeft, NeighboursDoNotEat
<1> QED
  BY <1>1, PhilosophersInvariant, PTL

-----------------------------------------------------------------------------
\* Every nonempty set of natural numbers has a least element.
LEMMA Least ==
  ASSUME NEW T, T \subseteq Nat, T # {}
  PROVE  \E x \in T : \A y \in T : x <= y
<1>1. PICK x \in T : \A y \in T : ~(<<y, x>> \in OpToRel(<, Nat))
  BY WFMin, NatLessThanWellFounded
<1>2. \A y \in T : ~(y < x)
  BY <1>1 DEF OpToRel
<1> QED
  BY <1>2

\* The neighbour relation goes all the way round the table: a nonempty set of
\* philosophers that contains the left neighbour of each member is everybody.
LEMMA Round ==
  ASSUME NEW S \in SUBSET Id, S # {}, \A p \in S : LeftOf(p) \in S
  PROVE  S = Id
<1>1. 0 \in S
  <2>0. S \subseteq Nat
    BY DEF Id
  <2>1. PICK m \in S : \A y \in S : m <= y
    BY <2>0, Least
  <2>2. m # 0 => LeftOf(m) \in S /\ ~(m <= LeftOf(m))
    BY <2>0, <2>1 DEF LeftOf
  <2> QED
    BY <2>1, <2>2
<1>2. N - 1 \in S
  BY <1>1 DEF LeftOf
<1>3. SUFFICES ASSUME Id \ S # {} PROVE FALSE
  OBVIOUS
<1> DEFINE D == {d \in Id : N - 1 - d \notin S}
<1>4. D # {} /\ D \subseteq Nat
  <2>1. PICK p \in Id : p \notin S
    BY <1>3
  <2>2. N - 1 - p \in Id /\ N - 1 - (N - 1 - p) = p
    BY <2>1 DEF Id
  <2> QED
    BY <2>1, <2>2 DEF Id
<1>5. PICK d \in D : \A e \in D : d <= e
  BY <1>4, Least
<1>6. d # 0
  BY <1>2, <1>5 DEF Id
<1>7. d - 1 \in Id /\ ~(d <= d - 1)
  BY <1>5, <1>6 DEF Id
<1>8. N - 1 - (d - 1) \in S
  BY <1>5, <1>7
<1>9. N - 1 - (d - 1) # 0 /\ LeftOf(N - 1 - (d - 1)) = N - 1 - d
  BY <1>5, <1>6 DEF LeftOf, Id
<1> QED
  BY <1>5, <1>8, <1>9

\* The argument of philosophers.c: a philosopher who waits for the right fork
\* waits for one who has both; one who waits for the left fork waits for a
\* neighbour who, if blocked, does the same.  So if all are blocked at the forks,
\* all N are seated, one more than the footman admits.
LEMMA InvNoDeadlock == IInv => NoDeadlock
<1> SUFFICES ASSUME IInv, ~NoDeadlock PROVE FALSE
  OBVIOUS
<1> USE DEF IInv, TypeOK
<1>0. \A p \in Id :
        \/ pc[p] = "footman" /\ footman = 0
        \/ pc[p] = "right" /\ forks[p] = 0
        \/ pc[p] = "left" /\ forks[LeftOf(p)] = 0
  BY LeftOfFacts DEF NoDeadlock, CanMove, Labels
<1>1. \A p \in Id : pc[p] # "right"
  BY <1>0, LeftOfFacts DEF ForkOwnership, RightUser, LeftUser, HasRight, HasLeft
<1>2. \A p \in Id : pc[p] = "left" => pc[LeftOf(p)] = "left"
  <2> SUFFICES ASSUME NEW p \in Id, pc[p] = "left" PROVE pc[LeftOf(p)] = "left"
    OBVIOUS
  <2>1. forks[LeftOf(p)] = 0 /\ LeftOf(p) \in Id
    BY <1>0, LeftOfFacts
  <2>2. ~LeftUser(LeftOf(p))
    BY <1>0 DEF LeftUser, HasLeft
  <2>3. RightUser(LeftOf(p))
    BY <2>1, <2>2 DEF ForkOwnership
  <2> QED
    BY <1>0, <2>1, <2>3 DEF RightUser, HasRight
<1> DEFINE S == {p \in Id : pc[p] = "left"}
<1>3. CASE S = {}
  <2>1. At(Seated) = {}
    BY <1>0, <1>1, <1>3 DEF At, Seated
  <2>2. footman = N - 1
    BY <2>1, FS_EmptySet DEF FootmanCount
  <2>3. 0 \in Id /\ pc[0] = "footman"
    BY <1>0, <1>1, <1>3 DEF Id
  <2> QED
    BY <1>0, <2>2, <2>3
<1>4. CASE S # {}
  <2>0. S \in SUBSET Id /\ \A p \in S : LeftOf(p) \in S
    BY <1>2, LeftOfFacts
  <2>1. S = Id
    <3> HIDE DEF S
    <3> QED
      BY <1>4, <2>0, Round
  <2>2. At(Seated) = Id
    BY <2>1 DEF At, Seated
  <2> QED
    BY <2>2, IdFinite DEF FootmanCount
<1> QED
  BY <1>3, <1>4

\* No deadlock for any number of philosophers ("without deadlock",
\* philosophers.c:27).
THEOREM TableNeverDeadlocks == Spec => []NoDeadlock
BY InvNoDeadlock, PhilosophersInvariant, PTL
=============================================================================
