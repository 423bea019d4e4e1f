----------------------------- MODULE RamenProofs -----------------------------
(***************************************************************************)
(* Proofs about module Ramen (14/so21_lista_14/ramen.c), for every finite  *)
(* set of customers and every number of seats, on a pthread_cond_wait that *)
(* only returns after a signal.                                            *)
(***************************************************************************)
EXTENDS Ramen, FiniteSetTheorems, TLAPS

USE RamenAssumption

\* A set of customers is finite.
LEMMA CustomerSets ==
  ASSUME NEW S \in SUBSET Customer
  PROVE  IsFiniteSet(S) /\ Cardinality(S) \in Nat
BY FS_Subset, FS_CardinalityType

\* A customer who joins or leaves a set changes its cardinality by one.
LEMMA Join ==
  ASSUME NEW S \in SUBSET Customer, NEW c \in Customer, c \notin S
  PROVE  Cardinality(S \cup {c}) = Cardinality(S) + 1
BY CustomerSets, FS_AddElement

LEMMA Leave ==
  ASSUME NEW S \in SUBSET Customer, NEW c \in S
  PROVE  Cardinality(S \ {c}) = Cardinality(S) - 1
BY CustomerSets, FS_RemoveElement

\* What is left of a set when a part of it goes.
LEMMA Rest ==
  ASSUME NEW S \in SUBSET Customer, NEW T \in SUBSET S
  PROVE  Cardinality(S \ T) = Cardinality(S) - Cardinality(T)
<1>1. IsFiniteSet(S) /\ IsFiniteSet(T) /\ Cardinality(S) \in Nat /\ Cardinality(T) \in Nat
  BY CustomerSets
<1>2. S \cap T = T
  OBVIOUS
<1> QED
  BY <1>1, <1>2, FS_Difference

\* A set with one element, of which c is one, is {c}.
LEMMA OnlyMember ==
  ASSUME NEW S \in SUBSET Customer, NEW c \in S, Cardinality(S) = 1
  PROVE  S = {c}
<1>1. Cardinality(S \ {c}) = 0 /\ IsFiniteSet(S \ {c})
  BY Leave, CustomerSets
<1>2. S \ {c} = {}
  BY <1>1, FS_EmptySet
<1> QED
  BY <1>2

\* The state ramen_init makes (ramen.c:38-46) satisfies the invariant.
LEMMA InitIInv == Init => IInv
<1> SUFFICES ASSUME Init PROVE IInv
  OBVIOUS
<1>1. Served = {} /\ At({"asleep"}) = {}
  BY DEF Init, Served, At
<1>2. Cardinality(Served) = 0 /\ Cardinality(At({"asleep"})) = 0
  BY <1>1, FS_EmptySet
<1>3. TypeOK
  <2>1. waiting \in Nat /\ eating \in 0 .. max_seats
    BY DEF Init
  <2>2. must_wait \in BOOLEAN
    BY Zenon DEF Init
  <2>3. pc \in [Customer -> Labels]
    BY DEF Init, Labels
  <2> QED
    BY <2>1, <2>2, <2>3 DEF TypeOK
<1>4. SeatsCounted /\ DoorClosedWhenFull /\ QueueCounted
  BY <1>2 DEF Init, SeatsCounted, DoorClosedWhenFull, QueueCounted
<1> QED
  BY <1>3, <1>4 DEF IInv

\* What ramen_finish does when the last of a group leaves: the restaurant is
\* handed over to exactly the n customers it wakes.
LEMMA HandOver ==
  ASSUME IInv, NEW c \in Customer, RamenFinish(c), eating = 1
  PROVE  LET n == Least(waiting, max_seats) IN
         /\ Served = {c}
         /\ n \in Nat /\ n <= max_seats /\ n <= waiting
         /\ \E woken \in SUBSET At({"asleep"}) :
              /\ Cardinality(woken) = n
              /\ Served' = woken
              /\ At({"asleep"})' = At({"asleep"}) \ woken
         /\ pc' \in [Customer -> Labels]
<1> DEFINE n == Least(waiting, max_seats)
<1> USE DEF IInv, TypeOK
<1>1. Served = {c}
  <2>1. c \in Served /\ Served \in SUBSET Customer
    BY DEF RamenFinish, Served, At
  <2> QED
    BY <2>1, OnlyMember DEF SeatsCounted
<1>2. n \in Nat /\ n <= max_seats /\ n <= waiting
  BY DEF Least
<1>3. PICK woken \in SUBSET At({"asleep"}) :
        /\ Cardinality(woken) = Least(n, Cardinality(At({"asleep"})))
        /\ pc' = [x \in Customer |->
                    IF x = c THEN "home" ELSE IF x \in woken THEN "woken" ELSE pc[x]]
  BY DEF RamenFinish, SignalQueue
<1>4. Cardinality(woken) = n
  <2>1. Cardinality(At({"asleep"})) \in Nat
    BY CustomerSets DEF At
  <2> QED
    BY <1>2, <1>3, <2>1 DEF Least, QueueCounted
<1>5. c \notin woken
  BY <1>3 DEF RamenFinish, At
<1>6. \A x \in Customer : pc[x] \in {"woken", "eat"} => x = c
  BY <1>1 DEF Served, At
<1>7. Served' = woken
  BY <1>3, <1>5, <1>6 DEF Served, At
<1>8. At({"asleep"})' = At({"asleep"}) \ woken
  BY <1>3, <1>5 DEF At, RamenFinish
<1>9. pc' \in [Customer -> Labels]
  BY <1>3 DEF Labels
<1> QED
  BY <1>1, <1>2, <1>3, <1>4, <1>7, <1>8, <1>9

\* Every step preserves the invariant.
LEMMA NextIInv ==
  ASSUME IInv, [Next]_vars
  PROVE  IInv'
<1> USE DEF IInv, TypeOK, SeatsCounted, DoorClosedWhenFull, QueueCounted, Goto
<1>0. /\ Served \in SUBSET Customer /\ Cardinality(Served) \in Nat
      /\ At({"asleep"}) \in SUBSET Customer /\ Cardinality(At({"asleep"})) \in Nat
      /\ Cardinality(At({"asleep"})') \in Nat
  BY CustomerSets DEF Served, At
<1>1. CASE UNCHANGED vars
  <2>1. Served' = Served /\ At({"asleep"})' = At({"asleep"})
    BY <1>1 DEF vars, Served, At
  <2> QED
    BY <1>1, <2>1 DEF vars
<1>2. ASSUME NEW c \in Customer, GetHungry(c) \/ RamenWakeUp(c) PROVE IInv'
  <2>1. Served' = Served /\ At({"asleep"})' = At({"asleep"})
    BY <1>2 DEF GetHungry, RamenWakeUp, Served, At
  <2>2. pc' \in [Customer -> Labels]
    BY <1>2 DEF GetHungry, RamenWakeUp, Labels
  <2> QED
    BY <1>2, <2>1, <2>2 DEF GetHungry, RamenWakeUp
<1>3. ASSUME NEW c \in Customer, RamenQueue(c) PROVE IInv'
  <2>1. Served' = Served
    BY <1>3 DEF RamenQueue, Served, At
  <2>2. At({"asleep"})' = At({"asleep"}) \cup {c} /\ c \notin At({"asleep"})
    BY <1>3 DEF RamenQueue, At
  <2>3. Cardinality(At({"asleep"})') = Cardinality(At({"asleep"})) + 1
    BY <1>0, <2>2, Join
  <2>4. pc' \in [Customer -> Labels]
    BY <1>3 DEF RamenQueue, Labels
  <2> QED
    BY <1>0, <1>3, <2>1, <2>3, <2>4 DEF RamenQueue
<1>4. ASSUME NEW c \in Customer, RamenEnter(c) PROVE IInv'
  <2>1. Served' = Served \cup {c} /\ c \notin Served
    BY <1>4 DEF RamenEnter, Served, At
  <2>2. Cardinality(Served') = Cardinality(Served) + 1
    BY <1>0, <2>1, Join
  <2>3. At({"asleep"})' = At({"asleep"})
    BY <1>4 DEF RamenEnter, At
  <2>4. pc' \in [Customer -> Labels]
    BY <1>4 DEF RamenEnter, Labels
  <2>5. eating' \in 0 .. max_seats
    BY <1>4 DEF RamenEnter
  <2>6. must_wait' \in BOOLEAN /\ (eating' = max_seats => must_wait')
    BY <1>4 DEF RamenEnter
  <2> QED
    BY <1>0, <1>4, <2>2, <2>3, <2>4, <2>5, <2>6 DEF RamenEnter
<1>5. ASSUME NEW c \in Customer, RamenFinish(c) PROVE IInv'
  <2>1. CASE eating = 1
    <3> DEFINE n == Least(waiting, max_seats)
    <3>1. waiting' = 0 /\ eating' = n /\ must_wait' = (n = max_seats)
      BY <1>5, <2>1 DEF RamenFinish
    <3>2. n \in Nat /\ n <= max_seats /\ Cardinality(Served') = n
            /\ pc' \in [Customer -> Labels]
      BY <1>5, <2>1, HandOver
    <3>3. must_wait' \in BOOLEAN /\ (eating' = max_seats => must_wait')
      BY <3>1
    <3> QED
      BY <1>0, <3>1, <3>2, <3>3
  <2>2. CASE eating # 1
    <3>1. eating' = eating - 1 /\ pc[c] = "eat" /\ pc' = [pc EXCEPT ![c] = "home"]
            /\ UNCHANGED <<waiting, must_wait>>
      BY <1>5, <2>2 DEF RamenFinish
    <3>2. Served' = Served \ {c} /\ c \in Served
      BY <3>1 DEF Served, At
    <3>3. Cardinality(Served') = Cardinality(Served) - 1 /\ Cardinality(Served') \in Nat
      BY <1>0, <3>2, Leave, CustomerSets
    <3>4. At({"asleep"})' = At({"asleep"})
      BY <3>1 DEF At
    <3>5. pc' \in [Customer -> Labels]
      BY <3>1 DEF Labels
    <3> QED
      BY <1>0, <3>1, <3>3, <3>4, <3>5
  <2> QED
    BY <2>1, <2>2
<1> QED
  BY <1>1, <1>2, <1>3, <1>4, <1>5 DEF Next, Run

\* The counters are exact, for any number of customers and seats.
THEOREM RamenInvariant == Spec => []IInv
<1>1. Init => IInv
  BY InitIInv
<1>2. IInv /\ [Next]_vars => IInv'
  BY NextIInv
<1> QED
  BY <1>1, <1>2, PTL DEF Spec

\* There is a seat for everybody who is let in (ramen.c:55).
THEOREM SeatForEveryone == Spec => []NotOvercrowded
<1>1. IInv => NotOvercrowded
  BY DEF IInv, TypeOK, SeatsCounted, NotOvercrowded
<1> QED
  BY <1>1, RamenInvariant, PTL

\* A group that filled the restaurant is gone before anybody else gets in.
THEOREM GroupsDoNotMix == Spec => GroupLeaves
<1>1. IInv /\ [Next]_vars => [GroupStep]_vars
  <2> SUFFICES ASSUME IInv, Next, must_wait, ~must_wait' \/ Served' \ Served # {}
               PROVE  Served \cap Served' = {}
    BY DEF GroupStep
  <2> USE DEF IInv, TypeOK
  <2>1. PICK c \in Customer : Run(c)
    BY DEF Next
  <2>2. CASE GetHungry(c) \/ RamenQueue(c) \/ RamenWakeUp(c) \/ RamenEnter(c)
    BY <2>2 DEF GetHungry, RamenQueue, RamenWakeUp, RamenEnter, Goto, Served, At
  <2>3. CASE RamenFinish(c) /\ eating = 1
    <3>1. Served = {c} /\ pc[c] = "eat" /\ Served' \subseteq At({"asleep"})
      BY <2>3, HandOver DEF RamenFinish
    <3> QED
      BY <3>1 DEF At
  <2>4. CASE RamenFinish(c) /\ eating # 1
    BY <2>4 DEF RamenFinish, Goto, Served, At
  <2> QED
    BY <2>1, <2>2, <2>3, <2>4 DEF Run
<1> QED
  BY <1>1, RamenInvariant, PTL DEF Spec, GroupLeaves

-----------------------------------------------------------------------------
\* The customers nobody will signal for are few, for any number of customers and seats:
\* the reset of the queue (ramen.c:74) never leaves fewer customers than fill the
\* restaurant and one more.  With main()'s ten customers and five seats at most four sleep
\* uncounted, and in a party of at most one more than the seats nobody does.
THEOREM FewForgottenProved == Spec => []FewForgotten
<1> DEFINE Asleep == At({"asleep"})
<1>1. Init => FewForgotten
  <2> SUFFICES ASSUME Init PROVE FewForgotten
    OBVIOUS
  <2>1. Asleep = {}
    BY DEF Init, At
  <2>2. Cardinality(Asleep) = 0
    BY <2>1, FS_EmptySet
  <2> QED
    BY <2>2 DEF Init, FewForgotten, Forgotten
<1>2. ASSUME IInv, FewForgotten, [Next]_vars PROVE FewForgotten'
  <2> USE <1>2 DEF IInv, TypeOK, FewForgotten, Forgotten, Goto
  <2>0. /\ Asleep \in SUBSET Customer /\ Cardinality(Asleep) \in Nat
        /\ IsFiniteSet(Asleep) /\ Cardinality(Customer) \in Nat
    BY CustomerSets, FS_CardinalityType DEF At
  <2>1. CASE UNCHANGED vars
    BY <2>1 DEF vars, At
  <2>2. ASSUME NEW c \in Customer, GetHungry(c) \/ RamenWakeUp(c) \/ RamenEnter(c)
        PROVE  FewForgotten'
    <3>1. Asleep' = Asleep /\ waiting' = waiting
      BY <2>2 DEF GetHungry, RamenWakeUp, RamenEnter, At
    <3> QED
      BY <3>1
  <2>3. ASSUME NEW c \in Customer, RamenQueue(c) PROVE FewForgotten'
    <3>1. Asleep' = Asleep \cup {c} /\ c \notin Asleep /\ waiting' = waiting + 1
      BY <2>3 DEF RamenQueue, At
    <3>2. Cardinality(Asleep') = Cardinality(Asleep) + 1
      BY <2>0, <3>1, Join
    <3> QED
      BY <2>0, <3>1, <3>2
  <2>4. ASSUME NEW c \in Customer, RamenFinish(c), eating = 1 PROVE FewForgotten'
    <3>1. waiting' = 0
      BY <2>4 DEF RamenFinish
    <3>2. PICK woken \in SUBSET Asleep :
            Cardinality(woken) = Least(waiting, max_seats) /\ Asleep' = Asleep \ woken
      BY <2>4, HandOver
    <3>3. Cardinality(Asleep') = Cardinality(Asleep) - Least(waiting, max_seats)
      BY <2>0, <3>2, Rest
    <3>4. Cardinality(Asleep) < Cardinality(Customer)
      <4>1. Asleep \in SUBSET (Customer \ {c})
        BY <2>4 DEF RamenFinish, At
      <4>2. IsFiniteSet(Customer \ {c}) /\ Cardinality(Customer \ {c}) = Cardinality(Customer) - 1
        BY FS_RemoveElement
      <4>3. Cardinality(Asleep) <= Cardinality(Customer \ {c})
        BY <4>1, <4>2, FS_Subset
      <4> QED
        BY <2>0, <4>2, <4>3
    <3>5. CASE waiting < max_seats
      BY <2>0, <3>1, <3>3, <3>5 DEF Least
    <3>6. CASE waiting >= max_seats
      BY <2>0, <3>1, <3>3, <3>4, <3>6 DEF Least
    <3> QED
      BY <3>5, <3>6
  <2>5. ASSUME NEW c \in Customer, RamenFinish(c), eating # 1 PROVE FewForgotten'
    <3>1. Asleep' = Asleep /\ waiting' = waiting
      BY <2>5 DEF RamenFinish, At
    <3> QED
      BY <3>1
  <2> QED
    BY <2>1, <2>2, <2>3, <2>4, <2>5 DEF Next, Run
<1> QED
  BY <1>1, <1>2, RamenInvariant, PTL DEF Spec
=============================================================================
