----------------------------- MODULE RideProofs -----------------------------
(***************************************************************************)
(* Proofs about module Ride (14/so21_lista_14/ride.c), for every finite    *)
(* set of passengers, every number of seats, every order in which the      *)
(* threads start and everything that want_to_leave_count may start with.   *)
(***************************************************************************)
EXTENDS Ride, FiniteSetTheorems, TLAPS

USE RideAssumption

\* Who queues or was called and has not boarded yet; who was called; who sleeps on cart;
\* who sleeps on want_to_leave.
Queued == At({"queue", "called"})
Called == At({"called"})
Seated == At({"seated"})
Leaving == At({"leaving"})

\* The lines up to the departure, and the lines after it.
Loads == {"load74", "spin82", "load83"}
Boards == Loads \cup {"wait94", "go95"}
Rides == {"ride160", "wait106", "unload107"}

\* waiting counts who queues, the ones included who were called.
QueueCounted == waiting = Cardinality(Queued)

\* Until the departure riding counts who sleeps on cart.  The cart is told once that it
\* is full, by the passenger who takes the last seat, and stays full from then on.
FullOnce ==
  ~aborted =>
    /\ riding <= seats
    /\ cart \in Boards => riding = Cardinality(Seated)
    /\ cart \in Rides => Seated = {}
    /\ cart \in Loads \cup {"wait94"} => all_ready = IF riding = seats THEN 1 ELSE 0
    /\ cart \in {"go95"} \cup Rides => all_ready = 0 /\ riding = seats

\* Before the first ride the queue is open and empty.
FirstRound == riding = 0 /\ waiting = 0

\* As long as nobody gets in between: those who queue are called only while the cart
\* spins, as many as it waits for, and until then the queue is closed to others.
CallIn ==
  ~early =>
    /\ ~aborted
    /\ cart # "spin82" => Called = {}
    /\ cart \in Loads => must_wait \/ FirstRound
    /\ cart = "load74" => riding = 0
    /\ cart = "spin82" => riding + Cardinality(Called) = min
    /\ cart = "load83" => riding = min
    /\ cart = "wait94" => (must_wait <=> riding = seats)
    /\ cart \in {"go95"} \cup Rides => must_wait

\* Until the departure all riders sleep on cart, and nobody has asked to leave.
Boarding ==
  cart \in Boards =>
    /\ InCart = Seated
    /\ passengers_ready_to_leave = 0
    /\ want_to_leave_count \in {0, start}

\* Who wants to leave has been added to what want_to_leave_count held at first, until the
\* last one reports it.
LeavingCounted ==
  \E g \in {0, start} :
    want_to_leave_count = g + Cardinality(Leaving) /\ (g = 0 => Leaving # InCart)

\* After the departure the doors open for all.
Unboarding ==
  cart \in Rides =>
    /\ passengers_ready_to_leave \in 0 .. 1
    /\ cart = "unload107" => passengers_ready_to_leave = 0
    /\ IF passengers_ready_to_leave = 1 \/ cart = "unload107"
         THEN Leaving = InCart /\ want_to_leave_count = 0
         ELSE LeavingCounted

\* With a harmless initial want_to_leave_count riding counts who is in the cart.
Riders ==
  GoodStart =>
    /\ riding = Cardinality(InCart)
    /\ ~aborted => Boarding /\ Unboarding

RideInv == TypeOK /\ QueueCounted /\ FullOnce /\ CallIn /\ Riders

-----------------------------------------------------------------------------
\* A set of passengers is finite, and a part of it that is as large is all of it.
LEMMA PassengerSets ==
  ASSUME NEW S \in SUBSET Passenger
  PROVE  /\ IsFiniteSet(S) /\ Cardinality(S) \in Nat /\ Cardinality(S) \in 0 .. Cardinality(Passenger)
         /\ Cardinality(S) = 0 <=> S = {}
         /\ \A T \in SUBSET S : /\ Cardinality(T) <= Cardinality(S)
                                /\ Cardinality(T) = Cardinality(S) => T = S
<1>1. IsFiniteSet(S) /\ Cardinality(S) \in Nat /\ Cardinality(S) <= Cardinality(Passenger)
  BY FS_Subset, FS_CardinalityType
<1>2. Cardinality(Passenger) \in Nat
  BY FS_CardinalityType
<1>3. Cardinality(S) = 0 <=> S = {}
  BY <1>1, FS_EmptySet
<1>4. \A T \in SUBSET S : /\ Cardinality(T) <= Cardinality(S)
                          /\ Cardinality(T) = Cardinality(S) => T = S
  BY <1>1, FS_Subset
<1> QED
  BY <1>1, <1>2, <1>3, <1>4

\* A passenger who joins or leaves a set changes its cardinality by one.
LEMMA Joins ==
  ASSUME NEW S \in SUBSET Passenger, NEW p \in Passenger, p \notin S
  PROVE  Cardinality(S \cup {p}) = Cardinality(S) + 1
BY PassengerSets, FS_AddElement

LEMMA Parts ==
  ASSUME NEW S \in SUBSET Passenger, NEW p \in S
  PROVE  Cardinality(S \ {p}) = Cardinality(S) - 1
BY PassengerSets, FS_RemoveElement

LEMMA SetsOfPassengers ==
  /\ Queued \in SUBSET Passenger /\ Called \in SUBSET Passenger /\ Seated \in SUBSET Passenger
  /\ Leaving \in SUBSET Passenger /\ InCart \in SUBSET Passenger
  /\ Seated \subseteq InCart /\ Leaving \subseteq InCart /\ Called \subseteq Queued
BY DEF Queued, Called, Seated, Leaving, InCart, At

\* A passenger who goes from one label to another moves from the sets with the first to
\* those with the second.
LEMMA Move ==
  ASSUME TypeOK, NEW p \in Passenger, NEW from, NEW to \in Labels, Goto(p, from, to)
  PROVE  /\ pc' \in [Passenger -> Labels]
         /\ \A L : /\ p \in At(L) <=> from \in L
                   /\ At(L)' = IF to \in L THEN At(L) \cup {p} ELSE At(L) \ {p}
BY DEF TypeOK, Goto, At

\* With at least as many signals as passengers asleep at a label, all of them wake up.
LEMMA SignalsAll ==
  ASSUME TypeOK, NEW k \in Nat, NEW from \in Labels, NEW to \in Labels, Signals(k, from, to),
         k >= Cardinality(At({from}))
  PROVE  pc' = [p \in Passenger |-> IF pc[p] = from THEN to ELSE pc[p]]
<1>1. At({from}) \in SUBSET Passenger
  BY DEF At
<1>2. PICK woken \in SUBSET At({from}) :
        /\ Cardinality(woken) = IF k < Cardinality(At({from})) THEN k ELSE Cardinality(At({from}))
        /\ pc' = [p \in Passenger |-> IF p \in woken THEN to ELSE pc[p]]
  BY DEF Signals
<1>3. Cardinality(At({from})) \in Nat
  BY <1>1, PassengerSets
<1>4. Cardinality(woken) = Cardinality(At({from}))
  BY <1>2, <1>3
<1>5. woken = At({from})
  BY <1>1, <1>4, PassengerSets
<1> QED
  BY <1>1, <1>2, <1>5 DEF At, TypeOK

-----------------------------------------------------------------------------
\* The state that ride_init makes (ride.c:49-60), whatever want_to_leave_count holds.
LEMMA RideInit ==
  ASSUME Init
  PROVE  RideInv
<1>1. Queued = {} /\ Called = {} /\ Seated = {} /\ Leaving = {} /\ InCart = {}
  BY DEF Init, Queued, Called, Seated, Leaving, InCart, At
<1>2. Cardinality(Queued) = 0 /\ Cardinality(InCart) = 0 /\ Cardinality(Seated) = 0
  BY <1>1, FS_EmptySet
<1>3. cart = "load74" /\ must_wait = FALSE /\ aborted = FALSE /\ early = FALSE
  BY DEF Init
<1>4. TypeOK
  <2>1. must_wait \in BOOLEAN /\ aborted \in BOOLEAN /\ early \in BOOLEAN
    BY <1>3
  <2>2. Cardinality(Passenger) \in Nat
    BY FS_CardinalityType
  <2> QED
    BY <1>3, <2>1, <2>2 DEF Init, TypeOK, Labels, CartLabels
<1>5. QueueCounted /\ FullOnce
  BY <1>2, <1>3 DEF Init, QueueCounted, FullOnce, Boards, Loads, Rides
<1>6. CallIn
  BY <1>1, <1>3 DEF Init, CallIn, FirstRound, Loads, Rides
<1>7. Riders
  BY <1>1, <1>2, <1>3 DEF Init, Riders, Boarding, Unboarding, Boards, Loads, Rides
<1> QED
  BY <1>4, <1>5, <1>6, <1>7 DEF RideInv

\* The cart calls in those who queue (ride.c:74-80).
LEMMA LoadWaitingKeeps ==
  ASSUME RideInv, LoadWaiting
  PROVE  RideInv'
<1> USE DEF RideInv, TypeOK
<1>0. /\ cart = "load74" /\ cart' = "spin82" /\ ~aborted
      /\ UNCHANGED <<waiting, want_to_leave_count, riding, must_wait, all_ready,
                     passengers_ready_to_leave, aborted, start, early>>
  BY DEF LoadWaiting, CartGoto, fields
<1>1. At({"queue"}) \in SUBSET Passenger /\ At({"queue"}) \subseteq Queued
  BY DEF Queued, At
<1>2. min' = IF waiting < seats THEN waiting ELSE seats
  BY DEF LoadWaiting
<1>3. min' \in 0 .. seats /\ min' <= waiting
  BY <1>2
<1>4. PICK woken \in SUBSET At({"queue"}) :
        /\ Cardinality(woken) = IF min' < Cardinality(At({"queue"})) THEN min' ELSE Cardinality(At({"queue"}))
        /\ pc' = [p \in Passenger |-> IF p \in woken THEN "called" ELSE pc[p]]
  BY DEF LoadWaiting, Signals
<1>5. pc' \in [Passenger -> Labels]
  BY <1>4 DEF Labels
<1>6. Queued' = Queued
  BY <1>1, <1>4 DEF Queued, At
<1>7. Seated' = Seated /\ InCart' = InCart /\ Leaving' = Leaving
  BY <1>1, <1>4 DEF Seated, InCart, Leaving, At
<1>8. TypeOK'
  BY <1>0, <1>3, <1>5 DEF CartLabels
<1>9. QueueCounted' /\ FullOnce'
  BY <1>0, <1>6, <1>7 DEF QueueCounted, FullOnce, Boards, Loads, Rides
<1>10. Riders'
  BY <1>0, <1>7 DEF Riders, GoodStart, Boarding, Unboarding, Boards, Loads, Rides
<1>11. CallIn'
  <2> SUFFICES ASSUME ~early PROVE CallIn'
    BY <1>0 DEF CallIn
  <2>1. Called = {} /\ riding = 0 /\ (must_wait \/ FirstRound)
    BY <1>0 DEF CallIn, Loads
  <2>2. Queued = At({"queue"})
    BY <2>1 DEF Queued, Called, At
  <2>3. waiting = Cardinality(At({"queue"})) /\ waiting \in Nat
    BY <2>2 DEF QueueCounted
  <2>4. Cardinality(woken) = min'
    BY <1>3, <1>4, <2>3
  <2>5. Called' = woken
    BY <1>1, <1>4, <2>1 DEF Called, At
  <2>6. riding' + Cardinality(Called') = min'
    <3>1. riding' = 0 /\ Cardinality(woken) \in Nat
      BY <1>0, <1>3, <2>1, <2>4
    <3>2. riding' + Cardinality(woken) = Cardinality(woken)
      BY ONLY <3>1
    <3> QED
      BY <2>4, <2>5, <3>2
  <2>7. (must_wait \/ FirstRound)'
    BY <1>0, <2>1 DEF FirstRound
  <2> QED
    BY <1>0, <2>6, <2>7 DEF CallIn, Loads, Rides
<1> QED
  BY <1>8, <1>9, <1>10, <1>11

\* A step that moves nobody leaves the sets of passengers alone.
LEMMA SetsStay ==
  ASSUME UNCHANGED pc
  PROVE  UNCHANGED <<Queued, Called, Seated, Leaving, InCart>>
BY DEF Queued, Called, Seated, Leaving, InCart, At

\* The busy loop ends; with nobody in between, everyone who was called sits (ride.c:82).
LEMMA SpinDoneKeeps ==
  ASSUME RideInv, SpinDone
  PROVE  RideInv'
<1> USE DEF RideInv, TypeOK
<1>0. /\ cart = "spin82" /\ cart' = "load83" /\ riding = min /\ ~aborted
      /\ UNCHANGED <<waiting, want_to_leave_count, riding, must_wait, all_ready,
                     passengers_ready_to_leave, min, pc, aborted, start, early>>
  BY DEF SpinDone, CartGoto, fields
<1>1. UNCHANGED <<Queued, Called, Seated, Leaving, InCart>>
  BY <1>0, SetsStay
<1>2. TypeOK'
  BY <1>0 DEF CartLabels
<1>3. QueueCounted' /\ FullOnce'
  BY <1>0, <1>1 DEF QueueCounted, FullOnce, Boards, Loads, Rides
<1>4. Riders'
  BY <1>0, <1>1 DEF Riders, GoodStart, Boarding, Unboarding, Boards, Loads, Rides
<1>5. CallIn'
  <2> SUFFICES ASSUME ~early PROVE CallIn'
    BY <1>0 DEF CallIn
  <2>1. Cardinality(Called) \in Nat
    BY SetsOfPassengers, PassengerSets
  <2>2. Cardinality(Called) = 0
    BY <1>0, <2>1 DEF CallIn
  <2>3. Called = {}
    BY <2>2, SetsOfPassengers, PassengerSets
  <2> QED
    BY <1>0, <1>1, <2>3 DEF CallIn, FirstRound, Loads, Rides
<1> QED
  BY <1>2, <1>3, <1>4, <1>5

\* The queue is opened unless the cart waited for a full load (ride.c:83-93).
LEMMA OpenQueueKeeps ==
  ASSUME RideInv, OpenQueue
  PROVE  RideInv'
<1> USE DEF RideInv, TypeOK
<1>0. /\ cart = "load83" /\ cart' = "wait94" /\ ~aborted
      /\ UNCHANGED <<waiting, want_to_leave_count, riding, all_ready,
                     passengers_ready_to_leave, min, pc, aborted, start, early>>
      /\ must_wait' = IF min < seats THEN FALSE ELSE must_wait
  BY DEF OpenQueue, CartGoto
<1>1. UNCHANGED <<Queued, Called, Seated, Leaving, InCart>>
  BY <1>0, SetsStay
<1>2. must_wait' \in BOOLEAN
  BY <1>0, Zenon
<1>3. TypeOK'
  BY <1>0, <1>2 DEF CartLabels
<1>4. QueueCounted' /\ FullOnce'
  BY <1>0, <1>1 DEF QueueCounted, FullOnce, Boards, Loads, Rides
<1>5. Riders'
  BY <1>0, <1>1 DEF Riders, GoodStart, Boarding, Unboarding, Boards, Loads, Rides
<1>6. CallIn'
  <2> SUFFICES ASSUME ~early PROVE CallIn'
    BY <1>0 DEF CallIn
  <2>1. riding = min /\ Called = {} /\ (must_wait \/ FirstRound)
    BY <1>0 DEF CallIn, Loads
  <2>2. must_wait' <=> riding = seats
    BY <1>0, <2>1 DEF FirstRound
  <2> QED
    BY <1>0, <1>1, <2>1, <2>2 DEF CallIn, Loads, Rides
<1> QED
  BY <1>3, <1>4, <1>5, <1>6

\* The cart learns that it is full (ride.c:94).
LEMMA WaitAllReadyKeeps ==
  ASSUME RideInv, WaitAllReady
  PROVE  RideInv'
<1> USE DEF RideInv, TypeOK
<1>0. /\ cart = "wait94" /\ cart' = "go95" /\ all_ready > 0 /\ all_ready' = all_ready - 1 /\ ~aborted
      /\ UNCHANGED <<waiting, want_to_leave_count, riding, must_wait, passengers_ready_to_leave,
                     min, pc, aborted, start, early>>
  BY DEF WaitAllReady, CartGoto
<1>1. UNCHANGED <<Queued, Called, Seated, Leaving, InCart>>
  BY <1>0, SetsStay
<1>2. riding = seats /\ all_ready' = 0
  BY <1>0 DEF FullOnce, Loads
<1>3. TypeOK'
  BY <1>0, <1>2 DEF CartLabels, Labels
<1>4. QueueCounted' /\ FullOnce'
  BY <1>0, <1>1, <1>2 DEF QueueCounted, FullOnce, Boards, Loads, Rides
<1>5. Riders'
  BY <1>0, <1>1 DEF Riders, GoodStart, Boarding, Unboarding, Boards, Loads, Rides
<1>6. CallIn'
  BY <1>0, <1>1, <1>2 DEF CallIn, Loads, Rides
<1> QED
  BY <1>3, <1>4, <1>5, <1>6

\* Everyone in the cart is told that it departs (ride.c:95-98).
LEMMA DepartKeeps ==
  ASSUME RideInv, Depart
  PROVE  RideInv'
<1> USE DEF RideInv, TypeOK
<1>0. /\ cart = "go95" /\ cart' = "ride160" /\ Signals(riding, "seated", "ride") /\ ~aborted
      /\ UNCHANGED <<waiting, want_to_leave_count, riding, must_wait, all_ready,
                     passengers_ready_to_leave, min, aborted, start, early>>
  BY DEF Depart, CartGoto, fields
<1>1. riding = Cardinality(Seated) /\ riding = seats /\ all_ready = 0
  BY <1>0 DEF FullOnce, Boards
<1>2. pc' = [p \in Passenger |-> IF pc[p] = "seated" THEN "ride" ELSE pc[p]]
  <2>1. PICK k \in Nat : k = riding
    BY <1>0
  <2>2. Signals(k, "seated", "ride") /\ k >= Cardinality(At({"seated"}))
    BY <1>0, <1>1, <2>1 DEF Seated
  <2> QED
    BY <2>2, SignalsAll DEF Labels
<1>3. Queued' = Queued /\ Called' = Called
  BY <1>2 DEF Queued, Called, At
<1>4. Seated' = {} /\ InCart' = InCart /\ Leaving' = Leaving
  BY <1>2 DEF Seated, InCart, Leaving, At
<1>5. TypeOK'
  BY <1>0, <1>2 DEF CartLabels, Labels
<1>6. QueueCounted' /\ FullOnce'
  BY <1>0, <1>1, <1>3, <1>4 DEF QueueCounted, FullOnce, Boards, Loads, Rides
<1>7. CallIn'
  BY <1>0, <1>3 DEF CallIn, Loads, Rides
<1>8. Riders'
  <2> SUFFICES ASSUME GoodStart PROVE Riders'
    BY <1>0 DEF Riders, GoodStart
  <2>1. /\ riding = Cardinality(InCart) /\ InCart = Seated
        /\ passengers_ready_to_leave = 0 /\ want_to_leave_count \in {0, start}
    BY <1>0 DEF Riders, Boarding, Boards
  <2>2. Leaving' = {}
    <3>1. Leaving = {}
      BY <2>1 DEF Seated, InCart, Leaving, At
    <3> QED
      BY <1>4, <3>1
  <2>3. LeavingCounted'
    <3>1. Cardinality(Leaving') = 0
      BY <2>2, FS_EmptySet
    <3>2. InCart' # {}
      BY <1>1, <1>4, <2>1, SetsOfPassengers, PassengerSets
    <3>3. PICK g \in {0, start} : want_to_leave_count = g /\ g \in Int
      BY <2>1
    <3>4. want_to_leave_count' = g + Cardinality(Leaving') /\ g \in {0, start'}
      BY <1>0, <3>1, <3>3
    <3> QED
      BY <2>2, <3>2, <3>4 DEF LeavingCounted
  <2>4. Boarding' /\ Unboarding'
    BY <1>0, <2>1, <2>3 DEF Boarding, Unboarding, Boards, Loads, Rides
  <2> QED
    BY <1>0, <1>4, <2>1, <2>4 DEF Riders
<1> QED
  BY <1>5, <1>6, <1>7, <1>8

LEMMA LeavingStays ==
  ASSUME UNCHANGED <<want_to_leave_count, start, Leaving, InCart>>
  PROVE  LeavingCounted' <=> LeavingCounted
BY DEF LeavingCounted

\* The ride (ride.c:160).
LEMMA RideEndsKeeps ==
  ASSUME RideInv, RideEnds
  PROVE  RideInv'
<1> USE DEF RideInv, TypeOK
<1>0. /\ cart = "ride160" /\ cart' = "wait106" /\ ~aborted
      /\ UNCHANGED <<waiting, want_to_leave_count, riding, must_wait, all_ready,
                     passengers_ready_to_leave, min, pc, aborted, start, early>>
  BY DEF RideEnds, CartGoto, fields
<1>1. UNCHANGED <<Queued, Called, Seated, Leaving, InCart>>
  BY <1>0, SetsStay
<1>2. TypeOK'
  BY <1>0 DEF CartLabels
<1>3. QueueCounted' /\ FullOnce'
  BY <1>0, <1>1 DEF QueueCounted, FullOnce, Boards, Loads, Rides
<1>4. CallIn'
  BY <1>0, <1>1 DEF CallIn, Loads, Rides
<1>5. Boarding' /\ (Unboarding => Unboarding')
  BY <1>0, <1>1, LeavingStays DEF Boarding, Unboarding, Boards, Loads, Rides
<1>6. Riders'
  BY <1>0, <1>1, <1>5 DEF Riders, GoodStart
<1> QED
  BY <1>2, <1>3, <1>4, <1>6

\* The cart learns that all want to leave (ride.c:106).
LEMMA WaitReadyToLeaveKeeps ==
  ASSUME RideInv, WaitReadyToLeave
  PROVE  RideInv'
<1> USE DEF RideInv, TypeOK
<1>0. /\ cart = "wait106" /\ cart' = "unload107" /\ passengers_ready_to_leave > 0 /\ ~aborted
      /\ passengers_ready_to_leave' = passengers_ready_to_leave - 1
      /\ UNCHANGED <<waiting, want_to_leave_count, riding, must_wait, all_ready,
                     min, pc, aborted, start, early>>
  BY DEF WaitReadyToLeave, CartGoto
<1>1. UNCHANGED <<Queued, Called, Seated, Leaving, InCart>>
  BY <1>0, SetsStay
<1>2. TypeOK'
  BY <1>0 DEF CartLabels, Labels
<1>3. QueueCounted' /\ FullOnce'
  BY <1>0, <1>1 DEF QueueCounted, FullOnce, Boards, Loads, Rides
<1>4. CallIn'
  BY <1>0, <1>1 DEF CallIn, Loads, Rides
<1>5. Boarding' /\ (Unboarding => Unboarding')
  <2>1. Unboarding => passengers_ready_to_leave = 1 /\ passengers_ready_to_leave' = 0
    BY <1>0 DEF Unboarding, Rides
  <2> QED
    BY <1>0, <1>1, <2>1 DEF Boarding, Unboarding, Boards, Loads, Rides
<1>6. Riders'
  BY <1>0, <1>1, <1>5 DEF Riders, GoodStart
<1> QED
  BY <1>2, <1>3, <1>4, <1>6

\* Those who want to leave are let out, as many as ride (ride.c:107-114).
LEMMA UnloadKeeps ==
  ASSUME RideInv, Unload
  PROVE  RideInv'
<1> USE DEF RideInv, TypeOK
<1>0. /\ cart = "unload107" /\ cart' = "load74" /\ Signals(riding, "leaving", "out") /\ riding' = 0 /\ ~aborted
      /\ UNCHANGED <<waiting, want_to_leave_count, must_wait, all_ready,
                     passengers_ready_to_leave, min, aborted, start, early>>
  BY DEF Unload, CartGoto
<1>1. all_ready = 0 /\ Seated = {}
  BY <1>0 DEF FullOnce, Rides
<1>2. PICK woken \in SUBSET At({"leaving"}) :
        pc' = [p \in Passenger |-> IF p \in woken THEN "out" ELSE pc[p]]
  BY <1>0 DEF Signals
<1>3. Queued' = Queued /\ Called' = Called /\ Seated' = Seated
  BY <1>2 DEF Queued, Called, Seated, At
<1>4. Cardinality(Seated') = 0
  BY <1>1, <1>3, FS_EmptySet
<1>5. TypeOK'
  BY <1>0, <1>2 DEF CartLabels, Labels
<1>6. QueueCounted' /\ FullOnce'
  BY <1>0, <1>1, <1>3, <1>4 DEF QueueCounted, FullOnce, Boards, Loads, Rides
<1>7. CallIn'
  BY <1>0, <1>3 DEF CallIn, Loads, Rides
<1>8. Riders'
  <2> SUFFICES ASSUME GoodStart PROVE Riders'
    BY <1>0 DEF Riders, GoodStart
  <2>1. /\ Leaving = InCart /\ passengers_ready_to_leave = 0 /\ want_to_leave_count = 0
        /\ riding = Cardinality(Leaving)
    BY <1>0 DEF Riders, Unboarding, Rides
  <2>2. pc' = [p \in Passenger |-> IF pc[p] = "leaving" THEN "out" ELSE pc[p]]
    <3>1. PICK k \in Nat : k = riding
      BY <1>0
    <3>2. Signals(k, "leaving", "out") /\ k >= Cardinality(At({"leaving"}))
      BY <1>0, <2>1, <3>1 DEF Leaving
    <3> QED
      BY <3>2, SignalsAll DEF Labels
  <2>3. InCart' = {}
    BY <2>1, <2>2 DEF InCart, Leaving, At
  <2>4. Cardinality(InCart') = 0 /\ InCart' = Seated'
    BY <1>1, <1>3, <2>3, FS_EmptySet
  <2> QED
    BY <1>0, <2>1, <2>4 DEF Riders, Boarding, Unboarding, Boards, Loads, Rides
<1> QED
  BY <1>5, <1>6, <1>7, <1>8

-----------------------------------------------------------------------------
\* What the steps of a passenger do to the sets.
LEMMA MoveSets ==
  ASSUME TypeOK, NEW p \in Passenger, NEW from \in Labels, NEW to \in Labels, Goto(p, from, to)
  PROVE  /\ pc' \in [Passenger -> Labels]
         /\ from = "board" /\ to = "queue" =>
              /\ p \notin Queued /\ Queued' = Queued \cup {p}
              /\ UNCHANGED <<Called, Seated, Leaving, InCart>>
         /\ from \in {"board", "called"} /\ to = "seated" =>
              /\ p \notin InCart /\ InCart' = InCart \cup {p} /\ Seated' = Seated \cup {p}
              /\ Queued' = Queued \ {p} /\ Called' = Called \ {p} /\ UNCHANGED Leaving
              /\ from = "board" => p \notin Queued
              /\ from = "called" => p \in Called
         /\ <<from, to>> \in {<<"out", "board">>, <<"ride", "unboard">>} =>
              UNCHANGED <<Queued, Called, Seated, Leaving, InCart>>
         /\ from = "unboard" /\ to = "leaving" =>
              /\ p \in InCart /\ p \notin Seated /\ p \notin Leaving /\ Leaving' = Leaving \cup {p}
              /\ UNCHANGED <<Queued, Called, Seated, InCart>>
<1> USE DEF TypeOK, Goto, Queued, Called, Seated, Leaving, InCart, At
<1>1. pc' \in [Passenger -> Labels] /\ \A q \in Passenger : pc'[q] = IF q = p THEN to ELSE pc[q]
  OBVIOUS
<1>2. from = "board" /\ to = "queue" =>
        /\ p \notin Queued /\ Queued' = Queued \cup {p}
        /\ UNCHANGED <<Called, Seated, Leaving, InCart>>
  BY <1>1
<1>3. from \in {"board", "called"} /\ to = "seated" =>
        /\ p \notin InCart /\ InCart' = InCart \cup {p} /\ Seated' = Seated \cup {p}
        /\ Queued' = Queued \ {p} /\ Called' = Called \ {p} /\ UNCHANGED Leaving
        /\ from = "board" => p \notin Queued
        /\ from = "called" => p \in Called
  BY <1>1
<1>4. <<from, to>> \in {<<"out", "board">>, <<"ride", "unboard">>} =>
        UNCHANGED <<Queued, Called, Seated, Leaving, InCart>>
  BY <1>1
<1>5. from = "unboard" /\ to = "leaving" =>
        /\ p \in InCart /\ p \notin Seated /\ p \notin Leaving /\ Leaving' = Leaving \cup {p}
        /\ UNCHANGED <<Queued, Called, Seated, InCart>>
  BY <1>1
<1> QED
  BY <1>1, <1>2, <1>3, <1>4, <1>5

\* A passenger queues (ride.c:118-122).
LEMMA BoardQueueKeeps ==
  ASSUME RideInv, NEW p \in Passenger, BoardQueue(p)
  PROVE  RideInv'
<1> USE DEF RideInv, TypeOK
<1>0. /\ Goto(p, "board", "queue") /\ waiting' = waiting + 1
      /\ riding = seats \/ must_wait
      /\ UNCHANGED <<want_to_leave_count, riding, must_wait, all_ready,
                     passengers_ready_to_leave, min, cart, aborted, start, early>>
  BY DEF BoardQueue
<1>1. /\ pc' \in [Passenger -> Labels] /\ p \notin Queued /\ Queued' = Queued \cup {p}
      /\ UNCHANGED <<Called, Seated, Leaving, InCart>>
  BY <1>0, MoveSets DEF Labels
<1>2. waiting' = Cardinality(Queued \cup {p})
  BY <1>0, <1>1, SetsOfPassengers, Joins DEF QueueCounted
<1>3. waiting' \in 0 .. Cardinality(Passenger)
  BY <1>2, SetsOfPassengers, PassengerSets
<1>4. TypeOK'
  BY <1>0, <1>1, <1>3
<1>5. QueueCounted' /\ FullOnce'
  BY <1>0, <1>1, <1>2 DEF QueueCounted, FullOnce
<1>6. CallIn'
  BY <1>0, <1>1 DEF CallIn, FirstRound
<1>7. (Boarding => Boarding') /\ (Unboarding => Unboarding')
  BY <1>0, <1>1, LeavingStays DEF Boarding, Unboarding
<1>8. Riders'
  BY <1>0, <1>1, <1>7 DEF Riders, GoodStart
<1> QED
  BY <1>4, <1>5, <1>6, <1>8

\* sem_post leaves a semaphore within its range.
LEMMA PostedType ==
  ASSUME NEW s \in 0 .. SEM_VALUE_MAX
  PROVE  Posted(s) \in 0 .. SEM_VALUE_MAX /\ (s = 0 => Posted(s) = 1)
BY DEF Posted

\* A passenger sits down (ride.c:126-133), from outside or after a call, at any line of the
\* cart.  If he comes from outside while the cart loads, that is recorded in early.
LEMMA TakeSeatKeeps ==
  ASSUME RideInv, NEW p \in Passenger, NEW from \in {"board", "called"}, TakeSeat(p, from),
         from = "board" => /\ riding # seats /\ ~must_wait /\ UNCHANGED waiting
                           /\ early' = (early \/ cart \in Loads),
         from = "called" => waiting' = waiting - 1 /\ UNCHANGED early
  PROVE  RideInv'
<1> USE DEF RideInv, TypeOK
<1>0. /\ Goto(p, from, "seated") /\ riding' = riding + 1 /\ ~aborted
      /\ UNCHANGED <<want_to_leave_count, passengers_ready_to_leave, min, cart, start>>
      /\ must_wait' = IF riding' = seats THEN TRUE ELSE must_wait
      /\ all_ready' = IF riding' = seats THEN Posted(all_ready) ELSE all_ready
  BY DEF TakeSeat
<1>1. /\ pc' \in [Passenger -> Labels]
      /\ p \notin InCart /\ InCart' = InCart \cup {p} /\ Seated' = Seated \cup {p}
      /\ Queued' = Queued \ {p} /\ Called' = Called \ {p} /\ UNCHANGED Leaving
      /\ from = "board" => p \notin Queued
      /\ from = "called" => p \in Called
  <2>1. from \in Labels /\ "seated" \in Labels
    BY DEF Labels
  <2> QED
    BY <1>0, <2>1, MoveSets
<1>2. /\ Cardinality(InCart') = Cardinality(InCart) + 1
      /\ Cardinality(Seated') = Cardinality(Seated) + 1
  <2>1. p \notin Seated
    BY <1>1, SetsOfPassengers
  <2> QED
    BY <1>1, <2>1, SetsOfPassengers, Joins
<1>3. aborted' <=> riding' > seats
  BY DEF TakeSeat
<1>4. must_wait' \in BOOLEAN /\ aborted' \in BOOLEAN /\ early' \in BOOLEAN
  <2>1. must_wait' \in BOOLEAN
    BY <1>0, Zenon
  <2>2. aborted' = (riding' > seats)
    BY DEF TakeSeat
  <2>3. riding' \in Int /\ seats \in Int
    BY <1>0
  <2>4. aborted' \in BOOLEAN
    BY ONLY <2>2, <2>3
  <2>5. early' \in BOOLEAN
    <3>1. CASE from = "board"
      <4>1. early' = (early \/ cart \in Loads)
        BY <3>1
      <4> QED
        BY ONLY <4>1
    <3>2. CASE from = "called"
      <4>1. early' = early /\ early \in BOOLEAN
        BY <3>2
      <4> QED
        BY ONLY <4>1, Zenon
    <3> QED
      BY <3>1, <3>2
  <2> QED
    BY <2>1, <2>4, <2>5
<1>5. waiting' = Cardinality(Queued') /\ waiting' \in 0 .. Cardinality(Passenger)
  <2>1. Queued \in SUBSET Passenger /\ Queued \ {p} \in SUBSET Passenger
    BY SetsOfPassengers
  <2>2. CASE from = "board"
    BY <1>1, <2>2 DEF QueueCounted
  <2>3. CASE from = "called"
    <3>1. p \in Queued
      BY <1>1, <2>3, SetsOfPassengers
    <3>2. waiting' = Cardinality(Queued \ {p})
      BY <2>1, <2>3, <3>1, Parts DEF QueueCounted
    <3> QED
      BY <1>1, <2>1, <3>2, PassengerSets
  <2> QED
    BY <2>2, <2>3
<1>6. all_ready' \in 0 .. SEM_VALUE_MAX /\ (all_ready = 0 => all_ready' = IF riding' = seats THEN 1 ELSE 0)
  BY <1>0, PostedType
<1>7. TypeOK'
  <2>1. riding' \in Nat
    BY <1>0
  <2>2. UNCHANGED <<want_to_leave_count, passengers_ready_to_leave, min, cart, start>>
    BY <1>0
  <2> QED
    BY <1>1, <1>4, <1>5, <1>6, <2>1, <2>2
<1>8. QueueCounted'
  BY <1>5 DEF QueueCounted
<1>9. ~aborted' => riding' <= seats /\ riding # seats /\ cart \in Loads \cup {"wait94"} /\ all_ready = 0
  <2> SUFFICES ASSUME ~aborted' PROVE riding' <= seats /\ riding # seats /\ cart \in Loads \cup {"wait94"} /\ all_ready = 0
    OBVIOUS
  <2>1. riding' <= seats /\ riding # seats
    BY <1>0, <1>3
  <2>2. cart \in Loads \cup {"wait94"}
    BY <1>0, <2>1 DEF FullOnce, CartLabels, Loads, Rides
  <2> QED
    BY <1>0, <2>1, <2>2 DEF FullOnce
<1>10. FullOnce'
  <2> SUFFICES ASSUME ~aborted' PROVE FullOnce'
    BY DEF FullOnce
  <2>1. riding = Cardinality(Seated)
    BY <1>0, <1>9 DEF FullOnce, Boards
  <2> QED
    BY <1>0, <1>2, <1>6, <1>9, <2>1 DEF FullOnce, Loads, Rides
<1>11. Riders'
  <2> SUFFICES ASSUME GoodStart PROVE Riders'
    BY <1>0 DEF Riders, GoodStart
  <2>1. riding = Cardinality(InCart) /\ Boarding /\ Unboarding
    BY <1>0 DEF Riders
  <2>2. riding' = Cardinality(InCart')
    BY <1>0, <1>2, <2>1
  <2>3. ~aborted' => Boarding' /\ Unboarding'
    BY <1>0, <1>1, <1>9, <2>1 DEF Boarding, Unboarding, Boards, Loads, Rides
  <2> QED
    BY <2>2, <2>3 DEF Riders
<1>12. CallIn'
  <2> SUFFICES ASSUME ~early' PROVE CallIn'
    BY DEF CallIn
  <2>1. CASE from = "board"
    <3>1. ~early /\ cart \notin Loads
      BY <2>1
    <3>2. ~aborted'
      BY <1>0, <1>3, <2>1 DEF FullOnce
    <3>3. cart = "wait94" /\ Called = {}
      BY <1>9, <3>1, <3>2 DEF CallIn
    <3>4. must_wait' <=> riding' = seats
      BY <1>0, <2>1
    <3> QED
      BY <1>0, <1>1, <3>2, <3>3, <3>4 DEF CallIn, Loads, Rides
  <2>2. CASE from = "called"
    <3>1. ~early /\ p \in Called
      BY <1>1, <2>2
    <3>2. cart = "spin82" /\ riding + Cardinality(Called) = min /\ (must_wait \/ FirstRound)
      BY <3>1 DEF CallIn, Loads
    <3>3. must_wait
      <4>1. Cardinality(Queued) # 0
        BY <3>1, SetsOfPassengers, PassengerSets
      <4> QED
        BY <3>2, <4>1 DEF FirstRound, QueueCounted
    <3>4. /\ Cardinality(Called) \in Nat /\ Cardinality(Called') \in Nat
          /\ Cardinality(Called') = Cardinality(Called) - 1
      BY <1>1, <3>1, SetsOfPassengers, Parts, PassengerSets
    <3>5. riding' + Cardinality(Called') = min /\ riding' <= min
      <4>1. riding \in Int /\ riding' = riding + 1
        BY <1>0
      <4>2. riding' + Cardinality(Called') = riding + Cardinality(Called) /\ riding' <= riding' + Cardinality(Called')
        BY ONLY <3>4, <4>1
      <4> QED
        BY <3>2, <4>2
    <3>6. ~aborted'
      BY <1>0, <1>3, <3>5
    <3>7. must_wait'
      BY <1>0, <3>3
    <3> QED
      BY <1>0, <3>2, <3>5, <3>6, <3>7 DEF CallIn, Loads, Rides
  <2> QED
    BY <2>1, <2>2
<1> QED
  BY <1>7, <1>8, <1>10, <1>11, <1>12

\* The ride is over for a passenger, or he comes again (ride.c:178, 184).
LEMMA OutsideKeeps ==
  ASSUME RideInv, NEW p \in Passenger, RideOver(p) \/ Again(p)
  PROVE  RideInv'
<1> USE DEF RideInv, TypeOK
<1>0. /\ Goto(p, "ride", "unboard") \/ Goto(p, "out", "board")
      /\ UNCHANGED <<waiting, want_to_leave_count, riding, must_wait, all_ready,
                     passengers_ready_to_leave, min, cart, aborted, start, early>>
  BY DEF RideOver, Again, fields
<1>1. pc' \in [Passenger -> Labels] /\ UNCHANGED <<Queued, Called, Seated, Leaving, InCart>>
  BY <1>0, MoveSets DEF Labels
<1>2. TypeOK'
  BY <1>0, <1>1
<1>3. QueueCounted' /\ FullOnce'
  BY <1>0, <1>1 DEF QueueCounted, FullOnce
<1>4. CallIn'
  BY <1>0, <1>1 DEF CallIn, FirstRound
<1>5. (Boarding => Boarding') /\ (Unboarding => Unboarding')
  BY <1>0, <1>1, LeavingStays DEF Boarding, Unboarding
<1>6. Riders'
  BY <1>0, <1>1, <1>5 DEF Riders, GoodStart
<1> QED
  BY <1>2, <1>3, <1>4, <1>6

\* A passenger asks to leave, the last one reports it (ride.c:140-146).  This is where a
\* bad initial value of want_to_leave_count makes an earlier one report.
LEMMA UnboardKeeps ==
  ASSUME RideInv, NEW p \in Passenger, Unboard(p)
  PROVE  RideInv'
<1> USE DEF RideInv, TypeOK
<1>0. /\ Goto(p, "unboard", "leaving") /\ ~aborted
      /\ UNCHANGED <<waiting, riding, must_wait, all_ready, min, cart, aborted, start, early>>
      /\ IF want_to_leave_count + 1 = riding
           THEN /\ passengers_ready_to_leave' = Posted(passengers_ready_to_leave)
                /\ want_to_leave_count' = 0
           ELSE /\ want_to_leave_count' = want_to_leave_count + 1
                /\ UNCHANGED passengers_ready_to_leave
  BY DEF Unboard
<1>1. /\ pc' \in [Passenger -> Labels]
      /\ p \in InCart /\ p \notin Seated /\ p \notin Leaving /\ Leaving' = Leaving \cup {p}
      /\ UNCHANGED <<Queued, Called, Seated, InCart>>
  BY <1>0, MoveSets DEF Labels
<1>2. TypeOK'
  <2>1. want_to_leave_count' \in Int /\ passengers_ready_to_leave' \in 0 .. SEM_VALUE_MAX
    BY <1>0, PostedType
  <2> QED
    BY <1>0, <1>1, <2>1
<1>3. QueueCounted' /\ FullOnce'
  BY <1>0, <1>1 DEF QueueCounted, FullOnce
<1>4. CallIn'
  BY <1>0, <1>1 DEF CallIn, FirstRound
<1>5. Riders'
  <2> SUFFICES ASSUME GoodStart PROVE Riders'
    BY <1>0 DEF Riders, GoodStart
  <2>1. riding = Cardinality(InCart) /\ Boarding /\ Unboarding
    BY <1>0 DEF Riders
  <2>2. cart \in Rides
    BY <1>1, <2>1 DEF Boarding, CartLabels, Boards, Loads, Rides
  <2>3. passengers_ready_to_leave = 0 /\ cart # "unload107" /\ LeavingCounted
    BY <1>1, <2>1, <2>2 DEF Unboarding
  <2>4. PICK g \in {0, start} :
          want_to_leave_count = g + Cardinality(Leaving) /\ (g = 0 => Leaving # InCart)
    BY <2>3 DEF LeavingCounted
  <2>5. g \in Int /\ (g <= 0 \/ g >= seats) /\ g \in {0, start'}
    BY <1>0 DEF GoodStart
  <2>6. riding = seats
    BY <1>0, <2>2 DEF FullOnce
  <2>7. /\ Cardinality(Leaving) \in Nat /\ Cardinality(Leaving') = Cardinality(Leaving) + 1
        /\ Leaving' \in SUBSET InCart /\ Cardinality(Leaving') <= seats
        /\ Cardinality(Leaving') = seats => Leaving' = InCart
    <3>1. Leaving \cup {p} \in SUBSET InCart
      BY <1>1, SetsOfPassengers
    <3>2. /\ Cardinality(Leaving \cup {p}) <= Cardinality(InCart)
          /\ Cardinality(Leaving \cup {p}) = Cardinality(InCart) => Leaving \cup {p} = InCart
      BY <3>1, SetsOfPassengers, PassengerSets
    <3>3. Cardinality(Leaving) \in Nat /\ Cardinality(Leaving \cup {p}) = Cardinality(Leaving) + 1
      BY <1>1, SetsOfPassengers, PassengerSets, Joins
    <3> QED
      BY <1>1, <2>1, <2>6, <3>1, <3>2, <3>3
  <2>8. Unboarding'
    <3>1. CASE want_to_leave_count + 1 = riding
      <4>1. Cardinality(Leaving') = seats
        BY <2>4, <2>5, <2>6, <2>7, <3>1
      <4>2. passengers_ready_to_leave' = 1
        BY <1>0, <2>3, <3>1, PostedType
      <4>3. Leaving' = InCart' /\ want_to_leave_count' = 0
        BY <1>0, <1>1, <2>7, <3>1, <4>1
      <4> QED
        BY <1>0, <2>3, <4>2, <4>3 DEF Unboarding
    <3>2. CASE want_to_leave_count + 1 # riding
      <4>1. want_to_leave_count' = g + Cardinality(Leaving') /\ passengers_ready_to_leave' = 0
        BY <1>0, <2>3, <2>4, <2>5, <2>7, <3>2
      <4>2. g = 0 => Leaving' # InCart'
        <5>1. SUFFICES ASSUME g = 0, Leaving' = InCart' PROVE FALSE
          OBVIOUS
        <5>2. Cardinality(Leaving') = seats
          BY <1>1, <2>1, <2>6, <5>1
        <5> QED
          BY <2>4, <2>6, <2>7, <3>2, <5>1, <5>2
      <4>3. LeavingCounted'
        BY <2>5, <4>1, <4>2 DEF LeavingCounted
      <4> QED
        BY <1>0, <2>3, <4>1, <4>3 DEF Unboarding
    <3> QED
      BY <3>1, <3>2
  <2>9. Boarding'
    BY <1>0, <2>2 DEF Boarding, Boards, Loads, Rides
  <2> QED
    BY <1>0, <1>1, <2>1, <2>8, <2>9 DEF Riders
<1> QED
  BY <1>2, <1>3, <1>4, <1>5

LEMMA RideNext ==
  ASSUME RideInv, [Next]_vars
  PROVE  RideInv'
<1>1. CASE UNCHANGED vars
  <2>1. UNCHANGED <<waiting, want_to_leave_count, riding, must_wait, all_ready,
                    passengers_ready_to_leave, min, pc, cart, aborted, start, early>>
    BY <1>1 DEF vars, fields
  <2>2. UNCHANGED <<Queued, Called, Seated, Leaving, InCart>>
    BY <2>1, SetsStay
  <2>3. TypeOK'
    BY <2>1 DEF RideInv, TypeOK
  <2>4. QueueCounted' /\ FullOnce' /\ CallIn'
    BY <2>1, <2>2 DEF RideInv, QueueCounted, FullOnce, CallIn, FirstRound
  <2>5. (Boarding => Boarding') /\ (Unboarding => Unboarding')
    BY <2>1, <2>2, LeavingStays DEF Boarding, Unboarding
  <2>6. Riders'
    BY <2>1, <2>2, <2>5 DEF RideInv, Riders, GoodStart
  <2> QED
    BY <2>3, <2>4, <2>6 DEF RideInv
<1>2. CASE Cart
  BY <1>2, LoadWaitingKeeps, SpinDoneKeeps, OpenQueueKeeps, WaitAllReadyKeeps, DepartKeeps,
     RideEndsKeeps, WaitReadyToLeaveKeeps, UnloadKeeps DEF Cart
<1>3. ASSUME NEW p \in Passenger, RunPassenger(p)
      PROVE  RideInv'
  <2>1. CASE BoardNow(p)
    BY <2>1, TakeSeatKeeps DEF BoardNow, Loads
  <2>2. CASE BoardCalled(p)
    BY <2>2, TakeSeatKeeps DEF BoardCalled
  <2> QED
    BY <1>3, <2>1, <2>2, BoardQueueKeeps, OutsideKeeps, UnboardKeeps DEF RunPassenger
<1> QED
  BY <1>1, <1>2, <1>3 DEF Next

\* The counters of the ride, from the first line of the first thread on.
LEMMA RideInvariant == Spec => []RideInv
BY RideInit, RideNext, PTL DEF Spec

\* The assertion of ride.c:128 can only fail after a passenger has come in from outside
\* while the cart lets those in who queue (ride.c:74-86): before the first ride, or later
\* through the queue that ride.c:87 has opened to a cart that was full already.
THEOREM AssertFailsOnlyEarlyProved == Spec => []AssertFailsOnlyEarly
<1>1. RideInv => AssertFailsOnlyEarly
  BY DEF RideInv, CallIn, AssertFailsOnlyEarly
<1> QED
  BY <1>1, RideInvariant, PTL

\* The cart never departs before all seats are taken (ride.c:73, 94-98), in whatever order
\* the threads start, whoever gets in between and whatever want_to_leave_count held.
THEOREM DepartsFullProved == Spec => []DepartsFull
<1>1. RideInv => DepartsFull
  BY DEF RideInv, FullOnce, DepartsFull, Boards, Seated
<1> QED
  BY <1>1, RideInvariant, PTL

\* When want_to_leave_count starts with zero, or with anything outside 1 .. seats - 1,
\* riding counts the passengers in the cart and the doors open for all of them
\* (ride.c:105-107), also when passengers got in between.
THEOREM RidersCountedProved == Spec => []RidersCounted
<1>1. RideInv => RidersCounted
  <2> SUFFICES ASSUME RideInv, GoodStart PROVE RidersCounted
    BY DEF RidersCounted
  <2>1. riding = Cardinality(InCart) /\ (~aborted => Unboarding)
    BY DEF RideInv, Riders
  <2>2. AllWantToLeave
    BY <2>1 DEF AllWantToLeave, Unboarding, Leaving, Rides
  <2> QED
    BY <2>1, <2>2 DEF RideInv, FullOnce, RidersCounted, Rides
<1> QED
  BY <1>1, RideInvariant, PTL
=============================================================================
