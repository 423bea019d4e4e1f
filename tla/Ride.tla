-------------------------------- MODULE Ride --------------------------------
(***************************************************************************)
(* 14/so21_lista_14/ride.c: a roller coaster with one cart.  Passengers    *)
(* board until the cart is full, ride and leave together.  The condition   *)
(* variables queue, cart and want_to_leave share one mutex, so a block     *)
(* between lock and unlock or wait is one step; the loop of ride.c:82      *)
(* reads riding without the mutex, in a step of its own.                   *)
(***************************************************************************)
EXTENDS Integers, FiniteSets

CONSTANTS
  Passenger,     \* the passenger threads
  seats,         \* r->seats
  Garbage,       \* what want_to_leave_count may hold, as ride_init does not set it
  SEM_VALUE_MAX  \* where a semaphore stops counting

ASSUME RideAssumption ==
  /\ IsFiniteSet(Passenger)
  /\ seats \in Nat \ {0}
  /\ Garbage \subseteq Int
  /\ SEM_VALUE_MAX \in Nat \ {0}

VARIABLES
  waiting, want_to_leave_count, riding, must_wait,   \* the fields of ride_t
  all_ready, passengers_ready_to_leave,              \* and its semaphores
  min,           \* the local of cart_load
  pc,            \* where each passenger is
  cart,          \* where the cart is
  aborted,       \* the assertion of ride.c:128 has failed
  start,         \* history: what want_to_leave_count held at first
  early          \* history: a passenger has boarded from outside before the cart came
                 \* to ride.c:94

fields == <<waiting, want_to_leave_count, riding, must_wait,
            all_ready, passengers_ready_to_leave>>
vars == <<fields, min, pc, cart, aborted, start, early>>

\* A passenger is about to board; asleep on queue, woken; seated (asleep on
\* cart), off (woken by the departure); about to unboard; asleep on
\* want_to_leave; out.
Labels == {"board", "queue", "called", "seated", "ride", "unboard", "leaving", "out"}

\* The cart is at the line whose number the label holds.
CartLabels == {"load74", "spin82", "load83", "wait94", "go95", "ride160", "wait106", "unload107"}

At(labels) == {p \in Passenger : pc[p] \in labels}

\* The passengers who sit in the cart.
InCart == At({"seated", "ride", "unboard", "leaving"})

Init ==
  /\ waiting = 0
  /\ want_to_leave_count \in Garbage
  /\ riding = 0
  /\ must_wait = FALSE
  /\ all_ready = 0
  /\ passengers_ready_to_leave = 0
  /\ min = 0
  /\ pc = [p \in Passenger |-> "board"]
  /\ cart = "load74"
  /\ aborted = FALSE
  /\ start = want_to_leave_count
  /\ early = FALSE

\* k calls of pthread_cond_signal: each moves one passenger asleep at label from
\* to label to, as long as there are any.
Signals(k, from, to) ==
  \E woken \in SUBSET At({from}) :
    /\ Cardinality(woken) = IF k < Cardinality(At({from})) THEN k ELSE Cardinality(At({from}))
    /\ pc' = [p \in Passenger |-> IF p \in woken THEN to ELSE pc[p]]

\* sem_post, whose failure at the largest value nobody looks at.
Posted(s) == IF s < SEM_VALUE_MAX THEN s + 1 ELSE s

Goto(p, from, to) == pc[p] = from /\ pc' = [pc EXCEPT ![p] = to]
CartGoto(from, to) ==
  ~aborted /\ cart = from /\ cart' = to /\ UNCHANGED <<aborted, start, early>>

-----------------------------------------------------------------------------
\* cart_load: those who wait already are let in first.
LoadWaiting ==
  /\ CartGoto("load74", "spin82")
  /\ min' = IF waiting < seats THEN waiting ELSE seats
  /\ Signals(min', "queue", "called")
  /\ UNCHANGED fields

\* The busy loop is left when it reads the value it wants.
SpinDone ==
  /\ CartGoto("spin82", "load83")
  /\ riding = min
  /\ UNCHANGED <<fields, min, pc>>

OpenQueue ==
  /\ CartGoto("load83", "wait94")
  /\ must_wait' = IF min < seats THEN FALSE ELSE must_wait
  /\ UNCHANGED <<waiting, want_to_leave_count, riding, all_ready,
                 passengers_ready_to_leave, min, pc>>

\* The mutant does not wait for the seats to be taken.
WaitAllReadySkipped ==
  /\ CartGoto("wait94", "go95")
  /\ UNCHANGED <<fields, min, pc>>

WaitAllReady ==
  /\ CartGoto("wait94", "go95")
  /\ all_ready > 0
  /\ all_ready' = all_ready - 1
  /\ UNCHANGED <<waiting, want_to_leave_count, riding, must_wait,
                 passengers_ready_to_leave, min, pc>>

Depart ==
  /\ CartGoto("go95", "ride160")
  /\ Signals(riding, "seated", "ride")
  /\ UNCHANGED <<fields, min>>

RideEnds ==
  /\ CartGoto("ride160", "wait106")
  /\ UNCHANGED <<fields, min, pc>>

\* cart_unload.
WaitReadyToLeave ==
  /\ CartGoto("wait106", "unload107")
  /\ passengers_ready_to_leave > 0
  /\ passengers_ready_to_leave' = passengers_ready_to_leave - 1
  /\ UNCHANGED <<waiting, want_to_leave_count, riding, must_wait, all_ready, min, pc>>

\* The mutant keeps the old number of riders.
UnloadKeep ==
  /\ CartGoto("unload107", "load74")
  /\ Signals(riding, "leaving", "out")
  /\ UNCHANGED <<fields, min>>

Unload ==
  /\ CartGoto("unload107", "load74")
  /\ Signals(riding, "leaving", "out")
  /\ riding' = 0
  /\ UNCHANGED <<waiting, want_to_leave_count, must_wait, all_ready,
                 passengers_ready_to_leave, min>>

-----------------------------------------------------------------------------
\* passenger_board up to the wait on queue.
BoardQueue(p) ==
  /\ ~aborted
  /\ riding = seats \/ must_wait
  /\ Goto(p, "board", "queue")
  /\ waiting' = waiting + 1
  /\ UNCHANGED <<want_to_leave_count, riding, must_wait, all_ready,
                 passengers_ready_to_leave, min, cart, aborted, start, early>>

\* The mutant does not report that the last seat is taken.
TakeSeatSilent(p, from) ==
  /\ ~aborted
  /\ riding' = riding + 1
  /\ aborted' = (riding' > seats)
  /\ must_wait' = IF riding' = seats THEN TRUE ELSE must_wait
  /\ Goto(p, from, "seated")
  /\ UNCHANGED <<want_to_leave_count, all_ready, passengers_ready_to_leave, min, cart, start>>

\* Lines 126-133: the passenger takes a seat, checks the assertion, and sleeps
\* until the departure; the one who takes the last seat closes the cart.
TakeSeat(p, from) ==
  /\ ~aborted
  /\ riding' = riding + 1
  /\ aborted' = (riding' > seats)
  /\ must_wait' = IF riding' = seats THEN TRUE ELSE must_wait
  /\ all_ready' = IF riding' = seats THEN Posted(all_ready) ELSE all_ready
  /\ Goto(p, from, "seated")
  /\ UNCHANGED <<want_to_leave_count, passengers_ready_to_leave, min, cart, start>>

BoardNow(p) ==
  /\ riding # seats /\ ~must_wait
  /\ TakeSeat(p, "board")
  /\ early' = (early \/ cart \in {"load74", "spin82", "load83"})
  /\ UNCHANGED waiting

BoardCalled(p) ==
  /\ TakeSeat(p, "called")
  /\ waiting' = waiting - 1
  /\ UNCHANGED early

\* ride.c:178.
RideOver(p) ==
  /\ ~aborted
  /\ Goto(p, "ride", "unboard")
  /\ UNCHANGED <<fields, min, cart, aborted, start, early>>

\* The mutant reports after all but one.
UnboardEarly(p) ==
  /\ ~aborted
  /\ Goto(p, "unboard", "leaving")
  /\ IF want_to_leave_count + 2 = riding
       THEN /\ passengers_ready_to_leave' = Posted(passengers_ready_to_leave)
            /\ want_to_leave_count' = 0
       ELSE /\ want_to_leave_count' = want_to_leave_count + 1
            /\ UNCHANGED passengers_ready_to_leave
  /\ UNCHANGED <<waiting, riding, must_wait, all_ready, min, cart, aborted, start, early>>

\* passenger_unboard up to its wait.
Unboard(p) ==
  /\ ~aborted
  /\ Goto(p, "unboard", "leaving")
  /\ IF want_to_leave_count + 1 = riding
       THEN /\ passengers_ready_to_leave' = Posted(passengers_ready_to_leave)
            /\ want_to_leave_count' = 0
       ELSE /\ want_to_leave_count' = want_to_leave_count + 1
            /\ UNCHANGED passengers_ready_to_leave
  /\ UNCHANGED <<waiting, riding, must_wait, all_ready, min, cart, aborted, start, early>>

\* ride.c:184: another ride.
Again(p) ==
  /\ ~aborted
  /\ Goto(p, "out", "board")
  /\ UNCHANGED <<fields, min, cart, aborted, start, early>>

-----------------------------------------------------------------------------
Cart ==
  \/ LoadWaiting \/ SpinDone \/ OpenQueue \/ WaitAllReady \/ Depart
  \/ RideEnds \/ WaitReadyToLeave \/ Unload

RunPassenger(p) ==
  BoardQueue(p) \/ BoardNow(p) \/ BoardCalled(p) \/ RideOver(p) \/ Unboard(p) \/ Again(p)

Next == Cart \/ \E p \in Passenger : RunPassenger(p)

Spec == Init /\ [][Next]_vars

\* Every thread that is not asleep runs.
FairSpec == Spec /\ WF_vars(Cart) /\ \A p \in Passenger : WF_vars(RunPassenger(p))

-----------------------------------------------------------------------------
TypeOK ==
  /\ waiting \in 0 .. Cardinality(Passenger)
  /\ want_to_leave_count \in Int
  /\ riding \in Nat
  /\ must_wait \in BOOLEAN
  /\ all_ready \in 0 .. SEM_VALUE_MAX
  /\ passengers_ready_to_leave \in 0 .. SEM_VALUE_MAX
  /\ min \in 0 .. seats
  /\ pc \in [Passenger -> Labels]
  /\ cart \in CartLabels
  /\ aborted \in BOOLEAN
  /\ start \in Garbage
  /\ early \in BOOLEAN

\* "assert(r->riding <= r->seats)", ride.c:128.
AssertHolds == ~aborted

\* The assertion of ride.c:128 fails only after a passenger has come from outside between
\* two rides, or before the first, while the cart still lets those in who queue (the
\* variables have their types).
AssertFailsOnlyEarly == TypeOK /\ (aborted => early)

\* "Wait for all seats to be taken and depart", ride.c:73: whoever boards in between, and
\* whatever want_to_leave_count was, at the departure there is a passenger asleep on cart
\* for every seat, and none besides.
DepartsFull ==
  cart = "go95" /\ ~aborted => riding = seats /\ Cardinality(At({"seated"})) = seats

\* The initial want_to_leave_count does not make an earlier passenger than the last one
\* report at ride.c:143.
GoodStart == start <= 0 \/ start >= seats

\* "czekamy az wszyscy pasazerowie chca wyjsc", ride.c:105 (we wait until all the
\* passengers want to leave): the doors open when all of them do.
AllWantToLeave == cart = "unload107" /\ ~aborted => At({"leaving"}) = InCart

\* riding is the number of passengers in the cart from boarding until they are let out,
\* although it is set in four places and read without the mutex; during the whole ride
\* the cart is full, and the doors open for all.
RidersCounted ==
  GoodStart =>
    /\ riding = Cardinality(InCart)
    /\ cart \in {"ride160", "wait106", "unload107"} /\ ~aborted => Cardinality(InCart) = seats
    /\ AllWantToLeave

\* ride.c:86 reopens the queue by the number of waiting passengers that was read at line
\* 75.  Whoever queued in between is not let in, and when nobody else is about, those in
\* the cart wait for passengers who sleep (on want_to_leave too, when the doors of an
\* earlier ride opened before they asked).
Stranded ==
  cart = "wait94" /\ riding < seats /\ At({"seated", "queue", "leaving"}) = Passenger

\* ride.c:82: more passengers got in than the cart waits for, and it spins for ever.
SpinsForEver == cart = "spin82" /\ riding > min

\* "Wait for all seats to be taken and depart", ride.c:73: a passenger in the cart gets
\* the ride, also when the cart was filled while it spun at ride.c:82, unless the
\* passengers who are missing all sleep, the cart spins for a number of riders
\* that has passed, or the assertion has failed.  There is no other way to get stuck.
SeatedDeparts ==
  \A p \in Passenger :
    pc[p] = "seated" ~> pc[p] = "ride" \/ Stranded \/ SpinsForEver \/ aborted
=============================================================================
