-------------------------------- MODULE Ramen --------------------------------
(***************************************************************************)
(* 14/so21_lista_14/ramen.c: a restaurant with max_seats seats.  Customers *)
(* enter freely until it is full; then everybody waits until all who eat   *)
(* have left.  Every access to the shared state is made with the mutex     *)
(* held, so a block from lock to unlock (or to pthread_cond_wait) is one   *)
(* step.  A pthread_cond_wait returns only after a signal here: the wait   *)
(* of ramen.c:59 is under an if, so spurious wakeups are assumed away.     *)
(***************************************************************************)
EXTENDS Integers, FiniteSets

CONSTANTS
  Customer,    \* the customer threads
  max_seats    \* r->max_seats

ASSUME RamenAssumption ==
  /\ IsFiniteSet(Customer)
  /\ max_seats \in Nat \ {0}

VARIABLES
  waiting,     \* r->waiting
  eating,      \* r->eating
  must_wait,   \* r->must_wait
  pc           \* where each customer is

vars == <<waiting, eating, must_wait, pc>>

Labels == {"home", "hungry", "asleep", "woken", "eat"}

Least(m, n) == IF m < n THEN m ELSE n

At(labels) == {c \in Customer : pc[c] \in labels}
Goto(c, label) == pc' = [pc EXCEPT ![c] = label]

\* ramen_init; the customers start with the sleep of ramen.c:90.
Init ==
  /\ waiting = 0
  /\ eating = 0
  /\ must_wait = FALSE
  /\ pc = [c \in Customer |-> "home"]

-----------------------------------------------------------------------------
\* ramen.c:90: the customer gets hungry.
GetHungry(c) ==
  /\ pc[c] = "home"
  /\ Goto(c, "hungry")
  /\ UNCHANGED <<waiting, eating, must_wait>>

\* ramen_wait up to its unlock, or to its pthread_cond_wait.
RamenQueue(c) ==
  /\ pc[c] = "hungry"
  /\ must_wait
  /\ waiting' = waiting + 1
  /\ Goto(c, "asleep")
  /\ UNCHANGED <<eating, must_wait>>

\* The mutant never closes the door.
RamenEnterOpen(c) ==
  /\ pc[c] = "hungry"
  /\ ~must_wait
  /\ eating' = eating + 1
  /\ Goto(c, "eat")
  /\ UNCHANGED <<waiting, must_wait>>

RamenEnter(c) ==
  /\ pc[c] = "hungry"
  /\ ~must_wait
  /\ eating' = eating + 1
  /\ must_wait' = (eating' = max_seats)
  /\ Goto(c, "eat")
  /\ UNCHANGED waiting

\* pthread_cond_wait returns with the mutex, which is released at once: the
\* customer was counted in eating by the one who woke the queue.
RamenWakeUp(c) ==
  /\ pc[c] = "woken"
  /\ Goto(c, "eat")
  /\ UNCHANGED <<waiting, eating, must_wait>>

\* n calls of pthread_cond_signal while customer c goes home: each releases one
\* sleeping customer, if there is one left.
SignalQueue(n, c) ==
  \E woken \in SUBSET At({"asleep"}) :
    /\ Cardinality(woken) = Least(n, Cardinality(At({"asleep"})))
    /\ pc' = [x \in Customer |->
                IF x = c THEN "home" ELSE IF x \in woken THEN "woken" ELSE pc[x]]

\* The mutant: one customer of the queue too few is let in.
RamenFinishOneShort(c) ==
  /\ pc[c] = "eat"
  /\ IF eating = 1
       THEN LET n == IF waiting = 0 THEN 0 ELSE Least(waiting, max_seats) - 1 IN
            /\ waiting' = 0
            /\ eating' = n
            /\ must_wait' = (n = max_seats)
            /\ SignalQueue(n, c)
       ELSE /\ eating' = eating - 1
            /\ Goto(c, "home")
            /\ UNCHANGED <<waiting, must_wait>>

\* The mutant lets the queue in while some still eat.
RamenFinishEarly(c) ==
  /\ pc[c] = "eat"
  /\ LET n == Least(waiting, max_seats - eating + 1) IN
       /\ waiting' = waiting - n
       /\ eating' = eating - 1 + n
       /\ must_wait' = (eating' = max_seats)
       /\ SignalQueue(n, c)

\* ramen_finish: the last one out lets the next group in and resets the queue.
RamenFinish(c) ==
  /\ pc[c] = "eat"
  /\ IF eating = 1
       THEN LET n == Least(waiting, max_seats) IN
            /\ waiting' = 0
            /\ eating' = n
            /\ must_wait' = (n = max_seats)
            /\ SignalQueue(n, c)
       ELSE /\ eating' = eating - 1
            /\ Goto(c, "home")
            /\ UNCHANGED <<waiting, must_wait>>

Run(c) ==
  \/ GetHungry(c) \/ RamenQueue(c) \/ RamenEnter(c)
  \/ RamenWakeUp(c) \/ RamenFinish(c)

Next == \E c \in Customer : Run(c)

Spec == Init /\ [][Next]_vars

\* A customer who is not asleep runs; the mutex is only held for a few
\* instructions, so each one gets it.
FairSpec == Spec /\ \A c \in Customer : WF_vars(Run(c))

-----------------------------------------------------------------------------
\* The counter of the seats stays between none and all of them.
TypeOK ==
  /\ waiting \in Nat
  /\ eating \in 0 .. max_seats
  /\ must_wait \in BOOLEAN
  /\ pc \in [Customer -> Labels]

\* Those who eat, or were woken up in order to eat.
Served == At({"woken", "eat"})

\* eating counts exactly the customers who have a seat, those whom the last one
\* out has woken but who have not run yet (ramen.c:75) included.
SeatsCounted == eating = Cardinality(Served)

\* "Enter the restaurant unless it's full", ramen.c:55: there is a seat for
\* everybody inside.
NotOvercrowded == Cardinality(Served) <= max_seats

\* A full restaurant has its door closed.
DoorClosedWhenFull == eating = max_seats => must_wait

\* waiting never counts a customer who does not sleep, so that no signal of
\* ramen.c:78 is wasted and eating = n is right.
QueueCounted == waiting <= Cardinality(At({"asleep"}))

\* The inductive invariant behind the two counters of ramen.c.
IInv == TypeOK /\ SeatsCounted /\ DoorClosedWhenFull /\ QueueCounted

\* "Enter the restaurant unless it's full or people haven't left yet",
\* ramen.c:55: once the restaurant has been full, a step that opens the door or
\* lets the next customers in leaves nobody of the old group inside.
GroupStep ==
  must_wait /\ (~must_wait' \/ Served' \ Served # {}) => Served \cap Served' = {}

GroupLeaves == [][GroupStep]_vars

\* The same line, for those in the queue: a customer sleeps only while the
\* restaurant is full or those who filled it have not left.  The reset of
\* ramen.c:74 breaks it once the queue is longer than the restaurant.
NobodyForgotten == At({"asleep"}) # {} => must_wait

\* The customers who sleep and are in no count: no signal of ramen.c:78 is meant
\* for them.
Forgotten == Cardinality(At({"asleep"})) - waiting

\* The reset of ramen.c:74 forgets those who do not fit, again and again; still
\* never so many that fewer customers remain than fill the restaurant and
\* one more, and nobody at all in a party that small.
FewForgotten ==
  \/ Forgotten = 0
  \/ Forgotten + max_seats < Cardinality(Customer)

\* A hungry customer eats in the end, unless the reset of ramen.c:74 has
\* forgotten somebody.
EatsUnlessForgotten ==
  \A c \in Customer : pc[c] = "hungry" ~> pc[c] = "eat" \/ Forgotten > 0
=============================================================================
