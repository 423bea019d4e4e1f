------------------------------- MODULE Office -------------------------------
(***************************************************************************)
(* 14/so21_lista_14/office.c: a post office with one clerk and a few       *)
(* seats.  Three condition variables share one mutex: clerk (the clerk     *)
(* sleeps), queue (seated customers), processed (customers at the desk).   *)
(* A block between two waits is one step, as the mutex is held all along.  *)
(***************************************************************************)
EXTENDS Integers, FiniteSets

CONSTANTS
  Client,      \* the customer threads
  seats,       \* o->seats
  Spurious     \* TRUE: pthread_cond_wait may return without a signal

ASSUME OfficeAssumption ==
  /\ IsFiniteSet(Client)
  /\ seats \in Nat \ {0}
  /\ Spurious \in BOOLEAN

VARIABLES
  o_waiting,   \* o->waiting
  client,      \* where each customer is
  clerk        \* where the clerk is

officeVars == <<o_waiting, client, clerk>>

\* A customer is outside, has been turned away, is asleep on queue, has been
\* called, is asleep on processed, has been told, has been served.
ClientLabels == {"outside", "refused", "queue", "called", "desk", "told", "served"}

\* The clerk is about to run clerk_wait, asleep on o->clerk, woken up, at the
\* paperwork, about to run clerk_done.
ClerkLabels == {"wait", "asleep", "woken", "paperwork", "done"}

ClientsAt(labels) == {c \in Client : client[c] \in labels}
Inside == ClientsAt({"queue", "called", "desk", "told"})

OfficeInit ==
  /\ o_waiting = 0
  /\ client = [c \in Client |-> "outside"]
  /\ clerk = "wait"

\* pthread_cond_signal on a condition variable where customers sleep at label
\* from: one of them moves to label to; with none there, nothing happens.
Signal(from, to) ==
  \/ ClientsAt({from}) = {} /\ UNCHANGED client
  \/ \E c \in ClientsAt({from}) : client' = [client EXCEPT ![c] = to]

ClientGoto(c, from, to) == client[c] = from /\ client' = [client EXCEPT ![c] = to]

-----------------------------------------------------------------------------
WalkInRefused(c) ==
  /\ o_waiting = seats
  /\ ClientGoto(c, "outside", "refused")
  /\ UNCHANGED <<o_waiting, clerk>>

\* The mutant does not signal the clerk.
WalkInSilent(c) ==
  /\ o_waiting # seats
  /\ o_waiting' = o_waiting + 1
  /\ ClientGoto(c, "outside", "queue")
  /\ UNCHANGED clerk

\* customer_walk_in up to the first pthread_cond_wait.
WalkIn(c) ==
  /\ o_waiting # seats
  /\ o_waiting' = o_waiting + 1
  /\ clerk' = IF clerk = "asleep" THEN "woken" ELSE clerk
  /\ ClientGoto(c, "outside", "queue")

\* From the first pthread_cond_wait to the second.
GoToDesk(c) ==
  /\ ClientGoto(c, "called", "desk")
  /\ UNCHANGED <<o_waiting, clerk>>

\* From the second pthread_cond_wait to the return.
LeaveDesk(c) ==
  /\ o_waiting' = o_waiting - 1
  /\ ClientGoto(c, "told", "served")
  /\ UNCHANGED clerk

\* office.c:106 and 111: the customer comes back after a while.
ComeAgain(c) ==
  /\ ClientGoto(c, "served", "outside") \/ ClientGoto(c, "refused", "outside")
  /\ UNCHANGED <<o_waiting, clerk>>

-----------------------------------------------------------------------------
\* clerk_wait.  The clerk who wakes up on o->clerk goes to work without a signal
\* to queue: the first customer is not called before the next round.
ClerkCall ==
  /\ clerk = "wait"
  /\ o_waiting > 0
  /\ Signal("queue", "called")
  /\ clerk' = "paperwork"
  /\ UNCHANGED o_waiting

ClerkSleep ==
  /\ clerk = "wait"
  /\ o_waiting = 0
  /\ clerk' = "asleep"
  /\ UNCHANGED <<o_waiting, client>>

ClerkWakeUp ==
  /\ clerk = "woken"
  /\ clerk' = "paperwork"
  /\ UNCHANGED <<o_waiting, client>>

\* office.c:127.
ClerkWork ==
  /\ clerk = "paperwork"
  /\ clerk' = "done"
  /\ UNCHANGED <<o_waiting, client>>

\* The mutant of clerk_done sends no signal.
ClerkDoneSilent ==
  /\ clerk = "done"
  /\ clerk' = "wait"
  /\ UNCHANGED <<o_waiting, client>>

ClerkDone ==
  /\ clerk = "done"
  /\ Signal("desk", "told")
  /\ clerk' = "wait"
  /\ UNCHANGED o_waiting

\* A pthread_cond_wait of a customer or of the clerk returns by itself.
SpuriousWakeup ==
  /\ Spurious
  /\ \/ /\ clerk = "asleep"
        /\ clerk' = "woken"
        /\ UNCHANGED client
     \/ \E c \in Client :
          /\ ClientGoto(c, "queue", "called") \/ ClientGoto(c, "desk", "told")
          /\ UNCHANGED clerk
  /\ UNCHANGED o_waiting

-----------------------------------------------------------------------------
Clerk == ClerkCall \/ ClerkSleep \/ ClerkWakeUp \/ ClerkWork \/ ClerkDone

RunClient(c) ==
  \/ WalkInRefused(c) \/ WalkIn(c) \/ GoToDesk(c) \/ LeaveDesk(c) \/ ComeAgain(c)

OfficeNext == Clerk \/ SpuriousWakeup \/ \E c \in Client : RunClient(c)

OfficeSpec == OfficeInit /\ [][OfficeNext]_officeVars

\* Every thread that is not asleep on a condition variable runs; which of the
\* sleeping customers a signal releases is left open.
OfficeFairSpec == OfficeSpec /\ WF_officeVars(Clerk) /\ \A c \in Client : WF_officeVars(RunClient(c))

-----------------------------------------------------------------------------
\* There are never more customers counted than there are seats.
OfficeTypeOK ==
  /\ o_waiting \in 0 .. seats
  /\ client \in [Client -> ClientLabels]
  /\ clerk \in ClerkLabels

\* o_waiting is the number of customers who are inside, from the moment they sit
\* down until they leave the desk, across both of their waits (office.c:67-74).
ClientsCounted == o_waiting = Cardinality(Inside)

\* The clerk never sleeps while a customer sits and waits to be called: the test
\* of o->waiting and the signal of walk_in (office.c:69, 82) cannot miss each
\* other.
ClerkAttends == clerk = "asleep" => Inside = {}

OfficeInv == OfficeTypeOK /\ ClientsCounted /\ ClerkAttends

\* "No seats then leave, otherwise wait for a clerk call", office.c:60: a customer
\* who sits is not stranded with a clerk who has stopped.  Signals that find
\* nobody (office.c:92 while the customer is still on the way to the desk) are
\* lost, but the next round of the clerk sends new ones.
OfficeServes ==
  \A c \in Client : client[c] = "queue" ~> \E d \in Client : client[d] = "told"
=============================================================================
