----------------------------- MODULE OfficeProofs -----------------------------
(***************************************************************************)
(* Proofs about module Office (14/so21_lista_14/office.c), for every       *)
(* finite set of customers, every number of seats, and with or without     *)
(* spurious wakeups.                                                       *)
(***************************************************************************)
EXTENDS Office, FiniteSetTheorems, TLAPS

USE OfficeAssumption

\* A set of customers is finite.
LEMMA ClientSets ==
  ASSUME NEW S \in SUBSET Client
  PROVE  IsFiniteSet(S) /\ Cardinality(S) \in Nat /\ (Cardinality(S) = 0 <=> S = {})
BY FS_Subset, FS_CardinalityType, FS_EmptySet

\* The state office_init makes (office.c:41-49) satisfies the invariant.
LEMMA OfficeInitInv == OfficeInit => OfficeInv
<1> SUFFICES ASSUME OfficeInit PROVE OfficeInv
  OBVIOUS
<1>1. Inside = {}
  BY DEF OfficeInit, Inside, ClientsAt
<1>2. ClientsCounted /\ ClerkAttends
  BY <1>1, FS_EmptySet DEF OfficeInit, ClientsCounted, ClerkAttends
<1>3. OfficeTypeOK
  BY DEF OfficeInit, OfficeTypeOK, ClientLabels, ClerkLabels
<1> QED
  BY <1>2, <1>3 DEF OfficeInv

\* A customer who goes from one label to another on the same side of the door leaves the
\* invariant as it is, as long as the clerk does not fall asleep.
LEMMA StaysOnSide ==
  ASSUME OfficeInv, NEW c \in Client, NEW from, NEW to \in ClientLabels, ClientGoto(c, from, to),
         from \in {"queue", "called", "desk", "told"} <=> to \in {"queue", "called", "desk", "told"},
         o_waiting' = o_waiting,
         clerk' \in ClerkLabels, clerk' = "asleep" => clerk = "asleep"
  PROVE  OfficeInv'
<1> USE DEF OfficeInv, OfficeTypeOK
<1>1. client' \in [Client -> ClientLabels]
  BY DEF ClientGoto
<1>2. Inside' = Inside
  BY <1>1 DEF Inside, ClientsAt, ClientGoto
<1> QED
  BY <1>1, <1>2 DEF ClientsCounted, ClerkAttends

\* So does a signal of the clerk to the customers.
LEMMA SignalKeeps ==
  ASSUME OfficeInv, NEW from, NEW to, Signal(from, to),
         <<from, to>> \in {<<"queue", "called">>, <<"desk", "told">>},
         o_waiting' = o_waiting, clerk' \in ClerkLabels \ {"asleep"}
  PROVE  OfficeInv'
<1>0. /\ from \in {"queue", "called", "desk", "told"} /\ to \in {"queue", "called", "desk", "told"}
      /\ to \in ClientLabels
  BY DEF ClientLabels
<1>1. CASE UNCHANGED client
  <2>1. Inside' = Inside
    BY <1>1 DEF Inside, ClientsAt
  <2> QED
    BY <1>1, <2>1 DEF OfficeInv, OfficeTypeOK, ClientsCounted, ClerkAttends
<1>2. ASSUME NEW c \in ClientsAt({from}), client' = [client EXCEPT ![c] = to] PROVE OfficeInv'
  <2>1. c \in Client /\ ClientGoto(c, from, to)
    BY <1>2 DEF ClientsAt, ClientGoto
  <2> QED
    BY <1>0, <2>1, StaysOnSide
<1> QED
  BY <1>1, <1>2 DEF Signal

\* Every step of a customer or of the clerk preserves the invariant.
LEMMA OfficeNextInv ==
  ASSUME OfficeInv, [OfficeNext]_officeVars
  PROVE  OfficeInv'
<1>0. Inside \in SUBSET Client
  BY DEF Inside, ClientsAt
<1> USE DEF OfficeInv, OfficeTypeOK
<1>1. CASE UNCHANGED officeVars
  <2>1. Inside' = Inside
    BY <1>1 DEF Inside, ClientsAt, officeVars
  <2> QED
    BY <1>1, <2>1 DEF officeVars, ClientsCounted, ClerkAttends
<1>2. ASSUME NEW c \in Client, WalkInRefused(c) PROVE OfficeInv'
  BY <1>2, StaysOnSide DEF WalkInRefused, ClientLabels
<1>3. ASSUME NEW c \in Client, WalkIn(c) PROVE OfficeInv'
  <2>1. client' \in [Client -> ClientLabels] /\ o_waiting' \in 0 .. seats /\ clerk' \in ClerkLabels \ {"asleep"}
    BY <1>3 DEF WalkIn, ClientGoto, ClientLabels, ClerkLabels
  <2>2. c \notin Inside /\ Inside' = Inside \cup {c}
    BY <1>3, <2>1 DEF WalkIn, ClientGoto, Inside, ClientsAt
  <2>3. Cardinality(Inside') = Cardinality(Inside) + 1
    BY <1>0, <2>2, ClientSets, FS_AddElement
  <2> QED
    BY <1>3, <2>1, <2>3 DEF WalkIn, ClientsCounted, ClerkAttends
<1>4. ASSUME NEW c \in Client, GoToDesk(c) PROVE OfficeInv'
  BY <1>4, StaysOnSide DEF GoToDesk, ClientLabels
<1>5. ASSUME NEW c \in Client, LeaveDesk(c) PROVE OfficeInv'
  <2>1. client' \in [Client -> ClientLabels] /\ UNCHANGED clerk /\ o_waiting' = o_waiting - 1
    BY <1>5 DEF LeaveDesk, ClientGoto, ClientLabels
  <2>2. c \in Inside /\ Inside' = Inside \ {c}
    BY <1>5, <2>1 DEF LeaveDesk, ClientGoto, Inside, ClientsAt
  <2>3. Cardinality(Inside') = Cardinality(Inside) - 1 /\ Cardinality(Inside') \in Nat
    BY <1>0, <2>2, ClientSets, FS_RemoveElement
  <2> QED
    BY <2>1, <2>2, <2>3 DEF ClientsCounted, ClerkAttends
<1>6. ASSUME NEW c \in Client, ComeAgain(c) PROVE OfficeInv'
  BY <1>6, StaysOnSide DEF ComeAgain, ClientLabels
<1>7. CASE ClerkCall
  BY <1>7, SignalKeeps DEF ClerkCall, ClerkLabels
<1>8. CASE ClerkSleep
  <2>1. Inside = {} /\ Inside' = Inside
    BY <1>0, <1>8, ClientSets DEF ClerkSleep, ClientsCounted, Inside, ClientsAt
  <2> QED
    BY <1>8, <2>1 DEF ClerkSleep, ClerkLabels, ClientsCounted, ClerkAttends
<1>9. CASE ClerkWakeUp \/ ClerkWork
  <2>1. Inside' = Inside
    BY <1>9 DEF ClerkWakeUp, ClerkWork, Inside, ClientsAt
  <2> QED
    BY <1>9, <2>1 DEF ClerkWakeUp, ClerkWork, ClerkLabels, ClientsCounted, ClerkAttends
<1>10. CASE ClerkDone
  BY <1>10, SignalKeeps DEF ClerkDone, ClerkLabels
<1>11. CASE SpuriousWakeup
  <2>1. CASE clerk' = "woken" /\ UNCHANGED <<client, o_waiting>>
    <3>1. Inside' = Inside
      BY <2>1 DEF Inside, ClientsAt
    <3> QED
      BY <2>1, <3>1 DEF ClerkLabels, ClientsCounted, ClerkAttends
  <2>2. ASSUME NEW c \in Client, ClientGoto(c, "queue", "called") \/ ClientGoto(c, "desk", "told"),
               UNCHANGED <<clerk, o_waiting>>
        PROVE  OfficeInv'
    BY <2>2, StaysOnSide DEF ClientLabels
  <2> QED
    BY <1>11, <2>1, <2>2 DEF SpuriousWakeup
<1> QED
  BY <1>1, <1>2, <1>3, <1>4, <1>5, <1>6, <1>7, <1>8, <1>9, <1>10, <1>11
  DEF OfficeNext, Clerk, RunClient

\* In an office of any size o_waiting counts the customers inside, never more than there
\* are seats, and the clerk never sleeps while one of them is there (office.c:60-92),
\* also when waits return without a signal.
THEOREM OfficeInvariant == OfficeSpec => []OfficeInv
BY OfficeInitInv, OfficeNextInv, PTL DEF OfficeSpec
=============================================================================
