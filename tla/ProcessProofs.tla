---------------------------- MODULE ProcessProofs ----------------------------
(***************************************************************************)
(* Proofs about the programs made of processes and coroutines.  Sinit,     *)
(* Cycle and EchoServer live by signals: proved for every set of           *)
(* processes, every size of the ring, every number of connections and      *)
(* every size of the table.  Coro and Prime are pipelines: proved for      *)
(* every input, and for every maxprime and every size of the pipes.        *)
(***************************************************************************)
EXTENDS EchoServer, Sinit, Cycle, Coro, Prime, FiniteSetTheorems, SequenceTheorems, WellFoundedInduction, TLAPS

-----------------------------------------------------------------------------
(* Sinit *)

SinitTypeOK ==
  /\ pend \subseteq {"USR1", "CHLD", "ALRM", "INT", "HUP"}
  /\ init \in {"spawn", "loop", "sigwait", "reap", "rearm"}
  /\ kid \in [Kid -> {"none", "alive", "zombie"}]

\* Every step of init, of its children and of the rest of the system keeps a pending
\* SIGCHLD or a running sigreap behind every zombie (sinit.c:55-62, 79).
LEMMA SinitNextInv ==
  ASSUME SinitTypeOK, NoZombieForgotten, [SinitNext]_sinitVars
  PROVE  SinitTypeOK' /\ NoZombieForgotten'
<1> USE DEF SinitTypeOK, NoZombieForgotten, InitGoto
<1>1. CASE UNCHANGED sinitVars
  BY <1>1 DEF sinitVars
<1>2. CASE Alarm
  BY <1>2 DEF Alarm
<1>3. CASE SigWait
  BY <1>3 DEF SigWait, sigmap
<1>4. CASE Spawn
  BY <1>4 DEF Spawn
<1>5. CASE Reap
  BY <1>5 DEF Reap
<1>6. CASE ReapNone
  BY <1>6 DEF ReapNone
<1>7. CASE Rearm
  BY <1>7 DEF Rearm
<1>8. CASE AlarmRings
  BY <1>8 DEF AlarmRings
<1>9. ASSUME NEW s \in {"USR1", "INT", "HUP"}, Sent(s)
      PROVE  SinitTypeOK' /\ NoZombieForgotten'
  BY <1>9 DEF Sent
<1>10. ASSUME NEW k \in Kid, Orphan(k) PROVE SinitTypeOK' /\ NoZombieForgotten'
  BY <1>10 DEF Orphan
<1>11. ASSUME NEW k \in Kid, KidDies(k) PROVE SinitTypeOK' /\ NoZombieForgotten'
  BY <1>11 DEF KidDies
<1> QED
  BY <1>1, <1>2, <1>3, <1>4, <1>5, <1>6, <1>7, <1>8, <1>9, <1>10, <1>11
  DEF SinitNext, InitStep

\* No dead child is ever forgotten: whatever signals are merged, and however many
\* children die while sigreap runs, a zombie has a SIGCHLD pending or sigreap still
\* looking for it (sinit.c:79).
THEOREM SinitForgetsNoZombie == SinitSpec => []NoZombieForgotten
<1>1. SinitInit => SinitTypeOK /\ NoZombieForgotten
  BY DEF SinitInit, SinitTypeOK, NoZombieForgotten
<1>2. SinitTypeOK /\ NoZombieForgotten /\ [SinitNext]_sinitVars
        => SinitTypeOK' /\ NoZombieForgotten'
  BY SinitNextInv
<1> QED
  BY <1>1, <1>2, PTL DEF SinitSpec

-----------------------------------------------------------------------------
(* Cycle *)

CycleTypeOK ==
  /\ forked \in 0 .. children
  /\ loc \in [Player -> {"fork", "none", "play", "suspended", "awake", "gone"}]
  /\ ball \in [Player -> BOOLEAN]

\* There is no ball before main has kicked it, which it does once and after all the
\* forks; who has not been forked is nowhere.
KickedOnce ==
  /\ loc[0] = "fork" => ~kicked
  /\ ~kicked => \A p \in Player : ~ball[p] /\ loc[p] # "awake"
  /\ \A p \in Player : p > forked => loc[p] = "none"

CycleInv == CycleTypeOK /\ KickedOnce /\ OneBall

USE CycleAssumption

LEMMA CycleInitInv == CycleInit => CycleInv
BY DEF CycleInit, CycleInv, CycleTypeOK, KickedOnce, OneBall, Player

\* Nobody passes the ball to himself, as there are at least two players.
LEMMA NextPlayer ==
  ASSUME NEW p \in Player
  PROVE  next(p) \in Player /\ next(p) # p
BY DEF Player, next

LEMMA CycleNextInv ==
  ASSUME CycleInv, [CycleNext]_cycleVars
  PROVE  CycleInv'
<1> USE DEF CycleInv, CycleTypeOK, KickedOnce, OneBall, SomeoneQuit, PlayGoto
<1>0. 0 \in Player /\ children \in Player /\ children # 0
  BY DEF Player
<1>1. CASE UNCHANGED cycleVars
  BY <1>1 DEF cycleVars
<1>2. CASE ForkPlayer
  BY <1>0, <1>2 DEF ForkPlayer, Player
<1>3. CASE Kick
  BY <1>0, <1>3 DEF Kick, Kill
<1>4. ASSUME NEW p \in Player, SigSuspend(p) PROVE CycleInv'
  BY <1>0, <1>4 DEF SigSuspend
<1>5. ASSUME NEW p \in Player, Wake(p) PROVE CycleInv'
  BY <1>0, <1>5 DEF Wake
<1>6. ASSUME NEW p \in Player, Pass(p) PROVE CycleInv'
  <2> DEFINE q == next(p)
  <2>1. q \in Player /\ q # p
    BY NextPlayer
  <2>2. /\ loc[p] = "awake" /\ loc' = [loc EXCEPT ![p] = "play"]
        /\ ball' = [ball EXCEPT ![q] = loc[q] # "gone"]
        /\ UNCHANGED <<forked, kicked>>
    BY <1>6 DEF Pass, Kill
  <2> HIDE DEF q
  <2>3. kicked /\ \A r \in Player : ~ball[r] /\ (loc[r] = "awake" => r = p)
    BY <2>2
  <2>4. CycleTypeOK'
    BY <2>1, <2>2
  <2>5. KickedOnce'
    BY <1>0, <2>2, <2>3
  <2>6. \A r \in Player : ~(loc[r] = "awake")' /\ (ball'[r] <=> r = q /\ loc[q] # "gone")
    BY <2>1, <2>2, <2>3
  <2>7. kicked' /\ ~SomeoneQuit' => ball'[q]
    BY <2>1, <2>2, <2>6
  <2>8. OneBall'
    BY <2>1, <2>6, <2>7
  <2> QED
    BY <2>4, <2>5, <2>8
<1>7. ASSUME NEW p \in Player, PassFails(p) PROVE CycleInv'
  BY <1>0, <1>7 DEF PassFails
<1>8. ASSUME NEW p \in Player, Quit(p) PROVE CycleInv'
  BY <1>0, <1>8 DEF Quit
<1> QED
  BY <1>1, <1>2, <1>3, <1>4, <1>5, <1>6, <1>7, <1>8 DEF CycleNext, Play

\* In a ring of any size there is one ball from the kick (cycle.c:60) on, and it is lost
\* only when somebody quits.
THEOREM OneBallProved == CycleSpec => []OneBall
<1>1. CycleInv => OneBall
  BY DEF CycleInv
<1> QED
  BY <1>1, CycleInitInv, CycleNextInv, PTL DEF CycleSpec

-----------------------------------------------------------------------------
(* EchoServer: who owns an entry of the table that the server shares with its *)
(* children.                                                                  *)

\* The handler of SIGCHLD has waited for k and is about to free its entry.
Deleted(k) == chld = "del37" /\ pid = k

\* The entry of k, if it was given one, is its own.
Attached(k) == child[k] \in {"born", "deaf", "stuck", "echo", "zombie"} \/ Deleted(k)

\* The entry of k: marked from addclient to delclient, and holding what k has read.
EntryOK(k) ==
  /\ child[k] \in {"none", "accepted"} => entry[k] = 0
  /\ child[k] \in {"none", "accepted", "born", "deaf", "stuck"} => got[k] = 0
  /\ child[k] = "echo" => entry[k] # 0
  /\ entry[k] # 0 =>
       /\ child[k] \in {"born", "deaf", "stuck"} => client[entry[k]] = Unborn
       /\ child[k] \in {"echo", "zombie"} \/ Deleted(k) => client[entry[k]] = k
       /\ Attached(k) => count[entry[k]] = got[k]

\* This holds of every child.
Entries == \A k \in Conn : EntryOK(k)

\* No two children have the same entry.
Apart ==
  \A k, l \in Conn : Attached(k) /\ Attached(l) /\ entry[k] # 0 /\ entry[k] = entry[l] => k = l

\* The connection main is dealing with, and the entry it has added.
MainOK ==
  /\ main \in {"block110", "add113", "count29", "fork114"} => conn \in Conn /\ child[conn] = "accepted"
  /\ main \in {"count29", "fork114"} /\ c # 0 =>
       /\ client[c] = Unborn /\ count[c] = 0
       /\ \A k \in Conn : Attached(k) => entry[k] # c

\* The child the handler of SIGCHLD has waited for.
HandlerOK ==
  /\ chld = "del37" => pid \in Conn /\ child[pid] = "gone"
  /\ main = "aborted" => chld = "del37" /\ entry[pid] = 0

\* One more, or not.
Unit(b) == IF b THEN 1 ELSE 0

\* Every used entry is counted.  Until SIGINT comes the count is exact, but for the step between
\* the two writes; after it one decrement may be missing for ever.
Counting ==
  main # "aborted" =>
    /\ nclients + Unit(main = "count29" /\ c # 0) >= Cardinality(Used) + Unit(chld = "del39")
    /\ sigint = "none" =>
         nclients + Unit(main = "count29" /\ c # 0) = Cardinality(Used) + Unit(chld = "del39")

\* When the handler of SIGINT has left, no child that may still read has an entry.
LeftAlone == sigint = "exited" => \A k \in Conn : entry[k] # 0 => child[k] \in {"none", "gone"}

\* The inductive invariant of the echo server.
EchoInv == TypeOK /\ Entries /\ Apart /\ MainOK /\ HandlerOK /\ Counting /\ LeftAlone

USE EchoAssumption

\* A set of natural numbers has a least element.
LEMMA LeastSlot == ASSUME NEW S \in SUBSET Nat, S # {} PROVE \E x \in S : \A y \in S : x <= y
<1> DEFINE R == OpToRel(<, Nat)
<1>1. IsWellFoundedOn(R, Nat)
  BY NatLessThanWellFounded
<1>2. PICK x \in S : \A y \in S : ~(<<y, x>> \in R)
  <2> HIDE DEF R
  <2> QED
    BY <1>1, WFMin
<1>3. ASSUME NEW y \in S PROVE x <= y
  <2>1. <<y, x>> \notin R
    BY <1>2
  <2>2. ~(y < x)
    BY <2>1 DEF OpToRel
  <2> QED
    BY <2>2
<1> QED
  BY <1>2, <1>3

\* findclient (echoserver-fork.c:17-22).
LEMMA FindClient ==
  ASSUME NEW k
  PROVE  /\ findclient(k) \in 0 .. MAXCLIENTS
         /\ findclient(k) = 0 => \A s \in Slot : client[s] # k
         /\ findclient(k) # 0 => findclient(k) \in Slot /\ client[findclient(k)] = k
<1> DEFINE found == {s \in Slot : client[s] = k}
<1>1. found \in SUBSET Nat /\ found \subseteq Slot
  BY DEF Slot
<1>2. CASE found = {}
  <2>1. findclient(k) = 0
    BY <1>2 DEF findclient
  <2> QED
    BY <1>2, <2>1
<1>3. CASE found # {}
  <2>1. findclient(k) = Min(found)
    BY <1>3 DEF findclient
  <2>2. \E x \in found : \A y \in found : x <= y
    <3> HIDE DEF found
    <3> QED
      BY <1>1, <1>3, LeastSlot
  <2>3. Min(found) \in found
    BY <2>2 DEF Min
  <2> QED
    BY <1>1, <2>1, <2>3 DEF Slot
<1> QED
  BY <1>2, <1>3

\* The table is finite.
LEMMA UsedFinite == IsFiniteSet(Used) /\ Cardinality(Used) \in Nat
<1>1. IsFiniteSet(Slot)
  BY FS_Interval DEF Slot
<1>2. Used \subseteq Slot
  BY DEF Used
<1> QED
  BY <1>1, <1>2, FS_Subset, FS_CardinalityType


\* A child that was given an entry finds it marked with its own pid, or with -1 until
\* it has filled it in (echoserver-fork.c:27, 119).
LEMMA OwnEntry ==
  ASSUME EchoInv, NEW k \in Conn, Attached(k), entry[k] # 0
  PROVE  entry[k] \in Slot /\ client[entry[k]] \in {k, Unborn} /\ entry[k] \in Used
<1>1. entry[k] \in Slot
  BY DEF EchoInv, TypeOK, Slot
<1>2. client[entry[k]] \in {k, Unborn}
  BY DEF EchoInv, Entries, EntryOK, Attached
<1> QED
  BY <1>1, <1>2 DEF Used

\* accept (echoserver-fork.c:103).
LEMMA AcceptInv ==
  ASSUME EchoInv, NEW k \in Conn, Accept(k)
  PROVE  EchoInv'
<1> USE DEF EchoInv, Accept, Goto, MainRuns, Running, table
<1>1. TypeOK'
  BY DEF TypeOK, MainLabels, SigintLabels, ChldLabels, ChildLabels, Slot
<1>2. Entries'
  BY DEF TypeOK, Entries, EntryOK, Attached, Deleted
<1>3. Apart'
  BY DEF TypeOK, Apart, Attached, Deleted
<1>4. MainOK'
  BY DEF TypeOK, MainOK, Attached, Deleted
<1>5. HandlerOK'
  BY DEF TypeOK, HandlerOK
<1>6. Counting'
  BY UsedFinite DEF TypeOK, Counting, Unit, Used
<1>7. LeftAlone'
  BY DEF TypeOK, LeftAlone
<1> QED
  BY <1>1, <1>2, <1>3, <1>4, <1>5, <1>6, <1>7

\* SIGCHLD is masked before the table is touched (echoserver-fork.c:110).
LEMMA BlockChldInv ==
  ASSUME EchoInv, BlockChld
  PROVE  EchoInv'
<1> USE DEF EchoInv, BlockChld, Goto, MainRuns, Running, table
<1>1. TypeOK'
  BY DEF TypeOK, MainLabels, SigintLabels, ChldLabels, ChildLabels, Slot
<1>2. Entries'
  BY DEF TypeOK, Entries, EntryOK, Attached, Deleted
<1>3. Apart'
  BY DEF TypeOK, Apart, Attached, Deleted
<1>4. MainOK'
  BY DEF TypeOK, MainOK, Attached, Deleted
<1>5. HandlerOK'
  BY DEF TypeOK, HandlerOK
<1>6. Counting'
  BY UsedFinite DEF TypeOK, Counting, Unit, Used
<1>7. LeftAlone'
  BY DEF TypeOK, LeftAlone
<1> QED
  BY <1>1, <1>2, <1>3, <1>4, <1>5, <1>6, <1>7

\* addclient takes a free entry, so no child owns it (echoserver-fork.c:24-28).
LEMMA AddClientInv ==
  ASSUME EchoInv, AddClient
  PROVE  EchoInv'
<1> USE DEF EchoInv, AddClient, Goto, MainRuns, Running, table
<1>a. PICK s \in 0 .. MAXCLIENTS : s = findclient(NoConn)
  BY FindClient
<1>b. s # 0 => s \in Slot /\ client[s] = NoConn
  BY <1>a, FindClient
<1>c. /\ c' = s /\ client' = [x \in Slot |-> IF x = s THEN Unborn ELSE client[x]]
      /\ count' = [x \in Slot |-> IF x = s THEN 0 ELSE count[x]]
  BY <1>a
<1>d. ASSUME NEW k \in Conn, Attached(k), entry[k] # 0
      PROVE  entry[k] # s /\ client'[entry[k]] = client[entry[k]] /\ count'[entry[k]] = count[entry[k]]
  <2>1. entry[k] \in Slot /\ client[entry[k]] # NoConn
    BY <1>d, OwnEntry
  <2>2. entry[k] # s
    BY <1>b, <1>d, <2>1
  <2> QED
    BY <1>c, <2>1, <2>2
<1>e. \A k \in Conn : Attached(k)' <=> Attached(k)
  BY DEF Attached, Deleted
<1>f. UNCHANGED <<child, entry, got, chld, pid>>
  OBVIOUS
<1>1. TypeOK'
  BY FindClient DEF TypeOK, MainLabels, SigintLabels, ChldLabels, ChildLabels, Slot
<1>2. Entries'
  <2> SUFFICES ASSUME NEW k \in Conn PROVE EntryOK(k)'
    BY DEF Entries
  <2>1. EntryOK(k)
    BY DEF Entries
  <2> QED
    BY <1>d, <1>e, <1>f, <2>1 DEF EntryOK, Deleted, Attached
<1>3. Apart'
  BY DEF TypeOK, Apart, Attached, Deleted
<1>4. MainOK'
  <2>1. s # 0 => client'[s] = Unborn /\ count'[s] = 0
    BY <1>b, <1>c
  <2>2. s # 0 => \A k \in Conn : Attached(k)' => entry'[k] # s
    BY <1>d, <1>e, <1>f
  <2>3. conn \in Conn /\ child[conn] = "accepted" /\ conn' = conn /\ main' = "count29"
    BY DEF MainOK
  <2> QED
    BY <1>c, <1>f, <2>1, <2>2, <2>3 DEF MainOK
<1>5. HandlerOK'
  BY DEF TypeOK, HandlerOK
<1>6. Counting'
  <2>1. CASE s = 0
    <3>1. Used' = Used
      BY <1>c, <2>1 DEF Used, Slot, TypeOK
    <3> QED
      BY <1>c, <2>1, <3>1 DEF Counting, Unit
  <2>2. CASE s # 0
    <3>1. Used' = Used \cup {s} /\ s \notin Used
      BY <1>b, <1>c, <2>2 DEF Used, TypeOK
    <3>2. Cardinality(Used \cup {s}) = Cardinality(Used) + 1
      BY <3>1, UsedFinite, FS_AddElement
    <3>3. nclients = Cardinality(Used) /\ nclients \in Nat
      BY UsedFinite DEF Counting, Unit, TypeOK
    <3> QED
      BY <1>c, <2>2, <3>1, <3>2, <3>3 DEF Counting, Unit
  <2> QED
    BY <2>1, <2>2
<1>7. LeftAlone'
  BY DEF TypeOK, LeftAlone
<1> QED
  BY <1>1, <1>2, <1>3, <1>4, <1>5, <1>6, <1>7

\* addclient counts the entry (echoserver-fork.c:29).
LEMMA CountUpInv ==
  ASSUME EchoInv, CountUp
  PROVE  EchoInv'
<1> USE DEF EchoInv, CountUp, Goto, MainRuns, Running, table
<1>1. TypeOK'
  BY DEF TypeOK, MainLabels, SigintLabels, ChldLabels, ChildLabels, Slot
<1>2. Entries'
  BY DEF TypeOK, Entries, EntryOK, Attached, Deleted
<1>3. Apart'
  BY DEF TypeOK, Apart, Attached, Deleted
<1>4. MainOK'
  BY DEF TypeOK, MainOK, Attached, Deleted
<1>5. HandlerOK'
  BY DEF TypeOK, HandlerOK
<1>6. Counting'
  BY UsedFinite DEF TypeOK, Counting, Unit, Used
<1>7. LeftAlone'
  BY DEF TypeOK, LeftAlone
<1> QED
  BY <1>1, <1>2, <1>3, <1>4, <1>5, <1>6, <1>7

\* The child gets the entry that main has marked (echoserver-fork.c:114).
LEMMA ForkChildInv ==
  ASSUME EchoInv, ForkChild
  PROVE  EchoInv'
<1> USE DEF EchoInv, ForkChild, Goto, MainRuns, Running, table
<1>a. /\ conn \in Conn /\ child[conn] = "accepted" /\ ~Attached(conn) /\ got[conn] = 0
      /\ c # 0 => /\ client[c] = Unborn /\ count[c] = 0
                  /\ \A k \in Conn : Attached(k) => entry[k] # c
  BY DEF MainOK, Attached, Deleted, Entries, EntryOK
<1>b. /\ child'[conn] = "born" /\ entry'[conn] = c
      /\ \A k \in Conn : k # conn => child'[k] = child[k] /\ entry'[k] = entry[k]
      /\ UNCHANGED <<client, count, got, chld, pid>>
  BY <1>a DEF TypeOK
<1>c. \A k \in Conn : k # conn => (Attached(k)' <=> Attached(k))
  BY <1>b DEF Attached, Deleted
<1>1. TypeOK'
  BY DEF TypeOK, MainLabels, SigintLabels, ChldLabels, ChildLabels, Slot
<1>2. Entries'
  <2> SUFFICES ASSUME NEW k \in Conn PROVE EntryOK(k)'
    BY DEF Entries
  <2>1. EntryOK(k)
    BY DEF Entries
  <2>2. CASE k = conn
    <3>1. ~Deleted(k)'
      BY <1>b DEF Deleted
    <3> QED
      BY <1>a, <1>b, <2>2, <3>1 DEF EntryOK
  <2>3. CASE k # conn
    BY <1>b, <1>c, <2>1, <2>3 DEF EntryOK, Deleted
  <2> QED
    BY <2>2, <2>3
<1>3. Apart'
  <2> SUFFICES ASSUME NEW k \in Conn, NEW l \in Conn, Attached(k)', Attached(l)', entry'[k] # 0,
                      entry'[k] = entry'[l]
               PROVE  k = l
    BY DEF Apart
  <2>1. CASE k # conn /\ l # conn
    BY <1>b, <1>c, <2>1 DEF Apart
  <2>2. CASE k = conn /\ l # conn
    BY <1>a, <1>b, <1>c, <2>2
  <2>3. CASE k # conn /\ l = conn
    BY <1>a, <1>b, <1>c, <2>3
  <2> QED
    BY <2>1, <2>2, <2>3
<1>4. MainOK'
  BY DEF TypeOK, MainOK, Attached, Deleted
<1>5. HandlerOK'
  BY DEF TypeOK, HandlerOK
<1>6. Counting'
  BY UsedFinite DEF TypeOK, Counting, Unit, Used
<1>7. LeftAlone'
  BY DEF TypeOK, LeftAlone
<1> QED
  BY <1>1, <1>2, <1>3, <1>4, <1>5, <1>6, <1>7

\* SIGCHLD is let through again (echoserver-fork.c:126).
LEMMA UnblockChldInv ==
  ASSUME EchoInv, UnblockChld
  PROVE  EchoInv'
<1> USE DEF EchoInv, UnblockChld, Goto, MainRuns, Running, table
<1>1. TypeOK'
  BY DEF TypeOK, MainLabels, SigintLabels, ChldLabels, ChildLabels, Slot
<1>2. Entries'
  BY DEF TypeOK, Entries, EntryOK, Attached, Deleted
<1>3. Apart'
  BY DEF TypeOK, Apart, Attached, Deleted
<1>4. MainOK'
  BY DEF TypeOK, MainOK, Attached, Deleted
<1>5. HandlerOK'
  BY DEF TypeOK, HandlerOK
<1>6. Counting'
  BY UsedFinite DEF TypeOK, Counting, Unit, Used
<1>7. LeftAlone'
  BY DEF TypeOK, LeftAlone
<1> QED
  BY <1>1, <1>2, <1>3, <1>4, <1>5, <1>6, <1>7

\* SIGCHLD arrives.
LEMMA DeliverChldInv ==
  ASSUME EchoInv, DeliverChld
  PROVE  EchoInv'
<1> USE DEF EchoInv, DeliverChld, Running, table
<1>1. TypeOK'
  BY DEF TypeOK, MainLabels, SigintLabels, ChldLabels, ChildLabels, Slot
<1>2. Entries'
  BY DEF TypeOK, Entries, EntryOK, Attached, Deleted
<1>3. Apart'
  BY DEF TypeOK, Apart, Attached, Deleted
<1>4. MainOK'
  BY DEF TypeOK, MainOK, Attached, Deleted
<1>5. HandlerOK'
  BY DEF TypeOK, HandlerOK
<1>6. Counting'
  BY UsedFinite DEF TypeOK, Counting, Unit, Used
<1>7. LeftAlone'
  BY DEF TypeOK, LeftAlone
<1> QED
  BY <1>1, <1>2, <1>3, <1>4, <1>5, <1>6, <1>7

\* waitpid finds a zombie, whose entry is still its own (echoserver-fork.c:45).
LEMMA WaitPidInv ==
  ASSUME EchoInv, WaitPid
  PROVE  EchoInv'
<1> USE DEF EchoInv, WaitPid, Running, table
<1>1. TypeOK'
  BY DEF TypeOK, MainLabels, SigintLabels, ChldLabels, ChildLabels, Slot
<1>2. Entries'
  BY DEF TypeOK, Entries, EntryOK, Attached, Deleted
<1>3. Apart'
  BY DEF TypeOK, Apart, Attached, Deleted
<1>4. MainOK'
  BY DEF TypeOK, MainOK, Attached, Deleted
<1>5. HandlerOK'
  BY DEF TypeOK, HandlerOK
<1>6. Counting'
  BY UsedFinite DEF TypeOK, Counting, Unit, Used
<1>7. LeftAlone'
  BY DEF TypeOK, LeftAlone
<1> QED
  BY <1>1, <1>2, <1>3, <1>4, <1>5, <1>6, <1>7

\* waitpid finds none (echoserver-fork.c:45).
LEMMA WaitPidNoneInv ==
  ASSUME EchoInv, WaitPidNone
  PROVE  EchoInv'
<1> USE DEF EchoInv, WaitPidNone, Running, table
<1>1. TypeOK'
  BY DEF TypeOK, MainLabels, SigintLabels, ChldLabels, ChildLabels, Slot
<1>2. Entries'
  BY DEF TypeOK, Entries, EntryOK, Attached, Deleted
<1>3. Apart'
  BY DEF TypeOK, Apart, Attached, Deleted
<1>4. MainOK'
  BY DEF TypeOK, MainOK, Attached, Deleted
<1>5. HandlerOK'
  BY DEF TypeOK, HandlerOK
<1>6. Counting'
  BY UsedFinite DEF TypeOK, Counting, Unit, Used
<1>7. LeftAlone'
  BY DEF TypeOK, LeftAlone
<1> QED
  BY <1>1, <1>2, <1>3, <1>4, <1>5, <1>6, <1>7

\* delclient finds the entry of every child that was given one, and frees that of no other
\* (echoserver-fork.c:34-38).
LEMMA DelClientInv ==
  ASSUME EchoInv, DelClient
  PROVE  EchoInv'
<1> USE DEF EchoInv, DelClient, Running, table
<1>a. pid \in Conn /\ child[pid] = "gone" /\ main # "aborted"
  BY DEF HandlerOK
<1>b. PICK s \in 0 .. MAXCLIENTS : s = findclient(pid)
  BY FindClient
<1>c. s # 0 => s \in Slot /\ client[s] = pid
  BY <1>b, FindClient
<1>d. s = 0 => entry[pid] = 0
  <2>1. Attached(pid)
    BY DEF Attached, Deleted
  <2>2. s = 0 => \A x \in Slot : client[x] # pid
    BY <1>b, FindClient
  <2>3. entry[pid] # 0 => entry[pid] \in Slot /\ client[entry[pid]] = pid
    BY <1>a, <2>1, OwnEntry DEF Entries, EntryOK, Deleted
  <2> QED
    BY <2>2, <2>3
<1>e. /\ s = 0 => main' = "aborted" /\ UNCHANGED <<client, nread, chld>>
      /\ s # 0 => /\ nread' = nread + count[s] /\ client' = [client EXCEPT ![s] = NoConn]
                  /\ chld' = "del39" /\ UNCHANGED main
      /\ UNCHANGED <<conn, c, masked, sigint, pid, pending, count, nclients, child, entry, got>>
  BY <1>b
<1>f. ASSUME s # 0, NEW x \in Slot, client[x] # pid PROVE client'[x] = client[x]
  BY <1>c, <1>e, <1>f DEF TypeOK
<1>g. \A k \in Conn : Attached(k)' => Attached(k)
  BY <1>e DEF Attached, Deleted
<1>1. TypeOK'
  <2>1. s # 0 => count[s] \in Nat /\ nread + count[s] \in Nat
    BY <1>c DEF TypeOK
  <2>2. s # 0 => client' \in [Slot -> Conn \cup {NoConn, Unborn}]
    BY <1>e DEF TypeOK
  <2> QED
    BY <1>e, <2>1, <2>2 DEF TypeOK, MainLabels, ChldLabels
<1>2. Entries'
  <2>1. CASE s = 0
    BY <1>e, <2>1 DEF Entries, EntryOK, Attached, Deleted
  <2>2. CASE s # 0
    <3> SUFFICES ASSUME NEW k \in Conn PROVE EntryOK(k)'
      BY DEF Entries
    <3>1. EntryOK(k) /\ ~Deleted(k)'
      BY <1>e, <2>2 DEF Entries, Deleted
    <3>2. child[k] \in {"born", "deaf", "stuck", "echo", "zombie"} /\ entry[k] # 0
             => client'[entry[k]] = client[entry[k]]
      <4> SUFFICES ASSUME child[k] \in {"born", "deaf", "stuck", "echo", "zombie"}, entry[k] # 0
                   PROVE  client'[entry[k]] = client[entry[k]]
        OBVIOUS
      <4>1. entry[k] \in Slot /\ client[entry[k]] \in {k, Unborn} /\ k # pid
        BY <1>a, OwnEntry DEF Attached
      <4> QED
        BY <1>a, <1>f, <2>2, <4>1
    <3> QED
      BY <1>e, <1>g, <3>1, <3>2 DEF EntryOK, Attached
  <2> QED
    BY <2>1, <2>2
<1>3. Apart'
  BY DEF TypeOK, Apart, Attached, Deleted
<1>4. MainOK'
  <2>1. CASE s = 0
    BY <1>e, <2>1 DEF MainOK
  <2>2. CASE s # 0
    <3>1. main \in {"count29", "fork114"} /\ c # 0 => client'[c] = Unborn
      BY <1>a, <1>f, <2>2 DEF MainOK, TypeOK, Slot
    <3> QED
      BY <1>e, <1>g, <2>2, <3>1 DEF MainOK
  <2> QED
    BY <2>1, <2>2
<1>5. HandlerOK'
  <2>1. CASE s = 0
    BY <1>a, <1>d, <1>e, <2>1 DEF HandlerOK
  <2>2. CASE s # 0
    BY <1>a, <1>e, <2>2 DEF HandlerOK
  <2> QED
    BY <2>1, <2>2
<1>6. Counting'
  <2>1. CASE s = 0
    BY <1>e, <2>1 DEF Counting
  <2>2. CASE s # 0
    <3>1. Used' = Used \ {s} /\ s \in Used
      BY <1>a, <1>c, <1>e, <2>2 DEF Used, TypeOK
    <3>2. Cardinality(Used \ {s}) = Cardinality(Used) - 1
      BY <3>1, UsedFinite, FS_RemoveElement
    <3>3. Unit(chld = "del39") = 0 /\ Unit(chld' = "del39") = 1
      BY <1>e, <2>2 DEF Unit
    <3>4. nclients \in Nat /\ Cardinality(Used) \in Nat
      BY UsedFinite DEF TypeOK
    <3>5. Cardinality(Used') + Unit(chld' = "del39") = Cardinality(Used) + Unit(chld = "del39")
      BY <3>1, <3>2, <3>3, <3>4
    <3>6. Unit(main' = "count29" /\ c' # 0) = Unit(main = "count29" /\ c # 0)
      BY <1>e, <2>2 DEF Unit
    <3> QED
      BY <1>a, <1>e, <3>5, <3>6 DEF Counting
  <2> QED
    BY <2>1, <2>2
<1>7. LeftAlone'
  BY DEF TypeOK, LeftAlone
<1> QED
  BY <1>1, <1>2, <1>3, <1>4, <1>5, <1>6, <1>7

\* nclients does not fall below zero (echoserver-fork.c:39).
LEMMA CountDownInv ==
  ASSUME EchoInv, CountDown
  PROVE  EchoInv'
<1> USE DEF EchoInv, CountDown, Running, table
<1>1. TypeOK'
  <2>1. nclients - 1 \in Nat
    <3>1. nclients + Unit(main = "count29" /\ c # 0) >= Cardinality(Used) + 1
      BY DEF Counting, Unit
    <3>2. nclients \in Nat /\ Cardinality(Used) \in Nat
      BY UsedFinite DEF TypeOK
    <3>3. CASE main = "count29" /\ c # 0
      <4>1. c \in Used
        BY <3>3 DEF MainOK, TypeOK, Used, Slot
      <4>2. Cardinality(Used) # 0
        BY <4>1, UsedFinite, FS_EmptySet
      <4> QED
        BY <3>1, <3>2, <3>3, <4>2 DEF Unit
    <3>4. CASE ~(main = "count29" /\ c # 0)
      BY <3>1, <3>2, <3>4 DEF Unit
    <3> QED
      BY <3>3, <3>4
  <2> QED
    BY <2>1 DEF TypeOK, ChldLabels
<1>2. Entries'
  BY DEF TypeOK, Entries, EntryOK, Attached, Deleted
<1>3. Apart'
  BY DEF TypeOK, Apart, Attached, Deleted
<1>4. MainOK'
  BY DEF TypeOK, MainOK, Attached, Deleted
<1>5. HandlerOK'
  BY DEF TypeOK, HandlerOK
<1>6. Counting'
  BY UsedFinite DEF TypeOK, Counting, Unit, Used
<1>7. LeftAlone'
  BY DEF TypeOK, LeftAlone
<1> QED
  BY <1>1, <1>2, <1>3, <1>4, <1>5, <1>6, <1>7

\* SIGINT may break off addclient and delclient between their two writes
\* (echoserver-fork.c:51).
LEMMA InterruptInv ==
  ASSUME EchoInv, Interrupt
  PROVE  EchoInv'
<1> USE DEF EchoInv, Interrupt, Running, table
<1>1. TypeOK'
  BY DEF TypeOK, MainLabels, SigintLabels, ChldLabels, ChildLabels, Slot
<1>2. Entries'
  BY DEF TypeOK, Entries, EntryOK, Attached, Deleted
<1>3. Apart'
  BY DEF TypeOK, Apart, Attached, Deleted
<1>4. MainOK'
  BY DEF TypeOK, MainOK, Attached, Deleted
<1>5. HandlerOK'
  BY DEF TypeOK, HandlerOK
<1>6. Counting'
  BY UsedFinite DEF TypeOK, Counting, Unit, Used
<1>7. LeftAlone'
  BY DEF TypeOK, LeftAlone
<1> QED
  BY <1>1, <1>2, <1>3, <1>4, <1>5, <1>6, <1>7

\* The handler of SIGINT lets SIGCHLD through (echoserver-fork.c:57).
LEMMA UnmaskChldInv ==
  ASSUME EchoInv, UnmaskChld
  PROVE  EchoInv'
<1> USE DEF EchoInv, UnmaskChld, SigintGoto, Running, table
<1>1. TypeOK'
  BY DEF TypeOK, MainLabels, SigintLabels, ChldLabels, ChildLabels, Slot
<1>2. Entries'
  BY DEF TypeOK, Entries, EntryOK, Attached, Deleted
<1>3. Apart'
  BY DEF TypeOK, Apart, Attached, Deleted
<1>4. MainOK'
  BY DEF TypeOK, MainOK, Attached, Deleted
<1>5. HandlerOK'
  BY DEF TypeOK, HandlerOK
<1>6. Counting'
  BY UsedFinite DEF TypeOK, Counting, Unit, Used
<1>7. LeftAlone'
  BY DEF TypeOK, LeftAlone
<1> QED
  BY <1>1, <1>2, <1>3, <1>4, <1>5, <1>6, <1>7

\* The handler of SIGINT leaves when nclients is 0, and then no child has an entry
\* (echoserver-fork.c:59).
LEMMA TestClientsInv ==
  ASSUME EchoInv, TestClients
  PROVE  EchoInv'
<1> USE DEF EchoInv, TestClients, SigintGoto, Running, table
<1>1. TypeOK'
  BY DEF TypeOK, MainLabels, SigintLabels, ChldLabels, ChildLabels, Slot
<1>2. Entries'
  BY DEF TypeOK, Entries, EntryOK, Attached, Deleted
<1>3. Apart'
  BY DEF TypeOK, Apart, Attached, Deleted
<1>4. MainOK'
  BY DEF TypeOK, MainOK, Attached, Deleted
<1>5. HandlerOK'
  BY DEF TypeOK, HandlerOK
<1>6. Counting'
  BY UsedFinite DEF TypeOK, Counting, Unit, Used
<1>7. LeftAlone'
  <2> SUFFICES ASSUME sigint' = "exited", NEW k \in Conn, entry[k] # 0, child[k] \notin {"none", "gone"}
               PROVE  FALSE
    BY DEF LeftAlone
  <2>1. nclients = 0
    OBVIOUS
  <2>2. Attached(k)
    BY DEF TypeOK, ChildLabels, Entries, EntryOK, Attached
  <2>3. entry[k] \in Used
    BY <2>2, OwnEntry
  <2>4. Cardinality(Used) \in Nat /\ Cardinality(Used) # 0
    BY <2>3, UsedFinite, FS_EmptySet
  <2>5. Unit(main = "count29" /\ c # 0) >= Cardinality(Used)
    BY <2>1, <2>4 DEF Counting, Unit
  <2>6. main = "count29" /\ c # 0 /\ Cardinality(Used) = 1
    BY <2>4, <2>5 DEF Unit
  <2>7. c \in Used /\ entry[k] # c
    BY <2>2, <2>6 DEF MainOK, TypeOK, Used, Slot
  <2>8. \E x : Used = {x}
    BY <2>6, UsedFinite, FS_Singleton
  <2> QED
    BY <2>3, <2>7, <2>8
<1> QED
  BY <1>1, <1>2, <1>3, <1>4, <1>5, <1>6, <1>7

\* Sigsuspend (echoserver-fork.c:60).
LEMMA SuspendInv ==
  ASSUME EchoInv, Suspend
  PROVE  EchoInv'
<1> USE DEF EchoInv, Suspend, SigintGoto, Running, table
<1>1. TypeOK'
  BY DEF TypeOK, MainLabels, SigintLabels, ChldLabels, ChildLabels, Slot
<1>2. Entries'
  BY DEF TypeOK, Entries, EntryOK, Attached, Deleted
<1>3. Apart'
  BY DEF TypeOK, Apart, Attached, Deleted
<1>4. MainOK'
  BY DEF TypeOK, MainOK, Attached, Deleted
<1>5. HandlerOK'
  BY DEF TypeOK, HandlerOK
<1>6. Counting'
  BY UsedFinite DEF TypeOK, Counting, Unit, Used
<1>7. LeftAlone'
  BY DEF TypeOK, LeftAlone
<1> QED
  BY <1>1, <1>2, <1>3, <1>4, <1>5, <1>6, <1>7

\* The child ignores SIGINT (echoserver-fork.c:116-118).
LEMMA IgnoreSigintInv ==
  ASSUME EchoInv, NEW k \in Conn, IgnoreSigint(k)
  PROVE  EchoInv'
<1> USE DEF EchoInv, IgnoreSigint, server, table
<1>1. TypeOK'
  BY DEF TypeOK, MainLabels, SigintLabels, ChldLabels, ChildLabels, Slot
<1>2. Entries'
  BY DEF TypeOK, Entries, EntryOK, Attached, Deleted
<1>3. Apart'
  BY DEF TypeOK, Apart, Attached, Deleted
<1>4. MainOK'
  BY DEF TypeOK, MainOK, Attached, Deleted
<1>5. HandlerOK'
  BY DEF TypeOK, HandlerOK
<1>6. Counting'
  BY UsedFinite DEF TypeOK, Counting, Unit, Used
<1>7. LeftAlone'
  BY DEF TypeOK, LeftAlone
<1> QED
  BY <1>1, <1>2, <1>3, <1>4, <1>5, <1>6, <1>7

\* The child writes its pid into the entry, which nobody has taken (echoserver-fork.c:119).
LEMMA SetPidInv ==
  ASSUME EchoInv, NEW k \in Conn, SetPid(k)
  PROVE  EchoInv'
<1> USE DEF EchoInv, SetPid, server, table
<1>a. Attached(k) /\ child' = [child EXCEPT ![k] = IF entry[k] = 0 THEN "zombie" ELSE "echo"]
  BY DEF Attached
<1>b. /\ entry[k] = 0 => client' = client /\ pending'
      /\ entry[k] # 0 => /\ client' = [client EXCEPT ![entry[k]] = k]
                         /\ entry[k] \in Slot /\ client[entry[k]] = Unborn
                         /\ pending' = pending
      /\ UNCHANGED <<server, count, nclients, nread, entry, got>>
  BY <1>a, OwnEntry DEF Entries, EntryOK
<1>c. /\ child'[k] = IF entry[k] = 0 THEN "zombie" ELSE "echo"
      /\ \A l \in Conn : l # k => child'[l] = child[l]
  BY <1>a DEF TypeOK
<1>d. \A l \in Conn : Attached(l)' <=> Attached(l)
  <2> SUFFICES ASSUME NEW l \in Conn PROVE Attached(l)' <=> Attached(l)
    OBVIOUS
  <2>1. CASE l = k
    BY <1>a, <1>c, <2>1 DEF Attached
  <2>2. CASE l # k
    BY <1>b, <1>c, <2>2 DEF Attached, Deleted
  <2> QED
    BY <2>1, <2>2
<1>e. ASSUME NEW x \in Slot, entry[k] = 0 \/ x # entry[k] PROVE client'[x] = client[x]
  BY <1>b, <1>e DEF TypeOK
<1>1. TypeOK'
  <2>1. client' \in [Slot -> Conn \cup {NoConn, Unborn}]
    BY <1>b DEF TypeOK
  <2>2. child' \in [Conn -> ChildLabels]
    BY <1>a DEF TypeOK, ChildLabels
  <2>3. pending' \in BOOLEAN
    BY <1>b DEF TypeOK
  <2> QED
    BY <1>b, <2>1, <2>2, <2>3 DEF TypeOK
<1>2. Entries'
  <2> SUFFICES ASSUME NEW l \in Conn PROVE EntryOK(l)'
    BY DEF Entries
  <2>1. EntryOK(l)
    BY DEF Entries
  <2>2. CASE l = k
    <3>1. entry[k] # 0 => client'[entry[k]] = k
      BY <1>b DEF TypeOK
    <3>2. child[k] = "deaf"
      OBVIOUS
    <3> QED
      BY <1>a, <1>b, <1>c, <2>1, <2>2, <3>1, <3>2 DEF EntryOK
  <2>3. CASE l # k
    <3>1. Attached(l) /\ entry[l] # 0 => client'[entry[l]] = client[entry[l]]
      <4> SUFFICES ASSUME Attached(l), entry[l] # 0 PROVE client'[entry[l]] = client[entry[l]]
        OBVIOUS
      <4>1. entry[l] \in Slot /\ (entry[k] = 0 \/ entry[l] # entry[k])
        BY <1>a, <2>3, OwnEntry DEF Apart
      <4> QED
        BY <1>e, <4>1
    <3>2. Deleted(l)' <=> Deleted(l)
      BY <1>b DEF Deleted
    <3> QED
      BY <1>b, <1>c, <1>d, <2>1, <2>3, <3>1, <3>2 DEF EntryOK, Attached
  <2> QED
    BY <2>2, <2>3
<1>3. Apart'
  BY DEF TypeOK, Apart, Attached, Deleted
<1>4. MainOK'
  <2>1. main \in {"count29", "fork114"} /\ c # 0 => client'[c] = Unborn
    <3> SUFFICES ASSUME main \in {"count29", "fork114"}, c # 0 PROVE client'[c] = Unborn
      OBVIOUS
    <3>1. c \in Slot /\ client[c] = Unborn /\ entry[k] # c
      BY <1>a DEF MainOK, TypeOK, Slot
    <3> QED
      BY <1>e, <3>1
  <2>2. conn \in Conn /\ child[conn] = "accepted" => child'[conn] = "accepted"
    BY <1>c
  <2> QED
    BY <1>b, <1>d, <2>1, <2>2 DEF MainOK
<1>5. HandlerOK'
  BY DEF TypeOK, HandlerOK
<1>6. Counting'
  <2>1. Used' = Used
    BY <1>b DEF Used, TypeOK
  <2> QED
    BY <1>b, <2>1 DEF Counting
<1>7. LeftAlone'
  BY DEF TypeOK, LeftAlone
<1> QED
  BY <1>1, <1>2, <1>3, <1>4, <1>5, <1>6, <1>7

\* The child counts a line in its own entry.
LEMMA EchoLineInv ==
  ASSUME EchoInv, NEW k \in Conn, EchoLine(k)
  PROVE  EchoInv'
<1> USE DEF EchoInv, EchoLine, server, table, table
<1>a. Attached(k) /\ entry[k] # 0 /\ entry[k] \in Slot /\ count[entry[k]] = got[k]
  <2>1. Attached(k) /\ entry[k] # 0
    BY DEF Attached, Entries, EntryOK
  <2> QED
    BY <2>1, OwnEntry DEF Entries, EntryOK
<1>b. /\ count'[entry[k]] = got[k] + 1 /\ got'[k] = got[k] + 1
      /\ \A s \in Slot : s # entry[k] => count'[s] = count[s]
      /\ \A l \in Conn : l # k => got'[l] = got[l]
  BY <1>a DEF TypeOK
<1>c. UNCHANGED <<server, pending, client, nclients, nread, child, entry>>
  OBVIOUS
<1>d. \A l \in Conn : (Attached(l)' <=> Attached(l)) /\ (Deleted(l)' <=> Deleted(l))
  BY <1>c DEF Attached, Deleted
<1>1. TypeOK'
  <2>1. got[k] + 1 \in 0 .. MaxRead
    BY <1>a DEF TypeOK
  <2>2. count' \in [Slot -> 0 .. MaxRead] /\ got' \in [Conn -> 0 .. MaxRead]
    BY <1>a, <2>1 DEF TypeOK
  <2> QED
    BY <1>c, <2>2 DEF TypeOK
<1>2. Entries'
  <2> SUFFICES ASSUME NEW l \in Conn PROVE EntryOK(l)'
    BY DEF Entries
  <2>1. EntryOK(l)
    BY DEF Entries
  <2>2. CASE l = k
    BY <1>b, <1>c, <1>d, <2>1, <2>2 DEF EntryOK
  <2>3. CASE l # k
    <3>1. Attached(l) /\ entry[l] # 0 => count'[entry[l]] = count[entry[l]]
      BY <1>a, <1>b, <2>3, OwnEntry DEF Apart
    <3> QED
      BY <1>b, <1>c, <1>d, <2>1, <2>3, <3>1 DEF EntryOK
  <2> QED
    BY <2>2, <2>3
<1>3. Apart'
  BY DEF TypeOK, Apart, Attached, Deleted
<1>4. MainOK'
  BY DEF TypeOK, MainOK, Attached, Deleted
<1>5. HandlerOK'
  BY DEF TypeOK, HandlerOK
<1>6. Counting'
  BY UsedFinite DEF TypeOK, Counting, Unit, Used
<1>7. LeftAlone'
  BY DEF TypeOK, LeftAlone
<1> QED
  BY <1>1, <1>2, <1>3, <1>4, <1>5, <1>6, <1>7

\* The child exits.
LEMMA EchoEndInv ==
  ASSUME EchoInv, NEW k \in Conn, EchoEnd(k)
  PROVE  EchoInv'
<1> USE DEF EchoInv, EchoEnd, server, table, table
<1>1. TypeOK'
  BY DEF TypeOK, MainLabels, SigintLabels, ChldLabels, ChildLabels, Slot
<1>2. Entries'
  BY DEF TypeOK, Entries, EntryOK, Attached, Deleted
<1>3. Apart'
  BY DEF TypeOK, Apart, Attached, Deleted
<1>4. MainOK'
  BY DEF TypeOK, MainOK, Attached, Deleted
<1>5. HandlerOK'
  BY DEF TypeOK, HandlerOK
<1>6. Counting'
  BY UsedFinite DEF TypeOK, Counting, Unit, Used
<1>7. LeftAlone'
  BY DEF TypeOK, LeftAlone
<1> QED
  BY <1>1, <1>2, <1>3, <1>4, <1>5, <1>6, <1>7

\* Every step of the server, of its signal handlers and of the children preserves the
\* invariant.
LEMMA EchoNextInv == EchoInv /\ [Next]_vars => EchoInv'
<1> SUFFICES ASSUME EchoInv, [Next]_vars PROVE EchoInv'
  OBVIOUS
<1>1. CASE Next
  BY <1>1, AcceptInv, BlockChldInv, AddClientInv, CountUpInv, ForkChildInv, UnblockChldInv,
     DeliverChldInv, WaitPidInv, WaitPidNoneInv, DelClientInv, CountDownInv, InterruptInv,
     UnmaskChldInv, TestClientsInv, SuspendInv, IgnoreSigintInv, SetPidInv, EchoLineInv, EchoEndInv
     DEF Next, Server, Start
<1>2. CASE UNCHANGED vars
  <2>1. UNCHANGED <<main, conn, c, masked, sigint, chld, pid, pending, client, count, nclients,
                    nread, child, entry, got>>
    BY <1>2 DEF vars, server, table
  <2>2. TypeOK' /\ Used' = Used
    BY <2>1 DEF EchoInv, TypeOK, Used
  <2>3. Entries' /\ Apart' /\ MainOK' /\ HandlerOK'
    BY <2>1 DEF EchoInv, Entries, EntryOK, Apart, MainOK, HandlerOK, Attached, Deleted
  <2> QED
    BY <2>1, <2>2, <2>3 DEF EchoInv, Counting, LeftAlone
<1> QED
  BY <1>1, <1>2

\* The server starts with an empty table.
LEMMA EchoInitInv == Init => EchoInv
<1> SUFFICES ASSUME Init PROVE EchoInv
  OBVIOUS
<1> USE DEF Init
<1>0. 0 \in 0 .. MAXCLIENTS /\ 0 \in 0 .. MaxRead
  OBVIOUS
<1>1. TypeOK
  BY <1>0 DEF TypeOK, MainLabels, SigintLabels, ChldLabels, ChildLabels
<1>2. Entries /\ Apart /\ MainOK /\ HandlerOK /\ LeftAlone
  BY DEF Entries, EntryOK, Apart, MainOK, HandlerOK, LeftAlone, Attached, Deleted
<1>3. Used = {}
  BY DEF Used
<1>4. Counting
  BY <1>3, FS_EmptySet DEF Counting, Unit
<1> QED
  BY <1>1, <1>2, <1>4 DEF EchoInv

\* For any number of connections and of entries: nclients is the number of used entries,
\* a child keeps its entry until the server has waited for it, and the assertion of
\* delclient (echoserver-fork.c:36) fails only for a connection that found the table full.
THEOREM TableExactProved == Spec => []TableExact
<1>1. ASSUME EchoInv PROVE TableExact
  <2>1. TypeOK /\ (main = "aborted" => entry[pid] = 0)
    BY <1>1 DEF EchoInv, HandlerOK
  <2>2. ASSUME sigint = "none", Running
        PROVE  Cardinality(Used) + (IF chld = "del39" THEN 1 ELSE 0)
                 = nclients + (IF main = "count29" /\ c # 0 THEN 1 ELSE 0)
    BY <1>1, <2>2 DEF EchoInv, Counting, Unit, Running
  <2>3. \A k \in Conn : child[k] \in {"echo", "zombie"} /\ entry[k] # 0 => client[entry[k]] = k
    BY <1>1 DEF EchoInv, Entries, EntryOK
  <2> QED
    BY <2>1, <2>2, <2>3 DEF TableExact
<1> QED
  BY <1>1, EchoInitInv, EchoNextInv, PTL DEF Spec

-----------------------------------------------------------------------------
(***************************************************************************)
(* What the server prints.  delclient adds the count of an entry to nread  *)
(* when it frees the entry, so nread is what the children with a freed     *)
(* entry have read.                                                        *)
(***************************************************************************)

\* The entry of k has been freed by delclient.
Freed(k) == child[k] = "gone" /\ entry[k] # 0 /\ client[entry[k]] # k

FreedLines == {t \in Conn \X (1 .. MaxRead) : Freed(t[1]) /\ t[2] <= got[t[1]]}

\* nread counts the lines of the children whose entries are freed; only a child with an entry
\* reads; a pid stands in no entry but its own; and in none when the server has exited.
Summed ==
  /\ nread = Cardinality(FreedLines)
  /\ \A k \in Conn : entry[k] = 0 => got[k] = 0
  /\ \A s \in Slot, k \in Conn : client[s] = k => entry[k] = s
  /\ sigint = "exited" => \A k \in Conn : entry[k] # 0 => client[entry[k]] # k

\* There are finitely many lines.
LEMMA LinesFinite ==
  ASSUME NEW S \in SUBSET (Conn \X (1 .. MaxRead))
  PROVE  IsFiniteSet(S) /\ Cardinality(S) \in Nat
<1>1. IsFiniteSet(1 .. MaxRead)
  BY FS_Interval
<1>2. IsFiniteSet(Conn \X (1 .. MaxRead))
  BY <1>1, FS_Product
<1> QED
  BY <1>2, FS_Subset, FS_CardinalityType

\* The lines of one child are as many as it has read.
LEMMA LinesOfOne ==
  ASSUME NEW k \in Conn, NEW g \in 0 .. MaxRead
  PROVE  LET S == {t \in Conn \X (1 .. MaxRead) : t[1] = k /\ t[2] <= g}
         IN  Cardinality(S) = g
<1> DEFINE S == {t \in Conn \X (1 .. MaxRead) : t[1] = k /\ t[2] <= g}
<1> DEFINE f == [i \in 1 .. g |-> <<k, i>>]
<1>1. f \in [1 .. g -> S]
  OBVIOUS
<1>2. \A i, j \in 1 .. g : f[i] = f[j] => i = j
  OBVIOUS
<1>3. \A t \in S : \E i \in 1 .. g : f[i] = t
  <2> SUFFICES ASSUME NEW t \in S PROVE \E i \in 1 .. g : f[i] = t
    OBVIOUS
  <2>1. t[1] = k /\ t[2] \in 1 .. MaxRead /\ t[2] <= g /\ t = <<t[1], t[2]>>
    OBVIOUS
  <2>2. t[2] \in 1 .. g
    BY <2>1
  <2> QED
    BY <2>1, <2>2
<1>4. f \in Bijection(1 .. g, S)
  <2> HIDE DEF f, S
  <2> QED
    BY <1>1, <1>2, <1>3 DEF Bijection, Injection, Surjection, IsInjective
<1>5. IsFiniteSet(1 .. g) /\ Cardinality(1 .. g) = g
  BY FS_Interval
<1>6. ExistsBijection(1 .. g, S)
  BY <1>4 DEF ExistsBijection
<1>7. Cardinality(S) = Cardinality(1 .. g)
  <2> HIDE DEF S
  <2> QED
    BY <1>5, <1>6, FS_Bijection
<1> QED
  BY <1>5, <1>7

\* A step that frees no entry and lets no child with a freed entry read.
LEMMA SumKept ==
  ASSUME Summed, nread' = nread,
         \A k \in Conn : (Freed(k)' <=> Freed(k)) /\ (Freed(k) => got'[k] = got[k])
  PROVE  nread' = Cardinality(FreedLines)'
<1>1. FreedLines' = FreedLines
  BY DEF FreedLines
<1> QED
  BY <1>1 DEF Summed

\* delclient (echoserver-fork.c:33-40).
LEMMA DelClientSum ==
  ASSUME EchoInv, Summed, DelClient
  PROVE  Summed'
<1>a. PICK s \in 0 .. MAXCLIENTS : s = findclient(pid)
  BY FindClient
<1>b. s # 0 => s \in Slot /\ client[s] = pid
  BY <1>a, FindClient
<1>c. /\ chld = "del37" /\ Running /\ UNCHANGED <<sigint, count, child, entry, got>>
      /\ s = 0 => UNCHANGED <<client, nread>>
      /\ s # 0 => nread' = nread + count[s] /\ client' = [client EXCEPT ![s] = NoConn]
  BY <1>a DEF DelClient
<1>1. CASE s = 0
  <2>1. nread' = Cardinality(FreedLines)'
    BY <1>c, <1>1, SumKept DEF Freed
  <2> QED
    BY <1>c, <1>1, <2>1 DEF Summed
<1>2. CASE s # 0
  <2>1. pid \in Conn /\ child[pid] = "gone" /\ entry[pid] = s
    BY <1>b, <1>c, <1>2 DEF EchoInv, HandlerOK, Summed
  <2>2. PICK k \in Conn : k = pid
    BY <2>1
  <2>3. PICK g \in 0 .. MaxRead : g = got[k]
    BY DEF EchoInv, TypeOK
  <2>4. count[s] = g /\ client[s] = k
    BY <1>b, <1>c, <1>2, <2>1, <2>2, <2>3 DEF EchoInv, Entries, EntryOK, Attached, Deleted
  <2>5. client \in [Slot -> Conn \cup {NoConn, Unborn}] /\ s \in Slot
    BY <1>b, <1>2 DEF EchoInv, TypeOK
  <2>6. \A x \in Slot : client'[x] = IF x = s THEN NoConn ELSE client[x]
    BY <1>c, <1>2, <2>5
  <2>7. \A l \in Conn : entry[l] # 0 => entry[l] \in Slot
    BY DEF EchoInv, TypeOK, Slot
  <2>8. \A l \in Conn : Freed(l)' <=> Freed(l) \/ l = k
    BY <1>c, <1>2, <2>1, <2>2, <2>4, <2>6, <2>7 DEF Freed
  <2>9. ~Freed(k)
    BY <2>1, <2>2, <2>4 DEF Freed
  <2> DEFINE S == {t \in Conn \X (1 .. MaxRead) : t[1] = k /\ t[2] <= g}
  <2>10. FreedLines' = FreedLines \cup S /\ FreedLines \cap S = {}
    BY <1>c, <2>3, <2>8, <2>9 DEF FreedLines
  <2>11. Cardinality(S) = g
    BY LinesOfOne
  <2>12. FreedLines \in SUBSET (Conn \X (1 .. MaxRead)) /\ S \in SUBSET (Conn \X (1 .. MaxRead))
    BY DEF FreedLines
  <2>13. Cardinality(FreedLines') = Cardinality(FreedLines) + g
    <3> HIDE DEF S
    <3>1. IsFiniteSet(FreedLines) /\ IsFiniteSet(S) /\ Cardinality(FreedLines) \in Nat
      BY <2>12, LinesFinite
    <3>2. Cardinality(FreedLines \cup S) = Cardinality(FreedLines) + Cardinality(S) - Cardinality({})
      BY <2>10, <3>1, FS_Union
    <3> QED
      BY <2>10, <2>11, <3>1, <3>2, FS_EmptySet
  <2>14. nread' = Cardinality(FreedLines)'
    BY <1>c, <1>2, <2>4, <2>13 DEF Summed
  <2>15. \A x \in Slot, l \in Conn : client'[x] = l => entry[l] = x
    BY <2>6 DEF Summed
  <2>16. sigint' # "exited"
    BY <1>c DEF Running
  <2> QED
    BY <1>c, <2>14, <2>15, <2>16 DEF Summed
<1> QED
  BY <1>1, <1>2

\* The handler of SIGINT finds no client (echoserver-fork.c:59): every entry that was given to a
\* child is freed.
LEMMA TestClientsSum ==
  ASSUME EchoInv, Summed, TestClients
  PROVE  Summed'
<1>0. UNCHANGED <<main, c, client, count, nclients, nread, child, entry, got>>
  BY DEF TestClients, table
<1>1. nread' = Cardinality(FreedLines)'
  BY <1>0, SumKept DEF Freed
<1>2. ASSUME sigint' = "exited", NEW k \in Conn, entry[k] # 0, client[entry[k]] = k PROVE FALSE
  <2>1. nclients = 0 /\ main # "aborted"
    BY <1>2 DEF TestClients, SigintGoto, Running
  <2>2. entry[k] \in Slot
    BY <1>2 DEF EchoInv, TypeOK, Slot
  <2>3. entry[k] \in Used
    BY <1>2, <2>2 DEF Used
  <2>4. Cardinality(Used) \in Nat /\ Cardinality(Used) # 0
    BY <2>3, UsedFinite, FS_EmptySet
  <2>5. Unit(main = "count29" /\ c # 0) >= Cardinality(Used)
    BY <2>1, <2>4 DEF EchoInv, Counting, Unit
  <2>6. main = "count29" /\ c # 0 /\ Cardinality(Used) = 1
    BY <2>4, <2>5 DEF Unit
  <2>7. c \in Slot /\ client[c] = Unborn
    BY <2>6 DEF EchoInv, MainOK, TypeOK, Slot
  <2>8. c \in Used /\ entry[k] # c
    BY <1>2, <2>7 DEF Used
  <2>9. \E x : Used = {x}
    BY <2>6, UsedFinite, FS_Singleton
  <2> QED
    BY <2>3, <2>8, <2>9
<1> QED
  BY <1>0, <1>1, <1>2 DEF Summed

\* addclient (echoserver-fork.c:24-31) takes an entry that is free.
LEMMA AddClientSum ==
  ASSUME EchoInv, Summed, AddClient
  PROVE  Summed'
<1>a. PICK s \in 0 .. MAXCLIENTS : s = findclient(NoConn)
  BY FindClient
<1>b. s # 0 => s \in Slot /\ client[s] = NoConn
  BY <1>a, FindClient
<1>c. /\ client' = [x \in Slot |-> IF x = s THEN Unborn ELSE client[x]]
      /\ UNCHANGED <<sigint, nread, child, entry, got>>
  BY <1>a DEF AddClient
<1>1. \A l \in Conn : entry[l] # 0 => entry[l] \in Slot
  BY DEF EchoInv, TypeOK, Slot
<1>2. \A l \in Conn : Freed(l)' <=> Freed(l)
  BY <1>b, <1>c, <1>1 DEF Freed
<1>3. nread' = Cardinality(FreedLines)'
  BY <1>c, <1>2, SumKept
<1>4. \A x \in Slot, k \in Conn : client'[x] = k => entry[k] = x
  BY <1>c DEF Summed
<1>5. sigint # "exited"
  BY DEF AddClient, Goto, MainRuns
<1> QED
  BY <1>c, <1>3, <1>4, <1>5 DEF Summed

\* Fork gives the child its entry (echoserver-fork.c:114).
LEMMA ForkChildSum ==
  ASSUME EchoInv, Summed, ForkChild
  PROVE  Summed'
<1>0. /\ conn \in Conn /\ child[conn] = "accepted" /\ child' = [child EXCEPT ![conn] = "born"]
      /\ entry' = [entry EXCEPT ![conn] = c] /\ UNCHANGED <<sigint, client, nread, got>> /\ sigint = "none"
  BY DEF ForkChild, Goto, MainRuns, EchoInv, MainOK, table
<1>1. child \in [Conn -> ChildLabels] /\ entry \in [Conn -> 0 .. MAXCLIENTS]
  BY DEF EchoInv, TypeOK
<1>2. entry[conn] = 0 /\ got[conn] = 0
  BY <1>0 DEF EchoInv, Entries, EntryOK
<1>3. \A l \in Conn : /\ entry'[l] = IF l = conn THEN c ELSE entry[l]
                      /\ child'[l] = IF l = conn THEN "born" ELSE child[l]
  BY <1>0, <1>1
<1>4. \A l \in Conn : Freed(l)' <=> Freed(l)
  BY <1>0, <1>3 DEF Freed
<1>5. nread' = Cardinality(FreedLines)'
  BY <1>0, <1>4, SumKept
<1>6. \A x \in Slot, k \in Conn : client'[x] = k => entry'[k] = x
  BY <1>0, <1>2, <1>3 DEF Summed, Slot
<1>7. \A k \in Conn : entry'[k] = 0 => got'[k] = 0
  BY <1>0, <1>2, <1>3 DEF Summed
<1> QED
  BY <1>0, <1>5, <1>6, <1>7 DEF Summed

\* The child writes its pid into the entry it was given (echoserver-fork.c:119).
LEMMA SetPidSum ==
  ASSUME EchoInv, Summed, NEW k \in Conn, SetPid(k)
  PROVE  Summed'
<1>0. /\ child[k] = "deaf" /\ UNCHANGED <<sigint, nread, entry, got>>
      /\ \A l \in Conn : l # k => child'[l] = child[l]
      /\ child'[k] # "gone"
      /\ entry[k] = 0 => client' = client
      /\ entry[k] # 0 => client' = [client EXCEPT ![entry[k]] = k]
  BY DEF SetPid, server, EchoInv, TypeOK
<1>1. \A l \in Conn : entry[l] # 0 => entry[l] \in Slot
  BY DEF EchoInv, TypeOK, Slot
<1>2. client \in [Slot -> Conn \cup {NoConn, Unborn}]
  BY DEF EchoInv, TypeOK
<1>3. \A x \in Slot : client'[x] = IF x = entry[k] THEN k ELSE client[x]
  BY <1>0, <1>1, <1>2 DEF Slot
<1>4. entry[k] # 0 => client[entry[k]] = Unborn
  BY <1>0 DEF EchoInv, Entries, EntryOK
<1>5. \A l \in Conn : Freed(l)' <=> Freed(l)
  BY <1>0, <1>1, <1>3, <1>4 DEF Freed
<1>6. nread' = Cardinality(FreedLines)'
  BY <1>0, <1>5, SumKept
<1>7. \A x \in Slot, l \in Conn : client'[x] = l => entry'[l] = x
  BY <1>0, <1>3 DEF Summed
<1>8. sigint = "exited" => entry[k] = 0
  BY <1>0 DEF EchoInv, LeftAlone
<1>9. sigint' = "exited" => \A l \in Conn : entry'[l] # 0 => client'[entry'[l]] # l
  BY <1>0, <1>8 DEF Summed
<1> QED
  BY <1>0, <1>6, <1>7, <1>9 DEF Summed

\* A child reads a line (echoserver-fork.c:68-76), or ends.
LEMMA EchoSum ==
  ASSUME EchoInv, Summed, NEW k \in Conn, EchoLine(k) \/ EchoEnd(k) \/ IgnoreSigint(k)
  PROVE  Summed'
<1>0. /\ child[k] \in {"echo", "born"} /\ UNCHANGED <<sigint, client, nread, entry>>
      /\ \A l \in Conn : l # k => child'[l] = child[l] /\ got'[l] = got[l]
      /\ child'[k] # "gone"
      /\ child[k] = "born" => got'[k] = got[k]
  BY DEF EchoLine, EchoEnd, IgnoreSigint, server, table, EchoInv, TypeOK
<1>1. \A l \in Conn : (Freed(l)' <=> Freed(l)) /\ (Freed(l) => got'[l] = got[l])
  BY <1>0 DEF Freed
<1>2. nread' = Cardinality(FreedLines)'
  BY <1>0, <1>1, SumKept
<1>3. \A l \in Conn : entry'[l] = 0 => got'[l] = 0
  BY <1>0 DEF Summed, EchoInv, Entries, EntryOK
<1> QED
  BY <1>0, <1>2, <1>3 DEF Summed

\* Every step keeps the sum.
LEMMA SumNext ==
  ASSUME EchoInv, Summed, [Next]_vars
  PROVE  Summed'
\* The steps that touch no entry.
<1>1. ASSUME UNCHANGED <<nread, client, entry, got>>,
             \A k \in Conn : child'[k] = "gone" <=> child[k] = "gone", sigint' = "exited" => sigint = "exited"
      PROVE  Summed'
  <2>1. \A k \in Conn : Freed(k)' <=> Freed(k)
    BY <1>1 DEF Freed
  <2>2. nread' = Cardinality(FreedLines)'
    BY <1>1, <2>1, SumKept
  <2> QED
    BY <1>1, <2>2 DEF Summed
<1>t. child \in [Conn -> ChildLabels]
  BY DEF EchoInv, TypeOK
<1>2. CASE UNCHANGED vars
  BY <1>1, <1>2 DEF vars, server, table
<1>3. CASE BlockChld \/ CountUp \/ UnblockChld \/ DeliverChld \/ WaitPidNone \/ CountDown \/ UnmaskChld \/ Suspend
  BY <1>1, <1>3 DEF BlockChld, CountUp, UnblockChld, DeliverChld, WaitPidNone, CountDown, UnmaskChld, Suspend,
     Goto, SigintGoto, table
<1>4. CASE Interrupt
  BY <1>t, <1>1, <1>4 DEF Interrupt, table
<1>5. ASSUME NEW k \in Conn, Accept(k) PROVE Summed'
  BY <1>t, <1>1, <1>5 DEF Accept, Goto, table
<1>6. CASE WaitPid
  <2>1. PICK k \in Conn : child[k] = "zombie" /\ child' = [child EXCEPT ![k] = "gone"]
    BY <1>6 DEF WaitPid
  <2>2. UNCHANGED <<nread, client, entry, got, sigint>>
    BY <1>6 DEF WaitPid, table
  <2>3. entry[k] # 0 => client[entry[k]] = k
    BY <2>1 DEF EchoInv, Entries, EntryOK
  <2>4. \A l \in Conn : Freed(l)' <=> Freed(l)
    BY <1>t, <2>1, <2>2, <2>3 DEF Freed
  <2>5. nread' = Cardinality(FreedLines)'
    BY <2>2, <2>4, SumKept
  <2> QED
    BY <2>2, <2>5 DEF Summed
<1> QED
  BY <1>2, <1>3, <1>4, <1>5, <1>6, AddClientSum, ForkChildSum, DelClientSum, TestClientsSum, SetPidSum, EchoSum
  DEF Next, Server, Start

\* The server has nothing to report at first.
LEMMA SumInit == Init => Summed
<1> SUFFICES ASSUME Init PROVE Summed
  OBVIOUS
<1>1. FreedLines = {}
  BY DEF Init, FreedLines, Freed
<1> QED
  BY <1>1, FS_EmptySet DEF Init, Summed

\* For any number of connections and of entries: when the server exits after SIGINT
\* (echoserver-fork.c:59-65) the number it prints is what all the children have read together,
\* and no child that was given an entry is left, although SIGINT may have broken off addclient
\* or delclient half way and leave a count behind.
THEOREM ReportCompleteProved == Spec => []ReportComplete
<1>1. ASSUME EchoInv, Summed PROVE ReportComplete
  <2> SUFFICES ASSUME sigint = "exited"
               PROVE  /\ nread = Cardinality(LinesRead)
                      /\ \A k \in Conn : entry[k] # 0 => child[k] \in {"none", "gone"}
    BY DEF ReportComplete
  <2>1. \A k \in Conn : entry[k] # 0 => child[k] \in {"none", "gone"}
    BY <1>1 DEF EchoInv, LeftAlone
  <2>2. \A k \in Conn : got[k] # 0 => Freed(k)
    BY <1>1, <2>1 DEF EchoInv, Entries, EntryOK, Summed, Freed
  <2>3. \A k \in Conn : got[k] \in 0 .. MaxRead
    BY <1>1 DEF EchoInv, TypeOK
  <2>4. LinesRead = FreedLines
    BY <2>2, <2>3 DEF LinesRead, FreedLines
  <2> QED
    BY <1>1, <2>1, <2>4 DEF Summed
<1>2. EchoInv /\ Summed /\ [Next]_vars => EchoInv' /\ Summed'
  BY EchoNextInv, SumNext
<1> QED
  BY <1>1, <1>2, EchoInitInv, SumInit, PTL DEF Spec

-----------------------------------------------------------------------------
\* coro.c: the letters, and the letters with their case swapped.
Letter == DOMAIN Swap
Swapped == {Swap[l] : l \in Letter}

\* One byte more.
OneMore(l, x) == IF isalpha(x) THEN Append(l, Swap[x]) ELSE l

\* f[i] are the letters of the first i bytes of s.
LettersUpTo(f, s, n) ==
  /\ f \in [0 .. n -> Seq(Swapped)]
  /\ f[0] = <<>>
  /\ \A i \in 1 .. n : f[i] = OneMore(f[i - 1], s[i])

\* One byte more leaves a sequence of swapped letters.
LEMMA OneMoreType ==
  ASSUME NEW l \in Seq(Swapped), NEW x
  PROVE  OneMore(l, x) \in Seq(Swapped)
<1>1. CASE isalpha(x)
  <2>1. Swap[x] \in Swapped
    BY <1>1 DEF isalpha, Swapped, Letter
  <2> QED
    BY <1>1, <2>1, AppendProperties DEF OneMore
<1>2. CASE ~isalpha(x)
  BY <1>2 DEF OneMore
<1> QED
  BY <1>1, <1>2

\* The letters of n bytes give the letters of n + 1 bytes.
LEMMA UpToNext ==
  ASSUME NEW s, NEW n \in Nat, NEW f, LettersUpTo(f, s, n)
  PROVE  \E g : LettersUpTo(g, s, n + 1)
<1> DEFINE g == [i \in 0 .. n + 1 |-> IF i = n + 1 THEN OneMore(f[n], s[n + 1]) ELSE f[i]]
<1>0. \A i \in 0 .. n : f[i] \in Seq(Swapped)
  BY DEF LettersUpTo
<1>1. \A i \in 0 .. n : g[i] = f[i]
  OBVIOUS
<1>2. g[n + 1] = OneMore(f[n], s[n + 1])
  OBVIOUS
<1>3. g \in [0 .. n + 1 -> Seq(Swapped)]
  <2>1. n \in 0 .. n
    OBVIOUS
  <2>2. OneMore(f[n], s[n + 1]) \in Seq(Swapped)
    BY <2>1, <1>0, OneMoreType
  <2>3. ASSUME NEW i \in 0 .. n + 1
        PROVE  g[i] \in Seq(Swapped)
    <3>1. CASE i = n + 1
      BY <1>2, <2>2, <3>1
    <3>2. CASE i # n + 1
      <4>1. i \in 0 .. n
        BY <3>2
      <4> HIDE DEF g
      <4> QED
        BY <4>1, <1>0, <1>1
    <3> QED
      BY <3>1, <3>2
  <2> QED
    BY <2>3, Zenon
<1> HIDE DEF g
<1>4. g[0] = <<>>
  BY <1>1 DEF LettersUpTo
<1>5. ASSUME NEW i \in 1 .. n + 1
      PROVE  g[i] = OneMore(g[i - 1], s[i])
  <2>1. g[i - 1] = f[i - 1]
    BY <1>1
  <2>2. CASE i = n + 1
    BY <2>1, <2>2, <1>2
  <2>3. CASE i # n + 1
    <3>1. i \in 1 .. n /\ i \in 0 .. n
      BY <2>3
    <3>2. f[i] = OneMore(f[i - 1], s[i]) /\ g[i] = f[i]
      BY <3>1, <1>1, Zenon DEF LettersUpTo
    <3> QED
      BY <2>1, <3>2, Zenon
  <2> QED
    BY <2>2, <2>3
<1>6. LettersUpTo(g, s, n + 1)
  BY <1>3, <1>4, <1>5, Zenon DEF LettersUpTo
<1> QED
  BY <1>6

\* There are such letters for every n: a least n without them would contradict UpToNext.
LEMMA UpToExists ==
  ASSUME NEW s, NEW m \in Nat
  PROVE  \E f : LettersUpTo(f, s, m)
<1> DEFINE Bad == {n \in Nat : ~ \E f : LettersUpTo(f, s, n)}
<1> SUFFICES ASSUME m \in Bad
             PROVE  FALSE
  OBVIOUS
<1>1. PICK n \in Bad : \A y \in Bad : n <= y
  BY LeastSlot
<1>2. n # 0
  <2> DEFINE e == [i \in 0 .. 0 |-> <<>>]
  <2>1. e \in [0 .. 0 -> Seq(Swapped)] /\ e[0] = <<>>
    OBVIOUS
  <2> HIDE DEF e
  <2>2. LettersUpTo(e, s, 0)
    BY <2>1 DEF LettersUpTo
  <2> QED
    BY <2>2
<1>3. n - 1 \in Nat /\ n - 1 \notin Bad
  BY <1>1, <1>2
<1>4. PICK f : LettersUpTo(f, s, n - 1)
  BY <1>3
<1>5. \E g : LettersUpTo(g, s, (n - 1) + 1)
  <2> HIDE DEF Bad
  <2> QED
    BY <1>3, <1>4, UpToNext
<1>6. n \in Nat /\ (n - 1) + 1 = n
  BY <1>3
<1> QED
  BY <1>5, <1>6

\* What the recursive definition of Letters computes.
LEMMA LettersAre ==
  ASSUME NEW s, Len(s) \in Nat, NEW f, LettersUpTo(f, s, Len(s))
  PROVE  Letters(s) = f[Len(s)]
<1> DEFINE G(h) == [i \in 0 .. Len(s) |->
                     IF i = 0 THEN <<>>
                     ELSE IF isalpha(s[i]) THEN Append(h[i - 1], Swap[s[i]]) ELSE h[i - 1]]
           upto == CHOOSE h : h = G(h)
<1>1. f = G(f)
  <2>1. ASSUME NEW i \in 0 .. Len(s)
        PROVE  f[i] = G(f)[i]
    <3>1. G(f)[i] = IF i = 0 THEN <<>> ELSE OneMore(f[i - 1], s[i])
      BY DEF OneMore
    <3> HIDE DEF G
    <3>2. i = 0 \/ i \in 1 .. Len(s)
      OBVIOUS
    <3> QED
      BY <3>1, <3>2 DEF LettersUpTo
  <2>2. f \in [0 .. Len(s) -> Seq(Swapped)]
    BY DEF LettersUpTo
  <2> QED
    BY <2>1, <2>2
<1>2. upto = G(upto)
  <2> HIDE DEF G
  <2> QED
    BY <1>1, Zenon
<1>3. \A i \in 0 .. Len(s) : upto[i] = f[i]
  <2> DEFINE Bad == {i \in 0 .. Len(s) : upto[i] # f[i]}
  <2> SUFFICES ASSUME Bad # {}
               PROVE  FALSE
    OBVIOUS
  <2>0. Bad \in SUBSET Nat
    <3> HIDE DEF upto
    <3> QED
      OBVIOUS
  <2>1. PICK i \in Bad : \A y \in Bad : i <= y
    <3> HIDE DEF Bad
    <3> QED
      BY <2>0, LeastSlot
  <2> HIDE DEF upto
  <2>2. upto[i] = IF i = 0 THEN <<>>
                  ELSE IF isalpha(s[i]) THEN Append(upto[i - 1], Swap[s[i]]) ELSE upto[i - 1]
    BY <1>2
  <2>3. i # 0
    BY <2>2 DEF LettersUpTo
  <2>4. upto[i - 1] = f[i - 1]
    BY <2>1, <2>3
  <2> QED
    BY <2>2, <2>3, <2>4 DEF LettersUpTo, OneMore
<1>4. Letters(s) = upto[Len(s)]
  BY DEF Letters
<1> HIDE DEF upto
<1> QED
  BY <1>3, <1>4

\* The letters of a text and of one byte more.
LEMMA LettersAppend ==
  ASSUME NEW S, NEW s \in Seq(S), NEW x \in S
  PROVE  /\ Letters(s) \in Seq(Swapped)
         /\ Letters(Append(s, x)) = OneMore(Letters(s), x)
<1> DEFINE t == Append(s, x)
           n == Len(s)
<1>1. n \in Nat /\ Len(t) = n + 1 /\ t[n + 1] = x /\ \A i \in 1 .. n : t[i] = s[i]
  BY AppendProperties, LenProperties
<1> HIDE DEF t, n
<1>2. PICK f : LettersUpTo(f, t, n + 1)
  <2>1. n + 1 \in Nat
    BY <1>1
  <2> QED
    BY <2>1, UpToExists
<1>3. Letters(t) = f[n + 1]
  BY <1>1, <1>2, LettersAre
<1> DEFINE g == [i \in 0 .. n |-> f[i]]
<1>4. g \in [0 .. n -> Seq(Swapped)] /\ \A i \in 0 .. n : g[i] = f[i]
  BY <1>1, <1>2 DEF LettersUpTo
<1> HIDE DEF g
<1>5. LettersUpTo(g, s, n)
  <2>1. \A i \in 1 .. n : g[i] = OneMore(g[i - 1], s[i])
    BY <1>1, <1>2, <1>4 DEF LettersUpTo
  <2>2. g[0] = <<>>
    BY <1>1, <1>2, <1>4 DEF LettersUpTo
  <2> QED
    BY <1>4, <2>1, <2>2, Zenon DEF LettersUpTo
<1>6. Letters(s) = g[n]
  BY <1>1, <1>5, LettersAre DEF n
<1>7. g[n] = f[n] /\ f[n + 1] = OneMore(f[n], x) /\ f[n] \in Seq(Swapped)
  BY <1>1, <1>2, <1>4 DEF LettersUpTo
<1> QED
  BY <1>3, <1>6, <1>7 DEF t

\* The letters of no byte, and of one byte.
LEMMA LettersEmpty == Letters(<<>>) = <<>>
<1>1. PICK f : LettersUpTo(f, <<>>, 0)
  BY UpToExists
<1>2. Letters(<<>>) = f[0]
  BY <1>1, LettersAre
<1> QED
  BY <1>1, <1>2 DEF LettersUpTo

LEMMA LettersOne == ASSUME NEW x PROVE Letters(<<x>>) = IF isalpha(x) THEN <<Swap[x]>> ELSE <<>>
<1>1. <<>> \in Seq({x}) /\ x \in {x} /\ Append(<<>>, x) = <<x>>
  OBVIOUS
<1>2. Letters(Append(<<>>, x)) = OneMore(Letters(<<>>), x)
  BY <1>1, LettersAppend
<1>3. OneMore(<<>>, x) = IF isalpha(x) THEN <<Swap[x]>> ELSE <<>>
  BY DEF OneMore
<1> QED
  BY <1>1, <1>2, <1>3, LettersEmpty

\* How much of the input has been read.
Taken == Len(text) - Len(input)

\* The input, how far it is read, and the output.
Reading ==
  /\ text \in Seq(Byte) /\ input \in Seq(Byte) /\ out \in Seq(Swapped)
  /\ Taken \in Nat /\ input = SubSeq(text, Taken + 1, Len(text))

\* Who runs, who is left on the queue, and what is passed on.
AtMain ==
  /\ pc = "main" /\ v = NOTHING /\ Taken = 0 /\ ~inside
  /\ queue \in {<<>>, <<"func_1">>, <<"func_1", "func_2">>, Names}
AtFunc1 ==
  /\ running = "func_1" /\ queue = Names
  /\ \/ pc = "enter" /\ v = NOTHING
     \/ pc = "read"
     \/ pc = "switch" /\ v \in Byte
AtFunc2 ==
  /\ running = "func_2"
  /\ queue = IF v = EOF THEN <<"func_2", "func_3">> ELSE Names
  /\ \/ pc = "enter" /\ v \in Letter \cup {Space, One, EOF}
     \/ pc = "switch" /\ v \in Letter \cup {EOF, NOTHING}
AtFunc3 ==
  /\ running = "func_3"
  /\ queue = IF v = EOF THEN <<"func_3">> ELSE Names
  /\ \/ pc = "enter" /\ v \in Letter \cup {EOF, NOTHING}
     \/ pc = "switch" /\ v \in {EOF, NOTHING}
AtDone == pc = "done" /\ v = NOTHING /\ queue = <<>>

Turn == AtMain \/ AtFunc1 \/ AtFunc2 \/ AtFunc3 \/ AtDone

\* What func_1 remembers of the last byte.
LastByte ==
  /\ Taken > 0 => inside /\ ch = text[Taken]
  /\ Taken = 0 => isspace(prev_ch)
  /\ inside /\ pc = "enter" /\ running = "func_1" => Taken > 0
  /\ pc = "read" => inside /\ (isspace(prev_ch) <=> (Taken = 0 \/ isspace(text[Taken])))
  /\ inside /\ pc \in {"enter", "switch"} /\ v # EOF => Taken > 0

\* The control of coro.c: where the three coroutines are and what they hold.
Shape == Reading /\ CoroTypeOK /\ Turn /\ LastByte

\* White space, the bytes 0 and 1, EOF and NOTHING are five values, and no letters.
LEMMA Distinct ==
  /\ Space # Nul /\ Space # One /\ Space # EOF /\ Space # NOTHING
  /\ Nul # One /\ Nul # EOF /\ Nul # NOTHING
  /\ One # EOF /\ One # NOTHING /\ EOF # NOTHING
  /\ {Space, Nul, One, EOF, NOTHING} \cap Letter = {}
<1> DEFINE t == <<Space, Nul, One, EOF, NOTHING>>
<1>1. \A x, y \in 1 .. 5 : t[x] = t[y] => x = y
  BY CoroAssumption DEF IsInjective
<1>2. /\ t[1] # t[2] /\ t[1] # t[3] /\ t[1] # t[4] /\ t[1] # t[5]
      /\ t[2] # t[3] /\ t[2] # t[4] /\ t[2] # t[5]
      /\ t[3] # t[4] /\ t[3] # t[5] /\ t[4] # t[5]
  <2> HIDE DEF t
  <2> QED
    BY <1>1
<1>3. {Space, Nul, One, EOF, NOTHING} \cap Letter = {}
  BY CoroAssumption DEF Letter
<1> QED
  BY <1>2, <1>3

LEMMA ByteIs == Byte = Letter \cup {Space, Nul, EOF}
BY DEF Byte, Letter

\* What coro_switch does with the queue.
LEMMA PlaceIs ==
  ASSUME NEW i \in DOMAIN queue, queue[i] = running,
         \A j \in DOMAIN queue : queue[j] = running => j = i
  PROVE  Place = i
BY DEF Place

LEMMA RemoveFirst1 ==
  ASSUME NEW S, NEW s \in Seq(S), s # <<>>
  PROVE  RemoveAt(s, 1) = Tail(s)
<1>1. SubSeq(s, 1, 0) = <<>>
  BY SubSeqEmpty
<1>2. SubSeq(s, 2, Len(s)) = Tail(s) /\ Tail(s) \in Seq(S)
  BY TailIsSubSeq, HeadTailProperties
<1>3. <<>> \o Tail(s) = Tail(s)
  BY <1>2, ConcatEmptySeq
<1>4. 1 - 1 = 0 /\ 1 + 1 = 2
  OBVIOUS
<1> QED
  BY <1>1, <1>2, <1>3, <1>4 DEF RemoveAt

LEMMA Removing ==
  /\ RemoveAt(<<"func_1", "func_2", "func_3">>, 1) = <<"func_2", "func_3">>
  /\ RemoveAt(<<"func_2", "func_3">>, 1) = <<"func_3">>
  /\ RemoveAt(<<"func_3">>, 1) = <<>>
<1> DEFINE Co == {"func_1", "func_2", "func_3"}
<1>1. RemoveAt(<<"func_1", "func_2", "func_3">>, 1) = <<"func_2", "func_3">>
  <2>1. <<"func_1", "func_2", "func_3">> \in Seq(Co) /\ <<"func_1", "func_2", "func_3">> # <<>>
    OBVIOUS
  <2>2. Tail(<<"func_1", "func_2", "func_3">>) = <<"func_2", "func_3">>
    OBVIOUS
  <2> QED
    BY <2>1, <2>2, RemoveFirst1
<1>2. RemoveAt(<<"func_2", "func_3">>, 1) = <<"func_3">>
  <2>1. <<"func_2", "func_3">> \in Seq(Co) /\ <<"func_2", "func_3">> # <<>>
    OBVIOUS
  <2>2. Tail(<<"func_2", "func_3">>) = <<"func_3">>
    OBVIOUS
  <2> QED
    BY <2>1, <2>2, RemoveFirst1
<1>3. RemoveAt(<<"func_3">>, 1) = <<>>
  <2>1. <<"func_3">> \in Seq(Co) /\ <<"func_3">> # <<>>
    OBVIOUS
  <2>2. Tail(<<"func_3">>) = <<>>
    OBVIOUS
  <2> QED
    BY <2>1, <2>2, RemoveFirst1
<1> QED
  BY <1>1, <1>2, <1>3

\* After the switch from each of the three.
LEMMA SwitchFrom1 ==
  ASSUME CoroSwitch, AtFunc1
  PROVE  /\ v \in Byte
         /\ pc' = "enter" /\ running' = "func_2" /\ v' = Longjmp(v)
         /\ queue' = IF v = EOF THEN <<"func_2", "func_3">> ELSE Names
<1>1. pc = "switch" /\ v \in Byte /\ running = "func_1" /\ queue = <<"func_1", "func_2", "func_3">>
  BY DEF CoroSwitch, AtFunc1, Names
<1>2. Place = 1
  <2>1. 1 \in DOMAIN queue /\ queue[1] = running /\ \A j \in DOMAIN queue : queue[j] = running => j = 1
    BY <1>1
  <2> QED
    BY <2>1, PlaceIs
<1>3. queue' = IF v = EOF THEN <<"func_2", "func_3">> ELSE Names
  BY <1>1, <1>2, Removing DEF CoroSwitch, Names
<1>4. queue' # <<>>
  BY <1>3 DEF Names
<1>5. Following(queue') = "func_2"
  BY <1>1, <1>2 DEF Following
<1> QED
  BY <1>1, <1>3, <1>4, <1>5 DEF CoroSwitch

LEMMA SwitchFrom2 ==
  ASSUME CoroSwitch, AtFunc2
  PROVE  /\ v \in Letter \cup {EOF, NOTHING}
         /\ pc' = "enter" /\ running' = "func_3" /\ v' = v
         /\ queue' = IF v = EOF THEN <<"func_3">> ELSE Names
<1>1. pc = "switch" /\ v \in Letter \cup {EOF, NOTHING} /\ running = "func_2"
  BY DEF CoroSwitch, AtFunc2
<1>2. Longjmp(v) = v
  BY <1>1, Distinct DEF Longjmp
<1>3. CASE v = EOF
  <2>1. queue = <<"func_2", "func_3">>
    BY <1>3 DEF AtFunc2
  <2>2. Place = 1
    <3>1. 1 \in DOMAIN queue /\ queue[1] = running /\ \A j \in DOMAIN queue : queue[j] = running => j = 1
      BY <1>1, <2>1
    <3> QED
      BY <3>1, PlaceIs
  <2>3. queue' = <<"func_3">> /\ queue' # <<>>
    <3>1. queue' = RemoveAt(queue, Place)
      BY <1>3 DEF CoroSwitch
    <3>2. queue' = <<"func_3">>
      BY <3>1, <2>1, <2>2, Removing, Zenon
    <3> QED
      BY <3>2
  <2>4. Following(queue') = "func_3"
    BY <2>1, <2>2 DEF Following
  <2> QED
    BY <1>1, <1>2, <1>3, <2>3, <2>4 DEF CoroSwitch
<1>4. CASE v # EOF
  <2>1. queue = <<"func_1", "func_2", "func_3">>
    BY <1>4 DEF AtFunc2, Names
  <2>2. Place = 2
    <3>1. 2 \in DOMAIN queue /\ queue[2] = running /\ \A j \in DOMAIN queue : queue[j] = running => j = 2
      BY <1>1, <2>1
    <3> QED
      BY <3>1, PlaceIs
  <2>3. queue' = Names /\ queue' # <<>>
    BY <1>4, <2>1 DEF CoroSwitch, Names
  <2>4. Following(queue') = "func_3"
    BY <2>1, <2>2 DEF Following
  <2> QED
    BY <1>1, <1>2, <1>4, <2>3, <2>4 DEF CoroSwitch
<1> QED
  BY <1>3, <1>4

LEMMA SwitchFrom3 ==
  ASSUME CoroSwitch, AtFunc3
  PROVE  \/ v = EOF /\ pc' = "done" /\ queue' = <<>> /\ v' = NOTHING
         \/ /\ v = NOTHING
            /\ pc' = "enter" /\ running' = "func_1" /\ v' = NOTHING /\ queue' = Names
<1>1. pc = "switch" /\ v \in {EOF, NOTHING} /\ running = "func_3"
  BY DEF CoroSwitch, AtFunc3
<1>2. CASE v = EOF
  <2>1. queue = <<"func_3">>
    BY <1>2 DEF AtFunc3
  <2>2. Place = 1
    <3>1. 1 \in DOMAIN queue /\ queue[1] = running /\ \A j \in DOMAIN queue : queue[j] = running => j = 1
      BY <1>1, <2>1
    <3> QED
      BY <3>1, PlaceIs
  <2>3. queue' = <<>>
    BY <1>2, <2>1, <2>2, Removing DEF CoroSwitch
  <2> QED
    BY <1>2, <2>3 DEF CoroSwitch
<1>3. CASE v = NOTHING
  <2>0. v # EOF /\ Longjmp(v) = NOTHING
    BY <1>3, Distinct DEF Longjmp
  <2>1. queue = <<"func_1", "func_2", "func_3">>
    BY <2>0 DEF AtFunc3, Names
  <2>2. Place = 3
    <3>1. 3 \in DOMAIN queue /\ queue[3] = running /\ \A j \in DOMAIN queue : queue[j] = running => j = 3
      BY <1>1, <2>1
    <3> QED
      BY <3>1, PlaceIs
  <2>3. queue' = Names /\ queue' # <<>> /\ queue' = queue
    BY <2>0, <2>1 DEF CoroSwitch, Names
  <2>4. Following(queue') = "func_1"
    BY <2>1, <2>2, <2>3 DEF Following
  <2> QED
    BY <1>1, <1>3, <2>0, <2>3, <2>4 DEF CoroSwitch
<1> QED
  BY <1>1, <1>2, <1>3

\* r is what is left of t after n elements.
RestOf(t, r, n) == n = Len(t) - Len(r) /\ r = SubSeq(t, n + 1, Len(t))

\* The rest and its tail.
NextOf(S, t, r, n) ==
  /\ n + 1 \in 1 .. Len(t)
  /\ Head(r) = t[n + 1] /\ t[n + 1] \in S
  /\ Tail(r) \in Seq(S) /\ Len(Tail(r)) = Len(r) - 1
  /\ Tail(r) = SubSeq(t, n + 2, Len(t))
  /\ SubSeq(t, 1, n) \in Seq(S)
  /\ SubSeq(t, 1, n + 1) = Append(SubSeq(t, 1, n), t[n + 1])

\* What fgetc does to the rest of the input, as a fact about sequences.
LEMMA RestAndNext ==
  ASSUME NEW S, NEW t \in Seq(S), NEW r \in Seq(S), NEW n \in Nat, RestOf(t, r, n), r # <<>>
  PROVE  NextOf(S, t, r, n)
<1>0. n = Len(t) - Len(r) /\ r = SubSeq(t, n + 1, Len(t))
  BY DEF RestOf
<1>1. Len(t) \in Nat /\ Len(r) \in Nat /\ Len(r) > 0
  BY EmptySeq, LenProperties
<1>2. n + 1 \in 1 .. Len(t) /\ Len(t) \in n + 1 .. Len(t) /\ 1 \in 1 .. Len(t)
  BY <1>0, <1>1
<1>3. Head(r) = t[n + 1] /\ Tail(r) = SubSeq(t, (n + 1) + 1, Len(t))
  <2> DEFINE sub == SubSeq(t, n + 1, Len(t))
  <2>1. Head(sub) = t[n + 1] /\ Tail(sub) = SubSeq(t, (n + 1) + 1, Len(t))
    BY <1>2, HeadTailOfSubSeq
  <2> QED
    BY <1>0, <2>1, Zenon
<1>4. t[n + 1] \in S
  BY <1>2, ElementOfSeq
<1>5. Tail(r) \in Seq(S) /\ Len(Tail(r)) = Len(r) - 1
  BY HeadTailProperties
<1>6. SubSeq(t, 1, n) \in Seq(S)
  <2>1. \A i \in 1 .. n : t[i] \in S
    BY <1>1, <1>2, ElementOfSeq
  <2> QED
    BY <2>1, SubSeqProperties
<1>7. SubSeq(t, 1, n + 1) = SubSeq(t, 1, (n + 1) - 1) \o <<t[n + 1]>>
  BY <1>2, SubSeqRecursiveSecond
<1>8. Append(SubSeq(t, 1, n), t[n + 1]) = SubSeq(t, 1, n) \o <<t[n + 1]>>
  BY <1>4, <1>6, AppendIsConcat
<1>9. (n + 1) - 1 = n /\ (n + 1) + 1 = n + 2
  OBVIOUS
<1> QED
  BY <1>2, <1>3, <1>4, <1>5, <1>6, <1>7, <1>8, <1>9 DEF NextOf

\* A byte is read.
LEMMA ReadOne ==
  ASSUME Reading, Read, text' = text
  PROVE  /\ Taken' = Taken + 1 /\ Taken \in Nat /\ Taken + 1 \in 1 .. Len(text)
         /\ ch' = text[Taken + 1] /\ ch' \in Byte
         /\ input' \in Seq(Byte) /\ input' = SubSeq(text, Taken' + 1, Len(text))
         /\ Consumed \in Seq(Byte) /\ Consumed' = Append(Consumed, ch')
<1>0. PICK n, t, r : n = Taken /\ t = text /\ r = input
  OBVIOUS
<1>1. /\ t \in Seq(Byte) /\ r \in Seq(Byte) /\ n \in Nat
      /\ r = SubSeq(t, n + 1, Len(t)) /\ n = Len(t) - Len(r)
  BY <1>0 DEF Reading, Taken
<1>2. r # <<>> /\ ch' = Head(r) /\ input' = Tail(r)
  BY <1>0 DEF Read
<1>3. /\ n + 1 \in 1 .. Len(t)
      /\ Head(r) = t[n + 1] /\ t[n + 1] \in Byte
      /\ Tail(r) \in Seq(Byte) /\ Len(Tail(r)) = Len(r) - 1
      /\ Tail(r) = SubSeq(t, n + 2, Len(t))
      /\ SubSeq(t, 1, n) \in Seq(Byte)
      /\ SubSeq(t, 1, n + 1) = Append(SubSeq(t, 1, n), t[n + 1])
  <2>1. RestOf(t, r, n)
    BY <1>1 DEF RestOf
  <2>2. NextOf(Byte, t, r, n)
    BY <1>1, <1>2, <2>1, RestAndNext
  <2> QED
    BY <2>2 DEF NextOf
<1>4. Len(t) \in Nat /\ Len(r) \in Nat
  BY <1>1, LenProperties
<1>5. Taken' = n + 1
  <2>1. Taken' = Len(t) - Len(Tail(r))
    BY <1>0, <1>2 DEF Taken
  <2>2. Len(Tail(r)) = Len(r) - 1 /\ n = Len(t) - Len(r)
    BY <1>1, <1>3
  <2>3. \A a, b, d : a \in Nat /\ b \in Nat /\ d = b - 1 => a - d = (a - b) + 1
    OBVIOUS
  <2>4. Len(t) - Len(Tail(r)) = (Len(t) - Len(r)) + 1
    BY <2>2, <2>3, <1>4, Zenon
  <2> QED
    BY <2>1, <2>2, <2>4, Zenon
<1>6. (n + 1) + 1 = n + 2
  BY <1>1
<1>7. Consumed = SubSeq(t, 1, n) /\ Consumed' = SubSeq(t, 1, n + 1)
  <2>1. Consumed = SubSeq(text, 1, Taken) /\ Consumed' = SubSeq(text', 1, Taken')
    BY DEF Consumed, Taken
  <2> QED
    BY <2>1, <1>0, <1>5
<1> QED
  BY <1>0, <1>1, <1>2, <1>3, <1>5, <1>6, <1>7

\* A step that neither reads nor writes leaves Reading alone.
LEMMA SameReading ==
  ASSUME Reading, text' = text, input' = input, out' = out
  PROVE  Reading' /\ Taken' = Taken
BY DEF Reading, Taken

\* The control is in order when main starts.
LEMMA ShapeInit == CoroInit => Shape
<1> SUFFICES ASSUME CoroInit
             PROVE  Shape
  OBVIOUS
<1>1. text \in Seq(Byte) /\ input = text /\ out = <<>>
  <2>1. PICK m \in 0 .. MaxLen : text \in [1 .. m -> Byte]
    BY DEF CoroInit, BoundedSeq, SeqOf
  <2>2. m \in Nat
    BY CoroAssumption
  <2> QED
    BY <2>1, <2>2 DEF CoroInit
<1>2. Len(text) \in Nat /\ Taken = 0
  BY <1>1 DEF Taken
<1>3. Reading
  <2>1. SubSeq(text, 1, Len(text)) = text
    BY <1>1, SubSeqFull
  <2> QED
    BY <1>1, <1>2, <2>1 DEF Reading
<1>4. CoroTypeOK
  <2>1. v = NOTHING /\ ch = Nul /\ prev_ch = Space /\ pc = "main" /\ inside \in BOOLEAN
    BY DEF CoroInit
  <2>2. {words, removed, printed} \subseteq Nat
    BY DEF CoroInit
  <2> QED
    BY <2>1, <2>2, ByteIs DEF CoroTypeOK
<1>5. Turn
  BY <1>2 DEF CoroInit, Turn, AtMain
<1>6. LastByte
  BY <1>2 DEF CoroInit, LastByte, isspace
<1> QED
  BY <1>3, <1>4, <1>5, <1>6 DEF Shape

\* What the calls of coro_add do to the queue.
LEMMA AppendIs ==
  ASSUME NEW S, NEW s \in Seq(S), NEW x \in S, NEW t \in Seq(S), Len(t) = Len(s) + 1,
         \A i \in 1 .. Len(s) : t[i] = s[i], t[Len(s) + 1] = x
  PROVE  Append(s, x) = t
<1>1. /\ Append(s, x) \in Seq(S) /\ Len(Append(s, x)) = Len(t)
      /\ \A i \in 1 .. Len(s) : Append(s, x)[i] = s[i]
      /\ Append(s, x)[Len(s) + 1] = x
  BY AppendProperties
<1>2. Len(s) \in Nat
  BY LenProperties
<1>3. \A i \in 1 .. Len(t) : Append(s, x)[i] = t[i]
  BY <1>1, <1>2
<1> QED
  BY <1>1, <1>3, SeqEqual

LEMMA AppendTwo == ASSUME NEW x, NEW y PROVE Append(<<x>>, y) = <<x, y>>
<1>1. PICK s, t, S : s = <<x>> /\ t = <<x, y>> /\ S = {x, y}
  OBVIOUS
<1>2. s \in Seq(S) /\ Len(s) = 1 /\ s[1] = x /\ y \in S
  BY <1>1
<1>3. t \in Seq(S) /\ Len(t) = 2 /\ t[1] = x /\ t[2] = y
  BY <1>1
<1>4. \A i \in 1 .. Len(s) : t[i] = s[i]
  BY <1>2, <1>3
<1>5. Len(t) = Len(s) + 1 /\ t[Len(s) + 1] = y
  BY <1>2, <1>3
<1>6. Append(s, y) = t
  BY <1>2, <1>3, <1>4, <1>5, AppendIs
<1> QED
  BY <1>1, <1>6

LEMMA AppendThree == ASSUME NEW x, NEW y, NEW z PROVE Append(<<x, y>>, z) = <<x, y, z>>
<1>1. PICK s, t, S : s = <<x, y>> /\ t = <<x, y, z>> /\ S = {x, y, z}
  OBVIOUS
<1>2. s \in Seq(S) /\ Len(s) = 2 /\ s[1] = x /\ s[2] = y /\ z \in S
  BY <1>1
<1>3. t \in Seq(S) /\ Len(t) = 3 /\ t[1] = x /\ t[2] = y /\ t[3] = z
  BY <1>1
<1>4. \A i \in 1 .. Len(s) : t[i] = s[i]
  BY <1>2, <1>3
<1>5. Len(t) = Len(s) + 1 /\ t[Len(s) + 1] = z
  BY <1>2, <1>3
<1>6. Append(s, z) = t
  BY <1>2, <1>3, <1>4, <1>5, AppendIs
<1> QED
  BY <1>1, <1>6

\* coro_add and coro_run keep the control in order.
LEMMA ShapeMain ==
  ASSUME Shape, CoroAdd \/ CoroRun
  PROVE  Shape'
<1>1. Reading /\ CoroTypeOK /\ Turn /\ LastByte /\ pc = "main"
  BY DEF Shape, CoroAdd, CoroRun
<1>2. text' = text /\ input' = input /\ UNCHANGED func
  BY DEF CoroAdd, CoroRun
<1>3. Reading' /\ Taken' = Taken
  BY <1>1, <1>2, SameReading DEF func
<1>4. AtMain
  BY <1>1 DEF Turn, AtMain, AtFunc1, AtFunc2, AtFunc3, AtDone
<1>5. CASE CoroAdd
  <2>1. queue' \in {<<>>, <<"func_1">>, <<"func_1", "func_2">>, Names}
    <3>1. Len(queue) < 3 /\ queue' = Append(queue, Names[Len(queue) + 1])
      BY <1>5 DEF CoroAdd, Names
    <3>2. CASE queue = <<>>
      BY <3>1, <3>2 DEF Names
    <3>3. CASE queue = <<"func_1">>
      <4>1. Len(queue) = 1 /\ Names[1 + 1] = "func_2"
        BY <3>3 DEF Names
      <4>2. Append(<<"func_1">>, "func_2") = <<"func_1", "func_2">>
        BY AppendTwo
      <4> QED
        BY <3>1, <3>3, <4>1, <4>2
    <3>4. CASE queue = <<"func_1", "func_2">>
      <4>1. Len(queue) = 2 /\ Names[2 + 1] = "func_3"
        BY <3>4 DEF Names
      <4>2. Append(<<"func_1", "func_2">>, "func_3") = Names
        BY AppendThree DEF Names
      <4> QED
        BY <3>1, <3>4, <4>1, <4>2
    <3>5. CASE queue = Names
      BY <3>1, <3>5 DEF Names
    <3> QED
      BY <3>2, <3>3, <3>4, <3>5, <1>4 DEF AtMain
  <2>2. AtMain'
    BY <1>2, <1>3, <1>4, <1>5, <2>1 DEF AtMain, CoroAdd, func
  <2>3. CoroTypeOK' /\ LastByte'
    BY <1>1, <1>2, <1>3, <1>5 DEF CoroTypeOK, LastByte, CoroAdd, func
  <2> QED
    BY <1>3, <2>2, <2>3 DEF Shape, Turn
<1>6. CASE CoroRun
  <2>1. queue = Names
    <3>1. Len(queue) = 3
      BY <1>6 DEF CoroRun, Names
    <3>2. Len(<<>>) = 0 /\ Len(<<"func_1">>) = 1 /\ Len(<<"func_1", "func_2">>) = 2
      OBVIOUS
    <3>3. queue # <<>> /\ queue # <<"func_1">> /\ queue # <<"func_1", "func_2">>
      <4>1. 3 # 0 /\ 3 # 1 /\ 3 # 2
        OBVIOUS
      <4> QED
        BY <3>1, <3>2, <4>1, Zenon
    <3> QED
      BY <1>4, <3>3 DEF AtMain
  <2>2. Head(queue) = "func_1"
    BY <2>1 DEF Names
  <2>3. AtFunc1'
    BY <1>6, <2>1, <2>2 DEF CoroRun, AtFunc1
  <2>4. CoroTypeOK'
    BY <1>1, <1>2, <1>6 DEF CoroTypeOK, CoroRun, func
  <2>5. LastByte'
    BY <1>1, <1>2, <1>3, <1>4, <1>6, Distinct DEF LastByte, CoroRun, func, AtMain
  <2> QED
    BY <1>3, <2>3, <2>4, <2>5 DEF Shape, Turn
<1> QED
  BY <1>5, <1>6

\* coro_switch takes the one that ends off the queue and runs the one after it.
LEMMA ShapeSwitch ==
  ASSUME Shape, CoroSwitch
  PROVE  Shape'
<1>1. Reading /\ CoroTypeOK /\ Turn /\ LastByte /\ pc = "switch"
  BY DEF Shape, CoroSwitch
<1>2. text' = text /\ input' = input /\ UNCHANGED func
  BY DEF CoroSwitch
<1>3. Reading' /\ Taken' = Taken
  BY <1>1, <1>2, SameReading DEF func
<1>4. AtFunc1 \/ AtFunc2 \/ AtFunc3
  BY <1>1 DEF Turn, AtMain, AtDone
<1>5. CASE AtFunc1
  <2>1. /\ v \in Byte
        /\ pc' = "enter" /\ running' = "func_2" /\ v' = Longjmp(v)
        /\ queue' = IF v = EOF THEN <<"func_2", "func_3">> ELSE Names
    BY <1>5, SwitchFrom1
  <2>2. v' \in Letter \cup {Space, One, EOF} /\ (v' = EOF <=> v = EOF)
    BY <2>1, ByteIs, Distinct DEF Longjmp
  <2>3. AtFunc2'
    BY <2>1, <2>2 DEF AtFunc2
  <2>4. CoroTypeOK'
    BY <1>1, <1>2, <2>1, <2>2, ByteIs DEF CoroTypeOK, func
  <2>5. LastByte'
    BY <1>1, <1>2, <1>3, <2>1, <2>2 DEF LastByte, func
  <2> QED
    BY <1>3, <2>3, <2>4, <2>5 DEF Shape, Turn
<1>6. CASE AtFunc2
  <2>1. /\ v \in Letter \cup {EOF, NOTHING}
        /\ pc' = "enter" /\ running' = "func_3" /\ v' = v
        /\ queue' = IF v = EOF THEN <<"func_3">> ELSE Names
    BY <1>6, SwitchFrom2
  <2>3. AtFunc3'
    BY <2>1 DEF AtFunc3
  <2>4. CoroTypeOK'
    BY <1>1, <1>2, <2>1 DEF CoroTypeOK, func
  <2>5. LastByte'
    BY <1>1, <1>2, <1>3, <2>1 DEF LastByte, func
  <2> QED
    BY <1>3, <2>3, <2>4, <2>5 DEF Shape, Turn
<1>7. CASE AtFunc3
  <2>1. \/ v = EOF /\ pc' = "done" /\ queue' = <<>> /\ v' = NOTHING
        \/ /\ v = NOTHING
           /\ pc' = "enter" /\ running' = "func_1" /\ v' = NOTHING /\ queue' = Names
    BY <1>7, SwitchFrom3
  <2>3. AtDone' \/ AtFunc1'
    BY <2>1 DEF AtFunc1, AtDone
  <2>4. CoroTypeOK'
    BY <1>1, <1>2, <2>1 DEF CoroTypeOK, func
  <2>5. LastByte'
    <3>1. pc' = "done" \/ (pc' = "enter" /\ v = NOTHING /\ v # EOF)
      BY <2>1, Distinct
    <3> QED
      BY <1>1, <1>2, <1>3, <3>1 DEF LastByte, func
  <2> QED
    BY <1>3, <2>3, <2>4, <2>5 DEF Shape, Turn
<1> QED
  BY <1>4, <1>5, <1>6, <1>7

\* func_1 keeps the control in order, and remembers the byte before the last.
LEMMA ShapeFunc1 ==
  ASSUME Shape, Func1 \/ Func1Skip \/ Func1Yield \/ Func1End
  PROVE  Shape'
<1>1. Reading /\ CoroTypeOK /\ Turn /\ LastByte
  BY DEF Shape
<1>2. AtFunc1
  BY <1>1 DEF Func1, Func1Skip, Func1Yield, Func1End, Read, Enter, Turn, AtMain, AtFunc1, AtFunc2, AtFunc3, AtDone
<1>3. CASE Func1
  <2>1. pc = "enter" /\ pc' = "read" /\ queue' = queue /\ running' = running /\ running = "func_1"
    BY <1>3 DEF Func1, Enter
  <2>2. Reading' /\ Taken' = Taken
    BY <1>1, <1>3, SameReading DEF Func1
  <2>3. AtFunc1'
    BY <1>2, <2>1 DEF AtFunc1
  <2>4. CoroTypeOK'
    BY <1>1, <1>3 DEF CoroTypeOK, Func1
  <2>5. LastByte'
    BY <1>1, <1>3, <2>1, <2>2 DEF LastByte, Func1, Reading
  <2> QED
    BY <2>2, <2>3, <2>4, <2>5 DEF Shape, Turn
<1>4. CASE Func1Skip
  <2>0. pc = "read" /\ Read /\ text' = text /\ out' = out /\ pc' = pc /\ inside' = inside /\ prev_ch' = prev_ch
    BY <1>4 DEF Func1Skip, Read
  <2>1. /\ Taken' = Taken + 1 /\ Taken \in Nat /\ Taken + 1 \in 1 .. Len(text)
        /\ ch' = text[Taken + 1] /\ ch' \in Byte
        /\ input' \in Seq(Byte) /\ input' = SubSeq(text, Taken' + 1, Len(text))
    BY <1>1, <2>0, ReadOne
  <2>2. Reading'
    BY <1>1, <2>0, <2>1 DEF Reading
  <2>3. AtFunc1'
    BY <1>2, <1>4, <2>0 DEF AtFunc1, Func1Skip
  <2>4. CoroTypeOK'
    BY <1>1, <1>4, <2>1 DEF CoroTypeOK, Func1Skip
  <2>5. LastByte'
    BY <1>1, <1>4, <2>0, <2>1 DEF LastByte, Func1Skip
  <2> QED
    BY <2>2, <2>3, <2>4, <2>5 DEF Shape, Turn
<1>5. CASE Func1Yield
  <2>0. pc = "read" /\ Read /\ text' = text /\ out' = out /\ pc' = "switch" /\ v' = ch' /\ inside' = inside
    BY <1>5 DEF Func1Yield, Read, Yield
  <2>1. /\ Taken' = Taken + 1 /\ Taken \in Nat /\ Taken + 1 \in 1 .. Len(text)
        /\ ch' = text[Taken + 1] /\ ch' \in Byte
        /\ input' \in Seq(Byte) /\ input' = SubSeq(text, Taken' + 1, Len(text))
    BY <1>1, <2>0, ReadOne
  <2>2. Reading'
    BY <1>1, <2>0, <2>1 DEF Reading
  <2>3. AtFunc1'
    BY <1>2, <1>5, <2>0, <2>1 DEF AtFunc1, Func1Yield
  <2>4. CoroTypeOK'
    BY <1>1, <1>5, <2>0, <2>1 DEF CoroTypeOK, Func1Yield
  <2>5. LastByte'
    BY <1>1, <1>5, <2>0, <2>1 DEF LastByte, Func1Yield
  <2> QED
    BY <2>2, <2>3, <2>4, <2>5 DEF Shape, Turn
<1>6. CASE Func1End
  <2>1. pc = "read" /\ pc' = "switch" /\ v' = EOF /\ queue' = queue /\ running' = running
    BY <1>6 DEF Func1End, Yield
  <2>2. Reading' /\ Taken' = Taken
    BY <1>1, <1>6, SameReading DEF Func1End
  <2>3. AtFunc1'
    BY <1>2, <2>1, ByteIs DEF AtFunc1
  <2>4. CoroTypeOK'
    BY <1>1, <1>6, <2>1, ByteIs DEF CoroTypeOK, Func1End
  <2>5. LastByte'
    BY <1>1, <1>6, <2>1, <2>2 DEF LastByte, Func1End
  <2> QED
    BY <2>2, <2>3, <2>4, <2>5 DEF Shape, Turn
<1> QED
  BY <1>3, <1>4, <1>5, <1>6

\* So do func_2 and func_3.
LEMMA ShapeFilters ==
  ASSUME Shape, Func2 \/ Func3Print \/ Func3Silent
  PROVE  Shape'
<1>1. Reading /\ CoroTypeOK /\ Turn /\ LastByte
  BY DEF Shape
<1>2. CASE Func2
  <2>1. pc = "enter" /\ running = "func_2" /\ pc' = "switch" /\ queue' = queue /\ running' = running
    BY <1>2 DEF Func2, Enter, Yield
  <2>2. AtFunc2
    BY <1>1, <2>1 DEF Turn, AtMain, AtFunc1, AtFunc2, AtFunc3, AtDone
  <2>3. v' = IF v = EOF \/ isalpha(v) THEN v ELSE NOTHING
    BY <1>2 DEF Func2, Yield
  <2>4. v' \in Letter \cup {EOF, NOTHING} /\ (v' = EOF <=> v = EOF)
    BY <2>3, Distinct DEF isalpha, Letter
  <2>5. Reading' /\ Taken' = Taken
    BY <1>1, <1>2, SameReading DEF Func2
  <2>6. AtFunc2'
    BY <2>1, <2>2, <2>4 DEF AtFunc2
  <2>7. CoroTypeOK'
    BY <1>1, <1>2, <2>1, <2>4, ByteIs DEF CoroTypeOK, Func2
  <2>8. LastByte'
    BY <1>1, <1>2, <2>1, <2>4, <2>5 DEF LastByte, Func2
  <2> QED
    BY <2>5, <2>6, <2>7, <2>8 DEF Shape, Turn
<1>3. CASE Func3Print
  <2>1. /\ pc = "enter" /\ running = "func_3" /\ pc' = "switch" /\ queue' = queue /\ running' = running
        /\ v \notin {EOF, NOTHING} /\ v' = NOTHING
    BY <1>3 DEF Func3Print, Enter, Yield
  <2>2. AtFunc3
    BY <1>1, <2>1 DEF Turn, AtMain, AtFunc1, AtFunc2, AtFunc3, AtDone
  <2>3. v \in Letter
    BY <2>1, <2>2 DEF AtFunc3
  <2>4. out' = Append(out, Swap[v]) /\ out' \in Seq(Swapped)
    <3>1. out' = Append(out, Swap[v]) /\ Swap[v] \in Swapped
      BY <1>3, <2>3 DEF Func3Print, isalpha, Letter, Swapped
    <3> QED
      BY <3>1, <1>1, AppendProperties DEF Reading
  <2>5. Reading' /\ Taken' = Taken
    BY <1>1, <1>3, <2>4 DEF Func3Print, Reading, Taken
  <2>6. AtFunc3'
    BY <2>1, <2>2, Distinct DEF AtFunc3
  <2>7. CoroTypeOK'
    BY <1>1, <1>3, <2>1, ByteIs DEF CoroTypeOK, Func3Print
  <2>8. LastByte'
    BY <1>1, <1>3, <2>1, <2>5 DEF LastByte, Func3Print
  <2> QED
    BY <2>5, <2>6, <2>7, <2>8 DEF Shape, Turn
<1>4. CASE Func3Silent
  <2>1. /\ pc = "enter" /\ running = "func_3" /\ pc' = "switch" /\ queue' = queue /\ running' = running
        /\ v \in {EOF, NOTHING} /\ v' = v
    BY <1>4 DEF Func3Silent, Enter, Yield
  <2>2. AtFunc3
    BY <1>1, <2>1 DEF Turn, AtMain, AtFunc1, AtFunc2, AtFunc3, AtDone
  <2>5. Reading' /\ Taken' = Taken
    BY <1>1, <1>4, SameReading DEF Func3Silent, func
  <2>6. AtFunc3'
    BY <2>1, <2>2 DEF AtFunc3
  <2>7. CoroTypeOK'
    BY <1>1, <1>4, <2>1, ByteIs DEF CoroTypeOK, Func3Silent, func
  <2>8. LastByte'
    BY <1>1, <1>4, <2>1, <2>5 DEF LastByte, Func3Silent, func
  <2> QED
    BY <2>5, <2>6, <2>7, <2>8 DEF Shape, Turn
<1> QED
  BY <1>2, <1>3, <1>4

\* Every step keeps the control in order.
LEMMA ShapeStep == Shape /\ [CoroNext]_coroVars => Shape'
<1> SUFFICES ASSUME Shape, [CoroNext]_coroVars
             PROVE  Shape'
  OBVIOUS
<1>1. CASE UNCHANGED coroVars
  BY <1>1 DEF coroVars, func, Shape, Reading, Taken, CoroTypeOK, LastByte,
     Turn, AtMain, AtFunc1, AtFunc2, AtFunc3, AtDone
<1> QED
  BY <1>1, ShapeMain, ShapeSwitch, ShapeFunc1, ShapeFilters DEF CoroNext, CoroStep, Done

\* A character is on its way from func_1 to func_3.
Flying ==
  \/ pc = "switch" /\ running \in {"func_1", "func_2"}
  \/ pc = "enter" /\ running \in {"func_2", "func_3"}

\* Standard output with the letter that is on its way.
Due == IF Flying THEN OneMore(out, v) ELSE out

\* Due is what the property calls the output with what is in flight.
LEMMA DueIs ==
  ASSUME out \in Seq(Swapped)
  PROVE  out \o Letters(InFlight) = Due
<1>1. PICK o, x : o = out /\ x = v
  OBVIOUS
<1>2. o \o <<>> = o
  BY <1>1, ConcatEmptySeq
<1>3. CASE Flying
  <2>1. InFlight = <<x>> /\ Due = OneMore(o, x)
    BY <1>1, <1>3 DEF InFlight, Flying, Due
  <2>2. CASE isalpha(x)
    <3>1. Letters(<<x>>) = <<Swap[x]>> /\ OneMore(o, x) = Append(o, Swap[x])
      BY <2>2, LettersOne DEF OneMore
    <3>2. Swap[x] \in Swapped
      BY <2>2 DEF isalpha, Swapped, Letter
    <3>3. Append(o, Swap[x]) = o \o <<Swap[x]>>
      BY <1>1, <3>2, AppendIsConcat
    <3> QED
      BY <1>1, <2>1, <3>1, <3>3
  <2>3. CASE ~isalpha(x)
    <3>1. Letters(<<x>>) = <<>> /\ OneMore(o, x) = o
      BY <2>3, LettersOne DEF OneMore
    <3> QED
      BY <1>1, <1>2, <2>1, <3>1
  <2> QED
    BY <2>2, <2>3
<1>4. CASE ~Flying
  <2>1. InFlight = <<>> /\ Due = out
    BY <1>4 DEF InFlight, Flying, Due
  <2> QED
    BY <1>1, <1>2, <2>1, LettersEmpty
<1> QED
  BY <1>3, <1>4

\* What has been read is what has been printed and what is on its way.
Flow == Letters(Consumed) = Due

\* A step that does not read leaves Consumed alone.
LEMMA SameConsumed ==
  ASSUME text' = text, input' = input
  PROVE  Consumed' = Consumed /\ Letters(Consumed') = Letters(Consumed)
BY DEF Consumed

\* Nothing has been read yet.
LEMMA FlowInit == CoroInit => Flow
<1> SUFFICES ASSUME CoroInit
             PROVE  Flow
  OBVIOUS
<1>1. Reading /\ Taken = 0 /\ ~Flying /\ out = <<>>
  BY ShapeInit DEF CoroInit, Shape, Flying, Taken, Reading
<1>2. Consumed = <<>>
  <2>1. Consumed = SubSeq(text, 1, Taken)
    BY DEF Consumed, Taken
  <2> QED
    BY <1>1, <2>1, SubSeqEmpty
<1> QED
  BY <1>1, <1>2, LettersEmpty DEF Flow, Due

\* Steps that print nothing and read nothing.
LEMMA FlowQuiet ==
  ASSUME Shape, Flow,
         CoroAdd \/ CoroRun \/ CoroSwitch \/ Func1 \/ Func1End \/ Func2 \/ Func3Silent
  PROVE  Flow'
<1>1. text' = text /\ input' = input /\ out' = out
  BY DEF CoroAdd, CoroRun, CoroSwitch, Func1, Func1End, Func2, Func3Silent, func
<1>2. Letters(Consumed') = Letters(Consumed)
  BY <1>1, SameConsumed
<1>3. Turn
  BY DEF Shape
<1>4. SUFFICES Due' = Due
  BY <1>2, <1>4 DEF Flow
<1>5. CASE CoroAdd \/ CoroRun
  <2>1. AtMain
    BY <1>3, <1>5 DEF CoroAdd, CoroRun, Turn, AtMain, AtFunc1, AtFunc2, AtFunc3, AtDone
  <2>2. pc = "main" /\ (pc' = "main" \/ (pc' = "enter" /\ running' = Head(queue) /\ CoroRun))
    BY <1>5 DEF CoroAdd, CoroRun
  <2>3. CoroRun => running' = "func_1"
    <3>1. Shape'
      BY <1>5, ShapeMain
    <3>2. CoroRun => v' = NOTHING /\ pc' = "enter" /\ queue' = queue
      BY DEF CoroRun
    <3>3. CoroRun => Head(queue) = "func_1"
      <4>1. SUFFICES ASSUME CoroRun
                     PROVE  Head(queue) = "func_1"
        OBVIOUS
      <4>2. Len(queue) = 3
        BY <4>1 DEF CoroRun, Names
      <4>3. queue # <<>>
        <5>1. Len(<<>>) = 0 /\ 0 # 3
          OBVIOUS
        <5> QED
          BY <4>2, <5>1, Zenon
      <4> QED
        BY <2>1, <4>3 DEF AtMain, Names
    <3> QED
      BY <3>3 DEF CoroRun
  <2> QED
    BY <1>1, <2>2, <2>3 DEF Due, Flying
<1>6. CASE CoroSwitch
  <2>1. AtFunc1 \/ AtFunc2 \/ AtFunc3
    BY <1>3, <1>6 DEF CoroSwitch, Turn, AtMain, AtDone
  <2>2. CASE AtFunc1
    <3>1. Flying /\ Flying' /\ v \in Byte /\ v' = Longjmp(v)
      BY <1>6, <2>2, SwitchFrom1 DEF Flying, AtFunc1, CoroSwitch
    <3>2. OneMore(out, v') = OneMore(out, v)
      BY <3>1, Distinct DEF OneMore, isalpha, Letter, Longjmp
    <3> QED
      BY <1>1, <3>1, <3>2 DEF Due
  <2>3. CASE AtFunc2
    <3>1. Flying /\ Flying' /\ v' = v
      BY <1>6, <2>3, SwitchFrom2 DEF Flying, AtFunc2, CoroSwitch
    <3> QED
      BY <1>1, <3>1 DEF Due
  <2>4. CASE AtFunc3
    <3>1. ~Flying /\ ~Flying'
      BY <1>6, <2>4, SwitchFrom3 DEF Flying, AtFunc3, CoroSwitch
    <3> QED
      BY <1>1, <3>1 DEF Due
  <2> QED
    BY <2>1, <2>2, <2>3, <2>4
<1>7. CASE Func1
  <2>1. ~Flying /\ ~Flying'
    BY <1>7 DEF Func1, Enter, Flying
  <2> QED
    BY <1>1, <2>1 DEF Due
<1>8. CASE Func1End
  <2>1. ~Flying /\ v' = EOF
    BY <1>8 DEF Func1End, Yield, Flying
  <2>2. OneMore(out, EOF) = out
    BY Distinct DEF OneMore, isalpha, Letter
  <2> QED
    BY <1>1, <2>1, <2>2 DEF Due
<1>9. CASE Func2
  <2>1. Flying /\ Flying' /\ v' = IF v = EOF \/ isalpha(v) THEN v ELSE NOTHING
    BY <1>9 DEF Func2, Enter, Yield, Flying
  <2>2. OneMore(out, v') = OneMore(out, v)
    BY <2>1, Distinct DEF OneMore, isalpha, Letter
  <2> QED
    BY <1>1, <2>1, <2>2 DEF Due
<1>10. CASE Func3Silent
  <2>1. Flying /\ ~Flying' /\ v \in {EOF, NOTHING}
    BY <1>10 DEF Func3Silent, Enter, Yield, Flying
  <2>2. OneMore(out, v) = out
    BY <2>1, Distinct DEF OneMore, isalpha, Letter
  <2> QED
    BY <1>1, <2>1, <2>2 DEF Due
<1> QED
  BY <1>5, <1>6, <1>7, <1>8, <1>9, <1>10

\* func_1 reads a byte and sends it on its way, or drops white space.
LEMMA FlowRead ==
  ASSUME Shape, Flow, Func1Skip \/ Func1Yield
  PROVE  Flow'
<1>1. Reading /\ Read /\ text' = text /\ out' = out /\ pc = "read" /\ ~Flying
  BY DEF Shape, Func1Skip, Func1Yield, Read, Flying
<1>2. PICK s, x : s = Consumed /\ x = ch'
  OBVIOUS
<1>3. s \in Seq(Byte) /\ x \in Byte /\ Consumed' = Append(s, x)
  BY <1>1, <1>2, ReadOne
<1>4. Letters(Append(s, x)) = OneMore(Letters(s), x)
  BY <1>3, LettersAppend
<1>5. Letters(Consumed') = OneMore(out, x)
  BY <1>1, <1>2, <1>3, <1>4 DEF Flow, Due
<1>6. CASE Func1Skip
  <2>1. ~Flying' /\ x = Space
    BY <1>2, <1>6, <1>1 DEF Func1Skip, isspace, Flying
  <2>2. OneMore(out, x) = out
    BY <2>1, Distinct DEF OneMore, isalpha, Letter
  <2> QED
    BY <1>1, <1>5, <2>1, <2>2 DEF Flow, Due
<1>7. CASE Func1Yield
  <2>1. running = "func_1"
    BY <1>1 DEF Shape, Turn, AtMain, AtFunc1, AtFunc2, AtFunc3, AtDone
  <2>2. Flying' /\ v' = x
    BY <1>2, <1>7, <2>1 DEF Func1Yield, Yield, Flying
  <2> QED
    BY <1>1, <1>5, <2>2 DEF Flow, Due
<1> QED
  BY <1>6, <1>7

\* func_3 prints the letter that was on its way.
LEMMA FlowPrint ==
  ASSUME Shape, Flow, Func3Print
  PROVE  Flow'
<1>1. text' = text /\ input' = input /\ Flying /\ ~Flying' /\ pc = "enter" /\ running = "func_3"
  BY DEF Func3Print, Enter, Yield, Flying
<1>2. v \in Letter
  BY <1>1 DEF Func3Print, Shape, Turn, AtMain, AtFunc1, AtFunc2, AtFunc3, AtDone
<1>3. out' = OneMore(out, v)
  BY <1>2 DEF Func3Print, OneMore, isalpha, Letter
<1>4. Letters(Consumed') = Letters(Consumed)
  BY <1>1, SameConsumed
<1> QED
  BY <1>1, <1>3, <1>4 DEF Flow, Due

\* No step loses a letter, prints one twice or changes the order.
LEMMA FlowStep == Shape /\ Flow /\ [CoroNext]_coroVars => Flow'
<1> SUFFICES ASSUME Shape, Flow, [CoroNext]_coroVars
             PROVE  Flow'
  OBVIOUS
<1>1. CASE UNCHANGED coroVars
  <2>1. text' = text /\ input' = input /\ out' = out /\ pc' = pc /\ running' = running /\ v' = v
    BY <1>1 DEF coroVars, func
  <2>2. Letters(Consumed') = Letters(Consumed) /\ Due' = Due
    BY <2>1, SameConsumed DEF Due, Flying
  <2> QED
    BY <2>2 DEF Flow
<1>2. CASE CoroStep
  BY <1>2, FlowQuiet, FlowRead, FlowPrint DEF CoroStep
<1> QED
  BY <1>1, <1>2 DEF CoroNext, Done

\* Among the first n bytes of t: where words start, and what is left after squeezing
\* white space.
StartsIn(t, n) == {i \in 1 .. n : ~isspace(t[i]) /\ (i = 1 \/ isspace(t[i - 1]))}
ShownIn(t, n) == {i \in 1 .. n : ~isspace(t[i]) \/ (i > 1 /\ ~isspace(t[i - 1]))}

\* One byte more adds at most one start of a word and one byte that is not squeezed.
LEMMA SetsGrow ==
  ASSUME NEW t, NEW n \in Nat
  PROVE  /\ Cardinality(StartsIn(t, n)) \in Nat /\ Cardinality(ShownIn(t, n)) \in Nat
         /\ Cardinality(StartsIn(t, n + 1)) =
              Cardinality(StartsIn(t, n))
              + (IF ~isspace(t[n + 1]) /\ (n = 0 \/ isspace(t[n])) THEN 1 ELSE 0)
         /\ Cardinality(ShownIn(t, n + 1)) =
              Cardinality(ShownIn(t, n))
              + (IF ~isspace(t[n + 1]) \/ (n > 0 /\ ~isspace(t[n])) THEN 1 ELSE 0)
<1>1. IsFiniteSet(1 .. n)
  BY FS_Interval
<1> DEFINE A == StartsIn(t, n)
           B == ShownIn(t, n)
<1>2. A \subseteq 1 .. n /\ B \subseteq 1 .. n
  BY DEF StartsIn, ShownIn
<1>3. n + 1 \notin A /\ n + 1 \notin B
  BY <1>2
<1> HIDE DEF A, B
<1>4. IsFiniteSet(A) /\ IsFiniteSet(B) /\ Cardinality(A) \in Nat /\ Cardinality(B) \in Nat
  BY <1>1, <1>2, FS_Subset, FS_CardinalityType
<1>5. Cardinality(A \cup {n + 1}) = Cardinality(A) + 1 /\ Cardinality(B \cup {n + 1}) = Cardinality(B) + 1
  BY <1>3, <1>4, FS_AddElement
<1>6. (n + 1) - 1 = n /\ (n + 1 = 1 <=> n = 0) /\ (n + 1 > 1 <=> n > 0)
  OBVIOUS
<1>7. StartsIn(t, n + 1) = IF ~isspace(t[n + 1]) /\ (n = 0 \/ isspace(t[n])) THEN A \cup {n + 1} ELSE A
  <2>1. \A i : i \in 1 .. n + 1 <=> i \in 1 .. n \/ i = n + 1
    OBVIOUS
  <2>2. (n + 1 \in StartsIn(t, n + 1)) <=> ~isspace(t[n + 1]) /\ (n = 0 \/ isspace(t[n]))
    BY <2>1, <1>6 DEF StartsIn
  <2>3. \A i : i # n + 1 => (i \in StartsIn(t, n + 1) <=> i \in A)
    BY <2>1 DEF StartsIn, A
  <2>4. CASE ~isspace(t[n + 1]) /\ (n = 0 \/ isspace(t[n]))
    <3>1. \A i : i \in StartsIn(t, n + 1) <=> i \in A \cup {n + 1}
      BY <2>2, <2>3, <2>4
    <3> QED
      BY <2>4, <3>1
  <2>5. CASE ~(~isspace(t[n + 1]) /\ (n = 0 \/ isspace(t[n])))
    <3>1. \A i : i \in StartsIn(t, n + 1) <=> i \in A
      BY <1>3, <2>2, <2>3, <2>5
    <3> QED
      BY <2>5, <3>1
  <2> QED
    BY <2>4, <2>5
<1>8. ShownIn(t, n + 1) = IF ~isspace(t[n + 1]) \/ (n > 0 /\ ~isspace(t[n])) THEN B \cup {n + 1} ELSE B
  <2>1. \A i : i \in 1 .. n + 1 <=> i \in 1 .. n \/ i = n + 1
    OBVIOUS
  <2>2. (n + 1 \in ShownIn(t, n + 1)) <=> ~isspace(t[n + 1]) \/ (n > 0 /\ ~isspace(t[n]))
    BY <2>1, <1>6 DEF ShownIn
  <2>3. \A i : i # n + 1 => (i \in ShownIn(t, n + 1) <=> i \in B)
    BY <2>1 DEF ShownIn, B
  <2>4. CASE ~isspace(t[n + 1]) \/ (n > 0 /\ ~isspace(t[n]))
    <3>1. \A i : i \in ShownIn(t, n + 1) <=> i \in B \cup {n + 1}
      BY <2>2, <2>3, <2>4
    <3> QED
      BY <2>4, <3>1
  <2>5. CASE ~(~isspace(t[n + 1]) \/ (n > 0 /\ ~isspace(t[n])))
    <3>1. \A i : i \in ShownIn(t, n + 1) <=> i \in B
      BY <1>3, <2>2, <2>3, <2>5
    <3> QED
      BY <2>5, <3>1
  <2> QED
    BY <2>4, <2>5
<1>9. CASE ~isspace(t[n + 1]) /\ (n = 0 \/ isspace(t[n]))
  BY <1>4, <1>5, <1>7, <1>8, <1>9 DEF A, B
<1>10. CASE ~(~isspace(t[n + 1]) /\ (n = 0 \/ isspace(t[n])))
  BY <1>4, <1>5, <1>7, <1>8, <1>10 DEF A, B
<1> QED
  BY <1>9, <1>10

\* The last byte read belongs to a word that is not counted yet.
Open == IF Taken > 0 /\ ~isspace(text[Taken]) THEN 1 ELSE 0

\* func_1 has come to its end.
Over == pc = "done" \/ (pc \in {"enter", "switch"} /\ v = EOF)

\* A character that neither func_2 nor func_3 has counted.
Uncounted ==
  IF \/ pc = "switch" /\ running = "func_1" /\ v # EOF
     \/ pc = "enter" /\ running = "func_2" /\ v # EOF
     \/ pc = "switch" /\ running = "func_2" /\ v \notin {EOF, NOTHING}
     \/ pc = "enter" /\ running = "func_3" /\ v \notin {EOF, NOTHING}
    THEN 1 ELSE 0

\* words counts the starts of words, but for the word that is still open.
Words ==
  IF Over
    THEN input = <<>> /\ (text # <<>> => words = Cardinality(StartsIn(text, Taken)))
    ELSE words + Open = Cardinality(StartsIn(text, Taken))

\* removed and printed count what func_1 has passed on.
Chars ==
  /\ removed + printed + Uncounted = Cardinality(ShownIn(text, Taken))
  /\ printed = Len(out)

\* Both, for an input without the byte that is taken for EOF.
Counts == EOF \notin ToSet(text) => Words /\ Chars

\* The counters start at 0.
LEMMA CountsInit == CoroInit => Counts
<1> SUFFICES ASSUME CoroInit
             PROVE  Counts
  OBVIOUS
<1>1. Reading /\ Taken = 0
  BY ShapeInit DEF CoroInit, Shape, Taken, Reading
<1>2. StartsIn(text, 0) = {} /\ ShownIn(text, 0) = {}
  BY DEF StartsIn, ShownIn
<1>3. Cardinality({}) = 0
  BY FS_EmptySet
<1>4. ~Over /\ Open = 0 /\ Uncounted = 0
  BY <1>1 DEF CoroInit, Over, Open, Uncounted
<1>5. words = 0 /\ removed = 0 /\ printed = 0 /\ out = <<>>
  BY DEF CoroInit
<1>6. /\ Cardinality(StartsIn(text, Taken)) = 0 /\ Cardinality(ShownIn(text, Taken)) = 0
      /\ Len(<<>>) = 0 /\ 0 + 0 = 0
  <2>1. Len(<<>>) = 0 /\ 0 + 0 = 0
    OBVIOUS
  <2> QED
    BY <1>1, <1>2, <1>3, <2>1, Zenon
<1>7. Words
  BY <1>4, <1>5, <1>6, Zenon DEF Words
<1>8. Chars
  BY <1>4, <1>5, <1>6, Zenon DEF Chars
<1> QED
  BY <1>7, <1>8 DEF Counts

\* The counters are numbers.
LEMMA CountTypes ==
  ASSUME Shape
  PROVE  /\ words \in Nat /\ removed \in Nat /\ printed \in Nat
         /\ Open \in Nat /\ Uncounted \in Nat /\ Taken \in Nat
         /\ Len(out) \in Nat /\ Len(text) \in Nat /\ Len(input) \in Nat
<1>1. words \in Nat /\ removed \in Nat /\ printed \in Nat
  BY DEF Shape, CoroTypeOK
<1>2. Open \in Nat /\ Uncounted \in Nat
  BY DEF Open, Uncounted
<1>3. Taken \in Nat /\ text \in Seq(Byte) /\ input \in Seq(Byte) /\ out \in Seq(Swapped)
  BY DEF Shape, Reading
<1>4. Len(out) \in Nat /\ Len(text) \in Nat /\ Len(input) \in Nat
  BY <1>3, LenProperties
<1> QED
  BY <1>1, <1>2, <1>3, <1>4

\* Steps that count nothing.
LEMMA CountsQuiet ==
  ASSUME Shape, Counts, CoroAdd \/ CoroRun \/ CoroSwitch \/ Func1 \/ Func3Silent
  PROVE  Counts'
<1>1. /\ text' = text /\ input' = input /\ out' = out
      /\ words' = words /\ removed' = removed /\ printed' = printed
  BY DEF CoroAdd, CoroRun, CoroSwitch, Func1, Func3Silent, func
<1>2. Turn
  BY DEF Shape
<1>3. SUFFICES (Over' <=> Over) /\ Uncounted' = Uncounted
  <2>1. Taken' = Taken /\ Open' = Open
    BY <1>1 DEF Taken, Open
  <2>2. Words => Words'
    BY <1>1, <1>3, <2>1 DEF Words
  <2>3. Chars => Chars'
    BY <1>1, <1>3, <2>1 DEF Chars
  <2> QED
    BY <1>1, <2>2, <2>3 DEF Counts
<1>4. CASE CoroAdd
  BY <1>4 DEF CoroAdd, Over, Uncounted
<1>5. CASE CoroRun
  <2>1. Shape' /\ pc = "main" /\ pc' = "enter" /\ v' = NOTHING
    BY <1>5, ShapeMain DEF CoroRun
  <2>2. running' = "func_1"
    <3>1. queue' \in {<<>>, <<"func_1">>, <<"func_1", "func_2">>, Names} /\ running' = Head(queue') /\ Len(queue') = 3
      BY <1>2, <1>5, <2>1 DEF CoroRun, Turn, AtMain, AtFunc1, AtFunc2, AtFunc3, AtDone, Names
    <3>2. queue' # <<>>
      BY <3>1
    <3> QED
      BY <3>1, <3>2 DEF Names
  <2> QED
    BY <2>1, <2>2, Distinct DEF Over, Uncounted
<1>6. CASE CoroSwitch
  <2>0. pc = "switch"
    BY <1>6 DEF CoroSwitch
  <2>1. AtFunc1 \/ AtFunc2 \/ AtFunc3
    BY <1>2, <2>0 DEF Turn, AtMain, AtDone
  <2>2. CASE AtFunc1
    <3>1. v \in Byte /\ pc' = "enter" /\ running' = "func_2" /\ v' = Longjmp(v) /\ running = "func_1"
      BY <1>6, <2>2, SwitchFrom1 DEF AtFunc1
    <3>2. v' = EOF <=> v = EOF
      BY <3>1, Distinct DEF Longjmp
    <3> QED
      BY <2>0, <3>1, <3>2 DEF Over, Uncounted
  <2>3. CASE AtFunc2
    <3>1. pc' = "enter" /\ running' = "func_3" /\ v' = v /\ running = "func_2"
      BY <1>6, <2>3, SwitchFrom2 DEF AtFunc2
    <3> QED
      BY <2>0, <3>1 DEF Over, Uncounted
  <2>4. CASE AtFunc3
    <3>1. \/ v = EOF /\ pc' = "done"
          \/ v = NOTHING /\ pc' = "enter" /\ running' = "func_1" /\ v' = NOTHING
      BY <1>6, <2>4, SwitchFrom3
    <3>2. running = "func_3"
      BY <2>4 DEF AtFunc3
    <3> QED
      BY <2>0, <3>1, <3>2, Distinct DEF Over, Uncounted
  <2> QED
    BY <2>1, <2>2, <2>3, <2>4
<1>7. CASE Func1
  <2>1. pc = "enter" /\ running = "func_1" /\ pc' = "read"
    BY <1>7 DEF Func1, Enter
  <2>2. v = NOTHING
    BY <1>2, <2>1 DEF Turn, AtMain, AtFunc1, AtFunc2, AtFunc3, AtDone
  <2> QED
    BY <2>1, <2>2, Distinct DEF Over, Uncounted
<1>8. CASE Func3Silent
  <2>1. pc = "enter" /\ running = "func_3" /\ pc' = "switch" /\ running' = running /\ v' = v /\ v \in {EOF, NOTHING}
    BY <1>8 DEF Func3Silent, Enter, Yield
  <2> QED
    BY <2>1 DEF Over, Uncounted
<1> QED
  BY <1>4, <1>5, <1>6, <1>7, <1>8

\* func_1 reads a byte: a word ends, goes on or starts.
LEMMA CountsRead ==
  ASSUME Shape, Counts, Func1Skip \/ Func1Yield
  PROVE  Counts'
<1> SUFFICES ASSUME EOF \notin ToSet(text')
             PROVE  Words' /\ Chars'
  BY DEF Counts
<1>1. /\ Reading /\ Read /\ text' = text /\ out' = out /\ pc = "read" /\ running = "func_1"
      /\ removed' = removed /\ printed' = printed /\ running' = running
  BY DEF Shape, Func1Skip, Func1Yield, Read, Turn, AtMain, AtFunc1, AtFunc2, AtFunc3, AtDone
<1>2. Words /\ Chars
  BY <1>1 DEF Counts
<1>3. /\ Taken' = Taken + 1 /\ Taken \in Nat /\ Taken + 1 \in 1 .. Len(text) /\ ch' = text[Taken + 1]
  BY <1>1, ReadOne
<1>4. ch' # EOF
  <2>1. DOMAIN text = 1 .. Len(text)
    BY <1>1, LenProperties DEF Reading
  <2> QED
    BY <1>1, <1>3, <2>1 DEF ToSet
<1>5. isspace(prev_ch) <=> (Taken = 0 \/ isspace(text[Taken]))
  BY <1>1 DEF Shape, LastByte
<1>6. PICK n, t : n = Taken /\ t = text
  OBVIOUS
<1>7. /\ Cardinality(StartsIn(t, n)) \in Nat /\ Cardinality(ShownIn(t, n)) \in Nat
      /\ Cardinality(StartsIn(t, n + 1)) =
           Cardinality(StartsIn(t, n))
           + (IF ~isspace(t[n + 1]) /\ (n = 0 \/ isspace(t[n])) THEN 1 ELSE 0)
      /\ Cardinality(ShownIn(t, n + 1)) =
           Cardinality(ShownIn(t, n))
           + (IF ~isspace(t[n + 1]) \/ (n > 0 /\ ~isspace(t[n])) THEN 1 ELSE 0)
  <2>1. n \in Nat
    BY <1>3, <1>6
  <2> QED
    BY <2>1, SetsGrow
<1> DEFINE st == Cardinality(StartsIn(t, n))
           sh == Cardinality(ShownIn(t, n))
<1>8. words + Open = st /\ removed + printed + Uncounted = sh /\ printed = Len(out) /\ Uncounted = 0
  BY <1>1, <1>2, <1>6 DEF Words, Chars, Over, Uncounted
<1>9. words \in Nat /\ removed \in Nat /\ printed \in Nat
  BY CountTypes
<1>10. Open = IF n > 0 /\ ~isspace(t[n]) THEN 1 ELSE 0
  BY <1>6 DEF Open
<1>11. Open' = IF isspace(t[n + 1]) THEN 0 ELSE 1
  BY <1>1, <1>3, <1>6 DEF Open
<1>12. /\ Words' <=> IF Over' THEN input' = <<>> /\ (text' # <<>> => words' = Cardinality(StartsIn(t, n + 1)))
                             ELSE words' + Open' = Cardinality(StartsIn(t, n + 1))
       /\ Chars' <=> removed + printed + Uncounted' = Cardinality(ShownIn(t, n + 1)) /\ printed = Len(out)
  BY <1>1, <1>3, <1>6 DEF Words, Chars
<1>13. st \in Nat /\ sh \in Nat
  BY <1>7
<1>14. n \in Nat /\ (isspace(prev_ch) <=> (n = 0 \/ isspace(t[n]))) /\ ch' = t[n + 1]
  BY <1>3, <1>5, <1>6
<1> HIDE DEF st, sh
<1>15. CASE Func1Skip
  <2>1. isspace(t[n + 1]) /\ isspace(prev_ch) /\ words' = words /\ pc' = "read"
    BY <1>1, <1>14, <1>15 DEF Func1Skip
  <2>2. ~Over' /\ Uncounted' = 0
    BY <2>1 DEF Over, Uncounted
  <2>3. Cardinality(StartsIn(t, n + 1)) = st /\ Cardinality(ShownIn(t, n + 1)) = sh
    BY <1>7, <1>13, <1>14, <2>1 DEF st, sh
  <2>4. Open = 0 /\ Open' = 0
    BY <1>10, <1>11, <1>14, <2>1
  <2> QED
    BY <1>8, <1>12, <2>1, <2>2, <2>3, <2>4
<1>16. CASE Func1Yield
  <2>1. /\ ~(isspace(t[n + 1]) /\ isspace(prev_ch))
        /\ words' = IF isspace(t[n + 1]) THEN words + 1 ELSE words
        /\ pc' = "switch" /\ v' = ch'
    BY <1>14, <1>16 DEF Func1Yield, Yield
  <2>2. ~Over' /\ Uncounted' = 1
    BY <1>1, <1>4, <2>1 DEF Over, Uncounted
  <2>3. Cardinality(ShownIn(t, n + 1)) = sh + 1
    BY <1>7, <1>13, <1>14, <2>1 DEF sh
  <2>4. words' + Open' = Cardinality(StartsIn(t, n + 1))
    <3>1. CASE isspace(t[n + 1])
      <4>1. words' = words + 1 /\ Open' = 0 /\ Open = 1
        BY <1>10, <1>11, <1>14, <2>1, <3>1
      <4>2. Cardinality(StartsIn(t, n + 1)) = st
        BY <1>7, <1>13, <3>1 DEF st
      <4> QED
        BY <1>8, <1>9, <4>1, <4>2
    <3>2. CASE ~isspace(t[n + 1])
      <4>1. words' = words /\ Open' = 1
        BY <1>11, <2>1, <3>2
      <4>2. CASE n = 0 \/ isspace(t[n])
        <5>1. Open = 0
          BY <1>10, <1>14, <4>2
        <5>2. Cardinality(StartsIn(t, n + 1)) = st + 1
          BY <1>7, <1>13, <3>2, <4>2 DEF st
        <5> QED
          BY <1>8, <1>9, <4>1, <5>1, <5>2
      <4>3. CASE ~(n = 0 \/ isspace(t[n]))
        <5>1. Open = 1
          BY <1>10, <1>14, <4>3
        <5>2. Cardinality(StartsIn(t, n + 1)) = st
          BY <1>7, <1>13, <3>2, <4>3 DEF st
        <5> QED
          BY <1>8, <1>9, <4>1, <5>1, <5>2
      <4> QED
        BY <4>2, <4>3
    <3> QED
      BY <3>1, <3>2
  <2> QED
    BY <1>8, <1>9, <1>12, <1>13, <2>2, <2>3, <2>4
<1> QED
  BY <1>15, <1>16

\* func_1 ends and counts a word that ends with the input (coro.c:130).
LEMMA CountsEnd ==
  ASSUME Shape, Counts, Func1End
  PROVE  Counts'
<1> SUFFICES ASSUME EOF \notin ToSet(text')
             PROVE  Words' /\ Chars'
  BY DEF Counts
<1>1. /\ text' = text /\ out' = out /\ pc = "read" /\ input = <<>> /\ input' = input
      /\ removed' = removed /\ printed' = printed /\ pc' = "switch" /\ v' = EOF
      /\ words' = IF isspace(ch) THEN words ELSE words + 1
  BY DEF Func1End, Yield
<1>2. Words /\ Chars
  BY <1>1 DEF Counts
<1>3. ~Over /\ Over' /\ Uncounted = 0 /\ Uncounted' = 0 /\ Taken' = Taken
  BY <1>1 DEF Over, Uncounted, Taken
<1>4. Chars'
  BY <1>1, <1>2, <1>3 DEF Chars
<1>5. words + Open = Cardinality(StartsIn(text, Taken))
  BY <1>2, <1>3 DEF Words
<1>6. text # <<>> => words' = words + Open
  <2> SUFFICES ASSUME text # <<>>
               PROVE  words' = words + Open
    OBVIOUS
  <2>1. Taken > 0
    <3>1. text \in Seq(Byte)
      BY DEF Shape, Reading
    <3>2. Len(text) \in Nat \ {0} /\ Len(<<>>) = 0
      BY <3>1, EmptySeq
    <3> QED
      BY <1>1, <3>2 DEF Taken
  <2>2. ch = text[Taken]
    BY <2>1 DEF Shape, LastByte
  <2>3. words \in Nat
    BY CountTypes
  <2> QED
    BY <1>1, <2>1, <2>2, <2>3 DEF Open
<1>7. Words'
  BY <1>1, <1>3, <1>5, <1>6 DEF Words
<1> QED
  BY <1>4, <1>7

\* func_2 counts what it removes, func_3 what it prints.
LEMMA CountsFilters ==
  ASSUME Shape, Counts, Func2 \/ Func3Print
  PROVE  Counts'
<1> SUFFICES ASSUME EOF \notin ToSet(text')
             PROVE  Words' /\ Chars'
  BY DEF Counts
<1>1. /\ text' = text /\ input' = input /\ words' = words /\ pc = "enter" /\ pc' = "switch"
      /\ running' = running
  BY DEF Func2, Func3Print, Enter, Yield
<1>2. Words /\ Chars /\ Taken' = Taken /\ Open' = Open
  BY <1>1 DEF Counts, Taken, Open
<1>3. v' = EOF <=> v = EOF
  BY Distinct DEF Func2, Func3Print, Yield, isalpha, Letter
<1>4. Words'
  BY <1>1, <1>2, <1>3 DEF Words, Over
<1>5. removed \in Nat /\ printed \in Nat /\ Len(out) \in Nat
  BY CountTypes
<1>6. CASE Func2
  <2>1. /\ running = "func_2" /\ printed' = printed /\ out' = out
        /\ v' = IF v = EOF \/ isalpha(v) THEN v ELSE NOTHING
        /\ removed' = IF v # EOF /\ ~isalpha(v) THEN removed + 1 ELSE removed
    BY <1>6 DEF Func2, Enter, Yield
  <2>2. isalpha(v) => v \notin {EOF, NOTHING}
    BY Distinct DEF isalpha, Letter
  <2>3. Uncounted = IF v # EOF THEN 1 ELSE 0
    BY <1>1, <2>1 DEF Uncounted
  <2>4. Uncounted' = IF v' \notin {EOF, NOTHING} THEN 1 ELSE 0
    BY <1>1, <2>1 DEF Uncounted
  <2>5. removed' + printed' + Uncounted' = removed + printed + Uncounted
    <3>1. CASE v = EOF
      BY <1>5, <2>1, <2>3, <2>4, <3>1
    <3>2. CASE v # EOF /\ isalpha(v)
      BY <1>5, <2>1, <2>2, <2>3, <2>4, <3>2
    <3>3. CASE v # EOF /\ ~isalpha(v)
      BY <1>5, <2>1, <2>3, <2>4, <3>3
    <3> QED
      BY <3>1, <3>2, <3>3
  <2> QED
    BY <1>1, <1>2, <1>4, <2>1, <2>5 DEF Chars
<1>7. CASE Func3Print
  <2>1. /\ running = "func_3" /\ removed' = removed /\ printed' = printed + 1
        /\ v \notin {EOF, NOTHING} /\ v' = NOTHING
    BY <1>7 DEF Func3Print, Enter, Yield
  <2>2. v \in Letter
    BY <1>1, <2>1 DEF Shape, Turn, AtMain, AtFunc1, AtFunc2, AtFunc3, AtDone
  <2>3. Len(out') = Len(out) + 1
    <3>1. out' = Append(out, Swap[v]) /\ Swap[v] \in Swapped /\ out \in Seq(Swapped)
      BY <1>7, <2>2 DEF Func3Print, isalpha, Letter, Swapped, Shape, Reading
    <3> QED
      BY <3>1, AppendProperties
  <2>4. Uncounted = 1 /\ Uncounted' = 0
    BY <1>1, <2>1 DEF Uncounted
  <2>5. removed' + printed' + Uncounted' = removed + printed + Uncounted
    BY <1>5, <2>1, <2>4
  <2> QED
    BY <1>1, <1>2, <1>4, <2>1, <2>3, <2>5 DEF Chars
<1> QED
  BY <1>6, <1>7

\* Every step keeps the counters right.
LEMMA CountsStep == Shape /\ Counts /\ [CoroNext]_coroVars => Counts'
<1> SUFFICES ASSUME Shape, Counts, [CoroNext]_coroVars
             PROVE  Counts'
  OBVIOUS
<1>1. CASE UNCHANGED coroVars
  <2>1. /\ text' = text /\ input' = input /\ out' = out /\ pc' = pc /\ running' = running /\ v' = v
        /\ words' = words /\ removed' = removed /\ printed' = printed
    BY <1>1 DEF coroVars, func
  <2>2. Taken' = Taken /\ Open' = Open /\ (Over' <=> Over) /\ Uncounted' = Uncounted
    BY <2>1 DEF Taken, Open, Over, Uncounted
  <2> QED
    BY <2>1, <2>2 DEF Counts, Words, Chars
<1>2. CASE CoroStep
  BY <1>2, CountsQuiet, CountsRead, CountsEnd, CountsFilters DEF CoroStep
<1> QED
  BY <1>1, <1>2 DEF CoroNext, Done

\* The inductive invariant of coro.c.
CoroInv == Shape /\ Flow /\ Counts

\* For every input the control, the flow and the counters of coro.c stay in order.
THEOREM CoroInvariant == CoroSpec => []CoroInv
<1>1. CoroInit => CoroInv
  BY ShapeInit, FlowInit, CountsInit DEF CoroInv
<1>2. CoroInv /\ [CoroNext]_coroVars => CoroInv'
  BY ShapeStep, FlowStep, CountsStep DEF CoroInv
<1> QED
  BY <1>1, <1>2, PTL DEF CoroSpec

\* For every input, of any length, the letters func_1 has read are those func_3 has
\* printed and the one that is on its way, once each and in order (coro.c:119-165).
THEOREM NothingLostProved == CoroSpec => []NothingLost
<1>1. CoroInv => NothingLost
  BY DueIs DEF CoroInv, Shape, Reading, Flow, NothingLost
<1> QED
  BY <1>1, CoroInvariant, PTL

\* For every input without the byte 0xFF words, removed and printed are the counts of
\* words, of removed characters and of printed letters once all three have ended.
THEOREM CountsRightProved == CoroSpec => []CountsRight
<1>1. CoroInv => CountsRight
  <2> SUFFICES ASSUME CoroInv, pc = "done", EOF \notin ToSet(text)
               PROVE  /\ text # <<>> => words = Cardinality(WordStarts(text))
                      /\ printed = Len(out)
                      /\ removed + printed =
                           Cardinality({i \in DOMAIN text : ~isspace(text[i]) \/ (i > 1 /\ ~isspace(text[i - 1]))})
    BY DEF CountsRight
  <2>1. Shape /\ Words /\ Chars /\ Over
    BY DEF CoroInv, Counts, Over
  <2>2. input = <<>> /\ (text # <<>> => words = Cardinality(StartsIn(text, Taken)))
    BY <2>1 DEF Words
  <2>3. Taken = Len(text) /\ DOMAIN text = 1 .. Len(text)
    <3>1. text \in Seq(Byte)
      BY <2>1 DEF Shape, Reading
    <3>2. Len(text) \in Nat /\ DOMAIN text = 1 .. Len(text) /\ Len(<<>>) = 0
      BY <3>1, LenProperties
    <3> QED
      BY <2>2, <3>2 DEF Taken
  <2>4. WordStarts(text) = StartsIn(text, Taken)
    BY <2>3 DEF WordStarts, StartsIn
  <2>5. {i \in DOMAIN text : ~isspace(text[i]) \/ (i > 1 /\ ~isspace(text[i - 1]))} = ShownIn(text, Taken)
    BY <2>3 DEF ShownIn
  <2>6. Uncounted = 0 /\ removed \in Nat /\ printed \in Nat
    BY <2>1, CountTypes DEF Uncounted
  <2>7. removed + printed = Cardinality(ShownIn(text, Taken)) /\ printed = Len(out)
    <3>1. removed + printed + 0 = Cardinality(ShownIn(text, Taken)) /\ printed = Len(out)
      BY <2>1, <2>6 DEF Chars
    <3>2. removed + printed + 0 = removed + printed
      BY <2>6
    <3> QED
      BY <3>1, <3>2
  <2> QED
    BY <2>2, <2>4, <2>5, <2>7, Zenon
<1> QED
  BY <1>1, CoroInvariant, PTL

-----------------------------------------------------------------------------
\* prime.c: numbers and their divisors.

\* d divides n.
LEMMA Quotient ==
  ASSUME NEW n \in Nat, NEW d \in Nat, d > 0, n % d = 0
  PROVE  \E a \in Nat : n = d * a
<1> DEFINE a == n \div d
           r == n % d
<1>1. n = d * a + r /\ a \in Int
  OBVIOUS
<1>2. n = d * a /\ a \in Int
  <2>1. r = 0
    OBVIOUS
  <2> HIDE DEF a, r
  <2> QED
    BY <1>1, <2>1
<1>3. a \in Nat
  <2> HIDE DEF a
  <2>1. SUFFICES ASSUME a <= -1 PROVE FALSE
    BY <1>2
  <2>2. d * a <= d * (-1)
    BY <2>1, <1>2
  <2> QED
    BY <2>2, <1>2
<1> QED
  BY <1>2, <1>3

\* A multiple of e leaves no rest.
LEMMA MultipleOf ==
  ASSUME NEW e \in Nat, e > 0, NEW u \in Nat
  PROVE  (e * u) % e = 0
<1> DEFINE r == (e * u) % e
           q == (e * u) \div e
<1>1. e * u = e * q + r /\ q \in Int /\ r \in 0 .. e - 1
  OBVIOUS
<1> HIDE DEF q, r
<1>2. r = e * (u - q) /\ u - q \in Int
  BY <1>1
<1>3. u - q < 1
  <2>1. SUFFICES ASSUME u - q >= 1 PROVE FALSE
    BY <1>2
  <2>2. e * (u - q) >= e * 1
    BY <2>1, <1>2
  <2> QED
    BY <2>2, <1>1, <1>2
<1>4. u - q > -1
  <2>1. SUFFICES ASSUME u - q <= -1 PROVE FALSE
    BY <1>2
  <2>2. e * (u - q) <= e * (-1)
    BY <2>1, <1>2
  <2> QED
    BY <2>2, <1>1, <1>2
<1>5. u - q = 0
  BY <1>2, <1>3, <1>4
<1>6. r = 0
  BY <1>2, <1>5
<1> QED
  BY <1>6 DEF r

\* Divisors of a divisor are divisors.
LEMMA Divides ==
  ASSUME NEW n \in Nat, NEW d \in Nat, NEW e \in Nat, d > 0, e > 0, n % d = 0, d % e = 0
  PROVE  n % e = 0
<1>1. PICK a \in Nat : n = d * a
  BY Quotient
<1>2. PICK b \in Nat : d = e * b
  BY Quotient
<1>3. n = e * (b * a) /\ b * a \in Nat
  BY <1>1, <1>2
<1> QED
  BY <1>3, MultipleOf

\* No number from 2 to k divides n.
Survives(n, k) == \A d \in 2 .. k : n % d # 0

\* The filter of p reads from the pipe of k: there is no prime between them.
Prior(k, p) == k \in Pipes /\ k < p /\ IsPrime(k) /\ \A q \in k + 1 .. p - 1 : ~IsPrime(q)

\* The pipes are named by gen, which is 1, and by the filters, which are numbers from 2.
LEMMA PipesAre == Pipes \subseteq Nat /\ gen = 1 /\ gen \in Pipes /\ Filter \subseteq Pipes
                  /\ \A k \in Pipes : k >= 1 /\ (k = gen \/ k \in Filter)
BY PrimeAssumption DEF Pipes, gen, Filter

\* The least divisor of n above k.
LEMMA LeastDivisor ==
  ASSUME NEW n \in Nat, NEW k \in Nat, NEW m \in Nat, Survives(n, k), ~Survives(n, m)
  PROVE  \E d \in 2 .. m : d > k /\ n % d = 0 /\ Survives(n, d - 1) /\ IsPrime(d)
<1> DEFINE D == {d \in 2 .. m : n % d = 0}
<1>1. D \in SUBSET Nat /\ D # {}
  <2>1. PICK d \in 2 .. m : n % d = 0
    BY Zenon DEF Survives
  <2>2. d \in D
    BY <2>1, Zenon
  <2>3. 2 .. m \subseteq Nat
    OBVIOUS
  <2> QED
    BY <2>2, <2>3, Zenon
<1>2. PICK d \in D : \A e \in D : d <= e
  BY <1>1, LeastSlot
<1>3. d \in 2 .. m /\ n % d = 0
  BY <1>2
<1>4. d > k
  <2>1. d \notin 2 .. k
    BY <1>3, Zenon DEF Survives
  <2> QED
    BY <1>3, <2>1
<1>5. ASSUME NEW e \in 2 .. d - 1
      PROVE  n % e # 0
  <2>1. SUFFICES ASSUME n % e = 0 PROVE FALSE
    OBVIOUS
  <2>2. e \in 2 .. m /\ e < d
    BY <1>3
  <2>3. e \in D
    BY <2>1, <2>2, Zenon
  <2>4. d <= e
    BY <1>2, <2>3, Zenon
  <2> HIDE DEF D
  <2>5. d \in Nat /\ e \in Nat
    BY <1>3
  <2> QED
    BY <2>2, <2>4, <2>5
<1>6. ASSUME NEW e \in 2 .. d - 1
      PROVE  d % e # 0
  <2>1. SUFFICES ASSUME d % e = 0 PROVE FALSE
    OBVIOUS
  <2>2. d \in Nat /\ e \in Nat /\ d > 0 /\ e > 0
    BY <1>3
  <2>3. n % e = 0
    BY <1>3, <2>1, <2>2, Divides
  <2> QED
    BY <1>5, <2>3
<1>7. Survives(n, d - 1)
  BY <1>5 DEF Survives
<1>8. IsPrime(d)
  BY <1>6 DEF IsPrime
<1> QED
  BY <1>3, <1>4, <1>7, <1>8

\* What passes the filters up to k passes every number up to the next prime.
LEMMA Gap ==
  ASSUME NEW k, NEW p \in Nat, NEW n \in Nat, Prior(k, p), Survives(n, k)
  PROVE  Survives(n, p - 1)
<1>0. k \in Nat /\ k < p /\ p - 1 \in Nat
  BY PipesAre DEF Prior
<1>1. SUFFICES ASSUME ~Survives(n, p - 1) PROVE FALSE
  OBVIOUS
<1>2. PICK d \in 2 .. p - 1 : d > k /\ IsPrime(d)
  BY <1>0, <1>1, LeastDivisor
<1>3. d \in k + 1 .. p - 1
  BY <1>0, <1>2
<1> QED
  BY <1>2, <1>3 DEF Prior

\* What filter() of p lets through (prime.c:39) of what has passed the filters before it.
LEMMA Sifted ==
  ASSUME NEW k, NEW p \in Nat, NEW n \in Nat, Prior(k, p), p >= 2
  PROVE  Survives(n, p) <=> (Survives(n, k) /\ n % p # 0)
<1>0. k \in Nat /\ k < p
  BY PipesAre DEF Prior
<1>1. Survives(n, p) => Survives(n, k) /\ n % p # 0
  <2>1. p \in 2 .. p /\ \A d : d \in 2 .. k => d \in 2 .. p
    BY <1>0
  <2> QED
    BY <2>1, Zenon DEF Survives
<1>2. Survives(n, p - 1) /\ n % p # 0 => Survives(n, p)
  <2>1. \A d : d \in 2 .. p => d \in 2 .. p - 1 \/ d = p
    BY <1>0
  <2> QED
    BY <2>1, Zenon DEF Survives
<1> QED
  BY <1>1, <1>2, Gap

\* A prime passes all the filters before its own.
LEMMA PrimeSurvives ==
  ASSUME NEW n \in Nat, NEW k \in Nat, k < n, IsPrime(n)
  PROVE  Survives(n, k)
<1>1. \A d \in 2 .. k : d \in 2 .. n - 1
  OBVIOUS
<1> QED
  BY <1>1, Zenon DEF IsPrime, Survives

\* The first number that passes the filters up to k is the next prime.
LEMMA FirstIsPrime ==
  ASSUME NEW k \in Pipes, NEW m \in Nat, k < m, IsPrime(k), Survives(m, k),
         \A n \in Nat : k < n /\ n < m => ~Survives(n, k)
  PROVE  IsPrime(m) /\ Prior(k, m)
<1>0. k \in Nat /\ k >= 1 /\ m - 1 \in Nat
  BY PipesAre
<1>1. IsPrime(m)
  <2>1. SUFFICES ASSUME ~Survives(m, m - 1) PROVE FALSE
    BY DEF IsPrime, Survives
  <2>2. PICK d \in 2 .. m - 1 : d > k /\ IsPrime(d)
    BY <1>0, <2>1, LeastDivisor
  <2>3. d \in Nat /\ k < d /\ d < m
    BY <1>0, <2>2
  <2>4. Survives(d, k)
    BY <1>0, <2>2, <2>3, PrimeSurvives
  <2> QED
    BY <2>3, <2>4
<1>2. ASSUME NEW q \in k + 1 .. m - 1
      PROVE  ~IsPrime(q)
  <2>1. q \in Nat /\ k < q /\ q < m
    BY <1>0
  <2>2. ~Survives(q, k)
    BY <2>1
  <2> QED
    BY <1>0, <2>1, <2>2, PrimeSurvives
<1> QED
  BY <1>1, <1>2 DEF Prior

\* Every prime below t has a next prime.
LEMMA NextPrime ==
  ASSUME NEW k \in Pipes, NEW t \in Nat, k < t, IsPrime(k), IsPrime(t)
  PROVE  \E p \in 2 .. t : IsPrime(p) /\ Prior(k, p)
<1> DEFINE D == {p \in k + 1 .. t : IsPrime(p)}
<1>0. k \in Nat /\ k >= 1
  BY PipesAre
<1>1. D \in SUBSET Nat /\ t \in D
  BY <1>0
<1>2. PICK p \in D : \A e \in D : p <= e
  BY <1>1, LeastSlot
<1>3. p \in k + 1 .. t /\ IsPrime(p)
  BY <1>2
<1>4. ASSUME NEW q \in k + 1 .. p - 1
      PROVE  ~IsPrime(q)
  <2>1. q \in k + 1 .. t /\ q < p
    BY <1>0, <1>3
  <2>2. q \notin D
    BY <1>0, <1>2, <1>3, <2>1
  <2> QED
    BY <2>1, <2>2
<1>5. Prior(k, p)
  BY <1>0, <1>3, <1>4 DEF Prior
<1>6. p \in 2 .. t
  BY <1>0, <1>3
<1> QED
  BY <1>3, <1>5, <1>6

\* A filter reads from one pipe, and a pipe is read by one filter.
LEMMA PriorUnique ==
  ASSUME NEW k, NEW l, NEW p \in Nat, Prior(k, p), Prior(l, p)
  PROVE  k = l
<1>0. k \in Nat /\ l \in Nat /\ k < p /\ l < p /\ IsPrime(k) /\ IsPrime(l)
  BY PipesAre DEF Prior
<1>1. ~(k \in l + 1 .. p - 1) /\ ~(l \in k + 1 .. p - 1)
  BY <1>0 DEF Prior
<1> QED
  BY <1>0, <1>1

LEMMA NextUnique ==
  ASSUME NEW k, NEW p \in Nat, NEW q \in Nat, Prior(k, p), Prior(k, q), IsPrime(p), IsPrime(q)
  PROVE  p = q
<1>0. k \in Nat /\ k < p /\ k < q
  BY PipesAre DEF Prior
<1>1. ~(p \in k + 1 .. q - 1) /\ ~(q \in k + 1 .. p - 1)
  BY DEF Prior
<1> QED
  BY <1>0, <1>1

\* n is between lo and hi and passes the filters up to k.
Passes(n, lo, hi, k) == n \in 2 .. maxprime /\ lo < n /\ n < hi /\ Survives(n, k)

\* The numbers d in a pipe are these, in their order.
Carries(d, lo, hi, k) ==
  /\ d \in Seq(Nat)
  /\ \A i, j \in 1 .. Len(d) : i < j => d[i] < d[j]
  /\ \A i \in 1 .. Len(d) : Passes(d[i], lo, hi, k)
  /\ \A n : Passes(n, lo, hi, k) => \E i \in 1 .. Len(d) : d[i] = n
  /\ lo < hi

\* ReadNum takes the least number that is left, and leaves the rest.
LEMMA CarriesHead ==
  ASSUME NEW d, NEW lo \in Nat, NEW hi \in Nat, NEW k, Carries(d, lo, hi, k), d # <<>>
  PROVE  /\ Passes(Head(d), lo, hi, k)
         /\ Head(d) \in Nat
         /\ \A n : Passes(n, lo, hi, k) => n >= Head(d)
         /\ Carries(Tail(d), Head(d), hi, k)
<1>1. d \in Seq(Nat) /\ Len(d) \in Nat /\ Len(d) >= 1
  BY EmptySeq, LenProperties DEF Carries
<1> DEFINE h == d[1]
           t == Tail(d)
           L == Len(d)
           M == Len(Tail(d))
<1>2. /\ Head(d) = h /\ t \in Seq(Nat) /\ M = L - 1
      /\ \A i \in 1 .. M : t[i] = d[i + 1]
  BY <1>1, HeadTailProperties
<1>3. \A i \in 1 .. L : d[i] \in Nat
  BY <1>1, ElementOfSeq
<1>4. /\ \A i, j \in 1 .. L : i < j => d[i] < d[j]
      /\ \A i \in 1 .. L : Passes(d[i], lo, hi, k)
      /\ \A n : Passes(n, lo, hi, k) => \E i \in 1 .. L : d[i] = n
      /\ L \in Nat /\ L >= 1
  BY <1>1 DEF Carries
<1> HIDE DEF h, t, L, M
<1>5. h = d[1] /\ 1 \in 1 .. L /\ h \in Nat
  BY <1>3, <1>4 DEF h
<1>6. Passes(h, lo, hi, k)
  BY <1>4, <1>5
<1>7. \A i \in 1 .. L : i # 1 => h < d[i]
  BY <1>4, <1>5
<1>8. ASSUME NEW n, Passes(n, lo, hi, k)
      PROVE  n >= h
  <2>1. PICK i \in 1 .. L : d[i] = n
    BY <1>4, <1>8
  <2> QED
    BY <1>3, <1>5, <1>7, <2>1
<1>9. Carries(t, h, hi, k)
  <2>0. \A i \in 1 .. M : i + 1 \in 1 .. L /\ i + 1 # 1 /\ t[i] = d[i + 1]
    BY <1>2, <1>4
  <2>1. \A i, j \in 1 .. M : i < j => t[i] < t[j]
    <3>1. SUFFICES ASSUME NEW i \in 1 .. M, NEW j \in 1 .. M, i < j
                   PROVE  t[i] < t[j]
      OBVIOUS
    <3>2. i + 1 < j + 1
      BY <3>1
    <3> QED
      BY <2>0, <1>4, <3>2
  <2>2. ASSUME NEW i \in 1 .. M
        PROVE  Passes(t[i], h, hi, k)
    <3>1. Passes(d[i + 1], lo, hi, k) /\ h < d[i + 1] /\ t[i] = d[i + 1]
      BY <2>0, <1>4, <1>7
    <3> QED
      BY <3>1 DEF Passes
  <2>3. ASSUME NEW n, Passes(n, h, hi, k)
        PROVE  \E i \in 1 .. M : t[i] = n
    <3>1. Passes(n, lo, hi, k) /\ n # h
      BY <1>5, <1>6, <2>3 DEF Passes
    <3>2. PICK i \in 1 .. L : d[i] = n
      BY <1>4, <3>1
    <3>3. i # 1
      BY <1>5, <3>1, <3>2
    <3>4. i - 1 \in 1 .. M /\ (i - 1) + 1 = i
      BY <1>2, <1>4, <3>3
    <3> QED
      BY <2>0, <3>2, <3>4
  <2>4. h < hi
    BY <1>6 DEF Passes
  <2> QED
    <3>1. Len(t) = M
      BY DEF t, M
    <3> QED
      BY <1>2, <2>1, <2>2, <2>3, <2>4, <3>1 DEF Carries
<1>10. Head(d) = h /\ Tail(d) = t
  BY <1>2 DEF t
<1> QED
  BY <1>5, <1>6, <1>8, <1>9, <1>10

\* WriteNum adds the number that comes next.
LEMMA CarriesPut ==
  ASSUME NEW d, NEW lo \in Nat, NEW n \in Nat, NEW k, Carries(d, lo, n, k),
         n \in 2 .. maxprime, Survives(n, k)
  PROVE  Carries(Append(d, n), lo, n + 1, k)
<1> DEFINE L == Len(d)
           a == Append(d, n)
<1>1. d \in Seq(Nat) /\ L \in Nat
  BY LenProperties DEF Carries
<1>2. /\ a \in Seq(Nat) /\ Len(a) = L + 1
      /\ \A i \in 1 .. L : a[i] = d[i]
      /\ a[L + 1] = n
  BY <1>1, AppendProperties
<1>3. \A i \in 1 .. L : d[i] \in Nat
  BY <1>1, ElementOfSeq
<1>4. /\ \A i, j \in 1 .. L : i < j => d[i] < d[j]
      /\ \A i \in 1 .. L : Passes(d[i], lo, n, k)
      /\ \A m : Passes(m, lo, n, k) => \E i \in 1 .. L : d[i] = m
      /\ lo < n
  BY DEF Carries
<1> HIDE DEF L, a
<1>5. \A i \in 1 .. L + 1 : i \in 1 .. L \/ i = L + 1
  BY <1>1
<1>6. \A i \in 1 .. L : i \in 1 .. L + 1 /\ i # L + 1 /\ d[i] < n
  BY <1>1, <1>4 DEF Passes
<1>7. \A i, j \in 1 .. L + 1 : i < j => a[i] < a[j]
  <2>1. SUFFICES ASSUME NEW i \in 1 .. L + 1, NEW j \in 1 .. L + 1, i < j
                 PROVE  a[i] < a[j]
    OBVIOUS
  <2>2. i \in 1 .. L
    BY <1>1, <2>1
  <2> QED
    BY <1>2, <1>4, <1>5, <1>6, <2>1, <2>2
<1>8. ASSUME NEW i \in 1 .. L + 1
      PROVE  Passes(a[i], lo, n + 1, k)
  <2>1. CASE i \in 1 .. L
    <3>1. Passes(d[i], lo, n, k) /\ a[i] = d[i] /\ d[i] \in Nat
      BY <1>2, <1>3, <1>4, <2>1
    <3> QED
      BY <3>1 DEF Passes
  <2>2. CASE i = L + 1
    <3>1. a[i] = n
      BY <1>2, <2>2
    <3> QED
      BY <3>1, <1>4 DEF Passes
  <2> QED
    BY <1>5, <2>1, <2>2
<1>9. ASSUME NEW m, Passes(m, lo, n + 1, k)
      PROVE  \E i \in 1 .. L + 1 : a[i] = m
  <2>1. m = n \/ Passes(m, lo, n, k)
    BY <1>9 DEF Passes
  <2>2. CASE m = n
    BY <2>2, <1>1, <1>2
  <2>3. CASE Passes(m, lo, n, k)
    <3>1. PICK i \in 1 .. L : d[i] = m
      BY <1>4, <2>3
    <3> QED
      BY <3>1, <1>2, <1>6
  <2> QED
    BY <2>1, <2>2, <2>3
<1>10. lo < n + 1
  BY <1>4
<1>11. Carries(a, lo, n + 1, k)
  BY <1>2, <1>7, <1>8, <1>9, <1>10 DEF Carries
<1> QED
  BY <1>11 DEF a

\* Nothing passes between hi and hj.
LEMMA CarriesOn ==
  ASSUME NEW d, NEW lo \in Nat, NEW hi \in Nat, NEW hj \in Nat, NEW k, Carries(d, lo, hi, k),
         hi <= hj, \A n : ~Passes(n, hi - 1, hj, k)
  PROVE  Carries(d, lo, hj, k)
<1>1. \A n : Passes(n, lo, hi, k) <=> Passes(n, lo, hj, k)
  <2>1. \A n : Passes(n, lo, hj, k) => Passes(n, lo, hi, k) \/ Passes(n, hi - 1, hj, k)
    BY DEF Passes
  <2>2. \A n : Passes(n, lo, hi, k) => Passes(n, lo, hj, k)
    BY DEF Passes
  <2> QED
    BY <2>1, <2>2
<1>2. lo < hj
  BY DEF Carries
<1> QED
  BY <1>1, <1>2 DEF Carries

\* The pipe is empty and everything below hi has been read.
LEMMA CarriesNone ==
  ASSUME NEW d, NEW lo \in Nat, NEW hi \in Nat, NEW k, Carries(d, lo, hi, k), d = <<>>
  PROVE  \A n : ~Passes(n, lo, hi, k)
<1>1. ~ \E i \in 1 .. Len(d) : TRUE
  <2>1. Len(<<>>) = 0 /\ 1 .. 0 = {}
    OBVIOUS
  <2> QED
    BY <2>1
<1> QED
  BY <1>1 DEF Carries

\* An empty pipe, when nothing passes.
LEMMA CarriesEmpty ==
  ASSUME NEW lo \in Nat, NEW hi \in Nat, NEW k, lo < hi, \A n : ~Passes(n, lo, hi, k)
  PROVE  Carries(<<>>, lo, hi, k)
<1>1. 1 .. Len(<<>>) = {}
  OBVIOUS
<1>2. <<>> \in Seq(Nat)
  OBVIOUS
<1> QED
  BY <1>1, <1>2 DEF Carries

\* A table with x at f, which is 3 or 4, y at the other of the two and z at 5.
Tab(f, x, y, z) ==
  [g \in FD |-> IF g = f THEN x ELSE IF g = 7 - f THEN y ELSE IF g = 5 THEN z ELSE Closed]

\* The descriptors that are used.
LEMMA FdAre == FD \subseteq Nat /\ 3 \in FD /\ 4 \in FD /\ 5 \in FD /\ \A g \in FD : g >= 3
BY PrimeAssumption DEF FD

\* Reading and closing a descriptor of such a table.
LEMMA TabAt ==
  ASSUME NEW f \in {3, 4}, NEW x, NEW y, NEW z
  PROVE  /\ Tab(f, x, y, z)[f] = x /\ Tab(f, x, y, z)[7 - f] = y /\ Tab(f, x, y, z)[5] = z
         /\ [Tab(f, x, y, z) EXCEPT ![f] = Closed] = Tab(f, Closed, y, z)
         /\ [Tab(f, x, y, z) EXCEPT ![7 - f] = Closed] = Tab(f, x, Closed, z)
         /\ [Tab(f, x, y, z) EXCEPT ![5] = Closed] = Tab(f, x, y, Closed)
<1>1. f \in FD /\ 7 - f \in FD /\ 5 \in FD /\ f # 7 - f /\ f # 5 /\ 7 - f # 5
  BY FdAre
<1>2. PICK g : g = 7 - f
  OBVIOUS
<1> QED
  BY <1>1, <1>2 DEF Tab

\* The same table, seen from the other descriptor.
LEMMA TabOther ==
  ASSUME NEW f \in {3, 4}, NEW x, NEW y, NEW z
  PROVE  Tab(f, x, y, z) = Tab(7 - f, y, x, z)
BY FdAre DEF Tab

\* Who has an end in the table.
LEMMA TabHolds ==
  ASSUME NEW f \in {3, 4}, NEW x, NEW y, NEW z, NEW t, t = Tab(f, x, y, z)
  PROVE  (\E g \in FD : t[g] = x) /\ (\E g \in FD : t[g] = y) /\ (\E g \in FD : t[g] = z)
<1>1. f \in FD /\ 7 - f \in FD /\ 5 \in FD
  BY FdAre
<1> QED
  BY <1>1, TabAt

\* The two ends of a pipe differ, and neither is Closed.
LEMMA EndsDiffer == \A k, l : <<k, "r">> # Closed /\ <<k, "w">> # Closed /\ <<k, "r">> # <<l, "w">>
BY DEF Closed

\* pipe(2) takes the lowest two.
LEMMA Lowest ==
  ASSUME NEW t, NEW r \in FD, NEW w \in FD, r < w, t[r] = Closed, t[w] = Closed,
         \A g \in FD : t[g] = Closed /\ g # r => g >= w
  PROVE  MakePipe(t) = [read |-> r, write |-> w]
<1> DEFINE free == {f \in FD : t[f] = Closed}
           R == CHOOSE f \in free : \A g \in free : f <= g
           W == CHOOSE f \in free \ {R} : \A g \in free \ {R} : f <= g
<1>1. r \in free /\ w \in free /\ \A g \in free : g \in Nat /\ (g = r \/ g >= w)
  BY FdAre
<1>2. R = r
  <2> HIDE DEF free
  <2>1. \A g \in free : r <= g
    BY <1>1, FdAre
  <2>2. \A f \in free : (\A g \in free : f <= g) => f = r
    BY <1>1, FdAre
  <2> QED
    BY <1>1, <2>1, <2>2
<1> HIDE DEF R
<1>3. W = w
  <2> DEFINE rest == free \ {R}
  <2>1. w \in rest /\ \A g \in rest : g \in Nat /\ g >= w
    BY <1>1, <1>2, FdAre
  <2> HIDE DEF rest
  <2>2. \A f \in rest : (\A g \in rest : f <= g) => f = w
    BY <2>1, FdAre
  <2>3. w = CHOOSE f \in rest : \A g \in rest : f <= g
    BY <2>1, <2>2, FdAre
  <2> QED
    BY <2>3 DEF rest
<1> QED
  BY <1>2, <1>3 DEF MakePipe, R

\* The pipe of main is <<3, 4>>.
LEMMA FirstPipe ==
  /\ MakePipe(NoFds) = [read |-> 3, write |-> 4]
  /\ \A k : Opened(NoFds, [read |-> 3, write |-> 4], k) = Tab(3, <<k, "r">>, <<k, "w">>, Closed)
<1>1. MakePipe(NoFds) = [read |-> 3, write |-> 4]
  <2>1. NoFds[3] = Closed /\ NoFds[4] = Closed /\ \A g \in FD : NoFds[g] = Closed /\ g # 3 => g >= 4
    BY FdAre DEF NoFds
  <2> QED
    BY <2>1, FdAre, Lowest
<1>2. ASSUME NEW k
      PROVE  Opened(NoFds, [read |-> 3, write |-> 4], k) = Tab(3, <<k, "r">>, <<k, "w">>, Closed)
  <2> DEFINE o == [NoFds EXCEPT ![3] = <<k, "r">>, ![4] = <<k, "w">>]
             t == Tab(3, <<k, "r">>, <<k, "w">>, Closed)
  <2>1. Opened(NoFds, [read |-> 3, write |-> 4], k) = o
    BY DEF Opened
  <2>2. o = [g \in FD |-> IF g = 4 THEN <<k, "w">> ELSE IF g = 3 THEN <<k, "r">> ELSE Closed]
    BY FdAre DEF NoFds
  <2>3. t = [g \in FD |-> IF g = 3 THEN <<k, "r">> ELSE IF g = 4 THEN <<k, "w">> ELSE Closed]
    <3>1. 7 - 3 = 4
      OBVIOUS
    <3> QED
      BY <3>1 DEF Tab
  <2>4. o = t
    BY <2>2, <2>3
  <2> QED
    BY <2>1, <2>4
<1> QED
  BY <1>1, <1>2

\* A pipe of the chain takes the free one of 3 and 4 for reading, and 5 for writing.
LEMMA NextPipe ==
  ASSUME NEW f \in {3, 4}, NEW x, x # Closed, NEW k
  PROVE  /\ MakePipe(Tab(f, x, Closed, Closed)) = [read |-> 7 - f, write |-> 5]
         /\ Opened(Tab(f, x, Closed, Closed), [read |-> 7 - f, write |-> 5], k) =
              Tab(f, x, <<k, "r">>, <<k, "w">>)
<1>1. MakePipe(Tab(f, x, Closed, Closed)) = [read |-> 7 - f, write |-> 5]
  <2> DEFINE t == Tab(f, x, Closed, Closed)
  <2>1. t[7 - f] = Closed /\ t[5] = Closed /\ t[f] = x
    BY TabAt
  <2> HIDE DEF t
  <2>2. \A g \in FD : t[g] = Closed /\ g # 7 - f => g >= 5
    BY <2>1, FdAre
  <2>3. 7 - f \in FD /\ 5 \in FD /\ 7 - f < 5
    BY FdAre
  <2>4. MakePipe(t) = [read |-> 7 - f, write |-> 5]
    BY <2>1, <2>2, <2>3, Lowest
  <2> QED
    BY <2>4 DEF t
<1>2. Opened(Tab(f, x, Closed, Closed), [read |-> 7 - f, write |-> 5], k) =
        Tab(f, x, <<k, "r">>, <<k, "w">>)
  <2>1. f \in FD /\ 7 - f \in FD /\ 5 \in FD /\ f # 7 - f /\ f # 5 /\ 7 - f # 5
    BY FdAre
  <2>2. PICK g : g = 7 - f
    OBVIOUS
  <2> QED
    BY <2>1, <2>2 DEF Opened, Tab
<1> QED
  BY <1>1, <1>2

\* The last prime printed; its pipe is the last one.
Top == IF stdout = <<>> THEN gen ELSE stdout[Len(stdout)]

\* Nothing more is written into the pipe of k.
Finished(k) ==
  IF k = gen THEN line[gen] \in {"zombie", "gone"} ELSE line[k] \in {"close74", "exit77", "zombie"}

\* How far the filter of p has read, and how far a pipe has been written.
Far(p) == IF num[p] > p THEN num[p] ELSE p
Seen(p) == IF Finished(p) THEN maxprime ELSE Far(p)
Hi(k) ==
  IF k = gen THEN num[gen]
  ELSE IF Finished(k) THEN maxprime + 1
  ELSE IF line[k] = "write40" THEN num[k] ELSE Far(k) + 1

\* What has been printed.
Sieve ==
  /\ stdout \in Seq(Filter)
  /\ \A i, j \in 1 .. Len(stdout) : i < j => stdout[i] < stdout[j]
  /\ IsPrime(Top)
  /\ \A q : q \in ToSet(stdout) <=> q \in 2 .. Top /\ IsPrime(q)

\* What the variables are functions of.
Domains ==
  /\ DOMAIN fds = Proc /\ DOMAIN data = Pipes /\ DOMAIN in_pipe = Proc
  /\ DOMAIN filter_pipe = Proc /\ DOMAIN num = Proc

\* main and the generator before they close anything.
BothEnds == Tab(3, <<gen, "r">>, <<gen, "w">>, Closed)

\* main: where it is, its descriptors, and whom it has started and waited for.
ParentOK ==
  /\ in_pipe[parent] = [read |-> 3, write |-> 4] /\ in_pipe[gen] = [read |-> 3, write |-> 4]
  /\ line[parent] \in {"pipe92", "fork93", "close94", "fork101", "close102", "wait107", "zombie"}
  /\ line[parent] = "pipe92" => fds[parent] = NoFds
  /\ line[parent] \in {"fork93", "close94"} => fds[parent] = BothEnds
  /\ line[parent] \in {"fork101", "close102"} => fds[parent] = Tab(3, <<gen, "r">>, Closed, Closed)
  /\ line[parent] \in {"pipe92", "fork93"} <=> line[gen] = "none"
  /\ line[parent] \in {"pipe92", "fork93", "close94", "fork101"} <=> line[chain] = "none"
  /\ waits = (IF line[gen] = "gone" THEN 1 ELSE 0) + (IF line[chain] = "gone" THEN 1 ELSE 0)
  /\ line[parent] = "zombie" => line[gen] = "gone" /\ line[chain] = "gone"

\* The generator: it has the write end as long as it writes, and ends after maxprime.
GenOK ==
  /\ line[gen] \in {"none", "close96", "write32", "zombie", "gone"}
  /\ line[gen] = "close96" => fds[gen] = BothEnds
  /\ line[gen] = "write32" => fds[gen] = Tab(3, Closed, <<gen, "w">>, Closed)
  /\ line[gen] \in {"zombie", "gone"} => num[gen] > maxprime
  /\ num[gen] \in Nat /\ num[gen] >= 2

\* The chain: it reads from the last pipe, and ends when there is no prime left.
ChainOK ==
  LET f == in_pipe[chain].read
  IN  /\ line[chain] \in {"none", "read49", "fork62", "close64", "close66", "zombie", "gone"}
      /\ f \in {3, 4}
      /\ line[chain] = "none" => stdout = <<>> /\ f = 3
      /\ line[chain] = "read49" => fds[chain] = Tab(f, <<Top, "r">>, Closed, Closed)
      /\ line[chain] = "fork62" =>
           /\ Top # gen /\ num[chain] = Top
           /\ \E k \in Pipes : Prior(k, Top) /\ fds[chain] = Tab(f, <<k, "r">>, Closed, Closed)
      /\ line[chain] \in {"close64", "close66"} =>
           /\ filter_pipe[chain] = [read |-> 7 - f, write |-> 5]
           /\ \E k \in Pipes :
                fds[chain] = Tab(f, <<k, "r">>, <<Top, "r">>,
                                 IF line[chain] = "close64" THEN <<Top, "w">> ELSE Closed)
      /\ line[chain] \in {"zombie", "gone"} =>
           /\ \A k \in Pipes : k = Top => Finished(k)
           /\ \A n \in 2 .. maxprime : IsPrime(n) => n <= Top

\* The filter of p: it reads from the pipe of the prime before and writes to its own.
FilterOK(p) ==
  LET f == in_pipe[p].read
  IN  /\ line[p] \in {"none", "close70", "read38", "write40", "close74", "exit77", "zombie"}
      /\ num[p] \in 2 .. maxprime
      /\ line[p] = "none" => data[p] = <<>> /\ num[p] = 2
      /\ line[p] \in {"close70", "read38", "write40"} =>
           /\ f \in {3, 4} /\ filter_pipe[p] = [read |-> 7 - f, write |-> 5]
           /\ \E k \in Pipes :
                /\ Prior(k, p)
                /\ fds[p] = Tab(f, <<k, "r">>, IF line[p] = "close70" THEN <<p, "r">> ELSE Closed, <<p, "w">>)
      /\ line[p] = "write40" => num[p] > p /\ Survives(num[p], p)

Filters == \A p \in Filter : FilterOK(p)

\* The filters that run are those of the primes printed, but for one the chain is about to fork.
Started ==
  \A p \in Filter :
    line[p] # "none" <=> (IsPrime(p) /\ p <= Top /\ ~(line[chain] = "fork62" /\ p = Top))

\* A filter is done only after the one before it.
Ordered == \A p \in Filter, k \in Pipes : Prior(k, p) /\ Finished(p) => Finished(k)

\* Every pipe holds what has passed its filter and has not been read.
FilterFlow ==
  \A p \in Filter, k \in Pipes :
    line[p] # "none" /\ Prior(k, p) => Carries(data[k], Seen(p), Hi(k), k)

ChainFlow ==
  /\ line[chain] = "fork62" => \A k \in Pipes : Prior(k, Top) => Carries(data[k], Top, Hi(k), k)
  /\ line[chain] \in {"none", "read49", "close64", "close66"} =>
       \A k \in Pipes : k = Top => Carries(data[k], k, Hi(k), k)

\* The sieve as long as no Fork has failed.
Good ==
  /\ Domains /\ ParentOK /\ GenOK /\ ChainOK /\ Filters
  /\ Started /\ Ordered /\ FilterFlow /\ ChainFlow

\* After a failed Fork: the chain never prints again.
Stopped ==
  \/ line[chain] = "none" /\ line[parent] = "zombie"
  \/ line[chain] \in {"zombie", "gone"} /\ line[parent] \in {"close102", "wait107", "zombie"}

\* The inductive invariant of prime.c.
SieveInv ==
  /\ DOMAIN line = Proc /\ failed \in BOOLEAN
  /\ Sieve
  /\ failed => Stopped
  /\ ~failed => Good

\* main, the chain, the generator and the filters are different processes.
LEMMA ProcAre ==
  /\ parent \in Proc /\ chain \in Proc /\ gen \in Proc /\ Filter \subseteq Proc
  /\ parent # chain /\ parent # gen /\ chain # gen
  /\ parent \notin Filter /\ chain \notin Filter /\ gen \notin Filter
BY DEF Proc, parent, chain, gen, Filter

\* g is f with x at p.
Put(g, f, p, x) == DOMAIN g = DOMAIN f /\ \A q \in DOMAIN f : g[q] = IF q = p THEN x ELSE f[q]

\* EXCEPT, said about a domain and a value.
LEMMA Updates == ASSUME NEW f, NEW p, NEW x PROVE Put([f EXCEPT ![p] = x], f, p, x)
BY DEF Put

\* A step that does not print leaves Sieve alone.
LEMMA SieveSame == ASSUME Sieve, stdout' = stdout PROVE Sieve' /\ Top' = Top
<1>1. Top' = Top
  BY DEF Top
<1> QED
  BY <1>1 DEF Sieve

\* After a failed Fork the chain and main print and start nothing any more.
LEMMA StoppedStep ==
  ASSUME SieveInv, failed, [PrimeNext]_primeVars
  PROVE  SieveInv'
<1>1. /\ DOMAIN line = Proc /\ failed = TRUE /\ Sieve /\ Stopped
  BY DEF SieveInv
<1> USE <1>1
<1>2. SUFFICES stdout' = stdout /\ failed' = TRUE /\ DOMAIN line' = Proc /\ Stopped'
  BY SieveSame DEF SieveInv
<1>3. CASE UNCHANGED primeVars
  BY <1>3 DEF primeVars, Stopped
<1>4. ASSUME NEW p \in Proc, NEW to, p # chain, p # parent, line' = [line EXCEPT ![p] = to]
      PROVE  DOMAIN line' = Proc /\ Stopped'
  BY <1>4, ProcAre DEF Stopped
<1>5. ASSUME line' = [line EXCEPT ![parent] = "zombie"]
      PROVE  DOMAIN line' = Proc /\ Stopped'
  BY <1>5, ProcAre DEF Stopped
<1>6. CASE RunMain
  <2>1. line[parent] \in {"close102", "wait107", "zombie"}
    BY DEF Stopped
  <2>2. CASE Close(parent, in_pipe[parent].read, "close102", "wait107")
    <3>1. CASE line' = [line EXCEPT ![parent] = "zombie"]
      BY <2>2, <3>1, <1>5 DEF Close
    <3>2. CASE line' = [line EXCEPT ![parent] = "wait107"]
      BY <2>2, <3>2, ProcAre DEF Close, Stopped
    <3> QED
      BY <2>2, <3>1, <3>2 DEF Close, Exits, Goes
  <2>3. CASE MainWait
    <3>1. PICK p \in {gen, chain} : Goes(p, "zombie", "gone")
      BY <2>3 DEF MainWait
    <3> QED
      BY <2>3, <3>1, ProcAre DEF MainWait, Goes, Stopped
  <2>4. CASE MainReturns
    BY <2>4, <1>5 DEF MainReturns, Exits
  <2>5. CASE ForkFails(parent)
    BY <2>5, <1>5, <2>1 DEF ForkFails, Exits
  <2> QED
    BY <1>6, <2>1, <2>2, <2>3, <2>4, <2>5 DEF RunMain, MainPipe, ForkFrom, Close, Goes
<1>7. CASE Generator
  <2>1. stdout' = stdout /\ failed' = failed
    BY <1>7 DEF Generator, Close, Generate, GenerateEnd
  <2>2. line' = [line EXCEPT ![gen] = "zombie"] \/ line' = [line EXCEPT ![gen] = "write32"]
    BY <1>7 DEF Generator, Close, Generate, GenerateEnd, Exits, Goes, WriteNum
  <2> QED
    BY <2>1, <2>2, <1>4, ProcAre
<1>8. CASE Chain
  <2>1. line[chain] \in {"none", "zombie", "gone"}
    BY DEF Stopped
  <2> QED
    BY <1>8, <2>1 DEF Chain, ReadPrime, ChainEnd, ForkFilter, ForkFails, CloseWriteEnd, CloseReadEnd, Close, Goes
<1>9. ASSUME NEW p \in Filter, RunFilter(p)
      PROVE  stdout' = stdout /\ failed' = TRUE /\ DOMAIN line' = Proc /\ Stopped'
  <2>1. stdout' = stdout /\ failed' = failed
    BY <1>9 DEF RunFilter, Close, FilterRead, FilterEnd, FilterWrite, FilterExit
  <2>2. \E to : line' = [line EXCEPT ![p] = to]
    BY <1>9 DEF RunFilter, Close, FilterRead, FilterEnd, FilterWrite, FilterExit, Exits, Goes, WriteNum
  <2> QED
    BY <2>1, <2>2, <1>4, ProcAre
<1> QED
  BY <1>3, <1>6, <1>7, <1>8, <1>9 DEF PrimeNext

\* The last pipe is that of the generator or of the last prime.
LEMMA TopIs ==
  ASSUME Sieve
  PROVE  /\ Top \in Pipes /\ Top \in Nat /\ Top >= 1 /\ IsPrime(Top) /\ (Top = gen \/ Top \in Filter)
         /\ stdout = <<>> => Top = gen
         /\ stdout # <<>> => Top \in Filter
<1>1. CASE stdout = <<>>
  BY <1>1, PipesAre DEF Top, Sieve
<1>2. CASE stdout # <<>>
  <2>1. stdout \in Seq(Filter)
    BY DEF Sieve
  <2>2. Len(stdout) \in 1 .. Len(stdout)
    BY <1>2, <2>1, EmptySeq, LenProperties
  <2>3. stdout[Len(stdout)] \in Filter
    BY <2>1, <2>2, ElementOfSeq
  <2>4. Top \in Filter
    BY <1>2, <2>3 DEF Top
  <2> QED
    BY <1>2, <2>4, PipesAre DEF Sieve
<1> QED
  BY <1>1, <1>2

\* main starts with no pipe, no child and nothing printed.
LEMMA SieveInit == PrimeInit => SieveInv
<1> SUFFICES ASSUME PrimeInit
             PROVE  SieveInv
  OBVIOUS
<1> USE ProcAre, PipesAre
<1>0. /\ stdout = <<>> /\ Top = gen
      /\ \A p \in Proc : line[p] = (IF p = parent THEN "pipe92" ELSE "none") /\ num[p] = 2 /\ fds[p] = NoFds
      /\ \A p \in Proc : in_pipe[p] = [read |-> 3, write |-> 4]
      /\ \A k \in Pipes : data[k] = <<>>
      /\ waits = 0
  BY DEF PrimeInit, Top
<1>1. DOMAIN line = Proc /\ failed = FALSE /\ Domains
  BY DEF PrimeInit, Domains
<1>2. Sieve
  <2>1. IsPrime(gen)
    BY DEF IsPrime
  <2>2. stdout \in Seq(Filter) /\ 1 .. Len(stdout) = {} /\ DOMAIN stdout = {}
    BY <1>0
  <2>3. ToSet(stdout) = {} /\ 2 .. Top = {}
    BY <1>0, <2>2 DEF ToSet
  <2> QED
    BY <1>0, <2>1, <2>2, <2>3 DEF Sieve
<1>3. ParentOK
  BY <1>0 DEF ParentOK
<1>4. GenOK
  BY <1>0 DEF GenOK
<1>5. ChainOK
  BY <1>0 DEF ChainOK
<1>6. Filters
  BY <1>0, PrimeAssumption DEF Filters, FilterOK, Filter
<1>7. Started
  BY <1>0 DEF Started, Filter
<1>8. \A p \in Filter : ~Finished(p)
  BY <1>0 DEF Finished
<1>9. Ordered
  BY <1>8 DEF Ordered
<1>10. FilterFlow
  BY <1>0 DEF FilterFlow
<1>11. ChainFlow
  <2>1. \A n : ~Passes(n, 1, 2, gen)
    BY DEF Passes
  <2>2. Carries(<<>>, 1, 2, gen)
    BY <2>1, CarriesEmpty
  <2>3. Hi(gen) = 2
    BY <1>0 DEF Hi
  <2> QED
    BY <1>0, <2>2, <2>3 DEF ChainFlow
<1> QED
  BY <1>1, <1>2, <1>3, <1>4, <1>5, <1>6, <1>7, <1>9, <1>10, <1>11 DEF SieveInv, Good

\* A filter whose state does not change stays as it was.
LEMMA FilterSame ==
  ASSUME NEW p \in Filter, FilterOK(p), line'[p] = line[p], fds'[p] = fds[p], num'[p] = num[p],
         line[p] = "none" => data'[p] = data[p],
         line[p] # "none" => in_pipe'[p] = in_pipe[p] /\ filter_pipe'[p] = filter_pipe[p]
  PROVE  FilterOK(p)'
<1>1. CASE line[p] = "none"
  BY <1>1 DEF FilterOK
<1>2. CASE line[p] # "none"
  BY <1>2 DEF FilterOK
<1> QED
  BY <1>1, <1>2

\* Nor do the bounds of its pipes.
LEMMA SameFinished == ASSUME NEW k, line'[k] = line[k] PROVE Finished(k)' <=> Finished(k)
BY DEF Finished

LEMMA SameSeen ==
  ASSUME NEW p, line'[p] = line[p], num'[p] = num[p]
  PROVE  Far(p)' = Far(p) /\ Seen(p)' = Seen(p) /\ Hi(p)' = Hi(p)
<1>1. Finished(p)' <=> Finished(p)
  BY SameFinished
<1>2. Far(p)' = Far(p)
  BY DEF Far
<1>3. Seen(p)' = Seen(p)
  BY <1>1, <1>2 DEF Seen
<1>4. Hi(p)' = Hi(p)
  <2>1. CASE p = gen
    BY <2>1 DEF Hi
  <2>2. CASE p # gen
    BY <1>1, <1>2, <2>2 DEF Hi
  <2> QED
    BY <2>1, <2>2
<1> QED
  BY <1>2, <1>3, <1>4

\* A step that leaves the filters and the pipes alone.
Quiet ==
  /\ stdout' = stdout /\ data' = data /\ num' = num
  /\ \A p \in Filter :
       /\ line'[p] = line[p] /\ fds'[p] = fds[p]
       /\ line[p] # "none" => in_pipe'[p] = in_pipe[p] /\ filter_pipe'[p] = filter_pipe[p]
  /\ Finished(gen) => Finished(gen)'
  /\ \/ line'[chain] = line[chain]
     \/ /\ line[chain] # "fork62" /\ line'[chain] # "fork62"
        /\ line'[chain] \in {"none", "read49", "close64", "close66"} =>
             line[chain] \in {"none", "read49", "close64", "close66"}

\* Such a step keeps what is said about filters and pipes.
LEMMA QuietKeeps ==
  ASSUME Sieve, Good, Quiet
  PROVE  Filters' /\ Started' /\ Ordered' /\ FilterFlow' /\ ChainFlow'
<1> USE ProcAre, PipesAre
<1>1. Top' = Top
  BY SieveSame DEF Quiet
<1>2. \A p \in Filter : line'[p] = line[p] /\ num'[p] = num[p] /\ data'[p] = data[p]
  BY DEF Quiet
<1>3. \A k \in Pipes : Hi(k)' = Hi(k)
  <2>1. Hi(gen)' = Hi(gen)
    BY DEF Hi, Quiet
  <2>2. \A p \in Filter : Hi(p)' = Hi(p)
    BY <1>2, SameSeen
  <2> QED
    BY <2>1, <2>2
<1>4. \A p \in Filter : Seen(p)' = Seen(p)
  BY <1>2, SameSeen
<1>5. \A k \in Pipes : Finished(k) => Finished(k)'
  <2>1. Finished(gen) => Finished(gen)'
    BY DEF Quiet
  <2>2. \A p \in Filter : Finished(p)' <=> Finished(p)
    BY <1>2, SameFinished
  <2> QED
    BY <2>1, <2>2
<1>6. Filters'
  <2>1. SUFFICES ASSUME NEW p \in Filter
                 PROVE  FilterOK(p)'
    BY DEF Filters
  <2> QED
    BY FilterSame DEF Quiet, Good, Filters
<1>7. Started'
  <2>1. line'[chain] = "fork62" <=> line[chain] = "fork62"
    BY DEF Quiet
  <2> QED
    BY <1>1, <1>2, <2>1 DEF Started, Good
<1>8. Ordered'
  <2>1. \A p \in Filter : Finished(p)' <=> Finished(p)
    BY <1>2, SameFinished
  <2> QED
    BY <1>5, <2>1 DEF Ordered, Good
<1>9. FilterFlow'
  <2>1. SUFFICES ASSUME NEW p \in Filter, NEW k \in Pipes, line'[p] # "none", Prior(k, p)
                 PROVE  Carries(data'[k], Seen(p)', Hi(k)', k)
    BY DEF FilterFlow
  <2>2. Carries(data[k], Seen(p), Hi(k), k)
    BY <1>2, <2>1 DEF FilterFlow, Good
  <2> QED
    BY <1>3, <1>4, <2>2 DEF Quiet
<1>10. ChainFlow'
  <2>1. ASSUME line'[chain] = "fork62", NEW k \in Pipes, Prior(k, Top)
        PROVE  Carries(data'[k], Top, Hi(k)', k)
    <3>1. line[chain] = "fork62"
      BY <2>1 DEF Quiet
    <3>2. Carries(data[k], Top, Hi(k), k)
      BY <2>1, <3>1 DEF ChainFlow, Good
    <3> QED
      BY <1>3, <3>2 DEF Quiet
  <2>2. ASSUME line'[chain] \in {"none", "read49", "close64", "close66"}, NEW k \in Pipes, k = Top
        PROVE  Carries(data'[k], k, Hi(k)', k)
    <3>1. line[chain] \in {"none", "read49", "close64", "close66"}
      BY <2>2 DEF Quiet
    <3>2. Carries(data[k], k, Hi(k), k)
      BY <2>2, <3>1 DEF ChainFlow, Good
    <3> QED
      BY <1>3, <3>2 DEF Quiet
  <2> QED
    BY <1>1, <2>1, <2>2 DEF ChainFlow
<1> QED
  BY <1>6, <1>7, <1>8, <1>9, <1>10

\* The table of main and the generator.
LEMMA Tab34 ==
  ASSUME NEW x, NEW y, NEW z
  PROVE  /\ Tab(3, x, y, z)[3] = x /\ Tab(3, x, y, z)[4] = y
         /\ [Tab(3, x, y, z) EXCEPT ![3] = Closed] = Tab(3, Closed, y, z)
         /\ [Tab(3, x, y, z) EXCEPT ![4] = Closed] = Tab(3, x, Closed, z)
<1>1. 3 \in {3, 4} /\ 7 - 3 = 4
  OBVIOUS
<1> QED
  BY <1>1, TabAt

\* Close of an open descriptor (prime.c:14-20).
LEMMA CloseDoes ==
  ASSUME NEW p, NEW f, NEW from, NEW to, Close(p, f, from, to), fds[p][f] # Closed,
         p \in DOMAIN fds
  PROVE  /\ line[p] = from /\ Put(line', line, p, to)
         /\ Put(fds', fds, p, [fds[p] EXCEPT ![f] = Closed])
         /\ UNCHANGED <<data, pipeVars, stdout, waits, failed>>
<1>1. /\ line[p] = from /\ line' = [line EXCEPT ![p] = to]
      /\ fds' = [fds EXCEPT ![p][f] = Closed]
      /\ UNCHANGED <<data, pipeVars, stdout, waits, failed>>
  BY DEF Close, Goes
<1>2. fds' = [fds EXCEPT ![p] = [fds[p] EXCEPT ![f] = Closed]]
  BY <1>1
<1>3. Put(line', line, p, to)
  BY <1>1, Updates, Zenon
<1>4. Put(fds', fds, p, [fds[p] EXCEPT ![f] = Closed])
  BY <1>2, Updates, Zenon
<1> QED
  BY <1>1, <1>3, <1>4, Zenon

\* The outcome of a step when no Fork fails.
Kept == DOMAIN line' = Proc /\ failed' = FALSE /\ Sieve' /\ Good'

\* As long as the reader of a pipe goes on, the end of the pipe means that its writer is done.
LEMMA WriterDone ==
  ASSUME Sieve, Good, line[chain] # "none", NEW k \in Pipes, IsPrime(k), k <= Top,
         ~(line[chain] = "fork62" /\ k = Top), Holders(<<k, "w">>) = {}
  PROVE  Finished(k)
<1> USE ProcAre, PipesAre
<1>1. CASE k = gen
  <2>1. line[gen] # "none"
    BY DEF Good, ParentOK
  <2>2. ASSUME line[gen] \in {"close96", "write32"}
        PROVE  FALSE
    <3>1. \E g \in FD : fds[gen][g] = <<gen, "w">>
      BY <2>2, TabHolds DEF Good, GenOK, BothEnds
    <3> QED
      BY <1>1, <3>1 DEF Holders
  <2> QED
    BY <1>1, <2>1, <2>2 DEF Good, GenOK, Finished
<1>2. CASE k \in Filter
  <2>1. line[k] # "none" /\ FilterOK(k)
    BY <1>2 DEF Good, Started, Filters
  <2>2. ASSUME line[k] \in {"close70", "read38", "write40"}
        PROVE  FALSE
    <3> DEFINE f == in_pipe[k].read
    <3>1. PICK l, y : fds[k] = Tab(f, <<l, "r">>, y, <<k, "w">>) /\ f \in {3, 4}
      BY <2>1, <2>2 DEF FilterOK
    <3> HIDE DEF f
    <3>2. \E g \in FD : fds[k][g] = <<k, "w">>
      BY <3>1, TabHolds
    <3> QED
      BY <1>2, <3>2 DEF Holders
  <2> QED
    BY <1>2, <2>1, <2>2 DEF FilterOK, Finished
<1> QED
  BY <1>1, <1>2

\* main up to the fork of the chain, and its waits.
LEMMA MainStep ==
  ASSUME DOMAIN line = Proc, ~failed, Sieve, Good, RunMain, ~ForkFails(parent)
  PROVE  Kept
<1> USE ProcAre, PipesAre
<1>0. Domains /\ ParentOK /\ GenOK /\ ChainOK /\ Filters
  BY DEF Good
<1>1. /\ failed' = failed /\ stdout' = stdout /\ data' = data /\ num' = num /\ filter_pipe' = filter_pipe
  BY DEF RunMain, MainPipe, ForkFrom, Close, MainWait, MainReturns, pipeVars
<1>2. Sieve' /\ Top' = Top
  BY <1>1, SieveSame
<1>3. CASE MainPipe
  <2>1. line[parent] = "pipe92" /\ Put(line', line, parent, "fork93")
    BY <1>3, Updates DEF MainPipe, Goes
  <2>2. fds[parent] = NoFds /\ line[gen] = "none" /\ line[chain] = "none"
    BY <1>0, <2>1 DEF ParentOK
  <2>3. Put(fds', fds, parent, BothEnds)
    <3>1. fds' = [fds EXCEPT ![parent] = Opened(fds[parent], MakePipe(fds[parent]), gen)]
      BY <1>3 DEF MainPipe
    <3>2. Opened(fds[parent], MakePipe(fds[parent]), gen) = BothEnds
      BY <2>2, FirstPipe DEF BothEnds
    <3> QED
      BY <3>1, <3>2, Updates
  <2>4. in_pipe' = [p \in Proc |-> [read |-> 3, write |-> 4]]
    BY <1>3, <2>2, FirstPipe DEF MainPipe
  <2>5. \A p \in Filter : line[p] = "none"
    BY <1>0, <2>2, TopIs DEF ChainOK, Good, Started, Filter
  <2>6. Quiet
    BY <1>0, <1>1, <2>1, <2>2, <2>3, <2>5 DEF Quiet, Put, Domains, Finished
  <2>7. Domains'
    BY <1>0, <1>1, <2>3, <2>4 DEF Domains, Put
  <2>8. ParentOK'
    BY <1>0, <1>1, <1>3, <2>1, <2>2, <2>3, <2>4 DEF ParentOK, Domains, Put, MainPipe
  <2>9. GenOK' /\ ChainOK'
    <3>1. line'[gen] = "none" /\ line'[chain] = "none" /\ in_pipe'[chain].read = 3
      BY <2>1, <2>2, <2>4 DEF Put
    <3> QED
      BY <1>0, <1>1, <3>1, <2>2 DEF GenOK, ChainOK
  <2>10. DOMAIN line' = Proc
    BY <2>1 DEF Put
  <2> QED
    BY <1>1, <1>2, <2>6, <2>7, <2>8, <2>9, <2>10, QuietKeeps DEF Kept, Good
<1>4. CASE ForkFrom(gen, "fork93", "close94", "close96")
  <2>1. /\ line[parent] = "fork93" /\ DOMAIN line' = Proc
        /\ line'[parent] = "close94" /\ line'[gen] = "close96"
        /\ \A p \in Proc : p # parent /\ p # gen => line'[p] = line[p]
    BY <1>4 DEF ForkFrom
  <2>2. fds[parent] = BothEnds /\ line[gen] = "none" /\ line[chain] = "none"
    BY <1>0, <2>1 DEF ParentOK
  <2>3. Put(fds', fds, gen, BothEnds)
    BY <1>4, <2>2, Updates DEF ForkFrom
  <2>4. in_pipe' = in_pipe /\ waits' = waits
    BY <1>4 DEF ForkFrom, pipeVars
  <2>5. Quiet
    BY <1>0, <1>1, <2>1, <2>2, <2>3, <2>4 DEF Quiet, Put, Domains, Finished
  <2>6. Domains'
    BY <1>0, <1>1, <2>3, <2>4 DEF Domains, Put
  <2>7. ParentOK'
    <3>1. fds'[parent] = BothEnds
      BY <1>0, <2>2, <2>3 DEF Put, Domains
    <3> QED
      BY <1>0, <2>1, <2>2, <2>4, <3>1 DEF ParentOK
  <2>8. GenOK'
    BY <1>0, <1>1, <2>1, <2>2, <2>3 DEF GenOK, Put, Domains
  <2>9. ChainOK'
    <3>1. line'[chain] = "none"
      BY <2>1, <2>2
    <3> QED
      BY <1>0, <1>1, <2>2, <2>4, <3>1 DEF ChainOK
  <2> QED
    BY <1>1, <1>2, <2>1, <2>5, <2>6, <2>7, <2>8, <2>9, QuietKeeps DEF Kept, Good
<1>5. CASE Close(parent, in_pipe[parent].write, "close94", "fork101")
  <2>1. in_pipe[parent].write = 4 /\ line[parent] = "close94"
    BY <1>0, <1>5 DEF ParentOK, Close
  <2>2. fds[parent] = BothEnds /\ line[gen] # "none" /\ line[chain] = "none"
    BY <1>0, <2>1 DEF ParentOK
  <2>3. fds[parent][4] # Closed /\ [fds[parent] EXCEPT ![4] = Closed] = Tab(3, <<gen, "r">>, Closed, Closed)
    BY <2>2, Tab34, EndsDiffer DEF BothEnds
  <2>4. /\ Put(line', line, parent, "fork101")
        /\ Put(fds', fds, parent, Tab(3, <<gen, "r">>, Closed, Closed))
        /\ in_pipe' = in_pipe /\ waits' = waits
    BY <1>0, <1>5, <2>1, <2>3, CloseDoes DEF Domains, pipeVars
  <2>5. Quiet
    BY <1>0, <1>1, <2>1, <2>2, <2>4 DEF Quiet, Put, Domains, Finished
  <2>6. Domains' /\ DOMAIN line' = Proc
    BY <1>0, <1>1, <2>4 DEF Domains, Put
  <2>7. ParentOK'
    BY <1>0, <2>1, <2>2, <2>4 DEF ParentOK, Put, Domains
  <2>8. GenOK'
    BY <1>0, <1>1, <2>4 DEF GenOK, Put, Domains
  <2>9. ChainOK'
    <3>1. line'[chain] = "none"
      BY <2>2, <2>4 DEF Put
    <3> QED
      BY <1>0, <1>1, <2>2, <2>4, <3>1 DEF ChainOK
  <2> QED
    BY <1>1, <1>2, <2>5, <2>6, <2>7, <2>8, <2>9, QuietKeeps DEF Kept, Good
<1>6. CASE ForkFrom(chain, "fork101", "close102", "read49")
  <2>1. /\ line[parent] = "fork101" /\ DOMAIN line' = Proc
        /\ line'[parent] = "close102" /\ line'[chain] = "read49"
        /\ \A p \in Proc : p # parent /\ p # chain => line'[p] = line[p]
    BY <1>6 DEF ForkFrom
  <2>2. fds[parent] = Tab(3, <<gen, "r">>, Closed, Closed) /\ line[gen] # "none" /\ line[chain] = "none"
    BY <1>0, <2>1 DEF ParentOK
  <2>3. Put(fds', fds, chain, Tab(3, <<gen, "r">>, Closed, Closed))
    BY <1>6, <2>2, Updates DEF ForkFrom
  <2>4. in_pipe' = in_pipe /\ waits' = waits
    BY <1>6 DEF ForkFrom, pipeVars
  <2>5. Quiet
    BY <1>0, <1>1, <2>1, <2>2, <2>3, <2>4 DEF Quiet, Put, Domains, Finished
  <2>6. Domains'
    BY <1>0, <1>1, <2>3, <2>4 DEF Domains, Put
  <2>7. ParentOK'
    <3>1. fds'[parent] = fds[parent] /\ line'[gen] = line[gen]
      BY <1>0, <2>1, <2>3 DEF Put, Domains
    <3> QED
      BY <1>0, <2>1, <2>2, <2>4, <3>1 DEF ParentOK
  <2>8. GenOK'
    BY <1>0, <1>1, <2>1, <2>3 DEF GenOK, Put, Domains
  <2>9. ChainOK'
    <3>1. stdout = <<>> /\ in_pipe[chain].read = 3 /\ Top = gen
      BY <1>0, <2>2, TopIs DEF ChainOK
    <3>2. fds'[chain] = Tab(3, <<gen, "r">>, Closed, Closed)
      BY <1>0, <2>3 DEF Put, Domains
    <3> QED
      BY <1>2, <2>1, <2>4, <3>1, <3>2 DEF ChainOK
  <2> QED
    BY <1>1, <1>2, <2>1, <2>5, <2>6, <2>7, <2>8, <2>9, QuietKeeps DEF Kept, Good
<1>7. ASSUME line[parent] \in {"close102", "wait107"}, line[parent] = "wait107" => waits = 2,
             NEW t, NEW to \in {"wait107", "zombie"}, line[parent] = "wait107" <=> to = "zombie",
             Put(line', line, parent, to), Put(fds', fds, parent, t),
             in_pipe' = in_pipe, waits' = waits
      PROVE  Kept
  <2>1. line[gen] # "none" /\ line[chain] # "none"
    BY <1>0, <1>7 DEF ParentOK
  <2>2. line'[gen] = line[gen] /\ line'[chain] = line[chain] /\ line'[parent] = to
    BY <1>7 DEF Put
  <2>3. to = "zombie" => line[gen] = "gone" /\ line[chain] = "gone"
    BY <1>0, <1>7 DEF ParentOK
  <2>5. Quiet
    BY <1>0, <1>1, <1>7, <2>2 DEF Quiet, Put, Domains, Finished
  <2>6. Domains' /\ DOMAIN line' = Proc
    BY <1>0, <1>1, <1>7 DEF Domains, Put
  <2>7. ParentOK'
    BY <1>0, <1>7, <2>1, <2>2, <2>3 DEF ParentOK
  <2>8. fds'[gen] = fds[gen] /\ fds'[chain] = fds[chain]
    BY <1>0, <1>7 DEF Put, Domains
  <2>9. GenOK'
    BY <1>0, <1>1, <2>2, <2>8 DEF GenOK
  <2>10. \A k : k = Top' /\ k \in Pipes /\ Finished(k) => Finished(k)'
    <3>1. \A k \in Pipes : line'[k] = line[k]
      BY <1>7 DEF Put, Proc
    <3> QED
      BY <3>1, SameFinished
  <2>11. ChainOK'
    BY <1>0, <1>1, <1>2, <1>7, <2>2, <2>8, <2>10 DEF ChainOK
  <2> QED
    BY <1>1, <1>2, <2>5, <2>6, <2>7, <2>9, <2>11, QuietKeeps DEF Kept, Good
<1>8. CASE Close(parent, in_pipe[parent].read, "close102", "wait107")
  <2>1. in_pipe[parent].read = 3 /\ line[parent] = "close102"
    BY <1>0, <1>8 DEF ParentOK, Close
  <2>2. fds[parent] = Tab(3, <<gen, "r">>, Closed, Closed)
    BY <1>0, <2>1 DEF ParentOK
  <2>3. fds[parent][3] # Closed
    BY <2>2, Tab34, EndsDiffer
  <2>4. /\ Put(line', line, parent, "wait107")
        /\ Put(fds', fds, parent, [fds[parent] EXCEPT ![3] = Closed])
        /\ in_pipe' = in_pipe /\ waits' = waits
    BY <1>0, <1>8, <2>1, <2>3, CloseDoes DEF Domains, pipeVars
  <2> QED
    BY <2>1, <2>4, <1>7
<1>9. CASE MainReturns
  <2>1. /\ line[parent] = "wait107" /\ waits = 2 /\ in_pipe' = in_pipe /\ waits' = waits
        /\ Put(line', line, parent, "zombie") /\ Put(fds', fds, parent, NoFds)
    BY <1>9, Updates DEF MainReturns, Exits, pipeVars
  <2> QED
    BY <2>1, <1>7
<1>10. CASE MainWait
  <2>1. PICK p \in {gen, chain} : Goes(p, "zombie", "gone")
    BY <1>10 DEF MainWait
  <2>2. line[p] = "zombie" /\ Put(line', line, p, "gone")
    BY <2>1, Updates DEF Goes
  <2>3. line[parent] = "wait107" /\ in_pipe' = in_pipe /\ waits' = waits + 1 /\ fds' = fds
    BY <1>10 DEF MainWait, pipeVars
  <2>4. line'[parent] = line[parent]
    BY <2>2 DEF Put
  <2>5. Quiet
    BY <1>0, <1>1, <2>2, <2>3 DEF Quiet, Put, Domains, Finished
  <2>6. Domains' /\ DOMAIN line' = Proc
    BY <1>0, <1>1, <2>2, <2>3 DEF Domains, Put
  <2>7. ParentOK'
    <3>1. CASE p = gen
      <4>1. line[gen] = "zombie" /\ line'[gen] = "gone" /\ line'[chain] = line[chain]
        BY <2>2, <3>1 DEF Put
      <4> QED
        BY <1>0, <2>3, <2>4, <4>1 DEF ParentOK
    <3>2. CASE p = chain
      <4>1. line[chain] = "zombie" /\ line'[chain] = "gone" /\ line'[gen] = line[gen]
        BY <2>2, <3>2 DEF Put
      <4> QED
        BY <1>0, <2>3, <2>4, <4>1 DEF ParentOK
    <3> QED
      BY <3>1, <3>2
  <2>9. GenOK'
    <3>1. line'[gen] = line[gen] \/ (line[gen] = "zombie" /\ line'[gen] = "gone")
      BY <2>2 DEF Put
    <3> QED
      BY <1>0, <1>1, <2>3, <3>1 DEF GenOK
  <2>10. \A k : k = Top' /\ k \in Pipes /\ Finished(k) => Finished(k)'
    BY <2>2 DEF Put, Finished, Proc
  <2>11. ChainOK'
    <3>1. line'[chain] = line[chain] \/ (line[chain] = "zombie" /\ line'[chain] = "gone")
      BY <2>2 DEF Put
    <3> QED
      BY <1>0, <1>1, <1>2, <2>3, <3>1, <2>10 DEF ChainOK
  <2> QED
    BY <1>1, <1>2, <2>5, <2>6, <2>7, <2>9, <2>11, QuietKeeps DEF Kept, Good
<1> QED
  BY <1>3, <1>4, <1>5, <1>6, <1>8, <1>9, <1>10 DEF RunMain

\* The bounds of Flow are numbers, and a pipe nobody writes to any more was written to its end.
LEMMA Bounds ==
  ASSUME Good
  PROVE  /\ \A k \in Pipes : Hi(k) \in Nat /\ (Finished(k) => Hi(k) > maxprime)
         /\ \A p \in Filter : Far(p) \in Nat /\ p <= Far(p) /\ Far(p) <= maxprime /\ Far(p) <= Seen(p) /\ Seen(p) \in Nat
<1> USE PrimeAssumption, PipesAre
<1>1. ASSUME NEW p \in Filter
      PROVE  /\ Far(p) \in Nat /\ p <= Far(p) /\ Far(p) <= maxprime
             /\ Far(p) <= Seen(p) /\ Seen(p) \in Nat
             /\ num[p] \in Nat
  <2>1. num[p] \in 2 .. maxprime /\ p \in 2 .. maxprime
    BY DEF Good, Filters, FilterOK, Filter
  <2>2. Far(p) \in Nat /\ p <= Far(p) /\ Far(p) <= maxprime
    BY <2>1 DEF Far
  <2> QED
    BY <2>1, <2>2 DEF Seen
<1>2. ASSUME NEW k \in Pipes
      PROVE  Hi(k) \in Nat /\ (Finished(k) => Hi(k) > maxprime)
  <2>1. CASE k = gen
    BY <2>1 DEF Hi, Good, GenOK, Finished
  <2>2. CASE k # gen
    <3>1. k \in Filter
      BY <2>2
    <3> QED
      BY <2>2, <3>1, <1>1 DEF Hi
  <2> QED
    BY <2>1, <2>2
<1> QED
  BY <1>1, <1>2

\* As long as a process writes to a pipe somebody can read from it.
LEMMA ReaderThere ==
  ASSUME Sieve, Good, NEW k \in Pipes, IsPrime(k), k <= Top, line[k] # "none", ~Finished(k)
  PROVE  Holders(<<k, "r">>) # {}
<1> USE ProcAre, PipesAre
<1>0. Top \in Pipes /\ Top \in Nat /\ IsPrime(Top) /\ (Top = gen \/ Top \in Filter)
  BY TopIs
<1>1. SUFFICES ASSUME TRUE
               PROVE  \E p \in Proc : \E g \in FD : fds[p][g] = <<k, "r">>
  BY DEF Holders
<1>2. CASE k < Top
  <2>1. PICK p \in 2 .. Top : IsPrime(p) /\ Prior(k, p)
    BY <1>0, <1>2, NextPrime
  <2>2. Top \in Filter /\ p \in Filter /\ p \in Nat /\ p <= Top
    BY <1>0, <1>2, PrimeAssumption DEF Filter
  <2>3. CASE line[chain] = "fork62" /\ p = Top
    <3> DEFINE f == in_pipe[chain].read
    <3>1. PICK l \in Pipes : Prior(l, Top) /\ fds[chain] = Tab(f, <<l, "r">>, Closed, Closed) /\ f \in {3, 4}
      BY <2>3 DEF Good, ChainOK
    <3> HIDE DEF f
    <3>2. l = k
      BY <2>1, <2>2, <2>3, <3>1, PriorUnique
    <3>3. \E g \in FD : fds[chain][g] = <<k, "r">>
      BY <3>1, <3>2, TabHolds
    <3> QED
      BY <3>3
  <2>4. CASE ~(line[chain] = "fork62" /\ p = Top)
    <3>1. line[p] # "none" /\ FilterOK(p)
      BY <2>1, <2>2, <2>4 DEF Good, Started, Filters
    <3>2. ~Finished(p)
      BY <2>1, <2>2 DEF Good, Ordered
    <3>3. line[p] \in {"close70", "read38", "write40"}
      BY <2>2, <3>1, <3>2 DEF FilterOK, Finished
    <3> DEFINE f == in_pipe[p].read
    <3>4. PICK l, y : l \in Pipes /\ Prior(l, p) /\ fds[p] = Tab(f, <<l, "r">>, y, <<p, "w">>) /\ f \in {3, 4}
      BY <3>1, <3>3 DEF FilterOK
    <3> HIDE DEF f
    <3>5. l = k
      BY <2>1, <2>2, <3>4, PriorUnique
    <3>6. \E g \in FD : fds[p][g] = <<k, "r">>
      BY <3>4, <3>5, TabHolds
    <3> QED
      BY <2>2, <3>6
  <2> QED
    BY <2>3, <2>4
<1>3. CASE k = Top
  <2>1. ChainOK
    BY DEF Good
  <2>2. CASE line[chain] = "none"
    <3>1. k = gen
      BY <1>3, <2>1, <2>2, TopIs DEF ChainOK
    <3>2. line[parent] \in {"close94", "fork101"}
      BY <2>2, <3>1 DEF Good, ParentOK
    <3>3. PICK y : fds[parent] = Tab(3, <<gen, "r">>, y, Closed)
      BY <3>2 DEF Good, ParentOK, BothEnds
    <3>4. \E g \in FD : fds[parent][g] = <<k, "r">>
      BY <3>1, <3>3, TabHolds
    <3> QED
      BY <3>4
  <2>3. CASE line[chain] = "read49"
    <3> DEFINE f == in_pipe[chain].read
    <3>1. fds[chain] = Tab(f, <<k, "r">>, Closed, Closed) /\ f \in {3, 4}
      BY <1>3, <2>1, <2>3 DEF ChainOK
    <3> HIDE DEF f
    <3>2. \E g \in FD : fds[chain][g] = <<k, "r">>
      BY <3>1, TabHolds
    <3> QED
      BY <3>2
  <2>4. CASE line[chain] = "fork62"
    <3>1. Top \in Filter
      BY <1>0, <2>1, <2>4 DEF ChainOK
    <3> QED
      BY <1>3, <2>4, <3>1 DEF Good, Started
  <2>5. CASE line[chain] \in {"close64", "close66"}
    <3> DEFINE f == in_pipe[chain].read
    <3>1. PICK l, z : fds[chain] = Tab(f, <<l, "r">>, <<k, "r">>, z) /\ f \in {3, 4}
      BY <1>3, <2>1, <2>5 DEF ChainOK
    <3> HIDE DEF f
    <3>2. \E g \in FD : fds[chain][g] = <<k, "r">>
      BY <3>1, TabHolds
    <3> QED
      BY <3>2
  <2>6. CASE line[chain] \in {"zombie", "gone"}
    BY <1>3, <2>1, <2>6 DEF ChainOK
  <2> QED
    BY <2>1, <2>2, <2>3, <2>4, <2>5, <2>6 DEF ChainOK
<1> QED
  BY <1>0, <1>2, <1>3

\* The chain closes its descriptors, or meets the end of the last pipe (prime.c:49-67).
LEMMA ChainCloses ==
  ASSUME DOMAIN line = Proc, ~failed, Sieve, Good, CloseWriteEnd \/ CloseReadEnd \/ ChainEnd
  PROVE  Kept
<1> USE ProcAre, PipesAre
<1> DEFINE f == in_pipe[chain].read
<1>0. Domains /\ ParentOK /\ GenOK /\ ChainOK /\ Filters /\ f \in {3, 4}
  BY DEF Good, ChainOK
<1>1. /\ failed' = failed /\ stdout' = stdout /\ data' = data /\ num' = num /\ filter_pipe' = filter_pipe
      /\ waits' = waits
  BY DEF CloseWriteEnd, CloseReadEnd, ChainEnd, Close, pipeVars
<1>2. Sieve' /\ Top' = Top
  BY <1>1, SieveSame
<1>3. ASSUME NEW to, NEW t, Put(line', line, chain, to), Put(fds', fds, chain, t),
             \A p \in Proc : p # chain => in_pipe'[p] = in_pipe[p], DOMAIN in_pipe' = Proc,
             line[chain] \in {"read49", "close64", "close66"}, to \in {"close66", "read49", "zombie"}
      PROVE  /\ Quiet /\ ParentOK' /\ GenOK' /\ Domains' /\ DOMAIN line' = Proc
             /\ line'[chain] = to /\ fds'[chain] = t
  <2>1. line'[chain] = to /\ fds'[chain] = t /\ \A p \in Proc : p # chain => line'[p] = line[p] /\ fds'[p] = fds[p]
    BY <1>0, <1>3 DEF Put, Domains
  <2>2. Quiet
    BY <1>1, <1>3, <2>1 DEF Quiet, Finished
  <2>3. ParentOK'
    BY <1>0, <1>1, <1>3, <2>1 DEF ParentOK
  <2>4. GenOK'
    BY <1>0, <1>1, <2>1 DEF GenOK
  <2>5. Domains' /\ DOMAIN line' = Proc
    BY <1>0, <1>1, <1>3 DEF Put, Domains
  <2> QED
    BY <2>1, <2>2, <2>3, <2>4, <2>5
<1>4. CASE CloseWriteEnd
  <2>1. line[chain] = "close64" /\ filter_pipe[chain] = [read |-> 7 - f, write |-> 5]
    BY <1>0, <1>4 DEF CloseWriteEnd, Close, ChainOK
  <2>2. PICK k \in Pipes : fds[chain] = Tab(f, <<k, "r">>, <<Top, "r">>, <<Top, "w">>)
    BY <1>0, <2>1 DEF ChainOK
  <2>3. fds[chain][5] # Closed /\ [fds[chain] EXCEPT ![5] = Closed] = Tab(f, <<k, "r">>, <<Top, "r">>, Closed)
    <3> HIDE DEF f
    <3>1. PICK x, y, z : x = <<k, "r">> /\ y = <<Top, "r">> /\ z = <<Top, "w">>
      OBVIOUS
    <3>2. fds[chain] = Tab(f, x, y, z) /\ z # Closed
      BY <2>2, <3>1, EndsDiffer
    <3>3. fds[chain][5] = z /\ [fds[chain] EXCEPT ![5] = Closed] = Tab(f, x, y, Closed)
      BY <1>0, <3>2, TabAt
    <3> QED
      BY <3>1, <3>2, <3>3, Zenon
  <2>4. /\ Put(line', line, chain, "close66")
        /\ Put(fds', fds, chain, Tab(f, <<k, "r">>, <<Top, "r">>, Closed))
        /\ in_pipe' = in_pipe
    BY <1>0, <1>4, <2>1, <2>3, CloseDoes DEF CloseWriteEnd, Domains, pipeVars
  <2>5. /\ Quiet /\ ParentOK' /\ GenOK' /\ Domains' /\ DOMAIN line' = Proc
        /\ line'[chain] = "close66" /\ fds'[chain] = Tab(f, <<k, "r">>, <<Top, "r">>, Closed)
    BY <1>0, <1>3, <2>1, <2>4 DEF Domains
  <2>6. ChainOK'
    BY <1>0, <1>1, <1>2, <2>1, <2>4, <2>5 DEF ChainOK
  <2> QED
    BY <1>1, <1>2, <2>5, <2>6, QuietKeeps DEF Kept, Good
<1>5. CASE CloseReadEnd
  <2>1. line[chain] = "close66" /\ filter_pipe[chain] = [read |-> 7 - f, write |-> 5]
    BY <1>0, <1>5 DEF CloseReadEnd, Goes, ChainOK
  <2>2. PICK k \in Pipes : fds[chain] = Tab(f, <<k, "r">>, <<Top, "r">>, Closed)
    BY <1>0, <2>1 DEF ChainOK
  <2>3. [fds[chain] EXCEPT ![f] = Closed] = Tab(7 - f, <<Top, "r">>, Closed, Closed)
    <3> HIDE DEF f
    <3>1. [fds[chain] EXCEPT ![f] = Closed] = Tab(f, Closed, <<Top, "r">>, Closed)
      BY <1>0, <2>2, TabAt
    <3> QED
      BY <1>0, <3>1, TabOther
  <2>4. /\ Put(line', line, chain, "read49")
        /\ Put(fds', fds, chain, Tab(7 - f, <<Top, "r">>, Closed, Closed))
        /\ Put(in_pipe', in_pipe, chain, [read |-> 7 - f, write |-> 5])
    <3>1. /\ line' = [line EXCEPT ![chain] = "read49"]
          /\ fds' = [fds EXCEPT ![chain] = [fds[chain] EXCEPT ![f] = Closed]]
          /\ in_pipe' = [in_pipe EXCEPT ![chain] = [read |-> 7 - f, write |-> 5]]
      BY <1>0, <1>5, <2>1 DEF CloseReadEnd, Goes, Domains
    <3> HIDE DEF f
    <3> QED
      BY <2>3, <3>1, Updates
  <2>5. /\ \A p \in Proc : p # chain => in_pipe'[p] = in_pipe[p]
        /\ DOMAIN in_pipe' = Proc /\ in_pipe'[chain] = [read |-> 7 - f, write |-> 5]
    <3> HIDE DEF f
    <3> QED
      BY <1>0, <2>4 DEF Put, Domains
  <2>6. /\ Quiet /\ ParentOK' /\ GenOK' /\ Domains' /\ DOMAIN line' = Proc
        /\ line'[chain] = "read49" /\ fds'[chain] = Tab(7 - f, <<Top, "r">>, Closed, Closed)
    BY <1>3, <2>1, <2>4, <2>5
  <2>7. PICK g : g = 7 - f /\ g \in {3, 4}
    BY <1>0
  <2>8. in_pipe'[chain].read = g
    BY <2>5, <2>7
  <2>9. ChainOK'
    BY <1>2, <2>6, <2>7, <2>8 DEF ChainOK
  <2> QED
    BY <1>1, <1>2, <2>6, <2>9, QuietKeeps DEF Kept, Good
<1>6. CASE ChainEnd
  <2>1. line[chain] = "read49" /\ AtEnd(chain, f) /\ in_pipe' = in_pipe
    BY <1>6 DEF ChainEnd, pipeVars
  <2>2. Put(line', line, chain, "zombie") /\ Put(fds', fds, chain, NoFds)
    BY <1>6, Updates DEF ChainEnd, Exits
  <2>3. PICK k \in Pipes : k = Top
    BY TopIs
  <2>4. fds[chain][f][1] = k
    <3>1. fds[chain] = Tab(f, <<k, "r">>, Closed, Closed)
      BY <1>0, <2>1, <2>3 DEF ChainOK
    <3> HIDE DEF f
    <3> QED
      BY <1>0, <3>1, TabAt
  <2>5. data[k] = <<>> /\ Holders(<<k, "w">>) = {}
    BY <2>1, <2>4 DEF AtEnd
  <2>6. Finished(k)
    BY <2>1, <2>3, <2>5, TopIs, WriterDone
  <2>7. Carries(data[k], k, Hi(k), k) /\ k \in Nat /\ Hi(k) \in Nat /\ Hi(k) > maxprime
    BY <2>1, <2>3, <2>6, Bounds DEF Good, ChainFlow
  <2>8. \A n : ~Passes(n, k, Hi(k), k)
    BY <2>5, <2>7, CarriesNone
  <2>9. ASSUME NEW n \in 2 .. maxprime, IsPrime(n), ~(n <= Top)
        PROVE  FALSE
    <3>1. n \in Nat /\ k < n /\ n < Hi(k)
      BY <2>3, <2>7, <2>9, PrimeAssumption
    <3>2. Survives(n, k)
      BY <2>7, <2>9, <3>1, PrimeSurvives
    <3> QED
      BY <2>8, <3>1, <3>2 DEF Passes
  <2>10. /\ Quiet /\ ParentOK' /\ GenOK' /\ Domains' /\ DOMAIN line' = Proc
         /\ line'[chain] = "zombie"
    BY <1>0, <1>3, <2>1, <2>2 DEF Domains
  <2>11. Finished(k)'
    BY <2>2, <2>6 DEF Put, Finished, Proc
  <2>12. ChainOK'
    BY <1>0, <1>2, <2>1, <2>3, <2>9, <2>10, <2>11 DEF ChainOK
  <2> QED
    BY <1>1, <1>2, <2>10, <2>12, QuietKeeps DEF Kept, Good
<1> QED
  BY <1>4, <1>5, <1>6

\* The next prime m is printed.
LEMMA SievePrints ==
  ASSUME Sieve, NEW m \in Filter, IsPrime(m), NEW k \in Pipes, k = Top, Prior(k, m),
         stdout' = Append(stdout, m)
  PROVE  Sieve' /\ Top' = m /\ stdout' # <<>>
<1> DEFINE s == stdout
           L == Len(stdout)
           a == Append(stdout, m)
<1>1. s \in Seq(Filter) /\ L \in Nat
  BY LenProperties DEF Sieve
<1>2. /\ a \in Seq(Filter) /\ Len(a) = L + 1
      /\ \A i \in 1 .. L : a[i] = s[i]
      /\ a[L + 1] = m
  BY <1>1, AppendProperties
<1>3. \A i \in 1 .. L : s[i] \in Filter
  BY <1>1, ElementOfSeq
<1>4. \A q : q \in ToSet(s) <=> \E i \in 1 .. L : s[i] = q
  BY <1>1, LenProperties DEF ToSet
<1>5. \A q : q \in ToSet(a) <=> \E i \in 1 .. L + 1 : a[i] = q
  BY <1>2, LenProperties DEF ToSet
<1>6. /\ \A i, j \in 1 .. L : i < j => s[i] < s[j]
      /\ \A q : q \in ToSet(s) <=> q \in 2 .. k /\ IsPrime(q)
  BY DEF Sieve
<1>7. k \in Nat /\ m \in Nat /\ m >= 2 /\ k < m
  BY PipesAre DEF Prior, Filter
<1>8. stdout' = a
  OBVIOUS
<1>9. a # <<>> /\ Top' = m
  <2>1. a # <<>>
    <3>1. Len(<<>>) = 0 /\ L + 1 # 0
      BY <1>1
    <3> QED
      BY <1>2, <3>1
  <2> QED
    BY <1>2, <1>8, <2>1 DEF Top
<1> HIDE DEF s, L, a
<1>10. \A i \in 1 .. L : s[i] \in Nat /\ s[i] < m
  <2>1. SUFFICES ASSUME NEW i \in 1 .. L
                 PROVE  s[i] \in Nat /\ s[i] < m
    OBVIOUS
  <2>2. s[i] \in 2 .. k
    BY <1>4, <1>6
  <2> QED
    BY <1>7, <2>2
<1>11. \A i, j \in 1 .. L + 1 : i < j => a[i] < a[j]
  <2>1. SUFFICES ASSUME NEW i \in 1 .. L + 1, NEW j \in 1 .. L + 1, i < j
                 PROVE  a[i] < a[j]
    OBVIOUS
  <2>2. i \in 1 .. L /\ (j \in 1 .. L \/ j = L + 1)
    BY <1>1, <2>1
  <2> QED
    BY <1>2, <1>6, <1>10, <2>1, <2>2
<1>12. \A q : q \in ToSet(a) <=> q \in ToSet(s) \/ q = m
  <2>1. ASSUME NEW q, q \in ToSet(a)
        PROVE  q \in ToSet(s) \/ q = m
    <3>1. PICK i \in 1 .. L + 1 : a[i] = q
      BY <1>5, <2>1
    <3>2. i \in 1 .. L \/ i = L + 1
      BY <1>1
    <3> QED
      BY <1>2, <1>4, <3>1, <3>2
  <2>2. ASSUME NEW q, q \in ToSet(s)
        PROVE  q \in ToSet(a)
    <3>1. PICK i \in 1 .. L : s[i] = q
      BY <1>4, <2>2
    <3>2. i \in 1 .. L + 1
      BY <1>1
    <3> QED
      BY <1>2, <1>5, <3>1, <3>2
  <2>3. m \in ToSet(a)
    <3>1. L + 1 \in 1 .. L + 1
      BY <1>1
    <3> QED
      BY <1>2, <1>5, <3>1
  <2> QED
    BY <2>1, <2>2, <2>3
<1>13. ASSUME NEW q
       PROVE  q \in ToSet(a) <=> q \in 2 .. m /\ IsPrime(q)
  <2>1. q \in 2 .. m <=> q \in 2 .. k \/ q = m \/ (q \in 2 .. m /\ q \in k + 1 .. m - 1)
    BY <1>7
  <2>2. q \in k + 1 .. m - 1 => ~IsPrime(q)
    BY DEF Prior
  <2> QED
    BY <1>6, <1>12, <2>1, <2>2
<1> QED
  BY <1>2, <1>8, <1>9, <1>11, <1>13 DEF Sieve

\* The chain reads the next prime and prints it (prime.c:49-58).
LEMMA ReadPrimeStep ==
  ASSUME DOMAIN line = Proc, ~failed, Sieve, Good, ReadPrime
  PROVE  Kept
<1> USE ProcAre, PipesAre
<1> DEFINE f == in_pipe[chain].read
<1>0. Domains /\ ParentOK /\ GenOK /\ ChainOK /\ Filters /\ f \in {3, 4}
  BY DEF Good, ChainOK
<1>1. line[chain] = "read49" /\ Put(line', line, chain, "fork62")
  BY Updates DEF ReadPrime, Goes
<1>2. PICK k \in Pipes : k = Top
  BY TopIs
<1>3. fds[chain] = Tab(f, <<k, "r">>, Closed, Closed)
  BY <1>0, <1>1, <1>2 DEF ChainOK
<1>4. fds[chain][f][1] = k
  <2> HIDE DEF f
  <2> QED
    BY <1>0, <1>3, TabAt
<1> DEFINE m == Head(data[k])
<1>5. /\ data[k] # <<>>
      /\ num' = [num EXCEPT ![chain] = m]
      /\ data' = [data EXCEPT ![k] = Tail(data[k])]
      /\ stdout' = Append(stdout, num'[chain])
      /\ UNCHANGED <<fds, in_pipe, filter_pipe, waits, failed>>
  BY <1>4 DEF ReadPrime, ReadNum, HasNum
<1>6. Put(num', num, chain, m) /\ Put(data', data, k, Tail(data[k]))
  BY <1>5, Updates
<1>7. Carries(data[k], k, Hi(k), k) /\ k \in Nat /\ k >= 1 /\ Hi(k) \in Nat /\ IsPrime(k)
  BY <1>1, <1>2, Bounds, TopIs DEF Good, ChainFlow
<1>8. /\ Passes(m, k, Hi(k), k)
      /\ m \in Nat
      /\ \A n : Passes(n, k, Hi(k), k) => n >= m
      /\ Carries(Tail(data[k]), m, Hi(k), k)
  BY <1>5, <1>7, CarriesHead
<1> HIDE DEF m
<1>9. m \in 2 .. maxprime /\ m \in Filter /\ k < m /\ m < Hi(k) /\ Survives(m, k)
  BY <1>8 DEF Passes, Filter
<1>10. \A n \in Nat : k < n /\ n < m => ~Survives(n, k)
  BY <1>7, <1>8, <1>9, PrimeAssumption DEF Passes
<1>11. IsPrime(m) /\ Prior(k, m)
  BY <1>7, <1>8, <1>9, <1>10, FirstIsPrime
<1>12. num'[chain] = m /\ \A p \in Proc : p # chain => num'[p] = num[p] /\ line'[p] = line[p]
  BY <1>0, <1>1, <1>6 DEF Put, Domains
<1>13. line'[chain] = "fork62" /\ DOMAIN line' = Proc
  BY <1>1 DEF Put
<1>14. Sieve' /\ Top' = m
  BY <1>2, <1>5, <1>9, <1>11, <1>12, SievePrints
<1>15. Domains'
  BY <1>0, <1>5, <1>6 DEF Domains, Put
<1>16. ParentOK' /\ GenOK'
  BY <1>0, <1>1, <1>5, <1>12, <1>13 DEF ParentOK, GenOK
<1>17. ChainOK'
  <2> HIDE DEF f
  <2>1. in_pipe'[chain].read = f /\ fds' = fds
    BY <1>5 DEF f
  <2>2. m # gen
    BY <1>9
  <2> QED
    BY <1>0, <1>3, <1>11, <1>12, <1>13, <1>14, <2>1, <2>2 DEF ChainOK
<1>18. \A l \in Pipes : l # k => data'[l] = data[l]
  BY <1>0, <1>6 DEF Put, Domains
<1>19. \A p \in Filter : line[p] # "none" <=> IsPrime(p) /\ p <= k
  BY <1>1, <1>2 DEF Good, Started
<1>20. Filters'
  <2>1. SUFFICES ASSUME NEW p \in Filter
                 PROVE  FilterOK(p)'
    BY DEF Filters
  <2>2. line[p] = "none" => data'[p] = data[p]
    <3>1. line[p] = "none" => p # k
      BY <1>7, <1>19
    <3> QED
      BY <1>18, <3>1
  <2> QED
    BY <1>0, <1>5, <1>12, <2>2, FilterSame DEF Filters
<1>21. Started'
  <2>1. SUFFICES ASSUME NEW p \in Filter
                 PROVE  line'[p] # "none" <=> IsPrime(p) /\ p <= m /\ p # m
    BY <1>13, <1>14 DEF Started
  <2>2. p \in Nat /\ (p <= m /\ p # m <=> p <= k \/ p \in k + 1 .. m - 1)
    BY <1>7, <1>9 DEF Filter
  <2>3. p \in k + 1 .. m - 1 => ~IsPrime(p)
    BY <1>11 DEF Prior
  <2> QED
    BY <1>12, <1>19, <2>2, <2>3
<1>22. \A l \in Pipes : (Finished(l)' <=> Finished(l)) /\ Hi(l)' = Hi(l) /\ Seen(l)' = Seen(l)
  BY <1>12, SameFinished, SameSeen
<1>23. Ordered'
  BY <1>22 DEF Good, Ordered
<1>24. FilterFlow'
  <2>1. SUFFICES ASSUME NEW p \in Filter, NEW l \in Pipes, line'[p] # "none", Prior(l, p)
                 PROVE  Carries(data'[l], Seen(p)', Hi(l)', l)
    BY DEF FilterFlow
  <2>2. l # k
    BY <1>7, <1>12, <1>19, <2>1 DEF Prior
  <2>3. Carries(data[l], Seen(p), Hi(l), l)
    BY <1>12, <2>1 DEF Good, FilterFlow
  <2> QED
    BY <1>18, <1>22, <2>2, <2>3
<1>25. ChainFlow'
  <2>1. SUFFICES ASSUME NEW l \in Pipes, Prior(l, m)
                 PROVE  Carries(data'[l], m, Hi(l)', l)
    BY <1>13, <1>14 DEF ChainFlow
  <2>2. l = k
    BY <1>8, <1>11, <2>1, PriorUnique
  <2>3. data'[k] = Tail(data[k])
    BY <1>0, <1>6 DEF Put, Domains
  <2> QED
    BY <1>8, <1>22, <2>2, <2>3
<1> QED
  BY <1>5, <1>13, <1>14, <1>15, <1>16, <1>17, <1>20, <1>21, <1>23, <1>24, <1>25 DEF Kept, Good

\* The chain makes a pipe and forks a filter (prime.c:61-62).
LEMMA ForkFilterStep ==
  ASSUME DOMAIN line = Proc, ~failed, Sieve, Good, ForkFilter
  PROVE  Kept
<1> USE ProcAre, PipesAre
<1> DEFINE f == in_pipe[chain].read
<1>0. Domains /\ ParentOK /\ GenOK /\ ChainOK /\ Filters /\ f \in {3, 4}
  BY DEF Good, ChainOK
<1>1. line[chain] = "fork62" /\ num[chain] = Top /\ Top # gen
  BY <1>0 DEF ForkFilter, ChainOK
<1>2. PICK p \in Filter : p = Top
  BY <1>1, TopIs
<1>3. PICK k \in Pipes : Prior(k, p) /\ fds[chain] = Tab(f, <<k, "r">>, Closed, Closed)
  BY <1>0, <1>1, <1>2 DEF ChainOK
<1> DEFINE t == Tab(f, <<k, "r">>, <<p, "r">>, <<p, "w">>)
           ends == [read |-> 7 - f, write |-> 5]
<1>4. MakePipe(fds[chain]) = ends /\ Opened(fds[chain], ends, p) = t
  <2> HIDE DEF f
  <2> QED
    BY <1>0, <1>3, NextPipe, EndsDiffer
<1>5. /\ line' = [line EXCEPT ![chain] = "close64", ![p] = "close70"]
      /\ fds' = [fds EXCEPT ![chain] = t, ![p] = t]
      /\ in_pipe' = [in_pipe EXCEPT ![p] = in_pipe[chain]]
      /\ filter_pipe' = [filter_pipe EXCEPT ![chain] = ends, ![p] = ends]
      /\ UNCHANGED <<data, num, stdout, waits, failed>>
  <2> HIDE DEF t, ends
  <2> QED
    BY <1>1, <1>2, <1>4 DEF ForkFilter
<1> HIDE DEF t, ends
<1>6. /\ line'[chain] = "close64" /\ line'[p] = "close70" /\ DOMAIN line' = Proc
      /\ \A q \in Proc : q # chain /\ q # p => line'[q] = line[q]
  BY <1>5
<1>7. /\ fds'[chain] = t /\ fds'[p] = t /\ DOMAIN fds' = Proc
      /\ \A q \in Proc : q # chain /\ q # p => fds'[q] = fds[q]
  BY <1>0, <1>5 DEF Domains
<1>8. /\ in_pipe'[p].read = f /\ DOMAIN in_pipe' = Proc
      /\ \A q \in Proc : q # p => in_pipe'[q] = in_pipe[q]
  BY <1>0, <1>5 DEF Domains
<1>9. /\ filter_pipe'[chain] = ends /\ filter_pipe'[p] = ends /\ DOMAIN filter_pipe' = Proc
      /\ \A q \in Proc : q # chain /\ q # p => filter_pipe'[q] = filter_pipe[q]
  BY <1>0, <1>5 DEF Domains
<1>10. Sieve' /\ Top' = Top
  BY <1>5, SieveSame
<1>11. Domains'
  BY <1>0, <1>5, <1>7, <1>8, <1>9 DEF Domains
<1>12. ParentOK' /\ GenOK'
  BY <1>0, <1>1, <1>5, <1>6, <1>7, <1>8 DEF ParentOK, GenOK
<1>13. in_pipe'[chain].read = f
  BY <1>8
<1>14. ChainOK'
  <2> HIDE DEF f
  <2> QED
    BY <1>0, <1>2, <1>6, <1>7, <1>9, <1>10, <1>13 DEF ChainOK, t, ends
<1>15. line[p] = "none" /\ data[p] = <<>> /\ num[p] = 2 /\ p \in Nat /\ p >= 2 /\ IsPrime(p) /\ num[p] \in 2 .. maxprime
  <2>1. p \in Nat /\ p >= 2 /\ IsPrime(p)
    BY <1>2, TopIs DEF Filter
  <2>2. line[p] = "none" /\ FilterOK(p)
    BY <1>0, <1>1, <1>2 DEF Good, Started, Filters
  <2>3. data[p] = <<>> /\ num[p] = 2 /\ num[p] \in 2 .. maxprime
    BY <2>2 DEF FilterOK
  <2> QED
    BY <2>1, <2>2, <2>3
<1>16. Filters'
  <2>1. FilterOK(p)'
    <3> HIDE DEF f
    <3> QED
      BY <1>0, <1>3, <1>5, <1>6, <1>7, <1>8, <1>9, <1>15 DEF FilterOK, t, ends
  <2>2. ASSUME NEW q \in Filter, q # p
        PROVE  FilterOK(q)'
    BY <1>0, <1>5, <1>6, <1>7, <1>8, <1>9, <2>2, FilterSame DEF Filters
  <2> QED
    BY <2>1, <2>2 DEF Filters
<1>17. Started'
  <2>1. SUFFICES ASSUME NEW q \in Filter
                 PROVE  line'[q] # "none" <=> IsPrime(q) /\ q <= p
    BY <1>2, <1>6, <1>10 DEF Started
  <2>2. CASE q = p
    BY <1>6, <1>15, <2>2
  <2>3. CASE q # p
    BY <1>1, <1>2, <1>6, <2>3 DEF Good, Started
  <2> QED
    BY <2>2, <2>3
<1>18. \A l \in Pipes : Finished(l)' <=> Finished(l)
  BY <1>6, <1>15 DEF Finished, Proc
<1>19. Ordered'
  BY <1>18 DEF Good, Ordered
<1>20. \A l \in Pipes : l # p => Hi(l)' = Hi(l) /\ Seen(l)' = Seen(l)
  BY <1>5, <1>6, SameSeen DEF Proc
<1>21. Seen(p)' = p /\ Hi(p)' = p + 1
  <2>1. Far(p)' = p
    BY <1>5, <1>15 DEF Far
  <2>2. ~Finished(p)' /\ p # gen
    BY <1>6 DEF Finished
  <2> QED
    BY <1>6, <2>1, <2>2 DEF Seen, Hi
<1>22. FilterFlow'
  <2>1. SUFFICES ASSUME NEW q \in Filter, NEW l \in Pipes, line'[q] # "none", Prior(l, q)
                 PROVE  Carries(data'[l], Seen(q)', Hi(l)', l)
    BY DEF FilterFlow
  <2>2. CASE q = p
    <3>1. l # p
      BY <1>15, <2>1, <2>2 DEF Prior
    <3>2. Carries(data[l], p, Hi(l), l)
      BY <1>1, <1>2, <2>1, <2>2 DEF Good, ChainFlow
    <3> QED
      BY <1>5, <1>20, <1>21, <2>2, <3>1, <3>2
  <2>3. CASE q # p
    <3>1. line[q] # "none"
      BY <1>6, <2>1, <2>3
    <3>2. q <= p /\ q \in Nat
      BY <1>2, <3>1 DEF Good, Started, Filter
    <3>3. l # p
      BY <1>15, <2>1, <3>2 DEF Prior
    <3>4. Carries(data[l], Seen(q), Hi(l), l)
      BY <2>1, <3>1 DEF Good, FilterFlow
    <3> QED
      BY <1>5, <1>20, <2>3, <3>3, <3>4
  <2> QED
    BY <2>2, <2>3
<1>23. ChainFlow'
  <2>1. \A n : ~Passes(n, p, p + 1, p)
    BY <1>15 DEF Passes
  <2>2. Carries(<<>>, p, p + 1, p)
    BY <1>15, <2>1, CarriesEmpty
  <2> QED
    BY <1>2, <1>5, <1>6, <1>10, <1>15, <1>21, <2>2 DEF ChainFlow
<1> QED
  BY <1>5, <1>6, <1>10, <1>11, <1>12, <1>14, <1>16, <1>17, <1>19, <1>22, <1>23 DEF Kept, Good

\* A step of the writer of pipe k, which may read from the pipe before it: what is in the
\* pipe k is put right by the writer, and the other pipes and processes are left alone.
LEMMA WriterStep ==
  ASSUME Sieve, Good, NEW k \in Pipes, k \in Filter => line[k] # "none",
         stdout' = stdout, line'[chain] = line[chain],
         \A l \in Pipes : l # k => Hi(l)' = Hi(l) /\ (Prior(l, k) \/ data'[l] = data[l]),
         \A q \in Filter : (line'[q] = "none" <=> line[q] = "none") /\ (q # k => Seen(q)' = Seen(q)),
         \A lo \in Nat : Carries(data[k], lo, Hi(k), k) => Carries(data'[k], lo, Hi(k)', k)
  PROVE  /\ ChainFlow' /\ Started'
         /\ \A q \in Filter, l \in Pipes :
              q # k /\ line'[q] # "none" /\ Prior(l, q) => Carries(data'[l], Seen(q)', Hi(l)', l)
<1> USE PipesAre
<1>1. Top' = Top /\ Top \in Nat /\ IsPrime(Top)
  BY SieveSame, TopIs
<1>2. Started'
  BY <1>1 DEF Good, Started
<1>3. \A l \in Pipes, lo \in Nat :
        ~Prior(l, k) /\ Carries(data[l], lo, Hi(l), l) => Carries(data'[l], lo, Hi(l)', l)
  OBVIOUS
<1>4. ASSUME NEW l \in Pipes, Prior(l, k)
      PROVE  k \in Nat /\ IsPrime(k) /\ k <= Top /\ l < k /\ l \in Nat /\ ~(line[chain] = "fork62" /\ k = Top)
  <2>1. l < k /\ l \in Nat /\ k \in Nat /\ k \in Filter
    BY <1>4 DEF Prior
  <2> QED
    BY <2>1 DEF Good, Started
<1>5. ChainFlow'
  <2>1. ASSUME line[chain] = "fork62", NEW l \in Pipes, Prior(l, Top)
        PROVE  Carries(data'[l], Top, Hi(l)', l)
    <3>1. ~Prior(l, k)
      BY <1>1, <1>4, <2>1, NextUnique
    <3>2. Carries(data[l], Top, Hi(l), l)
      BY <2>1 DEF Good, ChainFlow
    <3> QED
      BY <1>1, <1>3, <3>1, <3>2
  <2>2. ASSUME line[chain] \in {"none", "read49", "close64", "close66"}, NEW l \in Pipes, l = Top
        PROVE  Carries(data'[l], l, Hi(l)', l)
    <3>1. ~Prior(l, k)
      BY <1>1, <1>4, <2>2
    <3>2. Carries(data[l], l, Hi(l), l) /\ l \in Nat
      BY <2>2 DEF Good, ChainFlow
    <3> QED
      BY <1>3, <3>1, <3>2
  <2> QED
    BY <1>1, <2>1, <2>2 DEF ChainFlow
<1>6. ASSUME NEW q \in Filter, NEW l \in Pipes, q # k, line'[q] # "none", Prior(l, q)
      PROVE  Carries(data'[l], Seen(q)', Hi(l)', l)
  <2>1. Carries(data[l], Seen(q), Hi(l), l) /\ Seen(q) \in Nat
    BY <1>6, Bounds DEF Good, FilterFlow
  <2>2. IsPrime(q) /\ q \in Nat
    BY <1>6 DEF Good, Started, Filter
  <2>3. ~Prior(l, k)
    BY <1>4, <1>6, <2>2, NextUnique
  <2> QED
    BY <1>3, <1>6, <2>1, <2>3
<1> QED
  BY <1>2, <1>5, <1>6

\* The generator (prime.c:30-33, 95-98): nobody has closed the read end it needs.
LEMMA GenStep ==
  ASSUME DOMAIN line = Proc, ~failed, Sieve, Good, Generator
  PROVE  Kept
<1> USE ProcAre, PipesAre
<1>0. Domains /\ ParentOK /\ GenOK /\ ChainOK /\ Filters
  BY DEF Good
<1>1. /\ failed' = failed /\ stdout' = stdout /\ in_pipe' = in_pipe /\ filter_pipe' = filter_pipe
      /\ waits' = waits
  BY DEF Generator, Close, Generate, GenerateEnd, pipeVars
<1>2. Sieve' /\ Top' = Top
  BY <1>1, SieveSame
<1>3. ASSUME NEW to \in {"write32", "zombie"}, NEW t,
             Put(line', line, gen, to), Put(fds', fds, gen, t),
             line[gen] \in {"close96", "write32"}
      PROVE  /\ line'[gen] = to /\ fds'[gen] = t /\ ParentOK' /\ DOMAIN line' = Proc /\ DOMAIN fds' = Proc
             /\ \A p \in Proc : p # gen => line'[p] = line[p] /\ fds'[p] = fds[p]
             /\ \A l \in Pipes : Finished(l) => Finished(l)'
  <2>1. /\ line'[gen] = to /\ fds'[gen] = t /\ DOMAIN line' = Proc /\ DOMAIN fds' = Proc
        /\ \A p \in Proc : p # gen => line'[p] = line[p] /\ fds'[p] = fds[p]
    BY <1>0, <1>3 DEF Put, Domains
  <2>2. ParentOK'
    BY <1>0, <1>1, <1>3, <2>1 DEF ParentOK
  <2>3. \A l \in Pipes : Finished(l) => Finished(l)'
    BY <1>3, <2>1 DEF Finished
  <2> QED
    BY <2>1, <2>2, <2>3
<1>4. ASSUME \A p \in Proc : p # gen => line'[p] = line[p] /\ fds'[p] = fds[p] /\ num'[p] = num[p],
             \A l \in Pipes : Finished(l) => Finished(l)'
      PROVE  ChainOK'
  <2>1. line'[chain] = line[chain] /\ fds'[chain] = fds[chain] /\ num'[chain] = num[chain]
    BY <1>4
  <2> QED
    BY <1>0, <1>1, <1>2, <1>4, <2>1 DEF ChainOK
<1>5. CASE Close(gen, in_pipe[gen].read, "close96", "write32")
  <2>1. in_pipe[gen].read = 3 /\ line[gen] = "close96" /\ fds[gen] = BothEnds
    BY <1>0, <1>5 DEF ParentOK, GenOK, Close
  <2>2. fds[gen][3] # Closed /\ [fds[gen] EXCEPT ![3] = Closed] = Tab(3, Closed, <<gen, "w">>, Closed)
    BY <2>1, Tab34, EndsDiffer DEF BothEnds
  <2>3. /\ Put(line', line, gen, "write32")
        /\ Put(fds', fds, gen, Tab(3, Closed, <<gen, "w">>, Closed))
        /\ data' = data /\ num' = num
    <3>1. Close(gen, 3, "close96", "write32") /\ gen \in DOMAIN fds
      BY <1>0, <1>5, <2>1 DEF Domains
    <3>2. /\ Put(line', line, gen, "write32")
          /\ Put(fds', fds, gen, [fds[gen] EXCEPT ![3] = Closed])
          /\ UNCHANGED <<data, pipeVars, stdout, waits, failed>>
      BY <2>2, <3>1, CloseDoes
    <3> QED
      BY <2>2, <3>2 DEF pipeVars
  <2>4. /\ line'[gen] = "write32" /\ fds'[gen] = Tab(3, Closed, <<gen, "w">>, Closed)
        /\ ParentOK' /\ DOMAIN line' = Proc /\ DOMAIN fds' = Proc
        /\ \A p \in Proc : p # gen => line'[p] = line[p] /\ fds'[p] = fds[p]
        /\ \A l \in Pipes : Finished(l) => Finished(l)'
    BY <1>3, <2>1, <2>3
  <2>5. Quiet
    BY <1>1, <2>3, <2>4 DEF Quiet
  <2>6. Domains' /\ GenOK' /\ ChainOK'
    BY <1>0, <1>1, <1>4, <2>3, <2>4 DEF Domains, GenOK
  <2> QED
    BY <1>1, <1>2, <2>4, <2>5, <2>6, QuietKeeps DEF Kept, Good
<1>6. CASE GenerateEnd
  <2>1. /\ line[gen] = "write32" /\ num[gen] > maxprime /\ data' = data /\ num' = num
        /\ Put(line', line, gen, "zombie") /\ Put(fds', fds, gen, NoFds)
    BY <1>6, Updates DEF GenerateEnd, Exits, pipeVars
  <2>4. /\ line'[gen] = "zombie" /\ fds'[gen] = NoFds
        /\ ParentOK' /\ DOMAIN line' = Proc /\ DOMAIN fds' = Proc
        /\ \A p \in Proc : p # gen => line'[p] = line[p] /\ fds'[p] = fds[p]
        /\ \A l \in Pipes : Finished(l) => Finished(l)'
    BY <1>3, <2>1
  <2>5. Quiet
    BY <1>1, <2>1, <2>4 DEF Quiet
  <2>6. Domains' /\ GenOK' /\ ChainOK'
    BY <1>0, <1>1, <1>4, <2>1, <2>4 DEF Domains, GenOK
  <2> QED
    BY <1>1, <1>2, <2>4, <2>5, <2>6, QuietKeeps DEF Kept, Good
<1>7. CASE Generate
  <2>1. line[gen] = "write32" /\ num[gen] <= maxprime /\ in_pipe[gen].write = 4
    BY <1>0, <1>7 DEF Generate, WriteNum, ParentOK
  <2>2. fds[gen][4][1] = gen
    <3>1. fds[gen][4] = <<gen, "w">>
      BY <1>0, <2>1, Tab34 DEF GenOK
    <3> QED
      BY <3>1
  <2>3. ~Finished(gen) /\ IsPrime(gen) /\ gen <= Top
    BY <2>1, TopIs DEF Finished, IsPrime
  <2>4. Holders(<<gen, "r">>) # {}
    BY <2>1, <2>3, ReaderThere
  <2> DEFINE n == num[gen]
  <2>5. /\ data' = [data EXCEPT ![gen] = Append(data[gen], n)]
        /\ line' = [line EXCEPT ![gen] = "write32"] /\ fds' = fds
        /\ num' = [num EXCEPT ![gen] = n + 1]
    BY <1>7, <2>1, <2>2, <2>4 DEF Generate, WriteNum, Goes
  <2>6. n \in Nat /\ n \in 2 .. maxprime
    BY <1>0, <2>1, PrimeAssumption DEF GenOK
  <2>7. DOMAIN line' = Proc /\ \A p \in Proc : line'[p] = line[p]
    BY <2>1, <2>5
  <2>8. /\ num'[gen] = n + 1 /\ DOMAIN num' = Proc /\ DOMAIN data' = Pipes
        /\ data'[gen] = Append(data[gen], n)
        /\ \A p \in Proc : p # gen => num'[p] = num[p]
        /\ \A l \in Pipes : l # gen => data'[l] = data[l]
    BY <1>0, <2>5 DEF Domains
  <2>9. Hi(gen) = n /\ Hi(gen)' = n + 1
    BY <2>8 DEF Hi
  <2>10. \A l \in Pipes : l # gen => Hi(l)' = Hi(l) /\ Seen(l)' = Seen(l)
    BY <2>7, <2>8, SameSeen DEF Proc
  <2>11. \A l \in Pipes : Finished(l)' <=> Finished(l)
    BY <2>7, SameFinished DEF Proc
  <2>12. ASSUME NEW lo \in Nat, Carries(data[gen], lo, Hi(gen), gen)
         PROVE  Carries(data'[gen], lo, Hi(gen)', gen)
    <3>1. Survives(n, gen)
      <4>1. 2 .. gen = {}
        OBVIOUS
      <4> QED
        BY <4>1 DEF Survives
    <3> HIDE DEF n
    <3> QED
      BY <2>6, <2>8, <2>9, <2>12, <3>1, CarriesPut
  <2>13. /\ ChainFlow' /\ Started'
         /\ \A q \in Filter, l \in Pipes :
              q # gen /\ line'[q] # "none" /\ Prior(l, q) => Carries(data'[l], Seen(q)', Hi(l)', l)
    <3> HIDE DEF n
    <3> QED
      <4>1. gen \in Pipes /\ stdout' = stdout /\ line'[chain] = line[chain]
        BY <1>1, <2>7
      <4>2. \A l \in Pipes : l # gen => Hi(l)' = Hi(l) /\ (Prior(l, gen) \/ data'[l] = data[l])
        BY <2>8, <2>10
      <4>3. \A q \in Filter : (line'[q] = "none" <=> line[q] = "none") /\ (q # gen => Seen(q)' = Seen(q))
        BY <2>7, <2>10
      <4> QED
        BY <2>12, <4>1, <4>2, <4>3, WriterStep
  <2>14. FilterFlow'
    BY <2>13 DEF FilterFlow
  <2>15. Ordered'
    BY <2>11 DEF Good, Ordered
  <2>16. Filters'
    BY <1>0, <1>1, <2>5, <2>7, <2>8, FilterSame DEF Filters
  <2>17. ParentOK'
    BY <1>0, <1>1, <2>5, <2>7 DEF ParentOK
  <2>18. GenOK'
    BY <1>0, <2>1, <2>5, <2>6, <2>7, <2>8 DEF GenOK
  <2>19. ChainOK'
    BY <1>4, <2>5, <2>7, <2>8, <2>11
  <2>20. Domains'
    BY <1>0, <1>1, <2>5, <2>8 DEF Domains
  <2> QED
    BY <1>1, <1>2, <2>7, <2>13, <2>14, <2>15, <2>16, <2>17, <2>18, <2>19, <2>20 DEF Kept, Good
<1> QED
  BY <1>5, <1>6, <1>7 DEF Generator

\* A step of the filter of p.
FilterMove(p, to) ==
  /\ DOMAIN line' = Proc /\ line'[p] = to /\ \A q \in Proc : q # p => line'[q] = line[q] /\ fds'[q] = fds[q]
  /\ DOMAIN fds' = Proc
  /\ DOMAIN num' = Proc /\ \A q \in Proc : q # p => num'[q] = num[q]
  /\ DOMAIN data' = Pipes /\ \A l \in Pipes : l # p => Prior(l, p) \/ data'[l] = data[l]
  /\ UNCHANGED <<in_pipe, filter_pipe, stdout, waits, failed>>

\* Such a step keeps the sieve good if it does right by the two pipes of the filter.
LEMMA FilterMoves ==
  ASSUME DOMAIN line = Proc, ~failed, Sieve, Good, NEW p \in Filter, line[p] # "none",
         NEW to, to # "none", FilterMove(p, to), FilterOK(p)',
         Finished(p) => Finished(p)',
         Finished(p)' => \A l \in Pipes : Prior(l, p) => Finished(l),
         \A l \in Pipes : Prior(l, p) => Carries(data'[l], Seen(p)', Hi(l), l),
         \A lo \in Nat : Carries(data[p], lo, Hi(p), p) => Carries(data'[p], lo, Hi(p)', p)
  PROVE  Kept
<1> USE ProcAre, PipesAre
<1>0. Domains /\ ParentOK /\ GenOK /\ ChainOK /\ Filters
  BY DEF Good
<1>1. /\ DOMAIN line' = Proc /\ line'[p] = to /\ DOMAIN fds' = Proc /\ DOMAIN num' = Proc
      /\ \A q \in Proc : q # p => line'[q] = line[q] /\ fds'[q] = fds[q] /\ num'[q] = num[q]
      /\ DOMAIN data' = Pipes /\ \A l \in Pipes : l # p => Prior(l, p) \/ data'[l] = data[l]
      /\ UNCHANGED <<in_pipe, filter_pipe, stdout, waits, failed>>
  BY DEF FilterMove
<1>2. Sieve' /\ Top' = Top
  BY <1>1, SieveSame
<1>3. Domains'
  BY <1>0, <1>1 DEF Domains
<1>4. /\ line'[parent] = line[parent] /\ line'[gen] = line[gen] /\ line'[chain] = line[chain]
      /\ fds'[parent] = fds[parent] /\ fds'[gen] = fds[gen] /\ fds'[chain] = fds[chain]
      /\ num'[gen] = num[gen] /\ num'[chain] = num[chain]
  BY <1>1
<1>5. ParentOK'
  BY <1>0, <1>1, <1>4 DEF ParentOK
<1>6. GenOK'
  BY <1>0, <1>4 DEF GenOK
<1>7. \A l \in Pipes : l # p => (Finished(l)' <=> Finished(l)) /\ Hi(l)' = Hi(l) /\ Seen(l)' = Seen(l)
  BY <1>1, SameFinished, SameSeen DEF Proc
<1>8. ChainOK'
  <2>1. \A l \in Pipes : Finished(l) => Finished(l)'
    BY <1>7
  <2>2. in_pipe' = in_pipe /\ filter_pipe' = filter_pipe /\ stdout' = stdout
    BY <1>1
  <2> QED
    BY <1>0, <1>2, <1>4, <2>1, <2>2 DEF ChainOK
<1>9. ASSUME NEW l \in Pipes, Prior(l, p)
      PROVE  l # p /\ (l \in Filter => line[l] # "none")
  <2>1. p \in Nat /\ IsPrime(p) /\ p <= Top /\ l < p /\ IsPrime(l) /\ l \in Nat
    BY <1>9 DEF Good, Started, Prior
  <2>2. Top \in Nat
    BY TopIs
  <2> QED
    BY <2>1, <2>2 DEF Good, Started
<1>10. Filters'
  <2>1. ASSUME NEW q \in Filter, q # p
        PROVE  FilterOK(q)'
    <3>1. line[q] = "none" => data'[q] = data[q]
      BY <1>1, <1>9, <2>1
    <3> QED
      BY <1>0, <1>1, <2>1, <3>1, FilterSame DEF Filters
  <2> QED
    BY <2>1 DEF Filters
<1>11. Ordered'
  <2>1. SUFFICES ASSUME NEW q \in Filter, NEW l \in Pipes, Prior(l, q), Finished(q)'
                 PROVE  Finished(l)'
    BY DEF Ordered
  <2>2. CASE q = p
    BY <1>7, <1>9, <2>1, <2>2
  <2>3. CASE q # p
    BY <1>7, <2>1, <2>3 DEF Good, Ordered
  <2> QED
    BY <2>2, <2>3
<1>12. /\ ChainFlow' /\ Started'
       /\ \A q \in Filter, l \in Pipes :
            q # p /\ line'[q] # "none" /\ Prior(l, q) => Carries(data'[l], Seen(q)', Hi(l)', l)
  <2>1. p \in Pipes /\ stdout' = stdout /\ line'[chain] = line[chain]
    BY <1>1, <1>4
  <2>2. \A l \in Pipes : l # p => Hi(l)' = Hi(l) /\ (Prior(l, p) \/ data'[l] = data[l])
    BY <1>1, <1>7
  <2>3. \A q \in Filter : (line'[q] = "none" <=> line[q] = "none") /\ (q # p => Seen(q)' = Seen(q))
    <3>1. SUFFICES ASSUME NEW q \in Filter
                   PROVE  (line'[q] = "none" <=> line[q] = "none") /\ (q # p => Seen(q)' = Seen(q))
      OBVIOUS
    <3>2. CASE q = p
      BY <1>1, <3>2
    <3>3. CASE q # p
      BY <1>1, <1>7, <3>3
    <3> QED
      BY <3>2, <3>3
  <2> QED
    BY <2>1, <2>2, <2>3, WriterStep
<1>13. FilterFlow'
  <2>1. SUFFICES ASSUME NEW q \in Filter, NEW l \in Pipes, line'[q] # "none", Prior(l, q)
                 PROVE  Carries(data'[l], Seen(q)', Hi(l)', l)
    BY DEF FilterFlow
  <2>2. CASE q = p
    BY <1>7, <1>9, <2>1, <2>2
  <2>3. CASE q # p
    BY <1>12, <2>1, <2>3
  <2> QED
    BY <2>2, <2>3
<1> QED
  BY <1>1, <1>2, <1>3, <1>5, <1>6, <1>8, <1>10, <1>11, <1>12, <1>13 DEF Kept, Good

\* What the filter of p knows while it reads and writes.
LEMMA FilterFacts ==
  ASSUME Sieve, Good, NEW p \in Filter, line[p] # "none"
  PROVE  /\ p \in Nat /\ p >= 2 /\ IsPrime(p) /\ p <= Top /\ FilterOK(p)
         /\ \A l \in Pipes : Prior(l, p) => Carries(data[l], Seen(p), Hi(l), l)
         /\ Finished(p) => \A l \in Pipes : Prior(l, p) => Finished(l)
<1>1. p \in Nat /\ p >= 2
  BY DEF Filter
<1>2. IsPrime(p) /\ p <= Top /\ FilterOK(p)
  BY DEF Good, Started, Filters
<1>3. \A l \in Pipes : Prior(l, p) => Carries(data[l], Seen(p), Hi(l), l)
  BY DEF Good, FilterFlow
<1>4. Finished(p) => \A l \in Pipes : Prior(l, p) => Finished(l)
  BY DEF Good, Ordered
<1> QED
  BY <1>1, <1>2, <1>3, <1>4

\* The steps that only close descriptors.
LEMMA FilterCloses ==
  ASSUME DOMAIN line = Proc, ~failed, Sieve, Good, NEW p \in Filter,
         \/ Close(p, filter_pipe[p].read, "close70", "read38")
         \/ Close(p, in_pipe[p].write, "close74", "exit77")
         \/ FilterExit(p)
  PROVE  Kept
<1> USE ProcAre, PipesAre
<1>0. Domains
  BY DEF Good
<1>1. line[p] \in {"close70", "close74", "exit77"} /\ line[p] # "none"
  BY DEF Close, FilterExit
<1>2. FilterOK(p)
  BY <1>1, FilterFacts
<1>3. /\ data' = data /\ num' = num
      /\ UNCHANGED <<in_pipe, filter_pipe, stdout, waits, failed>>
  BY DEF Close, FilterExit, pipeVars
<1>4. ASSUME NEW to \in {"read38", "exit77", "zombie"}, NEW t,
             Put(line', line, p, to), Put(fds', fds, p, t), line[p] = "close70" <=> to = "read38", FilterOK(p)'
      PROVE  Kept
  <2>1. FilterMove(p, to)
    BY <1>0, <1>3, <1>4 DEF FilterMove, Put, Domains
  <2>2. line'[p] = to
    BY <2>1 DEF FilterMove
  <2>3. (Finished(p)' <=> Finished(p)) /\ Far(p)' = Far(p)
    BY <1>1, <1>3, <1>4, <2>2 DEF Finished, Far
  <2>4. Seen(p)' = Seen(p) /\ Hi(p)' = Hi(p)
    BY <1>1, <1>4, <2>2, <2>3 DEF Seen, Hi
  <2>5. /\ \A l \in Pipes : Prior(l, p) => Carries(data'[l], Seen(p)', Hi(l), l)
        /\ Finished(p)' => \A l \in Pipes : Prior(l, p) => Finished(l)
    BY <1>1, <1>3, <2>3, <2>4, FilterFacts
  <2>6. \A lo \in Nat : Carries(data[p], lo, Hi(p), p) => Carries(data'[p], lo, Hi(p)', p)
    BY <1>3, <2>4
  <2>7. to # "none"
    BY <1>4
  <2> QED
    BY <1>1, <1>4, <2>1, <2>3, <2>5, <2>6, <2>7, FilterMoves
<1>5. CASE Close(p, filter_pipe[p].read, "close70", "read38")
  <2> DEFINE f == in_pipe[p].read
  <2>1. line[p] = "close70"
    BY <1>5 DEF Close
  <2>2. f \in {3, 4} /\ filter_pipe[p] = [read |-> 7 - f, write |-> 5]
    BY <1>2, <2>1 DEF FilterOK
  <2>3. PICK k \in Pipes : Prior(k, p) /\ fds[p] = Tab(f, <<k, "r">>, <<p, "r">>, <<p, "w">>)
    BY <1>2, <2>1 DEF FilterOK
  <2> DEFINE t == Tab(f, <<k, "r">>, Closed, <<p, "w">>)
             g == 7 - f
  <2>4. fds[p][g] # Closed /\ [fds[p] EXCEPT ![g] = Closed] = t
    <3> HIDE DEF f
    <3>1. PICK x, y, z : x = <<k, "r">> /\ y = <<p, "r">> /\ z = <<p, "w">>
      OBVIOUS
    <3>2. fds[p] = Tab(f, x, y, z) /\ y # Closed
      BY <2>3, <3>1, EndsDiffer
    <3>3. fds[p][7 - f] = y /\ [fds[p] EXCEPT ![7 - f] = Closed] = Tab(f, x, Closed, z)
      BY <2>2, <3>2, TabAt
    <3> QED
      BY <3>1, <3>2, <3>3, Zenon
  <2>5. filter_pipe[p].read = g
    BY <2>2
  <2> HIDE DEF t, f, g
  <2>6. Put(line', line, p, "read38") /\ Put(fds', fds, p, t)
    <3>1. Close(p, g, "close70", "read38") /\ p \in DOMAIN fds
      BY <1>0, <1>5, <2>5 DEF Domains
    <3>2. Put(line', line, p, "read38") /\ Put(fds', fds, p, [fds[p] EXCEPT ![g] = Closed])
      BY <2>4, <3>1, CloseDoes
    <3> QED
      BY <2>4, <3>2
  <2>7. line'[p] = "read38" /\ fds'[p] = t
    BY <1>0, <2>6 DEF Put, Domains
  <2>8. in_pipe'[p].read = f /\ filter_pipe'[p] = filter_pipe[p] /\ num'[p] = num[p]
    BY <1>3 DEF f
  <2>9. FilterOK(p)'
    BY <1>2, <2>2, <2>3, <2>7, <2>8 DEF FilterOK, t
  <2> QED
    BY <1>4, <2>1, <2>6, <2>9
<1>6. ASSUME NEW to \in {"exit77", "zombie"}, NEW t, Put(line', line, p, to), Put(fds', fds, p, t),
             line[p] \in {"close74", "exit77"}
      PROVE  Kept
  <2>1. line'[p] = to
    BY <1>6 DEF Put
  <2>2. FilterOK(p)'
    BY <1>2, <1>3, <1>6, <2>1 DEF FilterOK
  <2> QED
    BY <1>4, <1>6, <2>2
<1>7. CASE Close(p, in_pipe[p].write, "close74", "exit77")
  <2>1. line[p] = "close74"
    BY <1>7 DEF Close
  <2>2. CASE fds[p][in_pipe[p].write] = Closed
    <3>1. Put(line', line, p, "zombie") /\ Put(fds', fds, p, NoFds)
      BY <1>7, <2>2, Updates DEF Close, Exits
    <3> QED
      BY <1>6, <2>1, <3>1
  <2>3. CASE fds[p][in_pipe[p].write] # Closed
    <3>1. p \in DOMAIN fds
      BY <1>0 DEF Domains
    <3>2. PICK t : Put(line', line, p, "exit77") /\ Put(fds', fds, p, t)
      <4>1. PICK f : f = in_pipe[p].write
        OBVIOUS
      <4>2. Close(p, f, "close74", "exit77") /\ fds[p][f] # Closed
        BY <1>7, <2>3, <4>1
      <4>3. Put(line', line, p, "exit77") /\ Put(fds', fds, p, [fds[p] EXCEPT ![f] = Closed])
        BY <3>1, <4>2, CloseDoes
      <4> QED
        BY <4>3
    <3> QED
      BY <1>6, <2>1, <3>2
  <2> QED
    BY <2>2, <2>3
<1>8. CASE FilterExit(p)
  <2>1. line[p] = "exit77" /\ Put(line', line, p, "zombie") /\ Put(fds', fds, p, NoFds)
    BY <1>8, Updates DEF FilterExit, Exits
  <2> QED
    BY <1>6, <2>1
<1> QED
  BY <1>5, <1>7, <1>8

\* The descriptors of a filter that reads and writes.
LEMMA FilterTable ==
  ASSUME Sieve, Good, NEW p \in Filter, line[p] \in {"read38", "write40"}
  PROVE  \E k \in Pipes :
           /\ Prior(k, p) /\ k # p /\ in_pipe[p].read \in {3, 4}
           /\ fds[p] = Tab(in_pipe[p].read, <<k, "r">>, Closed, <<p, "w">>)
           /\ fds[p][in_pipe[p].read][1] = k
           /\ filter_pipe[p].write = 5 /\ fds[p][5][1] = p
           /\ filter_pipe[p] = [read |-> 7 - in_pipe[p].read, write |-> 5]
<1>1. FilterOK(p) /\ p \in Nat
  BY FilterFacts
<1> DEFINE f == in_pipe[p].read
<1>2. f \in {3, 4} /\ filter_pipe[p] = [read |-> 7 - f, write |-> 5]
  BY <1>1 DEF FilterOK
<1>3. PICK k \in Pipes : Prior(k, p) /\ fds[p] = Tab(f, <<k, "r">>, Closed, <<p, "w">>)
  BY <1>1 DEF FilterOK
<1>4. k # p
  BY <1>1, <1>3, PipesAre DEF Prior
<1>5. fds[p][f] = <<k, "r">> /\ fds[p][5] = <<p, "w">>
  <2> HIDE DEF f
  <2> QED
    BY <1>2, <1>3, TabAt
<1> QED
  BY <1>2, <1>3, <1>4, <1>5

\* Only what passes the filters up to k can pass the filter of p.
LEMMA PassesBoth ==
  ASSUME NEW k, NEW p \in Filter, Prior(k, p), NEW n, NEW lo, NEW hi, Passes(n, lo, hi, p)
  PROVE  Passes(n, lo, hi, k) /\ n % p # 0 /\ n \in Nat
<1>1. p \in Nat /\ p >= 2 /\ n \in Nat /\ Survives(n, p)
  BY DEF Filter, Passes
<1>2. Survives(n, k) /\ n % p # 0
  BY <1>1, Sifted
<1> QED
  BY <1>1, <1>2 DEF Passes

\* The filter reads a number and drops it or keeps it for writing (prime.c:38-39).
LEMMA FilterReads ==
  ASSUME DOMAIN line = Proc, ~failed, Sieve, Good, NEW p \in Filter, FilterRead(p)
  PROVE  Kept
<1> USE ProcAre, PipesAre
<1>0. Domains
  BY DEF Good
<1>1. line[p] = "read38" /\ line[p] # "none"
  BY DEF FilterRead, Goes
<1>2. /\ p \in Nat /\ p >= 2 /\ IsPrime(p) /\ p <= Top /\ FilterOK(p)
      /\ \A l \in Pipes : Prior(l, p) => Carries(data[l], Seen(p), Hi(l), l)
  BY <1>1, FilterFacts
<1> DEFINE f == in_pipe[p].read
<1>3. PICK k \in Pipes :
        /\ Prior(k, p) /\ k # p /\ f \in {3, 4}
        /\ fds[p] = Tab(f, <<k, "r">>, Closed, <<p, "w">>)
        /\ fds[p][f][1] = k
        /\ filter_pipe[p] = [read |-> 7 - f, write |-> 5]
  BY <1>1, FilterTable
<1> DEFINE m == Head(data[k])
           to == IF m % p = 0 THEN "read38" ELSE "write40"
<1>4. /\ data[k] # <<>>
      /\ num' = [num EXCEPT ![p] = m]
      /\ data' = [data EXCEPT ![k] = Tail(data[k])]
      /\ UNCHANGED <<fds, in_pipe, filter_pipe, stdout, waits, failed>>
  BY <1>3 DEF FilterRead, ReadNum, HasNum
<1>5. /\ DOMAIN num' = Proc /\ num'[p] = m /\ \A q \in Proc : q # p => num'[q] = num[q]
      /\ DOMAIN data' = Pipes /\ data'[k] = Tail(data[k]) /\ \A l \in Pipes : l # k => data'[l] = data[l]
  BY <1>0, <1>4 DEF Domains
<1>6. line' = [line EXCEPT ![p] = to]
  BY <1>5 DEF FilterRead, Goes
<1> HIDE DEF m, to, f
<1>7. DOMAIN line' = Proc /\ line'[p] = to /\ \A q \in Proc : q # p => line'[q] = line[q]
  BY <1>6
<1>8. ~Finished(p) /\ p # gen /\ Seen(p) = Far(p) /\ Hi(p) = Far(p) + 1
  BY <1>1 DEF Finished, Seen, Hi
<1> DEFINE lo0 == Far(p)
<1>9. Hi(k) \in Nat /\ lo0 \in Nat /\ p <= lo0 /\ Carries(data[k], lo0, Hi(k), k)
  BY <1>2, <1>3, <1>8, Bounds
<1> HIDE DEF lo0
<1>10. /\ Passes(m, lo0, Hi(k), k)
       /\ m \in Nat
       /\ \A n : Passes(n, lo0, Hi(k), k) => n >= m
       /\ Carries(Tail(data[k]), m, Hi(k), k)
  BY <1>4, <1>9, CarriesHead DEF m
<1>11. m \in 2 .. maxprime /\ lo0 < m /\ m < Hi(k) /\ p < m /\ Survives(m, k)
  BY <1>2, <1>9, <1>10 DEF Passes
<1>12. to \in {"read38", "write40"} /\ (to = "read38" <=> m % p = 0)
  BY DEF to
<1>13. Far(p)' = m
  BY <1>5, <1>11 DEF Far
<1>14. ~Finished(p)' /\ Seen(p)' = m /\ Hi(p)' = IF to = "read38" THEN m + 1 ELSE m
  <2>1. ~Finished(p)'
    BY <1>7, <1>8, <1>12 DEF Finished
  <2> QED
    BY <1>5, <1>7, <1>8, <1>12, <1>13, <2>1 DEF Seen, Hi
<1>15. FilterOK(p)'
  <2>1. to = "write40" => Survives(m, p)
    BY <1>2, <1>3, <1>10, <1>11, <1>12, Sifted
  <2>2. in_pipe'[p].read = f /\ filter_pipe'[p] = filter_pipe[p] /\ fds'[p] = fds[p]
    BY <1>4 DEF f
  <2> QED
    BY <1>3, <1>5, <1>7, <1>11, <1>12, <2>1, <2>2 DEF FilterOK
<1>16. \A l \in Pipes : Prior(l, p) => Carries(data'[l], Seen(p)', Hi(l), l)
  <2>1. \A l \in Pipes : Prior(l, p) => l = k
    BY <1>2, <1>3, PriorUnique
  <2>2. Carries(data'[k], Seen(p)', Hi(k), k)
    BY <1>5, <1>10, <1>14
  <2> QED
    BY <2>1, <2>2, Zenon
<1>17. ASSUME NEW lo \in Nat, Carries(data[p], lo, Hi(p), p)
       PROVE  Carries(data'[p], lo, Hi(p)', p)
  <2>1. PICK hj \in Nat : hj = Hi(p)' /\ ((hj = m + 1 /\ m % p = 0) \/ hj = m)
    BY <1>10, <1>12, <1>14
  <2>2. ASSUME NEW n, Passes(n, lo0, hj, p)
        PROVE  FALSE
    <3>1. Passes(n, lo0, hj, k) /\ n % p # 0 /\ n \in Nat
      BY <1>3, <2>2, PassesBoth
    <3>2. n < hj
      BY <3>1 DEF Passes
    <3>3. n <= m
      BY <1>10, <2>1, <3>1, <3>2
    <3>4. Passes(n, lo0, Hi(k), k)
      BY <1>9, <1>10, <1>11, <3>1, <3>3 DEF Passes
    <3>5. n = m
      BY <1>10, <3>1, <3>3, <3>4
    <3> QED
      BY <1>10, <2>1, <3>1, <3>2, <3>5
  <2>3. Carries(data[p], lo, lo0 + 1, p)
    BY <1>8, <1>17 DEF lo0
  <2>4. lo0 + 1 \in Nat /\ lo0 + 1 <= hj /\ (lo0 + 1) - 1 = lo0
    BY <1>9, <1>10, <1>11, <2>1
  <2>5. Carries(data[p], lo, hj, p)
    BY <2>2, <2>3, <2>4, CarriesOn
  <2> QED
    BY <1>3, <1>5, <2>1, <2>5
<1>18. FilterMove(p, to)
  <2>1. DOMAIN fds' = Proc /\ fds' = fds
    BY <1>0, <1>4 DEF Domains
  <2>2. \A l \in Pipes : l # p => Prior(l, p) \/ data'[l] = data[l]
    BY <1>3, <1>5
  <2> QED
    BY <1>4, <1>5, <1>7, <2>1, <2>2 DEF FilterMove
<1>19. to # "none"
  BY <1>12
<1> QED
  BY <1>1, <1>8, <1>14, <1>15, <1>16, <1>17, <1>18, <1>19, FilterMoves

\* The filter meets the end of its pipe: the one before it is done (prime.c:38-42).
LEMMA FilterEnds ==
  ASSUME DOMAIN line = Proc, ~failed, Sieve, Good, NEW p \in Filter, FilterEnd(p)
  PROVE  Kept
<1> USE ProcAre, PipesAre, PrimeAssumption
<1>0. Domains
  BY DEF Good
<1>1. line[p] = "read38" /\ line[p] # "none"
  BY DEF FilterEnd, Goes
<1>2. /\ p \in Nat /\ p >= 2 /\ IsPrime(p) /\ p <= Top /\ FilterOK(p)
      /\ \A l \in Pipes : Prior(l, p) => Carries(data[l], Seen(p), Hi(l), l)
  BY <1>1, FilterFacts
<1>3. PICK k \in Pipes : Prior(k, p) /\ k # p /\ fds[p][in_pipe[p].read][1] = k
  <2>1. line[p] \in {"read38", "write40"}
    BY <1>1
  <2>2. \E k \in Pipes :
           /\ Prior(k, p) /\ k # p /\ in_pipe[p].read \in {3, 4}
           /\ fds[p] = Tab(in_pipe[p].read, <<k, "r">>, Closed, <<p, "w">>)
           /\ fds[p][in_pipe[p].read][1] = k
           /\ filter_pipe[p].write = 5 /\ fds[p][5][1] = p
           /\ filter_pipe[p] = [read |-> 7 - in_pipe[p].read, write |-> 5]
    BY <2>1, FilterTable
  <2> QED
    BY <2>2, Zenon
<1>4. /\ data[k] = <<>> /\ Holders(<<k, "w">>) = {}
      /\ line' = [line EXCEPT ![p] = "close74"]
      /\ data' = data /\ num' = num /\ UNCHANGED <<fds, in_pipe, filter_pipe, stdout, waits, failed>>
  BY <1>3 DEF FilterEnd, AtEnd, Goes, pipeVars
<1>5. DOMAIN line' = Proc /\ line'[p] = "close74" /\ \A q \in Proc : q # p => line'[q] = line[q]
  BY <1>4
<1>6. Finished(k)
  <2>1. Top \in Nat /\ (stdout = <<>> => Top = gen)
    BY TopIs
  <2>2. line[chain] # "none"
    <3>1. stdout # <<>>
      BY <1>2, <2>1
    <3> QED
      BY <3>1 DEF Good, ChainOK
  <2>3. k < p /\ IsPrime(k) /\ k \in Nat
    BY <1>3 DEF Prior
  <2>4. k <= Top /\ k # Top
    BY <1>2, <2>1, <2>3
  <2> QED
    BY <1>4, <2>2, <2>3, <2>4, WriterDone
<1>7. ~Finished(p) /\ p # gen /\ Seen(p) = Far(p) /\ Hi(p) = Far(p) + 1
  BY <1>1 DEF Finished, Seen, Hi
<1> DEFINE lo0 == Far(p)
<1>8. /\ Hi(k) \in Nat /\ Hi(k) > maxprime /\ lo0 \in Nat /\ lo0 <= maxprime
      /\ Carries(data[k], lo0, Hi(k), k)
  BY <1>2, <1>3, <1>6, <1>7, Bounds
<1> HIDE DEF lo0
<1>9. \A n : ~Passes(n, lo0, Hi(k), k)
  BY <1>4, <1>8, CarriesNone
<1>10. Finished(p)' /\ Seen(p)' = maxprime /\ Hi(p)' = maxprime + 1
  <2>1. Finished(p)'
    BY <1>5, <1>7 DEF Finished
  <2> QED
    BY <1>7, <2>1 DEF Seen, Hi
<1>11. FilterOK(p)'
  BY <1>2, <1>4, <1>5 DEF FilterOK
<1>12. Carries(<<>>, maxprime, Hi(k), k)
  <2>1. \A n : ~Passes(n, maxprime, Hi(k), k)
    BY DEF Passes
  <2> QED
    BY <1>8, <2>1, CarriesEmpty
<1>13. \A l \in Pipes : Prior(l, p) => Carries(data'[l], Seen(p)', Hi(l), l)
  BY <1>2, <1>3, <1>4, <1>10, <1>12, PriorUnique
<1>14. ASSUME NEW lo \in Nat, Carries(data[p], lo, Hi(p), p)
       PROVE  Carries(data'[p], lo, Hi(p)', p)
  <2>1. ASSUME NEW n, Passes(n, lo0, maxprime + 1, p)
        PROVE  FALSE
    <3>1. Passes(n, lo0, maxprime + 1, k) /\ n \in Nat
      BY <1>3, <2>1, PassesBoth
    <3>2. Passes(n, lo0, Hi(k), k)
      BY <1>8, <3>1 DEF Passes
    <3> QED
      BY <1>9, <3>2
  <2>2. Carries(data[p], lo, lo0 + 1, p)
    BY <1>7, <1>14 DEF lo0
  <2>3. lo0 + 1 \in Nat /\ maxprime + 1 \in Nat /\ lo0 + 1 <= maxprime + 1 /\ (lo0 + 1) - 1 = lo0
    BY <1>8
  <2>4. Carries(data[p], lo, maxprime + 1, p)
    BY <2>1, <2>2, <2>3, CarriesOn
  <2> QED
    BY <1>4, <1>10, <2>4
<1>15. FilterMove(p, "close74")
  BY <1>0, <1>4, <1>5 DEF FilterMove, Domains
<1>16. \A l \in Pipes : Prior(l, p) => Finished(l)
  BY <1>2, <1>3, <1>6, PriorUnique
<1> QED
  BY <1>1, <1>10, <1>11, <1>13, <1>14, <1>15, <1>16, FilterMoves

\* The filter writes the number it has kept; its reader is still there (prime.c:40).
LEMMA FilterWrites ==
  ASSUME DOMAIN line = Proc, ~failed, Sieve, Good, NEW p \in Filter, FilterWrite(p)
  PROVE  Kept
<1> USE ProcAre, PipesAre, PrimeAssumption
<1>0. Domains
  BY DEF Good
<1>1. line[p] = "write40" /\ line[p] # "none"
  BY DEF FilterWrite, WriteNum
<1>2. /\ p \in Nat /\ p >= 2 /\ IsPrime(p) /\ p <= Top /\ FilterOK(p)
      /\ \A l \in Pipes : Prior(l, p) => Carries(data[l], Seen(p), Hi(l), l)
  BY <1>1, FilterFacts
<1> DEFINE f == in_pipe[p].read
<1>3. PICK k \in Pipes :
        /\ Prior(k, p) /\ f \in {3, 4}
        /\ fds[p] = Tab(f, <<k, "r">>, Closed, <<p, "w">>)
        /\ filter_pipe[p].write = 5 /\ fds[p][5][1] = p
        /\ filter_pipe[p] = [read |-> 7 - f, write |-> 5]
  BY <1>1, FilterTable
<1>4. ~Finished(p) /\ p # gen
  BY <1>1 DEF Finished
<1>5. Holders(<<p, "r">>) # {}
  BY <1>1, <1>2, <1>4, ReaderThere
<1> DEFINE n == num[p]
<1>6. /\ data' = [data EXCEPT ![p] = Append(data[p], n)]
      /\ line' = [line EXCEPT ![p] = "read38"] /\ fds' = fds
      /\ num' = num /\ UNCHANGED <<in_pipe, filter_pipe, stdout, waits, failed>>
  BY <1>3, <1>5 DEF FilterWrite, WriteNum, Goes, pipeVars
<1>7. n \in Nat /\ n \in 2 .. maxprime /\ n > p /\ Survives(n, p)
  BY <1>1, <1>2 DEF FilterOK
<1>8. /\ DOMAIN data' = Pipes /\ data'[p] = Append(data[p], n) /\ \A l \in Pipes : l # p => data'[l] = data[l]
      /\ DOMAIN line' = Proc /\ line'[p] = "read38" /\ \A q \in Proc : q # p => line'[q] = line[q]
  BY <1>0, <1>6 DEF Domains
<1>9. Far(p) = n /\ Seen(p) = n /\ Hi(p) = n
  BY <1>1, <1>4, <1>7 DEF Far, Seen, Hi
<1>10. ~Finished(p)' /\ Seen(p)' = n /\ Hi(p)' = n + 1
  <2>1. ~Finished(p)'
    BY <1>4, <1>8 DEF Finished
  <2>2. Far(p)' = n
    BY <1>6, <1>7 DEF Far
  <2> QED
    BY <1>4, <1>8, <2>1, <2>2 DEF Seen, Hi
<1>11. FilterOK(p)'
  <2>1. in_pipe'[p].read = f /\ filter_pipe'[p] = filter_pipe[p] /\ fds'[p] = fds[p] /\ num'[p] = num[p]
    BY <1>6
  <2> HIDE DEF f
  <2> QED
    BY <1>3, <1>7, <1>8, <2>1 DEF FilterOK
<1> HIDE DEF n
<1>12. \A l \in Pipes : Prior(l, p) => Carries(data'[l], Seen(p)', Hi(l), l)
  <2>1. \A l \in Pipes : Prior(l, p) => l # p
    BY <1>2 DEF Prior
  <2>2. \A l \in Pipes : Prior(l, p) => data'[l] = data[l]
    BY <1>8, <2>1
  <2>3. Seen(p)' = Seen(p)
    BY <1>9, <1>10
  <2> QED
    BY <1>2, <2>2, <2>3
<1>13. ASSUME NEW lo \in Nat, Carries(data[p], lo, Hi(p), p)
       PROVE  Carries(data'[p], lo, Hi(p)', p)
  BY <1>7, <1>8, <1>9, <1>10, <1>13, CarriesPut
<1>14. FilterMove(p, "read38")
  BY <1>0, <1>6, <1>8 DEF FilterMove, Domains
<1> QED
  BY <1>1, <1>4, <1>10, <1>11, <1>12, <1>13, <1>14, FilterMoves

\* A Fork of main or of the chain fails.
LEMMA ForkFailsStep ==
  ASSUME DOMAIN line = Proc, Sieve, Good, NEW p \in {parent, chain}, ForkFails(p)
  PROVE  DOMAIN line' = Proc /\ failed' = TRUE /\ Sieve' /\ Stopped'
<1> USE ProcAre
<1>1. /\ line[p] \in {"fork93", "fork101", "fork62"} /\ line' = [line EXCEPT ![p] = "zombie"]
      /\ stdout' = stdout /\ failed' = TRUE
  BY DEF ForkFails, Exits
<1>2. CASE p = parent
  <2>1. line[parent] \in {"fork93", "fork101"}
    BY <1>1, <1>2 DEF Good, ParentOK
  <2>2. line[chain] = "none"
    BY <2>1 DEF Good, ParentOK
  <2> QED
    BY <1>1, <1>2, <2>2, SieveSame DEF Stopped
<1>3. CASE p = chain
  <2>1. line[chain] = "fork62"
    BY <1>1, <1>3 DEF Good, ChainOK
  <2>2. line[parent] \in {"close102", "wait107", "zombie"}
    BY <2>1 DEF Good, ParentOK
  <2> QED
    BY <1>1, <1>3, <2>2, SieveSame DEF Stopped
<1> QED
  BY <1>2, <1>3

\* Every step keeps the sieve good, or is a Fork that fails.
LEMMA GoodStep ==
  ASSUME SieveInv, ~failed, [PrimeNext]_primeVars
  PROVE  SieveInv'
<1>0. DOMAIN line = Proc /\ failed = FALSE /\ Sieve /\ Good
  BY DEF SieveInv
<1>1. SUFFICES Kept \/ (DOMAIN line' = Proc /\ failed' = TRUE /\ Sieve' /\ Stopped')
  BY DEF Kept, SieveInv
<1>2. CASE UNCHANGED primeVars
  <2>1. /\ fds' = fds /\ data' = data /\ line' = line /\ in_pipe' = in_pipe /\ filter_pipe' = filter_pipe
        /\ num' = num /\ stdout' = stdout /\ waits' = waits /\ failed' = failed
    BY <1>2 DEF primeVars, pipeVars
  <2>2. Quiet
    BY <2>1 DEF Quiet, Finished
  <2>3. Sieve' /\ Top' = Top
    BY <1>0, <2>1, SieveSame
  <2>4. Domains' /\ ParentOK' /\ GenOK'
    BY <1>0, <2>1 DEF Good, Domains, ParentOK, GenOK
  <2>5. \A k : Finished(k)' <=> Finished(k)
    BY <2>1 DEF Finished
  <2>6. ChainOK'
    BY <1>0, <2>1, <2>3, <2>5 DEF Good, ChainOK
  <2> QED
    BY <1>0, <2>1, <2>2, <2>3, <2>4, <2>6, QuietKeeps DEF Kept, Good
<1>3. CASE RunMain
  BY <1>0, <1>3, MainStep, ForkFailsStep
<1>4. CASE Generator
  BY <1>0, <1>4, GenStep
<1>5. CASE Chain
  BY <1>0, <1>5, ReadPrimeStep, ChainCloses, ForkFilterStep, ForkFailsStep DEF Chain
<1>6. ASSUME NEW p \in Filter, RunFilter(p)
      PROVE  Kept
  BY <1>0, <1>6, FilterCloses, FilterReads, FilterEnds, FilterWrites DEF RunFilter
<1> QED
  BY <1>2, <1>3, <1>4, <1>5, <1>6 DEF PrimeNext

\* For every maxprime and every size of the pipes the descriptors, the pipes and the
\* output of the sieve are what SieveInv says, however the processes are scheduled.
THEOREM SieveInvariant == PrimeSpec => []SieveInv
<1>1. SieveInv /\ [PrimeNext]_primeVars => SieveInv'
  BY GoodStep, StoppedStep
<1> QED
  BY <1>1, SieveInit, PTL DEF PrimeSpec

\* For every maxprime, every size of the pipes and every schedule prime.c prints the
\* primes in order and none is left out; all up to maxprime when main returns and no
\* Fork has failed (prime.c:58).
THEOREM PrimesInOrderProved == PrimeSpec => []PrimesInOrder
<1>1. SieveInv => PrimesInOrder
  <2> SUFFICES ASSUME SieveInv
               PROVE  PrimesInOrder
    OBVIOUS
  <2>1. Sieve /\ (~failed => Good)
    BY DEF SieveInv
  <2>2. DOMAIN stdout = 1 .. Len(stdout)
    BY <2>1, LenProperties DEF Sieve
  <2>3. \A i, j \in DOMAIN stdout : i < j => stdout[i] < stdout[j]
    BY <2>1, <2>2 DEF Sieve
  <2>4. ToSet(stdout) = {q \in 2 .. Top : IsPrime(q)}
    BY <2>1 DEF Sieve
  <2>5. \E n \in 0 .. maxprime : ToSet(stdout) = {q \in 2 .. n : IsPrime(q)}
    <3>1. CASE Top \in Filter
      <4>1. Top \in 0 .. maxprime
        BY <3>1, PrimeAssumption DEF Filter
      <4> QED
        BY <2>4, <4>1
    <3>2. CASE Top = gen
      <4>1. 2 .. Top = {} /\ 2 .. 0 = {} /\ 0 \in 0 .. maxprime
        BY <3>2, PipesAre, PrimeAssumption
      <4> QED
        BY <2>4, <4>1
    <3> QED
      BY <2>1, <3>1, <3>2, TopIs
  <2>6. ASSUME line[parent] = "zombie", ~failed
        PROVE  ToSet(stdout) = {q \in 2 .. maxprime : IsPrime(q)}
    <3>1. line[chain] = "gone"
      BY <2>1, <2>6 DEF Good, ParentOK
    <3>2. \A n \in 2 .. maxprime : IsPrime(n) => n <= Top
      BY <2>1, <2>6, <3>1 DEF Good, ChainOK
    <3>3. Top \in Nat /\ (Top = gen \/ Top \in Filter)
      BY <2>1, TopIs
    <3>4. \A q : q \in 2 .. Top => q \in 2 .. maxprime
      BY <3>3, PipesAre, PrimeAssumption DEF Filter
    <3>5. \A q : q \in 2 .. maxprime /\ IsPrime(q) => q \in 2 .. Top
      BY <3>2, <3>3, PrimeAssumption
    <3> QED
      BY <2>4, <3>4, <3>5
  <2> QED
    BY <2>3, <2>5, <2>6 DEF PrimesInOrder
<1> QED
  BY <1>1, SieveInvariant, PTL

=============================================================================
