----------------------------- MODULE EchoServer -----------------------------
(***************************************************************************)
(* 9/so21_lista_9/echoserver-fork.c: a server that forks a child for every *)
(* connection.  The table of clients is shared with the children; the      *)
(* handler of SIGCHLD removes the dead ones and sums up what they have     *)
(* read; the handler of SIGINT waits until no client is left, prints the   *)
(* sum and exits.                                                          *)
(*                                                                         *)
(* A signal may interrupt the server between any two steps in which it is  *)
(* not masked.  SIGCHLD is masked in main from line 110 to line 126 and    *)
(* inside its own handler, SIGINT inside its own handler only, which never *)
(* returns to what it interrupted.                                         *)
(***************************************************************************)
EXTENDS Integers, FiniteSets, FiniteSetsExt

CONSTANTS
  Conn,          \* the connections, which also stand for the pids of the children
  NoConn,        \* the pid of a free entry
  Unborn,        \* the pid -1 of an entry that waits for its child
  MAXCLIENTS,    \* entries of the table
  MaxRead        \* bound: what a child reads altogether, in lines

ASSUME EchoAssumption ==
  /\ IsFiniteSet(Conn) /\ NoConn \notin Conn /\ Unborn \notin Conn /\ NoConn # Unborn
  /\ {MAXCLIENTS, MaxRead} \subseteq Nat \ {0}

VARIABLES
  main,          \* the line main() is about to run
  conn,          \* the connection main() is dealing with
  c,             \* the entry main() has added, 0 for NULL
  masked,        \* SIGCHLD is blocked outside its handler
  sigint,        \* the line the handler of SIGINT is about to run
  chld,          \* the line the handler of SIGCHLD is about to run
  pid,           \* its local pid
  pending,       \* a SIGCHLD is pending
  client,        \* the pids in the table
  count,         \* the field nread of each entry
  nclients, nread,
  child,         \* where the child of each connection is
  entry,         \* the entry each child was given, 0 for NULL
  got            \* history: the lines each child has read

server == <<main, conn, c, masked, sigint, chld, pid>>
table == <<client, count, nclients, nread>>
vars == <<server, pending, table, child, entry, got>>

MainLabels == {"accept103", "block110", "add113", "count29", "fork114", "unblock126", "aborted"}
SigintLabels == {"none", "mask57", "test59", "suspend60", "suspended", "exited"}
ChldLabels == {"none", "wait45", "del37", "del39"}

\* A connection has not come yet; is accepted; its child has been forked, ignores
\* SIGINT, echoes, is dead, has been waited for; or sleeps in the handler of SIGINT it
\* has inherited.
ChildLabels == {"none", "accepted", "born", "deaf", "echo", "zombie", "gone", "stuck"}

Slot == 1 .. MAXCLIENTS

Init ==
  /\ main = "accept103" /\ conn = NoConn /\ c = 0 /\ masked = FALSE
  /\ sigint = "none" /\ chld = "none" /\ pid = NoConn
  /\ pending = FALSE
  /\ client = [s \in Slot |-> NoConn]
  /\ count = [s \in Slot |-> 0]
  /\ nclients = 0
  /\ nread = 0
  /\ child = [k \in Conn |-> "none"]
  /\ entry = [k \in Conn |-> 0]
  /\ got = [k \in Conn |-> 0]

\* findclient: the first entry with that pid, 0 for NULL.
findclient(k) ==
  LET found == {s \in Slot : client[s] = k} IN IF found = {} THEN 0 ELSE Min(found)

Running == main # "aborted" /\ sigint # "exited"
MainRuns == Running /\ sigint = "none" /\ chld = "none"
Goto(from, to) == MainRuns /\ main = from /\ main' = to

-----------------------------------------------------------------------------
Accept(k) ==
  /\ Goto("accept103", "block110")
  /\ child[k] = "none"
  /\ child' = [child EXCEPT ![k] = "accepted"]
  /\ conn' = k
  /\ UNCHANGED <<c, masked, sigint, chld, pid, pending, table, entry, got>>

BlockChld ==
  /\ Goto("block110", "add113")
  /\ masked' = TRUE
  /\ UNCHANGED <<conn, c, sigint, chld, pid, pending, table, child, entry, got>>

\* The mutant leaves the entry free until the child fills it in.
AddClientUnmarked ==
  /\ Goto("add113", "count29")
  /\ c' = findclient(NoConn)
  /\ count' = [s \in Slot |-> IF s = c' THEN 0 ELSE count[s]]
  /\ UNCHANGED <<conn, masked, sigint, chld, pid, pending, client, nclients, nread, child, entry, got>>

\* addclient.
AddClient ==
  /\ Goto("add113", "count29")
  /\ c' = findclient(NoConn)
  /\ client' = [s \in Slot |-> IF s = c' THEN Unborn ELSE client[s]]
  /\ count' = [s \in Slot |-> IF s = c' THEN 0 ELSE count[s]]
  /\ UNCHANGED <<conn, masked, sigint, chld, pid, pending, nclients, nread, child, entry, got>>

\* The mutant does not count the client.
CountUpNever ==
  /\ Goto("count29", "fork114")
  /\ UNCHANGED <<conn, c, masked, sigint, chld, pid, pending, table, child, entry, got>>

\* Line 29, reached only with an entry.
CountUp ==
  /\ Goto("count29", "fork114")
  /\ nclients' = IF c = 0 THEN nclients ELSE nclients + 1
  /\ UNCHANGED <<conn, c, masked, sigint, chld, pid, pending, client, count, nread, child, entry, got>>

ForkChild ==
  /\ Goto("fork114", "unblock126")
  /\ child' = [child EXCEPT ![conn] = "born"]
  /\ entry' = [entry EXCEPT ![conn] = c]
  /\ UNCHANGED <<conn, c, masked, sigint, chld, pid, pending, table, got>>

UnblockChld ==
  /\ Goto("unblock126", "accept103")
  /\ masked' = FALSE
  /\ UNCHANGED <<conn, c, sigint, chld, pid, pending, table, child, entry, got>>

-----------------------------------------------------------------------------
\* SIGCHLD is delivered, to main or on top of the handler of SIGINT; it ends a
\* Sigsuspend.
DeliverChld ==
  /\ Running /\ pending /\ ~masked /\ chld = "none"
  /\ pending' = FALSE
  /\ chld' = "wait45"
  /\ sigint' = IF sigint = "suspended" THEN "test59" ELSE sigint
  /\ UNCHANGED <<main, conn, c, masked, pid, table, child, entry, got>>

\* sigchld_handler: waitpid finds a zombie ...
WaitPid ==
  /\ Running /\ chld = "wait45"
  /\ \E k \in Conn :
       /\ child[k] = "zombie"
       /\ child' = [child EXCEPT ![k] = "gone"]
       /\ pid' = k
  /\ chld' = "del37"
  /\ UNCHANGED <<main, conn, c, masked, sigint, pending, table, entry, got>>

\* ... or none, and the handler returns.
WaitPidNone ==
  /\ Running /\ chld = "wait45"
  /\ \A k \in Conn : child[k] # "zombie"
  /\ chld' = "none"
  /\ UNCHANGED <<main, conn, c, masked, sigint, pid, pending, table, child, entry, got>>

\* delclient up to line 38; its assertion may fail.
DelClient ==
  /\ Running /\ chld = "del37"
  /\ LET s == findclient(pid)
     IN  IF s = 0
           THEN main' = "aborted" /\ UNCHANGED <<client, nread, chld>>
           ELSE /\ nread' = nread + count[s]
                /\ client' = [client EXCEPT ![s] = NoConn]
                /\ chld' = "del39"
                /\ UNCHANGED main
  /\ UNCHANGED <<conn, c, masked, sigint, pid, pending, count, nclients, child, entry, got>>

\* The mutant waits for one child per signal: the loop of line 45 as an if.
CountDownReturns ==
  /\ Running /\ chld = "del39"
  /\ nclients' = nclients - 1
  /\ chld' = "none"
  /\ UNCHANGED <<main, conn, c, masked, sigint, pid, pending, client, count, nread, child, entry, got>>

\* Line 39, and back to the loop.
CountDown ==
  /\ Running /\ chld = "del39"
  /\ nclients' = nclients - 1
  /\ chld' = "wait45"
  /\ UNCHANGED <<main, conn, c, masked, sigint, pid, pending, client, count, nread, child, entry, got>>

-----------------------------------------------------------------------------
\* SIGINT from kill(1), or from the terminal, which sends it to the children too: one
\* that does not yet ignore it runs the handler, where its own copy of nclients never
\* falls.  The handler of SIGCHLD may be interrupted and stays masked.
Interrupt ==
  /\ Running /\ sigint = "none"
  /\ sigint' = "mask57"
  /\ masked' = (masked \/ chld # "none")
  /\ chld' = "none"
  /\ \E group \in BOOLEAN :
       child' = [k \in Conn |-> IF group /\ child[k] = "born" THEN "stuck" ELSE child[k]]
  /\ UNCHANGED <<main, conn, c, pid, pending, table, entry, got>>

SigintGoto(from, to) == Running /\ chld = "none" /\ sigint = from /\ sigint' = to

UnmaskChld ==
  /\ SigintGoto("mask57", "test59")
  /\ masked' = FALSE
  /\ UNCHANGED <<main, conn, c, chld, pid, pending, table, child, entry, got>>

TestClients ==
  /\ SigintGoto("test59", IF nclients # 0 THEN "suspend60" ELSE "exited")
  /\ UNCHANGED <<main, conn, c, masked, chld, pid, pending, table, child, entry, got>>

\* Sigsuspend with a mask that lets SIGCHLD through; it was let through before, so the
\* signal may have been handled already.
Suspend ==
  /\ SigintGoto("suspend60", "suspended")
  /\ UNCHANGED <<main, conn, c, masked, chld, pid, pending, table, child, entry, got>>

-----------------------------------------------------------------------------
\* The child: lines 116-118.
IgnoreSigint(k) ==
  /\ child[k] = "born"
  /\ child' = [child EXCEPT ![k] = "deaf"]
  /\ UNCHANGED <<server, pending, table, entry, got>>

\* Line 119; without an entry the child dies of the write through NULL.
SetPid(k) ==
  /\ child[k] = "deaf"
  /\ IF entry[k] = 0
       THEN child' = [child EXCEPT ![k] = "zombie"] /\ pending' = TRUE /\ UNCHANGED client
       ELSE /\ client' = [client EXCEPT ![entry[k]] = k]
            /\ child' = [child EXCEPT ![k] = "echo"]
            /\ UNCHANGED pending
  /\ UNCHANGED <<server, count, nclients, nread, entry, got>>

\* echo: a line comes, is sent back and counted, in one step; a Rio_writen that fails and
\* ends the child before line 76 is left out ...
EchoLine(k) ==
  /\ child[k] = "echo"
  /\ count[entry[k]] < MaxRead
  /\ count' = [count EXCEPT ![entry[k]] = @ + 1]
  /\ got' = [got EXCEPT ![k] = @ + 1]
  /\ UNCHANGED <<server, pending, client, nclients, nread, child, entry>>

\* ... or the end of the connection, and the child exits.
EchoEnd(k) ==
  /\ child[k] = "echo"
  /\ child' = [child EXCEPT ![k] = "zombie"]
  /\ pending' = TRUE
  /\ UNCHANGED <<server, table, entry, got>>

-----------------------------------------------------------------------------
Server ==
  \/ BlockChld \/ AddClient \/ CountUp \/ ForkChild \/ UnblockChld
  \/ DeliverChld \/ WaitPid \/ WaitPidNone \/ DelClient \/ CountDown
  \/ UnmaskChld \/ TestClients \/ Suspend

Start(k) == IgnoreSigint(k) \/ SetPid(k)

Next ==
  \/ Server \/ Interrupt
  \/ \E k \in Conn : Accept(k) \/ Start(k) \/ EchoLine(k) \/ EchoEnd(k)

Spec == Init /\ [][Next]_vars

\* The server and a child that starts keep running; clients need not do anything.
FairSpec == Spec /\ WF_vars(Server) /\ \A k \in Conn : WF_vars(Start(k))

-----------------------------------------------------------------------------
TypeOK ==
  /\ main \in MainLabels /\ sigint \in SigintLabels /\ chld \in ChldLabels
  /\ conn \in Conn \cup {NoConn} /\ pid \in Conn \cup {NoConn}
  /\ c \in 0 .. MAXCLIENTS
  /\ masked \in BOOLEAN /\ pending \in BOOLEAN
  /\ client \in [Slot -> Conn \cup {NoConn, Unborn}]
  /\ count \in [Slot -> 0 .. MaxRead]
  /\ nclients \in Nat /\ nread \in Nat
  /\ child \in [Conn -> ChildLabels]
  /\ entry \in [Conn -> 0 .. MAXCLIENTS]
  /\ got \in [Conn -> 0 .. MaxRead]

Used == {s \in Slot : client[s] # NoConn}

\* Until SIGINT comes nclients is the number of used entries, except between the two
\* writes of addclient and of delclient; and a child that echoes or is dead still owns
\* the entry it was given, so its count goes to nobody else.  The assertion of delclient (line
\* 36) fails for no client that was given an entry: only the connection that found the
\* table full can bring the server down.  (The variables have their types, too.)
TableExact ==
  /\ TypeOK
  /\ sigint = "none" /\ Running =>
       Cardinality(Used) + (IF chld = "del39" THEN 1 ELSE 0)
         = nclients + (IF main = "count29" /\ c # 0 THEN 1 ELSE 0)
  /\ \A k \in Conn : child[k] \in {"echo", "zombie"} /\ entry[k] # 0 => client[entry[k]] = k
  /\ main = "aborted" => entry[pid] = 0

\* The lines all the children have read together.
LinesRead == {t \in Conn \X (1 .. MaxRead) : t[2] <= got[t[1]]}

\* The number sigint_handler prints before it exits is what all the children have read
\* together, and no child that may read more is left behind.
ReportComplete ==
  sigint = "exited" =>
    /\ nread = Cardinality(LinesRead)
    /\ \A k \in Conn : entry[k] # 0 => child[k] \in {"none", "gone"}

\* As long as no SIGINT comes every dead child is waited for, although the signals of
\* several deaths are merged into one and SIGCHLD is masked now and then.
ZombiesReaped ==
  \A k \in Conn : child[k] = "zombie" ~> (child[k] = "gone" \/ ~Running \/ sigint # "none")
=============================================================================
