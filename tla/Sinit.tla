-------------------------------- MODULE Sinit --------------------------------
(***************************************************************************)
(* 2/so21_lista_2/sinit.c: the first process of a system.  It blocks every *)
(* signal and takes them one at a time with sigwait, so its handlers are   *)
(* never interrupted; a signal that is already pending is merged with the  *)
(* next of its kind.  Orphans of other processes become its children.      *)
(***************************************************************************)
EXTENDS FiniteSets

CONSTANT Kid            \* the processes that may become children, again and again

ASSUME SinitAssumption == IsFiniteSet(Kid)

VARIABLES
  pend,                 \* the pending signals
  armed,                \* the alarm is set
  init,                 \* where the process is
  kid                   \* each child: "none", "alive" or "zombie"

sinitVars == <<pend, armed, init, kid>>

\* "HUP" stands for the signals that sigmap does not name.
sigmap == [USR1 |-> "spawn", CHLD |-> "reap", ALRM |-> "reap", INT |-> "spawn", HUP |-> "loop"]

\* spawn(rcinitcmd) comes first.
SinitInit ==
  /\ pend = {} /\ armed = FALSE
  /\ init = "spawn"
  /\ kid = [k \in Kid |-> "none"]

InitGoto(from, to) == init = from /\ init' = to

Alarm ==
  /\ InitGoto("loop", "sigwait")
  /\ armed' = TRUE
  /\ UNCHANGED <<pend, kid>>

SigWait ==
  /\ \E s \in pend : pend' = pend \ {s} /\ InitGoto("sigwait", sigmap[s])
  /\ UNCHANGED <<armed, kid>>

\* fork() makes a child, or fails with a message.
Spawn ==
  /\ InitGoto("spawn", "loop")
  /\ \/ \E k \in Kid : kid[k] = "none" /\ kid' = [kid EXCEPT ![k] = "alive"]
     \/ UNCHANGED kid
  /\ UNCHANGED <<pend, armed>>

\* sigreap.  The mutant waits for one child per signal.
ReapOnce ==
  /\ InitGoto("reap", "rearm")
  /\ \E k \in Kid : kid[k] = "zombie" /\ kid' = [kid EXCEPT ![k] = "none"]
  /\ UNCHANGED <<pend, armed>>

Reap ==
  /\ InitGoto("reap", "reap")
  /\ \E k \in Kid : kid[k] = "zombie" /\ kid' = [kid EXCEPT ![k] = "none"]
  /\ UNCHANGED <<pend, armed>>

ReapNone ==
  /\ InitGoto("reap", "rearm")
  /\ \A k \in Kid : kid[k] # "zombie"
  /\ UNCHANGED <<pend, armed, kid>>

Rearm ==
  /\ InitGoto("rearm", "loop")
  /\ armed' = TRUE
  /\ UNCHANGED <<pend, kid>>

-----------------------------------------------------------------------------
\* The rest of the system: the alarm goes off, a signal is sent, a process is orphaned,
\* a child dies.
AlarmRings ==
  /\ armed /\ armed' = FALSE
  /\ pend' = pend \cup {"ALRM"}
  /\ UNCHANGED <<init, kid>>

Sent(s) == pend' = pend \cup {s} /\ UNCHANGED <<armed, init, kid>>

Orphan(k) ==
  /\ kid[k] = "none" /\ kid' = [kid EXCEPT ![k] = "alive"]
  /\ UNCHANGED <<pend, armed, init>>

KidDies(k) ==
  /\ kid[k] = "alive" /\ kid' = [kid EXCEPT ![k] = "zombie"]
  /\ pend' = pend \cup {"CHLD"}
  /\ UNCHANGED <<armed, init>>

-----------------------------------------------------------------------------
InitStep == Alarm \/ SigWait \/ Spawn \/ Reap \/ ReapNone \/ Rearm

SinitNext ==
  \/ InitStep
  \/ AlarmRings
  \/ \E s \in {"USR1", "INT", "HUP"} : Sent(s)
  \/ \E k \in Kid : Orphan(k) \/ KidDies(k)

SinitSpec == SinitInit /\ [][SinitNext]_sinitVars

\* No dead child is forgotten (sinit.c:79): while there is one, a SIGCHLD is pending or
\* sigreap is still looking, although one SIGCHLD stands for any number of deaths and
\* children die while sigreap runs.  So the alarm is never needed to find a zombie.
NoZombieForgotten == (\E k \in Kid : kid[k] = "zombie") => "CHLD" \in pend \/ init = "reap"
=============================================================================
