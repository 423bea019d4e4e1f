---------------------------- MODULE MCEchoServer ----------------------------
(***************************************************************************)
(* Instance for TLC of three programs that live by signals: the forking    *)
(* echo server, the init process and the ball game.  They do not interact: *)
(* the initial state chooses which one runs.  The connections are          *)
(* interchangeable, but the run checks liveness, so no symmetry is used.   *)
(***************************************************************************)
EXTENDS EchoServer, Sinit, Cycle

VARIABLE program

MCInit == program \in {"echoserver", "sinit", "cycle"} /\ Init /\ SinitInit /\ CycleInit

MCNext ==
  \/ program = "echoserver" /\ Next /\ UNCHANGED <<program, sinitVars, cycleVars>>
  \/ program = "sinit" /\ SinitNext /\ UNCHANGED <<program, vars, cycleVars>>
  \/ program = "cycle" /\ CycleNext /\ UNCHANGED <<program, vars, sinitVars>>

mcVars == <<program, vars, sinitVars, cycleVars>>

\* An action of one of the programs.
OfServer(act) == program = "echoserver" /\ act /\ UNCHANGED <<program, sinitVars, cycleVars>>
OfCycle(act) == program = "cycle" /\ act /\ UNCHANGED <<program, vars, sinitVars>>

MCSpec ==
  /\ MCInit /\ [][MCNext]_mcVars
  /\ WF_mcVars(OfServer(Server)) /\ \A k \in Conn : WF_mcVars(OfServer(Start(k)))
  /\ WF_mcVars(OfCycle(ForkPlayer \/ Kick)) /\ \A p \in Player : WF_mcVars(OfCycle(Play(p)))
=============================================================================
