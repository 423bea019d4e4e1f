-------------------------------- MODULE Cycle --------------------------------
(***************************************************************************)
(* 2/so21_lista_2/cycle.c: processes in a ring pass a ball, the signal     *)
(* SIGUSR1.  It is blocked before the first fork and let through only in   *)
(* sigsuspend, so a ball waits until its receiver is ready for it.  SIGINT *)
(* makes a process quit at any time.                                       *)
(***************************************************************************)
EXTENDS Integers

CONSTANT children

ASSUME CycleAssumption == children \in Nat \ {0}

\* Player 0 is main, player i the child that was forked as the i-th.
Player == 0 .. children

VARIABLES
  forked,               \* the children main has forked
  loc,                  \* where each player is
  ball,                 \* SIGUSR1 is pending
  kicked                \* history: main has sent the first ball

cycleVars == <<forked, loc, ball, kicked>>

\* The first child passes to main, every other to the one before it, main to the last.
next(p) == IF p = 0 THEN children ELSE p - 1

CycleInit ==
  /\ forked = 0 /\ kicked = FALSE
  /\ loc = [p \in Player |-> IF p = 0 THEN "fork" ELSE "none"]
  /\ ball = [p \in Player |-> FALSE]

PlayGoto(p, from, to) == loc[p] = from /\ loc' = [loc EXCEPT ![p] = to]

\* The mutant does not block the signal: the handler runs at once, and only a player in
\* sigsuspend takes notice.
KillUnblocked(q) == ball' = [ball EXCEPT ![q] = loc[q] = "suspended"]

\* Kill(q, SIGUSR1).  A child that has quit stays as a zombie, which takes any signal.
Kill(q) == ball' = [ball EXCEPT ![q] = loc[q] # "gone"]

ForkPlayer ==
  /\ loc[0] = "fork" /\ forked < children
  /\ forked' = forked + 1
  /\ loc' = [loc EXCEPT ![forked + 1] = "play"]
  /\ UNCHANGED <<ball, kicked>>

Kick ==
  /\ forked = children /\ PlayGoto(0, "fork", "play")
  /\ Kill(children)
  /\ kicked' = TRUE
  /\ UNCHANGED forked

\* play()
SigSuspend(p) == PlayGoto(p, "play", "suspended") /\ UNCHANGED <<forked, ball, kicked>>

Wake(p) ==
  /\ PlayGoto(p, "suspended", "awake")
  /\ ball[p] /\ ball' = [ball EXCEPT ![p] = FALSE]
  /\ UNCHANGED <<forked, kicked>>

Pass(p) ==
  /\ Kill(next(p))
  /\ PlayGoto(p, "awake", "play")
  /\ ~(next(p) = 0 /\ loc[0] = "gone")
  /\ UNCHANGED <<forked, kicked>>

\* The shell has waited for main: Kill reports the error and the process exits.
PassFails(p) ==
  /\ next(p) = 0 /\ loc[0] = "gone"
  /\ PlayGoto(p, "awake", "gone")
  /\ UNCHANGED <<forked, ball, kicked>>

\* SIGINT.
Quit(p) ==
  /\ loc[p] \notin {"none", "gone"}
  /\ loc' = [loc EXCEPT ![p] = "gone"]
  /\ ball' = [ball EXCEPT ![p] = FALSE]
  /\ UNCHANGED <<forked, kicked>>

Play(p) == SigSuspend(p) \/ Wake(p) \/ Pass(p) \/ PassFails(p)

CycleNext == ForkPlayer \/ Kick \/ \E p \in Player : Play(p) \/ Quit(p)

\* A player who can go on does; SIGINT need not come.
CycleSpec ==
  /\ CycleInit /\ [][CycleNext]_cycleVars
  /\ WF_cycleVars(ForkPlayer \/ Kick) /\ \A p \in Player : WF_cycleVars(Play(p))

-----------------------------------------------------------------------------
SomeoneQuit == \E p \in Player : loc[p] = "gone"

\* From the first kick (cycle.c:60) on there is one ball: one player has it, or one has
\* it pending.  It never multiplies, and as long as nobody quits it is not lost, however
\* the sender and the receiver on its way to sigsuspend (cycle.c:14) overtake each other.
OneBall ==
  LET with == {p \in Player : ball[p] \/ loc[p] = "awake"}
  IN  /\ \A p, q \in with : p = q
      /\ \A p \in with : ~(ball[p] /\ loc[p] = "awake")
      /\ kicked /\ ~SomeoneQuit => with # {}

\* The ball comes back to main again and again, and so through everybody's hands, unless
\* somebody quits (cycle.c:14-21).
BallGoesRound == kicked ~> (loc[0] = "awake" \/ SomeoneQuit)
=============================================================================
