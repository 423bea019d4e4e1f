----------------------------- MODULE MCMonitors -----------------------------
(***************************************************************************)
(* Instance for TLC of the ramen restaurant and the post office of list    *)
(* 14, each a few counters under one mutex with condition variables.  They *)
(* do not interact: the initial state chooses which one runs.              *)
(***************************************************************************)
EXTENDS Ramen, Office

VARIABLE program

mcVars == <<program, vars, officeVars>>

MCInit == program \in {"ramen", "office"} /\ Init /\ OfficeInit

\* An action of one of the programs.
OfRamen(act) == program = "ramen" /\ act /\ UNCHANGED <<program, officeVars>>
OfOffice(act) == program = "office" /\ act /\ UNCHANGED <<program, vars>>

MCNext == OfRamen(Next) \/ OfOffice(OfficeNext)

\* With the fairness of FairSpec in Ramen and of OfficeFairSpec in Office.
MCSpec ==
  /\ MCInit /\ [][MCNext]_mcVars
  /\ \A c \in Customer : WF_mcVars(OfRamen(Run(c)))
  /\ WF_mcVars(OfOffice(Clerk)) /\ \A c \in Client : WF_mcVars(OfOffice(RunClient(c)))
=============================================================================
