------------------------------- MODULE MCCoro -------------------------------
(***************************************************************************)
(* Instance for TLC of the two pipelines: the coroutines of coro.c, which  *)
(* pass characters, and the processes of prime.c, which pass numbers.      *)
(* They do not interact: the initial state chooses which one runs.  The    *)
(* input is made of a small and a capital letter, white space, the byte 0  *)
(* and the byte 0xFF.                                                      *)
(***************************************************************************)
EXTENDS Coro, Prime

CONSTANTS a, A, b, B

MCSwap == a :> A @@ B :> b

VARIABLE program

MCInit ==
  /\ program \in {"coro", "prime"} /\ CoroInit /\ PrimeInit
  /\ program = "prime" => text = <<>>

MCNext ==
  \/ program = "coro" /\ CoroNext /\ UNCHANGED <<program, primeVars>>
  \/ program = "prime" /\ PrimeNext /\ UNCHANGED <<program, coroVars>>

\* An action of one of the programs.
OfCoro(act) == program = "coro" /\ act /\ UNCHANGED <<program, primeVars>>
OfPrime(act) == program = "prime" /\ act /\ UNCHANGED <<program, coroVars>>

mcVars == <<program, coroVars, primeVars>>

MCSpec ==
  /\ MCInit /\ [][MCNext]_mcVars
  /\ WF_mcVars(OfCoro(CoroStep))
  /\ WF_mcVars(OfPrime(RunMain)) /\ WF_mcVars(OfPrime(Generator)) /\ WF_mcVars(OfPrime(Chain))
  /\ \A p \in Filter : WF_mcVars(OfPrime(RunFilter(p)))
=============================================================================
