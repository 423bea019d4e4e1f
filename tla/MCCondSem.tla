------------------------------ MODULE MCCondSem ------------------------------
(* Instances of CondSem for TLC. *)
EXTENDS CondSem

\* init() is also called with a negative value.
MCInitVal == -1 .. 2
=============================================================================
