--------------------------- MODULE MCPhilosophers ---------------------------
(* Instances of Philosophers for TLC. *)
EXTENDS Philosophers
=============================================================================
