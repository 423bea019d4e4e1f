---------------------------- MODULE MCRamenQueue ----------------------------
(* Instance of Ramen for TLC with a queue longer than the restaurant. *)
EXTENDS Ramen
=============================================================================
