--------------------------- MODULE MCBarrierCrowd ---------------------------
(* Instance of Barrier for TLC with more horses than the barrier has room for. *)
EXTENDS Barrier
=============================================================================
