------------------------------- MODULE MCRide -------------------------------
(***************************************************************************)
(* Instance of Ride for TLC.  ride_init leaves want_to_leave_count as it   *)
(* finds it on the stack: zero is what the program needs; from a negative  *)
(* value, or from seats on, the first ride never ends; a value in between  *)
(* opens the doors too early.                                              *)
(***************************************************************************)
EXTENDS Ride

MCGarbage == -1 .. seats
=============================================================================
