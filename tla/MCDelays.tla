------------------------------ MODULE MCDelays ------------------------------
(* Delays small enough to follow unit by unit. *)
EXTENDS Delays
=============================================================================
