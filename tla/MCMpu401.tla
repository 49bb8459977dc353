------------------------------ MODULE MCMpu401 ------------------------------
(* The driver with an interface of a few bytes and waits of a few units. *)
EXTENDS Mpu401
=============================================================================
