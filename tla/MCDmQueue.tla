------------------------------ MODULE MCDmQueue ------------------------------
(* TLC instances of DmQueue. *)
EXTENDS DmQueue
=============================================================================
