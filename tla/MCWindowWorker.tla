--------------------------- MODULE MCWindowWorker ----------------------------
(* TLC instances of WindowWorker. *)
EXTENDS WindowWorker
=============================================================================
