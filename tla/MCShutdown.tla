------------------------------ MODULE MCShutdown ------------------------------
(* Shutdown with short time-outs. *)
EXTENDS Shutdown
=============================================================================
