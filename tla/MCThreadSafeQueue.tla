-------------------------- MODULE MCThreadSafeQueue --------------------------
(* ThreadSafeQueue with a few threads of each kind. *)
EXTENDS ThreadSafeQueue
=============================================================================
