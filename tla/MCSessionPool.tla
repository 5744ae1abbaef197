---------------------------- MODULE MCSessionPool ----------------------------
(* SessionPool with three keys. *)
EXTENDS SessionPool

MCLimits == {0, 1, 2}
=============================================================================
