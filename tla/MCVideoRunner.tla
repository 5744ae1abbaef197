----------------------------- MODULE MCVideoRunner -----------------------------
(* VideoRunner on small videos. *)
EXTENDS VideoRunner

MCId == 0..(Total + 1)
MCReadable == {0, 2, Total}
=============================================================================
