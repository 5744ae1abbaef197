----------------------------- MODULE MCTranscode -----------------------------
(***************************************************************************)
(* A video of four frames with one keyframe, queues of one frame, a search *)
(* that gives up after two frames.  The file may be sound, may have a      *)
(* packet that cannot be decoded, or a place that can never be read; the   *)
(* decoder may keep one frame back.  The encoder keeps one frame back, any  *)
(* of its steps may fail, and one frame may have another size.  The         *)
(* pipeline holds two frames.                                               *)
(***************************************************************************)
EXTENDS Transcode

MCFiles ==
  {[lost |-> {}, broken |-> 4, latency |-> 0],
   [lost |-> {}, broken |-> 4, latency |-> 1],
   [lost |-> {1}, broken |-> 4, latency |-> 1],
   [lost |-> {}, broken |-> 2, latency |-> 0]}

MCSinks == {[odd |-> {}, lag |-> 1], [odd |-> {1}, lag |-> 1]}
=============================================================================
