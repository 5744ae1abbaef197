------------------------------ MODULE MCTaskRun ------------------------------
(***************************************************************************)
(* TaskRun with two short videos.  The hash tells one configuration from   *)
(* the other two, which differ in what it leaves out, the parameters of a  *)
(* step, say.                                                              *)
(***************************************************************************)
EXTENDS TaskRun

CONSTANTS plain, tuned, moved

MCVideo == <<"first", "second">>
MCHashOf == [c \in {plain, tuned, moved} |-> IF c = moved THEN moved ELSE plain]
=============================================================================
