----------------------------- MODULE MCImageBatch -----------------------------
(* ImageBatch on small batches; the first and the last target share a name. *)
EXTENDS ImageBatch

MCId == 0..Targets
MCUnreadable == {{}, {1}}
MCOutputOf == [t \in Target |-> IF t = Targets - 1 THEN 0 ELSE t]
=============================================================================
