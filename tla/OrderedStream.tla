---------------------------- MODULE OrderedStream ----------------------------
(***************************************************************************)
(* What the frame pipeline promises its client, with no threads, queues or *)
(* buffers: frames are accepted in any order and handed out by sequence    *)
(* number, 0, 1, 2, ..., each one only after it has been accepted, and as  *)
(* long as the stream is open the next frame is handed out eventually once *)
(* it has been accepted.                                                   *)
(***************************************************************************)
EXTENDS Naturals, Sequences

CONSTANT Id                  \* sequence numbers a client may use, from Nat

VARIABLES accepted,          \* frames the stream has taken responsibility for
          delivered,         \* frames handed out, oldest first
          open               \* neither stopped nor abandoned by its reader

vars == <<accepted, delivered, open>>

Init == /\ accepted = {}
        /\ delivered = <<>>
        /\ open = TRUE

Accept(id) == /\ id \notin accepted
              /\ accepted' = accepted \cup {id}
              /\ UNCHANGED <<delivered, open>>

Deliver == /\ Len(delivered) \in accepted
           /\ delivered' = Append(delivered, Len(delivered))
           /\ UNCHANGED <<accepted, open>>

\* While the stream is open this is the step it owes its reader.
DeliverOpen == open /\ Deliver

Close == open /\ open' = FALSE /\ UNCHANGED <<accepted, delivered>>

Next == (\E id \in Id : Accept(id)) \/ Deliver \/ Close

SafetySpec == Init /\ [][Next]_vars

Spec == SafetySpec /\ WF_vars(DeliverOpen)
=============================================================================
