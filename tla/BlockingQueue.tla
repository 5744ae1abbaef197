---------------------------- MODULE BlockingQueue ----------------------------
(***************************************************************************)
(* What a caller of domain::pipeline::ThreadSafeQueue may rely on: push,   *)
(* pop and pop_batch are single steps on a bounded FIFO queue, taken as    *)
(* soon as they can be; shutdown lets every call go.  There is no mutex,   *)
(* no condition variable and nobody to wake up.                            *)
(***************************************************************************)
EXTENDS Naturals, Sequences

CONSTANTS Producer, Consumer,
          Capacity,          \* m_max_size, at least 1
          Most(_)            \* how many items a consumer takes at most

VARIABLES queue,
          shut,              \* m_shutdown
          offer,             \* item each producer is pushing, 0 if in no call
          asking,            \* consumers inside pop or pop_batch
          issued,            \* items offered so far: they are 1, 2, ...
          taken              \* items handed out, oldest first

vars == <<queue, shut, offer, asking, issued, taken>>

Init ==
  /\ queue = <<>> /\ shut = FALSE
  /\ offer = [p \in Producer |-> 0]
  /\ asking = {}
  /\ issued = 0
  /\ taken = <<>>

Offer(p) ==
  /\ offer[p] = 0
  /\ issued' = issued + 1
  /\ offer' = [offer EXCEPT ![p] = issued']
  /\ UNCHANGED <<queue, shut, asking, taken>>

Put(p) ==
  /\ offer[p] # 0
  /\ Len(queue) < Capacity \/ shut
  /\ queue' = IF shut THEN queue ELSE Append(queue, offer[p])
  /\ offer' = [offer EXCEPT ![p] = 0]
  /\ UNCHANGED <<shut, asking, issued, taken>>

Ask(c) ==
  /\ c \notin asking
  /\ asking' = asking \cup {c}
  /\ UNCHANGED <<queue, shut, offer, issued, taken>>

Count(c) == IF Len(queue) < Most(c) THEN Len(queue) ELSE Most(c)

\* Items in the queue are handed out even after a shutdown.
Take(c) ==
  /\ c \in asking
  /\ queue # <<>> \/ shut
  /\ taken' = taken \o SubSeq(queue, 1, Count(c))
  /\ queue' = SubSeq(queue, Count(c) + 1, Len(queue))
  /\ asking' = asking \ {c}
  /\ UNCHANGED <<shut, offer, issued>>

Shut == ~shut /\ shut' = TRUE /\ UNCHANGED <<queue, offer, asking, issued, taken>>

Next ==
  \/ \E p \in Producer : Offer(p) \/ Put(p)
  \/ \E c \in Consumer : Ask(c) \/ Take(c)
  \/ Shut

SafetySpec == Init /\ [][Next]_vars

\* A call that can go through does.
Spec ==
  /\ SafetySpec
  /\ \A p \in Producer : WF_vars(Put(p))
  /\ \A c \in Consumer : WF_vars(Take(c))
=============================================================================
