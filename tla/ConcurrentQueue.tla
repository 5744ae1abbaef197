--------------------------- MODULE ConcurrentQueue ---------------------------
(***************************************************************************)
(* ConcurrentQueue, the bounded queue between a video reader or writer and *)
(* its thread.  Every operation is one critical section.  A thread waits   *)
(* inside push or pop exactly while the operation below is disabled: with  *)
(* one producer and one consumer, whoever makes its condition true also    *)
(* notifies it.                                                            *)
(***************************************************************************)
EXTENDS Naturals, Sequences

CONSTANT MaxSize             \* at least 1

VARIABLE queue               \* m_queue and m_shutdown

NewQueue == [items |-> <<>>, shut |-> FALSE]

\* Waits for room; after shutdown the value is dropped without a word.
Push(value) ==
  /\ Len(queue.items) < MaxSize \/ queue.shut
  /\ queue' = IF queue.shut THEN queue ELSE [queue EXCEPT !.items = Append(@, value)]

\* pop returns a value: the rest of the queue even after shutdown ...
Pop(value) ==
  /\ queue.items # <<>>
  /\ value = Head(queue.items)
  /\ queue' = [queue EXCEPT !.items = Tail(@)]

\* ... and nullopt once there is nothing left.
PopNothing == queue.items = <<>> /\ queue.shut /\ UNCHANGED queue

Shutdown == queue' = [queue EXCEPT !.shut = TRUE]

Reset == queue' = NewQueue
=============================================================================
