------------------------------- MODULE Pipeline -------------------------------
(***************************************************************************)
(* The worker side of domain::pipeline::Pipeline: the input and the output *)
(* queue, the pool of worker threads and the reorder buffer that turns     *)
(* their out-of-order results back into an ordered stream.                 *)
(*                                                                         *)
(* A frame is its sequence number; the image it carries is not modelled,   *)
(* nor is the end-of-stream mark, which the workers pass on like any other *)
(* frame.  A blocking queue operation is a step whose guard is the wait    *)
(* predicate; ThreadSafeQueue shows that the condition variables implement *)
(* such steps.                                                             *)
(*                                                                         *)
(* This module has no Init and no Next of its own: PipelineClient closes   *)
(* it with the most general client, VideoRunner and ImageBatch with the    *)
(* real ones.                                                              *)
(***************************************************************************)
EXTENDS Integers, Sequences, FiniteSets

CONSTANTS Worker,            \* the worker_thread_count worker threads
          Id,                \* the sequence numbers frames may carry
          MaxQueueSize,      \* max_queue_size, of either queue
          BatchSize,         \* frames a worker takes at once (4 in the code)
          None               \* no thread

ASSUME WorkerAssumption == None \notin Worker
ASSUME IdAssumption == Id \subseteq Nat
ASSUME SizeAssumption == MaxQueueSize \in Nat \ {0} /\ BatchSize \in Nat \ {0}

VARIABLES active,            \* m_active
          inQ, inShut,       \* m_input_queue: contents, m_shutdown
          outQ, outShut,     \* m_output_queue
          wpc,               \* where each worker is in worker_loop
          batch,             \* the frames a worker holds, first to do first
          lock,              \* holder of m_reorder_mutex
          reorder,           \* keys of m_reorder_buffer
          nextSeq,           \* m_next_sequence_id
          dropped            \* history: frames discarded after acceptance

core == <<active, inQ, inShut, outQ, outShut, wpc, batch, lock, reorder,
          nextSeq, dropped>>

WorkerState ==
  {"none", "loop", "fetch", "process", "lock", "emit", "drain", "exited"}

CoreTypeOK ==
  /\ active \in BOOLEAN /\ inShut \in BOOLEAN /\ outShut \in BOOLEAN
  /\ inQ \in Seq(Id) /\ Len(inQ) <= MaxQueueSize
  /\ outQ \in Seq(Id) /\ Len(outQ) <= MaxQueueSize
  /\ wpc \in [Worker -> WorkerState]
  /\ batch \in [Worker -> Seq(Id)]
  /\ \A w \in Worker : Len(batch[w]) <= BatchSize
  /\ lock \in Worker \cup {None}
  /\ reorder \in SUBSET Id
  /\ nextSeq \in Nat
  /\ dropped \in SUBSET Id

CoreInit ==
  /\ active = FALSE
  /\ inQ = <<>> /\ inShut = FALSE
  /\ outQ = <<>> /\ outShut = FALSE
  /\ wpc = [w \in Worker |-> "none"]
  /\ batch = [w \in Worker |-> <<>>]
  /\ lock = None
  /\ reorder = {}
  /\ nextSeq = 0
  /\ dropped = {}

-----------------------------------------------------------------------------
(* The queue operations: push discards its frame once the queue is shut. *)

\* Seeded bug: the size test is off by one.
CanPushOneTooMany(q, shut) == Len(q) <= MaxQueueSize \/ shut

CanPush(q, shut) == Len(q) < MaxQueueSize \/ shut

Pushed(q, shut, id) == IF shut THEN q ELSE Append(q, id)

BatchLen == IF Len(inQ) < BatchSize THEN Len(inQ) ELSE BatchSize

-----------------------------------------------------------------------------
(* worker_loop *)

\* while (m_active)
Loop(w) ==
  /\ wpc[w] = "loop"
  /\ wpc' = [wpc EXCEPT ![w] = IF active THEN "fetch" ELSE "exited"]
  /\ UNCHANGED <<active, inQ, inShut, outQ, outShut, batch, lock, reorder,
                 nextSeq, dropped>>

\* pop_batch returns frames: everything queued, up to the batch size, even
\* after a shutdown.
Fetch(w) ==
  /\ wpc[w] = "fetch"
  /\ inQ # <<>>
  /\ batch' = [batch EXCEPT ![w] = SubSeq(inQ, 1, BatchLen)]
  /\ inQ' = SubSeq(inQ, BatchLen + 1, Len(inQ))
  /\ wpc' = [wpc EXCEPT ![w] = "process"]
  /\ UNCHANGED <<active, inShut, outQ, outShut, lock, reorder, nextSeq,
                 dropped>>

\* pop_batch returns nothing, which it does only after a shutdown.
FetchNone(w) ==
  /\ wpc[w] = "fetch"
  /\ inQ = <<>>
  /\ inShut
  /\ wpc' = [wpc EXCEPT ![w] = "exited"]
  /\ UNCHANGED <<active, inQ, inShut, outQ, outShut, batch, lock, reorder,
                 nextSeq, dropped>>

\* The for loop of worker_loop moves on to the next frame of the batch.
NextFrame(w) ==
  /\ batch' = [batch EXCEPT ![w] = Tail(batch[w])]
  /\ wpc' = [wpc EXCEPT ![w] =
               IF Len(batch[w]) = 1 THEN "loop" ELSE "process"]

\* The processors run on the frame; its result is kept only if the pipeline
\* is still active when they return.
Process(w) ==
  /\ wpc[w] = "process"
  /\ IF active
       THEN /\ wpc' = [wpc EXCEPT ![w] = "lock"]
            /\ UNCHANGED <<batch, dropped>>
       ELSE /\ dropped' = dropped \cup {Head(batch[w])}
            /\ NextFrame(w)
  /\ UNCHANGED <<active, inQ, inShut, outQ, outShut, lock, reorder, nextSeq>>

\* Seeded bug: an early frame is not put into the buffer.
ParkForgets(w) ==
  /\ wpc[w] = "lock"
  /\ lock = None
  /\ Head(batch[w]) # nextSeq
  /\ NextFrame(w)
  /\ UNCHANGED <<active, inQ, inShut, outQ, outShut, lock, reorder, nextSeq,
                 dropped>>

\* push_to_output_ordered, the frame is early: it waits in the buffer.
Park(w) ==
  /\ wpc[w] = "lock"
  /\ lock = None
  /\ Head(batch[w]) # nextSeq
  /\ reorder' = reorder \cup {Head(batch[w])}
  /\ NextFrame(w)
  /\ UNCHANGED <<active, inQ, inShut, outQ, outShut, lock, nextSeq, dropped>>

\* Seeded bug: a frame that is early is let through as well.
AcquireEarly(w) ==
  /\ wpc[w] = "lock"
  /\ lock = None
  /\ Head(batch[w]) >= nextSeq
  /\ lock' = w
  /\ wpc' = [wpc EXCEPT ![w] = "emit"]
  /\ UNCHANGED <<active, inQ, inShut, outQ, outShut, batch, reorder, nextSeq,
                 dropped>>

\* push_to_output_ordered, it is the frame's turn: the mutex is held from here
\* until the buffer has been drained, also while a push blocks.
Acquire(w) ==
  /\ wpc[w] = "lock"
  /\ lock = None
  /\ Head(batch[w]) = nextSeq
  /\ lock' = w
  /\ wpc' = [wpc EXCEPT ![w] = "emit"]
  /\ UNCHANGED <<active, inQ, inShut, outQ, outShut, batch, reorder, nextSeq,
                 dropped>>

\* m_output_queue.push; m_next_sequence_id++ (which only the holder reads).
PushOut(id) ==
  /\ CanPush(outQ, outShut)
  /\ outQ' = Pushed(outQ, outShut, id)
  /\ dropped' = IF outShut THEN dropped \cup {id} ELSE dropped
  /\ nextSeq' = nextSeq + 1

Emit(w) ==
  /\ wpc[w] = "emit"
  /\ PushOut(Head(batch[w]))
  /\ wpc' = [wpc EXCEPT ![w] = "drain"]
  /\ UNCHANGED <<active, inQ, inShut, outShut, batch, lock, reorder>>

\* m_reorder_buffer.begin()->first
IsFirst(id) == id \in reorder /\ \A other \in reorder : id <= other

\* Seeded bug: the frame is not erased from the buffer.
DrainKeeps(w) ==
  /\ wpc[w] = "drain"
  /\ \E id \in reorder : IsFirst(id) /\ id = nextSeq /\ PushOut(id)
  /\ UNCHANGED <<active, inQ, inShut, outShut, wpc, batch, lock, reorder>>

Drain(w) ==
  /\ wpc[w] = "drain"
  /\ \E id \in reorder :
       /\ IsFirst(id) /\ id = nextSeq
       /\ PushOut(id)
       /\ reorder' = reorder \ {id}
  /\ UNCHANGED <<active, inQ, inShut, outShut, wpc, batch, lock>>

\* Seeded bug: the buffer is looked at once at most, not until it is exhausted.
ReleaseEarly(w) ==
  /\ wpc[w] = "drain"
  /\ lock' = None
  /\ NextFrame(w)
  /\ UNCHANGED <<active, inQ, inShut, outQ, outShut, reorder, nextSeq,
                 dropped>>

\* The mutex is released and the next frame of the batch is taken up.
Release(w) ==
  /\ wpc[w] = "drain"
  /\ ~IsFirst(nextSeq)
  /\ lock' = None
  /\ NextFrame(w)
  /\ UNCHANGED <<active, inQ, inShut, outQ, outShut, reorder, nextSeq,
                 dropped>>

WorkerStep(w) ==
  \/ Loop(w) \/ Fetch(w) \/ FetchNone(w) \/ Process(w) \/ Park(w)
  \/ Acquire(w) \/ Emit(w) \/ Drain(w) \/ Release(w)

-----------------------------------------------------------------------------
(* start and the four stages of stop, for a client to sequence. *)

\* m_active.exchange(true), then one thread per worker.
StartWorkers ==
  /\ ~active
  /\ active' = TRUE
  /\ wpc' = [w \in Worker |-> "loop"]
  /\ UNCHANGED <<inQ, inShut, outQ, outShut, batch, lock, reorder, nextSeq,
                 dropped>>

\* m_active.exchange(false); a second stop returns at once.
Deactivate ==
  /\ active
  /\ active' = FALSE
  /\ UNCHANGED <<inQ, inShut, outQ, outShut, wpc, batch, lock, reorder,
                 nextSeq, dropped>>

\* Seeded bug: stop forgets a queue.
ShutNothing == UNCHANGED core

ShutInput ==
  /\ inShut' = TRUE
  /\ UNCHANGED <<active, inQ, outQ, outShut, wpc, batch, lock, reorder,
                 nextSeq, dropped>>

ShutOutput ==
  /\ outShut' = TRUE
  /\ UNCHANGED <<active, inQ, inShut, outQ, wpc, batch, lock, reorder,
                 nextSeq, dropped>>

\* join() of every worker has returned; m_workers.clear().
JoinWorkers ==
  /\ \A w \in Worker : wpc[w] = "exited"
  /\ wpc' = [w \in Worker |-> "none"]
  /\ UNCHANGED <<active, inQ, inShut, outQ, outShut, batch, lock, reorder,
                 nextSeq, dropped>>

-----------------------------------------------------------------------------
(* The two blocking calls of a client. *)

\* The queue operation inside push_frame.
EnqueueFrame(id) ==
  /\ CanPush(inQ, inShut)
  /\ inQ' = Pushed(inQ, inShut, id)
  /\ UNCHANGED <<active, inShut, outQ, outShut, wpc, batch, lock, reorder,
                 nextSeq, dropped>>

\* pop_frame returns a frame.
DequeueFrame ==
  /\ outQ # <<>>
  /\ outQ' = Tail(outQ)
  /\ UNCHANGED <<active, inQ, inShut, outShut, wpc, batch, lock, reorder,
                 nextSeq, dropped>>

\* pop_frame returns nullopt.
NoMoreFrames == outQ = <<>> /\ outShut
=============================================================================
