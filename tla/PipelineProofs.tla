---------------------------- MODULE PipelineProofs ----------------------------
(***************************************************************************)
(* Proofs about the pipeline for any number of workers, any queue and      *)
(* batch size, any set of sequence numbers and any client.                 *)
(***************************************************************************)
EXTENDS PipelineClient, SequenceTheorems, FiniteSetTheorems, TLAPS

-----------------------------------------------------------------------------
(* The inductive invariant. *)

\* Types of the variables that hold no frames.
Scalars ==
  /\ active \in BOOLEAN /\ inShut \in BOOLEAN /\ outShut \in BOOLEAN
  /\ wpc \in [Worker -> WorkerState]
  /\ lock \in Worker \cup {None}
  /\ nextSeq \in Nat
  /\ reading \in BOOLEAN /\ stopped \in BOOLEAN
  /\ starts \in Nat
  /\ ctl \in {"idle", "shutIn", "shutOut", "join"}

\* Only frames the client pushed are in the pipeline, or came out of it.
Known ==
  /\ accepted \subseteq Id
  /\ refused \subseteq Id
  /\ pushing \in Id \cup {-1}
  /\ inQ \in Seq(accepted)
  /\ outQ \in Seq(accepted)
  /\ batch \in [Worker -> Seq(accepted)]
  /\ reorder \subseteq accepted
  /\ dropped \subseteq accepted
  /\ delivered \in Seq(accepted)

Bounded ==
  /\ Len(inQ) <= MaxQueueSize
  /\ Len(outQ) <= MaxQueueSize
  /\ \A w \in Worker : Len(batch[w]) <= BatchSize

\* A worker past its fetch still holds the frame it is at work on.
Busy == \A w \in Worker :
          wpc[w] \in {"process", "lock", "emit", "drain"} => batch[w] # <<>>

\* Emitting and draining happen under the reorder mutex.
Holding == \A w \in Worker : wpc[w] \in {"emit", "drain"} => lock = w

\* The worker that is about to emit holds the frame whose turn it is.
Turn == \A w \in Worker : wpc[w] = "emit" => Head(batch[w]) = nextSeq

\* The output queue continues what was delivered, and until it is shut it
\* reaches up to the next sequence number.
OutOrder ==
  /\ \A i \in 1..Len(delivered) : delivered[i] = i - 1
  /\ \A i \in 1..Len(outQ) : outQ[i] = Len(delivered) + i - 1
  /\ ~outShut => Len(delivered) + Len(outQ) = nextSeq

IInv == Scalars /\ Known /\ Bounded /\ Busy /\ Holding /\ Turn /\ OutOrder

-----------------------------------------------------------------------------
(* What the building blocks of the actions do. *)

USE WorkerAssumption, IdAssumption, SizeAssumption

\* Moving on to the next frame of a batch keeps the batches well-formed and
\* leaves the other workers alone.
LEMMA NextFrameStep ==
  ASSUME NEW S, NEW w \in Worker,
         wpc \in [Worker -> WorkerState], batch \in [Worker -> Seq(S)],
         batch[w] # <<>>, NextFrame(w)
  PROVE  /\ wpc' \in [Worker -> WorkerState]
         /\ batch' \in [Worker -> Seq(S)]
         /\ wpc'[w] \in {"loop", "process"}
         /\ wpc'[w] = "process" => batch'[w] # <<>>
         /\ Len(batch'[w]) <= Len(batch[w])
         /\ \A v \in Worker \ {w} : wpc'[v] = wpc[v] /\ batch'[v] = batch[v]
<1> DEFINE b == batch[w]
<1>1. b \in Seq(S) /\ b # <<>>
  OBVIOUS
<1>2. Tail(b) \in Seq(S) /\ Len(Tail(b)) = Len(b) - 1 /\ Len(b) \in Nat
  BY <1>1, HeadTailProperties, LenProperties
<1>3. batch' = [batch EXCEPT ![w] = Tail(b)]
  BY DEF NextFrame
<1>4. wpc' = [wpc EXCEPT ![w] = IF Len(b) = 1 THEN "loop" ELSE "process"]
  BY DEF NextFrame
<1>5. Len(b) # 0
  BY <1>1, EmptySeq
<1>6. wpc'[w] = "process" => Tail(b) # <<>>
  <2>1. wpc'[w] = "process" => Len(b) # 1
    BY <1>4 DEF WorkerState
  <2>2. Len(b) # 1 => Len(Tail(b)) # 0
    BY <1>2, <1>5
  <2>3. Len(<<>>) = 0
    BY EmptySeq
  <2>4. QED
    BY <2>1, <2>2, <2>3
<1>7. QED
  BY <1>2, <1>3, <1>4, <1>6 DEF WorkerState, b

\* Pushing the next frame to the output queue keeps the stream in order.
LEMMA PushOutStep ==
  ASSUME IInv, PushOut(nextSeq), nextSeq \in accepted,
         UNCHANGED <<accepted, delivered, outShut>>
  PROVE  /\ outQ' \in Seq(accepted)
         /\ Len(outQ') <= MaxQueueSize
         /\ dropped' \subseteq accepted
         /\ nextSeq' = nextSeq + 1
         /\ nextSeq' \in Nat
         /\ OutOrder'
<1> USE DEF IInv, Scalars, Known, Bounded, OutOrder, PushOut, CanPush, Pushed
<1>1. Len(outQ) \in Nat /\ Len(delivered) \in Nat
  BY LenProperties
<1>2. CASE outShut
  BY <1>1, <1>2
<1>3. CASE ~outShut
  <2>1. outQ' = Append(outQ, nextSeq)
    BY <1>3
  <2>2. /\ outQ' \in Seq(accepted)
        /\ Len(outQ') = Len(outQ) + 1
        /\ \A i \in 1..Len(outQ) : outQ'[i] = outQ[i]
        /\ outQ'[Len(outQ) + 1] = nextSeq
    BY <2>1, AppendProperties
  <2>3. \A i \in 1..Len(outQ') : outQ'[i] = Len(delivered) + i - 1
    BY <1>1, <1>3, <2>2
  <2>4. QED
    BY <1>1, <1>3, <2>2, <2>3
<1>4. QED
  BY <1>2, <1>3

\* A worker that moves on to its next frame, having discarded or parked the
\* one it had or having let go of the mutex, keeps the invariant.
LEMMA NextFrameKeeps ==
  ASSUME IInv, NEW w \in Worker,
         wpc[w] \in {"process", "lock", "drain"},
         NextFrame(w),
         lock' = lock \/ (wpc[w] = "drain" /\ lock' = None),
         reorder' \subseteq accepted, dropped' \subseteq accepted,
         UNCHANGED <<active, inQ, inShut, outQ, outShut, nextSeq, client>>
  PROVE  IInv'
<1> USE DEF IInv, client
<1>1. batch[w] # <<>>
  BY DEF Busy
<1>2. /\ wpc' \in [Worker -> WorkerState]
      /\ batch' \in [Worker -> Seq(accepted)]
      /\ wpc'[w] \in {"loop", "process"}
      /\ wpc'[w] = "process" => batch'[w] # <<>>
      /\ Len(batch'[w]) <= Len(batch[w])
      /\ \A v \in Worker \ {w} : wpc'[v] = wpc[v] /\ batch'[v] = batch[v]
  BY <1>1, NextFrameStep DEF Scalars, Known
<1>3. Scalars' /\ Known' /\ OutOrder'
  BY <1>2 DEF Scalars, Known, OutOrder
<1>4. Bounded'
  <2>1. Len(batch[w]) \in Nat /\ Len(batch'[w]) \in Nat
    BY <1>2, LenProperties DEF Known
  <2>2. QED
    BY <1>2, <2>1 DEF Bounded
<1>5. Busy' /\ Turn'
  BY <1>2 DEF Busy, Turn
<1>6. Holding'
  BY <1>2 DEF Holding, Scalars
<1>7. QED
  BY <1>3, <1>4, <1>5, <1>6

-----------------------------------------------------------------------------
(* The invariant holds initially and every step keeps it. *)

\* Nothing has been pushed and nobody is at work.
LEMMA InvInit == Init => IInv
<1> SUFFICES ASSUME Init PROVE IInv
  OBVIOUS
<1> USE DEF Init, CoreInit
<1>1. Scalars
  BY DEF Scalars, WorkerState
<1>2. Known
  BY EmptySeq DEF Known
<1>3. Bounded
  BY EmptySeq DEF Bounded
<1>4. Busy /\ Holding /\ Turn
  BY DEF Busy, Holding, Turn
<1>5. OutOrder
  BY EmptySeq DEF OutOrder
<1>6. QED
  BY <1>1, <1>2, <1>3, <1>4, <1>5 DEF IInv

\* The steps of one worker.
LEMMA WorkerKeepsInv ==
  ASSUME IInv, NEW w \in Worker, WorkStep(w)
  PROVE  IInv'
<1> USE DEF IInv
<1>0. UNCHANGED client
  BY DEF WorkStep
<1>1. CASE Loop(w)
  BY <1>0, <1>1 DEF Loop, client, Scalars, Known, Bounded, Busy, Holding, Turn,
                    OutOrder, WorkerState
<1>2. CASE Fetch(w)
  <2> DEFINE taken == SubSeq(inQ, 1, BatchLen)
             left == SubSeq(inQ, BatchLen + 1, Len(inQ))
  <2>1. /\ batch' = [batch EXCEPT ![w] = taken]
        /\ inQ' = left
        /\ wpc' = [wpc EXCEPT ![w] = "process"]
        /\ UNCHANGED <<active, inShut, outQ, outShut, lock, reorder, nextSeq,
                       dropped>>
    BY <1>2 DEF Fetch
  <2>2. Len(inQ) \in Nat \ {0} /\ BatchLen \in 1..Len(inQ)
        /\ BatchLen <= BatchSize
    BY <1>2, EmptySeq DEF Fetch, Known, BatchLen
  <2>3. \A i \in 1..Len(inQ) : inQ[i] \in accepted
    BY ElementOfSeq DEF Known
  <2>4. /\ taken \in Seq(accepted)
        /\ Len(taken) = BatchLen
    BY <2>2, <2>3, SubSeqProperties
  <2>5. /\ left \in Seq(accepted)
        /\ Len(left) <= Len(inQ)
    BY <2>2, <2>3, SubSeqProperties
  <2>6. taken # <<>>
    BY <2>2, <2>4, EmptySeq
  <2> HIDE DEF taken, left
  <2>7. Scalars' /\ Holding' /\ Turn'
    BY <1>0, <2>1 DEF client, Scalars, Holding, Turn, WorkerState
  <2>8. Known' /\ Bounded'
    BY <1>0, <2>1, <2>2, <2>4, <2>5 DEF client, Known, Bounded
  <2>9. Busy'
    BY <2>1, <2>6 DEF Busy, Known, Scalars
  <2>10. OutOrder'
    BY <1>0, <2>1 DEF client, OutOrder
  <2>11. QED
    BY <2>7, <2>8, <2>9, <2>10
<1>3. CASE FetchNone(w)
  BY <1>0, <1>3 DEF FetchNone, client, Scalars, Known, Bounded, Busy, Holding,
                    Turn, OutOrder, WorkerState
<1>4. CASE Process(w)
  <2>1. CASE active
    BY <1>0, <1>4, <2>1 DEF Process, client, Scalars, Known, Bounded, Busy,
                            Holding, Turn, OutOrder, WorkerState
  <2>2. CASE ~active
    <3>1. batch[w] # <<>> /\ Head(batch[w]) \in accepted
      BY <1>4, HeadTailProperties DEF Process, Busy, Known
    <3>2. /\ NextFrame(w)
          /\ dropped' = dropped \cup {Head(batch[w])}
          /\ wpc[w] = "process"
          /\ UNCHANGED <<active, inQ, inShut, outQ, outShut, lock, reorder,
                         nextSeq>>
      BY <1>4, <2>2 DEF Process
    <3>3. reorder' \subseteq accepted /\ dropped' \subseteq accepted
      BY <3>1, <3>2 DEF Known
    <3>4. QED
      BY <1>0, <3>2, <3>3, NextFrameKeeps
  <2>3. QED
    BY <2>1, <2>2 DEF Scalars
<1>5. CASE Park(w)
  <2>1. batch[w] # <<>> /\ Head(batch[w]) \in accepted
    BY <1>5, HeadTailProperties DEF Park, Busy, Known
  <2>2. /\ NextFrame(w)
        /\ reorder' = reorder \cup {Head(batch[w])}
        /\ wpc[w] = "lock"
        /\ UNCHANGED <<active, inQ, inShut, outQ, outShut, lock, nextSeq,
                       dropped>>
    BY <1>5 DEF Park
  <2>3. reorder' \subseteq accepted /\ dropped' \subseteq accepted
    BY <2>1, <2>2 DEF Known
  <2>4. QED
    BY <1>0, <2>2, <2>3, NextFrameKeeps
<1>6. CASE Acquire(w)
  <2>1. Scalars' /\ Known' /\ Bounded' /\ Busy' /\ Turn' /\ OutOrder'
    BY <1>0, <1>6 DEF Acquire, client, Scalars, Known, Bounded, Busy, Turn,
                      OutOrder, WorkerState
  <2>2. \A v \in Worker : wpc[v] \notin {"emit", "drain"}
    BY <1>6 DEF Acquire, Holding
  <2>3. Holding'
    BY <1>6, <2>2 DEF Acquire, Holding, Scalars
  <2>4. QED
    BY <2>1, <2>3
<1>7. CASE Emit(w)
  <2>1. nextSeq \in accepted
    BY <1>7, HeadTailProperties DEF Emit, Turn, Busy, Known
  <2>2. /\ PushOut(nextSeq)
        /\ wpc[w] = "emit"
        /\ wpc' = [wpc EXCEPT ![w] = "drain"]
        /\ UNCHANGED <<active, inQ, inShut, outShut, batch, lock, reorder>>
    BY <1>7 DEF Emit, Turn
  <2>3. /\ outQ' \in Seq(accepted)
        /\ Len(outQ') <= MaxQueueSize
        /\ dropped' \subseteq accepted
        /\ nextSeq' \in Nat
        /\ OutOrder'
    BY <1>0, <2>1, <2>2, PushOutStep DEF client
  <2>4. Scalars' /\ Known' /\ Bounded' /\ Busy' /\ Holding'
    BY <1>0, <2>2, <2>3 DEF client, Scalars, Known, Bounded, Busy, Holding,
                            WorkerState
  <2>5. Turn'
    BY <2>2 DEF Turn, Holding, Scalars
  <2>6. QED
    BY <2>3, <2>4, <2>5
<1>8. CASE Drain(w)
  <2>1. nextSeq \in accepted
    BY <1>8 DEF Drain, Known
  <2>2. /\ PushOut(nextSeq)
        /\ wpc[w] = "drain"
        /\ reorder' = reorder \ {nextSeq}
        /\ UNCHANGED <<active, inQ, inShut, outShut, wpc, batch, lock>>
    BY <1>8 DEF Drain
  <2>3. /\ outQ' \in Seq(accepted)
        /\ Len(outQ') <= MaxQueueSize
        /\ dropped' \subseteq accepted
        /\ nextSeq' \in Nat
        /\ OutOrder'
    BY <1>0, <2>1, <2>2, PushOutStep DEF client
  <2>4. Scalars' /\ Known' /\ Bounded' /\ Busy' /\ Holding'
    BY <1>0, <2>2, <2>3 DEF client, Scalars, Known, Bounded, Busy, Holding
  <2>5. Turn'
    BY <2>2 DEF Turn, Holding, Scalars
  <2>6. QED
    BY <2>3, <2>4, <2>5
<1>9. CASE Release(w)
  <2>1. batch[w] # <<>>
    BY <1>9 DEF Release, Busy
  <2>2. /\ NextFrame(w)
        /\ lock' = None
        /\ wpc[w] = "drain"
        /\ UNCHANGED <<active, inQ, inShut, outQ, outShut, reorder, nextSeq,
                       dropped>>
    BY <1>9 DEF Release
  <2>3. reorder' \subseteq accepted /\ dropped' \subseteq accepted
    BY <2>1, <2>2 DEF Known
  <2>4. QED
    BY <1>0, <2>2, <2>3, NextFrameKeeps
<1>10. QED
  BY <1>1, <1>2, <1>3, <1>4, <1>5, <1>6, <1>7, <1>8, <1>9
     DEF WorkStep, WorkerStep

\* The steps of the client's threads.
LEMMA ClientKeepsInv ==
  ASSUME IInv,
         \/ \E id \in Id : PushTest(id)
         \/ PushDo \/ PopFrame \/ PopNothing \/ Leave
         \/ Start \/ StopBegin \/ StopStep
  PROVE  IInv'
<1> USE DEF IInv
<1>1. CASE \E id \in Id : PushTest(id)
  <2>1. PICK id \in Id : PushTest(id)
    BY <1>1
  <2>2. /\ UNCHANGED <<core, accepted, delivered, reading, ctl, starts, stopped>>
        /\ pushing' \in Id \cup {-1}
        /\ refused' \subseteq Id
    BY <2>1 DEF PushTest, Known
  <2>3. Scalars' /\ Bounded' /\ Busy' /\ Holding' /\ Turn' /\ OutOrder'
    BY <2>2 DEF core, Scalars, Bounded, Busy, Holding, Turn, OutOrder
  <2>4. Known'
    BY <2>2 DEF core, Known
  <2>5. QED
    BY <2>3, <2>4
<1>2. CASE PushDo
  <2>1. /\ pushing \in Id
        /\ CanPush(inQ, inShut)
        /\ inQ' = Pushed(inQ, inShut, pushing)
        /\ accepted' = IF inShut THEN accepted ELSE accepted \cup {pushing}
        /\ refused' = IF inShut THEN refused \cup {pushing} ELSE refused
        /\ pushing' = -1
        /\ UNCHANGED <<active, inShut, outQ, outShut, wpc, batch, lock,
                       reorder, nextSeq, dropped>>
        /\ UNCHANGED <<delivered, reading, ctl, starts, stopped>>
    BY <1>2 DEF PushDo, EnqueueFrame, Known
  <2>2. accepted \subseteq accepted' /\ accepted' \subseteq Id
    BY <2>1 DEF Known
  <2>3. inQ \in Seq(accepted')
    BY <2>2, SeqMonotonic DEF Known
  <2>4. inQ' \in Seq(accepted') /\ Len(inQ') <= MaxQueueSize
    <3>1. CASE inShut
      BY <2>1, <2>3, <3>1 DEF Pushed, Bounded
    <3>2. CASE ~inShut
      <4>1. inQ' = Append(inQ, pushing) /\ pushing \in accepted'
        BY <2>1, <3>2 DEF Pushed
      <4>2. inQ' \in Seq(accepted') /\ Len(inQ') = Len(inQ) + 1
        BY <2>3, <4>1, AppendProperties
      <4>3. Len(inQ) < MaxQueueSize /\ Len(inQ) \in Nat
        BY <2>1, <2>3, <3>2, LenProperties DEF CanPush
      <4>4. QED
        BY <4>2, <4>3
    <3>3. QED
      BY <3>1, <3>2
  <2>5. outQ' \in Seq(accepted') /\ delivered' \in Seq(accepted')
    BY <2>1, <2>2, SeqMonotonic DEF Known
  <2>6. batch' \in [Worker -> Seq(accepted')]
    <3>1. \A w \in Worker : batch[w] \in Seq(accepted')
      BY <2>2, SeqMonotonic DEF Known
    <3>2. QED
      BY <2>1, <3>1 DEF Known
  <2>7. Known'
    BY <2>1, <2>2, <2>4, <2>5, <2>6 DEF Known
  <2>8. Scalars' /\ Bounded' /\ Busy' /\ Holding' /\ Turn' /\ OutOrder'
    BY <2>1, <2>4 DEF Scalars, Bounded, Busy, Holding, Turn, OutOrder
  <2>9. QED
    BY <2>7, <2>8
<1>3. CASE PopFrame
  <2>1. /\ outQ # <<>>
        /\ outQ' = Tail(outQ)
        /\ delivered' = Append(delivered, Head(outQ))
        /\ UNCHANGED <<active, inQ, inShut, outShut, wpc, batch, lock,
                       reorder, nextSeq, dropped>>
        /\ UNCHANGED <<pushing, accepted, refused, reading, ctl, starts,
                       stopped>>
    BY <1>3 DEF PopFrame, DequeueFrame
  <2>2. /\ Head(outQ) \in accepted
        /\ Tail(outQ) \in Seq(accepted)
        /\ Len(Tail(outQ)) = Len(outQ) - 1
        /\ \A i \in 1..Len(Tail(outQ)) : Tail(outQ)[i] = outQ[i + 1]
    BY <2>1, HeadTailProperties DEF Known
  <2>3. /\ delivered' \in Seq(accepted)
        /\ Len(delivered') = Len(delivered) + 1
        /\ \A i \in 1..Len(delivered) : delivered'[i] = delivered[i]
        /\ delivered'[Len(delivered) + 1] = Head(outQ)
    BY <2>1, <2>2, AppendProperties DEF Known
  <2>4. Len(outQ) \in Nat \ {0} /\ Len(delivered) \in Nat
    BY <2>1, EmptySeq, LenProperties DEF Known
  <2>5. Head(outQ) = outQ[1]
    BY <2>1 DEF Known
  <2>6. Scalars' /\ Known' /\ Bounded' /\ Busy' /\ Holding' /\ Turn'
    BY <2>1, <2>2, <2>3, <2>4 DEF Scalars, Known, Bounded, Busy, Holding, Turn
  <2>7. OutOrder'
    <3>1. Head(outQ) = Len(delivered)
      BY <2>4, <2>5 DEF OutOrder
    <3>2. \A i \in 1..Len(delivered') : delivered'[i] = i - 1
      BY <2>3, <2>4, <3>1 DEF OutOrder
    <3>3. \A i \in 1..Len(outQ') : outQ'[i] = Len(delivered') + i - 1
      BY <2>1, <2>2, <2>3, <2>4 DEF OutOrder
    <3>4. ~outShut' => Len(delivered') + Len(outQ') = nextSeq'
      BY <2>1, <2>2, <2>3, <2>4 DEF OutOrder
    <3>5. QED
      BY <3>2, <3>3, <3>4 DEF OutOrder
  <2>8. QED
    BY <2>6, <2>7
<1>4. CASE PopNothing \/ Leave
  BY <1>4 DEF PopNothing, Leave, core, Scalars, Known, Bounded, Busy, Holding,
              Turn, OutOrder
<1>5. CASE Start
  BY <1>5 DEF Start, StartWorkers, Scalars, Known, Bounded, Busy, Holding,
              Turn, OutOrder, WorkerState
<1>6. CASE StopBegin
  BY <1>6 DEF StopBegin, Deactivate, Scalars, Known, Bounded, Busy, Holding,
              Turn, OutOrder
<1>7. CASE StopShutInput \/ StopShutOutput
  BY <1>7 DEF StopShutInput, StopShutOutput, ShutInput, ShutOutput, Scalars,
              Known, Bounded, Busy, Holding, Turn, OutOrder
<1>8. CASE StopJoin
  BY <1>8 DEF StopJoin, JoinWorkers, Scalars, Known, Bounded, Busy, Holding,
              Turn, OutOrder, WorkerState
<1>9. QED
  BY <1>1, <1>2, <1>3, <1>4, <1>5, <1>6, <1>7, <1>8 DEF StopStep

\* Every step keeps the invariant.
LEMMA InvStep == IInv /\ [Next]_vars => IInv'
<1> SUFFICES ASSUME IInv, [Next]_vars PROVE IInv'
  OBVIOUS
<1>1. CASE \E w \in Worker : WorkStep(w)
  BY <1>1, WorkerKeepsInv
<1>2. CASE UNCHANGED vars
  BY <1>2 DEF vars, core, client, IInv, Scalars, Known, Bounded, Busy, Holding,
              Turn, OutOrder
<1>3. CASE \/ \E id \in Id : PushTest(id)
           \/ PushDo \/ PopFrame \/ PopNothing \/ Leave
           \/ Start \/ StopBegin \/ StopStep
  BY <1>3, ClientKeepsInv
<1>4. QED
  BY <1>1, <1>2, <1>3 DEF Next

\* The order of the frames and the state of the workers, in every reachable
\* state.
THEOREM Invariance == SafetySpec => []IInv
<1>1. QED
  BY InvInit, InvStep, PTL DEF SafetySpec

-----------------------------------------------------------------------------
(* The results. *)

\* Type correctness, and the bound on both queues: no interleaving of workers,
\* client and stop makes a queue longer than max_queue_size.
THEOREM TypeCorrect == SafetySpec => []TypeOK
<1>1. IInv => TypeOK
  <2> SUFFICES ASSUME IInv PROVE TypeOK
    OBVIOUS
  <2>1. accepted \subseteq Id
    BY DEF IInv, Known
  <2>2. /\ inQ \in Seq(Id) /\ outQ \in Seq(Id) /\ delivered \in Seq(Id)
        /\ batch \in [Worker -> Seq(Id)]
    BY <2>1, SeqMonotonic DEF IInv, Known
  <2>3. CoreTypeOK
    BY <2>1, <2>2 DEF IInv, Scalars, Known, Bounded, CoreTypeOK
  <2>4. ClientTypeOK
    BY <2>1, <2>2 DEF IInv, Scalars, Known, ClientTypeOK
  <2>5. QED
    BY <2>3, <2>4 DEF TypeOK
<1>2. QED
  BY <1>1, Invariance, PTL

\* Strict order: frames come out as 0, 1, 2, ... with none missing and none
\* twice, for any number of workers and any order of pushes.
THEOREM OrderedDelivery == SafetySpec => []InOrder
<1>1. IInv => InOrder
  BY DEF IInv, OutOrder, InOrder
<1>2. QED
  BY <1>1, Invariance, PTL

\* Refinement: every step of workers, client and stop is an accept, a delivery
\* of the next frame, the closing of the stream, or no step of the stream.
\* (That the stream also keeps its promise to deliver is checked by TLC.)
THEOREM ImplementsStream == SafetySpec => StreamSafety
<1> USE DEF Stream!Next, Stream!vars, Stream!Accept, Stream!Deliver,
            Stream!Close
<1>1. Init => Stream!Init
  BY DEF Init, Stream!Init
<1>2. IInv /\ [Next]_vars => [Stream!Next]_(Stream!vars)
  <2> SUFFICES ASSUME IInv, [Next]_vars
               PROVE  [Stream!Next]_(Stream!vars)
    OBVIOUS
  <2>1. CASE \E w \in Worker : WorkStep(w)
    BY <2>1 DEF WorkStep, client
  <2>2. CASE \E id \in Id : PushTest(id)
    BY <2>2 DEF PushTest
  <2>3. CASE PushDo
    <3>1. pushing \in Id
      BY <2>3 DEF PushDo, IInv, Known
    <3>2. CASE inShut \/ pushing \in accepted
      BY <2>3, <3>1, <3>2 DEF PushDo
    <3>3. CASE ~inShut /\ pushing \notin accepted
      <4>1. Stream!Accept(pushing)
        BY <2>3, <3>3 DEF PushDo
      <4>2. QED
        BY <3>1, <4>1
    <3>4. QED
      BY <3>2, <3>3
  <2>4. CASE PopFrame
    <3>1. /\ outQ # <<>>
          /\ delivered' = Append(delivered, Head(outQ))
          /\ UNCHANGED <<accepted, reading, stopped>>
      BY <2>4 DEF PopFrame, DequeueFrame
    <3>2. Head(outQ) \in accepted
      BY <3>1, HeadTailProperties DEF IInv, Known
    <3>3. Len(outQ) \in Nat \ {0} /\ Len(delivered) \in Nat
      BY <3>1, EmptySeq, LenProperties DEF IInv, Known
    <3>4. Head(outQ) = outQ[1]
      BY <3>1 DEF IInv, Known
    <3>5. Head(outQ) = Len(delivered)
      BY <3>3, <3>4 DEF IInv, OutOrder
    <3>6. QED
      BY <3>1, <3>2, <3>5
  <2>5. CASE PopNothing \/ Leave
    BY <2>5 DEF PopNothing, Leave
  <2>6. CASE Start
    BY <2>6 DEF Start
  <2>7. CASE StopBegin
    BY <2>7 DEF StopBegin
  <2>8. CASE StopStep
    BY <2>8 DEF StopStep, StopShutInput, StopShutOutput, StopJoin
  <2>9. CASE UNCHANGED vars
    BY <2>9 DEF vars, client
  <2>10. QED
    BY <2>1, <2>2, <2>3, <2>4, <2>5, <2>6, <2>7, <2>8, <2>9 DEF Next
<1>3. QED
  BY <1>1, <1>2, Invariance, PTL DEF SafetySpec, StreamSafety, Stream!SafetySpec

-----------------------------------------------------------------------------
(* Conservation: the invariant above, and where the frames are. *)

\* The frames each worker holds and has not put out yet, and what came out of
\* the reorder buffer and was not discarded: by OutOrder, the frames 0, 1, ...
Held == [w \in Worker |-> Range(Unfinished(w))]
Out == 0..(Len(delivered) + Len(outQ) - 1)

\* A worker that is not at work holds nothing, and only a worker that emits or
\* drains owns the mutex.
Idle ==
  /\ \A w \in Worker :
       wpc[w] \in {"none", "loop", "fetch", "exited"} => batch[w] = <<>>
  /\ lock # None => wpc[lock] \in {"emit", "drain"}

\* Workers are there between a start and the end of the stop that follows, and
\* nothing is shut or discarded before a stop.
Calm ==
  /\ active => ctl = "idle"
  /\ ~active /\ ctl = "idle" => \A w \in Worker : wpc[w] = "none"
  /\ ctl # "idle" \/ inShut \/ outShut \/ dropped # {} => stopped

\* What is still in the pipeline is not overdue, what came out was accepted,
\* and the frame being pushed has not been pushed before.
Ahead ==
  /\ \A id \in Range(inQ) \cup reorder : nextSeq <= id
  /\ \A w \in Worker : \A id \in Held[w] : nextSeq <= id
  /\ (\A w \in Worker : wpc[w] # "drain") => nextSeq \notin reorder
  /\ Len(delivered) + Len(outQ) <= nextSeq
  /\ 0..(nextSeq - 1) \subseteq accepted
  /\ pushing \notin accepted

\* No frame is anywhere twice, ...
Separate ==
  /\ \A w \in Worker : Held[w] \cap (Range(inQ) \cup reorder \cup dropped) = {}
  /\ \A v, w \in Worker : v # w => Held[v] \cap Held[w] = {}
  /\ Range(inQ) \cap (reorder \cup dropped) = {}
  /\ reorder \cap dropped = {}
  /\ Out \cap dropped = {}

Single == IsInjective(inQ) /\ \A w \in Worker : IsInjective(Unfinished(w))

\* ... and every accepted frame is somewhere.
Whole == \A id \in accepted :
           \/ id \in Range(inQ) \cup reorder \cup dropped \cup Out
           \/ \E w \in Worker : id \in Held[w]

CInv == IInv /\ Idle /\ Calm /\ Ahead /\ Separate /\ Single /\ Whole

-----------------------------------------------------------------------------
(* What taking from and adding to a sequence does to its range. *)

\* The head of a sequence without repetitions is not in its tail.
LEMMA TailRange ==
  ASSUME NEW S, NEW s \in Seq(S), s # <<>>, IsInjective(s)
  PROVE  /\ Range(s) = {Head(s)} \cup Range(Tail(s))
         /\ Head(s) \notin Range(Tail(s))
         /\ IsInjective(Tail(s))
<1>1. /\ Tail(s) \in Seq(S) /\ Len(Tail(s)) = Len(s) - 1
      /\ \A i \in 1..Len(Tail(s)) : Tail(s)[i] = s[i + 1]
      /\ Len(s) \in Nat \ {0} /\ Head(s) = s[1]
  BY HeadTailProperties, EmptySeq, LenProperties
<1>2. DOMAIN s = 1..Len(s) /\ DOMAIN Tail(s) = 1..(Len(s) - 1)
  BY <1>1, LenProperties
<1>3. \A i, j \in 1..Len(s) : s[i] = s[j] => i = j
  BY <1>2 DEF IsInjective
<1>4. IsInjective(Tail(s))
  BY <1>1, <1>2, <1>3 DEF IsInjective
<1>5. Head(s) \notin Range(Tail(s))
  <2> SUFFICES ASSUME NEW i \in 1..(Len(s) - 1), Tail(s)[i] = s[1]
               PROVE  FALSE
    BY <1>1, <1>2 DEF Range
  <2>1. s[i + 1] = s[1] /\ i + 1 \in 1..Len(s) /\ 1 \in 1..Len(s)
    BY <1>1, <1>2
  <2> QED BY <1>3, <2>1
<1>6. Range(s) = {s[1]} \cup Range(Tail(s))
  <2>1. ASSUME NEW i \in 1..Len(s), i # 1
        PROVE  s[i] \in Range(Tail(s))
    <3>1. i - 1 \in 1..(Len(s) - 1) /\ Tail(s)[i - 1] = s[i]
      BY <1>1, <2>1
    <3> QED BY <1>2, <3>1 DEF Range
  <2>2. ASSUME NEW i \in 1..(Len(s) - 1)
        PROVE  Tail(s)[i] \in Range(s)
    <3>1. i + 1 \in 1..Len(s) /\ Tail(s)[i] = s[i + 1]
      BY <1>1, <2>2
    <3> QED BY <1>2, <3>1 DEF Range
  <2>3. s[1] \in Range(s)
    BY <1>1, <1>2 DEF Range
  <2>4. Range(s) \subseteq {s[1]} \cup Range(Tail(s))
    BY <1>2, <2>1 DEF Range
  <2>5. Range(Tail(s)) \subseteq Range(s)
    BY <1>2, <2>2 DEF Range
  <2> QED BY <2>3, <2>4, <2>5
<1> QED BY <1>1, <1>4, <1>5, <1>6

\* A new element at the end of a sequence adds just that element.
LEMMA AppendRange ==
  ASSUME NEW S, NEW s \in Seq(S), NEW e \in S, IsInjective(s), e \notin Range(s)
  PROVE  Range(Append(s, e)) = Range(s) \cup {e} /\ IsInjective(Append(s, e))
<1>1. /\ Append(s, e) \in Seq(S) /\ Len(Append(s, e)) = Len(s) + 1
      /\ \A i \in 1..Len(s) : Append(s, e)[i] = s[i]
      /\ Append(s, e)[Len(s) + 1] = e
  BY AppendProperties
<1>2. /\ DOMAIN s = 1..Len(s) /\ Len(s) \in Nat
      /\ DOMAIN Append(s, e) = 1..(Len(s) + 1)
  BY <1>1, LenProperties
<1>3. Range(Append(s, e)) = Range(s) \cup {e}
  <2>1. Range(Append(s, e)) \subseteq Range(s) \cup {e}
    <3> SUFFICES ASSUME NEW i \in 1..(Len(s) + 1)
                 PROVE  Append(s, e)[i] \in Range(s) \cup {e}
      BY <1>2 DEF Range
    <3>1. CASE i = Len(s) + 1
      BY <1>1, <3>1
    <3>2. CASE i # Len(s) + 1
      BY <1>1, <1>2, <3>2 DEF Range
    <3> QED BY <3>1, <3>2
  <2>2. Range(s) \subseteq Range(Append(s, e))
    <3> SUFFICES ASSUME NEW i \in 1..Len(s)
                 PROVE  s[i] \in Range(Append(s, e))
      BY <1>2 DEF Range
    <3>1. i \in 1..(Len(s) + 1) /\ Append(s, e)[i] = s[i]
      BY <1>1, <1>2
    <3> QED BY <1>2, <3>1 DEF Range
  <2>3. e \in Range(Append(s, e))
    <3>1. Len(s) + 1 \in 1..(Len(s) + 1)
      BY <1>2
    <3> QED BY <1>1, <1>2, <3>1 DEF Range
  <2> QED BY <2>1, <2>2, <2>3
<1>4. \A i, j \in 1..Len(s) : s[i] = s[j] => i = j
  BY <1>2 DEF IsInjective
<1>5. \A i \in 1..Len(s) : s[i] # e
  BY <1>2 DEF Range
<1>6. \A i, j \in 1..(Len(s) + 1) : Append(s, e)[i] = Append(s, e)[j] => i = j
  BY <1>1, <1>2, <1>4, <1>5
<1> QED BY <1>2, <1>3, <1>6 DEF IsInjective

\* Two consecutive pieces of a sequence without repetitions share nothing.
LEMMA SplitRange ==
  ASSUME NEW S, NEW s \in Seq(S), IsInjective(s), NEW k \in 0..Len(s)
  PROVE  LET front == SubSeq(s, 1, k)
             rest  == SubSeq(s, k + 1, Len(s))
         IN  /\ Range(s) = Range(front) \cup Range(rest)
             /\ Range(front) \cap Range(rest) = {}
             /\ IsInjective(front) /\ IsInjective(rest)
<1> DEFINE front == SubSeq(s, 1, k)
           rest  == SubSeq(s, k + 1, Len(s))
<1>1. DOMAIN s = 1..Len(s) /\ Len(s) \in Nat
  BY LenProperties
<1>2. \A i \in 1..Len(s) : s[i] \in S
  BY ElementOfSeq
<1>3. Len(front) = k /\ DOMAIN front = 1..k /\ \A i \in 1..k : front[i] = s[i]
  <2>1. front \in Seq(S) /\ Len(front) = k /\ \A i \in 1..k : front[i] = s[i]
    BY <1>1, <1>2, SubSeqProperties
  <2> QED BY <2>1, LenProperties
<1>4. DOMAIN rest = 1..(Len(s) - k) /\ \A i \in 1..(Len(s) - k) : rest[i] = s[k + i]
  <2>1. /\ rest \in Seq(S) /\ Len(rest) = Len(s) - k
        /\ \A i \in 1..(Len(s) - k) : rest[i] = s[k + i]
    <3>1. k + 1 \in 1..(Len(s) + 1) /\ \A i \in k + 1 .. Len(s) : s[i] \in S
      BY <1>1, <1>2
    <3>2. /\ rest \in Seq(S)
          /\ Len(rest) = IF k + 1 <= Len(s) THEN Len(s) - (k + 1) + 1 ELSE 0
          /\ \A i \in 1..Len(s) - (k + 1) + 1 : rest[i] = s[k + 1 + i - 1]
      BY <1>1, <3>1, SubSeqProperties
    <3> HIDE DEF rest
    <3>3. Len(rest) = Len(s) - k
      <4>1. \A n \in Nat : \A l \in 0..n :
              (IF l + 1 <= n THEN n - (l + 1) + 1 ELSE 0) = n - l
        OBVIOUS
      <4> QED BY <1>1, <3>2, <4>1
    <3>4. \A i \in 1..(Len(s) - k) : i \in 1..Len(s) - (k + 1) + 1 /\ k + 1 + i - 1 = k + i
      BY <1>1
    <3> QED BY <3>2, <3>3, <3>4
  <2>2. DOMAIN rest = 1..Len(rest)
    BY <2>1, LenProperties
  <2> QED BY <2>1, <2>2
<1> HIDE DEF front, rest
<1>5. \A i, j \in 1..Len(s) : s[i] = s[j] => i = j
  BY <1>1 DEF IsInjective
<1>6. IsInjective(front) /\ IsInjective(rest)
  <2>1. \A i, j \in 1..k : front[i] = front[j] => i = j
    BY <1>1, <1>3, <1>5
  <2>2. \A i, j \in 1..(Len(s) - k) : rest[i] = rest[j] => i = j
    <3>1. \A i \in 1..(Len(s) - k) : k + i \in 1..Len(s)
      BY <1>1
    <3>2. \A i, j \in 1..(Len(s) - k) : k + i = k + j => i = j
      BY <1>1
    <3> QED BY <1>4, <1>5, <3>1, <3>2
  <2> QED BY <1>3, <1>4, <2>1, <2>2 DEF IsInjective
<1>7. Range(front) \cap Range(rest) = {}
  <2> SUFFICES ASSUME NEW i \in 1..k, NEW j \in 1..(Len(s) - k), front[i] = rest[j]
               PROVE  FALSE
    BY <1>3, <1>4 DEF Range
  <2>1. s[i] = s[k + j] /\ i \in 1..Len(s) /\ k + j \in 1..Len(s) /\ i # k + j
    BY <1>1, <1>3, <1>4
  <2> QED BY <1>5, <2>1
<1>8. Range(s) \subseteq Range(front) \cup Range(rest)
  <2> SUFFICES ASSUME NEW i \in 1..Len(s)
               PROVE  s[i] \in Range(front) \cup Range(rest)
    BY <1>1 DEF Range
  <2>1. CASE i \leq k
    BY <1>1, <1>3, <2>1 DEF Range
  <2>2. CASE ~(i \leq k)
    <3>1. i - k \in 1..(Len(s) - k) /\ k + (i - k) = i
      BY <1>1, <2>2
    <3>2. rest[i - k] = s[i]
      BY <1>4, <3>1
    <3> QED BY <1>4, <3>1, <3>2 DEF Range
  <2> QED BY <2>1, <2>2
<1>9. Range(front) \cup Range(rest) \subseteq Range(s)
  <2>1. \A i \in 1..k : i \in 1..Len(s)
    BY <1>1
  <2>2. \A i \in 1..(Len(s) - k) : k + i \in 1..Len(s)
    BY <1>1
  <2>3. Range(front) \subseteq Range(s)
    BY <1>1, <1>3, <2>1 DEF Range
  <2>4. Range(rest) \subseteq Range(s)
    BY <1>1, <1>4, <2>2 DEF Range
  <2> QED BY <2>3, <2>4
<1> QED BY <1>6, <1>7, <1>8, <1>9 DEF front, rest

-----------------------------------------------------------------------------
(* The course of a start and a stop. *)

\* Moving on to the next frame leaves a worker without frames at its loop, or
\* with frames at its work.
LEMMA NextFrameIdle ==
  ASSUME IInv, Idle, NEW w \in Worker, wpc[w] \in {"process", "lock", "drain"},
         NextFrame(w),
         lock' = IF wpc[w] = "drain" THEN None ELSE lock
  PROVE  Idle'
<1>1. /\ wpc' \in [Worker -> WorkerState]
      /\ batch' = [batch EXCEPT ![w] = Tail(batch[w])]
      /\ \A v \in Worker \ {w} : wpc'[v] = wpc[v] /\ batch'[v] = batch[v]
      /\ batch[w] # <<>> /\ batch[w] \in Seq(accepted)
  BY NextFrameStep DEF IInv, Busy, Scalars, Known, NextFrame
<1>2. wpc'[w] = IF Len(batch[w]) = 1 THEN "loop" ELSE "process"
  BY DEF NextFrame, IInv, Scalars
<1>3. Len(batch[w]) = 1 => Tail(batch[w]) = <<>>
  <2>1. Tail(batch[w]) \in Seq(accepted) /\ Len(Tail(batch[w])) = Len(batch[w]) - 1
    BY <1>1, HeadTailProperties
  <2>2. Len(batch[w]) = 1 => Len(Tail(batch[w])) = 0
    BY <2>1
  <2> QED BY <2>1, <2>2, EmptySeq
<1>4. batch'[w] = Tail(batch[w])
  BY <1>1 DEF IInv, Known
<1>5. \A v \in Worker : wpc'[v] \in {"none", "loop", "fetch", "exited"} => batch'[v] = <<>>
  BY <1>1, <1>2, <1>3, <1>4 DEF Idle
<1>6. lock' # None => lock' = lock /\ lock \in Worker /\ wpc[lock] \in {"emit", "drain"}
  BY DEF Idle, IInv, Scalars
<1>7. wpc[w] = "drain" => lock = w
  BY DEF IInv, Holding
<1>8. lock' # None => lock # w
  BY <1>6, <1>7
<1>9. lock' # None => wpc'[lock'] \in {"emit", "drain"}
  BY <1>1, <1>6, <1>8
<1> QED BY <1>5, <1>9 DEF Idle

\* A worker takes frames only in a fetch and has put them all away when it is
\* back at its loop.
LEMMA IdleKept ==
  ASSUME IInv, Idle, Calm, [Next]_vars
  PROVE  Idle'
<1>1. ASSUME NEW w \in Worker, WorkStep(w)
      PROVE  Idle'
  <2>1. CASE Loop(w) \/ Fetch(w) \/ FetchNone(w) \/ Acquire(w) \/ Emit(w) \/ Drain(w)
    <3>1. CASE Loop(w) \/ FetchNone(w)
      BY <3>1 DEF Loop, FetchNone, Idle, IInv, Scalars, Known
    <3>2. CASE Fetch(w)
      BY <3>2 DEF Fetch, Idle, IInv, Scalars, Known
    <3>3. CASE Acquire(w)
      BY <3>3 DEF Acquire, Idle, IInv, Scalars, Known
    <3>4. CASE Emit(w)
      BY <3>4 DEF Emit, Idle, IInv, Scalars, Known
    <3>5. CASE Drain(w)
      BY <3>5 DEF Drain, Idle, IInv, Scalars, Known
    <3> QED BY <2>1, <3>1, <3>2, <3>3, <3>4, <3>5
  <2>2. CASE Process(w)
    <3>1. CASE active
      BY <2>2, <3>1 DEF Process, Idle, IInv, Scalars, Known
    <3>2. CASE ~active
      BY <2>2, <3>2, NextFrameIdle DEF Process
    <3> QED BY <3>1, <3>2
  <2>3. CASE Park(w)
    BY <2>3, NextFrameIdle DEF Park
  <2>4. CASE Release(w)
    BY <2>4, NextFrameIdle DEF Release
  <2> QED BY <1>1, <2>1, <2>2, <2>3, <2>4 DEF WorkStep, WorkerStep
<1>2. CASE Start
  BY <1>2 DEF Start, StartWorkers, Idle, Calm, IInv, Scalars, Known
<1>3. CASE StopJoin
  BY <1>3 DEF StopJoin, JoinWorkers, Idle, IInv, Scalars, Known
<1>4. CASE UNCHANGED <<wpc, batch, lock>>
  BY <1>4 DEF Idle
<1>5. CASE StopBegin
  BY <1>4, <1>5 DEF StopBegin, Deactivate
<1>6. CASE StopShutInput \/ StopShutOutput
  BY <1>4, <1>6 DEF StopShutInput, StopShutOutput, ShutInput, ShutOutput
<1>7. CASE (\E id \in Id : PushTest(id)) \/ PopNothing \/ Leave \/ UNCHANGED vars
  BY <1>4, <1>7 DEF PushTest, PopNothing, Leave, core, vars
<1>8. CASE PushDo \/ PopFrame
  BY <1>4, <1>8 DEF PushDo, PopFrame, EnqueueFrame, DequeueFrame
<1> QED BY <1>1, <1>2, <1>3, <1>5, <1>6, <1>7, <1>8 DEF Next, StopStep

\* Workers are started only when none is left, and a worker at work has a start
\* or a stop to account for it.
LEMMA CalmKept ==
  ASSUME IInv, Calm, [Next]_vars
  PROVE  Calm'
<1>1. ASSUME NEW w \in Worker, WorkStep(w)
      PROVE  Calm'
  <2>1. wpc[w] # "none" /\ UNCHANGED <<active, inShut, outShut, ctl, stopped>>
    BY <1>1 DEF WorkStep, WorkerStep, client, Loop, Fetch, FetchNone, Process, Park,
                Acquire, Emit, Drain, Release
  <2>2. active \/ ctl # "idle"
    BY <2>1 DEF Calm
  <2>3. dropped' = dropped \/ ~active \/ outShut
    BY <1>1 DEF WorkStep, WorkerStep, Loop, Fetch, FetchNone, Process, Park,
                Acquire, Emit, Drain, Release, PushOut
  <2> QED BY <2>1, <2>2, <2>3 DEF Calm
<1>2. CASE Start
  BY <1>2 DEF Start, StartWorkers, Calm
<1>3. CASE StopBegin
  BY <1>3 DEF StopBegin, Deactivate, Calm
<1>4. CASE StopShutInput \/ StopShutOutput
  BY <1>4 DEF StopShutInput, StopShutOutput, ShutInput, ShutOutput, Calm
<1>5. CASE StopJoin
  BY <1>5 DEF StopJoin, JoinWorkers, Calm
<1>6. CASE UNCHANGED <<active, ctl, wpc, inShut, outShut, dropped, stopped>>
  BY <1>6 DEF Calm
<1>7. CASE (\E id \in Id : PushTest(id)) \/ PopNothing \/ Leave \/ UNCHANGED vars
  BY <1>6, <1>7 DEF PushTest, PopNothing, Leave, core, vars, client
<1>8. CASE PushDo \/ PopFrame
  BY <1>6, <1>8 DEF PushDo, PopFrame, EnqueueFrame, DequeueFrame
<1> QED BY <1>1, <1>2, <1>3, <1>4, <1>5, <1>7, <1>8 DEF Next, StopStep

-----------------------------------------------------------------------------
(* Where the frames go. *)

\* A worker puts away the frame it is at work on.
LEMMA HeadLeaves ==
  ASSUME IInv, Single, NEW w \in Worker, wpc[w] \in {"process", "lock", "emit"},
         Unfinished(w)' = Tail(batch[w]),
         \A v \in Worker \ {w} : Unfinished(v)' = Unfinished(v)
  PROVE  /\ Head(batch[w]) \in Held[w]
         /\ Head(batch[w]) \in accepted
         /\ Held' = [Held EXCEPT ![w] = Held[w] \ {Head(batch[w])}]
         /\ \A v \in Worker : IsInjective(Unfinished(v)')
<1>1. batch[w] \in Seq(accepted) /\ batch[w] # <<>> /\ Unfinished(w) = batch[w]
  BY DEF IInv, Known, Busy, Unfinished
<1>2. /\ Range(batch[w]) = {Head(batch[w])} \cup Range(Tail(batch[w]))
      /\ Head(batch[w]) \notin Range(Tail(batch[w]))
      /\ IsInjective(Tail(batch[w]))
  BY <1>1, TailRange DEF Single
<1>3. Head(batch[w]) \in accepted
  BY <1>1, HeadTailProperties
<1>4. Held[w] = Range(batch[w])
  BY <1>1 DEF Held
<1>5. Held' = [v \in Worker |-> Range(Unfinished(v)')]
  BY DEF Held
<1>6. Range(Tail(batch[w])) = Held[w] \ {Head(batch[w])}
  BY <1>2, <1>4
<1>7. Held' = [Held EXCEPT ![w] = Held[w] \ {Head(batch[w])}]
  BY <1>5, <1>6 DEF Held
<1> QED BY <1>2, <1>3, <1>4, <1>7 DEF Single

\* The other steps leave what the workers hold alone.
LEMMA HeldSame ==
  ASSUME Single, \A v \in Worker : Unfinished(v)' = Unfinished(v)
  PROVE  Held' = Held /\ \A v \in Worker : IsInjective(Unfinished(v)')
BY DEF Held, Single

\* What NextFrame does to the frames a worker holds.
LEMMA NextFrameLeaves ==
  ASSUME IInv, NEW w \in Worker, wpc[w] \in {"process", "lock", "drain"}, NextFrame(w)
  PROVE  /\ Unfinished(w)' = Tail(batch[w])
         /\ \A v \in Worker \ {w} : Unfinished(v)' = Unfinished(v)
         /\ \A v \in Worker \ {w} : wpc'[v] = wpc[v]
         /\ wpc'[w] # "drain"
<1>1. /\ batch' = [batch EXCEPT ![w] = Tail(batch[w])]
      /\ \A v \in Worker \ {w} : wpc'[v] = wpc[v] /\ batch'[v] = batch[v]
      /\ wpc'[w] \in {"loop", "process"}
  BY NextFrameStep DEF IInv, Busy, Scalars, Known, NextFrame
<1>2. batch'[w] = Tail(batch[w])
  BY <1>1 DEF IInv, Known
<1> QED BY <1>1, <1>2 DEF Unfinished

Frames == Ahead /\ Separate /\ Single /\ Whole

\* The number of frames that came out is a number.
LEMMA OutType == IInv => Len(delivered) + Len(outQ) \in Nat /\ nextSeq \in Nat
BY LenProperties DEF IInv, Known, Scalars

\* A worker discards the frame it is at work on, or parks it.
LEMMA PutAway ==
  ASSUME IInv, Frames, NEW w \in Worker, wpc[w] \in {"process", "lock"}, NextFrame(w),
         UNCHANGED <<inQ, outQ, nextSeq, accepted, delivered, pushing>>,
         \/ dropped' = dropped \cup {Head(batch[w])} /\ reorder' = reorder
         \/ /\ reorder' = reorder \cup {Head(batch[w])} /\ dropped' = dropped
            /\ Head(batch[w]) # nextSeq
  PROVE  Frames'
<1> DEFINE e == Head(batch[w])
<1>1. /\ Unfinished(w)' = Tail(batch[w])
      /\ \A v \in Worker \ {w} : Unfinished(v)' = Unfinished(v)
      /\ \A v \in Worker \ {w} : wpc'[v] = wpc[v]
  BY NextFrameLeaves
<1>2. /\ e \in Held[w] /\ e \in accepted
      /\ Held' = [Held EXCEPT ![w] = Held[w] \ {e}]
      /\ \A v \in Worker : IsInjective(Unfinished(v)')
  BY <1>1, HeadLeaves DEF Frames
<1>3. /\ \A v \in Worker \ {w} : Held'[v] = Held[v]
      /\ Held'[w] = Held[w] \ {e}
  BY <1>2 DEF Held
<1>4. nextSeq <= e /\ e \notin Out /\ e \in Nat
  <2>1. nextSeq <= e
    BY <1>2 DEF Frames, Ahead
  <2>2. e \in Nat
    BY <1>2 DEF IInv, Known
  <2>3. Len(delivered) + Len(outQ) <= nextSeq
    BY DEF Frames, Ahead
  <2> QED BY <2>1, <2>2, <2>3, OutType DEF Out
<1>5. e \notin Range(inQ) \cup reorder \cup dropped /\ \A v \in Worker \ {w} : e \notin Held[v]
  BY <1>2 DEF Frames, Separate
<1>6. Out' = Out /\ Range(inQ)' = Range(inQ)
  BY DEF Out
<1> HIDE DEF e
<1>7. \/ dropped' = dropped \cup {e} /\ reorder' = reorder
      \/ reorder' = reorder \cup {e} /\ dropped' = dropped /\ e # nextSeq
  BY DEF e
<1>8. Ahead'
  <2>1. \A id \in Range(inQ)' \cup reorder' : nextSeq' <= id
    BY <1>4, <1>6, <1>7 DEF Frames, Ahead
  <2>2. \A v \in Worker : \A id \in Held'[v] : nextSeq' <= id
    BY <1>3 DEF Frames, Ahead
  <2>3. (\A v \in Worker : wpc'[v] # "drain") => nextSeq' \notin reorder'
    <3>1. (\A v \in Worker : wpc'[v] # "drain") => \A v \in Worker : wpc[v] # "drain"
      BY <1>1
    <3> QED BY <1>7, <3>1 DEF Frames, Ahead
  <2> QED BY <2>1, <2>2, <2>3 DEF Frames, Ahead
<1>9. Separate'
  BY <1>3, <1>4, <1>5, <1>6, <1>7 DEF Frames, Separate
<1>10. Single'
  BY <1>2 DEF Frames, Single
<1>11. Whole'
  BY <1>3, <1>6, <1>7 DEF Frames, Whole
<1> QED BY <1>8, <1>9, <1>10, <1>11 DEF Frames

\* The frame whose turn it is comes out, or is discarded because the output
\* queue is shut.
LEMMA ComesOut ==
  ASSUME IInv, Frames, PushOut(nextSeq), nextSeq \in accepted,
         UNCHANGED <<inQ, accepted, delivered, outShut>>
  PROVE  /\ nextSeq' = nextSeq + 1
         /\ Len(delivered)' + Len(outQ)' <= nextSeq'
         /\ Out' \cup dropped' = Out \cup dropped \cup {nextSeq}
         /\ dropped \subseteq dropped' /\ dropped' \subseteq dropped \cup {nextSeq}
         /\ nextSeq \notin Out
         /\ nextSeq \notin dropped => Out' \cap dropped' = {}
         /\ 0..(nextSeq' - 1) \subseteq accepted'
<1> DEFINE n == Len(delivered) + Len(outQ)
<1>1. n \in Nat /\ nextSeq \in Nat /\ n <= nextSeq /\ Out = 0..(n - 1)
  BY OutType DEF Frames, Ahead, Out
<1>2. nextSeq' = nextSeq + 1
  BY DEF PushOut
<1>3. 0..(nextSeq' - 1) \subseteq accepted'
  <2>1. 0..(nextSeq + 1 - 1) = 0..(nextSeq - 1) \cup {nextSeq}
    BY <1>1
  <2> QED BY <1>2, <2>1 DEF Frames, Ahead
<1>4. CASE outShut
  <2>1. outQ' = outQ /\ dropped' = dropped \cup {nextSeq} /\ Out' = Out
    BY <1>4 DEF PushOut, Pushed, Out
  <2> QED BY <1>1, <1>2, <1>3, <2>1 DEF Frames, Separate
<1>5. CASE ~outShut
  <2>1. Len(outQ') = Len(outQ) + 1
    BY <1>5, AppendProperties DEF PushOut, Pushed, IInv, Known
  <2>2. n = nextSeq /\ Len(delivered)' + Len(outQ)' = n + 1
    BY <1>1, <1>5, <2>1, LenProperties DEF IInv, OutOrder, Known
  <2>3. Out' = Out \cup {nextSeq} /\ dropped' = dropped
    <3>1. 0..(n + 1 - 1) = 0..(n - 1) \cup {n}
      BY <1>1
    <3> QED BY <1>1, <1>5, <2>2, <3>1 DEF PushOut, Out
  <2> QED BY <1>1, <1>2, <1>3, <2>2, <2>3 DEF Frames, Separate
<1> QED BY <1>4, <1>5

\* What stays in the pipeline when the frame whose turn it is comes out was
\* behind it.
LEMMA StillAhead ==
  ASSUME IInv, Frames, nextSeq' = nextSeq + 1, UNCHANGED inQ,
         nextSeq \notin Range(inQ),
         reorder' \subseteq reorder \ {nextSeq},
         \A v \in Worker : Held'[v] \subseteq Held[v] \ {nextSeq}
  PROVE  /\ \A id \in Range(inQ)' \cup reorder' : nextSeq' <= id
         /\ \A v \in Worker : \A id \in Held'[v] : nextSeq' <= id
<1>1. \A id \in accepted : id \in Nat
  BY DEF IInv, Known
<1>2. Range(inQ) \subseteq accepted /\ reorder \subseteq accepted
  BY RangeOfSeq DEF IInv, Known
<1>3. \A v \in Worker : Held[v] \subseteq accepted
  <2>1. ASSUME NEW v \in Worker
        PROVE  Unfinished(v) \in Seq(accepted)
    BY HeadTailProperties DEF Unfinished, IInv, Known, Busy
  <2> QED BY <2>1, RangeOfSeq DEF Held
<1>4. \A id \in Nat : nextSeq <= id /\ id # nextSeq => nextSeq' <= id
  BY OutType
<1>5. \A id \in Range(inQ) \cup reorder' : id \in Nat /\ nextSeq <= id /\ id # nextSeq
  BY <1>1, <1>2 DEF Frames, Ahead
<1>6. \A v \in Worker : \A id \in Held'[v] : id \in Nat /\ nextSeq <= id /\ id # nextSeq
  BY <1>1, <1>3 DEF Frames, Ahead
<1> QED BY <1>4, <1>5, <1>6

\* No step of a worker loses a frame or puts it into two places.
LEMMA FramesKeptByWorker ==
  ASSUME CInv, NEW w \in Worker, WorkStep(w)
  PROVE  Frames'
<1> USE DEF CInv
<1>0. Frames /\ UNCHANGED client
  BY DEF WorkStep, Frames
<1>1. CASE UNCHANGED <<inQ, outQ, reorder, nextSeq, dropped, client>>
           /\ (\A v \in Worker : Unfinished(v)' = Unfinished(v))
           /\ (nextSeq \in reorder => \E v \in Worker : wpc'[v] = "drain")
  <2>1. Held' = Held /\ \A v \in Worker : IsInjective(Unfinished(v)')
    BY <1>0, <1>1, HeldSame DEF Frames
  <2>2. Out' = Out
    BY <1>1 DEF Out, client
  <2>3. Ahead'
    BY <1>0, <1>1, <2>1 DEF Frames, Ahead, client
  <2>4. Separate' /\ Single' /\ Whole'
    BY <1>0, <1>1, <2>1, <2>2 DEF Frames, Separate, Single, Whole, client
  <2> QED BY <2>3, <2>4 DEF Frames
<1>2. CASE Loop(w) \/ FetchNone(w) \/ Acquire(w) \/ (active /\ Process(w))
  <2>1. /\ UNCHANGED <<inQ, outQ, reorder, nextSeq, dropped, batch>>
        /\ wpc[w] # "drain" /\ wpc'[w] # "drain"
        /\ \A v \in Worker \ {w} : wpc'[v] = wpc[v]
    BY <1>2 DEF Loop, FetchNone, Acquire, Process, IInv, Scalars
  <2>2. \A v \in Worker : Unfinished(v)' = Unfinished(v)
    BY <2>1 DEF Unfinished
  <2>3. nextSeq \in reorder => \E v \in Worker : wpc'[v] = "drain"
    BY <1>0, <2>1 DEF Frames, Ahead
  <2> QED BY <1>0, <1>1, <2>1, <2>2, <2>3
<1>3. CASE ~active /\ Process(w)
  <2>1. /\ wpc[w] = "process" /\ NextFrame(w) /\ dropped' = dropped \cup {Head(batch[w])}
        /\ UNCHANGED <<inQ, outQ, nextSeq, reorder>>
    BY <1>3 DEF Process
  <2> QED BY <1>0, <2>1, PutAway DEF client
<1>4. CASE Park(w)
  <2>1. /\ wpc[w] = "lock" /\ NextFrame(w) /\ reorder' = reorder \cup {Head(batch[w])}
        /\ Head(batch[w]) # nextSeq
        /\ UNCHANGED <<inQ, outQ, nextSeq, dropped>>
    BY <1>4 DEF Park
  <2> QED BY <1>0, <2>1, PutAway DEF client
<1>5. CASE Release(w)
  <2>1. /\ wpc[w] = "drain" /\ NextFrame(w) /\ ~IsFirst(nextSeq)
        /\ UNCHANGED <<inQ, outQ, reorder, nextSeq, dropped>>
    BY <1>5 DEF Release
  <2>2. \A v \in Worker : Unfinished(v)' = Unfinished(v)
    BY <2>1, NextFrameLeaves DEF Unfinished
  <2>3. nextSeq \notin reorder
    BY <1>0, <2>1 DEF IsFirst, Frames, Ahead
  <2> QED BY <1>0, <1>1, <2>1, <2>2, <2>3
<1>6. CASE Fetch(w)
  <2> DEFINE taken == SubSeq(inQ, 1, BatchLen)
             left == SubSeq(inQ, BatchLen + 1, Len(inQ))
  <2>1. /\ wpc[w] = "fetch" /\ wpc' = [wpc EXCEPT ![w] = "process"]
        /\ batch' = [batch EXCEPT ![w] = taken] /\ inQ' = left
        /\ UNCHANGED <<outQ, reorder, nextSeq, dropped>>
    BY <1>6 DEF Fetch
  <2>2. BatchLen \in 0..Len(inQ) /\ inQ \in Seq(accepted)
    <3>1. Len(inQ) \in Nat /\ inQ \in Seq(accepted)
      BY LenProperties DEF IInv, Known
    <3> QED BY <3>1 DEF BatchLen
  <2>3. /\ Range(inQ) = Range(taken) \cup Range(left)
        /\ Range(taken) \cap Range(left) = {}
        /\ IsInjective(taken) /\ IsInjective(left)
    BY <1>0, <2>2, SplitRange DEF Frames, Single
  <2> HIDE DEF taken, left
  <2>4. batch[w] = <<>> /\ Unfinished(w) = <<>>
    BY <2>1 DEF Idle, Unfinished
  <2>5. Held[w] = {}
    BY <2>4, EmptySeq DEF Held, Range
  <2>6. /\ Unfinished(w)' = taken
        /\ \A v \in Worker \ {w} : Unfinished(v)' = Unfinished(v) /\ wpc'[v] = wpc[v]
        /\ wpc'[w] = "process"
    BY <2>1 DEF Unfinished, IInv, Scalars, Known
  <2>7. Held'[w] = Range(taken) /\ \A v \in Worker \ {w} : Held'[v] = Held[v]
    BY <2>6 DEF Held
  <2>8. Out' = Out
    BY <1>0, <2>1 DEF Out, client
  <2>9. Ahead'
    <3>1. (\A v \in Worker : wpc'[v] # "drain") => \A v \in Worker : wpc[v] # "drain"
      BY <2>1, <2>6
    <3> QED BY <1>0, <2>1, <2>3, <2>7, <3>1 DEF Frames, Ahead, client
  <2>10. Separate'
    BY <1>0, <2>1, <2>3, <2>7, <2>8 DEF Frames, Separate, client
  <2>11. Single'
    BY <1>0, <2>1, <2>3, <2>6 DEF Frames, Single
  <2>12. Whole'
    BY <1>0, <2>1, <2>3, <2>5, <2>7, <2>8 DEF Frames, Whole, client
  <2> QED BY <2>9, <2>10, <2>11, <2>12 DEF Frames
<1>7. CASE Emit(w)
  <2>1. /\ wpc[w] = "emit" /\ PushOut(Head(batch[w])) /\ Head(batch[w]) = nextSeq
        /\ wpc' = [wpc EXCEPT ![w] = "drain"]
        /\ UNCHANGED <<inQ, reorder, batch, outShut>>
    BY <1>7 DEF Emit, IInv, Turn
  <2>2. /\ Unfinished(w)' = Tail(batch[w])
        /\ \A v \in Worker \ {w} : Unfinished(v)' = Unfinished(v)
        /\ wpc'[w] = "drain"
    BY <2>1 DEF Unfinished, IInv, Scalars
  <2>3. /\ nextSeq \in Held[w] /\ nextSeq \in accepted
        /\ Held' = [Held EXCEPT ![w] = Held[w] \ {nextSeq}]
        /\ \A v \in Worker : IsInjective(Unfinished(v)')
    BY <1>0, <2>1, <2>2, HeadLeaves DEF Frames
  <2>4. /\ \A v \in Worker \ {w} : Held'[v] = Held[v]
        /\ Held'[w] = Held[w] \ {nextSeq}
    BY <2>3 DEF Held
  <2>5. nextSeq \notin Range(inQ) \cup reorder \cup dropped
        /\ \A v \in Worker \ {w} : nextSeq \notin Held[v]
    BY <1>0, <2>3 DEF Frames, Separate
  <2>6. /\ nextSeq' = nextSeq + 1
        /\ Len(delivered)' + Len(outQ)' <= nextSeq'
        /\ Out' \cup dropped' = Out \cup dropped \cup {nextSeq}
        /\ dropped \subseteq dropped' /\ dropped' \subseteq dropped \cup {nextSeq}
        /\ Out' \cap dropped' = {}
        /\ 0..(nextSeq' - 1) \subseteq accepted'
    BY <1>0, <2>1, <2>3, <2>5, ComesOut DEF client
  <2>7. Ahead'
    <3>1. /\ \A id \in Range(inQ)' \cup reorder' : nextSeq' <= id
          /\ \A v \in Worker : \A id \in Held'[v] : nextSeq' <= id
      BY <1>0, <2>1, <2>4, <2>5, <2>6, StillAhead
    <3>2. pushing' \notin accepted'
      BY <1>0 DEF Frames, Ahead, client
    <3> QED BY <2>2, <2>6, <3>1, <3>2 DEF Ahead
  <2>8. Separate'
    BY <1>0, <2>1, <2>4, <2>5, <2>6 DEF Frames, Separate
  <2>9. Single'
    BY <1>0, <2>1, <2>3 DEF Frames, Single
  <2>10. Whole'
    BY <1>0, <2>1, <2>4, <2>6 DEF Frames, Whole, client
  <2> QED BY <2>7, <2>8, <2>9, <2>10 DEF Frames
<1>8. CASE Drain(w)
  <2>1. /\ wpc[w] = "drain" /\ PushOut(nextSeq) /\ nextSeq \in reorder
        /\ reorder' = reorder \ {nextSeq}
        /\ UNCHANGED <<inQ, batch, wpc, outShut>>
    BY <1>8 DEF Drain
  <2>2. Held' = Held /\ \A v \in Worker : IsInjective(Unfinished(v)')
    <3>1. \A v \in Worker : Unfinished(v)' = Unfinished(v)
      BY <2>1 DEF Unfinished
    <3> QED BY <1>0, <3>1, HeldSame DEF Frames
  <2>3. nextSeq \in accepted
    BY <2>1 DEF IInv, Known
  <2>5. nextSeq \notin Range(inQ) \cup dropped /\ \A v \in Worker : nextSeq \notin Held[v]
    BY <1>0, <2>1 DEF Frames, Separate
  <2>6. /\ nextSeq' = nextSeq + 1
        /\ Len(delivered)' + Len(outQ)' <= nextSeq'
        /\ Out' \cup dropped' = Out \cup dropped \cup {nextSeq}
        /\ dropped \subseteq dropped' /\ dropped' \subseteq dropped \cup {nextSeq}
        /\ Out' \cap dropped' = {}
        /\ 0..(nextSeq' - 1) \subseteq accepted'
    BY <1>0, <2>1, <2>3, <2>5, ComesOut DEF client
  <2>7. Ahead'
    <3>1. /\ \A id \in Range(inQ)' \cup reorder' : nextSeq' <= id
          /\ \A v \in Worker : \A id \in Held'[v] : nextSeq' <= id
      BY <1>0, <2>1, <2>2, <2>5, <2>6, StillAhead
    <3>2. pushing' \notin accepted'
      BY <1>0 DEF Frames, Ahead, client
    <3> QED BY <2>1, <2>6, <3>1, <3>2 DEF Ahead
  <2>8. Separate'
    BY <1>0, <2>1, <2>2, <2>5, <2>6 DEF Frames, Separate
  <2>9. Single'
    BY <1>0, <2>1, <2>2 DEF Frames, Single
  <2>10. Whole'
    BY <1>0, <2>1, <2>2, <2>6 DEF Frames, Whole, client
  <2> QED BY <2>7, <2>8, <2>9, <2>10 DEF Frames
<1> QED BY <1>2, <1>3, <1>4, <1>5, <1>6, <1>7, <1>8 DEF WorkStep, WorkerStep

\* A push adds a frame that was nowhere before; a pop moves the oldest one from
\* the output queue to what was delivered; no other call moves a frame.
LEMMA FramesKeptByClient ==
  ASSUME CInv,
         \/ \E id \in Id : PushTest(id)
         \/ PushDo \/ PopFrame \/ PopNothing \/ Leave
         \/ Start \/ StopBegin \/ StopStep
  PROVE  Frames'
<1> USE DEF CInv
<1>0. Frames
  BY DEF Frames
<1>1. CASE UNCHANGED <<inQ, outQ, reorder, nextSeq, dropped, accepted, delivered>>
           /\ (\A v \in Worker : Unfinished(v)' = Unfinished(v))
           /\ (nextSeq \in reorder => \E v \in Worker : wpc'[v] = "drain")
           /\ pushing' \notin accepted
  <2>1. Held' = Held /\ \A v \in Worker : IsInjective(Unfinished(v)')
    BY <1>0, <1>1, HeldSame DEF Frames
  <2>2. Out' = Out
    BY <1>1 DEF Out
  <2>3. Ahead'
    BY <1>0, <1>1, <2>1 DEF Frames, Ahead
  <2>4. Separate' /\ Single' /\ Whole'
    BY <1>0, <1>1, <2>1, <2>2 DEF Frames, Separate, Single, Whole
  <2> QED BY <2>3, <2>4 DEF Frames
<1>2. CASE UNCHANGED <<wpc, batch>>
           /\ UNCHANGED <<inQ, outQ, reorder, nextSeq, dropped, accepted, delivered>>
           /\ pushing' \notin accepted
  <2>1. \A v \in Worker : Unfinished(v)' = Unfinished(v)
    BY <1>2 DEF Unfinished
  <2>2. nextSeq \in reorder => \E v \in Worker : wpc'[v] = "drain"
    BY <1>0, <1>2 DEF Frames, Ahead
  <2> QED BY <1>1, <1>2, <2>1, <2>2
<1>3. CASE \E id \in Id : PushTest(id)
  BY <1>0, <1>2, <1>3 DEF PushTest, core, Frames, Ahead
<1>4. CASE PopNothing \/ Leave
  BY <1>0, <1>2, <1>4 DEF PopNothing, Leave, core, Frames, Ahead
<1>5. CASE StopBegin \/ StopShutInput \/ StopShutOutput
  BY <1>0, <1>2, <1>5 DEF StopBegin, Deactivate, StopShutInput, StopShutOutput,
                          ShutInput, ShutOutput, Frames, Ahead
<1>6. CASE Start \/ StopJoin
  <2>1. /\ \A v \in Worker : wpc[v] # "drain" /\ wpc'[v] # "drain"
        /\ UNCHANGED <<inQ, outQ, reorder, nextSeq, dropped, accepted, delivered,
                       batch, pushing>>
    BY <1>6 DEF Start, StartWorkers, StopJoin, JoinWorkers, Calm
  <2>2. \A v \in Worker : Unfinished(v)' = Unfinished(v)
    BY <2>1 DEF Unfinished
  <2>3. nextSeq \notin reorder /\ pushing' \notin accepted
    BY <1>0, <2>1 DEF Frames, Ahead
  <2> QED BY <1>1, <2>1, <2>2, <2>3
<1>7. CASE PushDo
  <2>1. /\ pushing # -1 /\ pushing \in Id /\ pushing' = -1
        /\ UNCHANGED <<outQ, wpc, batch, reorder, nextSeq, dropped, delivered>>
        /\ inQ' = Pushed(inQ, inShut, pushing)
        /\ accepted' = IF inShut THEN accepted ELSE accepted \cup {pushing}
    BY <1>7 DEF PushDo, EnqueueFrame, IInv, Known
  <2>2. pushing' \notin accepted'
    BY <2>1 DEF IInv, Known
  <2>3. CASE inShut
    BY <1>2, <2>1, <2>2, <2>3 DEF Pushed
  <2>4. CASE ~inShut
    <3>1. inQ' = Append(inQ, pushing) /\ accepted' = accepted \cup {pushing}
      BY <2>1, <2>4 DEF Pushed
    <3>2. pushing \notin accepted /\ accepted \subseteq Id
      BY <1>0 DEF Frames, Ahead, IInv, Known
    <3>3. Range(inQ) \subseteq accepted
      BY RangeOfSeq DEF IInv, Known
    <3>4. Range(inQ)' = Range(inQ) \cup {pushing} /\ IsInjective(inQ')
      <4>1. inQ \in Seq(Id)
        BY <3>2, SeqMonotonic DEF IInv, Known
      <4> QED BY <1>0, <2>1, <3>1, <3>2, <3>3, <4>1, AppendRange DEF Frames, Single
    <3>5. /\ \A v \in Worker : Unfinished(v)' = Unfinished(v)
          /\ Held' = Held /\ \A v \in Worker : IsInjective(Unfinished(v)')
      <4>1. \A v \in Worker : Unfinished(v)' = Unfinished(v)
        BY <2>1 DEF Unfinished
      <4> QED BY <1>0, <4>1, HeldSame DEF Frames
    <3>6. \A v \in Worker : Held[v] \subseteq accepted
      <4>1. ASSUME NEW v \in Worker
            PROVE  Unfinished(v) \in Seq(accepted)
        BY HeadTailProperties DEF Unfinished, IInv, Known, Busy
      <4> QED BY <4>1, RangeOfSeq DEF Held
    <3>7. nextSeq <= pushing
      <4>1. pushing \in Nat /\ nextSeq \in Nat
        BY <2>1 DEF IInv, Scalars
      <4>2. pushing \notin 0..(nextSeq - 1)
        BY <1>0, <3>2 DEF Frames, Ahead
      <4> QED BY <4>1, <4>2
    <3>8. Out' = Out /\ Out \subseteq accepted
      <4>1. Out \subseteq 0..(nextSeq - 1)
        BY <1>0, OutType DEF Out, Frames, Ahead
      <4> QED BY <1>0, <2>1, <4>1 DEF Frames, Ahead, Out
    <3>9. reorder \cup dropped \subseteq accepted
      BY DEF IInv, Known
    <3>10. Ahead'
      BY <1>0, <2>1, <2>2, <3>1, <3>4, <3>5, <3>7 DEF Frames, Ahead
    <3>11. Separate'
      BY <1>0, <2>1, <3>2, <3>4, <3>5, <3>6, <3>8, <3>9 DEF Frames, Separate
    <3>12. Single' /\ Whole'
      BY <1>0, <2>1, <3>1, <3>4, <3>5, <3>8 DEF Frames, Single, Whole
    <3> QED BY <3>10, <3>11, <3>12 DEF Frames
  <2> QED BY <2>3, <2>4
<1>8. CASE PopFrame
  <2>1. /\ outQ # <<>> /\ outQ' = Tail(outQ) /\ delivered' = Append(delivered, Head(outQ))
        /\ UNCHANGED <<inQ, wpc, batch, reorder, nextSeq, dropped, accepted, pushing>>
    BY <1>8 DEF PopFrame, DequeueFrame
  <2>2. Len(delivered') + Len(outQ') = Len(delivered) + Len(outQ)
    <3>1. /\ Head(outQ) \in accepted /\ Len(Tail(outQ)) = Len(outQ) - 1
          /\ Len(outQ) \in Nat /\ Len(delivered) \in Nat
      BY <2>1, HeadTailProperties, LenProperties DEF IInv, Known
    <3>2. Len(delivered') = Len(delivered) + 1
      BY <2>1, <3>1, AppendProperties DEF IInv, Known
    <3> QED BY <2>1, <3>1, <3>2
  <2>3. Out' = Out
    BY <2>2 DEF Out
  <2>4. Held' = Held /\ \A v \in Worker : IsInjective(Unfinished(v)')
    <3>1. \A v \in Worker : Unfinished(v)' = Unfinished(v)
      BY <2>1 DEF Unfinished
    <3> QED BY <1>0, <3>1, HeldSame DEF Frames
  <2>5. Ahead'
    BY <1>0, <2>1, <2>2, <2>4 DEF Frames, Ahead
  <2>6. Separate' /\ Single' /\ Whole'
    BY <1>0, <2>1, <2>3, <2>4 DEF Frames, Separate, Single, Whole
  <2> QED BY <2>5, <2>6 DEF Frames
<1> QED BY <1>3, <1>4, <1>5, <1>6, <1>7, <1>8 DEF StopStep

\* In the beginning there are no frames.
LEMMA CInvInit == Init => CInv
<1> SUFFICES ASSUME Init
             PROVE  CInv
  OBVIOUS
<1>1. IInv
  BY InvInit
<1> USE DEF Init, CoreInit
<1>2. Idle /\ Calm
  BY DEF Idle, Calm
<1>3. Range(<<>>) = {} /\ IsInjective(<<>>) /\ Len(<<>>) = 0
  BY EmptySeq DEF Range, IsInjective
<1>4. \A w \in Worker : Unfinished(w) = <<>>
  BY DEF Unfinished
<1>5. \A w \in Worker : Held[w] = {}
  BY <1>3, <1>4 DEF Held
<1>6. Ahead /\ Single
  BY <1>3, <1>4, <1>5 DEF Ahead, Single
<1>7. Separate /\ Whole
  BY <1>3, <1>5 DEF Separate, Whole, Out
<1> QED BY <1>1, <1>2, <1>6, <1>7 DEF CInv

\* Every step keeps the invariant.
LEMMA CInvStep == CInv /\ [Next]_vars => CInv'
<1> SUFFICES ASSUME CInv, [Next]_vars
             PROVE  CInv'
  OBVIOUS
<1>1. IInv' /\ Idle' /\ Calm'
  BY InvStep, IdleKept, CalmKept DEF CInv
<1>2. Frames'
  <2>1. CASE UNCHANGED vars
    <3>1. \A v \in Worker : Unfinished(v)' = Unfinished(v)
      BY <2>1 DEF Unfinished, vars, core
    <3>2. Held' = Held /\ Out' = Out /\ \A v \in Worker : IsInjective(Unfinished(v)')
      BY <2>1, <3>1, HeldSame DEF CInv, Out, vars, core, client
    <3>3. UNCHANGED <<inQ, reorder, dropped, wpc, accepted, pushing, nextSeq, outQ, delivered>>
      BY <2>1 DEF vars, core, client
    <3>4. Ahead'
      BY <3>2, <3>3 DEF CInv, Ahead
    <3>5. Separate' /\ Single' /\ Whole'
      BY <3>2, <3>3 DEF CInv, Separate, Single, Whole
    <3> QED BY <3>4, <3>5 DEF Frames
  <2>2. CASE Next
    BY <2>2, FramesKeptByWorker, FramesKeptByClient DEF Next
  <2> QED BY <2>1, <2>2
<1> QED BY <1>1, <1>2 DEF CInv, Frames

\* The frames of the pipeline, in every reachable state.
THEOREM Conservation == SafetySpec => []CInv
BY CInvInit, CInvStep, PTL DEF SafetySpec

-----------------------------------------------------------------------------
(* Counting the places of a frame. *)

\* In a sequence without repetitions a frame has one copy, or none.
LEMMA OnceInSequence ==
  ASSUME NEW s, NEW id, NEW p, IsInjective(s)
  PROVE  IF id \in Range(s) THEN \E x : Copies(p, s, id) = {x} ELSE Copies(p, s, id) = {}
<1> DEFINE at == Copies(p, s, id)
<1> USE DEF Copies
<1>1. CASE id \in Range(s)
  <2>1. PICK j \in DOMAIN s : s[j] = id
    BY <1>1 DEF Range
  <2>2. {i \in DOMAIN s : s[i] = id} = {j}
    BY <2>1 DEF IsInjective
  <2>3. at = {<<p, j>>}
    BY <2>2
  <2> QED BY <1>1, <2>3
<1>2. CASE id \notin Range(s)
  <2>1. {i \in DOMAIN s : s[i] = id} = {}
    BY <1>2 DEF Range
  <2> QED BY <1>2, <2>1
<1> QED BY <1>1, <1>2

\* What was delivered and what waits to be popped are two consecutive runs of
\* sequence numbers.
LEMMA OutParts ==
  ASSUME IInv
  PROVE  /\ IsInjective(outQ) /\ IsInjective(delivered)
         /\ Range(outQ) \cap Range(delivered) = {}
         /\ Out = Range(outQ) \cup Range(delivered)
<1>1. /\ Len(outQ) \in Nat /\ Len(delivered) \in Nat
      /\ DOMAIN outQ = 1..Len(outQ) /\ DOMAIN delivered = 1..Len(delivered)
  BY LenProperties DEF IInv, Known
<1>2. /\ \A i \in 1..Len(delivered) : delivered[i] = i - 1
      /\ \A i \in 1..Len(outQ) : outQ[i] = Len(delivered) + i - 1
  BY DEF IInv, OutOrder
<1>3. IsInjective(outQ)
  BY <1>1, <1>2 DEF IsInjective
<1>4. IsInjective(delivered)
  BY <1>1, <1>2 DEF IsInjective
<1>5. Range(delivered) = 0..(Len(delivered) - 1)
  <2>1. \A k \in 0..(Len(delivered) - 1) : k + 1 \in 1..Len(delivered) /\ delivered[k + 1] = k
    BY <1>1, <1>2
  <2>2. \A i \in 1..Len(delivered) : delivered[i] \in 0..(Len(delivered) - 1)
    BY <1>1, <1>2
  <2>3. 0..(Len(delivered) - 1) \subseteq Range(delivered)
    BY <1>1, <2>1 DEF Range
  <2>4. Range(delivered) \subseteq 0..(Len(delivered) - 1)
    BY <1>1, <2>2 DEF Range
  <2> QED BY <2>3, <2>4
<1>6. Range(outQ) = Len(delivered)..(Len(delivered) + Len(outQ) - 1)
  <2>1. ASSUME NEW k \in Len(delivered)..(Len(delivered) + Len(outQ) - 1)
        PROVE  k \in Range(outQ)
    <3>1. k - Len(delivered) + 1 \in 1..Len(outQ)
      BY <1>1
    <3>2. outQ[k - Len(delivered) + 1] = k
      BY <1>1, <1>2, <3>1
    <3> QED BY <1>1, <3>1, <3>2 DEF Range
  <2>2. ASSUME NEW i \in 1..Len(outQ)
        PROVE  outQ[i] \in Len(delivered)..(Len(delivered) + Len(outQ) - 1)
    BY <1>1, <1>2
  <2>3. Range(outQ) \subseteq Len(delivered)..(Len(delivered) + Len(outQ) - 1)
    BY <1>1, <2>2 DEF Range
  <2> QED BY <2>1, <2>3
<1> QED BY <1>1, <1>3, <1>4, <1>5, <1>6 DEF Out

\* A frame is in none of the places if it was not accepted, and in one if it was.
LEMMA PlacesOfFrame ==
  ASSUME CInv, NEW id \in Id
  PROVE  IF id \in accepted THEN \E x : Places(id) = {x} ELSE Places(id) = {}
<1> USE DEF CInv
<1> DEFINE inPlaces == Copies(<<"in", None>>, inQ, id)
           batchPlaces == UNION {Copies(<<"batch", w>>, Unfinished(w), id) : w \in Worker}
           parked == {<<"reorder", None>>} \X (reorder \cap {id})
           outPlaces == Copies(<<"out", None>>, outQ, id)
           donePlaces == Copies(<<"delivered", None>>, delivered, id)
           discarded == {<<"dropped", None>>} \X (dropped \cap {id})
<1>1. Places(id) = inPlaces \cup batchPlaces \cup parked \cup outPlaces
                   \cup donePlaces \cup discarded
  BY DEF Places
<1>2. IF id \in Range(inQ) THEN \E x : inPlaces = {x} ELSE inPlaces = {}
  BY OnceInSequence DEF Single
<1>3. /\ IF id \in Range(outQ) THEN \E x : outPlaces = {x} ELSE outPlaces = {}
      /\ IF id \in Range(delivered) THEN \E x : donePlaces = {x} ELSE donePlaces = {}
  BY OnceInSequence, OutParts
<1>4. /\ IF id \in reorder THEN \E x : parked = {x} ELSE parked = {}
      /\ IF id \in dropped THEN \E x : discarded = {x} ELSE discarded = {}
  <2>1. IF id \in reorder THEN parked = {<<<<"reorder", None>>, id>>} ELSE parked = {}
    OBVIOUS
  <2>2. IF id \in dropped THEN discarded = {<<<<"dropped", None>>, id>>} ELSE discarded = {}
    OBVIOUS
  <2> QED BY <2>1, <2>2
<1>5. IF \E w \in Worker : id \in Held[w] THEN \E x : batchPlaces = {x} ELSE batchPlaces = {}
  <2>1. \A w \in Worker : IF id \in Held[w] THEN \E x : Copies(<<"batch", w>>, Unfinished(w), id) = {x}
                          ELSE Copies(<<"batch", w>>, Unfinished(w), id) = {}
    BY OnceInSequence DEF Single, Held
  <2>2. CASE \E w \in Worker : id \in Held[w]
    <3>1. PICK w \in Worker : id \in Held[w]
      BY <2>2
    <3>2. \A v \in Worker \ {w} : Copies(<<"batch", v>>, Unfinished(v), id) = {}
      BY <2>1, <3>1 DEF Separate
    <3>3. batchPlaces = Copies(<<"batch", w>>, Unfinished(w), id)
      <4>1. \A x : x \in batchPlaces
                    <=> \E v \in Worker : x \in Copies(<<"batch", v>>, Unfinished(v), id)
        OBVIOUS
      <4> HIDE DEF batchPlaces
      <4> QED BY <3>1, <3>2, <4>1
    <3> QED BY <2>1, <2>2, <3>1, <3>3
  <2>3. CASE ~(\E w \in Worker : id \in Held[w])
    BY <2>1, <2>3
  <2> QED BY <2>2, <2>3
<1> HIDE DEF inPlaces, batchPlaces, parked, outPlaces, donePlaces, discarded
<1>6. Out = Range(outQ) \cup Range(delivered) /\ Range(outQ) \cap Range(delivered) = {}
  BY OutParts
<1>7. /\ Range(inQ) \cup reorder \cup dropped \cup Out \subseteq accepted
      /\ \A w \in Worker : Held[w] \subseteq accepted
  <2>1. /\ Range(inQ) \subseteq accepted
        /\ Range(outQ) \cup Range(delivered) \subseteq accepted
    BY RangeOfSeq DEF IInv, Known
  <2>2. ASSUME NEW v \in Worker
        PROVE  Held[v] \subseteq accepted
    <3>1. Unfinished(v) \in Seq(accepted)
      BY HeadTailProperties DEF Unfinished, IInv, Known, Busy
    <3> QED BY <3>1, RangeOfSeq DEF Held
  <2> QED BY <1>6, <2>1, <2>2 DEF IInv, Known
<1>8. Out \cap (Range(inQ) \cup reorder) = {} /\ \A w \in Worker : Out \cap Held[w] = {}
  <2>1. \A k \in Out : ~(nextSeq <= k)
    BY OutType DEF Ahead, Out
  <2> QED BY <2>1 DEF Ahead
<1>9. CASE id \notin accepted
  BY <1>1, <1>2, <1>3, <1>4, <1>5, <1>6, <1>7, <1>9
<1>10. CASE \E w \in Worker : id \in Held[w]
  BY <1>1, <1>2, <1>3, <1>4, <1>5, <1>6, <1>7, <1>8, <1>10 DEF Separate
<1>11. CASE ~(\E w \in Worker : id \in Held[w]) /\ id \in accepted
  <2>1. id \in Range(inQ) \cup reorder \cup dropped \cup Out
    BY <1>11 DEF Whole
  <2> QED BY <1>1, <1>2, <1>3, <1>4, <1>5, <1>6, <1>8, <1>11, <2>1 DEF Separate
<1> QED BY <1>9, <1>10, <1>11

\* Conservation: whatever the workers, the client and a stop do, an accepted
\* frame is in exactly one place of the pipeline or handed out exactly once, and
\* before a stop nothing is discarded.
THEOREM NothingLost == SafetySpec => []ExactlyOnce
<1>1. CInv => ExactlyOnce
  <2> SUFFICES ASSUME CInv
               PROVE  ExactlyOnce
    OBVIOUS
  <2>1. ASSUME NEW id \in Id
        PROVE  Cardinality(Places(id)) = IF id \in accepted THEN 1 ELSE 0
    BY <2>1, PlacesOfFrame, FS_Singleton, FS_EmptySet
  <2>2. dropped # {} => stopped
    BY DEF CInv, Calm
  <2> QED BY <2>1, <2>2 DEF ExactlyOnce
<1> QED BY <1>1, Conservation, PTL

\* When push_to_output_ordered has let go of the reorder mutex, no frame is left
\* in the buffer whose turn has come.
THEOREM BufferIsDrained == SafetySpec => []NothingOverdue
<1>1. CInv => NothingOverdue
  <2> SUFFICES ASSUME CInv, lock = None, NEW id \in reorder
               PROVE  id > nextSeq
    BY DEF NothingOverdue
  <2>1. \A w \in Worker : wpc[w] # "drain"
    BY DEF CInv, IInv, Holding
  <2>2. nextSeq <= id /\ id # nextSeq
    BY <2>1 DEF CInv, Ahead
  <2>3. id \in Nat /\ nextSeq \in Nat
    BY DEF CInv, IInv, Known, Scalars
  <2> QED BY <2>2, <2>3
<1> QED BY <1>1, Conservation, PTL
=============================================================================
