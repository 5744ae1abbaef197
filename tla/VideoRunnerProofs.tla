--------------------------- MODULE VideoRunnerProofs ---------------------------
(***************************************************************************)
(* Proofs about a video run, for any video, any frame limit, any number of *)
(* workers and any queue and batch size.  The runner is shown to be one of *)
(* the clients PipelineProofs is about; what is proved there then carries  *)
(* the proof that a run which reports success wrote the whole video.       *)
(***************************************************************************)
EXTENDS VideoRunner, SequenceTheorems, TLAPS

\* The proofs about the pipeline, read with this client.
P == INSTANCE PipelineProofs WITH
       MaxStarts <- 1, pushing <- Pushing, accepted <- Accepted,
       refused <- {}, delivered <- popped, reading <- Reading,
       ctl <- Ctl, starts <- Starts, stopped <- Stopped

-----------------------------------------------------------------------------
(* Where the two threads of the call can be. *)

Running == {"loop", "push", "eos", "join", "stop"}
Ended == {"shutOut", "joinWorkers", "finish", "mux", "done"}

\* The writer lives from Begin until it is joined; the pipeline is active from
\* Begin until it is stopped, and shut only afterwards.
Control ==
  /\ main \in MainState
  /\ writer \in {"none", "pop", "got", "done"}
  /\ main = "open" => writer = "none"
  /\ writer = "none" => main \in {"open", "done"}
  /\ main \in {"stop", "shutIn"} \cup Ended => writer \in {"none", "done"}
  /\ active <=> main \in Running
  /\ inShut => main \in Ended /\ writer = "done"

\* The numbers of the frames, and of the one that ends the stream.
Numbers ==
  /\ start \in 0..Total
  /\ readable \in 0..Total
  /\ seqId \in start..Total
  /\ main = "open" => seqId = start
  /\ main = "push" => seqId < readable
  /\ eosId \in {-1, seqId}
  /\ main \in {"open", "loop", "push", "eos"} \/ writer = "none" => eosId = -1

\* A worker touches neither the flags the client sets nor the client.
LEMMA WorkerLeavesClient ==
  ASSUME NEW w \in Worker, WorkStep(w)
  PROVE  /\ UNCHANGED <<active, inShut>>
         /\ UNCHANGED runner
BY DEF WorkStep, WorkerStep, Loop, Fetch, FetchNone, Process, Park, Acquire,
       Emit, Drain, Release

\* A run begins with no writer, an idle pipeline and its first number.
LEMMA ControlInit == Init => Control /\ Numbers
<1> SUFFICES ASSUME Init PROVE Control /\ Numbers
  OBVIOUS
<1>1. Control
  BY DEF Init, CoreInit, Control, MainState, Running, Ended
<1>2. Numbers
  BY VideoAssumption DEF Init, Numbers
<1>3. QED
  BY <1>1, <1>2

\* No step of any thread takes a thread where Control does not have it.
LEMMA ControlStep == Control /\ Numbers /\ [Next]_vars => Control'
<1> SUFFICES ASSUME Control, Numbers, [Next]_vars PROVE Control'
  OBVIOUS
<1> USE DEF Control, MainState, Running, Ended
<1>1. ASSUME NEW w \in Worker, WorkStep(w) PROVE Control'
  BY <1>1, WorkerLeavesClient DEF runner
<1>2. ASSUME MainStep PROVE Control'
  <2>1. SetupFails \/ AlreadyComplete => Control'
    BY DEF SetupFails, AlreadyComplete, Return, core
  <2>2. Begin => Control'
    BY DEF Begin, StartWorkers
  <2>3. ReadFrame => Control'
    BY DEF ReadFrame, core
  <2>4. PushVideoFrame \/ PushEos => Control'
    BY DEF PushVideoFrame, PushEos, EnqueueFrame
  <2>5. JoinWriter => Control'
    BY DEF JoinWriter, core
  <2>6. StopPipeline => Control'
    BY DEF StopPipeline, Deactivate, ShutInput, ShutOutput, JoinWorkers
  <2>7. FinishCancelled \/ FinishFailed \/ FinishGood \/ Mux => Control'
    BY DEF FinishCancelled, FinishFailed, FinishGood, Mux, Return, core
  <2>8. QED
    BY <1>2, <2>1, <2>2, <2>3, <2>4, <2>5, <2>6, <2>7 DEF MainStep
<1>3. ASSUME WriterStep PROVE Control'
  BY <1>3 DEF WriterStep, WriterPop, WriterSeesEos, WriterWrites, WriterFails,
              DequeueFrame, core
<1>4. ASSUME Cancel PROVE Control'
  BY <1>4 DEF Cancel, core
<1>5. ASSUME UNCHANGED vars PROVE Control'
  BY <1>5 DEF vars, core, runner
<1>6. QED
  BY <1>1, <1>2, <1>3, <1>4, <1>5 DEF Next

\* The next number stays inside the video, and only the last push gets the end
\* of the stream.
LEMMA NumbersStep == Control /\ Numbers /\ [Next]_vars => Numbers'
<1> SUFFICES ASSUME Control, Numbers, [Next]_vars PROVE Numbers'
  OBVIOUS
<1> USE DEF Numbers
<1>1. ASSUME NEW w \in Worker, WorkStep(w) PROVE Numbers'
  BY <1>1, WorkerLeavesClient DEF runner
<1>2. ASSUME MainStep PROVE Numbers'
  <2>1. SetupFails \/ AlreadyComplete => Numbers'
    BY DEF SetupFails, AlreadyComplete, Return, Control
  <2>2. Begin => Numbers'
    BY VideoAssumption DEF Begin
  <2>3. ReadFrame => Numbers'
    BY DEF ReadFrame, Control
  <2>4. PushVideoFrame => Numbers'
    BY VideoAssumption DEF PushVideoFrame, Control
  <2>5. PushEos => Numbers'
    BY DEF PushEos, Control
  <2>6. JoinWriter \/ StopPipeline => Numbers'
    BY DEF JoinWriter, StopPipeline, Control, Ended
  <2>7. FinishCancelled \/ FinishFailed \/ FinishGood \/ Mux => Numbers'
    BY DEF FinishCancelled, FinishFailed, FinishGood, Mux, Return, Control
  <2>8. QED
    BY <1>2, <2>1, <2>2, <2>3, <2>4, <2>5, <2>6, <2>7 DEF MainStep
<1>3. ASSUME WriterStep PROVE Numbers'
  BY <1>3 DEF WriterStep, WriterPop, WriterSeesEos, WriterWrites, WriterFails
<1>4. ASSUME Cancel \/ UNCHANGED vars PROVE Numbers'
  BY <1>4 DEF Cancel, vars, runner
<1>5. QED
  BY <1>1, <1>2, <1>3, <1>4 DEF Next

-----------------------------------------------------------------------------
(* The runner is a client of PipelineClient. *)

\* A worker's step is a worker's step of the client's pipeline.
LEMMA WorkerIsWorker ==
  ASSUME NEW w \in Worker, WorkStep(w) PROVE Client!WorkStep(w)
<1>1. WorkerStep(w) /\ UNCHANGED runner
  BY DEF WorkStep
<1>2. Client!WorkerStep(w)
  BY <1>1 DEF WorkerStep, Loop, Fetch, FetchNone, Process, Park, Acquire,
       Emit, Drain, Release, NextFrame, PushOut, CanPush, Pushed, BatchLen,
       IsFirst, Client!WorkerStep, Client!Loop, Client!Fetch,
       Client!FetchNone, Client!Process, Client!Park, Client!Acquire,
       Client!Emit, Client!Drain, Client!Release, Client!NextFrame,
       Client!PushOut, Client!CanPush, Client!Pushed, Client!BatchLen,
       Client!IsFirst
<1>3. UNCHANGED Client!client
  BY <1>1 DEF runner, Client!client, Pushing, Accepted, Reading, Ctl, Starts,
              Stopped
<1>4. QED
  BY <1>2, <1>3 DEF Client!WorkStep

\* A step of the runner that touches neither the pipeline nor what a client is
\* about is no step of the client.
LEMMA SameClient ==
  ASSUME UNCHANGED core,
         UNCHANGED <<Pushing, Accepted, Reading, Ctl, Starts, Stopped, popped>>
  PROVE  UNCHANGED Client!vars
BY DEF Client!vars, Client!core, core, Client!client

\* What a step does to the set of frames pushed.
LEMMA NothingYet ==
  ASSUME Numbers, main = "open", start' = seqId', start' \in {0, start},
         eosId' = eosId
  PROVE  Accepted = {} /\ Accepted' = {}
<1>1. start \in Nat /\ seqId = start /\ eosId = -1
  BY VideoAssumption DEF Numbers
<1>2. /\ \A id \in Id : ~(start <= id /\ id < seqId)
      /\ \A id \in Id : ~(start' <= id /\ id < seqId')
  BY <1>1, IdAssumption
<1>3. QED
  BY <1>1, <1>2 DEF Accepted

\* Pushing a frame adds its number to what the client has handed over, ...
LEMMA OneMoreFrame ==
  ASSUME Numbers, seqId \in Id, seqId' = seqId + 1, eosId = -1,
         UNCHANGED <<start, eosId>>
  PROVE  Accepted' = Accepted \cup {seqId}
<1>1. \A id \in Id : start' <= id /\ id < seqId'
                     <=> (start <= id /\ id < seqId) \/ id = seqId
  BY IdAssumption, VideoAssumption DEF Numbers
<1>2. QED
  BY <1>1 DEF Accepted

\* ... and pushing the end of the stream adds the number behind the last frame.
LEMMA OneMoreEos ==
  ASSUME Numbers, eosId = -1, eosId' = seqId, UNCHANGED <<start, seqId>>
  PROVE  Accepted' = Accepted \cup {seqId}
<1>1. seqId # -1
  BY VideoAssumption DEF Numbers
<1>2. QED
  BY <1>1 DEF Accepted

\* Every step of the reading thread is one the client of the pipeline may take.
LEMMA MainIsClient ==
  ASSUME Control, Numbers, MainStep PROVE [Client!Next]_Client!vars
<1> USE DEF Control, Numbers, MainState, Running, Ended
<1>1. ASSUME SetupFails \/ AlreadyComplete PROVE UNCHANGED Client!vars
  BY <1>1, SameClient DEF SetupFails, AlreadyComplete, Return, Pushing,
                          Accepted, Reading, Ctl, Starts, Stopped
<1>2. ASSUME Begin PROVE Client!Start
  <2>1. Accepted' = Accepted
    BY <1>2, NothingYet DEF Begin
  <2>2. UNCHANGED <<Pushing, popped, Reading, Ctl, Stopped>>
    BY <1>2 DEF Begin, Pushing, Reading, Ctl, Stopped
  <2>3. Starts = 0 /\ Starts' = 1
    BY <1>2 DEF Begin, Starts
  <2>4. Client!StartWorkers /\ Ctl = "idle"
    BY <1>2 DEF Begin, StartWorkers, Client!StartWorkers, Ctl
  <2>5. QED
    BY <2>1, <2>2, <2>3, <2>4 DEF Client!Start
<1>3. ASSUME ReadFrame PROVE Client!Next
  <2>1. seqId \in Id /\ seqId # -1 /\ seqId \notin Accepted
    BY <1>3, VideoAssumption, IdAssumption DEF ReadFrame, Accepted
  <2>2. Pushing = -1 /\ Pushing' = seqId
    BY <1>3 DEF ReadFrame, Pushing
  <2>3. UNCHANGED <<Accepted, Reading, Ctl, Starts, Stopped, popped>>
    BY <1>3 DEF ReadFrame, Accepted, Reading, Ctl, Starts, Stopped
  <2>4. active /\ UNCHANGED Client!core
    BY <1>3 DEF ReadFrame, core, Client!core
  <2>5. Client!PushTest(seqId)
    BY <2>1, <2>2, <2>3, <2>4 DEF Client!PushTest
  <2>6. QED
    BY <2>1, <2>5 DEF Client!Next
<1>4. ASSUME PushVideoFrame \/ PushEos PROVE Client!PushDo
  <2>1. EnqueueFrame(seqId) /\ seqId \in Id /\ seqId # -1
    BY <1>4, VideoAssumption, IdAssumption DEF PushVideoFrame, PushEos
  <2>2. Pushing = seqId /\ Pushing' = -1
    BY <1>4 DEF PushVideoFrame, PushEos, Pushing
  <2>3. Accepted' = Accepted \cup {seqId}
    BY <1>4, <2>1, OneMoreFrame, OneMoreEos DEF PushVideoFrame, PushEos
  <2>4. UNCHANGED <<Reading, Ctl, Starts, Stopped, popped>>
    BY <1>4 DEF PushVideoFrame, PushEos, Reading, Ctl, Starts, Stopped
  <2>5. ~inShut
    BY <1>4 DEF PushVideoFrame, PushEos
  <2>6. Client!EnqueueFrame(seqId)
    BY <2>1 DEF EnqueueFrame, Client!EnqueueFrame, CanPush, Client!CanPush,
                Pushed, Client!Pushed
  <2>7. QED
    BY <2>1, <2>2, <2>3, <2>4, <2>5, <2>6 DEF Client!PushDo
<1>5. ASSUME JoinWriter PROVE UNCHANGED Client!vars
  BY <1>5, SameClient DEF JoinWriter, Pushing, Accepted, Reading, Ctl, Starts,
                          Stopped
<1>6. ASSUME StopPipeline
      PROVE  \/ Client!StopBegin \/ Client!StopShutInput
             \/ Client!StopShutOutput \/ Client!StopJoin
  <2>1. UNCHANGED <<Pushing, Accepted, Reading, Starts, popped>>
    BY <1>6 DEF StopPipeline, Pushing, Accepted, Reading, Starts
  <2>2. writer = "done" /\ writer' = "done"
    BY <1>6 DEF StopPipeline
  <2>3. ASSUME main = "stop", Deactivate, main' = "shutIn"
        PROVE  Client!StopBegin
    BY <2>1, <2>2, <2>3 DEF Deactivate, Client!StopBegin, Client!Deactivate,
                            Ctl, Stopped
  <2>4. ASSUME main = "shutIn", ShutInput, main' = "shutOut"
        PROVE  Client!StopShutInput
    BY <2>1, <2>2, <2>4 DEF ShutInput, Client!StopShutInput, Client!ShutInput,
                            Ctl, Stopped
  <2>5. ASSUME main = "shutOut", ShutOutput, main' = "joinWorkers"
        PROVE  Client!StopShutOutput
    BY <2>1, <2>2, <2>5 DEF ShutOutput, Client!StopShutOutput,
                            Client!ShutOutput, Ctl, Stopped
  <2>6. ASSUME main = "joinWorkers", JoinWorkers, main' = "finish"
        PROVE  Client!StopJoin
    BY <2>1, <2>2, <2>6 DEF JoinWorkers, Client!StopJoin, Client!JoinWorkers,
                            Ctl, Stopped
  <2>7. QED
    BY <1>6, <2>3, <2>4, <2>5, <2>6 DEF StopPipeline
<1>7. ASSUME FinishCancelled \/ FinishFailed \/ FinishGood \/ Mux
      PROVE  UNCHANGED Client!vars
  BY <1>7, SameClient DEF FinishCancelled, FinishFailed, FinishGood, Mux,
       Return, Pushing, Accepted, Reading, Ctl, Starts, Stopped
<1>8. QED
  BY <1>1, <1>2, <1>3, <1>4, <1>5, <1>6, <1>7
     DEF MainStep, Client!Next, Client!StopStep

\* So is every step of the writer thread, ...
LEMMA WriterIsClient ==
  ASSUME Control, WriterStep PROVE [Client!Next]_Client!vars
<1> USE DEF Control
<1>1. ASSUME WriterPop PROVE Client!PopFrame
  <2>1. UNCHANGED <<Pushing, Accepted, Reading, Ctl, Starts, Stopped>> /\ Reading
    BY <1>1 DEF WriterPop, Pushing, Accepted, Reading, Ctl, Starts, Stopped
  <2>2. Client!DequeueFrame /\ popped' = Append(popped, Head(outQ))
    BY <1>1 DEF WriterPop, DequeueFrame, Client!DequeueFrame
  <2>3. QED
    BY <2>1, <2>2 DEF Client!PopFrame
<1>2. ASSUME WriterSeesEos \/ WriterFails PROVE Client!Leave
  <2>1. UNCHANGED <<Pushing, Accepted, Ctl, Starts, Stopped, popped>>
    BY <1>2 DEF WriterSeesEos, WriterFails, Pushing, Accepted, Ctl, Starts,
                Stopped
  <2>2. Reading /\ Reading' = FALSE
    BY <1>2 DEF WriterSeesEos, WriterFails, Reading
  <2>3. UNCHANGED Client!core
    BY <1>2 DEF WriterSeesEos, WriterFails, core, Client!core
  <2>4. QED
    BY <2>1, <2>2, <2>3 DEF Client!Leave
<1>3. ASSUME WriterWrites PROVE UNCHANGED Client!vars
  BY <1>3, SameClient DEF WriterWrites, Pushing, Accepted, Reading, Ctl,
                          Starts, Stopped
<1>4. QED
  BY <1>1, <1>2, <1>3 DEF WriterStep, Client!Next

\* ... and with them every step of a run, ...
LEMMA StepIsClient ==
  Control /\ Numbers /\ [Next]_vars => [Client!Next]_Client!vars
<1> SUFFICES ASSUME Control, Numbers, [Next]_vars
             PROVE  [Client!Next]_Client!vars
  OBVIOUS
<1>1. ASSUME NEW w \in Worker, WorkStep(w) PROVE Client!Next
  BY <1>1, WorkerIsWorker DEF Client!Next
<1>2. ASSUME Cancel PROVE UNCHANGED Client!vars
  BY <1>2, SameClient DEF Cancel, Pushing, Accepted, Reading, Ctl, Starts,
                          Stopped
<1>3. ASSUME UNCHANGED vars PROVE UNCHANGED Client!vars
  BY <1>3, SameClient DEF vars, runner, Pushing, Accepted, Reading, Ctl,
                          Starts, Stopped
<1>4. QED
  BY <1>1, <1>2, <1>3, MainIsClient, WriterIsClient DEF Next

\* ... which begins where a client begins.
LEMMA InitIsClient == Init => Client!Init
<1> SUFFICES ASSUME Init PROVE Client!Init
  OBVIOUS
<1>1. Client!CoreInit
  BY DEF Init, CoreInit, Client!CoreInit
<1>2. Accepted = {}
  <2>1. start \in Nat /\ seqId = start /\ eosId = -1
    BY VideoAssumption DEF Init
  <2>2. \A id \in Id : ~(start <= id /\ id < seqId)
    BY <2>1, IdAssumption
  <2>3. QED
    BY <2>1, <2>2 DEF Accepted
<1>3. /\ Pushing = -1 /\ popped = <<>> /\ Reading = TRUE
      /\ Ctl = "idle" /\ Starts = 0 /\ Stopped = FALSE
  BY DEF Init, Pushing, Reading, Ctl, Starts, Stopped
<1>4. QED
  BY <1>1, <1>2, <1>3 DEF Client!Init

\* The video runner keeps to what the pipeline asks of its client: it pushes
\* every number once, starts the pipeline once, and stops it after the last
\* frame and after its writer thread has gone.
THEOREM RunnerIsClient == Spec => IsPipelineClient
<1>1. Spec => Client!Init
  BY InitIsClient, PTL DEF Spec
<1>2. Spec => [](Control /\ Numbers)
  BY ControlInit, ControlStep, NumbersStep, PTL DEF Spec
<1>3. QED
  BY <1>1, <1>2, StepIsClient, PTL DEF Spec, IsPipelineClient,
     Client!SafetySpec

-----------------------------------------------------------------------------
(* What the run has written, and what its result says about it. *)

\* What has been written is what has been popped, but for the frame the writer
\* still has in hand; the last frame of a writer that did not fail is the end
\* of the stream.
Copied ==
  /\ written \in Seq(Id)
  /\ Len(popped) = Len(written)
                     + (IF writer \in {"got", "done"} THEN 1 ELSE 0)
  /\ \A i \in 1..Len(written) : written[i] = popped[i]
  /\ writer = "none" => written = <<>>
  /\ writer = "done" /\ ~writerError => Got = eosId
  /\ writerError => writer = "done"

\* No frame is left to be pushed.
Exhausted == LimitReached \/ seqId >= readable

\* The loop does not run past the end, and is left before it only for a reason
\* the result will tell.
Reached ==
  /\ main = "push" => ~LimitReached
  /\ start = 0 => seqId <= LastFrame
  /\ main \in {"eos", "join", "stop", "shutIn", "shutOut", "joinWorkers",
               "finish"} => cancelled \/ writerError \/ Exhausted
  /\ main = "mux" \/ (result = "ok" /\ writer # "none")
       => ~writerError /\ Exhausted

\* What a run may return, and that success leaves no checkpoint.
Results == {"running", "ok", "error", "cancelled", "throws"}

Outcome ==
  /\ result \in Results
  /\ result = "running" <=> main # "done"
  /\ main = "mux" => Muxing
  /\ result = "ok" \/ main = "mux" => ckpt = -1
  /\ ckpt \in Id \cup {-1}
  /\ cancelled \in BOOLEAN /\ writerError \in BOOLEAN

\* While a run lasts it has one file; a cancelled one leaves none.
Kept ==
  /\ main # "done" => files \subseteq {VideoFile}
  /\ main # "done" /\ written # <<>> => VideoFile \in files
  /\ result = "cancelled" => files = {}
  /\ result = "ok" /\ written # <<>> => files = {"output"}
  /\ files \subseteq {"temp", "output"}

RInv == Control /\ Numbers /\ Copied /\ Reached /\ Outcome /\ Kept

\* The invariant holds before the first step.
LEMMA RInvInit == Init => RInv
<1> SUFFICES ASSUME Init PROVE RInv
  OBVIOUS
<1>1. Control /\ Numbers
  BY ControlInit
<1>2. Copied
  BY EmptySeq DEF Init, Copied
<1>3. Reached
  BY VideoAssumption DEF Init, Reached, LastFrame
<1>4. Outcome
  <2>1. ckpt \in Id \cup {-1}
    <3>1. start \in 0..Total /\ ckpt = start - 1
      BY VideoAssumption DEF Init
    <3>2. start - 1 \in 0..Total \cup {-1}
      BY <3>1, VideoAssumption
    <3>3. QED
      BY <3>1, <3>2, VideoAssumption
  <2>2. result = "running" /\ main = "open"
    BY DEF Init
  <2>3. QED
    BY <2>1, <2>2 DEF Init, Outcome, Results
<1>5. Kept
  BY DEF Init, Kept
<1>6. QED
  BY <1>1, <1>2, <1>3, <1>4, <1>5 DEF RInv

\* Every frame popped has a number of the run.
LEMMA PoppedType ==
  ASSUME Numbers, P!CInv
  PROVE  popped \in Seq(Id) /\ -1 \notin Id
<1>1. seqId \in Id /\ -1 \notin Id
  BY VideoAssumption, IdAssumption DEF Numbers
<1>2. Accepted \subseteq Id
  BY <1>1 DEF Accepted, Numbers
<1>3. popped \in Seq(Accepted)
  BY DEF P!CInv, P!IInv, P!Known
<1>4. QED
  BY <1>1, <1>2, <1>3

\* What the writer has written stays the first part of what it has popped.
LEMMA CopiedStep ==
  ASSUME Control, Numbers, Copied, P!CInv, [Next]_vars PROVE Copied'
<1> USE DEF Copied
<1>1. popped \in Seq(Id) /\ -1 \notin Id
  BY PoppedType
<1>2. Len(popped) \in Nat /\ Len(written) \in Nat
  BY <1>1, LenProperties
<1>3. ASSUME NEW w \in Worker, WorkStep(w) PROVE Copied'
  BY <1>3, WorkerLeavesClient DEF runner, Got
<1>4. ASSUME MainStep PROVE Copied'
  <2>1. UNCHANGED <<popped, written, writerError>>
    BY <1>4 DEF MainStep, SetupFails, AlreadyComplete, Begin, ReadFrame,
         PushVideoFrame, PushEos, JoinWriter, StopPipeline, FinishCancelled,
         FinishFailed, FinishGood, Mux
  <2>2. CASE Begin
    BY <2>1, <2>2 DEF Begin, Control, Got
  <2>3. ASSUME ~Begin PROVE writer' = writer
    BY <1>4, <2>3 DEF MainStep, SetupFails, AlreadyComplete, ReadFrame,
         PushVideoFrame, PushEos, JoinWriter, StopPipeline, FinishCancelled,
         FinishFailed, FinishGood, Mux
  <2>4. CASE PushEos
    <3>1. eosId = -1
      BY <2>4 DEF PushEos, Numbers
    <3>2. writer = "done" => Got \in Id
      BY <1>1, <1>2 DEF Got
    <3>3. writer' = writer /\ ~(writer = "done" /\ ~writerError)
      BY <1>1, <2>4, <3>1, <3>2 DEF PushEos
    <3>4. QED
      BY <2>1, <3>3
  <2>5. ASSUME ~PushEos PROVE eosId' = eosId
    BY <1>4, <2>5 DEF MainStep, SetupFails, AlreadyComplete, Begin, ReadFrame,
         PushVideoFrame, JoinWriter, StopPipeline, FinishCancelled,
         FinishFailed, FinishGood, Mux
  <2>6. QED
    BY <2>1, <2>2, <2>3, <2>4, <2>5 DEF Got
<1>5. ASSUME WriterPop PROVE Copied'
  <2>1. Head(outQ) \in Id
    <3>1. outQ \in Seq(Accepted) /\ outQ # <<>>
      BY <1>5 DEF WriterPop, DequeueFrame, P!CInv, P!IInv, P!Known
    <3>2. Accepted \subseteq Id
      BY VideoAssumption DEF Accepted, Numbers
    <3>3. QED
      BY <3>1, <3>2, HeadTailProperties
  <2>2. popped' = Append(popped, Head(outQ)) /\ writer = "pop" /\ writer' = "got"
    BY <1>5 DEF WriterPop
  <2>3. UNCHANGED <<written, writerError>>
    BY <1>5 DEF WriterPop
  <2>4. /\ Len(popped') = Len(popped) + 1
        /\ \A i \in 1..Len(popped) : popped'[i] = popped[i]
    BY <1>1, <2>1, <2>2, AppendProperties
  <2>5. QED
    BY <1>2, <2>2, <2>3, <2>4
<1>6. ASSUME WriterSeesEos PROVE Copied'
  BY <1>6 DEF WriterSeesEos, Got
<1>7. ASSUME WriterWrites PROVE Copied'
  <2>1. /\ writer = "got" /\ writer' = "pop" /\ written' = Append(written, Got)
        /\ popped' = popped /\ writerError' = writerError
    BY <1>7 DEF WriterWrites
  <2>2. Len(popped) = Len(written) + 1
    BY <2>1
  <2>3. Got = popped[Len(written) + 1] /\ Got \in Id
    BY <1>1, <1>2, <2>2 DEF Got
  <2>4. /\ written' \in Seq(Id) /\ Len(written') = Len(written) + 1
        /\ \A i \in 1..Len(written) : written'[i] = written[i]
        /\ written'[Len(written) + 1] = Got
    BY <2>1, <2>3, AppendProperties
  <2>5. \A i \in 1..Len(written') : written'[i] = popped[i]
    BY <1>2, <2>3, <2>4
  <2>6. QED
    BY <1>2, <2>1, <2>2, <2>4, <2>5
<1>8. ASSUME WriterFails PROVE Copied'
  BY <1>8 DEF WriterFails
<1>9. ASSUME Cancel \/ UNCHANGED vars PROVE Copied'
  BY <1>9 DEF Cancel, vars, runner, Got
<1>10. QED
  BY <1>3, <1>4, <1>5, <1>6, <1>7, <1>8, <1>9 DEF Next, WriterStep

\* The reading thread leaves its loop only for one of the reasons it may have.
LEMMA ReachedStep ==
  ASSUME Control, Numbers, Copied, Outcome, Reached, [Next]_vars PROVE Reached'
<1> USE DEF Reached, Exhausted, LimitReached, LastFrame
<1>1. ASSUME NEW w \in Worker, WorkStep(w) PROVE Reached'
  BY <1>1, WorkerLeavesClient DEF runner
<1>2. ASSUME MainStep PROVE Reached'
  <2>1. SetupFails \/ AlreadyComplete => Reached'
    BY DEF SetupFails, AlreadyComplete, Return, Control
  <2>2. Begin => Reached'
    BY VideoAssumption DEF Begin, Numbers, Outcome
  <2>3. ReadFrame => Reached'
    BY DEF ReadFrame, Outcome
  <2>4. PushVideoFrame => Reached'
    <3> SUFFICES ASSUME PushVideoFrame PROVE Reached'
      OBVIOUS
    <3>1. /\ main = "push" /\ main' = "loop" /\ seqId' = seqId + 1
          /\ UNCHANGED <<start, readable, result>>
      BY DEF PushVideoFrame
    <3>2. seqId \in Nat /\ readable \in Nat /\ seqId < readable
      BY <3>1, VideoAssumption DEF Numbers
    <3>3. start' = 0 => seqId' <= LastFrame'
      BY <3>1, <3>2, VideoAssumption
    <3>4. result' = "running"
      BY <3>1 DEF Outcome
    <3>5. QED
      BY <3>1, <3>3, <3>4
  <2>5. PushEos => Reached'
    BY DEF PushEos, Outcome
  <2>6. JoinWriter \/ StopPipeline => Reached'
    BY DEF JoinWriter, StopPipeline, Outcome
  <2>7. FinishCancelled \/ FinishFailed \/ FinishGood \/ Mux => Reached'
    BY DEF FinishCancelled, FinishFailed, FinishGood, Mux, Return
  <2>8. QED
    BY <1>2, <2>1, <2>2, <2>3, <2>4, <2>5, <2>6, <2>7 DEF MainStep
<1>3. ASSUME WriterStep PROVE Reached'
  <2>1. main # "mux" /\ main # "done" /\ main' = main /\ result' = result
    BY <1>3 DEF WriterStep, WriterPop, WriterSeesEos, WriterWrites,
                WriterFails, Control, Ended
  <2>2. result = "running"
    BY <2>1 DEF Outcome
  <2>3. UNCHANGED <<start, seqId, readable, cancelled>>
        /\ (writerError => writerError')
    BY <1>3 DEF WriterStep, WriterPop, WriterSeesEos, WriterWrites,
                WriterFails
  <2>4. QED
    BY <2>1, <2>2, <2>3
<1>4. ASSUME Cancel \/ UNCHANGED vars PROVE Reached'
  BY <1>4 DEF Cancel, vars, runner
<1>5. QED
  BY <1>1, <1>2, <1>3, <1>4 DEF Next

\* The result follows the flags the two threads have set.
LEMMA OutcomeStep ==
  ASSUME Control, Numbers, Outcome, [Next]_vars PROVE Outcome'
<1> USE DEF Outcome, Results
<1>1. ASSUME NEW w \in Worker, WorkStep(w) PROVE Outcome'
  BY <1>1, WorkerLeavesClient DEF runner
<1>2. ASSUME MainStep PROVE Outcome'
  <2>1. SetupFails \/ AlreadyComplete => Outcome'
    BY DEF SetupFails, AlreadyComplete, Return
  <2>2. Begin \/ ReadFrame \/ PushEos \/ JoinWriter \/ StopPipeline => Outcome'
    BY DEF Begin, ReadFrame, PushEos, JoinWriter, StopPipeline
  <2>3. PushVideoFrame => Outcome'
    <3> SUFFICES ASSUME PushVideoFrame PROVE Outcome'
      OBVIOUS
    <3>1. ckpt' \in {ckpt, seqId} /\ seqId \in Id
      BY VideoAssumption DEF PushVideoFrame, Numbers
    <3>2. main = "push" /\ main' = "loop"
          /\ UNCHANGED <<result, cancelled, writerError>>
      BY DEF PushVideoFrame
    <3>3. QED
      BY <3>1, <3>2
  <2>4. FinishCancelled \/ FinishFailed \/ FinishGood \/ Mux => Outcome'
    BY DEF FinishCancelled, FinishFailed, FinishGood, Mux, Return
  <2>5. QED
    BY <1>2, <2>1, <2>2, <2>3, <2>4 DEF MainStep
<1>3. ASSUME WriterStep \/ Cancel \/ UNCHANGED vars PROVE Outcome'
  BY <1>3 DEF WriterStep, WriterPop, WriterSeesEos, WriterWrites, WriterFails,
              Cancel, vars, runner
<1>4. QED
  BY <1>1, <1>2, <1>3 DEF Next

\* The files that remain are those of the result.
LEMMA KeptStep ==
  ASSUME Control, Outcome, Copied, Kept, [Next]_vars PROVE Kept'
<1> USE DEF Kept, VideoFile
<1>1. ASSUME NEW w \in Worker, WorkStep(w) PROVE Kept'
  BY <1>1, WorkerLeavesClient DEF runner
<1>2. ASSUME MainStep PROVE Kept'
  <2>1. SetupFails \/ AlreadyComplete => Kept'
    BY DEF SetupFails, AlreadyComplete, Return, Control, Copied
  <2>2. /\ Begin \/ ReadFrame \/ PushVideoFrame => Kept'
        /\ PushEos \/ JoinWriter \/ StopPipeline => Kept'
    BY DEF Begin, ReadFrame, PushVideoFrame, PushEos, JoinWriter, StopPipeline
  <2>3. FinishCancelled => Kept'
    BY DEF FinishCancelled, Return
  <2>4. FinishFailed => Kept'
    BY DEF FinishFailed, Return
  <2>5. FinishGood => Kept'
    BY DEF FinishGood, Return, Outcome
  <2>6. Mux => Kept'
    BY DEF Mux, Return, Outcome
  <2>7. QED
    BY <1>2, <2>1, <2>2, <2>3, <2>4, <2>5, <2>6 DEF MainStep
<1>3. ASSUME WriterStep PROVE Kept'
  <2>1. main # "done" /\ main' = main /\ result' = result
    BY <1>3 DEF WriterStep, WriterPop, WriterSeesEos, WriterWrites,
                WriterFails, Control, Ended
  <2>2. result = "running"
    BY <2>1 DEF Outcome
  <2>3. CASE WriterWrites
    BY <2>1, <2>2, <2>3 DEF WriterWrites
  <2>4. CASE WriterPop \/ WriterSeesEos \/ WriterFails
    BY <2>1, <2>2, <2>4 DEF WriterPop, WriterSeesEos, WriterFails
  <2>5. QED
    BY <1>3, <2>3, <2>4 DEF WriterStep
<1>4. ASSUME Cancel \/ UNCHANGED vars PROVE Kept'
  BY <1>4 DEF Cancel, vars, runner
<1>5. QED
  BY <1>1, <1>2, <1>3, <1>4 DEF Next

\* What is proved about the pipeline holds of the pipeline of a run.
LEMMA PipelineOfRun == Spec => []P!CInv
<1>1. Client!SafetySpec => P!SafetySpec
  <2>1. Client!Init => P!Init
    BY DEF Client!Init, P!Init, Client!CoreInit, P!CoreInit
  <2>2. [Client!Next]_Client!vars => [P!Next]_P!vars
    <3>1. UNCHANGED Client!vars => UNCHANGED P!vars
      BY DEF Client!vars, P!vars, Client!core, P!core, Client!client, P!client
    <3>2. ASSUME NEW w \in Worker, Client!WorkStep(w) PROVE P!WorkStep(w)
      BY <3>2 DEF Client!WorkStep, P!WorkStep, Client!client, P!client,
           Client!WorkerStep, P!WorkerStep, Client!Loop, P!Loop,
           Client!Fetch, P!Fetch, Client!FetchNone, P!FetchNone,
           Client!Process, P!Process, Client!Park, P!Park, Client!Acquire,
           P!Acquire, Client!Emit, P!Emit, Client!Drain, P!Drain,
           Client!Release, P!Release, Client!NextFrame, P!NextFrame,
           Client!PushOut, P!PushOut, Client!CanPush, P!CanPush,
           Client!Pushed, P!Pushed, Client!BatchLen, P!BatchLen,
           Client!IsFirst, P!IsFirst
    <3>3. ASSUME NEW id \in Id, Client!PushTest(id) PROVE P!PushTest(id)
      BY <3>3 DEF Client!PushTest, P!PushTest, Client!core, P!core
    <3>4. /\ Client!PushDo => P!PushDo
          /\ Client!PopFrame => P!PopFrame
          /\ Client!PopNothing => P!PopNothing
          /\ Client!Leave => P!Leave
      BY DEF Client!PushDo, P!PushDo, Client!EnqueueFrame, P!EnqueueFrame,
           Client!CanPush, P!CanPush, Client!Pushed, P!Pushed,
           Client!PopFrame, P!PopFrame, Client!DequeueFrame, P!DequeueFrame,
           Client!PopNothing, P!PopNothing, Client!NoMoreFrames,
           P!NoMoreFrames, Client!Leave, P!Leave, Client!core, P!core
    <3>5. /\ Client!Start => P!Start
          /\ Client!StopBegin => P!StopBegin
          /\ Client!StopStep => P!StopStep
      BY DEF Client!Start, P!Start, Client!StartWorkers, P!StartWorkers,
           Client!StopBegin, P!StopBegin, Client!Deactivate, P!Deactivate,
           Client!StopStep, P!StopStep, Client!StopShutInput,
           P!StopShutInput, Client!ShutInput, P!ShutInput,
           Client!StopShutOutput, P!StopShutOutput, Client!ShutOutput,
           P!ShutOutput, Client!StopJoin, P!StopJoin, Client!JoinWorkers,
           P!JoinWorkers
    <3>6. QED
      BY <3>1, <3>2, <3>3, <3>4, <3>5 DEF Client!Next, P!Next
  <2>3. QED
    BY <2>1, <2>2, PTL DEF Client!SafetySpec, P!SafetySpec
<1>2. P!SafetySpec => []P!CInv
  BY P!Conservation, WorkerAssumption, IdAssumption, SizeAssumption
<1>3. QED
  BY <1>1, <1>2, RunnerIsClient DEF IsPipelineClient

\* The inductive invariant holds throughout, given what is proved about the
\* pipeline.
THEOREM RunInvariance == Spec => [](RInv /\ P!CInv)
<1>1. RInv /\ P!CInv /\ [Next]_vars => RInv'
  BY ControlStep, NumbersStep, CopiedStep, ReachedStep, OutcomeStep, KeptStep
     DEF RInv
<1>2. QED
  BY <1>1, RInvInit, PipelineOfRun, PTL DEF Spec

\* Every variable of a run holds a value of its type.
THEOREM RunTypeCorrect == Spec => []TypeOK
<1>1. RInv /\ P!CInv => TypeOK
  <2> SUFFICES ASSUME RInv, P!CInv PROVE TypeOK
    OBVIOUS
  <2>1. Accepted \subseteq Id
    BY VideoAssumption DEF Accepted, RInv, Numbers
  <2>2. CoreTypeOK
    BY <2>1 DEF CoreTypeOK, WorkerState, P!CInv, P!IInv, P!Scalars, P!Known,
                P!Bounded, P!WorkerState
  <2>3. popped \in Seq(Id)
    BY PoppedType DEF RInv
  <2>4. seqId \in Id /\ eosId \in Id \cup {-1}
    BY VideoAssumption DEF RInv, Numbers
  <2>5. /\ main \in MainState
        /\ writer \in {"none", "pop", "got", "done"}
        /\ start \in 0..Total /\ readable \in 0..Total
    BY DEF RInv, Control, Numbers
  <2>6. /\ written \in Seq(Id)
        /\ cancelled \in BOOLEAN /\ writerError \in BOOLEAN
        /\ ckpt \in Id \cup {-1}
        /\ files \subseteq {"temp", "output"}
        /\ result \in Results
    BY DEF RInv, Copied, Outcome, Kept
  <2>7. QED
    BY <2>2, <2>3, <2>4, <2>5, <2>6 DEF TypeOK, Results
<1>2. QED
  BY <1>1, RunInvariance, PTL

\* A run that reports success has written every frame it started out to write.
\* The frames popped are 0, 1, 2, ..., so the end-of-stream frame, whose number
\* is that of the first frame not pushed, came when all before it had come; and
\* it was pushed only when nothing was left to read, for a cancelled or failed
\* run does not report success.
THEOREM SuccessIsComplete == Spec => []OkMeansComplete
<1>1. RInv /\ P!CInv => OkMeansComplete
  <2> SUFFICES ASSUME RInv, P!CInv, result = "ok" PROVE
                      /\ ckpt = -1
                      /\ writer # "none" =>
                           written = [i \in 1..(LastFrame - start) |-> start + i - 1]
    BY DEF OkMeansComplete
  <2>1. ckpt = -1 /\ main = "done"
    BY DEF RInv, Outcome
  <2> SUFFICES ASSUME writer # "none"
               PROVE  written = [i \in 1..(LastFrame - start) |-> start + i - 1]
    BY <2>1
  <2> DEFINE n == Len(written)
  <2>2. writer = "done" /\ ~writerError /\ Exhausted
    BY <2>1 DEF RInv, Control, Reached, Ended
  <2>3. popped \in Seq(Id) /\ -1 \notin Id /\ popped \in Seq(Accepted)
    BY PoppedType DEF RInv, P!CInv, P!IInv, P!Known
  <2>4. n \in Nat /\ Len(popped) = n + 1 /\ written \in Seq(Id)
    BY <2>2, LenProperties DEF RInv, Copied
  <2>5. \A i \in 1..Len(popped) : popped[i] = i - 1
    BY DEF P!CInv, P!IInv, P!OutOrder
  <2>6. eosId = n
    BY <2>2, <2>4, <2>5 DEF RInv, Copied, Got
  <2>7. seqId = n
    BY <2>4, <2>6 DEF RInv, Numbers
  <2>8. start = 0
    <3>1. popped[1] = 0 /\ popped[1] \in Accepted
      BY <2>3, <2>4, <2>5
    <3>2. start \in Nat /\ start <= seqId
      BY VideoAssumption DEF RInv, Numbers
    <3>3. QED
      BY <2>6, <2>7, <3>1, <3>2 DEF Accepted
  <2>9. LastFrame = n
    BY <2>2, <2>4, <2>7, <2>8, VideoAssumption
       DEF RInv, Reached, Exhausted, LimitReached, LastFrame, Numbers
  <2>10. written = [i \in 1..n |-> i - 1]
    <3>1. \A i \in 1..n : written[i] = i - 1
      BY <2>4, <2>5 DEF RInv, Copied
    <3>2. written = [i \in 1..n |-> written[i]]
      BY <2>4, LenProperties
    <3>3. QED
      BY <3>1, <3>2
  <2>11. \A i \in 1..n : start + i - 1 = i - 1
    BY <2>4, <2>8
  <2>12. LastFrame - start = n
    BY <2>4, <2>8, <2>9
  <2>13. QED
    BY <2>10, <2>11, <2>12
<1>2. QED
  BY <1>1, RunInvariance, PTL

\* When a run returns, every thread that used the variables of the call is
\* gone; a cancelled run leaves no file, a good one leaves its output alone.
THEOREM NothingLeftBehind == Spec => []FilesMatchResult
<1>1. RInv /\ P!CInv => FilesMatchResult
  <2> SUFFICES ASSUME RInv, P!CInv PROVE FilesMatchResult
    OBVIOUS
  <2>1. ASSUME main = "done" PROVE Quiet
    <3>1. ~active /\ Ctl = "idle" /\ writer \in {"none", "done"}
      BY <2>1 DEF RInv, Control, Running, Ended, Ctl
    <3>2. \A w \in Worker : wpc[w] = "none"
      BY <3>1 DEF P!CInv, P!Calm
    <3>3. lock = None
      BY <3>2 DEF P!CInv, P!Idle, P!IInv, P!Scalars
    <3>4. QED
      BY <3>1, <3>2, <3>3 DEF Quiet
  <2>2. QED
    BY <2>1 DEF FilesMatchResult, RInv, Kept
<1>2. QED
  BY <1>1, RunInvariance, PTL
=============================================================================
