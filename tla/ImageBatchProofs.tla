--------------------------- MODULE ImageBatchProofs ---------------------------
(***************************************************************************)
(* Proofs about a batch of images, for any number of targets, whatever     *)
(* outputs they share and whichever of them cannot be read.  The batch is  *)
(* shown to be one of the clients PipelineProofs is about, gaps included;  *)
(* that the pipeline hands out 0, 1, 2, ... is then why a picture cannot   *)
(* be saved under the name of another.                                     *)
(***************************************************************************)
EXTENDS ImageBatch, SequenceTheorems, TLAPS

\* The proofs about the pipeline, read with this client.
P == INSTANCE PipelineProofs WITH
       MaxStarts <- 1, pushing <- Pushing, accepted <- Accepted,
       refused <- {}, delivered <- popped, reading <- Reading,
       ctl <- Ctl, starts <- Starts, stopped <- Stopped

-----------------------------------------------------------------------------
(* Where the two threads of the call can be. *)

Running == {"loop", "push", "eos", "join", "stop"}
Ended == {"shutOut", "joinWorkers", "finish", "done"}

\* The writer lives from Begin until it is joined; the pipeline is active from
\* Begin until it is stopped, and shut only afterwards.
Control ==
  /\ main \in {"setup", "shutIn"} \cup Running \cup Ended
  /\ writer \in {"none", "pop", "got", "done"}
  /\ main = "setup" => writer = "none"
  /\ writer = "none" => main \in {"setup", "done"}
  /\ main \in {"stop", "shutIn"} \cup Ended => writer \in {"none", "done"}
  /\ active <=> main \in Running
  /\ inShut => main \in Ended /\ writer = "done"

\* The numbers of the frames, and of the one that ends the stream.
Numbers ==
  /\ bad \subseteq Target
  /\ seqId \in 0..Targets
  /\ main = "setup" => seqId = 0
  /\ main = "push" => seqId < Targets /\ seqId \notin bad
  /\ eosId \in {-1, seqId}
  /\ main \in {"setup", "loop", "push", "eos"} \/ writer = "none" => eosId = -1

\* A worker touches neither the flags the client sets nor the client.
LEMMA WorkerLeavesClient ==
  ASSUME NEW w \in Worker, WorkStep(w)
  PROVE  /\ UNCHANGED <<active, inShut>>
         /\ UNCHANGED batchVars
BY DEF WorkStep, WorkerStep, Loop, Fetch, FetchNone, Process, Park, Acquire,
       Emit, Drain, Release

\* A batch begins with no writer, an idle pipeline and number 0.
LEMMA ControlInit == Init => Control /\ Numbers
<1> SUFFICES ASSUME Init PROVE Control /\ Numbers
  OBVIOUS
<1>1. Control
  BY DEF Init, CoreInit, Control, Running, Ended
<1>2. Numbers
  BY BatchAssumption DEF Init, Numbers
<1>3. QED
  BY <1>1, <1>2

\* No step of any thread takes a thread where Control does not have it.
LEMMA ControlStep == Control /\ Numbers /\ [Next]_vars => Control'
<1> SUFFICES ASSUME Control, Numbers, [Next]_vars PROVE Control'
  OBVIOUS
<1> USE DEF Control, Running, Ended
<1>1. ASSUME NEW w \in Worker, WorkStep(w) PROVE Control'
  BY <1>1, WorkerLeavesClient DEF batchVars
<1>2. ASSUME MainStep PROVE Control'
  <2>1. SetupFails \/ LeaveLoop \/ LoadImage \/ SkipImage => Control'
    BY DEF SetupFails, LeaveLoop, LoadImage, SkipImage, MoreToLoad, Return,
           core
  <2>2. Begin => Control'
    BY DEF Begin, StartWorkers
  <2>3. PushImage \/ PushEos => Control'
    BY DEF PushImage, PushEos, EnqueueFrame
  <2>4. JoinWriter \/ Finish => Control'
    BY DEF JoinWriter, Finish, Return, core
  <2>5. StopPipeline => Control'
    BY DEF StopPipeline, Deactivate, ShutInput, ShutOutput, JoinWorkers
  <2>6. QED
    BY <1>2, <2>1, <2>2, <2>3, <2>4, <2>5 DEF MainStep
<1>3. ASSUME WriterStep PROVE Control'
  BY <1>3 DEF WriterStep, WriterPop, WriterSeesEos, WriterSaves, WriterFails,
              DequeueFrame, core
<1>4. ASSUME Cancel \/ UNCHANGED vars PROVE Control'
  BY <1>4 DEF Cancel, vars, core, batchVars
<1>5. QED
  BY <1>1, <1>2, <1>3, <1>4 DEF Next

\* A number is never larger than that of the next target.
LEMMA NumbersStep == Control /\ Numbers /\ [Next]_vars => Numbers'
<1> SUFFICES ASSUME Control, Numbers, [Next]_vars PROVE Numbers'
  OBVIOUS
<1> USE BatchAssumption DEF Numbers, Control, Running, Ended
<1>1. ASSUME NEW w \in Worker, WorkStep(w) PROVE Numbers'
  BY <1>1, WorkerLeavesClient DEF batchVars
<1>2. ASSUME MainStep PROVE Numbers'
  <2>1. SetupFails \/ Begin \/ LeaveLoop => Numbers'
    BY DEF SetupFails, Begin, LeaveLoop, Return
  <2>2. LoadImage \/ SkipImage => Numbers'
    BY DEF LoadImage, SkipImage, MoreToLoad
  <2>3. PushImage \/ PushEos => Numbers'
    BY DEF PushImage, PushEos
  <2>4. JoinWriter \/ StopPipeline \/ Finish => Numbers'
    BY DEF JoinWriter, StopPipeline, Finish, Return
  <2>5. QED
    BY <1>2, <2>1, <2>2, <2>3, <2>4 DEF MainStep
<1>3. ASSUME WriterStep \/ Cancel \/ UNCHANGED vars PROVE Numbers'
  BY <1>3 DEF WriterStep, WriterPop, WriterSeesEos, WriterSaves, WriterFails,
              Cancel, vars, batchVars
<1>4. QED
  BY <1>1, <1>2, <1>3 DEF Next

-----------------------------------------------------------------------------
(* The batch is a client of PipelineClient. *)

\* A worker's step is a worker's step of the client's pipeline.
LEMMA WorkerIsWorker ==
  ASSUME NEW w \in Worker, WorkStep(w) PROVE Client!WorkStep(w)
<1>1. WorkerStep(w) /\ UNCHANGED batchVars
  BY DEF WorkStep
<1>2. Client!WorkerStep(w)
  BY <1>1 DEF WorkerStep, Loop, Fetch, FetchNone, Process, Park, Acquire,
       Emit, Drain, Release, NextFrame, PushOut, CanPush, Pushed, BatchLen,
       IsFirst, Client!WorkerStep, Client!Loop, Client!Fetch,
       Client!FetchNone, Client!Process, Client!Park, Client!Acquire,
       Client!Emit, Client!Drain, Client!Release, Client!NextFrame,
       Client!PushOut, Client!CanPush, Client!Pushed, Client!BatchLen,
       Client!IsFirst
<1>3. UNCHANGED Client!client
  BY <1>1 DEF batchVars, Client!client, Pushing, Accepted, Reading, Ctl, Starts,
              Stopped
<1>4. QED
  BY <1>2, <1>3 DEF Client!WorkStep

\* A step of the batch that touches neither the pipeline nor what a client is
\* about is no step of the client.
LEMMA SameClient ==
  ASSUME UNCHANGED core,
         UNCHANGED <<Pushing, Accepted, Reading, Ctl, Starts, Stopped, popped>>
  PROVE  UNCHANGED Client!vars
BY DEF Client!vars, Client!core, core, Client!client

\* Every step of the loading thread is one the client of the pipeline may take.
LEMMA MainIsClient ==
  ASSUME Control, Numbers, MainStep PROVE [Client!Next]_Client!vars
<1> USE DEF Control, Numbers, Running, Ended
<1>1. ASSUME SetupFails \/ JoinWriter \/ Finish PROVE UNCHANGED Client!vars
  BY <1>1, SameClient DEF SetupFails, JoinWriter, Finish, Return, Pushing,
                          Accepted, Reading, Ctl, Starts, Stopped
<1>2. ASSUME Begin PROVE Client!Start
  <2>1. UNCHANGED <<Pushing, Accepted, popped, Reading, Ctl, Stopped>>
    BY <1>2 DEF Begin, Pushing, Accepted, Reading, Ctl, Stopped
  <2>2. Starts = 0 /\ Starts' = 1
    BY <1>2 DEF Begin, Starts
  <2>3. Client!StartWorkers /\ Ctl = "idle"
    BY <1>2 DEF Begin, StartWorkers, Client!StartWorkers, Ctl
  <2>4. QED
    BY <2>1, <2>2, <2>3 DEF Client!Start
<1>3. ASSUME LoadImage \/ LeaveLoop PROVE Client!Next
  <2>1. seqId \in Id /\ seqId # -1 /\ seqId \notin Accepted
    BY <1>3, BatchAssumption, IdAssumption
       DEF LoadImage, LeaveLoop, MoreToLoad, Accepted, Target
  <2>2. Pushing = -1 /\ Pushing' = seqId
    BY <1>3 DEF LoadImage, LeaveLoop, MoreToLoad, Pushing
  <2>3. UNCHANGED <<Accepted, Reading, Ctl, Starts, Stopped, popped>>
    BY <1>3 DEF LoadImage, LeaveLoop, MoreToLoad, Accepted, Reading, Ctl,
                Starts, Stopped
  <2>4. active /\ UNCHANGED Client!core
    BY <1>3 DEF LoadImage, LeaveLoop, MoreToLoad, core, Client!core
  <2>5. Client!PushTest(seqId)
    BY <2>1, <2>2, <2>3, <2>4 DEF Client!PushTest
  <2>6. QED
    BY <2>1, <2>5 DEF Client!Next
<1>4. ASSUME SkipImage PROVE UNCHANGED Client!vars
  <2>1. Accepted' = Accepted
    <3>1. \A t \in Target \ bad : t < seqId' <=> t < seqId
      BY <1>4, BatchAssumption DEF SkipImage, Target
    <3>2. bad' = bad /\ eosId' = eosId
      BY <1>4 DEF SkipImage
    <3>3. QED
      BY <3>1, <3>2 DEF Accepted
  <2>2. UNCHANGED <<Pushing, Reading, Ctl, Starts, Stopped, popped>>
    BY <1>4 DEF SkipImage, MoreToLoad, Pushing, Reading, Ctl, Starts, Stopped
  <2>3. QED
    BY <1>4, <2>1, <2>2, SameClient DEF SkipImage
<1>5. ASSUME PushImage \/ PushEos PROVE Client!PushDo
  <2>1. EnqueueFrame(seqId) /\ seqId # -1
    BY <1>5, BatchAssumption DEF PushImage, PushEos
  <2>2. Pushing = seqId /\ Pushing' = -1
    BY <1>5 DEF PushImage, PushEos, Pushing
  <2>3. Accepted' = Accepted \cup {seqId}
    <3>1. CASE PushImage
      <4>1. seqId \in Target \ bad
        BY <3>1, BatchAssumption DEF PushImage, Target
      <4>2. \A t \in Target \ bad : t < seqId' <=> t < seqId \/ t = seqId
        BY <3>1, BatchAssumption DEF PushImage, Target
      <4>3. bad' = bad /\ eosId' = eosId
        BY <3>1 DEF PushImage
      <4>4. QED
        BY <4>1, <4>2, <4>3 DEF Accepted
    <3>2. CASE PushEos
      BY <2>1, <3>2 DEF PushEos, Accepted
    <3>3. QED
      BY <1>5, <3>1, <3>2
  <2>4. UNCHANGED <<Reading, Ctl, Starts, Stopped, popped>>
    BY <1>5 DEF PushImage, PushEos, Reading, Ctl, Starts, Stopped
  <2>5. ~inShut
    BY <1>5 DEF PushImage, PushEos
  <2>6. Client!EnqueueFrame(seqId)
    BY <2>1 DEF EnqueueFrame, Client!EnqueueFrame, CanPush, Client!CanPush,
                Pushed, Client!Pushed
  <2>7. QED
    BY <2>1, <2>2, <2>3, <2>4, <2>5, <2>6 DEF Client!PushDo
<1>6. ASSUME StopPipeline
      PROVE  \/ Client!StopBegin \/ Client!StopShutInput
             \/ Client!StopShutOutput \/ Client!StopJoin
  <2>1. UNCHANGED <<Pushing, Accepted, Reading, Starts, popped>>
    BY <1>6 DEF StopPipeline, Pushing, Accepted, Reading, Starts
  <2>2. writer = "done" /\ writer' = "done"
    BY <1>6 DEF StopPipeline
  <2>3. ASSUME main = "stop", Deactivate, main' = "shutIn"
        PROVE  Client!StopBegin
    BY <2>1, <2>2, <2>3 DEF Deactivate, Client!StopBegin, Client!Deactivate,
                            Ctl, Stopped
  <2>4. ASSUME main = "shutIn", ShutInput, main' = "shutOut"
        PROVE  Client!StopShutInput
    BY <2>1, <2>2, <2>4 DEF ShutInput, Client!StopShutInput, Client!ShutInput,
                            Ctl, Stopped
  <2>5. ASSUME main = "shutOut", ShutOutput, main' = "joinWorkers"
        PROVE  Client!StopShutOutput
    BY <2>1, <2>2, <2>5 DEF ShutOutput, Client!StopShutOutput,
                            Client!ShutOutput, Ctl, Stopped
  <2>6. ASSUME main = "joinWorkers", JoinWorkers, main' = "finish"
        PROVE  Client!StopJoin
    BY <2>1, <2>2, <2>6 DEF JoinWorkers, Client!StopJoin, Client!JoinWorkers,
                            Ctl, Stopped
  <2>7. QED
    BY <1>6, <2>3, <2>4, <2>5, <2>6 DEF StopPipeline
<1>7. QED
  BY <1>1, <1>2, <1>3, <1>4, <1>5, <1>6
     DEF MainStep, Client!Next, Client!StopStep

\* So is every step of the writer thread, ...
LEMMA WriterIsClient ==
  ASSUME Control, WriterStep PROVE [Client!Next]_Client!vars
<1> USE DEF Control
<1>1. ASSUME WriterPop PROVE Client!PopFrame
  <2>1. UNCHANGED <<Pushing, Accepted, Reading, Ctl, Starts, Stopped>> /\ Reading
    BY <1>1 DEF WriterPop, Pushing, Accepted, Reading, Ctl, Starts, Stopped
  <2>2. Client!DequeueFrame /\ popped' = Append(popped, Head(outQ))
    BY <1>1 DEF WriterPop, DequeueFrame, Client!DequeueFrame
  <2>3. QED
    BY <2>1, <2>2 DEF Client!PopFrame
<1>2. ASSUME WriterSeesEos \/ WriterFails PROVE Client!Leave
  <2>1. UNCHANGED <<Pushing, Accepted, Ctl, Starts, Stopped, popped>>
    BY <1>2 DEF WriterSeesEos, WriterFails, Pushing, Accepted, Ctl, Starts,
                Stopped
  <2>2. Reading /\ Reading' = FALSE
    BY <1>2 DEF WriterSeesEos, WriterFails, Reading
  <2>3. UNCHANGED Client!core
    BY <1>2 DEF WriterSeesEos, WriterFails, core, Client!core
  <2>4. QED
    BY <2>1, <2>2, <2>3 DEF Client!Leave
<1>3. ASSUME WriterSaves PROVE UNCHANGED Client!vars
  BY <1>3, SameClient DEF WriterSaves, Pushing, Accepted, Reading, Ctl,
                          Starts, Stopped
<1>4. QED
  BY <1>1, <1>2, <1>3 DEF WriterStep, Client!Next

\* ... and with them every step of a batch, ...
LEMMA StepIsClient ==
  Control /\ Numbers /\ [Next]_vars => [Client!Next]_Client!vars
<1> SUFFICES ASSUME Control, Numbers, [Next]_vars
             PROVE  [Client!Next]_Client!vars
  OBVIOUS
<1>1. ASSUME NEW w \in Worker, WorkStep(w) PROVE Client!Next
  BY <1>1, WorkerIsWorker DEF Client!Next
<1>2. ASSUME Cancel PROVE UNCHANGED Client!vars
  BY <1>2, SameClient DEF Cancel, Pushing, Accepted, Reading, Ctl, Starts,
                          Stopped
<1>3. ASSUME UNCHANGED vars PROVE UNCHANGED Client!vars
  BY <1>3, SameClient DEF vars, batchVars, Pushing, Accepted, Reading, Ctl,
                          Starts, Stopped
<1>4. QED
  BY <1>1, <1>2, <1>3, MainIsClient, WriterIsClient DEF Next

\* ... which begins where a client begins.
LEMMA InitIsClient == Init => Client!Init
<1> SUFFICES ASSUME Init PROVE Client!Init
  OBVIOUS
<1>1. Client!CoreInit
  BY DEF Init, CoreInit, Client!CoreInit
<1>2. Accepted = {}
  BY BatchAssumption DEF Init, Accepted, Target
<1>3. /\ Pushing = -1 /\ popped = <<>> /\ Reading = TRUE
      /\ Ctl = "idle" /\ Starts = 0 /\ Stopped = FALSE
  BY DEF Init, Pushing, Reading, Ctl, Starts, Stopped
<1>4. QED
  BY <1>1, <1>2, <1>3 DEF Client!Init

\* The image batch keeps to what the pipeline asks of its client: it pushes
\* every number at most once, none for an unreadable image, starts the pipeline
\* once, and stops it after its writer thread has gone.
THEOREM BatchIsClient == Spec => IsPipelineClient
<1>1. Spec => Client!Init
  BY InitIsClient, PTL DEF Spec
<1>2. Spec => [](Control /\ Numbers)
  BY ControlInit, ControlStep, NumbersStep, PTL DEF Spec
<1>3. QED
  BY <1>1, <1>2, StepIsClient, PTL DEF Spec, IsPipelineClient,
     Client!SafetySpec

-----------------------------------------------------------------------------
(* What the batch has saved, and what its result says about it. *)

\* What has been completed is what has been popped, but for the frame the writer
\* still has in hand; the last frame of a writer that did not fail is the end
\* of the stream.
Counted ==
  /\ completed \in 0..Targets
  /\ Len(popped) = completed + (IF writer \in {"got", "done"} THEN 1 ELSE 0)
  /\ writer = "done" /\ ~writerError => Got = eosId
  /\ writerError => writer = "done"

\* The picture a file holds once the first n targets have been saved.
LastOf(f, n) == {t \in Target : /\ t < n /\ OutputOf[t] = f
                                /\ \A u \in Target :
                                     u < n /\ OutputOf[u] = f => u <= t}

\* A file named by a completed target holds the last one completed under its name.
Saved ==
  /\ saved \in [File -> Target \cup {-1}]
  /\ \A t \in Target : t < completed =>
       saved[OutputOf[t]] \in LastOf(OutputOf[t], completed)

\* A failure is a target that was skipped or the error of the writer.
Failures ==
  /\ failed \in Nat
  /\ failed <= seqId + (IF writerError THEN 1 ELSE 0)
  /\ bad = {} /\ ~writerError => failed = 0

\* The loop is left before the last target only for a reason the result tells.
Ending ==
  /\ main \in {"eos", "join", "stop", "shutIn", "shutOut", "joinWorkers",
               "finish"} => cancelled \/ writerError \/ seqId = Targets
  /\ result \in {"running", "ok", "error", "cancelled"}
  /\ result = "running" <=> main # "done"
  /\ result = "ok" => writer = "done" /\ ~writerError /\ seqId = Targets
  /\ cancelled \in BOOLEAN /\ writerError \in BOOLEAN

BInv == Control /\ Numbers /\ Counted /\ Saved /\ Failures /\ Ending

\* The invariant holds before the first step.
LEMMA BInvInit == Init => BInv
<1> SUFFICES ASSUME Init PROVE BInv
  OBVIOUS
<1>1. Control /\ Numbers
  BY ControlInit
<1>2. Counted
  BY BatchAssumption, EmptySeq DEF Init, Counted
<1>3. Saved
  BY DEF Init, Saved, Target
<1>4. Failures
  BY DEF Init, Failures
<1>5. Ending
  BY DEF Init, Ending
<1>6. QED
  BY <1>1, <1>2, <1>3, <1>4, <1>5 DEF BInv

\* The frame the writer has in hand is the next one, and unless it ends the
\* stream it is a target that was loaded.
LEMMA InHand ==
  ASSUME Numbers, Counted, P!CInv, writer \in {"got", "done"}
  PROVE  /\ Got = completed
         /\ Got # eosId => Got \in Target \ bad
         /\ Got # -1
         /\ \A t \in 0..completed : t # eosId => t \in Target \ bad
<1>1. popped \in Seq(Accepted) /\ \A i \in 1..Len(popped) : popped[i] = i - 1
  BY DEF P!CInv, P!IInv, P!Known, P!OutOrder
<1>2. completed \in Nat /\ Len(popped) = completed + 1
  BY BatchAssumption DEF Counted
<1>3. \A t \in 0..completed : t \in Accepted
  <2>1. ASSUME NEW t \in 0..completed PROVE t \in Accepted
    <3>1. t + 1 \in 1..Len(popped) /\ t + 1 - 1 = t
      BY <1>2
    <3>2. popped[t + 1] = t /\ popped[t + 1] \in Accepted
      BY <1>1, <3>1
    <3>3. QED
      BY <3>2
  <2>2. QED
    BY <2>1
<1>4. Got = completed
  BY <1>1, <1>2 DEF Got
<1>5. QED
  BY <1>2, <1>3, <1>4 DEF Accepted

\* The writer completes each frame it pops, but for the last.
LEMMA CountedStep ==
  ASSUME Control, Numbers, Counted, P!CInv, [Next]_vars PROVE Counted'
<1> USE DEF Counted
<1>1. ASSUME NEW w \in Worker, WorkStep(w) PROVE Counted'
  BY <1>1, WorkerLeavesClient DEF batchVars, Got
<1>2. ASSUME MainStep PROVE Counted'
  <2>1. UNCHANGED <<popped, completed, writerError>>
    BY <1>2 DEF MainStep, SetupFails, Begin, LeaveLoop, LoadImage, SkipImage,
         PushImage, PushEos, JoinWriter, StopPipeline, Finish
  <2>2. CASE Begin
    BY <2>1, <2>2 DEF Begin, Control
  <2>3. CASE PushEos
    <3>1. eosId = -1 /\ writer' = writer
      BY <2>3 DEF PushEos, Numbers
    <3>2. ~(writer = "done" /\ ~writerError)
      BY <3>1, InHand
    <3>3. QED
      BY <2>1, <3>1, <3>2
  <2>4. ASSUME ~Begin, ~PushEos PROVE writer' = writer /\ eosId' = eosId
    BY <1>2, <2>4 DEF MainStep, SetupFails, LeaveLoop, LoadImage, SkipImage,
         PushImage, JoinWriter, StopPipeline, Finish
  <2>5. QED
    BY <2>1, <2>2, <2>3, <2>4 DEF Got
<1>3. ASSUME WriterPop PROVE Counted'
  <2>1. /\ writer = "pop" /\ writer' = "got"
        /\ popped' = Append(popped, Head(outQ))
        /\ UNCHANGED <<completed, writerError>>
    BY <1>3 DEF WriterPop
  <2>2. popped \in Seq(Accepted) /\ outQ \in Seq(Accepted) /\ outQ # <<>>
    BY <1>3 DEF WriterPop, DequeueFrame, P!CInv, P!IInv, P!Known
  <2>3. Len(popped') = Len(popped) + 1
    BY <2>1, <2>2, HeadTailProperties, AppendProperties
  <2>4. QED
    BY <2>1, <2>3, BatchAssumption
<1>4. ASSUME WriterSeesEos PROVE Counted'
  BY <1>4 DEF WriterSeesEos, Got
<1>5. ASSUME WriterSaves PROVE Counted'
  <2>1. /\ writer = "got" /\ writer' = "pop" /\ completed' = completed + 1
        /\ Got # eosId /\ UNCHANGED <<popped, writerError>>
    BY <1>5 DEF WriterSaves
  <2>2. completed \in Target
    BY <2>1, InHand
  <2>3. completed' \in 0..Targets
    BY <2>1, <2>2, BatchAssumption DEF Target
  <2>4. QED
    BY <2>1, <2>3
<1>6. ASSUME WriterFails PROVE Counted'
  BY <1>6 DEF WriterFails
<1>7. ASSUME Cancel \/ UNCHANGED vars PROVE Counted'
  BY <1>7 DEF Cancel, vars, batchVars, Got
<1>8. QED
  BY <1>1, <1>2, <1>3, <1>4, <1>5, <1>6, <1>7 DEF Next, WriterStep

\* A file holds the last picture completed under its name.
LEMMA SavedStep ==
  ASSUME Numbers, Counted, Saved, P!CInv, [Next]_vars PROVE Saved'
<1>1. CASE WriterSaves
  <2>1. /\ writer = "got" /\ Got # eosId
        /\ saved' = [saved EXCEPT ![OutputOf[Got]] = Got]
        /\ completed' = completed + 1
    BY <1>1 DEF WriterSaves
  <2>2. Got = completed /\ completed \in Target
    BY <2>1, InHand
  <2> DEFINE c == completed
  <2>3. c \in Nat /\ \A t \in Target : t \in Int
    BY <2>2, BatchAssumption DEF Target
  <2>4. saved \in [File -> Target \cup {-1}] /\ OutputOf[c] \in File
    BY <2>2 DEF Saved, File
  <2>5. saved' = [saved EXCEPT ![OutputOf[c]] = c]
    BY <2>1, <2>2
  <2>6. saved' \in [File -> Target \cup {-1}]
    BY <2>2, <2>4, <2>5
  <2>7. ASSUME NEW t \in Target, t < c + 1
        PROVE  saved'[OutputOf[t]] \in LastOf(OutputOf[t], c + 1)
    <3>1. OutputOf[t] \in File
      BY DEF File
    <3>2. CASE OutputOf[t] = OutputOf[c]
      <4>1. saved'[OutputOf[t]] = c
        BY <2>4, <2>5, <3>2
      <4>2. \A u \in Target : u < c + 1 => u <= c
        BY <2>3
      <4>3. c < c + 1
        BY <2>3
      <4>4. QED
        BY <2>2, <3>2, <4>1, <4>2, <4>3 DEF LastOf
    <3>3. CASE OutputOf[t] # OutputOf[c]
      <4>1. saved'[OutputOf[t]] = saved[OutputOf[t]]
        BY <2>4, <2>5, <3>1, <3>3
      <4>2. \A u \in Target : u < c + 1 => u = c \/ u < c
        BY <2>3
      <4>3. t < c
        BY <2>7, <3>3, <4>2
      <4>4. saved[OutputOf[t]] \in LastOf(OutputOf[t], c)
        BY <4>3 DEF Saved
      <4>5. \A u \in Target : u < c => u < c + 1
        BY <2>3
      <4>6. QED
        BY <3>3, <4>1, <4>2, <4>4, <4>5 DEF LastOf
    <3>4. QED
      BY <3>2, <3>3
  <2>8. QED
    BY <2>1, <2>6, <2>7 DEF Saved, LastOf
<1>2. ASSUME ~WriterSaves PROVE UNCHANGED <<saved, completed>>
  <2>1. ASSUME NEW w \in Worker, WorkStep(w) PROVE UNCHANGED batchVars
    BY <2>1, WorkerLeavesClient
  <2>2. MainStep => UNCHANGED <<saved, completed>>
    BY DEF MainStep, SetupFails, Begin, LeaveLoop, LoadImage, SkipImage,
           PushImage, PushEos, JoinWriter, StopPipeline, Finish
  <2>3. QED
    BY <1>2, <2>1, <2>2 DEF Next, WriterStep, WriterPop, WriterSeesEos,
         WriterFails, Cancel, vars, batchVars
<1>3. QED
  BY <1>1, <1>2 DEF Saved, LastOf

\* A failure is counted only for a skipped target or an error of the writer.
LEMMA FailuresStep ==
  ASSUME Control, Numbers, Counted, Ending, Failures, [Next]_vars
  PROVE  Failures'
<1> USE BatchAssumption DEF Failures, Numbers
<1>1. ASSUME NEW w \in Worker, WorkStep(w) PROVE Failures'
  BY <1>1, WorkerLeavesClient DEF batchVars
<1>2. ASSUME MainStep PROVE Failures'
  <2>1. SkipImage => Failures'
    BY DEF SkipImage
  <2>2. PushImage => Failures'
    BY DEF PushImage
  <2>3. ASSUME ~SkipImage, ~PushImage
        PROVE  UNCHANGED <<bad, failed, seqId, writerError>>
    BY <1>2, <2>3 DEF MainStep, SetupFails, Begin, LeaveLoop, LoadImage,
         PushEos, JoinWriter, StopPipeline, Finish
  <2>4. QED
    BY <2>1, <2>2, <2>3
<1>3. ASSUME WriterFails PROVE Failures'
  <2>1. /\ ~writerError /\ writerError' /\ failed' = failed + 1
        /\ UNCHANGED <<seqId, bad>>
    BY <1>3 DEF WriterFails, Counted
  <2>2. QED
    BY <2>1
<1>4. ASSUME \/ WriterPop \/ WriterSeesEos \/ WriterSaves \/ Cancel
             \/ UNCHANGED vars
      PROVE  Failures'
  BY <1>4 DEF WriterPop, WriterSeesEos, WriterSaves, Cancel, vars, batchVars
<1>5. QED
  BY <1>1, <1>2, <1>3, <1>4 DEF Next, WriterStep

\* The batch comes to its end only with the writer gone.
LEMMA EndingStep ==
  ASSUME Control, Numbers, Ending, [Next]_vars PROVE Ending'
<1> USE DEF Ending
<1>1. ASSUME NEW w \in Worker, WorkStep(w) PROVE Ending'
  BY <1>1, WorkerLeavesClient DEF batchVars
<1>2. ASSUME MainStep PROVE Ending'
  <2>1. SetupFails \/ Begin => Ending'
    BY DEF SetupFails, Begin, Return
  <2>2. LoadImage \/ SkipImage \/ PushImage => Ending'
    BY DEF LoadImage, SkipImage, PushImage, MoreToLoad
  <2>3. LeaveLoop \/ PushEos \/ JoinWriter \/ StopPipeline => Ending'
    BY DEF LeaveLoop, PushEos, JoinWriter, StopPipeline
  <2>4. ASSUME Finish PROVE Ending'
    <3>1. /\ main = "finish" /\ main' = "done"
          /\ result' = IF cancelled THEN "cancelled"
                       ELSE IF writerError THEN "error" ELSE "ok"
          /\ UNCHANGED <<writer, seqId, cancelled, writerError>>
      BY <2>4 DEF Finish, Return
    <3>2. writer = "done" /\ (cancelled \/ writerError \/ seqId = Targets)
      BY <3>1 DEF Control, Ended
    <3>3. result' \in {"ok", "error", "cancelled"}
      BY <3>1
    <3>4. result' = "ok" => ~cancelled /\ ~writerError
      BY <3>1
    <3>5. QED
      BY <3>1, <3>2, <3>3, <3>4
  <2>5. QED
    BY <1>2, <2>1, <2>2, <2>3, <2>4 DEF MainStep
<1>3. ASSUME WriterStep PROVE Ending'
  BY <1>3 DEF WriterStep, WriterPop, WriterSeesEos, WriterSaves, WriterFails
<1>4. ASSUME Cancel PROVE Ending'
  BY <1>4 DEF Cancel
<1>5. ASSUME UNCHANGED vars PROVE Ending'
  BY <1>5 DEF vars, batchVars
<1>6. QED
  BY <1>1, <1>2, <1>3, <1>4, <1>5 DEF Next

\* What is proved about the pipeline holds of the pipeline of a batch.
LEMMA PipelineOfBatch == Spec => []P!CInv
<1>1. Client!SafetySpec => P!SafetySpec
  <2>1. Client!Init => P!Init
    BY DEF Client!Init, P!Init, Client!CoreInit, P!CoreInit
  <2>2. [Client!Next]_Client!vars => [P!Next]_P!vars
    <3>1. UNCHANGED Client!vars => UNCHANGED P!vars
      BY DEF Client!vars, P!vars, Client!core, P!core, Client!client, P!client
    <3>2. ASSUME NEW w \in Worker, Client!WorkStep(w) PROVE P!WorkStep(w)
      BY <3>2 DEF Client!WorkStep, P!WorkStep, Client!client, P!client,
           Client!WorkerStep, P!WorkerStep, Client!Loop, P!Loop,
           Client!Fetch, P!Fetch, Client!FetchNone, P!FetchNone,
           Client!Process, P!Process, Client!Park, P!Park, Client!Acquire,
           P!Acquire, Client!Emit, P!Emit, Client!Drain, P!Drain,
           Client!Release, P!Release, Client!NextFrame, P!NextFrame,
           Client!PushOut, P!PushOut, Client!CanPush, P!CanPush,
           Client!Pushed, P!Pushed, Client!BatchLen, P!BatchLen,
           Client!IsFirst, P!IsFirst
    <3>3. ASSUME NEW id \in Id, Client!PushTest(id) PROVE P!PushTest(id)
      BY <3>3 DEF Client!PushTest, P!PushTest, Client!core, P!core
    <3>4. /\ Client!PushDo => P!PushDo
          /\ Client!PopFrame => P!PopFrame
          /\ Client!PopNothing => P!PopNothing
          /\ Client!Leave => P!Leave
      BY DEF Client!PushDo, P!PushDo, Client!EnqueueFrame, P!EnqueueFrame,
           Client!CanPush, P!CanPush, Client!Pushed, P!Pushed,
           Client!PopFrame, P!PopFrame, Client!DequeueFrame, P!DequeueFrame,
           Client!PopNothing, P!PopNothing, Client!NoMoreFrames,
           P!NoMoreFrames, Client!Leave, P!Leave, Client!core, P!core
    <3>5. /\ Client!Start => P!Start
          /\ Client!StopBegin => P!StopBegin
          /\ Client!StopStep => P!StopStep
      BY DEF Client!Start, P!Start, Client!StartWorkers, P!StartWorkers,
           Client!StopBegin, P!StopBegin, Client!Deactivate, P!Deactivate,
           Client!StopStep, P!StopStep, Client!StopShutInput,
           P!StopShutInput, Client!ShutInput, P!ShutInput,
           Client!StopShutOutput, P!StopShutOutput, Client!ShutOutput,
           P!ShutOutput, Client!StopJoin, P!StopJoin, Client!JoinWorkers,
           P!JoinWorkers
    <3>6. QED
      BY <3>1, <3>2, <3>3, <3>4, <3>5 DEF Client!Next, P!Next
  <2>3. QED
    BY <2>1, <2>2, PTL DEF Client!SafetySpec, P!SafetySpec
<1>2. P!SafetySpec => []P!CInv
  BY P!Conservation, WorkerAssumption, IdAssumption, SizeAssumption
<1>3. QED
  BY <1>1, <1>2, BatchIsClient DEF IsPipelineClient

\* The inductive invariant holds throughout, given what is proved about the
\* pipeline.
THEOREM BatchInvariance == Spec => [](BInv /\ P!CInv)
<1>1. BInv /\ P!CInv /\ [Next]_vars => BInv'
  BY ControlStep, NumbersStep, CountedStep, SavedStep, FailuresStep, EndingStep
     DEF BInv
<1>2. QED
  BY <1>1, BInvInit, PipelineOfBatch, PTL DEF Spec

\* Every variable of a batch holds a value of its type.
THEOREM BatchTypeCorrect == Spec => []TypeOK
<1>1. BInv /\ P!CInv => TypeOK
  <2> SUFFICES ASSUME BInv, P!CInv PROVE TypeOK
    OBVIOUS
  <2>1. seqId \in Id /\ eosId \in Id \cup {-1} /\ Target \subseteq Id
    BY BatchAssumption DEF BInv, Numbers, Target
  <2>2. Accepted \subseteq Id
    BY <2>1 DEF Accepted
  <2>3. CoreTypeOK
    BY <2>2 DEF CoreTypeOK, WorkerState, P!CInv, P!IInv, P!Scalars, P!Known,
                P!Bounded, P!WorkerState
  <2>4. popped \in Seq(Id)
    BY <2>2 DEF P!CInv, P!IInv, P!Known
  <2>5. failed \in 0..(Targets + 1)
    BY BatchAssumption DEF BInv, Failures, Numbers
  <2>6. /\ main \in {"setup", "loop", "push", "eos", "join", "stop", "shutIn",
                     "shutOut", "joinWorkers", "finish", "done"}
        /\ writer \in {"none", "pop", "got", "done"}
    BY DEF BInv, Control, Running, Ended
  <2>7. /\ bad \subseteq Target
        /\ saved \in [File -> Target \cup {-1}]
        /\ completed \in 0..Targets
        /\ cancelled \in BOOLEAN /\ writerError \in BOOLEAN
        /\ result \in {"running", "ok", "error", "cancelled"}
    BY DEF BInv, Numbers, Saved, Counted, Ending
  <2>8. QED
    BY <2>1, <2>3, <2>4, <2>5, <2>6, <2>7 DEF TypeOK
<1>2. QED
  BY <1>1, BatchInvariance, PTL

\* Whatever was skipped or cut short, the number the writer takes for an index
\* into the target list names a target that was loaded: the pipeline hands out
\* no number the batch did not push.
THEOREM WriterSavesTargets == Spec => []FramesAreTargets
<1>1. BInv /\ P!CInv => FramesAreTargets
  BY InHand DEF BInv, FramesAreTargets
<1>2. QED
  BY <1>1, BatchInvariance, PTL

\* A batch that reports success pushed all its targets and saw the end of the
\* stream, which the pipeline hands out after the frames before it: none of
\* them was skipped, for the numbers handed out have no gap, and each file
\* holds the last of the targets that share it.
THEOREM SuccessIsWhole == Spec => []OkMeansEveryImage
<1>1. BInv /\ P!CInv => OkMeansEveryImage
  <2> SUFFICES ASSUME BInv, P!CInv PROVE OkMeansEveryImage
    OBVIOUS
  <2>1. ASSUME main = "done" PROVE Quiet
    <3>1. ~active /\ Ctl = "idle" /\ writer \in {"none", "done"}
      BY <2>1 DEF BInv, Control, Running, Ended, Ctl
    <3>2. \A w \in Worker : wpc[w] = "none"
      BY <3>1 DEF P!CInv, P!Calm
    <3>3. lock = None
      BY <3>2 DEF P!CInv, P!Idle, P!IInv, P!Scalars
    <3>4. QED
      BY <3>1, <3>2, <3>3 DEF Quiet
  <2>2. ASSUME result = "ok"
        PROVE  /\ completed = Targets /\ failed = 0
               /\ \A f \in File :
                    saved[f] \in {t \in Target :
                                   /\ OutputOf[t] = f
                                   /\ \A u \in Target : OutputOf[u] = f => u <= t}
    <3>1. writer = "done" /\ ~writerError /\ seqId = Targets
      BY <2>2 DEF BInv, Ending
    <3>2. /\ Got = eosId /\ Got = completed
          /\ \A t \in 0..completed : t # eosId => t \in Target \ bad
      BY <3>1, InHand DEF BInv, Counted
    <3>3. completed = Targets
      <4>1. completed \in Nat /\ eosId \in {-1, Targets}
        BY <3>1, BatchAssumption DEF BInv, Counted, Numbers
      <4>2. QED
        BY <3>2, <4>1
    <3>4. bad = {}
      BY <3>2, <3>3, BatchAssumption DEF BInv, Numbers, Target
    <3>5. failed = 0
      BY <3>1, <3>4 DEF BInv, Failures
    <3>6. \A t \in Target : t < completed
      BY <3>3, BatchAssumption DEF Target
    <3>7. ASSUME NEW f \in File
          PROVE  saved[f] \in {t \in Target :
                                /\ OutputOf[t] = f
                                /\ \A u \in Target : OutputOf[u] = f => u <= t}
      <4>1. PICK t \in Target : OutputOf[t] = f
        BY DEF File
      <4>2. saved[f] \in LastOf(f, completed)
        BY <3>6, <4>1 DEF BInv, Saved
      <4>3. QED
        BY <3>6, <4>2 DEF LastOf
    <3>8. QED
      BY <3>3, <3>5, <3>7
  <2>3. QED
    BY <2>1, <2>2 DEF OkMeansEveryImage
<1>2. QED
  BY <1>1, BatchInvariance, PTL
=============================================================================
