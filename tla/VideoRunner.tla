------------------------------ MODULE VideoRunner ------------------------------
(***************************************************************************)
(* One call of VideoProcessingHelper::ProcessVideo (or, with the constants *)
(* set for it, ProcessVideoStrict): the calling thread reads frames and    *)
(* pushes them into the pipeline, a writer thread pops and writes them,    *)
(* and another thread may cancel the task at any moment.  The pipeline is  *)
(* the one of module Pipeline, worker by worker.                           *)
(*                                                                         *)
(* Frames are numbered from the frame the run starts at, as in the code,   *)
(* and so is the end-of-stream frame that follows the last one.            *)
(***************************************************************************)
EXTENDS Pipeline

CONSTANTS Total,             \* get_frame_count(), what the container claims
          Readable,          \* how many frames the decoder may really yield
          MaxFrames,         \* max_frames, 0 for no limit (as in strict mode)
          CkptEvery,         \* a checkpoint is due every so many frames:
                             \* 100, or 1 in strict mode
          StartFrames,       \* frames a run may resume at; 0 is a fresh run
          WriteMayFail,      \* whether the writer thread may meet an error
          Muxing             \* audio_policy is copy

ASSUME VideoAssumption ==
  /\ Total \in Nat /\ MaxFrames \in Nat /\ CkptEvery \in Nat \ {0}
  /\ Readable \subseteq 0..Total /\ StartFrames \subseteq 0..Total
  /\ WriteMayFail \in BOOLEAN /\ Muxing \in BOOLEAN
  /\ 0..Total \subseteq Id

VARIABLES main,              \* where the calling thread is
          writer,            \* where the writer thread is
          start,             \* start_frame
          readable,          \* frames the decoder will yield in this run
          seqId,             \* seq_id, number of the next frame to push
          eosId,             \* number of the end-of-stream frame, or -1
          popped,            \* history: frames pop_frame returned
          written,           \* frames in the video file, in order
          cancelled,
          writerError,
          ckpt,              \* last_completed_frame of the checkpoint, or -1
          files,             \* which of the temporary and output files exist
          result

runner == <<main, writer, start, readable, seqId, eosId, popped, written, cancelled,
            writerError, ckpt, files, result>>
vars == <<core, runner>>

MainState == {"open", "loop", "push", "eos", "join", "stop", "shutIn",
              "shutOut", "joinWorkers", "finish", "mux", "done"}

Init ==
  /\ CoreInit
  /\ main = "open"
  /\ writer = "none"
  /\ start \in StartFrames
  /\ readable \in Readable
  /\ seqId = start
  /\ eosId = -1
  /\ popped = <<>> /\ written = <<>>
  /\ cancelled = FALSE /\ writerError = FALSE
  /\ ckpt = start - 1
  /\ files = {}
  /\ result = "running"

VideoFile == IF Muxing THEN "temp" ELSE "output"

-----------------------------------------------------------------------------
(* The calling thread *)

Return(r) == main' = "done" /\ result' = r

\* The reader cannot be opened, or the processors cannot be built.
SetupFails ==
  /\ main = "open"
  /\ Return("error")
  /\ UNCHANGED <<core, writer, start, readable, seqId, eosId, popped,
                 written, cancelled, writerError, ckpt, files>>

\* A checkpoint past the end of the video: nothing is left to do.
AlreadyComplete ==
  /\ main = "open"
  /\ start > 0 /\ start >= Total
  /\ ckpt' = -1
  /\ Return("ok")
  /\ UNCHANGED <<core, writer, start, readable, seqId, eosId, popped,
                 written, cancelled, writerError, files>>

\* The pipeline and the writer thread are started.  A checkpoint whose frame
\* cannot be sought to is ignored.
Begin ==
  /\ main = "open"
  /\ start = 0 \/ start < Total
  /\ \E s \in {0, start} : start' = s /\ seqId' = s
  /\ StartWorkers
  /\ main' = "loop"
  /\ writer' = "pop"
  /\ UNCHANGED <<readable, eosId, popped, written, cancelled, writerError,
                 ckpt, files, result>>

LimitReached == MaxFrames > 0 /\ seqId >= MaxFrames

\* The loop condition, the frame limit, then read_frame.
ReadFrame ==
  /\ main = "loop"
  /\ main' = IF cancelled \/ writerError \/ LimitReached
                  \/ seqId >= readable
               THEN "eos" ELSE "push"
  /\ UNCHANGED <<core, writer, start, readable, seqId, eosId, popped,
                 written, cancelled, writerError, ckpt, files, result>>

\* Seeded bug: the number is not advanced.
PushVideoFrameTwice ==
  /\ main = "push"
  /\ EnqueueFrame(seqId)
  /\ main' = "loop"
  /\ UNCHANGED <<writer, start, readable, seqId, eosId, popped, written,
                 cancelled, writerError, ckpt, files, result>>

\* push_frame, then the periodic checkpoint, which names the frame just pushed.
\* CheckpointManager::save skips it unless enough time has passed.
PushVideoFrame ==
  /\ main = "push"
  /\ EnqueueFrame(seqId)
  /\ seqId' = seqId + 1
  /\ ckpt' \in IF (seqId + 1) % CkptEvery = 0 THEN {ckpt, seqId} ELSE {ckpt}
  /\ main' = "loop"
  /\ UNCHANGED <<writer, start, readable, eosId, popped, written, cancelled,
                 writerError, files, result>>

\* Seeded bug: the end-of-stream frame leaves a gap in the numbers.
PushEosAfterGap ==
  /\ main = "eos"
  /\ EnqueueFrame(seqId + 1)
  /\ eosId' = seqId + 1
  /\ main' = "join"
  /\ UNCHANGED <<writer, start, readable, seqId, popped, written, cancelled,
                 writerError, ckpt, files, result>>

PushEos ==
  /\ main = "eos"
  /\ EnqueueFrame(seqId)
  /\ eosId' = seqId
  /\ main' = "join"
  /\ UNCHANGED <<writer, start, readable, seqId, popped, written, cancelled,
                 writerError, ckpt, files, result>>

JoinWriter ==
  /\ main = "join"
  /\ writer = "done"
  /\ main' = "stop"
  /\ UNCHANGED <<core, writer, start, readable, seqId, eosId, popped,
                 written, cancelled, writerError, ckpt, files, result>>

\* pipeline->stop()
StopPipeline ==
  /\ \/ main = "stop" /\ Deactivate /\ main' = "shutIn"
     \/ main = "shutIn" /\ ShutInput /\ main' = "shutOut"
     \/ main = "shutOut" /\ ShutOutput /\ main' = "joinWorkers"
     \/ main = "joinWorkers" /\ JoinWorkers /\ main' = "finish"
  /\ UNCHANGED <<writer, start, readable, seqId, eosId, popped, written,
                 cancelled, writerError, ckpt, files, result>>

\* Seeded bug: only the final output is removed.
FinishCancelledHalf ==
  /\ main = "finish"
  /\ cancelled
  /\ files' = files \ {"output"}
  /\ Return("cancelled")
  /\ UNCHANGED <<core, writer, start, readable, seqId, eosId, popped,
                 written, cancelled, writerError, ckpt>>

\* Both files are removed and the task reports that it was cancelled; the
\* checkpoint stays.
FinishCancelled ==
  /\ main = "finish"
  /\ cancelled
  /\ files' = files \ {VideoFile, "output"}
  /\ Return("cancelled")
  /\ UNCHANGED <<core, writer, start, readable, seqId, eosId, popped,
                 written, cancelled, writerError, ckpt>>

FinishFailed ==
  /\ main = "finish"
  /\ ~cancelled
  /\ writerError
  /\ Return("error")
  /\ UNCHANGED <<core, writer, start, readable, seqId, eosId, popped,
                 written, cancelled, writerError, ckpt, files>>

\* Seeded bug: a writer error is not looked at.
FinishRegardless ==
  /\ main = "finish"
  /\ ~cancelled
  /\ ckpt' = -1
  /\ IF Muxing THEN main' = "mux" /\ UNCHANGED result ELSE Return("ok")
  /\ UNCHANGED <<core, writer, start, readable, seqId, eosId, popped,
                 written, cancelled, writerError, files>>

\* The checkpoint goes before the audio is muxed in.
FinishGood ==
  /\ main = "finish"
  /\ ~cancelled
  /\ ~writerError
  /\ ckpt' = -1
  /\ IF Muxing THEN main' = "mux" /\ UNCHANGED result ELSE Return("ok")
  /\ UNCHANGED <<core, writer, start, readable, seqId, eosId, popped,
                 written, cancelled, writerError, files>>

\* merge_av succeeds, or fails and the silent video is renamed to the output:
\* the output exists and the task reports success either way.  When no frame
\* was written there is nothing to rename, and rename throws.
Mux ==
  /\ main = "mux"
  /\ IF "temp" \in files
       THEN files' = {"output"} /\ Return("ok")
       ELSE files' = files \ {"output"} /\ Return("throws")
  /\ UNCHANGED <<core, writer, start, readable, seqId, eosId, popped,
                 written, cancelled, writerError, ckpt>>

MainStep ==
  \/ SetupFails \/ AlreadyComplete \/ Begin \/ ReadFrame \/ PushVideoFrame
  \/ PushEos \/ JoinWriter \/ StopPipeline \/ FinishCancelled \/ FinishFailed
  \/ FinishGood \/ Mux

-----------------------------------------------------------------------------
(* The writer thread.  pop_frame cannot return nullopt to it: the pipeline *)
(* is stopped only after the thread has been joined.                       *)

WriterPop ==
  /\ writer = "pop"
  /\ DequeueFrame
  /\ popped' = Append(popped, Head(outQ))
  /\ writer' = "got"
  /\ UNCHANGED <<main, start, readable, seqId, eosId, written, cancelled,
                 writerError, ckpt, files, result>>

Got == popped[Len(popped)]

WriterSeesEos ==
  /\ writer = "got"
  /\ Got = eosId
  /\ writer' = "done"
  /\ UNCHANGED <<core, main, start, readable, seqId, eosId, popped, written,
                 cancelled, writerError, ckpt, files, result>>

\* The file is opened for the first frame, truncating what was there.
WriterWrites ==
  /\ writer = "got"
  /\ Got # eosId
  /\ written' = Append(written, Got)
  /\ files' = files \cup {VideoFile}
  /\ writer' = "pop"
  /\ UNCHANGED <<core, main, start, readable, seqId, eosId, popped,
                 cancelled, writerError, ckpt, result>>

\* The file cannot be opened, or the frame not written: the thread ends.
WriterFails ==
  /\ WriteMayFail
  /\ writer = "got"
  /\ Got # eosId
  /\ writerError' = TRUE
  /\ writer' = "done"
  /\ UNCHANGED <<core, main, start, readable, seqId, eosId, popped, written,
                 cancelled, ckpt, files, result>>

WriterStep == WriterPop \/ WriterSeesEos \/ WriterWrites \/ WriterFails

-----------------------------------------------------------------------------
\* PipelineRunner::cancel, from the shutdown handler's thread.
Cancel ==
  /\ ~cancelled
  /\ main # "done"
  /\ cancelled' = TRUE
  /\ UNCHANGED <<core, main, writer, start, readable, seqId, eosId, popped,
                 written, writerError, ckpt, files, result>>

WorkStep(w) == WorkerStep(w) /\ UNCHANGED runner

Next ==
  \/ \E w \in Worker : WorkStep(w)
  \/ MainStep
  \/ WriterStep
  \/ Cancel

\* The operating system runs every thread that can take a step; nobody has to
\* cancel.
Spec ==
  /\ Init /\ [][Next]_vars
  /\ \A w \in Worker : WF_vars(WorkStep(w))
  /\ WF_vars(MainStep)
  /\ WF_vars(WriterStep)

-----------------------------------------------------------------------------
(* Properties *)

TypeOK ==
  /\ CoreTypeOK
  /\ main \in MainState
  /\ writer \in {"none", "pop", "got", "done"}
  /\ start \in 0..Total /\ readable \in 0..Total
  /\ seqId \in Id /\ eosId \in Id \cup {-1}
  /\ popped \in Seq(Id) /\ written \in Seq(Id)
  /\ cancelled \in BOOLEAN /\ writerError \in BOOLEAN
  /\ ckpt \in Id \cup {-1}
  /\ files \subseteq {"temp", "output"}
  /\ result \in {"running", "ok", "error", "cancelled", "throws"}

LastFrame == IF MaxFrames > 0 /\ MaxFrames < readable THEN MaxFrames
             ELSE readable

\* End to end: a run that reports success wrote every frame from the one it
\* started at, up to the limit, once and in order - no cancel, writer error or
\* interleaving of the workers makes an incomplete video look like a good one -
\* and its checkpoint is gone.
OkMeansComplete ==
  result = "ok" =>
    /\ ckpt = -1
    /\ writer # "none" =>
         written = [i \in 1..(LastFrame - start) |-> start + i - 1]

\* No thread is left that uses the local variables of the call: the workers are
\* gone, the writer thread is joined and the mutex is free.
Quiet ==
  /\ \A w \in Worker : wpc[w] = "none"
  /\ writer \in {"none", "done"}
  /\ lock = None

\* When the call returns no thread is left that could still write.  Cancelling
\* removes what was produced, success leaves exactly the output, and neither
\* leaves the temporary file behind.
FilesMatchResult ==
  /\ main = "done" => Quiet
  /\ result = "cancelled" => files = {}
  /\ result = "ok" /\ written # <<>> => files = {"output"}

\* A fresh run comes to an end, cancelled or not, unless writing fails.
FreshRunReturns == (start = 0) ~> (main = "done" \/ writerError)

\* What PipelineClient keeps about its client, in terms of this one.
Pushing == IF main \in {"push", "eos"} THEN seqId ELSE -1
Accepted == {id \in Id : start <= id /\ id < seqId} \cup ({eosId} \ {-1})
Reading == writer # "done"
Ctl == IF main \in {"shutIn", "shutOut"} THEN main
       ELSE IF main = "joinWorkers" THEN "join" ELSE "idle"
Starts == IF writer = "none" THEN 0 ELSE 1
Stopped == /\ writer # "none"
           /\ main \in {"shutIn", "shutOut", "joinWorkers", "finish", "mux", "done"}

\* This runner is one of the clients PipelineClient allows, so everything
\* proved about the pipeline holds of it.
Client == INSTANCE PipelineClient WITH
            MaxStarts <- 1, pushing <- Pushing, accepted <- Accepted,
            refused <- {}, delivered <- popped, reading <- Reading,
            ctl <- Ctl, starts <- Starts, stopped <- Stopped
IsPipelineClient == Client!SafetySpec

\* What the documents and comments say and the code does not do: see the runs
\* that expect a violation.

\* design.md, 5.9: a resumed run continues with the remaining frames.
ResumedRunReturns == (start > 0) ~> (main = "done")

\* The reader loop watches writer_error in order to report E406.
WriterErrorIsReported == writerError ~> (main = "done")
=============================================================================
