------------------------------ MODULE ImageBatch ------------------------------
(***************************************************************************)
(* One call of ImageProcessingHelper::ProcessBatch: the calling thread     *)
(* loads images and pushes them into the pipeline, a writer thread pops    *)
(* and saves them, and another thread may cancel the task.  The number of  *)
(* a frame is the index of its target; the end-of-stream frame follows.    *)
(***************************************************************************)
EXTENDS Pipeline

CONSTANTS Targets,           \* target_paths.size()
          Unreadable,        \* which sets of targets may turn out unreadable
          OutputOf,          \* GenerateOutputPath: the file of each target;
                             \* it keeps only the stem of the input path
          WriteMayFail       \* whether imwrite may fail

Target == 0..(Targets - 1)
File == {OutputOf[t] : t \in Target}

ASSUME BatchAssumption ==
  /\ Targets \in Nat \ {0}
  /\ Unreadable \subseteq SUBSET Target
  /\ DOMAIN OutputOf = Target
  /\ WriteMayFail \in BOOLEAN
  /\ 0..Targets \subseteq Id

VARIABLES main,              \* where the calling thread is
          writer,            \* where the writer thread is
          bad,               \* targets cv::imread cannot load in this run
          seqId,             \* seq_id, also the place in the target list
          eosId,             \* number of the end-of-stream frame, or -1
          popped,            \* history: frames pop_frame returned
          saved,             \* target whose picture each file holds, or -1
          completed,         \* record_frame_completed calls
          failed,            \* record_frame_failed calls
          cancelled, writerError,
          result

batchVars == <<main, writer, bad, seqId, eosId, popped, saved, completed,
               failed, cancelled, writerError, result>>
vars == <<core, batchVars>>

Init ==
  /\ CoreInit
  /\ main = "setup" /\ writer = "none"
  /\ bad \in Unreadable
  /\ seqId = 0 /\ eosId = -1
  /\ popped = <<>>
  /\ saved = [f \in File |-> -1]
  /\ completed = 0 /\ failed = 0
  /\ cancelled = FALSE /\ writerError = FALSE
  /\ result = "running"

-----------------------------------------------------------------------------
(* The calling thread *)

Return(r) == main' = "done" /\ result' = r

\* add_processors_func reports an error.
SetupFails ==
  /\ main = "setup"
  /\ Return("error")
  /\ UNCHANGED <<core, writer, bad, seqId, eosId, popped, saved, completed,
                 failed, cancelled, writerError>>

Begin ==
  /\ main = "setup"
  /\ StartWorkers
  /\ main' = "loop" /\ writer' = "pop"
  /\ UNCHANGED <<bad, seqId, eosId, popped, saved, completed, failed,
                 cancelled, writerError, result>>

\* Seeded bug: a cancelled batch is not ended by an end-of-stream frame.
LeaveLoopQuietly ==
  /\ main = "loop"
  /\ seqId = Targets \/ cancelled \/ writerError
  /\ main' = IF cancelled THEN "join" ELSE "eos"
  /\ UNCHANGED <<core, writer, bad, seqId, eosId, popped, saved, completed,
                 failed, cancelled, writerError, result>>

\* The loop is left: no target is left, or the run is over.
LeaveLoop ==
  /\ main = "loop"
  /\ seqId = Targets \/ cancelled \/ writerError
  /\ main' = "eos"
  /\ UNCHANGED <<core, writer, bad, seqId, eosId, popped, saved, completed,
                 failed, cancelled, writerError, result>>

MoreToLoad == main = "loop" /\ seqId < Targets /\ ~cancelled /\ ~writerError

LoadImage ==
  /\ MoreToLoad
  /\ seqId \notin bad
  /\ main' = "push"
  /\ UNCHANGED <<core, writer, bad, seqId, eosId, popped, saved, completed,
                 failed, cancelled, writerError, result>>

\* The image cannot be read: its number is used up and nothing is pushed.
SkipImage ==
  /\ MoreToLoad
  /\ seqId \in bad
  /\ failed' = failed + 1
  /\ seqId' = seqId + 1
  /\ UNCHANGED <<core, main, writer, bad, eosId, popped, saved, completed,
                 cancelled, writerError, result>>

PushImage ==
  /\ main = "push"
  /\ EnqueueFrame(seqId)
  /\ seqId' = seqId + 1
  /\ main' = "loop"
  /\ UNCHANGED <<writer, bad, eosId, popped, saved, completed, failed,
                 cancelled, writerError, result>>

\* Seeded bugs: the last frame is not marked as the end of the stream; it gets
\* the number of the last target.
PushEosUnmarked ==
  /\ main = "eos"
  /\ EnqueueFrame(seqId)
  /\ main' = "join"
  /\ UNCHANGED <<writer, bad, seqId, eosId, popped, saved, completed, failed,
                 cancelled, writerError, result>>

PushEosOneLow ==
  /\ main = "eos"
  /\ EnqueueFrame(seqId - 1)
  /\ eosId' = seqId - 1
  /\ main' = "join"
  /\ UNCHANGED <<writer, bad, seqId, popped, saved, completed, failed,
                 cancelled, writerError, result>>

PushEos ==
  /\ main = "eos"
  /\ EnqueueFrame(seqId)
  /\ eosId' = seqId
  /\ main' = "join"
  /\ UNCHANGED <<writer, bad, seqId, popped, saved, completed, failed,
                 cancelled, writerError, result>>

JoinWriter ==
  /\ main = "join"
  /\ writer = "done"
  /\ main' = "stop"
  /\ UNCHANGED <<core, writer, bad, seqId, eosId, popped, saved, completed,
                 failed, cancelled, writerError, result>>

\* pipeline->stop()
StopPipeline ==
  /\ \/ main = "stop" /\ Deactivate /\ main' = "shutIn"
     \/ main = "shutIn" /\ ShutInput /\ main' = "shutOut"
     \/ main = "shutOut" /\ ShutOutput /\ main' = "joinWorkers"
     \/ main = "joinWorkers" /\ JoinWorkers /\ main' = "finish"
  /\ UNCHANGED <<writer, bad, seqId, eosId, popped, saved, completed, failed,
                 cancelled, writerError, result>>

\* Seeded bug: a writer error is not looked at.
FinishRegardless ==
  /\ main = "finish"
  /\ Return(IF cancelled THEN "cancelled" ELSE "ok")
  /\ UNCHANGED <<core, writer, bad, seqId, eosId, popped, saved, completed,
                 failed, cancelled, writerError>>

\* A cancelled batch says so even if everything has been written.
Finish ==
  /\ main = "finish"
  /\ Return(IF cancelled THEN "cancelled"
            ELSE IF writerError THEN "error" ELSE "ok")
  /\ UNCHANGED <<core, writer, bad, seqId, eosId, popped, saved, completed,
                 failed, cancelled, writerError>>

MainStep ==
  \/ SetupFails \/ Begin \/ LeaveLoop \/ LoadImage \/ SkipImage \/ PushImage
  \/ PushEos \/ JoinWriter \/ StopPipeline \/ Finish

-----------------------------------------------------------------------------
(* The writer thread.  Its test for a number past the last target never    *)
(* succeeds: see FramesAreTargets.                                         *)

WriterPop ==
  /\ writer = "pop"
  /\ DequeueFrame
  /\ popped' = Append(popped, Head(outQ))
  /\ writer' = "got"
  /\ UNCHANGED <<main, bad, seqId, eosId, saved, completed, failed, cancelled,
                 writerError, result>>

Got == popped[Len(popped)]

WriterSeesEos ==
  /\ writer = "got"
  /\ Got = eosId
  /\ writer' = "done"
  /\ UNCHANGED <<core, main, bad, seqId, eosId, popped, saved, completed,
                 failed, cancelled, writerError, result>>

\* imwrite replaces a file that is already there.
WriterSaves ==
  /\ writer = "got"
  /\ Got # eosId
  /\ saved' = [saved EXCEPT ![OutputOf[Got]] = Got]
  /\ completed' = completed + 1
  /\ writer' = "pop"
  /\ UNCHANGED <<core, main, bad, seqId, eosId, popped, failed, cancelled,
                 writerError, result>>

WriterFails ==
  /\ WriteMayFail
  /\ writer = "got"
  /\ Got # eosId
  /\ writerError' = TRUE
  /\ failed' = failed + 1
  /\ writer' = "done"
  /\ UNCHANGED <<core, main, bad, seqId, eosId, popped, saved, completed,
                 cancelled, result>>

WriterStep == WriterPop \/ WriterSeesEos \/ WriterSaves \/ WriterFails

-----------------------------------------------------------------------------
\* PipelineRunner::cancel, from another thread.
Cancel ==
  /\ ~cancelled
  /\ main # "done"
  /\ cancelled' = TRUE
  /\ UNCHANGED <<core, main, writer, bad, seqId, eosId, popped, saved,
                 completed, failed, writerError, result>>

WorkStep(w) == WorkerStep(w) /\ UNCHANGED batchVars

Next ==
  \/ \E w \in Worker : WorkStep(w)
  \/ MainStep
  \/ WriterStep
  \/ Cancel

\* The operating system runs every thread that can take a step.
Spec ==
  /\ Init /\ [][Next]_vars
  /\ \A w \in Worker : WF_vars(WorkStep(w))
  /\ WF_vars(MainStep)
  /\ WF_vars(WriterStep)

-----------------------------------------------------------------------------
(* Properties *)

\* Every variable holds a value of its type.
TypeOK ==
  /\ CoreTypeOK
  /\ main \in {"setup", "loop", "push", "eos", "join", "stop", "shutIn",
               "shutOut", "joinWorkers", "finish", "done"}
  /\ writer \in {"none", "pop", "got", "done"}
  /\ bad \subseteq Target
  /\ seqId \in Id /\ eosId \in Id \cup {-1}
  /\ popped \in Seq(Id)
  /\ saved \in [File -> Target \cup {-1}]
  /\ completed \in 0..Targets /\ failed \in 0..(Targets + 1)
  /\ cancelled \in BOOLEAN /\ writerError \in BOOLEAN
  /\ result \in {"running", "ok", "error", "cancelled"}

\* The writer thread takes a number for an index into the target list
\* (runner_image.cpp, "Invalid sequence ID received"): whatever was skipped or
\* cut short by a cancel, it names a target that was loaded.
FramesAreTargets == writer = "got" /\ Got # eosId => Got \in Target \ bad

\* No thread is left that uses the local variables of the call.
Quiet ==
  /\ \A w \in Worker : wpc[w] = "none"
  /\ writer \in {"none", "done"}
  /\ lock = None

\* A batch that reports success has a picture for every target: each file holds
\* the last of the targets that share its name, and the metrics agree.  However
\* it ends, no thread is left that could still save one.
OkMeansEveryImage ==
  /\ main = "done" => Quiet
  /\ result = "ok" =>
      /\ completed = Targets /\ failed = 0
      /\ \A f \in File :
           saved[f] \in {t \in Target : /\ OutputOf[t] = f
                                        /\ \A u \in Target : OutputOf[u] = f => u <= t}

\* A batch of readable images comes to an end, cancelled or not, unless saving
\* one of them fails.
ReadableBatchReturns == (bad = {}) ~> (main = "done" \/ writerError)

\* What PipelineClient keeps about its client, in terms of this one.
Pushing == IF main \in {"push", "eos"} THEN seqId ELSE -1
Accepted == {t \in Target \ bad : t < seqId} \cup ({eosId} \ {-1})
Reading == writer # "done"
Ctl == IF main \in {"shutIn", "shutOut"} THEN main
       ELSE IF main = "joinWorkers" THEN "join" ELSE "idle"
Starts == IF writer = "none" THEN 0 ELSE 1
Stopped == /\ writer # "none"
           /\ main \in {"shutIn", "shutOut", "joinWorkers", "finish", "done"}

\* ProcessBatch is one of the clients PipelineClient allows, gaps included, so
\* everything proved about the pipeline holds of it.
Client == INSTANCE PipelineClient WITH
            MaxStarts <- 1, pushing <- Pushing, accepted <- Accepted,
            refused <- {}, delivered <- popped, reading <- Reading,
            ctl <- Ctl, starts <- Starts, stopped <- Stopped
IsPipelineClient == Client!SafetySpec
=============================================================================
