------------------------------ MODULE Transcode ------------------------------
(***************************************************************************)
(* The media side of ProcessVideo: the calling thread reads frames with a  *)
(* VideoReader and hands them to the frame pipeline, a writer thread takes *)
(* them out and writes them with a VideoWriter, and the calling thread     *)
(* closes both and merges in the audio.  Of the pipeline only its promise  *)
(* is used, module OrderedStream: frames come out by number, from 0 on;    *)
(* and that it holds a limited number of frames that nobody takes out.     *)
(***************************************************************************)
EXTENDS VideoReader, VideoWriter

CONSTANTS SeekTargets,       \* frames a run may resume at
          NeedsMuxing,       \* audio_policy is copy
          PipelineRoom       \* frames the pipeline's queues and workers hold

\* What can be at output_path.
VideoFiles == [frames : Seq(Frame), audio : BOOLEAN]

ASSUME TranscodeAssumption ==
  /\ Picture = Frame /\ None \notin VideoFiles
  /\ SeekTargets \subseteq Frame \ {0}
  /\ NeedsMuxing \subseteq BOOLEAN
  /\ PipelineRoom \in Nat \ {0}

VARIABLES main,              \* where the calling thread is
          writing,           \* where the writer thread is
          inHand,            \* the frame it has popped
          resumeAt,          \* frame the checkpoint asks for, 0 for none
          start,             \* start_frame
          eos,               \* number of the end-of-stream frame, or None
          accepted, delivered, open,
          cancelled, writerError,
          muxing,            \* needs_muxing
          output,            \* what is at output_path, or None
          result

pipe == <<accepted, delivered, open>>
run == <<main, writing, inHand, resumeAt, start, eos, pipe, cancelled,
         writerError, muxing, output, result>>
vars == <<readerVars, writerVars, run>>

Pipe == INSTANCE OrderedStream WITH Id <- 0..Frames

Init ==
  /\ ReaderInit
  /\ WriterInit
  /\ main = "begin" /\ writing = "none"
  /\ inHand = None
  /\ resumeAt \in SeekTargets \cup {0} /\ start = 0
  /\ eos = None
  /\ Pipe!Init
  /\ cancelled = FALSE /\ writerError = FALSE
  /\ muxing \in NeedsMuxing
  /\ output = None
  /\ result = "running"

-----------------------------------------------------------------------------
(* The calling thread *)

Finished(r) == main' = "done" /\ result' = r

BeginOpen ==
  /\ main = "begin"
  /\ StopDecoding(Opening)
  /\ main' = "opened"
  /\ UNCHANGED <<writerVars, writing, inHand, resumeAt, start, eos, pipe,
                 cancelled, writerError, muxing, output, result>>

OpenFailed ==
  /\ main = "opened" /\ caller = "idle" /\ ~isOpen
  /\ Finished("error")
  /\ UNCHANGED <<readerVars, writerVars, writing, inHand, resumeAt, start, eos,
                 pipe, cancelled, writerError, muxing, output>>

\* A checkpoint is there: the reader is told to go to the frame it names.
BeginSeek ==
  /\ main = "opened" /\ caller = "idle" /\ isOpen
  /\ resumeAt > 0
  /\ StopDecoding(Seeking(resumeAt))
  /\ main' = "sought"
  /\ UNCHANGED <<writerVars, writing, inHand, resumeAt, start, eos, pipe,
                 cancelled, writerError, muxing, output, result>>

\* The writer thread is started.  If the seek has failed, numbering starts at 0,
\* but the reader stays where the seek has left it.
BeginLoop ==
  /\ caller = "idle" /\ isOpen
  /\ \/ main = "opened" /\ resumeAt = 0
     \/ main = "sought"
  /\ start' = IF origin = None THEN 0 ELSE resumeAt
  /\ main' = "loop"
  /\ writing' = "pop"
  /\ UNCHANGED <<readerVars, writerVars, inHand, resumeAt, eos, pipe, cancelled,
                 writerError, muxing, output, result>>

NextNumber == start + Len(reads)

LeaveReadLoop ==
  /\ main = "loop" /\ caller = "idle"
  /\ cancelled \/ writerError
  /\ main' = "eos"
  /\ UNCHANGED <<readerVars, writerVars, writing, inHand, resumeAt, start, eos,
                 pipe, cancelled, writerError, muxing, output, result>>

BeginReadFrame ==
  /\ main = "loop"
  /\ ~cancelled /\ ~writerError
  /\ BeginRead
  /\ UNCHANGED <<writerVars, run>>

\* The frames that wait to be taken out.  One behind a missing number does not
\* count: it is parked in the reorder buffer, which has no limit.
Ready == {n \in accepted : n >= Len(delivered) /\ Len(delivered)..n \subseteq accepted}
PipelineFull == Cardinality(Ready) >= PipelineRoom

\* read_frame and push_frame, which waits until the pipeline has room: both are
\* done when it has.
PushFrame ==
  /\ main = "loop"
  /\ ~PipelineFull
  /\ \E f \in Frame : ReadFrame(f)
  /\ Pipe!Accept(NextNumber)
  /\ UNCHANGED <<writerVars, main, writing, inHand, resumeAt, start, eos,
                 cancelled, writerError, muxing, output, result>>

EndOfVideo ==
  /\ main = "loop"
  /\ ReadNothing
  /\ main' = "eos"
  /\ UNCHANGED <<writerVars, writing, inHand, resumeAt, start, eos, pipe,
                 cancelled, writerError, muxing, output, result>>

\* The end-of-stream frame waits for room like any other.
PushEos ==
  /\ main = "eos"
  /\ ~PipelineFull
  /\ Pipe!Accept(NextNumber)
  /\ eos' = NextNumber
  /\ main' = "join"
  /\ UNCHANGED <<readerVars, writerVars, writing, inHand, resumeAt, start,
                 cancelled, writerError, muxing, output, result>>

\* The writer thread has ended; stop() closes the pipeline.
JoinWriting ==
  /\ main = "join" /\ writing = "done"
  /\ Pipe!Close
  /\ main' = "closeWriter"
  /\ UNCHANGED <<readerVars, writerVars, writing, inHand, resumeAt, start, eos,
                 cancelled, writerError, muxing, output, result>>

\* writer.close() and then reader.close().
CloseWriter ==
  /\ main = "closeWriter"
  /\ StopEncoding
  /\ UNCHANGED <<readerVars, run>>

CloseReader ==
  /\ main = "closeWriter" /\ closing = "closed"
  /\ StopDecoding(Closing)
  /\ main' = "closeReader"
  /\ UNCHANGED <<writerVars, writing, inHand, resumeAt, start, eos, pipe,
                 cancelled, writerError, muxing, output, result>>

-----------------------------------------------------------------------------
(* What remains to do once the two are closed *)

Closed == main = "closeReader" /\ caller = "idle"

\* The temporary or the output file is a video if one was ever opened.
VideoFile == IF trailer THEN [frames |-> written, audio |-> FALSE] ELSE None

RunCancelled ==
  /\ Closed /\ cancelled
  /\ output' = None
  /\ Finished("cancelled")
  /\ UNCHANGED <<readerVars, writerVars, writing, inHand, resumeAt, start, eos,
                 pipe, cancelled, writerError, muxing>>

RunFailed ==
  /\ Closed /\ ~cancelled /\ writerError
  /\ output' = IF muxing THEN None ELSE VideoFile
  /\ Finished("error")
  /\ UNCHANGED <<readerVars, writerVars, writing, inHand, resumeAt, start, eos,
                 pipe, cancelled, writerError, muxing>>

\* f lists the numbers in S in ascending order.
Lists(f, S) == ToSet(f) = S /\ \A i \in 1..(Len(f) - 1) : f[i] < f[i + 1]

\* merge_av succeeds: the packets are copied to the new file one by one, and
\* those that cannot be written are missing from it.
Merge ==
  /\ VideoFile # None
  /\ \E f \in BoundedSeq(Frame, Len(written)) :
       /\ ToSet(f) \subseteq ToSet(written) /\ Lists(f, ToSet(f))
       /\ output' = [frames |-> f, audio |-> TRUE]
       /\ lost' = lost \cup (ToSet(written) \ ToSet(f))

\* The video becomes the output as it is, also when the audio cannot be merged.
KeepVideo == output' = VideoFile /\ UNCHANGED lost

RunCompleted ==
  /\ Closed /\ ~cancelled /\ ~writerError
  /\ \/ muxing /\ Merge
     \/ (muxing => VideoFile # None) /\ KeepVideo
  /\ Finished("ok")
  /\ UNCHANGED <<readerVars, sink, writerOpen, sizeLike, encodeQueue, encoder,
                 inEncoder, written, trailer, closing, writing, inHand, resumeAt,
                 start, eos, pipe, cancelled, writerError, muxing>>

\* There is no temporary file, because no frame came: merging fails, and so
\* does the renaming, which throws.
NothingToRename ==
  /\ Closed /\ ~cancelled /\ ~writerError
  /\ muxing /\ VideoFile = None
  /\ Finished("thrown")
  /\ UNCHANGED <<readerVars, writerVars, writing, inHand, resumeAt, start, eos,
                 pipe, cancelled, writerError, muxing, output>>

-----------------------------------------------------------------------------
(* The writer thread *)

\* The frame behind a number of the pipeline.
Content(n) == reads[n - start + 1]

PopFrame ==
  /\ writing = "pop"
  /\ Pipe!Deliver
  /\ IF Len(delivered) = eos
       THEN writing' = "done" /\ UNCHANGED inHand
       ELSE /\ inHand' = Content(Len(delivered))
            /\ writing' = IF writerOpen THEN "write" ELSE "open"
  /\ UNCHANGED <<readerVars, writerVars, main, resumeAt, start, eos, cancelled,
                 writerError, muxing, output, result>>

OpenForFirst ==
  /\ writing = "open"
  /\ \/ OpenWriter(inHand) /\ writing' = "write" /\ UNCHANGED writerError
     \/ OpenWriterFails /\ writing' = "done" /\ writerError' = TRUE
  /\ UNCHANGED <<readerVars, main, inHand, resumeAt, start, eos, pipe, cancelled,
                 muxing, output, result>>

WriteInHand ==
  /\ writing = "write"
  /\ WriteFrame(inHand)
  /\ writing' = "pop"
  /\ inHand' = None
  /\ UNCHANGED <<readerVars, main, resumeAt, start, eos, pipe, cancelled,
                 writerError, muxing, output, result>>

Cancel ==
  /\ ~cancelled /\ result = "running"
  /\ cancelled' = TRUE
  /\ UNCHANGED <<readerVars, writerVars, main, writing, inHand, resumeAt, start,
                 eos, pipe, writerError, muxing, output, result>>

-----------------------------------------------------------------------------

Main ==
  \/ BeginOpen \/ OpenFailed \/ BeginSeek \/ BeginLoop
  \/ LeaveReadLoop \/ BeginReadFrame \/ PushFrame \/ EndOfVideo \/ PushEos
  \/ JoinWriting \/ CloseWriter \/ CloseReader
  \/ RunCancelled \/ RunFailed \/ RunCompleted \/ NothingToRename
  \/ StoppingCalls /\ UNCHANGED <<writerVars, run>>
  \/ FinishFile /\ UNCHANGED <<readerVars, run>>

Writing == PopFrame \/ OpenForFirst \/ WriteInHand

DecodingThread == Decoding /\ UNCHANGED <<writerVars, run>>
EncodingThread == Encoding /\ UNCHANGED <<readerVars, run>>

Next == Main \/ Writing \/ DecodingThread \/ EncodingThread \/ Cancel

\* Four threads, each scheduled again and again; nobody has to cancel.
Spec ==
  /\ Init /\ [][Next]_vars
  /\ WF_vars(Main) /\ WF_vars(Writing)
  /\ WF_vars(DecodingThread) /\ WF_vars(EncodingThread)

-----------------------------------------------------------------------------
(* Properties *)

\* The frames taken out of the pipeline, in their order.
Taken == [i \in 1..Cardinality({n \in 0..(Len(delivered) - 1) : n # eos}) |-> Content(i - 1)]

\* Of the frames the writer was given a finished file holds, in their order and
\* once each, all but those that an error of the encoder or of the disk, or
\* another size than the first, has cost: nothing that was still in the queue
\* or in the encoder is forgotten.  That write_frame returns true only for frames
\* that are written, as it is documented to, cannot be said.  (When the run is over, the file has become
\* the output or has been merged into it.)
FileIsWhatWasGiven ==
  trailer /\ main # "done" => Lists(written, ToSet(Taken) \ lost)

\* A run that was not resumed and says ok has made the whole video, but for such
\* errors: every frame that can be decoded, once and in order.
OkMeansWhole ==
  result = "ok" /\ resumeAt = 0 /\ Decodable # {} =>
    /\ output # None
    /\ output.audio => muxing
    /\ Lists(output.frames, Decodable \ lost)

\* Whatever state the decoding thread is in, repeating a read that fails or
\* waiting for room in the queue, a call that has to stop it gets on.
StoppingReturns == caller = "shutdown" ~> caller = "work"

\* A run that numbers its frames from 0 ends, unless the file has a place that
\* can never be read; or the writer thread has given up with the pipeline full,
\* for then nobody makes room for the next frame or for the end of the stream
\* (the deadlock that the run of VideoRunner after a write error shows).
ReadableRunEnds ==
  (main = "loop" /\ start = 0 /\ video.broken = Frames) ~>
    (\/ main = "done"
     \/ main \in {"loop", "eos"} /\ writerError /\ PipelineFull)
=============================================================================
