------------------------------- MODULE TaskRun -------------------------------
(***************************************************************************)
(* One task with enable_resume, over several runs of the program:          *)
(* PipelineRunner::ExecuteTask takes the images and then the videos one    *)
(* after the other, the video runner resumes from and saves a checkpoint,  *)
(* CheckpointManager replaces the file in four steps, and the process may  *)
(* die between any two steps and be started again, perhaps with a changed  *)
(* configuration.                                                          *)
(*                                                                         *)
(* What the pipeline does with the frames of one video is in VideoRunner.  *)
(* Here it is reduced to its outcome: a video that starts at frame 0 is    *)
(* given to its writer frame by frame, one that starts later is read to    *)
(* its end and nothing of it is ever written.  What a writer makes of the  *)
(* frames it is given is in VideoWriter.                                   *)
(***************************************************************************)
EXTENDS Naturals, Sequences

CONSTANTS Video,             \* the videos of the task, in target order
          Total,             \* frames the reader delivers of every video
          CkptEvery,         \* a checkpoint is due every so many frames
          Config,            \* configurations the task may be started with
          HashOf,            \* CalculateConfigHash of each of them
          MaxRuns,           \* bound: how often the program is started
          None, Torn         \* no file; a file that was not fully written

ASSUME TaskAssumption ==
  /\ Video \in Seq(STRING) /\ Total \in Nat \ {0} /\ CkptEvery \in Nat \ {0}
  /\ MaxRuns \in Nat
  /\ DOMAIN HashOf = Config

ASSUME NoneAssumption == None \notin Nat

VARIABLES ckpt, tmp,         \* {task_id}.ckpt and {task_id}.ckpt.tmp
          out,               \* frames given for the output of each video, or None
          file,              \* frames given for the file the writer thread writes
          pc,                \* where the run is
          at,                \* index of the video being processed
          task, muxing,      \* the configuration of this run
          start,             \* start_frame
          limit,             \* seq_id at which the reader is out of frames
          seqId,             \* seq_id
          cancelled, writerError,
          result,            \* what ExecuteTask returned
          runs,              \* starts of the program so far
          resumed,           \* history: this run found a checkpoint to use
          undeleted,         \* history: this run failed to remove one
          pushed             \* history: the frames read, with the configuration

disk == <<ckpt, tmp, out>>
config == <<task, muxing>>
place == <<start, limit>>
run == <<pc, at, place, seqId, cancelled, writerError, file, result>>
past == <<runs, resumed, undeleted>>
vars == <<disk, config, run, past, pushed>>

\* The checkpoint of a frame names the configuration by its hash.
Data(c, frame) == [hash |-> HashOf[c], frame |-> frame]
Read(c, frame) == [config |-> c, frame |-> frame]

Init ==
  /\ ckpt = None /\ tmp = None
  /\ out = [i \in DOMAIN Video |-> None]
  /\ file = None
  /\ pc = "off" /\ at = 1
  /\ task \in Config /\ muxing \in BOOLEAN
  /\ start = 0 /\ limit = 0 /\ seqId = 0
  /\ cancelled = FALSE /\ writerError = FALSE
  /\ result = "none"
  /\ runs = 0 /\ resumed = FALSE /\ undeleted = FALSE /\ pushed = {}

-----------------------------------------------------------------------------
(* The task *)

\* The program is started, with the configuration of the task as it is now.
Start ==
  /\ pc = "off"
  /\ runs < MaxRuns
  /\ runs' = runs + 1
  /\ task' \in Config /\ muxing' \in BOOLEAN
  /\ pc' = "images"
  /\ at' = 1
  /\ cancelled' = FALSE
  /\ result' = "none"
  /\ resumed' = FALSE /\ undeleted' = FALSE
  /\ UNCHANGED <<disk, file, place, seqId, writerError, pushed>>

Return(r) == pc' = "off" /\ result' = r

\* A missing target, no face in the sources, a failed batch of images, a video
\* that cannot be opened: the task ends there.
TaskFails ==
  /\ \/ pc = "images"
     \/ pc = "video" /\ at <= Len(Video) /\ ~cancelled
  /\ Return("error")
  /\ UNCHANGED <<disk, config, at, place, seqId, cancelled, writerError,
                 file, past, pushed>>

\* The images are processed, as one batch, or skipped by a cancel.
Images ==
  /\ pc = "images"
  /\ pc' = "video"
  /\ UNCHANGED <<disk, config, at, place, seqId, cancelled, writerError,
                 file, result, past, pushed>>

\* No video is left, or the loop over them is left because of a cancel.
TaskEnds ==
  /\ pc = "video"
  /\ at > Len(Video) \/ cancelled
  /\ Return("ok")
  /\ UNCHANGED <<disk, config, at, place, seqId, cancelled, writerError,
                 file, past, pushed>>

\* Seeded bug: a checkpoint of another configuration is accepted.
LoadedOfAnyHash == IF ckpt \in {None, Torn} THEN None ELSE ckpt

\* CheckpointManager::load: nothing if the file is missing, does not parse,
\* fails its checksum or names another hash.
Loaded == IF ckpt \in {None, Torn} \/ ckpt.hash # HashOf[task] THEN None ELSE ckpt

\* The frame the checkpoint lets the run start at.
ResumeFrame == IF Loaded = None THEN 0 ELSE Loaded.frame + 1

\* CheckpointManager::cleanup: an error of the file system is only logged.
RemoveCheckpoint ==
  \/ ckpt' = None /\ UNCHANGED undeleted
  \/ ckpt # None /\ undeleted' = TRUE /\ UNCHANGED ckpt

\* The video is opened and the checkpoint looked up: numbering starts at from,
\* and the reader ends at frame number to.
Begin(from, to) ==
  /\ pc = "video"
  /\ at <= Len(Video) /\ ~cancelled
  /\ start' = from /\ limit' = to /\ seqId' = from
  /\ writerError' = FALSE
  /\ file' = None
  /\ pc' = "loop"
  /\ UNCHANGED <<disk, config, at, cancelled, result, runs, undeleted, pushed>>

\* There is no checkpoint to use, or its file cannot be read now.
BeginFresh ==
  /\ Begin(0, Total)
  /\ UNCHANGED resumed

\* The reader goes to the frame; the frame it finds may itself be lost.
BeginResumed ==
  /\ 0 < ResumeFrame /\ ResumeFrame < Total
  /\ \E to \in ResumeFrame..Total : Begin(ResumeFrame, to)
  /\ resumed' = TRUE

\* The seek fails.  Numbering starts at 0, but the reader stays where the
\* search has ended, so that only the frames behind that place are left.
BeginSeekFailed ==
  /\ 0 < ResumeFrame /\ ResumeFrame < Total
  /\ \E left \in 0..Total : Begin(0, left)
  /\ resumed' = TRUE

\* ProcessVideo has returned ok.
NextVideo == pc' = "video" /\ at' = at + 1

\* Seeded bug: the checkpoint of a finished task is left behind.
AlreadyCompleteKeeps ==
  /\ pc = "video"
  /\ at <= Len(Video) /\ ~cancelled
  /\ ResumeFrame >= Total
  /\ NextVideo
  /\ resumed' = TRUE
  /\ UNCHANGED <<disk, config, place, seqId, cancelled, writerError, file,
                 result, runs, undeleted, pushed>>

\* The checkpoint names the last frame: the video is taken for complete.
AlreadyComplete ==
  /\ pc = "video"
  /\ at <= Len(Video) /\ ~cancelled
  /\ ResumeFrame >= Total
  /\ RemoveCheckpoint
  /\ NextVideo
  /\ resumed' = TRUE
  /\ UNCHANGED <<tmp, out, config, place, seqId, cancelled, writerError,
                 file, result, runs, pushed>>

-----------------------------------------------------------------------------
(* One video *)

\* A frame is pushed; the checkpoint that may follow names it.
PushFrame ==
  /\ pc = "loop"
  /\ seqId < limit /\ ~cancelled /\ ~writerError
  /\ seqId' = seqId + 1
  /\ pushed' = pushed \cup {Read(task, seqId)}
  /\ pc' = IF (seqId + 1) % CkptEvery = 0 THEN "due" ELSE "loop"
  /\ UNCHANGED <<disk, config, at, place, cancelled, writerError, file,
                 result, past>>

\* The writer thread, behind the reader.  It opens its file, truncating what an
\* earlier run has left, for the first frame; frame 0 never comes to it in a
\* resumed video, and so no other does.
WriteFrame ==
  /\ pc \in {"loop", "due", "write", "remove", "rename", "join"}
  /\ start = 0 /\ ~writerError
  /\ LET done == IF file = None THEN 0 ELSE file IN
       /\ done < seqId
       /\ file' = done + 1
       /\ out' = IF muxing THEN out ELSE [out EXCEPT ![at] = done + 1]
  /\ UNCHANGED <<ckpt, tmp, config, pc, at, place, seqId, cancelled,
                 writerError, result, past, pushed>>

WriterFails ==
  /\ pc \in {"loop", "due", "write", "remove", "rename", "join"}
  /\ start = 0 /\ ~writerError
  /\ file # seqId /\ (file = None => seqId > 0)
  /\ writerError' = TRUE
  /\ UNCHANGED <<disk, config, pc, at, place, seqId, cancelled, file, result,
                 past, pushed>>

\* The reader loop is left and the end-of-stream frame pushed.
EndOfStream ==
  /\ pc = "loop"
  /\ seqId = limit \/ cancelled \/ writerError
  /\ pc' = "join"
  /\ UNCHANGED <<disk, config, at, place, seqId, cancelled, writerError,
                 file, result, past, pushed>>

\* The writer thread has seen the end of the stream, or failed.  In a resumed
\* video it does neither: the run can only be killed.
Joined ==
  /\ pc = "join"
  /\ \/ writerError
     \/ start = 0 /\ (file = seqId \/ (file = None /\ seqId = 0))

Cancelled ==
  /\ Joined
  /\ cancelled
  /\ out' = [out EXCEPT ![at] = None]
  /\ Return("error")
  /\ UNCHANGED <<ckpt, tmp, config, at, place, seqId, cancelled, writerError,
                 file, past, pushed>>

WriteFailed ==
  /\ Joined
  /\ ~cancelled
  /\ writerError
  /\ Return("error")
  /\ UNCHANGED <<disk, config, at, place, seqId, cancelled, writerError,
                 file, past, pushed>>

Completed ==
  /\ RemoveCheckpoint
  /\ IF muxing THEN pc' = "mux" /\ UNCHANGED at ELSE NextVideo
  /\ UNCHANGED <<tmp, out, config, place, seqId, cancelled, writerError,
                 file, result, runs, resumed, pushed>>

\* Seeded bug: an error of the writer thread is not looked at.
CleanupRegardless == Joined /\ ~cancelled /\ Completed

\* The checkpoint is removed, and only then the audio merged in.
Cleanup == Joined /\ ~cancelled /\ ~writerError /\ Completed

Mux ==
  /\ pc = "mux"
  /\ file # None
  /\ out' = [out EXCEPT ![at] = file]
  /\ NextVideo
  /\ UNCHANGED <<ckpt, tmp, config, place, seqId, cancelled, writerError,
                 file, result, past, pushed>>

\* No frame came.  If an earlier run has left a temporary file, that becomes
\* the output; else the renaming throws, which nobody catches: a Crash.
MuxLeftover ==
  /\ pc = "mux"
  /\ file = None /\ runs > 1
  /\ \E n \in 1..Total : out' = [out EXCEPT ![at] = n]
  /\ NextVideo
  /\ UNCHANGED <<ckpt, tmp, config, place, seqId, cancelled, writerError,
                 file, result, past, pushed>>

-----------------------------------------------------------------------------
(* CheckpointManager::save *)

\* The last save is too recent, or the temporary file cannot be opened.
SkipSave ==
  /\ pc = "due"
  /\ pc' = "loop"
  /\ UNCHANGED <<disk, config, at, place, seqId, cancelled, writerError,
                 file, result, past, pushed>>

OpenTemporary ==
  /\ pc = "due"
  /\ tmp' = Torn
  /\ pc' = "write"
  /\ UNCHANGED <<ckpt, out, config, at, place, seqId, cancelled, writerError,
                 file, result, past, pushed>>

\* A short write goes unnoticed.
WriteTemporary ==
  /\ pc = "write"
  /\ tmp' \in {Torn, Data(task, seqId - 1)}
  /\ pc' = "remove"
  /\ UNCHANGED <<ckpt, out, config, at, place, seqId, cancelled, writerError,
                 file, result, past, pushed>>

RemoveOld ==
  /\ pc = "remove"
  /\ ckpt' = None
  /\ pc' = "rename"
  /\ UNCHANGED <<tmp, out, config, at, place, seqId, cancelled, writerError,
                 file, result, past, pushed>>

Rename ==
  /\ pc = "rename"
  /\ ckpt' = tmp
  /\ tmp' = None
  /\ pc' = "loop"
  /\ UNCHANGED <<out, config, at, place, seqId, cancelled, writerError, file,
                 result, past, pushed>>

\* Removing or renaming throws; save catches it and logs a message.
SaveThrows ==
  /\ pc \in {"remove", "rename"}
  /\ pc' = "loop"
  /\ UNCHANGED <<disk, config, at, place, seqId, cancelled, writerError,
                 file, result, past, pushed>>

-----------------------------------------------------------------------------
\* PipelineRunner::cancel, from the shutdown handler.
Cancel ==
  /\ pc # "off"
  /\ ~cancelled
  /\ cancelled' = TRUE
  /\ UNCHANGED <<disk, config, pc, at, place, seqId, writerError, file,
                 result, past, pushed>>

\* The process dies: by a signal, by its own watchdog, or because somebody
\* kills a run that does not end.  What is on disk stays.
Crash ==
  /\ pc # "off"
  /\ Return("none")
  /\ UNCHANGED <<disk, config, at, place, seqId, cancelled, writerError,
                 file, past, pushed>>

TaskStep == Start \/ TaskFails \/ Images \/ TaskEnds
VideoStep ==
  \/ BeginFresh \/ BeginResumed \/ BeginSeekFailed \/ AlreadyComplete
  \/ PushFrame \/ WriteFrame \/ WriterFails \/ EndOfStream
  \/ Cancelled \/ WriteFailed \/ Cleanup \/ Mux \/ MuxLeftover
SaveStep ==
  \/ SkipSave \/ OpenTemporary \/ WriteTemporary \/ RemoveOld \/ Rename
  \/ SaveThrows

Next == TaskStep \/ VideoStep \/ SaveStep \/ Cancel \/ Crash

Spec == Init /\ [][Next]_vars

-----------------------------------------------------------------------------
(* Properties *)

Frame == 0..(Total - 1)
Checkpoint == [hash : {HashOf[c] : c \in Config}, frame : Frame]

\* Every variable holds a value of its type, and the writer never overtakes the
\* reader.
TypeOK ==
  /\ ckpt \in Checkpoint \cup {None, Torn}
  /\ tmp \in Checkpoint \cup {None, Torn}
  /\ out \in [DOMAIN Video -> 1..Total \cup {None}]
  /\ pc \in {"off", "images", "video", "loop", "due", "write", "remove",
             "rename", "join", "mux"}
  /\ at \in 1..(Len(Video) + 1)
  /\ task \in Config /\ muxing \in BOOLEAN
  /\ start \in Frame /\ limit \in start..Total /\ seqId \in start..limit
  /\ file \in 1..seqId \cup {None}
  /\ cancelled \in BOOLEAN /\ writerError \in BOOLEAN
  /\ result \in {"none", "ok", "error"}
  /\ runs \in 0..MaxRuns /\ resumed \in BOOLEAN /\ undeleted \in BOOLEAN
  /\ pushed \subseteq [config : Config, frame : Frame]

\* Whatever the crashes, short writes, failed removals and changes of
\* configuration before, a checkpoint that load accepts names a frame that a run
\* has read, with a configuration of the same hash as this one.  It need not be
\* this configuration: CalculateConfigHash leaves much of it out.
LoadedIsGenuine ==
  Loaded # None =>
    \E c \in Config : HashOf[c] = HashOf[task] /\ Read(c, Loaded.frame) \in pushed

\* A run that found no checkpoint, was not cancelled and reports success has
\* given every frame of every video to its writer, whatever earlier runs left on
\* the disk.  Of a run that did find one no such thing can be said: its seek may
\* fail, and "starting from beginning" (runner_video.cpp:106) it is left with a
\* part of the video.
FreshOkIsComplete ==
  result = "ok" /\ ~cancelled /\ ~resumed =>
    \A i \in DOMAIN Video : out[i] = Total

\* design.md, 5.9: a task that succeeded leaves no checkpoint, so the next run
\* of the same task starts afresh; but for one that the file system refused to
\* remove, of which the task only logs a message.
OkLeavesNoCheckpoint ==
  result = "ok" /\ ~cancelled /\ ~undeleted /\ Video # <<>> => ckpt = None
=============================================================================
