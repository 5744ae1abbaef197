---------------------------- MODULE TaskRunProofs ----------------------------
(***************************************************************************)
(* Theorems about TaskRun, for any number of videos, of frames and of runs *)
(* of the program, any checkpoint interval, any configurations and any     *)
(* hash of them.                                                           *)
(***************************************************************************)
EXTENDS TaskRun, SequenceTheorems, TLAPS

-----------------------------------------------------------------------------
(* The inductive invariant *)

\* Inside ProcessVideo.
Inside == {"loop", "due", "write", "remove", "rename", "join", "mux"}

\* A run has no result before it ends, it goes through the videos from the
\* first, the one in hand exists, and a save is due for a frame that was pushed.
Course ==
  /\ pc # "off" => result = "none"
  /\ pc = "images" => at = 1
  /\ pc \in Inside => at <= Len(Video)
  /\ pc \in {"due", "write"} => seqId > 0 /\ Read(task, seqId - 1) \in pushed

\* What may be saved: the frames read, each under the hash of its configuration.
Due == {Data(d.config, d.frame) : d \in pushed}

\* Whatever lies on the disk was once to be saved, or was torn.
Genuine ==
  /\ ckpt \in Due \cup {None, Torn}
  /\ tmp \in Due \cup {None, Torn}

\* The video in hand: without a checkpoint it is read from its first frame to its
\* last, its output keeps up with the writer, and when nobody interferes all the
\* reader has is pushed and given to the writer.
InHand ==
  /\ pc \in Inside /\ ~resumed => start = 0 /\ limit = Total
  /\ pc \in Inside /\ file # None /\ ~muxing => out[at] = file
  /\ pc = "join" /\ ~cancelled /\ ~writerError => seqId = limit
  /\ pc = "mux" /\ ~resumed => file = Total

\* The videos before it: complete, and the checkpoint is gone unless it could not
\* be removed.
Behind ==
  /\ pc # "off" /\ ~resumed => \A i \in 1..(at - 1) : out[i] = Total
  /\ (pc = "mux" \/ (pc = "video" /\ at > 1)) /\ ~undeleted => ckpt = None

TaskInv ==
  /\ TypeOK /\ Course /\ Genuine /\ InHand /\ Behind
  /\ FreshOkIsComplete /\ OkLeavesNoCheckpoint

-----------------------------------------------------------------------------
(* Its proof *)

\* The invariant holds when the program has never run.
LEMMA TaskInvInit == Init => TaskInv
<1> SUFFICES ASSUME Init PROVE TaskInv
  OBVIOUS
<1> USE TaskAssumption
<1>1. Len(Video) \in Nat /\ DOMAIN Video = 1..Len(Video)
  BY LenProperties
<1>2. TypeOK
  <2>1. out \in [DOMAIN Video -> 1..Total \cup {None}]
    BY DEF Init
  <2>2. /\ start \in Frame /\ limit \in start..Total /\ seqId \in start..limit
        /\ at \in 1..(Len(Video) + 1)
    BY <1>1 DEF Init, Frame
  <2>3. runs \in 0..MaxRuns
    BY DEF Init
  <2> QED
    BY <2>1, <2>2, <2>3 DEF Init, TypeOK
<1> QED
  BY <1>2 DEF Init, TaskInv, Course, Genuine, InHand, Behind, Inside,
              FreshOkIsComplete, OkLeavesNoCheckpoint

\* Every step of the program, and every crash, preserves the invariant.
LEMMA TaskInvStep == TaskInv /\ [Next]_vars => TaskInv'
<1> SUFFICES ASSUME TaskInv, [Next]_vars
             PROVE  TaskInv'
  OBVIOUS
<1> USE TaskAssumption, NoneAssumption
<1> Len(Video) \in Nat /\ DOMAIN Video = 1..Len(Video)
  BY LenProperties
<1> USE DEF TaskInv, TypeOK, Course, Genuine, InHand, Behind, Inside,
            FreshOkIsComplete, OkLeavesNoCheckpoint, disk, config, place, past
<1>0. UNCHANGED pushed => Due' = Due
  BY DEF Due
<1>1. ASSUME NEW from \in Frame, NEW to \in from..Total, Begin(from, to),
             resumed' = TRUE \/ (UNCHANGED resumed /\ from = 0 /\ to = Total)
      PROVE  TaskInv'
  <2>1. from \in from..to
    BY DEF Frame
  <2>2. (/\ start \in Frame /\ limit \in start..Total /\ seqId \in start..limit
         /\ file \in 1..seqId \cup {None})'
    BY <1>1, <2>1 DEF Begin
  <2>3. TypeOK'
    BY <1>1, <2>2 DEF Begin
  <2> QED
    BY <1>0, <1>1, <2>3 DEF Begin
<1>2. CASE TaskStep
  <2>1. CASE Start
    <3>1. runs' \in 0..MaxRuns
      BY <2>1 DEF Start
    <3>2. at' \in 1..(Len(Video) + 1)
      BY <2>1 DEF Start
    <3>3. TypeOK'
      BY <2>1, <3>1, <3>2 DEF Start
    <3> QED
      BY <1>0, <2>1, <3>3 DEF Start
  <2>2. CASE TaskFails
    BY <1>0, <2>2 DEF TaskFails, Return
  <2>3. CASE Images
    BY <1>0, <2>3 DEF Images
  <2>4. CASE TaskEnds
    BY <1>0, <2>4 DEF TaskEnds, Return
  <2> QED
    BY <1>2, <2>1, <2>2, <2>3, <2>4 DEF TaskStep
<1>3. CASE VideoStep
  <2>1. CASE BeginFresh
    <3>1. 0 \in Frame /\ Total \in 0..Total
      BY DEF Frame
    <3> QED
      BY <2>1, <3>1, <1>1 DEF BeginFresh
  <2>2. ASSUME 0 < ResumeFrame, ResumeFrame < Total
        PROVE  ResumeFrame \in Frame
    BY <2>2 DEF ResumeFrame, Loaded, Checkpoint, Frame
  <2>3. CASE BeginResumed
    <3>1. PICK to \in ResumeFrame..Total : Begin(ResumeFrame, to)
      BY <2>3 DEF BeginResumed
    <3> QED
      BY <2>2, <2>3, <3>1, <1>1 DEF BeginResumed
  <2>4. CASE BeginSeekFailed
    <3>1. PICK left \in 0..Total : Begin(0, left)
      BY <2>4 DEF BeginSeekFailed
    <3>2. 0 \in Frame
      BY DEF Frame
    <3> QED
      BY <2>4, <3>1, <3>2, <1>1 DEF BeginSeekFailed
  <2>5. CASE AlreadyComplete
    <3>1. TypeOK'
      <4>1. at' \in 1..(Len(Video) + 1)
        BY <2>5 DEF AlreadyComplete, NextVideo
      <4>2. ckpt' \in Checkpoint \cup {None, Torn} /\ undeleted' \in BOOLEAN
        BY <2>5 DEF AlreadyComplete, RemoveCheckpoint
      <4> QED
        BY <2>5, <4>1, <4>2 DEF AlreadyComplete, NextVideo
    <3> QED
      BY <1>0, <2>5, <3>1 DEF AlreadyComplete, NextVideo, RemoveCheckpoint
  <2>6. CASE PushFrame
    <3>1. Read(task, seqId) \in [config : Config, frame : Frame]
      BY <2>6 DEF PushFrame, Read, Frame
    <3>2. start \in Nat /\ limit \in Nat /\ seqId \in start..limit
      BY DEF Frame
    <3>3. /\ seqId < limit /\ seqId' = seqId + 1
          /\ UNCHANGED <<start, limit, file>>
      BY <2>6 DEF PushFrame
    <3>4. /\ start' \in Frame /\ limit' \in start'..Total
          /\ seqId' \in start'..limit' /\ file' \in 1..seqId' \cup {None}
      BY <3>2, <3>3
    <3>5. /\ pc' \in {"loop", "due"}
          /\ pushed' \subseteq [config : Config, frame : Frame]
      BY <2>6, <3>1 DEF PushFrame
    <3>6. TypeOK'
      BY <2>6, <3>4, <3>5 DEF PushFrame
    <3>7. seqId' > 0 /\ seqId' - 1 = seqId
      BY <3>2, <3>3
    <3>8. Due \subseteq Due'
      BY <2>6 DEF PushFrame, Due
    <3>9. (Course /\ Genuine)'
      BY <2>6, <3>5, <3>7, <3>8 DEF PushFrame
    <3> QED
      BY <2>6, <3>6, <3>9 DEF PushFrame
  <2>7. CASE WriteFrame
    <3>1. TypeOK'
      BY <2>7 DEF WriteFrame
    <3>2. (Course /\ Genuine /\ FreshOkIsComplete /\ OkLeavesNoCheckpoint)'
      BY <1>0, <2>7 DEF WriteFrame
    <3>3. InHand'
      BY <2>7 DEF WriteFrame
    <3>4. Behind'
      BY <2>7 DEF WriteFrame
    <3> QED
      BY <3>1, <3>2, <3>3, <3>4
  <2>8. CASE WriterFails
    BY <1>0, <2>8 DEF WriterFails
  <2>9. CASE EndOfStream
    BY <1>0, <2>9 DEF EndOfStream
  <2>10. CASE Cancelled
    BY <1>0, <2>10 DEF Cancelled, Joined, Return
  <2>11. CASE WriteFailed
    BY <1>0, <2>11 DEF WriteFailed, Joined, Return
  <2>12. CASE Cleanup
    <3>1. ~resumed => file = Total
      BY <2>12 DEF Cleanup, Joined
    <3>2. TypeOK'
      <4>1. at' \in 1..(Len(Video) + 1)
        BY <2>12 DEF Cleanup, Completed, Joined, NextVideo
      <4>2. /\ pc' \in {"mux", "video"}
            /\ ckpt' \in Checkpoint \cup {None, Torn} /\ undeleted' \in BOOLEAN
        BY <2>12 DEF Cleanup, Completed, Joined, NextVideo, RemoveCheckpoint
      <4> QED
        BY <2>12, <4>1, <4>2 DEF Cleanup, Completed
    <3>3. (Course /\ Genuine /\ InHand /\ FreshOkIsComplete /\ OkLeavesNoCheckpoint)'
      BY <1>0, <2>12, <3>1 DEF Cleanup, Completed, Joined, NextVideo, RemoveCheckpoint
    <3>4. Behind'
      BY <2>12, <3>1 DEF Cleanup, Completed, Joined, NextVideo, RemoveCheckpoint
    <3> QED
      BY <3>2, <3>3, <3>4
  <2>13. CASE Mux
    BY <1>0, <2>13 DEF Mux, NextVideo
  <2>14. CASE MuxLeftover
    <3>1. resumed
      BY <2>14 DEF MuxLeftover
    <3> QED
      BY <1>0, <2>14, <3>1 DEF MuxLeftover, NextVideo
  <2> QED
    BY <1>3, <2>1, <2>3, <2>4, <2>5, <2>6, <2>7, <2>8, <2>9, <2>10, <2>11,
       <2>12, <2>13, <2>14 DEF VideoStep
<1>4. CASE SaveStep
  <2>1. CASE SkipSave
    BY <1>0, <2>1 DEF SkipSave
  <2>2. CASE OpenTemporary
    BY <1>0, <2>2 DEF OpenTemporary
  <2>3. CASE WriteTemporary
    <3>1. Data(task, seqId - 1) \in Due
      BY <2>3 DEF WriteTemporary, Due, Read
    <3>2. Data(task, seqId - 1) \in Checkpoint
      BY <2>3 DEF WriteTemporary, Data, Read, Checkpoint
    <3> QED
      BY <1>0, <2>3, <3>1, <3>2 DEF WriteTemporary
  <2>4. CASE RemoveOld
    BY <1>0, <2>4 DEF RemoveOld
  <2>5. CASE Rename
    BY <1>0, <2>5 DEF Rename
  <2>6. CASE SaveThrows
    BY <1>0, <2>6 DEF SaveThrows
  <2> QED
    BY <1>4, <2>1, <2>2, <2>3, <2>4, <2>5, <2>6 DEF SaveStep
<1>5. CASE Cancel
  BY <1>0, <1>5 DEF Cancel
<1>6. CASE Crash
  BY <1>0, <1>6 DEF Crash, Return
<1>7. CASE UNCHANGED vars
  BY <1>0, <1>7 DEF vars, run
<1> QED
  BY <1>2, <1>3, <1>4, <1>5, <1>6, <1>7 DEF Next

\* The invariant holds in every state of every run.
THEOREM TaskInvariance == Spec => []TaskInv
  BY TaskInvInit, TaskInvStep, PTL DEF Spec

-----------------------------------------------------------------------------
(* What it gives *)

\* Every variable holds a value of its type.
THEOREM TaskTypeCorrect == Spec => []TypeOK
<1>1. TaskInv => TypeOK
  BY DEF TaskInv
<1> QED
  BY <1>1, TaskInvariance, PTL

\* Whatever was torn, lost or changed between two runs of the program, a
\* checkpoint that load accepts names a frame that was read under a
\* configuration of the same hash; of the same configuration it need not be.
THEOREM CheckpointsAreGenuine == Spec => []LoadedIsGenuine
<1>1. TaskInv => LoadedIsGenuine
  <2> SUFFICES ASSUME TaskInv, Loaded # None
               PROVE  \E c \in Config : /\ HashOf[c] = HashOf[task]
                                        /\ Read(c, Loaded.frame) \in pushed
    BY DEF LoadedIsGenuine
  <2>1. ckpt \in Due /\ ckpt.hash = HashOf[task] /\ Loaded = ckpt
    BY DEF Loaded, TaskInv, Genuine
  <2>2. PICK d \in pushed : ckpt = Data(d.config, d.frame)
    BY <2>1 DEF Due
  <2>3. d \in [config : Config, frame : Frame]
    BY <2>2 DEF TaskInv, TypeOK
  <2>4. d = Read(d.config, d.frame)
    BY <2>3 DEF Read
  <2>5. HashOf[d.config] = HashOf[task] /\ Loaded.frame = d.frame
    BY <2>1, <2>2 DEF Data
  <2> QED
    BY <2>3, <2>4, <2>5
<1> QED
  BY <1>1, TaskInvariance, PTL

\* A run of the program that found no checkpoint and reports success has given
\* every frame of every video to its writer, whatever the runs before it left on
\* the disk.
THEOREM FreshTaskIsComplete == Spec => []FreshOkIsComplete
<1>1. TaskInv => FreshOkIsComplete
  BY DEF TaskInv
<1> QED
  BY <1>1, TaskInvariance, PTL

\* A task that succeeded has removed its checkpoint, if the file system let it.
THEOREM SuccessCleansUp == Spec => []OkLeavesNoCheckpoint
<1>1. TaskInv => OkLeavesNoCheckpoint
  BY DEF TaskInv
<1> QED
  BY <1>1, TaskInvariance, PTL
=============================================================================
