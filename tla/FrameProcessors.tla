-------------------------- MODULE FrameProcessors --------------------------
(***************************************************************************)
(* The processors of a pipeline and the workers that run them on frames:   *)
(* FaceAnalysisProcessor, which attaches the faces to the frame, and the   *)
(* four adapters, each of which loads its model on first use behind a flag *)
(* and a mutex.  A frame is here the number it has in its job; queues and  *)
(* order are the subject of Pipeline.                                      *)
(***************************************************************************)
EXTENDS FaceAnalysis, ModelFiles

ASSUME WorkerAssumption == Nothing \notin Worker

EnhancerNames ==
  {"real_esrgan_x2", "real_esrgan_x2_fp16", "real_esrgan_x4", "real_esrgan_x4_fp16",
   "real_esrgan_x8", "real_esrgan_x8_fp16", "real_hatgan_x4"}

VARIABLES procs,             \* the adapters in order: type, model and the files it is in
          loaded, loader,    \* m_loaded of each, and the worker in its mutex or Nothing
          job, next,         \* the pictures to process, and the first one nobody has taken
          frame, step,       \* of each worker: its frame and the adapter it is at,
          given,             \* what the analysis has attached to the frame,
          applied, noted,    \* what was done to it, and the codes logged about it
          left,              \* the frames done, each with its account
          alive,             \* no exception has left a worker thread
          embedded,          \* the recognizer has made an embedding of the source faces
          faulty             \* device or driver may refuse, or answer nothing, at any moment

processorVars ==
  <<procs, loaded, loader, job, next, frame, step, given, applied, noted, left, alive,
    embedded, faulty>>
frameVars == <<at, picture, found, missed, frame, step, given, applied, noted>>

ProcessorsInit(broken) ==
  /\ procs = <<>> /\ loaded = <<>> /\ loader = <<>>
  /\ job = <<>> /\ next = 1 /\ left = {}
  /\ frame = [w \in Worker |-> 0] /\ step = [w \in Worker |-> 0]
  /\ given = [w \in Worker |-> {}] /\ applied = [w \in Worker |-> <<>>]
  /\ noted = [w \in Worker |-> {}]
  /\ alive = TRUE
  /\ embedded = FALSE /\ faulty = broken

FaceTypes == {"face_swapper", "face_enhancer", "expression_restorer"}
Types == {procs[k].type : k \in DOMAIN procs}
Needed == Types \cap FaceTypes

\* A new pipeline for a job: its own adapters, none of them loaded.
NewPipeline(adapters, pictures) ==
  /\ procs' = adapters
  /\ loaded' = [k \in DOMAIN adapters |-> FALSE]
  /\ loader' = [k \in DOMAIN adapters |-> Nothing]
  /\ job' = pictures /\ next' = 1 /\ left' = {}
  /\ UNCHANGED <<frame, step, given, applied, noted, alive, embedded,
                 faulty>>

AllLeft == DOMAIN job \subseteq {r.frame : r \in left}

-----------------------------------------------------------------------------
(* Frames in and out *)

\* The first step of a frame is the analysis if any step works on faces.
TakeFrame(w) ==
  /\ at[w] = "idle" /\ next \in DOMAIN job
  /\ next' = next + 1
  /\ frame' = [frame EXCEPT ![w] = next]
  /\ picture' = [picture EXCEPT ![w] = job[next]]
  /\ step' = [step EXCEPT ![w] = 1]
  /\ Go(w, IF Needed # {} THEN "ask" ELSE "test")
  /\ UNCHANGED <<store, detector, found, missed, procs, loaded, loader, job, given, applied,
                 noted, left, alive, embedded, faulty>>

\* Seeded bug: the first kind of input found to be needed is the only one prepared.
PrepareFirst(w) ==
  /\ at[w] = "prepare"
  /\ given' = [given EXCEPT ![w] = IF found[w] = <<>> THEN {}
                 ELSE IF "face_swapper" \in Needed THEN {"face_swapper"} ELSE Needed]
  /\ noted' = [noted EXCEPT ![w] = IF found[w] = <<>> THEN {"E403"} ELSE {}]
  /\ Go(w, "test")
  /\ UNCHANGED <<store, detector, picture, found, missed, procs, loaded, loader, job, next,
                 frame, step, applied, left, alive, embedded, faulty>>

\* FaceAnalysisProcessor: a frame without faces is passed on with a warning; to
\* another the faces are attached once for each kind of step that asks for them.
Prepare(w) ==
  /\ at[w] = "prepare"
  /\ given' = [given EXCEPT ![w] = IF found[w] = <<>> THEN {} ELSE Needed]
  /\ noted' = [noted EXCEPT ![w] = IF found[w] = <<>> THEN {"E403"} ELSE {}]
  /\ Go(w, "test")
  /\ UNCHANGED <<store, detector, picture, found, missed, procs, loaded, loader, job, next,
                 frame, step, applied, left, alive, embedded, faulty>>

\* The frame goes to the output, and the worker is as before it.
LeaveFrame(w) ==
  /\ at[w] = "test" /\ step[w] \notin DOMAIN procs
  /\ left' = left \cup
       {[frame |-> frame[w], applied |-> applied[w], noted |-> noted[w], missed |-> w \in missed]}
  /\ Go(w, "idle")
  /\ found' = [found EXCEPT ![w] = <<>>] /\ missed' = missed \ {w}
  /\ given' = [given EXCEPT ![w] = {}]
  /\ applied' = [applied EXCEPT ![w] = <<>>] /\ noted' = [noted EXCEPT ![w] = {}]
  /\ UNCHANGED <<store, detector, picture, procs, loaded, loader, job, next, frame, step, alive,
                 embedded, faulty>>

-----------------------------------------------------------------------------
(* ensure_loaded *)

Here(w) == procs[step[w]]

Moves(w, place) ==
  /\ Go(w, place)
  /\ UNCHANGED <<store, detector, picture, found, missed, procs, job, next, frame, step, given,
                 applied, noted, left, embedded, faulty>>

\* The flag is a plain bool read without the mutex: FALSE may be an old value.
TestLoaded(w) ==
  /\ at[w] = "test" /\ step[w] \in DOMAIN procs
  /\ \/ loaded[step[w]] /\ Moves(w, "use")
     \/ Moves(w, "lock")
  /\ UNCHANGED <<loaded, loader, alive>>

\* Seeded bug: the flag is set before the model is loaded.
LockThenFlag(w) ==
  /\ at[w] = "lock" /\ loader[step[w]] = Nothing
  /\ IF loaded[step[w]]
       THEN Moves(w, "use") /\ UNCHANGED <<loaded, loader>>
       ELSE /\ Moves(w, "load")
            /\ loader' = [loader EXCEPT ![step[w]] = w]
            /\ loaded' = [loaded EXCEPT ![step[w]] = TRUE]
  /\ UNCHANGED alive

\* Seeded bug: a worker that finds the model loaded keeps the mutex.
LockAndKeep(w) ==
  /\ at[w] = "lock" /\ loader[step[w]] = Nothing
  /\ loader' = [loader EXCEPT ![step[w]] = w]
  /\ Moves(w, IF loaded[step[w]] THEN "use" ELSE "load")
  /\ UNCHANGED <<loaded, alive>>

\* Under the mutex the flag is read again; a worker that finds it set lets go.
LockAndTest(w) ==
  /\ at[w] = "lock" /\ loader[step[w]] = Nothing
  /\ IF loaded[step[w]]
       THEN Moves(w, "use") /\ UNCHANGED loader
       ELSE Moves(w, "load") /\ loader' = [loader EXCEPT ![step[w]] = w]
  /\ UNCHANGED <<loaded, alive>>

\* A model loads from files that are whole.  The factory of frame enhancers also
\* knows its models by name.
MayLoad(p) ==
  /\ \A m \in p.files : Loadable(m)
  /\ p.type = "frame_enhancer" => p.model \in EnhancerNames

LoadModel(w) ==
  /\ at[w] = "load" /\ MayLoad(Here(w))
  /\ loaded' = [loaded EXCEPT ![step[w]] = TRUE]
  /\ loader' = [loader EXCEPT ![step[w]] = Nothing]
  /\ Moves(w, "use")
  /\ UNCHANGED alive

\* No handler encloses the load: the exception leaves the thread, and the process
\* is terminated.
LoadThrows(w) ==
  /\ at[w] = "load" /\ (faulty \/ ~MayLoad(Here(w)))
  /\ alive' = FALSE
  /\ Moves(w, "load")
  /\ UNCHANGED <<loaded, loader>>

-----------------------------------------------------------------------------
(* process of the adapters *)

NextStep(w) ==
  /\ Go(w, "test")
  /\ step' = [step EXCEPT ![w] = @ + 1]
  /\ UNCHANGED <<store, detector, picture, found, missed, procs, loaded, loader, job, next, frame,
                 given, left, embedded, faulty>>

\* Nothing attaches the landmarks of the target the expression restorer waits for:
\* it changes no frame.
Changes(type, attached) ==
  type = "frame_enhancer" \/ (type \in attached /\ type # "expression_restorer")

\* Swapper and face enhancer go through the faces attached for them, if any, the
\* frame enhancer works on the frame.  Without a word the face enhancer leaves a face
\* as it was if its model has returned nothing for it.
ApplyStep(w) ==
  /\ at[w] = "use"
  /\ LET type == Here(w).type
         faces == IF type = "frame_enhancer" THEN <<>> ELSE found[w]
     IN IF Changes(type, given[w])
          THEN /\ type = "face_swapper" => embedded
               /\ \E without \in SUBSET DOMAIN faces :
                    /\ without = {} \/ (faulty /\ type = "face_enhancer")
                    /\ applied' = [applied EXCEPT ![w] = Append(@,
                                     [type |-> type, faces |-> faces, without |-> without])]
          ELSE UNCHANGED applied
  /\ NextStep(w)
  /\ UNCHANGED <<noted, alive>>

\* An exception inside the face adapters is logged, and the frame stays as it was.
\* A swap without an embedding always ends so.
StepFails(w) ==
  /\ at[w] = "use"
  /\ Here(w).type \in given[w] \ {"expression_restorer"}
  /\ faulty \/ (Here(w).type = "face_swapper" /\ ~embedded)
  /\ noted' = [noted EXCEPT ![w] = @ \cup {"failed"}]
  /\ NextStep(w)
  /\ UNCHANGED <<applied, alive>>

\* One inside the frame enhancer or the detector leaves the thread.
StepThrows(w) ==
  /\ faulty
  /\ \/ at[w] = "use" /\ Here(w).type = "frame_enhancer"
     \/ at[w] = "detect" /\ detector
  /\ alive' = FALSE
  /\ Moves(w, at[w])
  /\ UNCHANGED <<loaded, loader>>

WorkerStep(w) ==
  /\ alive
  /\ \/ Analyse(w) /\ UNCHANGED processorVars
     \/ TakeFrame(w) \/ Prepare(w) \/ LeaveFrame(w)
     \/ TestLoaded(w) \/ LockAndTest(w) \/ LoadModel(w) \/ LoadThrows(w)
     \/ ApplyStep(w) \/ StepFails(w) \/ StepThrows(w)
  /\ UNCHANGED fileVars
=============================================================================
