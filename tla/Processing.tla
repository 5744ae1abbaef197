----------------------------- MODULE Processing -----------------------------
(***************************************************************************)
(* One call of the program from its command line to the last frame:        *)
(* configuration, models, sources, targets, and for every job (all images, *)
(* then each video) a pipeline of processors with its workers.  Beside it  *)
(* another process may download models into the same directory.            *)
(***************************************************************************)
EXTENDS TaskConfig, FrameProcessors

CONSTANTS Worlds,            \* the circumstances the program may be called in
          Main, Rival,       \* this process and the other one
          Shows              \* the pictures in a file; <<>> if it cannot be read

ASSUME ProcessingAssumption ==
  /\ Main # Rival /\ Process = {Main, Rival}
  /\ Shows \in [Existing \cup {""} -> Seq(Picture)]

\* Documents and command lines name paths and steps one after the other.
IsSequence(s) == s \in Seq(ToSet(s))

ASSUME WorldAssumption ==
  \A w \in Worlds :
    /\ w.listed \subseteq Model
    /\ IsSequence(w.command.sources) /\ IsSequence(w.command.targets)
    /\ IsSequence(IF w.quick THEN w.command.processors ELSE w.command.pipeline)

VARIABLES world,             \* command line, documents, and what may go wrong
          main,              \* where the main thread is
          outcome,           \* the exit code, or Thrown
          app, task,         \* the configurations
          needs, todo,       \* models to be made sure of, and the files of the first
          absent,            \* files that could not be had
          unseen, sourceFaces, \* sources not looked at yet, and whether one has shown a face
          jobs,              \* the pictures of each job that is left
          wanted             \* models the other process is yet to look for

sourceVars == <<unseen, sourceFaces>>
mainVars == <<world, main, outcome, app, task, needs, todo, absent, sourceVars, jobs>>
vars == <<analysisVars, processorVars, fileVars, mainVars, wanted>>

Thrown == -1
NoTask == [pipeline |-> <<>>]

Init ==
  \E w \in Worlds :
    /\ world = w
    /\ main = "configure" /\ outcome = 0
    /\ app = NoTask /\ task = NoTask
    /\ needs = <<>> /\ todo = <<>> /\ absent = {}
    /\ unseen = <<>> /\ sourceFaces = FALSE /\ jobs = <<>>
    /\ wanted = w.rival
    /\ FilesInit(w.listed, w.present, w.diskFull)
    /\ ProcessorsInit(w.faulty)
    /\ store = <<>> /\ detector = FALSE
    /\ at = [x \in Worker |-> "idle"] /\ picture = [x \in Worker |-> Nothing]
    /\ found = [x \in Worker |-> <<>>] /\ missed = {}

Ends(code) == main' = "done" /\ outcome' = code
Throws == Ends(Thrown)

-----------------------------------------------------------------------------
(* run_validate, run_pipeline, run_quick_mode, and the checks of run *)

Configure ==
  LET configured == AppConfig(world.app)
      read == IF world.quick THEN Success(QuickTask(world.command)) ELSE LoadTask(world.command)
      merged == MergeConfigs(read.config, configured)
  IN /\ main = "configure"
     /\ IF read.code # 0
          THEN Ends(read.code) /\ UNCHANGED <<app, task, needs, todo>>
          ELSE /\ app' = configured /\ task' = merged
               /\ IF Verdict(merged) # 0 \/ world.validateOnly
                    THEN Ends(Verdict(merged)) /\ UNCHANGED <<needs, todo>>
                    ELSE /\ main' = "ensure"
                         /\ todo' = <<configured.models.face_detector,
                                      configured.models.face_recognizer>>
                         /\ needs' = <<[type |-> "analyser", model |-> "", files |-> todo']>>
                         /\ UNCHANGED outcome
     /\ UNCHANGED <<world, absent, jobs, sourceVars, analysisVars, processorVars, fileVars>>

-----------------------------------------------------------------------------
(* The steps of a task that get a processor, and the models they need *)

RunnerModels ==
  [face_swapper |-> "inswapper_128_fp16", face_enhancer |-> "gfpgan_1.4",
   expression_restorer |-> "live_portrait", frame_enhancer |-> "real_esrgan_x4_plus"]

LivePortrait ==
  <<"live_portrait_feature_extractor", "live_portrait_motion_extractor",
    "live_portrait_generator">>

\* Names are compared as they are written; a step that differs in its case only has
\* passed the validation and is left out with a warning.
Steps ==
  LET steps == task.pipeline
  IN Kept(steps, {i \in DOMAIN steps : steps[i].enabled /\ steps[i].exact})
FirstStep(type) == Steps[CHOOSE i \in DOMAIN Steps : /\ Steps[i].type = type
                                                     /\ \A j \in 1..(i - 1) : Steps[j].type # type]

\* Steps of one type share the model of the first.
Need(type) ==
  LET p == FirstStep(type).params
      model == IF p.kind = type /\ p.model # "" THEN p.model ELSE RunnerModels[type]
  IN [type |-> type, model |-> model,
      files |-> IF type = "expression_restorer" THEN LivePortrait ELSE <<model>>]

Needs ==
  Kept([i \in DOMAIN Steps |-> Need(Steps[i].type)],
       {i \in DOMAIN Steps : \A j \in 1..(i - 1) : Steps[j].type # Steps[i].type})

Adapters ==
  [i \in DOMAIN Steps |->
     LET need == Need(Steps[i].type)
     IN [type |-> need.type, model |-> need.model, files |-> ToSet(need.files)]]

-----------------------------------------------------------------------------
(* ensure_model *)

Look(place, files, without) ==
  /\ main' = place /\ todo' = files /\ absent' = without
  /\ UNCHANGED <<world, outcome, app, task, needs, jobs, sourceVars, analysisVars, processorVars>>

\* A model without an entry is not to be had, one whose file is there is taken
\* as it is, another one is downloaded.
EnsureModel ==
  /\ main = "ensure" /\ todo # <<>>
  /\ CASE Head(todo) \notin listed -> Look("ensure", Tail(todo), absent \cup {Head(todo)})
       [] Head(todo) \in listed /\ Present(Head(todo)) -> Look("ensure", Tail(todo), absent)
       [] OTHER -> Look("download", todo, absent)
  /\ UNCHANGED fileVars

Fetch ==
  /\ main = "download"
  /\ OpenTemporary(Main, Head(todo)) \/ WriteChunk(Main)
  /\ Look("download", todo, absent)

\* download_model looks once more before it begins.
FoundAfterAll ==
  /\ main = "download" /\ download[Main] = NoDownload
  /\ Present(Head(todo))
  /\ Look("ensure", Tail(todo), absent)
  /\ UNCHANGED fileVars

Fetched ==
  /\ main = "download"
  /\ RenameModel(Main)
  /\ Look("ensure", Tail(todo), absent)

\* Nothing on the way up to main catches it.
FetchThrows ==
  /\ main = "download"
  /\ DownloadFails(Main) \/ RenameFails(Main)
  /\ Throws
  /\ UNCHANGED <<world, app, task, needs, todo, absent, jobs, sourceVars, analysisVars,
                 processorVars>>

\* The registry of face models gives none for an empty path, and else the one that
\* is loaded or to be loaded from it.
Obtained(model, there) == model \in there

\* GetFaceAnalyser loads what there is; without a file there is no detector or
\* no recognizer, and no complaint.
MakeAnalyser ==
  /\ main = "ensure" /\ todo = <<>> /\ needs # <<>> /\ Head(needs).type = "analyser"
  /\ LET there == ToSet(Head(needs).files) \ absent IN
       \/ /\ \A m \in there : Loadable(m)
          /\ detector' = Obtained(app.models.face_detector, there)
          /\ embedded' = Obtained(app.models.face_recognizer, there)
          /\ main' = "sources" /\ needs' = <<>>
          /\ unseen' = task.sources
          /\ UNCHANGED outcome
       \/ /\ there # {} /\ (faulty \/ \E m \in there : ~Loadable(m))
          /\ Throws
          /\ UNCHANGED <<detector, embedded, needs, unseen>>
  /\ UNCHANGED <<world, app, task, todo, absent, jobs, sourceFaces, store, frameVars, procs,
                 loaded, loader, job, next, left, alive, faulty, fileVars>>

-----------------------------------------------------------------------------
(* ExecuteTask: sources, targets and jobs *)

\* The sources are looked at one after the other, those that can be read; the store
\* keeps their faces.
LoadSource ==
  /\ main = "sources" /\ unseen # <<>>
  /\ unseen' = Tail(unseen)
  /\ LET shown == Shows[Head(unseen)]
     IN IF shown = <<>>
          THEN UNCHANGED <<store, sourceFaces>>
          ELSE /\ store' = StoreAlone(store, Head(shown))
               /\ sourceFaces' = (sourceFaces \/ FacesAlone(store, Head(shown)) # <<>>)
  /\ UNCHANGED <<world, main, outcome, app, task, needs, todo, absent, jobs, detector, frameVars,
                 processorVars, fileVars>>

SourcesLoaded ==
  /\ main = "sources" /\ unseen = <<>>
  /\ IF sourceFaces THEN main' = "targets" /\ UNCHANGED outcome ELSE Ends(403)
  /\ UNCHANGED <<world, app, task, needs, todo, absent, jobs, sourceVars, analysisVars,
                 processorVars, fileVars>>

\* A target may have gone since it was validated.
CheckTargets ==
  LET video == {i \in DOMAIN task.targets : KindOf[task.targets[i]] = "video"}
      images == Kept(task.targets, DOMAIN task.targets \ video)
      videos == Kept(task.targets, video)
      batch == FlattenSeq([i \in DOMAIN images |-> Shows[images[i]]])
  IN /\ main = "targets"
     /\ \/ /\ main' = "jobs"
           /\ jobs' = (IF images = <<>> THEN <<>> ELSE <<batch>>)
                        \o [i \in DOMAIN videos |-> Shows[videos[i]]]
           /\ UNCHANGED outcome
        \/ world.targetsMayVanish /\ Ends(402) /\ UNCHANGED jobs
     /\ UNCHANGED <<world, app, task, needs, todo, absent, sourceVars, analysisVars, processorVars,
                    fileVars>>

BeginJob ==
  /\ main = "jobs" /\ jobs # <<>>
  /\ main' = "ensure"
  /\ needs' = Needs
  /\ todo' = IF Needs = <<>> THEN <<>> ELSE Head(Needs).files
  /\ UNCHANGED <<world, outcome, app, task, absent, jobs, sourceVars, analysisVars, processorVars,
                 fileVars>>

\* Seeded bug: a model that is missing is worth a warning.
ServiceReadyAnyway ==
  /\ main = "ensure" /\ todo = <<>> /\ needs # <<>> /\ Head(needs).type # "analyser"
  /\ needs' = Tail(needs)
  /\ todo' = IF Len(needs) = 1 THEN <<>> ELSE needs[2].files
  /\ UNCHANGED <<world, main, outcome, app, task, absent, jobs, sourceVars, analysisVars,
                 processorVars, fileVars>>

\* AddProcessorsToPipeline, one kind of step: without its model the task fails, and
\* but for the frame enhancer it is loaded at once, to be loaded again by a worker.
ServiceReady ==
  /\ main = "ensure" /\ todo = <<>> /\ needs # <<>> /\ Head(needs).type # "analyser"
  /\ LET need == Head(needs)
         files == ToSet(need.files)
         loads == need.type # "frame_enhancer"
     IN IF files \cap absent # {}
          THEN Ends(302) /\ UNCHANGED <<needs, todo>>
          ELSE \/ /\ loads => \A m \in files : Loadable(m)
                  /\ needs' = Tail(needs)
                  /\ todo' = IF Len(needs) = 1 THEN <<>> ELSE needs[2].files
                  /\ UNCHANGED <<main, outcome>>
               \/ /\ loads /\ (faulty \/ \E m \in files : ~Loadable(m))
                  /\ Throws
                  /\ UNCHANGED <<needs, todo>>
  /\ UNCHANGED <<world, app, task, absent, jobs, sourceVars, analysisVars, processorVars, fileVars>>

StartPipeline ==
  /\ main = "ensure" /\ needs = <<>>
  /\ NewPipeline(Adapters, Head(jobs))
  /\ jobs' = Tail(jobs)
  /\ main' = "running"
  /\ UNCHANGED <<world, outcome, app, task, needs, todo, absent, sourceVars, analysisVars, fileVars>>

JobEnds ==
  /\ main = "running" /\ AllLeft
  /\ main' = "jobs"
  /\ UNCHANGED <<world, outcome, app, task, needs, todo, absent, jobs, sourceVars, analysisVars,
                 processorVars, fileVars>>

TaskEnds ==
  /\ main = "jobs" /\ jobs = <<>>
  /\ Ends(0)
  /\ UNCHANGED <<world, app, task, needs, todo, absent, jobs, sourceVars, analysisVars,
                 processorVars, fileVars>>

MainStep ==
  /\ alive
  /\ \/ Configure \/ EnsureModel \/ Fetch \/ FoundAfterAll \/ Fetched \/ FetchThrows \/ MakeAnalyser
     \/ LoadSource \/ SourcesLoaded \/ CheckTargets \/ BeginJob \/ ServiceReady \/ StartPipeline
     \/ JobEnds \/ TaskEnds
  /\ UNCHANGED wanted

\* The workers of the pipeline that is running.
Workers == \E w \in Worker : main = "running" /\ WorkerStep(w) /\ UNCHANGED <<mainVars, wanted>>

\* The other process looks for a model, and may be killed while it downloads.
Other ==
  /\ \/ \E m \in wanted : ~Present(m) /\ OpenTemporary(Rival, m) /\ wanted' = wanted \ {m}
     \/ /\ \/ WriteChunk(Rival) \/ RenameModel(Rival) \/ RenameFails(Rival)
           \/ DownloadFails(Rival) \/ DownloaderDies(Rival)
        /\ UNCHANGED wanted
  /\ UNCHANGED <<mainVars, analysisVars, processorVars>>

Next == MainStep \/ Workers \/ Other

Fairness ==
  /\ WF_vars(MainStep)
  /\ \A w \in Worker : WF_vars(main = "running" /\ WorkerStep(w) /\ UNCHANGED <<mainVars, wanted>>)

Spec == Init /\ [][Next]_vars /\ Fairness

-----------------------------------------------------------------------------
(* Properties *)

\* Double-checked locking (pipeline_adapters.ixx, ensure_loaded): while a worker
\* loads the model of an adapter no other is inside that adapter's model, nor
\* loading it as well, although the flag is read without the mutex.  (Two steps of
\* one type share the model under two mutexes; of them this cannot be said.)
NoUseDuringLoad ==
  \A v, w \in Worker :
    at[v] = "load" /\ at[w] \in {"load", "use"} /\ v # w => step[v] # step[w]

\* What the steps of these types are to do to a frame with these faces.
Treatment(types, faces) ==
  FlattenSeq([k \in DOMAIN procs |->
    IF procs[k].type \in types /\ (procs[k].type \in FaceTypes => faces # <<>>)
      THEN <<[type |-> procs[k].type,
              faces |-> IF procs[k].type \in FaceTypes THEN faces ELSE <<>>]>>
      ELSE <<>>])

WentThrough(done) == [n \in DOMAIN done |-> [type |-> done[n].type, faces |-> done[n].faces]]

\* get_many_faces, FaceAnalysisProcessor and the adapters: every step of the task but
\* the restoring of expressions, which the code never does (Changes), has gone
\* through just the faces of the frame's own picture, in the order of the steps, and
\* a frame is called faceless only if there are none -- unless a step failed and said
\* so, or the frame's entry went from the store between the two calls that ask for
\* it and read it.  A face a step has gone through it has changed, but for one that
\* the model of a face enhancer returned nothing for: of that nothing is said.
EveryFaceTreated ==
  \A r \in left :
    LET faces == Selected(Detected(job[r.frame]))
    IN \/ r.missed \/ "failed" \in r.noted
       \/ /\ WentThrough(r.applied) = Treatment(StepTypes \ {"expression_restorer"}, faces)
          /\ \A n \in DOMAIN r.applied :
               r.applied[n].without # {} => r.applied[n].type = "face_enhancer"
          /\ "E403" \in r.noted <=> Needed # {} /\ faces = <<>>

\* All steps of a type have the same parameters, as far as they concern its model.
Agreed(type) ==
  \A i, j \in DOMAIN Steps :
    Steps[i].type = type /\ Steps[j].type = type =>
      Steps[i].params.kind = Steps[j].params.kind /\ Steps[i].params.model = Steps[j].params.model

\* run, validate_task_config, MergeConfigs and AddProcessorsToPipeline: once frames
\* are processed the settings are in their ranges and, where the task says anything
\* but the unset value, what the task says; there is a worker and a place in the
\* queues; the paths exist, but for empty ones on a command line; and every step that
\* is on and known has its adapter, with all files of its model in place.  That model
\* is the one the step names, or the default if there is one, when all steps of its
\* type name the same.  Of steps that do not nothing is said: the design allows each
\* parameters of its own, but the code gives them all the model of the first.
StartedMeansReady ==
  main = "running" =>
    /\ task.settings.score_threshold \in 1..100 /\ task.settings.video_quality \in 1..100
    /\ EffectiveThreads(task.settings.thread_count) > 0 /\ task.settings.max_queue_size # 0
    /\ ~world.quick =>
         LET said == Understood(world.command.settings)
         IN \A f \in DOMAIN said : said[f] # Unset[f] => task.settings[f] = said[f]
    /\ ToSet(task.sources) \cup ToSet(task.targets)
         \subseteq Existing \cup {none \in {""} : world.quick}
    /\ [k \in DOMAIN procs |-> procs[k].type] = [k \in DOMAIN Steps |-> Steps[k].type]
    /\ \A k \in DOMAIN procs : procs[k].files \subseteq {m \in listed : Present(m)}
    /\ \A k \in DOMAIN procs :
         LET p == Steps[k].params
         IN p.kind = procs[k].type /\ Agreed(procs[k].type) =>
              \/ procs[k].model = p.model
              \/ p.model = "" /\ app.models[p.kind] = ""

\* The workers, the loading of models and the face store: once a job runs, its last
\* frame leaves, or an exception has ended the process.
EveryFrameLeaves == main = "running" ~> (AllLeft \/ ~alive)
=============================================================================
