----------------------------- MODULE TaskConfig -----------------------------
(***************************************************************************)
(* What a task and an application configuration come to: parsing, merging  *)
(* and validation, as operators on documents.  A document is a record of   *)
(* what it says; a field with a value of the wrong type is a field it does *)
(* not have.  Optional settings are a function on the names it gives.      *)
(* Thresholds and factors are in percent.  The comparison of names by      *)
(* their lower-case letters is kept only where the code also compares the  *)
(* name as it is written: a step has a type and is `exact' or not.         *)
(***************************************************************************)
EXTENDS Integers, SequencesExt

CONSTANTS Existing,          \* the paths that exist
          FilesIn,           \* for a directory, the sequence of the files below it
          KindOf,            \* for a file, "image", "video" or "other"
          WellFormedId,      \* the names the pattern of task ids matches
          HardwareThreads

ASSUME TaskConfigAssumption ==
  /\ HardwareThreads \in Nat
  /\ "" \notin DOMAIN FilesIn
  /\ \A d \in DOMAIN FilesIn : FilesIn[d] \in Seq(DOMAIN KindOf \ {""})

StepTypes == {"face_swapper", "face_enhancer", "expression_restorer", "frame_enhancer"}
SelectorModes == {"reference", "one", "many"}
SupportedVersion == "0.34.1"

\* What a document says, and the defaults for what it does not say.
Over(said, defaults) ==
  [f \in DOMAIN said \cup DOMAIN defaults |-> IF f \in DOMAIN said THEN said[f] ELSE defaults[f]]

\* The elements of s at the places I, in their order.
Kept(s, I) == FlattenSeq([i \in DOMAIN s |-> IF i \in I THEN <<s[i]>> ELSE <<>>])

-----------------------------------------------------------------------------
(* The settings of a task that the application has defaults for *)

\* What a setting is when the task says nothing.
Unset ==
  [video_encoder |-> "", video_quality |-> 0, prefix |-> "", suffix |-> "",
   image_format |-> "", conflict_policy |-> "error", audio_policy |-> "copy",
   thread_count |-> 0, max_queue_size |-> 0, execution_order |-> "sequential",
   score_threshold |-> 0, similarity_threshold |-> 0]

Words ==
  [conflict_policy |-> {"overwrite", "rename", "error"},
   audio_policy |-> {"copy", "skip"},
   execution_order |-> {"sequential", "batch"}]

\* A word that is none of the enumeration's is passed over.
Understood(settings) ==
  Restrict(settings, {f \in DOMAIN settings : f \in DOMAIN Words => settings[f] \in Words[f]})

\* A setting that has its unset value takes that of the application, also if the
\* task asked for just that value.
Merged(settings, defaults) ==
  [f \in DOMAIN settings |->
     IF settings[f] = Unset[f] /\ f \in DOMAIN defaults THEN defaults[f] ELSE settings[f]]

HardCoded ==
  [video_encoder |-> "libx264", video_quality |-> 80, image_format |-> "png",
   max_queue_size |-> 20, score_threshold |-> 50, similarity_threshold |-> 60]

Completed(settings) ==
  [f \in DOMAIN settings |->
     CASE f \in DOMAIN HardCoded /\ settings[f] = Unset[f] -> HardCoded[f]
       [] f = "prefix" /\ settings.prefix = "" /\ settings.suffix = "" -> "result_"
       [] OTHER -> settings[f]]

EffectiveThreads(n) ==
  IF n > 0 THEN n ELSE IF HardwareThreads = 0 THEN 2 ELSE Max({1, HardwareThreads \div 2})

-----------------------------------------------------------------------------
(* Reading the documents *)

Failure(code) == [code |-> code]
Success(config) == [code |-> 0, config |-> config]

\* A directory stands for the files of the wanted kinds below it; empty names
\* are dropped, and names of nothing are kept for the validation.
ExpandPaths(paths, kinds) ==
  FlattenSeq([i \in DOMAIN paths |->
    CASE paths[i] = "" -> <<>>
      [] paths[i] \in DOMAIN FilesIn ->
           LET files == FilesIn[paths[i]]
           IN Kept(files, {n \in DOMAIN files : KindOf[files[n]] \in kinds})
      [] OTHER -> <<paths[i]>>])

\* The parameters of a step of one type, as far as the program looks at them.
DefaultParams(type) ==
  [kind |-> type, model |-> "", mode |-> "many", reference |-> "", factor |-> 80]

ParsedStep(s) ==
  [type |-> s.type, exact |-> s.exact, enabled |-> s.enabled,
   params |-> Over(s.params, DefaultParams(s.type))]

StepIsWrong(s) ==
  \/ s.type \notin StepTypes
  \/ s.type # "frame_enhancer" /\ "mode" \in DOMAIN s.params /\ s.params.mode \notin SelectorModes

ReadFailure(doc) ==
  IF ~doc.readable THEN 203 ELSE IF ~doc.wellFormed THEN 201 ELSE 0

LoadTask(doc) ==
  IF ReadFailure(doc) # 0 THEN Failure(ReadFailure(doc))
  ELSE IF \E i \in DOMAIN doc.pipeline : StepIsWrong(doc.pipeline[i]) THEN Failure(202)
  ELSE Success(
    [version |-> doc.version, id |-> doc.id,
     sources |-> ExpandPaths(doc.sources, {"image"}),
     targets |-> ExpandPaths(doc.targets, {"image", "video"}),
     output |-> doc.output,
     settings |-> Over(Understood(doc.settings), Unset),
     pipeline |-> [i \in DOMAIN doc.pipeline |-> ParsedStep(doc.pipeline[i])]])

\* The task of a command line without a task document.  Every step is given the
\* parameters of a face swapper, whatever its type.
QuickTask(command) ==
  [version |-> "", id |-> "quick", sources |-> command.sources, targets |-> command.targets,
   output |-> IF command.output = "" THEN "./output/" ELSE command.output,
   settings |-> Unset,
   pipeline |->
     LET steps == IF command.processors = <<>>
                    THEN <<[type |-> "face_swapper", exact |-> TRUE]>>
                    ELSE command.processors
     IN [i \in DOMAIN steps |->
           [type |-> steps[i].type, exact |-> steps[i].exact, enabled |-> TRUE,
            params |-> DefaultParams("face_swapper")]]]

\* The models of an application document that does not name them, and those of an
\* application without a document.
ParsedModels ==
  [face_detector |-> "yoloface", face_recognizer |-> "arcface_w600k_r50",
   face_swapper |-> "inswapper_128", face_enhancer |-> "gfpgan_1.4",
   frame_enhancer |-> "real_esrgan_x4plus"]
BuiltInModels ==
  [ParsedModels EXCEPT !.face_swapper = "inswapper_128_fp16",
                       !.frame_enhancer = "real_esrgan_x2_fp16"]

\* badWord: the memory strategy, the log level, the log rotation or the download
\* strategy is none there is.
LoadApp(doc) ==
  IF ReadFailure(doc) # 0 THEN Failure(ReadFailure(doc))
  ELSE IF doc.badWord THEN Failure(202)
  ELSE Success([settings |-> Understood(doc.settings), models |-> Over(doc.models, ParsedModels)])

\* A document that cannot be used is only worth a warning.
AppConfig(doc) ==
  IF LoadApp(doc).code = 0
    THEN LoadApp(doc).config
    ELSE [settings |-> <<>>, models |-> BuiltInModels]

-----------------------------------------------------------------------------
(* Merging a task with the application's defaults *)

WithDefaultModel(step, models) ==
  IF step.exact /\ step.params.kind = step.type /\ step.params.model = ""
    THEN [step EXCEPT !.params.model =
            IF step.type = "expression_restorer" THEN "live_portrait" ELSE models[step.type]]
    ELSE step

MergeConfigs(task, app) ==
  [task EXCEPT
     !.settings = Completed(Merged(@, app.settings)),
     !.pipeline = [i \in DOMAIN @ |-> WithDefaultModel(@[i], app.models)]]

-----------------------------------------------------------------------------
(* Validation: the sequence of the error codes, in the order they are found *)

Unless(condition, code) == IF condition THEN <<>> ELSE <<code>>
PathErrors(path) == Unless(path = "" \/ path \in Existing, 206)
PathsErrors(paths) ==
  Unless(paths # <<>>, 205) \o FlattenSeq([i \in DOMAIN paths |-> PathErrors(paths[i])])

InfoErrors(task) ==
  Unless(task.version \in {"", SupportedVersion}, 204)
    \o (IF task.id = "" THEN <<205>> ELSE Unless(task.id \in WellFormedId, 202))

OutputErrors(task) ==
  Unless(task.output # "", 205)
    \o Unless(task.settings.video_quality \in 0..100, 202)
    \o Unless(task.settings.image_format \in {"png", "jpg", "bmp", "jpeg"}, 202)

AnalysisErrors(settings) ==
  Unless(settings.score_threshold \in 0..100, 202)
    \o Unless(settings.similarity_threshold \in 0..100, 202)

\* Parameters of another type than the step's are not looked at.
ParamErrors(step) ==
  LET p == step.params
      needsReference == step.type # "frame_enhancer" /\ p.mode = "reference"
  IN IF p.kind # step.type THEN <<>>
     ELSE (IF step.type = "face_swapper" THEN <<>> ELSE Unless(p.factor \in 0..100, 202))
            \o (CASE ~needsReference -> <<>>
                  [] needsReference /\ p.reference = "" -> <<205>>
                  [] OTHER -> PathErrors(p.reference))

PipelineErrors(steps) ==
  Unless(steps # <<>>, 205)
    \o FlattenSeq([i \in DOMAIN steps |->
         Unless(steps[i].type \in StepTypes, 202) \o ParamErrors(steps[i])])

Errors(task) ==
  InfoErrors(task)
    \o PathsErrors(task.sources) \o PathsErrors(task.targets) \o OutputErrors(task)
    \o AnalysisErrors(task.settings)
    \o PipelineErrors(task.pipeline)

Verdict(task) == IF Errors(task) = <<>> THEN 0 ELSE Head(Errors(task))
=============================================================================
