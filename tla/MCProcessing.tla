---------------------------- MODULE MCProcessing ----------------------------
(* Circumstances in which TLC calls the program. *)
EXTENDS Processing

CONSTANTS a, b, nobody, alice, bob, carol

MCPictures == {a, b, nobody}
MCFacesOf == (a :> <<alice, bob>>) @@ (b :> <<carol>>) @@ (nobody :> <<>>)

MCShows ==
  ("me.png" :> <<a>>) @@ ("torn.png" :> <<>>) @@ ("two.png" :> <<b>>) @@ ("wall.png" :> <<nobody>>)
    @@ ("clip.mp4" :> <<a, b, a, b>>) @@ ("dir" :> <<>>) @@ ("" :> <<>>)
MCExisting == DOMAIN MCShows \ {""}
MCFilesIn == "dir" :> <<"two.png", "notes.txt", "wall.png">>
MCKindOf ==
  [p \in MCExisting \cup {"", "notes.txt", "away.png"} |->
     CASE p = "clip.mp4" -> "video" [] p \in {"", "notes.txt"} -> "other" [] OTHER -> "image"]

MCModels ==
  {"yoloface", "arcface_w600k_r50", "inswapper_128", "inswapper_128_fp16", "gfpgan_1.4",
   "codeformer", "real_esrgan_x2_fp16"} \cup ToSet(LivePortrait)

-----------------------------------------------------------------------------
(* Documents *)

NoSettings == <<>>
Doc == [readable |-> TRUE, wellFormed |-> TRUE]
PlainApp == Doc @@ [badWord |-> FALSE, settings |-> NoSettings, models |-> <<>>]
App == [PlainApp EXCEPT !.settings = [conflict_policy |-> "rename", thread_count |-> 3,
                                      video_quality |-> 60],
                        !.models = [face_enhancer |-> "codeformer",
                                    frame_enhancer |-> "real_esrgan_x2_fp16"]]
NoApp == [PlainApp EXCEPT !.readable = FALSE]

Step(type) == [type |-> type, exact |-> TRUE, enabled |-> TRUE, params |-> <<>>]
Off(type) == [Step(type) EXCEPT !.enabled = FALSE]
Shouted(type) == [Step(type) EXCEPT !.exact = FALSE]
With(type, params) == [Step(type) EXCEPT !.params = params]
Swap == Step("face_swapper")
Enhance == Step("face_enhancer")
Restore == Step("expression_restorer")
Enlarge == Step("frame_enhancer")

Task(steps, targets) ==
  Doc @@ [version |-> "0.34.1", id |-> "task_1", sources |-> <<"torn.png", "me.png">>,
          targets |-> targets, output |-> "out", settings |-> NoSettings, pipeline |-> steps]
Still == Task(<<Swap>>, <<"two.png">>)

Usual ==
  [app |-> App, command |-> Still, quick |-> FALSE, validateOnly |-> FALSE,
   listed |-> MCModels, present |-> MCModels, diskFull |-> FALSE, faulty |-> FALSE,
   targetsMayVanish |-> FALSE, rival |-> {}]
Given(command) == [Usual EXCEPT !.command = command]

\* Every document below differs from a good one in one thing or two.
Documents ==
  {Still, [Still EXCEPT !.readable = FALSE], [Still EXCEPT !.wellFormed = FALSE],
   [Still EXCEPT !.version = "0.33.0"], [Still EXCEPT !.version = ""],
   [Still EXCEPT !.id = ""], [Still EXCEPT !.id = "task 1"],
   [Still EXCEPT !.sources = <<>>], [Still EXCEPT !.sources = <<"wall.png">>],
   [Still EXCEPT !.targets = <<"away.png", "">>], [Still EXCEPT !.output = ""],
   [Still EXCEPT !.targets = <<"dir">>]}
  \cup {Task(<<s>>, <<"two.png">>) :
          s \in {Step("face_painter"), Shouted("face_swapper"), Off("face_swapper"),
                 With("face_swapper", [mode |-> "some"]),
                 With("face_swapper", [mode |-> "reference"]),
                 With("face_swapper", [mode |-> "reference", reference |-> "away.png"]),
                 With("face_swapper", [mode |-> "one", model |-> "inswapper_128_fp16"]),
                 With("face_enhancer", [factor |-> 101]),
                 With("face_swapper", [model |-> "simswap"])}}
  \cup {[Still EXCEPT !.settings = s] :
          s \in {[video_quality |-> 101], [video_quality |-> 40, image_format |-> "jpg"],
                 [image_format |-> "gif"], [score_threshold |-> 101],
                 [similarity_threshold |-> -1], [conflict_policy |-> "overwrite"],
                 [conflict_policy |-> "ask", thread_count |-> 1],
                 [prefix |-> "p", audio_policy |-> "skip", max_queue_size |-> 2]}}

Quick(steps) ==
  [sources |-> <<"me.png">>, targets |-> <<"two.png">>, output |-> "", processors |-> steps]

NoPath == [Quick(<<>>) EXCEPT !.sources = <<"", "me.png">>, !.targets = <<"two.png", "">>]
NoDefault == [App EXCEPT !.models = @ @@ [face_swapper |-> ""]]

Configurations ==
  {[Given(d) EXCEPT !.app = x] : d \in Documents, x \in {App, NoApp}}
  \cup {[Given(Still) EXCEPT !.app = x] :
          x \in {PlainApp, [App EXCEPT !.badWord = TRUE], [App EXCEPT !.wellFormed = FALSE]}}
  \cup {[Usual EXCEPT !.quick = TRUE, !.command = Quick(s)] :
          s \in {<<>>, <<[type |-> "face_enhancer", exact |-> TRUE]>>,
                 <<[type |-> "frame_enhancer", exact |-> TRUE]>>,
                 <<[type |-> "face_swapper", exact |-> FALSE]>>}}
  \cup {[Usual EXCEPT !.quick = TRUE, !.command = NoPath],
         [Usual EXCEPT !.app = NoDefault]}
  \cup {[Given(d) EXCEPT !.validateOnly = TRUE] : d \in {Still, [Still EXCEPT !.id = ""]}}

-----------------------------------------------------------------------------
(* Frames, models and what may go wrong *)

TwoEnhancers ==
  Given(Task(<<Enhance, With("face_enhancer", [model |-> "gfpgan_1.4"])>>, <<"two.png">>))

Runs ==
  {Given(Task(<<Swap, Enhance, Restore>>, <<"clip.mp4">>)),
   Given(Task(<<Restore, Enlarge>>, <<"wall.png", "two.png">>)),
   Given(Task(<<Enlarge, With("frame_enhancer", [model |-> "gfpgan_1.4"])>>, <<"two.png">>)),
   TwoEnhancers,
   Given(Task(<<With("frame_enhancer", [model |-> "gfpgan_1.4"])>>, <<"two.png">>)),
   [Given(Task(<<Swap, Enlarge>>, <<"two.png", "wall.png">>)) EXCEPT !.faulty = TRUE],
   [Given(Task(<<Enhance, Enlarge>>, <<"me.png">>)) EXCEPT !.faulty = TRUE],
   Given(Task(<<Enlarge, Enlarge>>, <<"two.png">>)),
   [Given(Task(<<Swap>>, <<"clip.mp4", "two.png">>)) EXCEPT !.targetsMayVanish = TRUE],
   [Usual EXCEPT !.listed = @ \ {"arcface_w600k_r50"}, !.present = @ \ {"arcface_w600k_r50"}],
   [Usual EXCEPT !.listed = @ \ {"yoloface"}, !.present = @ \ {"yoloface"}]}

Swapper == "inswapper_128"
Downloads ==
  {[Usual EXCEPT !.present = @ \ {Swapper}, !.diskFull = f, !.rival = r] :
     f \in BOOLEAN, r \in {{}, {Swapper}}}

MCWorlds == Configurations \cup Runs \cup Downloads
=============================================================================
