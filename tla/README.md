# Formal models of FaceFusionCpp

FaceFusionCpp swaps and enhances faces in images and videos. What makes it a
concurrent program is the path a frame takes: a reader thread pushes frames into
a pipeline, a pool of workers processes them out of order, a reorder buffer puts
them back in order, and a writer thread takes them out; a signal may cancel all
of this at any moment. This directory models that path, checks it with TLC on
small instances, and proves its central part with TLAPS for every instance. It
also models what surrounds the path: the configuration and the models a run
begins with, what the workers do to a frame, the decoding and encoding threads at
both ends, the task that is resumed after a crash, and the shutdown by a signal.

Paths are relative to the repository; "pipeline_impl.ixx:96" is a line of the
file listed for the component below. `PROJECT.json` maps every definition to the
lines it stands for.

## 1. The system

| Component | Source (under `src/src/`) | State it keeps | Operations |
|---|---|---|---|
| Frame pipeline | `domain/pipeline/impl/pipeline_impl.ixx` | `m_active`, input and output queue, worker threads, reorder buffer with its mutex, `m_next_sequence_id` | `start`, `stop`, `push_frame`, `pop_frame`, `worker_loop`, `push_to_output_ordered` |
| ThreadSafeQueue | `domain/pipeline/queue.ixx` | deque, `m_shutdown`, mutex, two condition variables | `push`, `pop`, `pop_batch`, `shutdown` |
| Video runner | `services/pipeline/runner_video.cpp` | frame counter, `writer_error`, writer thread, files, checkpoint | `ProcessVideo`, `ProcessVideoStrict` |
| Image batch runner | `services/pipeline/runner_image.cpp` | frame counter, `writer_error`, writer thread, saved files | `ProcessBatch` (`ProcessImage` has no caller) |
| Task runner | `services/pipeline/pipeline_runner.cpp` | `m_running`, `m_cancelled` | `run`, `cancel`, `wait_for_completion`, order of targets |
| Shutdown handler | `services/pipeline/shutdown_handler.cpp`, `app/cli/app_cli.cpp` | `s_installed`, `s_state`, `s_signal_received`, mutex, watchdog thread, detached callback thread | `install`, `uninstall`, `request_shutdown`, `mark_completed`, signal handlers |
| Checkpoint manager | `services/pipeline/checkpoint_manager.cpp` | one JSON file per task, time of the last save | `save`, `load`, `cleanup` |
| Metrics collector | `services/pipeline/metrics_collector.cpp` | counters, step samples per thread | `record_*`, `start_step`, `end_step` |
| Processors, adapters | `domain/pipeline/pipeline_adapters.ixx`, `pipeline_adapters.cpp`, `services/pipeline/processors/face_analysis_processor.ixx` | `m_loaded` and `m_load_mutex` of each adapter | `process`, `ensure_loaded` |
| Face analysis, face store | `domain/face/analyser/face_analyser.cpp`, `domain/face/face_store.cpp`, `face_selector.cpp` | bounded cache of faces, order of use | `get_many_faces`, `insert_faces`, `get_faces`, `is_contains`, `select_faces` |
| Session pool, registries | `foundation/ai/session_pool.cpp`, `inference_session_registry.cpp` | LRU list and map of sessions | `get_or_create`, eviction |
| Model repository, face models | `domain/ai/model_repository.cpp`, `foundation/infrastructure/network.cpp`, `face_model_registry.cpp` | files on disk, loaded models | `ensure_model`, `download`, look-up |
| Video reader, writer | `foundation/media/ffmpeg_reader.cpp`, `ffmpeg_writer.cpp`, `foundation/infrastructure/concurrent_queue.ixx` | decoding and encoding threads, bounded queues, codec contexts | `open`, `read_frame`, `seek`, `write_frame`, `close` |
| Remuxer | `foundation/media/ffmpeg_remuxer.cpp` | none | `merge_av` |
| Configuration | `app/config/...`, `app/cli/app_cli.cpp` | none | parse, merge, validate |
| Thread pool | `foundation/infrastructure/thread_pool.cpp` | task queue, workers | `enqueue`, destruction |
| The rest | logger, files, process, vision, detectors, swappers, ... | | I/O and numerical code |

How they interact:

```
 App::run_pipeline_internal ── install/uninstall ──> ShutdownHandler <── signal
        │ run                                            │ callback: cancel,
        v                                                v wait_for_completion
 PipelineRunner::run ──> ProcessVideo / ProcessBatch <── m_cancelled
                           │ push_frame       ^ pop_frame
                           v                  │ (writer thread)
        input queue ──> worker threads ──> reorder buffer ──> output queue
          ^                │ process: analysis,                    │
   VideoReader             │ adapters                          VideoWriter
 (decoding thread)         v                              (encoding thread)
                 face store, models on disk
```

What is hard about it, in the order of how much of the program rests on it (the
full list, line by line, is under "hazards" in `PROJECT.json`):

* *Order.* Workers finish in any order, take frames four at a time, and hold a
  mutex while they block on the output queue. Frames must leave as 0, 1, 2, ...
* *Wake-ups.* Two condition variables, `notify_one` in some places and
  `notify_all` in others, and a shutdown that notifies outside the mutex.
* *Ends.* Every run must end with a joined writer thread and joined workers: by
  the end-of-stream frame, by a cancel, by a write error, or by a signal.
* *What success means.* A cancel may come between any two statements, also after
  the last frame: result, files and checkpoint have to agree.
* *Shared caches and files.* Workers share the face store, the flags of the
  adapters and the models; a second process may share the model directory. What
  one call has found may be gone, or half written, at the next.
* *Threads behind a call.* `seek` and `close` of a reader work on what its decoding
  thread uses, while that thread may be blocked in a full queue; `write_frame`
  reports success for frames that never reach the file.
* *Time.* A watchdog with a 5 s limit, a callback with a 10 s limit, a task
  that may hang, a handler that is installed before the task has begun.

## 2. Modules

```
 OrderedStream            abstract: a stream of numbered frames, in order
   ^ implements (proved)
 PipelineClient           Pipeline closed by its most general client
   ^ implements (checked)       EXTENDS Pipeline
 VideoRunner, ImageBatch  the real clients, EXTEND Pipeline

 BlockingQueue            abstract: atomic push, pop, pop_batch, shutdown
   ^ implements (checked)
 ThreadSafeQueue          the same with condition variables

 TaskRun                  one task, its videos and its checkpoint file over
                          several runs of the program
 LruCache                 abstract: a bounded cache, the oldest entry goes first
   ^ implements (checked, proved)
 SessionPool              map and doubly linked list, registry

 ConcurrentQueue          the queue of reader and writer
   ^ INSTANCE
 VideoReader, VideoWriter decoding thread, encoding thread
   ^ EXTENDS
 Transcode                a video run from file to file, over OrderedStream

 TaskConfig               documents, merging, validation (operators)
 ModelFiles               models on the disk and their downloads
 FaceAnalysis             get_many_faces over the face store
   ^ EXTENDS
 FrameProcessors          adapters and workers; EXTENDS ModelFiles too
   ^ EXTENDS
 Processing               one call of the program; EXTENDS TaskConfig too

 Shutdown                 signals, watchdog, callback, main thread
 PipelineProofs           theorems about PipelineClient
   ^ INSTANCE
 VideoRunnerProofs,       theorems about the two runners, which use those
 ImageBatchProofs         about the pipeline
 ContainerProofs          theorems about ThreadSafeQueue and SessionPool
 TaskRunProofs            theorems about TaskRun
 ShutdownProofs           theorems about Shutdown
 TranscodeProofs          theorems about VideoReader and Transcode
 ProcessingProofs         theorems about Processing
 MC*.tla, *.cfg           instances for TLC
```

**Pipeline** is the worker side of `pipeline_impl.ixx`: variables carry the names
of the members, every action is a stretch of `worker_loop` or
`push_to_output_ordered` in which no other thread can see an intermediate state.
A worker is at `loop` (testing `m_active`), `fetch` (in `pop_batch`), `process`
(running the processors, then testing `m_active` again), `lock` (waiting for the
reorder mutex), `emit` or `drain` (holding it, perhaps blocked on a full output
queue), or `exited`. The early frame is parked and the mutex released in one step
(`Park`), since nothing in between can block. `stop` is four steps, because
callers run between them. The module has no `Next`; its clients supply one.

A queue operation is one step guarded by its wait predicate. That is an
assumption about `queue.ixx`, and **ThreadSafeQueue** discharges it: threads are
asleep on `m_not_empty`, asleep on `m_not_full`, or awake and competing for the
mutex, `notify_one` wakes an arbitrary sleeper, spurious wake-ups happen, and the
module is checked to implement **BlockingQueue**, where the operations are atomic
and fair.

**PipelineClient** adds a producer that pushes any number at most once, in any
order and with gaps, a consumer that may leave, and a controller that starts and
stops at any moment. `push_frame` is two steps (the test of `m_active`, then the
queue), so a stop can come between them.

**VideoRunner** is `ProcessVideo`: the reader loop with its exits (cancel, writer
error, frame limit, end of file), the checkpoint every `CkptEvery` frames, the
end-of-stream frame, join and stop, the three results, muxing, and the writer
thread. `ProcessVideoStrict` is the same control with `MaxFrames = 0` and
`CkptEvery = 1`. `CheckpointManager::save` skips a save that comes too soon;
that is a choice (`ckpt' \in {ckpt, seqId}`). **ImageBatch** is `ProcessBatch`,
with unreadable images, and output names that keep only the stem of the input.

**TaskRun** is `PipelineRunner::ExecuteTask` with `enable_resume`, the part of
`ProcessVideo` that looks at the checkpoint, and `CheckpointManager`. The file
system survives a run of the program (`ckpt`, `tmp`, `out`), the rest does not.
`CheckpointManager::save` is four steps - open the temporary file, write it, remove
the old checkpoint, rename - and the process may die between any two of them; a
short write leaves a torn file, as the code does not look at the stream, and an
error of removing or renaming is only logged (`SaveThrows`), as it is in `cleanup`
(`RemoveCheckpoint`, which then sets `undeleted`). A later run may come with another
configuration. What a checkpoint is compared by is not the configuration but its
hash: `HashOf` is a constant, so that configurations with one hash, of which
`CalculateConfigHash` makes many, are among its values. What VideoRunner says of one
video is condensed to its outcome: a video that starts at frame 0 is given to its
writer frame by frame, one that starts later is read but never written, because the
pipeline waits for frame 0. After a seek that fails (`BeginSeekFailed`) the numbers
start at 0 and the reader is left with only the frames behind the place where the
search ended; `limit` is the number at which it runs out. `out` counts frames given
to the writer; what becomes of them there is in VideoWriter. The outputs of the
videos are taken to have distinct names. The interval of the checkpoint manager is a
choice (`SkipSave`).

**Shutdown** keeps the clock only while the watchdog polls: a second passes once
every thread whose time is up has acted, because they poll every 100 ms. The
task itself is one step that nothing obliges to happen.

**SessionPool** is `SessionPool` and `InferenceSessionRegistry`: the list is a
record of `head`, `tail`, `prev` and `next`, where `prev` and `next` are defined for
the entries of the map only, so that a pointer to a destroyed entry is one out of
its domain; `RemoveEntry`, `AddToHead` and `EvictLru` are the functions of that
name. A call holds the mutex from beginning to end and is one step, except
`preload_session`, which is two calls. Which entries have expired, and in what order
they are met, is a choice. **LruCache** knows neither list nor map, only the order
of use.

**VideoReader** and **VideoWriter** are the classes of these names with their
threads. Of FFmpeg only what the code relies on is kept: packets that decode or do
not, a place where reading fails for ever, frames a decoder or an encoder keeps
back, a seek that lands on a keyframe. Each error path of the encoding thread is
there: a frame that is refused (`Drop`: another size, not writable, not sent), a
packet that cannot be received, one that cannot be written (`Emit`), a flush that
ends early (`FlushEncoder`), a trailer that cannot be written (`FinishFile`). The
code only logs them and goes on; the model keeps the frames they cost in `lost`,
which no step reads. The call that stops the decoding thread is three steps
(`ShutdownQueue`, `JoinDecoder`, and the rest of the call), as the thread runs in
between. The queue is **ConcurrentQueue** with each operation one step: `push` and
`pop` take its mutex once, and `shutdown` and `reset` notify all. **Transcode** puts
both into `ProcessVideo`, with the writer thread, the audio merge, and the pipeline
replaced by what it promises (OrderedStream) and by its limit: `push_frame` waits
while `PipelineRoom` frames stand ready to be taken out (`PipelineFull`). The queues
and the workers are that room, whatever their number; frames parked behind a missing
number do not count, since the reorder buffer has no limit. So the four threads at
the two ends can be explored together, and block each other as they do in the
program.

**Processing** is one call of the program: `run_validate`, `run_pipeline` or
`run_quick_mode`, the models of the analyser, the faces of the sources, the
targets, and then for each job (all images, then every video) the models of its
steps, a pipeline of adapters, and workers until every frame has left.
**TaskConfig** has what leads to a configuration as operators on documents:
`LoadTask`, `QuickTask`, `LoadApp`, `MergeConfigs`, `Errors`. **ModelFiles** keeps a
file apart from its names, because a process writes to the file it has opened,
whatever another one has renamed meanwhile. **FaceAnalysis** takes `get_many_faces`
apart into the calls it makes of the face store, each of which holds the mutex
once. **FrameProcessors** has `ensure_loaded` in the three steps another worker can
see (test, lock and test again, load) and `process` as one step that applies,
fails with a message, or throws. A face for which the face enhancer's model returns
nothing is left as it was without a message (`without`); the expression restorer
never changes a frame (`Changes`). The order of frames and the bounds of the queues
are the subject of Pipeline and left out here; a frame that has been processed has
left. The constant `Worlds` holds the circumstances of a call: documents, models that are
listed and present, a disk that is full, a device that fails.

Frames are their sequence numbers throughout; images, the end-of-stream flag
(its number identifies it) and the contents of files are not modelled beyond
what the properties compare.

## 3. Runs

All passing runs together fire every action. Each property of a passing run has a
seeded bug: a second version of some definition, placed just before it and marked
"Seeded bug", which makes the property fail. They are not part of any
specification.

| Run | Module | Distinct states | What it shows |
|---|---|---|---|
| `pipeline` | MCPipeline | 81,760 | order, conservation and progress of frames under the most general client; stop and push return; implements OrderedStream with its liveness |
| `queue` | MCThreadSafeQueue | 19,058 | no lost wake-up, no deadlock; implements BlockingQueue |
| `video` | MCVideoRunner | 97,533 | what success, cancel and return of a video run mean; a fresh run ends; implements PipelineClient |
| `image` | MCImageBatch | 30,247 | the same for an image batch, with bad images and shared output names |
| `task` | MCTaskRun | 4,872,561 | across crashes, restarts and changed configurations: a checkpoint that is accepted is genuine, a success is complete and cleans up |
| `pool` | MCSessionPool | 13,128 | list and map of the session pool stay one cache; implements LruCache |
| `media` | MCTranscode | 290,682 | from file to file: what is read is consecutive, an empty frame means the end, one thread at a time has the context, success means the whole video but for what errors have cost, stopping returns |
| `processing` | MCProcessing | 17,890 | a job that runs is ready, every frame goes through the steps with its own faces, models are whole, adapters are not used while they load, every frame leaves |
| `shutdown` | MCShutdown | 3,856 | bounded-time shutdown; uninstall returns; a signal is not missed where the mutex is taken |
| `video_resume` | MCVideoRunner | expects a violation | see section 5 |
| `video_write_error` | MCVideoRunner | expects a violation | see section 5 |
| `shutdown_early` | MCShutdown | expects a violation | see section 5 |

### Properties

* Pipeline. `InOrder`: the frames delivered and those in the output queue are 0, 1,
  2, .... `ExactlyOnce`: an accepted frame is in exactly one place - a queue, a
  worker's batch, the buffer, delivered, or dropped by a stop. `NothingOverdue`:
  whenever the mutex is free, the next frame is not lying in the buffer.
  `StopReturns`: a stop ends, and with it whoever is blocked inside. `StreamSpec`:
  refinement.
* Queue. `NoItemForgotten` and `NoSlotForgotten` compare what is queued (or free)
  with the threads that are awake; they are the invariants `notify_one` and
  `notify_all` have to maintain. `NobodyLeftAsleep`: nobody sleeps once shutdown
  has notified. `IsBlockingQueue`: refinement, liveness included.
* Video. `OkMeansComplete`: success means every frame of the range was written,
  once and in order. `FilesMatchResult`: a cancelled run leaves no files, a good
  one exactly the output, and no thread outlives the locals it captured by
  reference. `FreshRunReturns`: termination.
* Image. `FramesAreTargets`: the number the writer uses as an index is that of a
  loaded target. `OkMeansEveryImage`: success means every file holds the last
  target of its name and the counters agree. `ReadableBatchReturns`: termination.
* Task. `LoadedIsGenuine`: a checkpoint that `load` accepts names a frame that a run
  has read, with a configuration of the same hash as this one. It need not be this configuration,
  of which the hash covers a part (section 5).
  `FreshOkIsComplete`: a run that found no checkpoint, was not cancelled and reports
  success has given every frame of every video to its writer, whatever was on the
  disk before. A run that found one may fail to go to its frame
  and is then no full run (section 5). `OkLeavesNoCheckpoint`: an uncancelled success leaves
  no checkpoint (design.md, 5.9), but for one that the file system refused to
  remove.
* Media. `ReadsAreConsecutive`: since the last open or seek, no frame twice, none
  out of order, none missing but what cannot be decoded; after open they start with
  the first. It does not say with which frame they start after a seek,
  which is not the one asked for (section 5). `EmptyMeansEnd`: an empty image from an open reader
  means the end of the video. `OneUserOfContext`: nobody works on the context while
  the decoding thread lives. `FileIsWhatWasGiven`: at the trailer nothing is missing
  from the file that the writer was given, but the frames an error or another size
  has cost: what waited in the queue or in the encoder when the writer was closed is
  there. `OkMeansWhole`: the same end to end, for a run that was not resumed. Such
  losses are not reported (section 5), so neither property says that they are.
  `StoppingReturns`: a call that stops the decoding thread gets on, even if that
  thread repeats a failing read for ever. `ReadableRunEnds`: a run over a file that
  can be read ends, unless the writer thread has left a full pipeline behind, the
  deadlock of `video_write_error`; take that exception away and it fails.
* Processing. `NoUseDuringLoad`: double-checked locking with a flag read outside the
  mutex. `EveryFaceTreated`: whatever workers, evictions and failing steps do,
  a frame has gone through every step but the expression restorer, in order, with
  just the faces of its own picture, or a message has said otherwise; and only a face
  enhancer leaves out a face. Nothing is claimed
  of the restorer, which has no effect (section 5). `ModelIsWhole`: a file under the final
  name of a model is whole, after kills and broken connections too.
  `StartedMeansReady`: from the documents to the first frame - ranges, precedence
  of the task over the application, paths, one adapter per step with its files; and
  the model the step names, where the steps of its type name the same one. Where
  they do not, a step may have another step's model (section 5).
  `EveryFrameLeaves`. The exceptions these properties make (`missed`, `failed`,
  `overlapped`, `diskFull`) are things the code does; without any one of them the
  property fails.
* Session pool. `ListIsMap`: from the head every entry of the map is met once, from
  the tail the same ones the other way round. `IsLruCache`: a hit returns the
  session stored for the key, an insertion into a full pool costs exactly the
  entry used longest ago, a smaller limit takes effect at once. (`configure` and
  `cleanup_expired` have no caller outside the tests, so that the limit is always
  the default of 3 and nothing expires, in spite of `engine_cache` in the
  configuration; the module has them all the same.)
* Shutdown. `CallbackOutlived`: the detached callback thread has done with what
  uninstall destroys. `ZeroMeansUncancelled`: exit code 0 is never given to a
  cancelled task. `CancelEndsProcess`: a cancelled task is over in bounded time
  even if it hangs. `UninstallReturns` and `SignalIsHeard`: the watchdog is woken.

### Bounds, and why they are enough

* Two workers: the mutex is held by one, and the other overtakes, waits for the
  mutex, or is blocked in a queue; a third adds no new relation between two of
  them. Queues of 2 and batches of 2 (4 in the code): a queue that is empty,
  partly full and full, and a batch that is cut short or leaves something behind.
  The proofs of section 4 have no bounds.
* `pipeline`: numbers 0..2, so that one frame may overtake two others and the
  drain loop takes two rounds; `MaxStarts = 2`, for the restart after a stop.
* `queue`: two producers, one `pop` and two `pop_batch` consumers, capacity 2,
  `MaxPush = 4`: more than the capacity, so that producers do sleep. The bound
  also makes fairness per thread as good as strong fairness for the mutex:
  a thread that waits for the mutex is overtaken finitely often.
* `video`: four frames claimed, of which the decoder yields none, two or all, a
  limit of 3, and runs that start at 0, in the middle and past the end. `image`:
  three targets, none or some unreadable, two of them sharing a file. Both exceed
  what queues and one batch hold, so every blocking push is reached.
* `task`: two videos, since a checkpoint of one may be met by the other; two frames
  and a checkpoint due after each, so that one names the middle and one the last
  frame; three configurations, two of them with one hash; three runs of the program,
  so that a crash in a run that itself met the leavings of a crash is covered.
* `pool`: three keys and limits of 1, 2 and none: an entry can be in front, in the
  middle and at the end, and the list empty, single, full and cut down.
* `shutdown`: `Timeout = 2 < WaitLimit = 4`, the order of 5 s and 10 s;
  `MaxSignals = 2`, for a signal while an earlier one is being acted upon.
* `media`: four frames, queues of one, a search that gives up after two frames, one
  frame in decoder or encoder: both threads get blocked, overtake and drain.
  Files that are sound, have a packet that does not decode, or a place that is
  never read; every frame may be of another size, refused, lost on the way out or with the
  trailer. `PipelineRoom = 2`, less than the frames there are, so that the reader
  waits for the writer thread, and for ever when that has gone.
* `processing`: two workers, a face store of one entry and a video that shows two
  pictures in turn, so that every eviction happens; models in two pieces. The 84
  worlds are documents that each differ from a good one in one or two settings,
  runs with all four steps, failing devices and missing models, and downloads
  with and without a full disk and a second process.
* The violation runs use the smallest queues that still show the behaviour.

Deadlock is checked in `queue` (spurious wake-ups and calls always remain
possible, so this says little by itself; `NobodyLeftAsleep` and the liveness of
BlockingQueue say more). The other runs stop where the program does, after
`return`, and say `CHECK_DEADLOCK FALSE`; there termination is a property.

### Fairness

Weak fairness for every thread separately: the operating system runs a thread
that can take a step, and a mutex that is free is obtained. `Process` is a step
of a worker, so processors are taken to return. No fairness for what nobody is
obliged to do: pushing, leaving, stopping, cancelling, sending a signal, or
(in Shutdown) the task coming to an end, and none for another process. In Transcode
each of the four threads is fair; in Processing the main thread and each worker.
TaskRun has safety properties only, and no fairness.

## 4. Theorems

What TLC shows for small instances is proved here for every value of the
constants. Each proof has the same shape: an inductive invariant, checked by TLC
as an invariant of the component's run before it was proved; one lemma for each of
its parts, with one step for each action; the theorems, which follow from the
invariant. The tables name the property a theorem is about, which a run of
section 3 checks too.

### PipelineProofs

For every set of workers, every set of numbers `Id \subseteq Nat`, every queue and
batch size above zero and every number of starts (assumptions `WorkerAssumption`,
`IdAssumption`, `SizeAssumption`, `MaxStartsAssumption`):

| Theorem | States |
|---|---|
| `TypeCorrect` | `SafetySpec => []TypeOK` |
| `OrderedDelivery` | `SafetySpec => []InOrder` |
| `Invariance` | `SafetySpec => []IInv` |
| `ImplementsStream` | the safety part of OrderedStream under the refinement mapping |
| `NothingLost` | `SafetySpec => []ExactlyOnce` |
| `BufferIsDrained` | `SafetySpec => []NothingOverdue` |
| `Conservation` | `SafetySpec => []CInv`, from which the last two follow |

`InOrder` alone is not inductive: a worker that emits could emit anything. `IInv`
adds why it does not. A number is only emitted by the worker that holds the mutex
(`Holding`), the frame in its hand is the next one when it has taken the mutex
(`Turn`), `nextSeq` is touched by the holder only, and while the output queue is
open `delivered \o outQ` is exactly `0 .. nextSeq - 1` (`OutOrder`); after the
shutdown the queue takes nothing more, so the prefix stays in order. `Busy` says
that a worker past `fetch` holds a frame, `Known` that frames in the workers'
hands and the buffer are ones the input queue accepted - which the refinement
needs to show that what is delivered was accepted before - and `Bounded` the
queue sizes. `ImplementsStream` maps `PopFrame` to the delivery of the
next frame, `PushDo` to its acceptance, `StopShutOutput` to the close, and
everything else to a stutter.

`ExactlyOnce` counts the places of a frame, with multiplicity. `CInv` says it
without counting: no two of the places share a frame (`Separate`), none holds one
twice (`Single`), and every accepted frame is in one of them (`Whole`). That a
step keeps this needs to know that nothing still inside is overdue (`Ahead`: else
a frame could be delivered and parked at once), that an idle worker holds nothing
(`Idle`) and that workers exist and things are discarded only between a start and
the end of the next stop (`Calm`). The last lemmas go from there to cardinalities.

### VideoRunnerProofs and ImageBatchProofs

For every video, frame limit, checkpoint interval and start (`VideoAssumption`),
every set of targets, unreadable images and output names (`BatchAssumption`), and
any workers and sizes as above:

| Theorem | States |
|---|---|
| `RunnerIsClient`, `BatchIsClient` | `Spec => IsPipelineClient` |
| `RunTypeCorrect`, `BatchTypeCorrect` | `Spec => []TypeOK` |
| `SuccessIsComplete` | `Spec => []OkMeansComplete` |
| `NothingLeftBehind` | `Spec => []FilesMatchResult` |
| `WriterSavesTargets` | `Spec => []FramesAreTargets` |
| `SuccessIsWhole` | `Spec => []OkMeansEveryImage` |
| `RunInvariance`, `BatchInvariance` | the invariants they follow from |

The runners are composed with the pipeline itself, not with its promise, so each
proof begins with a refinement: every step of the two threads is a push, a pop, a
start or a stop of PipelineClient, or nothing to it. With that `P!Conservation`
holds for the run, `P` being PipelineProofs read through the refinement mapping.
It tells that what the writer pops is 0, 1, 2, ... of what was pushed. `RInv` and
`BInv` add the rest: which states the two threads can be in together (`Control`),
which numbers are pushed (`Numbers`), that what was written is what was popped but
for the frame in hand (`Copied`, `Counted`), why the reading loop ended (`Reached`,
`Ending`), and what that makes of the result and the files (`Outcome`, `Kept`,
`Saved`, `Failures`). Completeness is then an argument from the end: success means
the writer popped the end-of-stream frame; frames come out by number, so it has
popped all numbers before it, and they are the frames to the last.

### ContainerProofs

The queue. For any finite sets of producers and consumers, any capacity, batch size
and number of pushes (`QueueAssumption`):

| Theorem | States |
|---|---|
| `QueueTypeCorrect` | `Spec => []TypeOK` |
| `ItemsFindConsumers` | `Spec => []NoItemForgotten` |
| `SlotsFindProducers` | `Spec => []NoSlotForgotten` |
| `ShutdownWakesAll` | `Spec => []NobodyLeftAsleep` |
| `ImplementsBlockingQueue` | `Spec => IsBlockingQueueSafely`, the safety part of `IsBlockingQueue` |

Over the type invariant `TInv`, which includes that nobody is asleep and awake at
once (`Sleepers`), the three wake-up properties are inductive as they stand. The
proofs are about cardinalities: a push adds one item and wakes one sleeper, if there is
one; a pop removes one and takes one thread from those awake; a batch removes
many and wakes everyone. In the refinement going to sleep, waking and testing a
predicate in vain are stutters, and every other step is one of BlockingQueue.

The session pool. For any set of keys, any limits and any number of sessions
(`PoolAssumption`; the set of keys need not be finite):

| Theorem | States |
|---|---|
| `PoolInvariance` | `PoolSpec => []PoolInv` |
| `PoolTypeCorrect` | `PoolSpec => []PoolTypeOK` |
| `ListMatchesMap` | `PoolSpec => []ListIsMap` |
| `PoolIsLruCache` | `PoolSpec => IsLruCache` |

`ListIsMap` says what the walks along the two links meet; it is shown from
`Chain(list, o)`, which says what each link is: head and tail are the ends of the
sequence `o`, and the neighbours in `o` are linked both ways. Each linking function is a
lemma that takes a chain of one sequence to a chain of another: `AddLinks` puts a
key in front, `RemoveLinks` takes the i-th out and leaves that entry's own links as
they are, `EraseHolds` and `MoveHolds` combine the two as the code does. `EvictHolds`
and `EraseEachHolds` do so for several entries. `ChainIsWalked` closes the circle: of a
chain of `o` the walk from the head is `o` and the walk from the tail is its
reverse, so the order of use is read off the list after every step. `PoolInv` is that
chain together with the map, whose sessions are all older than the next one made;
this is why a session made without the pool is none of those cached (`BypassHolds`).
One lemma per call then gives both the invariant and the step of LruCache, for
instance `InsertHolds`: a full pool pays for a new session with the last key of the
order.

### ShutdownProofs

For any time-outs with `Timeout < WaitLimit` and any number of signals
(`ShutdownAssumption`), with either kind of handler:

| Theorem | States |
|---|---|
| `CallbackIsOutlived` | `Spec => []CallbackOutlived` |
| `ZeroExitIsUncancelled` | `Spec => []ZeroMeansUncancelled` |
| `ShutdownInvariance` | `Spec => []Inv` |

`Course` ties the watchdog to the callback it starts and to the published state,
`Cancelled` says that only the callback cancels, `Ending` that the main thread
reports only when the watchdog has ended. Together: at the report no callback is
left that has not run to its end, and without a callback nobody has cancelled.

### TranscodeProofs

For a file of any length with any keyframes, undecodable packets, place that cannot
be read and decoder latency, any queue sizes and room in the pipeline, frames of any
sizes, an encoder that keeps back any number of them, and errors at every step of
the encoding thread (`ReaderAssumption`, `WriterAssumption`; `TranscodeAssumption`: a
run resumes, if at all, at a frame other than 0, and the mark for "none" is no video
file):

| Theorem | States |
|---|---|
| `FramesComeInOrder` | `Spec => []ReadsAreConsecutive` |
| `EmptyImageIsTheEnd` | `Spec => []EmptyMeansEnd` |
| `ContextHasOneUser` | `Spec => []OneUserOfContext` |
| `ReaderInvariance` | `ReaderSpec => []ReaderInv`, for any owner that seeks only in an open reader |
| `RunOwnsReader` | `Spec => ReaderSpec` |
| `FileIsComplete` | `Spec => []FileIsWhatWasGiven` |
| `OkIsTheWholeVideo` | `Spec => []OkMeansWhole` |
| `RunInvariance` | `Spec => [](ReaderInv /\ Handing)` |

`Places` says where the owner and the decoding thread can be together. The heart is
`Flow`: as long as decoding has not been stopped, the frames read, the frames queued
and the frames in the decoder, one after the other, are consecutive, begin behind
the frame the history starts with, and end just before the packet that comes next. A
push or a read moves a frame from one of the three to the one before it and changes
nothing; a packet adds its frame at the end. That nothing is dropped needs `Ending`:
while decoding goes on, the queue is shut only by a thread that has reached the end
of the file and emptied the decoder. `Scan`, the search of seek, is a recursive
function: that it is well defined, and that what it leaves in the decoder follows
the frame found, is shown by looking at the least packet for which it would fail.

`FileIsWhatWasGiven` speaks of the moment of the trailer only. `Handing` follows the
frames from the reader to the file. `Numbering` and `Delivery`: numbers are accepted
without a gap, so that what the writer thread takes out is what was read first, and
it ends only behind the number of the end or by an error. `Stages`: the file is open
from the first frame to the trailer, the queue is shut only by `close`, and the
encoding thread ends only with queue and encoder empty. `Filled` is the account that
makes the property inductive: the frames given are those in the file, those in the
encoder and those in the queue, each in order and one after the other, and those in
`lost` (`Accounted`). As an error may cost any of them, the account is one of sets
that lie one below the other, not of one sequence. There is one lemma for each way a
frame moves (`AccountPush`, `AccountTake`, `AccountEmit`, `AccountLoss`), and
`EmitMoves`, `EncodeMoves` and `FlushMoves` show that the error paths of the
encoding thread are made of these. So nothing is missing that no error has cost. The
theorem does not say that errors are few, or reported: the code promises neither,
see section 5.

`OkMeansWhole` joins the two halves. `FromStart`: in a run that has not resumed
every frame on its way can be decoded. `Leaving`: the read loop is left at the end of
the video, or the run does not say ok. `AllInOrder`: decodable frames that are consecutive
from the first to the last are all there are, and no more than the file has packets.

### TaskRunProofs

For every sequence of videos, number of frames, checkpoint interval, set of
configurations, hash of them and number of runs (`TaskAssumption`), if "no file" is
not a number (`NoneAssumption`):

| Theorem | States |
|---|---|
| `TaskTypeCorrect` | `Spec => []TypeOK` |
| `CheckpointsAreGenuine` | `Spec => []LoadedIsGenuine` |
| `FreshTaskIsComplete` | `Spec => []FreshOkIsComplete` |
| `SuccessCleansUp` | `Spec => []OkLeavesNoCheckpoint` |
| `TaskInvariance` | `Spec => []TaskInv`, from which the four follow |

None of the three properties is inductive. `Genuine` speaks of both files, since
the temporary one becomes the checkpoint by a rename, also one that a dead process
has left. `Course` says that a save is due only for a frame just pushed, and that
a result exists only between runs. `InHand` ties the output of the video in hand
to what the writer was given: without a checkpoint it starts at 0 with all frames
ahead (a failed seek, which leaves fewer, presupposes a checkpoint), and at the
join, if nobody cancelled or failed, everything the reader had was pushed. `Behind`
carries this over the videos done, and keeps the checkpoint away unless a removal
has failed (`undeleted`). TLC checked `TaskInv` before it was proved.

### ProcessingProofs

For every set of workers, documents and pictures, any models and any number of
pieces they come in, and with no use of fairness. The assumptions say of what kind
the constants are: the mark for "none" is no model, file or worker
(`ModelFilesAssumption`, `NothingAssumption`, `WorkerAssumption`), lists are
sequences and a directory lists files with a name (`TaskConfigAssumption`,
`WorldAssumption`), there are this process and one other, a path shows a sequence
of pictures (`ProcessingAssumption`), the store has room for an entry
(`FaceAssumption`). One says what the code never does: `SelectorAssumption`, see
section 5.

| Theorem | States |
|---|---|
| `FilesAreWhole` | `Spec => []ModelIsWhole` |
| `LoadExcludesUse` | `Spec => []NoUseDuringLoad` |
| `StartIsReady` | `Spec => []StartedMeansReady` |
| `FacesAreTreated` | `Spec => []EveryFaceTreated` |

`ModelIsWhole` speaks of files in place only; `FilesInv` adds where they come from.
A file belongs to one model (`OwnFiles`). Unless the disk is full or the model is
in `overlapped`, a download in progress has exactly the pieces up to its count in
the file that bears the temporary name, and is the only one of its model
(`InProgress`), so that what the rename puts in place is whole; and the file in
place is not the one under the temporary name (`InPlace`), so that no later
download empties or writes it. There is one lemma for each kind of step on the
files; every other step leaves them alone.

`NoUseDuringLoad` needs `Locking`: who loads is in the mutex with the flag down, who
uses has seen it up. A new pipeline would put the flags of all its adapters down
again under the workers of the last one; `InWork` says why it does not: a worker
that is not idle has a frame of the job that has not left, and no two have the
same, so all are idle when the last frame has left.

`StartedMeansReady` is a chain from the documents to the adapters. The lemmas about
TaskConfig come first: an error list is empty only if each of its parts is
(`NothingJoined`, `ValidTask`), so a verdict of 0 bounds every setting; merging keeps what
the task says unless it says the unset value (`SettingsHold`); and a step keeps
its type and place through parsing and merging. `PlanHolds` joins them: a
configuration that is read and accepted is `Planned`. `PlanInv` then follows the main
thread. While models are made sure of, each step's need is still ahead or met
(`NeedsAheadOrMet`), and each file of the first need is still to do, has been found
absent, or is there (`FirstNeed`); a file that is there stays, because neither
this process nor the other takes a final name away (`FilesDoStay`). A need with an
absent file never gets an adapter, so at the start all are met (`Prepared`). What is
met is the need of the first step of a type, by which the code makes the service of
all of them; that this is the model of each step is shown for types whose steps name
one model (`Agreed`), and is false for others.

`EveryFaceTreated` is about frames that have left; `FacesInv` is the account of
those on the way. An entry of the store holds the faces of its own picture
(`StoreInv`); a worker between two calls has those faces or none (`FrameInv`); and
past the analysis its frame has had just what the adapters behind it do to these
faces (`Account`), the expression restorer, which does nothing, and what the
enhancer's model left out excepted, unless its entry went missing or a step said it
failed. `WorkHolds` is the lemma under it: one adapter more adds its work at the
end. Two things come from the other invariants: adapters are exchanged only when all
workers are idle (`WorkersInv`), and the detector never comes after the first frame
(`PlanInv`).

`FlattenSeq` and the other functions defined by recursion on a length, here and in
the proofs about the session pool, are reasoned about by the least number for which
the claim would fail (`Least`), since the library's induction theorems take an
operator as a parameter. TLC checked the invariants on the instance of the run
before they were proved.

### Only model-checked

- Liveness, all of it, and with it the liveness half of `IsBlockingQueue`, of the
  streams and of `IsPipelineClient`'s consequences: fairness and ENABLED are out of
  the prover's reach.
- The three properties of the runs that expect a violation.

## 5. Where code and documents disagree

* **A resumed video run never ends** (`video_resume`). It numbers its frames from
  `start_frame` (runner_video.cpp:232); a new pipeline waits for number 0.
* **A write error is not always reported** (`video_write_error`). The writer
  thread leaves, the queues fill up, and the reader blocks in `push_frame`
  before it tests `writer_error` again. The same holds of ImageBatch.
* **A signal before the task has begun is answered and forgotten**
  (`shutdown_early`). `cancel` is undone when `run` clears `m_cancelled`, the
  state is `Completed`, and the task runs to its end with no watchdog.

What follows has no run of its own; the models state what the code does.

* **A checkpoint of another configuration is accepted.**
  checkpoint_manager.ixx:33 calls the hash one of the task configuration "for
  consistency check"; `CalculateConfigHash` (runner_video.cpp:590-603) takes task
  id, paths, encoder, quality and the types of the enabled steps, joined without
  separators. Step parameters and models, audio policy, prefix and suffix, face
  analysis and `max_frames` are left out.
* **A failed seek does not start from the beginning**, whatever
  the message at runner_video.cpp:106 says. The reader stays where the search
  ended, numbering starts at 0, and a part of the video passes for the whole.
* **A seek drops its target.** `seek(k)` pushes frame k into a queue that
  is shut, so that the first frame read is the one behind it; ffmpeg.ixx:134
  promises to jump to the frame, and ffmpeg_test.cpp:128 reads the "frame at target",
  with a tolerance of two frames.
* **Lost frames are only logged.** `write_frame` is documented to encode
  and write and to return true if successful (ffmpeg.ixx:197-199). It queues and
  always returns true; frames of another size, refused frames and failed writes are
  missing from a file reported as a success, and the remuxer, too, removes the
  video it could not copy completely.
* **Two steps of one type** share the model of the first, under two
  mutexes; design.md:389 says that each may have params of its own.
* **The expression restorer changes nothing**, because nothing
  attaches the target landmarks it waits for (pipeline_adapters.ixx:374).
  user_guide.md:33 and 171 have it match the expressions of the original.
* **A checkpoint that cannot be removed** stays, with a message, and the task says ok
  (checkpoint_manager.cpp:164); the next run takes its frame for the last one
  completed. `OkLeavesNoCheckpoint` has the premise `~undeleted`.
* **An unreadable image stops the batch.** It uses up a number, and everything
  after it waits in the reorder buffer. The comment at runner_image.cpp:236-237
  expects the consumer to carry on. `ReadableBatchReturns` is about the others.
* **Precedence.** design.md:143 and app_config.ixx:102 promise task before
  application before hard-coded default. A task that asks for just the unset value
  (`conflict_policy: error`, `audio_policy: copy`, `execution_order: sequential`, 0)
  gets the application's.
* **Settings without effect.** The download strategy, the default providers, the
  engine cache, the models of the expression restorer, `face_masker`, blending
  factors and face selector modes of the steps are parsed and never used. The
  application configuration is never validated; its built-in version is 0.34.0
  where 0.34.1 is supported. Quick mode gives every step the parameters of a face
  swapper. A step in upper case passes the validation and is left out.
* **Default frame enhancers.** "real_esrgan_x4plus" (parser) and
  "real_esrgan_x4_plus" (runner) are not in models_info.json: such a task ends with
  E302.
* **Order of steps.** docs/user/en/configuration_guide.md:171 says steps run in the
  configured order. The analysis always comes first; a face step after a frame enhancer
  works with landmarks of the smaller frame.
* **Missing models of the analyser.** Without a detector every frame passes as
  faceless (E403); without a recognizer every swap fails with E701 and the task
  succeeds.
* **Face store.** A frame whose entry is evicted between `is_contains` and
  `get_faces` passes as faceless (`missed`). Faces from the store are not passed
  through `select_faces` again, and what is put there has not been through it
  either. Nothing sets `face_selector_options`, and as they are initialised they let
  every face through, which `SelectorAssumption` says. With any other options the
  faces of a picture would depend on whether the store has them, and
  `EveryFaceTreated` would not hold.
* **Empty paths on a command line.** Quick mode passes the validation with an empty
  source path, for which `StartedMeansReady` makes an exception; a configuration
  file cannot (`ExpandPaths` leaves empty paths out).
* **Downloads.** With a full disk a cut-off file is renamed to the final name, and
  two processes that miss the same model write to one temporary name
  (`overlapped`): from then on the file is taken for the model.

Two more things TaskRun shows. A checkpoint names the last frame *pushed*;
docs/dev/zh/architecture/design.md:719 calls it the last frame successfully
processed. A crash after the last frame was pushed therefore makes the next run take
the video for complete (`AlreadyComplete`), and the task succeeds with a short
output. And the checkpoint belongs to the task, not to a video: left by the second
video, it is loaded for the first. This is why `FreshOkIsComplete` has the premise
`~resumed`.

VideoRunner, which has no seek, lets a resumed run start at its frame; what a failed
one makes of a run is in TaskRun and Transcode. `OkMeansComplete` therefore speaks
of the frames a run numbers. When there are none and the audio is to be merged, a
temporary file left by an earlier run becomes the output (`MuxLeftover`).

Resume, write errors and unreadable images are why `FreshRunReturns` and
`ReadableBatchReturns` carry the premises they do, and why the liveness of `video`
and `image` is stated only for runs without resume, write errors and gaps.

## 6. Not modelled

* Images, tensors, what a model computes, geometry of faces, FFmpeg and OpenCV
  calls: numerical work and I/O, kept only as outcomes (a step is applied, fails or
  throws; a packet decodes or does not).
* `dropped` frames and the growth of the reorder buffer are recorded, not
  bounded: the code states no bound.
* In VideoRunner: the time interval of the checkpoint manager (a choice), metrics,
  progress callbacks, and the off-by-one of `seek`, which is in Transcode. A crash
  between two steps is in TaskRun, where the pipeline is condensed.
* In TaskRun: the images of a task (ImageBatch), `enable_resume = false` (then there
  is no checkpoint), two videos with the same output name.
* In Transcode: the pipeline beyond its promise and its room, the limit on frames,
  and when an encoder errs: any of its steps may fail at any time.
* Tiles that the frame enhancer skips when its model returns nothing for them: the
  model takes a frame as a whole.
* In Processing: cancellation (TaskRun, Shutdown), unreadable target images
  (ImageBatch), order and queues (Pipeline), metrics. Settings nothing reads later.
* In Shutdown: failure of `sigaction`, Windows close events that wait inside the
  handler, spurious wake-ups of the watchdog (its wait has a predicate), option
  parsing.
* The thread pool: a fork and join inside one call. As occluder and region masker
  are never set, a mask is composed from one task. At exit its members are
  destroyed before its threads are joined (thread_pool.cpp:62, a hazard without a
  property). The process runner is used by nothing but its test.
* `clear_faces`, `remove_faces`, and the strategies `Force` and `Skip` of the model
  repository have no caller in the program.
* Each remaining component is listed in `PROJECT.json` with its reason.

## 7. Plan

Done: Pipeline, PipelineClient, OrderedStream, PipelineProofs; ThreadSafeQueue,
BlockingQueue; SessionPool, LruCache; ContainerProofs about both; VideoRunner,
ImageBatch and their proofs; TaskRun, TaskRunProofs; Shutdown, ShutdownProofs;
ConcurrentQueue, VideoReader, VideoWriter, Transcode, TranscodeProofs; TaskConfig,
ModelFiles, FaceAnalysis, FrameProcessors, Processing, ProcessingProofs.

Every safety property that a passing run checks is proved, and the safety part of
every refinement. What comes next:

1. The thread pool and its destruction at exit (module, run and hazard).
2. The theorems that read the ones there are at a higher level: that a frame which
   Transcode writes is one the pipeline of Pipeline delivers (so far Transcode
   stands over OrderedStream, which PipelineClient implements).
