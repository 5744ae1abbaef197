---------------------------- MODULE PipelineClient ----------------------------
(***************************************************************************)
(* Pipeline together with its most general client: a producer that pushes  *)
(* each sequence number at most once, in any order and possibly with gaps; *)
(* a consumer that pops until it is told there is nothing left, or that    *)
(* leaves before; a controller that starts and stops the pipeline at any   *)
(* moment, also while the other two are blocked in it.                     *)
(***************************************************************************)
EXTENDS Pipeline

CONSTANT MaxStarts           \* bound: how often start() is called
ASSUME MaxStartsAssumption == MaxStarts \in Nat

VARIABLES pushing,           \* the frame push_frame is at work on, or -1
          accepted,          \* history: frames the input queue took
          refused,           \* history: frames push_frame silently discarded
          delivered,         \* history: frames pop_frame returned, in order
          reading,           \* the consumer still calls pop_frame
          ctl,               \* the controller's place in stop()
          starts,            \* start() calls so far
          stopped            \* history: stop() has been called

client == <<pushing, accepted, refused, delivered, reading, ctl, starts,
            stopped>>
vars == <<core, client>>

ClientTypeOK ==
  /\ pushing \in Id \cup {-1}
  /\ accepted \in SUBSET Id
  /\ refused \in SUBSET Id
  /\ delivered \in Seq(Id)
  /\ reading \in BOOLEAN
  /\ ctl \in {"idle", "shutIn", "shutOut", "join"}
  /\ starts \in Nat
  /\ stopped \in BOOLEAN

Init ==
  /\ CoreInit
  /\ pushing = -1
  /\ accepted = {}
  /\ refused = {}
  /\ delivered = <<>>
  /\ reading = TRUE
  /\ ctl = "idle"
  /\ starts = 0
  /\ stopped = FALSE

-----------------------------------------------------------------------------
(* push_frame: the test of m_active and the push are two steps. *)

PushTest(id) ==
  /\ pushing = -1
  /\ id \notin accepted \cup refused
  /\ IF active
       THEN pushing' = id /\ UNCHANGED refused
       ELSE refused' = refused \cup {id} /\ UNCHANGED pushing
  /\ UNCHANGED <<core, accepted, delivered, reading, ctl, starts, stopped>>

PushDo ==
  /\ pushing # -1
  /\ EnqueueFrame(pushing)
  /\ accepted' = IF inShut THEN accepted ELSE accepted \cup {pushing}
  /\ refused' = IF inShut THEN refused \cup {pushing} ELSE refused
  /\ pushing' = -1
  /\ UNCHANGED <<delivered, reading, ctl, starts, stopped>>

(* pop_frame *)

PopFrame ==
  /\ reading
  /\ DequeueFrame
  /\ delivered' = Append(delivered, Head(outQ))
  /\ UNCHANGED <<pushing, accepted, refused, reading, ctl, starts, stopped>>

PopNothing ==
  /\ reading
  /\ NoMoreFrames
  /\ reading' = FALSE
  /\ UNCHANGED <<core, pushing, accepted, refused, delivered, ctl, starts,
                 stopped>>

\* The consumer leaves: it saw the end of the stream, or failed.
Leave ==
  /\ reading
  /\ reading' = FALSE
  /\ UNCHANGED <<core, pushing, accepted, refused, delivered, ctl, starts,
                 stopped>>

(* start and stop *)

Start ==
  /\ ctl = "idle"
  /\ starts < MaxStarts
  /\ StartWorkers
  /\ starts' = starts + 1
  /\ UNCHANGED <<pushing, accepted, refused, delivered, reading, ctl, stopped>>

StopBegin ==
  /\ ctl = "idle"
  /\ Deactivate
  /\ ctl' = "shutIn"
  /\ stopped' = TRUE
  /\ UNCHANGED <<pushing, accepted, refused, delivered, reading, starts>>

StopShutInput ==
  /\ ctl = "shutIn"
  /\ ShutInput
  /\ ctl' = "shutOut"
  /\ UNCHANGED <<pushing, accepted, refused, delivered, reading, starts,
                 stopped>>

StopShutOutput ==
  /\ ctl = "shutOut"
  /\ ShutOutput
  /\ ctl' = "join"
  /\ UNCHANGED <<pushing, accepted, refused, delivered, reading, starts,
                 stopped>>

StopJoin ==
  /\ ctl = "join"
  /\ JoinWorkers
  /\ ctl' = "idle"
  /\ UNCHANGED <<pushing, accepted, refused, delivered, reading, starts,
                 stopped>>

StopStep == StopShutInput \/ StopShutOutput \/ StopJoin

WorkStep(w) == WorkerStep(w) /\ UNCHANGED client

Next ==
  \/ \E w \in Worker : WorkStep(w)
  \/ \E id \in Id : PushTest(id)
  \/ PushDo
  \/ PopFrame
  \/ PopNothing
  \/ Leave
  \/ Start
  \/ StopBegin
  \/ StopStep

SafetySpec == Init /\ [][Next]_vars

(***************************************************************************)
(* Fairness: the operating system runs every worker that can take a step,  *)
(* the consumer that is in pop_frame, and the thread that is in stop() or  *)
(* push_frame.  Nothing obliges a client to push, to leave or to stop.     *)
(***************************************************************************)
Fairness ==
  /\ \A w \in Worker : WF_vars(WorkStep(w))
  /\ WF_vars(PushDo)
  /\ WF_vars(PopFrame)
  /\ WF_vars(PopNothing)
  /\ WF_vars(StopStep)

Spec == SafetySpec /\ Fairness

-----------------------------------------------------------------------------
(* Properties *)

\* Every variable holds a value of its type and no queue outgrows its bound.
TypeOK == CoreTypeOK /\ ClientTypeOK

\* Strict sequential order (pipeline_impl.ixx, "strict sequential order"):
\* whatever order the workers finish in, the frames handed out are 0, 1, 2, ...
\* with no frame missing and none twice.
InOrder == \A i \in 1..Len(delivered) : delivered[i] = i - 1

\* The frames a worker holds and has not put out yet.
Unfinished(w) == IF wpc[w] = "drain" THEN Tail(batch[w]) ELSE batch[w]

\* The copies of a frame in a sequence, and where it is, one element per copy.
Copies(place, s, id) == {place} \X {i \in DOMAIN s : s[i] = id}

Places(id) ==
  Copies(<<"in", None>>, inQ, id)
  \cup (UNION {Copies(<<"batch", w>>, Unfinished(w), id) : w \in Worker})
  \cup {<<"reorder", None>>} \X (reorder \cap {id})
  \cup Copies(<<"out", None>>, outQ, id)
  \cup Copies(<<"delivered", None>>, delivered, id)
  \cup {<<"dropped", None>>} \X (dropped \cap {id})

\* Conservation: an accepted frame is always in exactly one place - queued,
\* with one worker, parked, or handed out - and is discarded only by a stop.
ExactlyOnce ==
  /\ \A id \in Id : Cardinality(Places(id)) = IF id \in accepted THEN 1 ELSE 0
  /\ dropped # {} => stopped

\* push_to_output_ordered drains what it can before it lets go of the mutex:
\* no frame stays parked after its turn has come.
NothingOverdue == lock = None => \A id \in reorder : id > nextSeq

\* stop() returns, whatever its workers and callers are blocked on: the two
\* shutdowns release every wait, so the joins end; and a caller blocked in
\* push_frame by a full queue is let go.
StopReturns ==
  /\ (ctl # "idle") ~> (ctl = "idle")
  /\ (pushing # -1 /\ stopped) ~> (pushing = -1)

\* The pipeline implements the ordered stream, its promise to deliver
\* included, for as long as it is not stopped and its consumer stays.
Stream == INSTANCE OrderedStream WITH open <- reading /\ ~stopped
StreamSpec == Stream!Spec

\* The safety part of StreamSpec, proved for every instance.
StreamSafety == Stream!SafetySpec
=============================================================================
