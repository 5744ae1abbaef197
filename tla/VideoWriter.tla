----------------------------- MODULE VideoWriter -----------------------------
(***************************************************************************)
(* A VideoWriter and its encoding thread.  write_frame only queues a frame *)
(* and always reports success; what the encoding thread cannot encode or   *)
(* write is logged and missing from the file, and so it is recorded here   *)
(* in `lost'.  close lets the thread drain the queue and flush the encoder *)
(* before it writes the trailer.                                           *)
(***************************************************************************)
EXTENDS Integers, SequencesExt

CONSTANTS Picture,           \* the frames there are
          WriteQueueSize,    \* 32
          Sinks              \* what the output and its encoder may be like

\* odd: frames that differ in size from the others; lag: frames the encoder
\* keeps back.
ASSUME WriterAssumption ==
  /\ WriteQueueSize \in Nat \ {0}
  /\ Sinks \subseteq [odd : SUBSET Picture, lag : Nat]

VARIABLES sink,              \* one of Sinks
          writerOpen,        \* is_open
          sizeLike,          \* a frame of the size the writer was opened for
          encodeQueue,
          encoder,           \* where the encoding thread is
          inEncoder,         \* frames the encoder holds
          written,           \* frames in the video file
          trailer,           \* the file is finished
          closing,           \* where the owner is inside close, or "no"
          lost               \* history: frames an error has cost, all unreported

writerVars == <<sink, writerOpen, sizeLike, encodeQueue, encoder, inEncoder,
                written, trailer, closing, lost>>

EncodeQueue ==
  INSTANCE ConcurrentQueue WITH queue <- encodeQueue, MaxSize <- WriteQueueSize

WriterInit ==
  /\ sink \in Sinks
  /\ writerOpen = FALSE
  /\ sizeLike = CHOOSE p \in Picture : TRUE
  /\ encodeQueue = EncodeQueue!NewQueue
  /\ encoder = "none"
  /\ inEncoder = <<>> /\ written = <<>>
  /\ trailer = FALSE
  /\ closing = "no"
  /\ lost = {}

SameSize(p, q) == p \in sink.odd <=> q \in sink.odd

-----------------------------------------------------------------------------
(* The calls *)

\* A writer is made for frames like p and opened.
OpenWriter(p) ==
  /\ ~writerOpen
  /\ writerOpen' = TRUE
  /\ sizeLike' = p
  /\ EncodeQueue!Reset
  /\ encoder' = "pop"
  /\ inEncoder' = <<>> /\ written' = <<>> /\ trailer' = FALSE
  /\ UNCHANGED <<sink, closing, lost>>

\* One of the steps of open fails and is undone.
OpenWriterFails == ~writerOpen /\ UNCHANGED writerVars

\* write_frame of an open writer.
WriteFrame(p) ==
  /\ writerOpen
  /\ EncodeQueue!Push(p)
  /\ UNCHANGED <<sink, writerOpen, sizeLike, encoder, inEncoder, written,
                 trailer, closing, lost>>

\* close, first half: the queue is shut down, ...
StopEncoding ==
  /\ closing = "no"
  /\ IF writerOpen
       THEN EncodeQueue!Shutdown /\ closing' = "join"
       ELSE UNCHANGED encodeQueue /\ closing' = "closed"
  /\ UNCHANGED <<sink, writerOpen, sizeLike, encoder, inEncoder, written, trailer,
                 lost>>

\* Seeded bug: the trailer is written while the thread still works.
FinishFileEarly ==
  /\ closing = "join"
  /\ encoder' = "none"
  /\ trailer' = TRUE
  /\ writerOpen' = FALSE
  /\ closing' = "closed"
  /\ UNCHANGED <<sink, sizeLike, encodeQueue, inEncoder, written, lost>>

\* ... second half: the thread has ended, and the trailer completes the file;
\* or it cannot be written, and without its index the file holds no frame.
FinishFile ==
  /\ closing = "join" /\ encoder = "done"
  /\ encoder' = "none"
  /\ trailer' = TRUE
  /\ \/ UNCHANGED <<written, lost>>
     \/ written' = <<>> /\ lost' = lost \cup ToSet(written)
  /\ writerOpen' = FALSE
  /\ closing' = "closed"
  /\ UNCHANGED <<sink, sizeLike, encodeQueue, inEncoder>>

-----------------------------------------------------------------------------
(* encoding_loop *)

\* receive_and_write_packets when n of the frames held are ready: the first j
\* are written.  The loop ends early when no packet can be received, or when one
\* cannot be written, which costs that packet.
Emit(held, n) ==
  \E j \in 0..n : \E failed \in {k \in 0..1 : j + k <= n} :
    /\ written' = written \o SubSeq(held, 1, j)
    /\ lost' = lost \cup ToSet(SubSeq(held, j + 1, j + failed))
    /\ inEncoder' = SubSeq(held, j + failed + 1, Len(held))

Beyond(m, n) == IF m > n THEN m - n ELSE 0

\* process_frame: a frame of the writer's size enters the encoder, and the
\* packets that are ready are written, ...
Encode(p) ==
  /\ SameSize(p, sizeLike)
  /\ LET held == Append(inEncoder, p) IN Emit(held, Beyond(Len(held), sink.lag))

\* ... but a frame of another size, or one that cannot be made writable or that
\* the encoder refuses, is dropped.
Drop(p) ==
  /\ lost' = lost \cup {p}
  /\ UNCHANGED <<inEncoder, written>>

EncodeFrame(p) ==
  /\ encoder = "pop"
  /\ EncodeQueue!Pop(p)
  /\ Encode(p) \/ Drop(p)
  /\ UNCHANGED <<sink, writerOpen, sizeLike, encoder, trailer, closing>>

\* Seeded bug: what the encoder still holds is forgotten.
EndWithoutFlush ==
  /\ encoder = "pop"
  /\ EncodeQueue!PopNothing
  /\ encoder' = "done"
  /\ UNCHANGED <<sink, writerOpen, sizeLike, inEncoder, written, trailer, closing,
                 lost>>

\* The queue is shut down and empty: flush_encoder, and the thread ends.  The
\* frames behind an error stay in the encoder and go with it.
FlushEncoder ==
  /\ encoder = "pop"
  /\ EncodeQueue!PopNothing
  /\ \E j \in 0..Len(inEncoder) :
       /\ written' = written \o SubSeq(inEncoder, 1, j)
       /\ lost' = lost \cup ToSet(SubSeq(inEncoder, j + 1, Len(inEncoder)))
  /\ inEncoder' = <<>>
  /\ encoder' = "done"
  /\ UNCHANGED <<sink, writerOpen, sizeLike, trailer, closing>>

Encoding == (\E p \in Picture : EncodeFrame(p)) \/ FlushEncoder
=============================================================================
