----------------------------- MODULE VideoReader -----------------------------
(***************************************************************************)
(* A VideoReader and its decoding thread.  The thread that owns the reader *)
(* calls open, read_frame, seek and close one after the other; the         *)
(* decoding thread runs ahead of it as far as the frame queue allows.      *)
(*                                                                         *)
(* Of libavformat and libavcodec only what the code relies on is kept: a   *)
(* file is a sequence of packets, the decoder hands out a frame once it    *)
(* holds more than its latency, and a seek lands on a keyframe.            *)
(***************************************************************************)
EXTENDS Integers, SequencesExt

CONSTANTS Frames,            \* number of video packets of the file
          Keyframes,         \* frames a seek can land on
          QueueSize,         \* 32
          MaxSkip,           \* max_frames_to_skip, 1000
          Files,             \* what the file and its decoder may be like
          None

Frame == 0..(Frames - 1)

\* lost: packets the decoder rejects; broken: where av_read_frame fails with
\* an error other than the end of file, or Frames; latency: frames the decoder
\* keeps back.
ASSUME ReaderAssumption ==
  /\ Frames \in Nat \ {0} /\ QueueSize \in Nat \ {0} /\ MaxSkip \in Nat
  /\ Keyframes \subseteq Frame /\ 0 \in Keyframes
  /\ Files \subseteq [lost : SUBSET Frame, broken : 0..Frames, latency : Nat]
  /\ None \notin Int

VARIABLES video,             \* the file, one of Files
          isOpen, isDecoding,
          frameQueue,
          decoder,           \* where the decoding thread is
          position,          \* the packet av_read_frame returns next
          codec,             \* frames the decoder holds
          caller,            \* where the owner is inside a call, or "idle"
          call,              \* the call that stops the decoding thread, or None
          reads,             \* history: frames read since the last open or seek
          origin,            \* history: the frame a seek has found, -1 after open,
                             \* None if the place is not known
          ended              \* history: read_frame has returned an empty image

stream == <<position, codec>>
past == <<reads, origin, ended>>
readerVars == <<video, isOpen, isDecoding, frameQueue, decoder, stream, caller, call, past>>

Queue == INSTANCE ConcurrentQueue WITH queue <- frameQueue, MaxSize <- QueueSize

Decodable == Frame \ video.lost
Between(f, g) == {x \in Decodable : f < x /\ x < g}

\* The calls that stop the decoding thread first.
Opening == [name |-> "open"]
Closing == [name |-> "close"]
Seeking(k) == [name |-> "seek", frame |-> k]
StoppingCall == {Opening, Closing} \cup {Seeking(k) : k \in Frame}

ReaderInit ==
  /\ video \in Files
  /\ isOpen = FALSE /\ isDecoding = FALSE
  /\ frameQueue = Queue!NewQueue
  /\ decoder = "none"
  /\ position = 0 /\ codec = <<>>
  /\ caller = "idle" /\ call = None
  /\ reads = <<>> /\ origin = -1 /\ ended = FALSE

-----------------------------------------------------------------------------
(* decoding_loop.  seek_requested is never set, so that the branch for it is *)
(* not taken.                                                                *)

\* The next packet goes to the decoder.  At a read error the loop just goes on
\* to the same packet again: a step that changes nothing.
DecodePacket ==
  /\ decoder = "loop" /\ isDecoding
  /\ position < Frames /\ position # video.broken
  /\ position' = position + 1
  /\ IF position \in Decodable
       THEN codec' = Append(codec, position) /\ decoder' = "receive"
       ELSE UNCHANGED <<codec, decoder>>
  /\ UNCHANGED <<video, isOpen, isDecoding, frameQueue, caller, call, past>>

\* The frames the decoder gives for the packet are pushed one by one.
PushDecoded ==
  /\ decoder = "receive"
  /\ IF Len(codec) > video.latency
       THEN /\ Queue!Push(Head(codec))
            /\ codec' = Tail(codec)
            /\ UNCHANGED decoder
       ELSE decoder' = "loop" /\ UNCHANGED <<frameQueue, codec>>
  /\ UNCHANGED <<video, isOpen, isDecoding, position, caller, call, past>>

\* Seeded bug: the end of the file ends the thread at once.
LeaveLoopUnflushed ==
  /\ decoder = "loop"
  /\ ~isDecoding \/ position = Frames
  /\ decoder' = "exit"
  /\ UNCHANGED <<video, isOpen, isDecoding, frameQueue, stream, caller, call, past>>

\* The loop ends at the end of the file or when decoding is stopped, ...
LeaveLoop ==
  /\ decoder = "loop"
  /\ ~isDecoding \/ position = Frames
  /\ decoder' = "drain"
  /\ UNCHANGED <<video, isOpen, isDecoding, frameQueue, stream, caller, call, past>>

\* ... the decoder gives the frames it has kept back, ...
Drain ==
  /\ decoder = "drain"
  /\ IF isDecoding /\ codec # <<>>
       THEN /\ Queue!Push(Head(codec))
            /\ codec' = Tail(codec)
            /\ UNCHANGED decoder
       ELSE decoder' = "exit" /\ UNCHANGED <<frameQueue, codec>>
  /\ UNCHANGED <<video, isOpen, isDecoding, position, caller, call, past>>

\* Seeded bug: the thread just ends.
ExitSilently ==
  /\ decoder = "exit"
  /\ decoder' = "done"
  /\ UNCHANGED <<video, isOpen, isDecoding, frameQueue, stream, caller, call, past>>

\* ... and the queue is shut down: no more frames are coming.
ExitDecoder ==
  /\ decoder = "exit"
  /\ Queue!Shutdown
  /\ decoder' = "done"
  /\ UNCHANGED <<video, isOpen, isDecoding, stream, caller, call, past>>

Decoding == DecodePacket \/ PushDecoded \/ LeaveLoop \/ Drain \/ ExitDecoder

-----------------------------------------------------------------------------
(* stop_decoding and start_decoding *)

\* A call that begins with stop_decoding.
StopDecoding(c) ==
  /\ caller = "idle"
  /\ isDecoding' = FALSE
  /\ caller' = IF isDecoding THEN "shutdown" ELSE "work"
  /\ call' = c
  /\ UNCHANGED <<video, isOpen, frameQueue, decoder, stream, past>>

\* Seeded bug: the flag is thought to be enough.
NoShutdown ==
  /\ caller = "shutdown"
  /\ caller' = "join"
  /\ UNCHANGED <<video, call, isOpen, isDecoding, frameQueue, decoder, stream, past>>

ShutdownQueue ==
  /\ caller = "shutdown"
  /\ Queue!Shutdown
  /\ caller' = "join"
  /\ UNCHANGED <<video, call, isOpen, isDecoding, decoder, stream, past>>

\* Seeded bug: the thread is detached.
DetachDecoder ==
  /\ caller = "join"
  /\ caller' = "work"
  /\ UNCHANGED <<video, call, isOpen, isDecoding, frameQueue, decoder, stream, past>>

JoinDecoder ==
  /\ caller = "join"
  /\ decoder = "done"
  /\ decoder' = "none"
  /\ caller' = "work"
  /\ UNCHANGED <<video, call, isOpen, isDecoding, frameQueue, stream, past>>

\* Seeded bug: what is left of the last run stays in the queue.
StartWithOldFrames ==
  /\ isDecoding' = TRUE
  /\ frameQueue' = [frameQueue EXCEPT !.shut = FALSE]
  /\ decoder' = "loop"

StartDecoding ==
  /\ isDecoding' = TRUE
  /\ Queue!Reset
  /\ decoder' = "loop"

Began(frame) == reads' = <<>> /\ origin' = frame /\ ended' = FALSE

-----------------------------------------------------------------------------
(* The calls *)

AtWork(c) == caller = "work" /\ call = c
Return == caller' = "idle" /\ call' = None

OpenFile ==
  /\ AtWork(Opening)
  /\ position' = 0 /\ codec' = <<>>
  /\ isOpen' = TRUE
  /\ StartDecoding
  /\ Began(-1)
  /\ Return
  /\ UNCHANGED video

\* Any of the steps of open may fail; cleanup undoes those before it.
OpenFails ==
  /\ AtWork(Opening)
  /\ isOpen' = FALSE
  /\ Began(-1)
  /\ Return
  /\ UNCHANGED <<video, isDecoding, frameQueue, decoder, stream>>

CloseFile ==
  /\ AtWork(Closing)
  /\ isOpen' = FALSE
  /\ codec' = <<>>
  /\ Return
  /\ UNCHANGED <<video, isDecoding, frameQueue, decoder, position, past>>

\* The loop of seek, packet by packet from the keyframe before k: what has been
\* found, how many frames have been skipped, and the state of the stream.
Scan(k) ==
  LET key == Max({x \in Keyframes : x <= k})
      After[p \in key..Frames] ==
        IF p = key
          THEN [position |-> p, codec |-> <<>>, skipped |-> 0, found |-> None]
          ELSE LET s == After[p - 1]
                   held == IF p - 1 \in Decodable THEN Append(s.codec, p - 1) ELSE s.codec
                   out == Len(held) > video.latency
               IN IF \/ s.found # None \/ s.skipped >= MaxSkip
                     \/ s.position = video.broken
                    THEN s
                    ELSE [position |-> p,
                          codec |-> IF out THEN Tail(held) ELSE held,
                          skipped |-> IF out /\ Head(held) < k THEN s.skipped + 1 ELSE s.skipped,
                          found |-> IF out /\ Head(held) >= k THEN Head(held) ELSE None]
  IN After[Frames]

\* The frame sought is found.  It is pushed into a queue that is still shut
\* down, where it is dropped, and decoding goes on with the frame behind it.
SeekFinds(k) ==
  /\ AtWork(Seeking(k))
  /\ LET s == Scan(k) IN
       /\ s.found # None
       /\ position' = s.position /\ codec' = s.codec
       /\ Began(s.found)
  /\ StartDecoding
  /\ Return
  /\ UNCHANGED <<video, isOpen>>

\* av_seek_frame fails, and the position is the one decoding has reached; or
\* the frame is not found, and the position is wherever the search has ended.
SeekFails(k) ==
  /\ AtWork(Seeking(k))
  /\ \/ position' = position /\ codec' = <<>>
     \/ LET s == Scan(k) IN
          /\ s.found = None
          /\ position' = s.position /\ codec' = s.codec
  /\ Began(None)
  /\ StartDecoding
  /\ Return
  /\ UNCHANGED <<video, isOpen>>

\* read_frame of an open reader waits for the queue: a frame ...
BeginRead ==
  /\ caller = "idle" /\ isOpen
  /\ caller' = "read"
  /\ UNCHANGED <<video, call, isOpen, isDecoding, frameQueue, decoder, stream, past>>

ReadFrame(f) ==
  /\ caller = "read"
  /\ Queue!Pop(f)
  /\ reads' = Append(reads, f)
  /\ caller' = "idle"
  /\ UNCHANGED <<video, call, isOpen, isDecoding, decoder, stream, origin, ended>>

\* ... or an empty image, when no frame will come any more.
ReadNothing ==
  /\ caller = "read"
  /\ Queue!PopNothing
  /\ ended' = TRUE
  /\ caller' = "idle"
  /\ UNCHANGED <<video, call, isOpen, isDecoding, decoder, stream, reads, origin>>

StoppingCalls ==
  \/ ShutdownQueue \/ JoinDecoder \/ OpenFile \/ OpenFails \/ CloseFile
  \/ \E k \in Frame : SeekFinds(k) \/ SeekFails(k)

-----------------------------------------------------------------------------
(* Properties *)

\* Whatever the two threads and earlier calls have left behind, the frames read
\* since the file was opened or sought in are consecutive frames of the file:
\* none twice, none out of order, none left out but what cannot be decoded; and
\* after open they start with the first frame there is.  With which frame they
\* start after a seek is left open: it is documented to be the frame sought, but
\* that one is dropped by the queue.
ReadsAreConsecutive ==
  /\ \A i \in 1..(Len(reads) - 1) :
       reads[i] < reads[i + 1] /\ Between(reads[i], reads[i + 1]) = {}
  /\ reads # <<>> /\ origin = -1 => Between(-1, reads[1]) = {}

\* An empty image from an open reader means the end of the video: the last
\* decodable frame has been read, or there was none left to read.
EmptyMeansEnd ==
  ended /\ isOpen /\ (reads # <<>> \/ origin # None) =>
    Between(IF reads = <<>> THEN origin ELSE Last(reads), Frames) = {}

\* The format context, the decoder and the queue's restart belong to one thread
\* at a time: while open, seek or close works on them no decoding thread is
\* left, and only an open reader has one.
OneUserOfContext ==
  /\ caller = "work" => decoder = "none"
  /\ ~isOpen => decoder = "none"
=============================================================================
