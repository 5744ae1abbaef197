--------------------------- MODULE TranscodeProofs ---------------------------
(***************************************************************************)
(* Proofs about the media side of ProcessVideo, for a file of any length   *)
(* with any keyframes, lost packets and decoder latency, queues of any     *)
(* size, any encoder, and errors at each of its steps.                     *)
(*                                                                         *)
(* First the video reader and its decoding thread: the frames read are     *)
(* consecutive frames of the file, an empty image means its end, and no    *)
(* call works on the decoder while the decoding thread does.  Then the     *)
(* run with its writer thread and the encoding thread: a finished file     *)
(* holds what came out of the pipeline, and a run that says ok has made    *)
(* the whole video, both but for what such errors have cost.               *)
(***************************************************************************)
EXTENDS Transcode, SequenceTheorems, FiniteSetTheorems, NaturalsInduction,
        WellFoundedInduction, TLAPS

-----------------------------------------------------------------------------
(* The inductive invariant. *)

ReaderType ==
  /\ video \in Files
  /\ frameQueue \in [items : Seq(Frame), shut : BOOLEAN]
  /\ position \in 0..Frames
  /\ codec \in Seq(Frame)
  /\ reads \in Seq(Frame)
  /\ origin \in Frame \cup {-1, None}

Flags ==
  /\ isOpen \in BOOLEAN
  /\ isDecoding \in BOOLEAN
  /\ ended \in BOOLEAN
  /\ frameQueue.shut \in BOOLEAN

Stopping == {"shutdown", "join", "work"}

\* Who is where: outside open, seek and close a reader is decoding just when it
\* is open, and inside them the flag is off and the thread leaves for good.
Places ==
  /\ caller \in {"idle", "read"} \cup Stopping
  /\ decoder \in {"none", "loop", "receive", "drain", "exit", "done"}
  /\ isDecoding <=> isOpen /\ caller \notin Stopping
  /\ isDecoding => decoder # "none"
  /\ caller \in {"shutdown", "join"} => decoder # "none"
  /\ caller = "work" => decoder = "none"
  /\ ~isOpen => decoder = "none"
  /\ caller = "read" => isOpen
  /\ caller \in Stopping => \A k \in Frame : call = Seeking(k) => isOpen

\* A thread that leaves although nobody told it to has come to the end of the
\* file and has given away all it held, and only then the queue is shut down.
Ending ==
  isDecoding =>
    /\ decoder \in {"drain", "exit", "done"} => position = Frames
    /\ decoder \in {"exit", "done"} => codec = <<>>
    /\ frameQueue.shut => decoder = "done"
    /\ ended => frameQueue.items = <<>> /\ decoder = "done"

\* The frames of s are consecutive, the first of them the one behind f, ...
Consecutive(f, s) ==
  /\ \A i \in 1..(Len(s) - 1) : s[i] < s[i + 1] /\ Between(s[i], s[i + 1]) = {}
  /\ s # <<>> /\ f # None => f < s[1] /\ Between(f, s[1]) = {}

\* ... and nothing decodable lies between them and packet p.
UpTo(f, s, p) ==
  /\ s # <<>> => s[Len(s)] < p /\ Between(s[Len(s)], p) = {}
  /\ s = <<>> /\ f # None => f < p /\ Between(f, p) = {}

\* All frames on their way from the file: read, queued, in the decoder.
Line == (reads \o frameQueue.items) \o codec

\* As long as decoding goes on nothing is lost on the way.
Flow == isDecoding => Consecutive(origin, Line) /\ UpTo(origin, Line, position)

ReaderInv ==
  /\ ReaderType /\ Flags /\ Places /\ Ending /\ Flow
  /\ Consecutive(origin, reads) /\ EmptyMeansEnd

-----------------------------------------------------------------------------
(* The search of seek. *)

\* A nonempty set of natural numbers has a least element.
LEMMA Least ==
  ASSUME NEW T \in SUBSET Nat, T # {}
  PROVE  \E x \in T : \A y \in T : x <= y
<1>1. PICK x \in T : \A y \in T : ~(<<y, x>> \in OpToRel(<, Nat))
  BY WFMin, NatLessThanWellFounded, T \subseteq Nat, T # {}
<1>2. \A y \in T : ~(y < x)
  BY <1>1 DEF OpToRel
<1>3. QED
  BY <1>2

\* The keyframe before a frame is one.
LEMMA KeyframeBefore ==
  ASSUME NEW k \in Frame
  PROVE  Max({x \in Keyframes : x <= k}) \in 0..k
<1> DEFINE K == {x \in Keyframes : x <= k}
           T == {k - x : x \in K}
<1>1. K \subseteq 0..k /\ 0 \in K /\ k \in Nat
  <2>1. Frames \in Nat /\ \A x \in Keyframes : x \in 0..(Frames - 1)
    BY ReaderAssumption DEF Frame
  <2>2. k \in Nat /\ 0 \in Keyframes
    BY <2>1, ReaderAssumption DEF Frame
  <2>3. QED
    BY <2>1, <2>2
<1>2. T \in SUBSET Nat /\ T # {}
  BY <1>1
<1>3. PICK t \in T : \A u \in T : t <= u
  BY <1>2, Least
<1>4. PICK m \in K : t = k - m
  BY <1>3
<1>5. \A y \in K : m >= y
  <2>1. ASSUME NEW y \in K PROVE m >= y
    <3>1. k - y \in T
      BY <2>1
    <3>2. k - m <= k - y
      BY <3>1, <1>3, <1>4
    <3>3. QED
      BY <3>2, <1>1
  <2>2. QED
    BY <2>1
<1>6. Max(K) \in K
  BY <1>5 DEF Max
<1>7. QED
  BY <1>6, <1>1

\* The search that Scan describes, taken apart: its beginning, ...
SearchFrom(key) == [position |-> key, codec |-> <<>>, skipped |-> 0, found |-> None]

SearchIsOver(s) == s.found # None \/ s.skipped >= MaxSkip \/ s.position = video.broken

\* ... what packet p - 1 makes of state s, ...
SearchPacket(k, s, p) ==
  LET held == IF p - 1 \in Decodable THEN Append(s.codec, p - 1) ELSE s.codec
      out == Len(held) > video.latency
  IN IF \/ s.found # None \/ s.skipped >= MaxSkip
        \/ s.position = video.broken
       THEN s
       ELSE [position |-> p,
             codec |-> IF out THEN Tail(held) ELSE held,
             skipped |-> IF out /\ Head(held) < k THEN s.skipped + 1 ELSE s.skipped,
             found |-> IF out /\ Head(held) >= k THEN Head(held) ELSE None]

\* ... and f as the record of the search from keyframe key to packet n.
IsSearch(k, key, n, f) ==
  f = [p \in key..n |-> IF p = key THEN SearchFrom(p) ELSE SearchPacket(k, f[p - 1], p)]

\* There is such a record.
LEMMA SearchExists ==
  ASSUME NEW k, NEW key \in Nat, NEW n \in Nat, key <= n
  PROVE  \E f : IsSearch(k, key, n, f)
<1> DEFINE Bad == {m \in Nat : key <= m /\ ~ \E f : IsSearch(k, key, m, f)}
<1> SUFFICES ASSUME Bad # {} PROVE FALSE
  BY n \in Nat, key <= n
<1>1. PICK m \in Bad : \A y \in Bad : m <= y
  BY Least, Bad \in SUBSET Nat
<1>2. CASE m = key
  <2> DEFINE f == [p \in key..key |-> SearchFrom(p)]
  <2>1. IsSearch(k, key, key, f)
    BY DEF IsSearch
  <2>2. QED
    BY <2>1, <1>1, <1>2
<1>3. CASE m > key
  <2>1. m - 1 \in Nat /\ key <= m - 1 /\ m - 1 \notin Bad
    BY <1>1, <1>3
  <2>2. PICK g : IsSearch(k, key, m - 1, g)
    BY <2>1
  <2> DEFINE f == [p \in key..m |-> IF p = m THEN SearchPacket(k, g[m - 1], m) ELSE g[p]]
  <2>3. \A p \in key..(m - 1) :
          g[p] = IF p = key THEN SearchFrom(p) ELSE SearchPacket(k, g[p - 1], p)
    BY <2>2 DEF IsSearch
  <2>4. \A p \in key..m :
          f[p] = IF p = key THEN SearchFrom(p) ELSE SearchPacket(k, f[p - 1], p)
    <3>1. ASSUME NEW p \in key..m
          PROVE  f[p] = IF p = key THEN SearchFrom(p) ELSE SearchPacket(k, f[p - 1], p)
      <4>1. CASE p = m
        <5>1. f[m - 1] = g[m - 1]
          BY <2>1, <1>3
        <5>2. f[m] = SearchPacket(k, g[m - 1], m)
          BY <1>3, <1>1
        <5>3. QED
          BY <5>1, <5>2, <4>1, <1>3
      <4>2. CASE p # m
        <5>1. p \in key..(m - 1)
          BY <4>2, <1>1
        <5>2. f[p] = g[p]
          BY <4>2, <3>1
        <5>3. p # key => p - 1 \in key..m /\ p - 1 # m
          BY <5>1, <1>1
        <5>4. p # key => f[p - 1] = g[p - 1]
          BY <5>3
        <5>5. QED
          BY <5>1, <5>2, <5>4, <2>3
      <4>3. QED
        BY <4>1, <4>2
    <3>2. QED
      BY <3>1
  <2>5. IsSearch(k, key, m, f)
    BY <2>4 DEF IsSearch
  <2>6. QED
    BY <2>5, <1>1
<1>4. QED
  BY <1>1, <1>2, <1>3

\* What Scan computes is the last entry of such a record.
LEMMA ScanIsSearch ==
  ASSUME NEW k \in Frame
  PROVE  \E key \in 0..k : \E f : IsSearch(k, key, Frames, f) /\ Scan(k) = f[Frames]
<1> DEFINE key == Max({x \in Keyframes : x <= k})
           After == CHOOSE f : f = [p \in key..Frames |->
                      IF p = key THEN SearchFrom(p) ELSE SearchPacket(k, f[p - 1], p)]
<1>1. key \in 0..k /\ k < Frames /\ k \in Nat /\ Frames \in Nat
  BY KeyframeBefore, ReaderAssumption DEF Frame
<1>2. \E f : IsSearch(k, key, Frames, f)
  <2> HIDE DEF key
  <2>1. QED
    BY <1>1, SearchExists
<1>3. IsSearch(k, key, Frames, After)
  BY <1>2 DEF IsSearch
<1>4. Scan(k) = After[Frames]
  BY DEF Scan, SearchFrom, SearchPacket
<1>5. QED
  BY <1>1, <1>3, <1>4

-----------------------------------------------------------------------------
(* Sequences of frames. *)

Origin == Frame \cup {-1, None}

\* The numbers in play.
LEMMA Numbers ==
  /\ Frames \in Nat /\ Frame \subseteq Nat /\ Decodable \subseteq Frame
  /\ \A x \in Frame : x < Frames
  /\ \A f \in Origin : f # None => f \in Int
<1>1. Frames \in Nat
  BY ReaderAssumption
<1>2. QED
  BY <1>1 DEF Frame, Decodable, Origin

\* The next packet, if it can be decoded, continues the sequence; if it cannot,
\* nothing is missing either.
LEMMA Extend ==
  ASSUME NEW f \in Origin, NEW s \in Seq(Frame), NEW p \in Frame,
         Consecutive(f, s), UpTo(f, s, p)
  PROVE  /\ p \in Decodable => /\ Consecutive(f, Append(s, p))
                               /\ UpTo(f, Append(s, p), p + 1)
         /\ p \notin Decodable => UpTo(f, s, p + 1)
<1> DEFINE t == Append(s, p)
<1>1. /\ Len(s) \in Nat /\ Len(t) = Len(s) + 1 /\ t # <<>>
      /\ t[Len(s) + 1] = p
      /\ \A i \in 1..Len(s) : t[i] = s[i] /\ s[i] \in Frame
  BY AppendProperties, LenProperties, ElementOfSeq
<1>2. s = <<>> <=> Len(s) = 0
  BY EmptySeq
<1> HIDE DEF t
<1>0. p \in Int /\ (\A x \in Decodable : x \in Int) /\ \A x \in Frame : x \in Int
  BY Numbers
<1>3. Between(p, p + 1) = {}
  BY <1>0 DEF Between
<1>4. \A x \in Int : x < p /\ Between(x, p) = {} /\ p \notin Decodable =>
                       x < p + 1 /\ Between(x, p + 1) = {}
  <2>1. ASSUME NEW x \in Int, x < p, Between(x, p) = {}, p \notin Decodable
        PROVE  x < p + 1 /\ Between(x, p + 1) = {}
    <3>1. \A y \in Decodable : ~(x < y /\ y < p) /\ y # p
      BY <2>1 DEF Between
    <3>2. \A y \in Decodable : ~(x < y /\ y < p + 1)
      BY <3>1, <1>0, <2>1
    <3>3. Between(x, p + 1) = {}
      BY <3>2 DEF Between
    <3>4. QED
      BY <3>3, <2>1, <1>0
  <2>2. QED
    BY <2>1
<1>5. Consecutive(f, t)
  <2>1. ASSUME NEW i \in 1..(Len(t) - 1)
        PROVE  t[i] < t[i + 1] /\ Between(t[i], t[i + 1]) = {}
    <3>1. CASE i = Len(s)
      BY <3>1, <2>1, <1>1, <1>2 DEF UpTo
    <3>2. CASE i # Len(s)
      <4>1. i \in 1..(Len(s) - 1) /\ i + 1 \in 1..Len(s) /\ i \in 1..Len(s)
        BY <3>2, <2>1, <1>1
      <4>2. QED
        BY <4>1, <1>1 DEF Consecutive
    <3>3. QED
      BY <3>1, <3>2
  <2>2. f # None => f < t[1] /\ Between(f, t[1]) = {}
    <3>1. CASE s = <<>>
      BY <3>1, <1>1, <1>2 DEF UpTo
    <3>2. CASE s # <<>>
      <4>1. t[1] = s[1]
        BY <3>2, <1>1, <1>2
      <4>2. QED
        BY <3>2, <4>1 DEF Consecutive
    <3>3. QED
      BY <3>1, <3>2
  <2>3. QED
    BY <2>1, <2>2 DEF Consecutive
<1>6. UpTo(f, t, p + 1)
  BY <1>1, <1>3, Numbers DEF UpTo
<1>7. p \notin Decodable => UpTo(f, s, p + 1)
  <2>1. s # <<>> => s[Len(s)] \in Int
    <3>1. s # <<>> => Len(s) \in 1..Len(s)
      BY <1>1, <1>2
    <3>2. s # <<>> => s[Len(s)] \in Frame
      BY <3>1, <1>1
    <3>3. QED
      BY <3>2, <1>0
  <2>2. f # None => f \in Int
    BY Numbers
  <2>3. QED
    BY <2>1, <2>2, <1>4 DEF UpTo
<1>8. QED
  BY <1>5, <1>6, <1>7 DEF t

\* What is left of a sequence follows the frame that was taken from it.
LEMMA Behead ==
  ASSUME NEW f \in Origin, NEW s \in Seq(Frame), NEW p \in 0..Frames, s # <<>>,
         Consecutive(f, s), UpTo(f, s, p)
  PROVE  \A g \in {Head(s), None} : Consecutive(g, Tail(s)) /\ UpTo(g, Tail(s), p)
<1> DEFINE t == Tail(s)
<1>1. /\ Len(s) \in Nat \ {0} /\ Len(t) = Len(s) - 1 /\ t \in Seq(Frame)
      /\ Head(s) = s[1]
      /\ \A i \in 1..Len(t) : t[i] = s[i + 1]
  BY HeadTailProperties, EmptySeq, LenProperties
<1>2. t = <<>> <=> Len(t) = 0
  BY <1>1, EmptySeq
<1>3. \A i \in 1..(Len(t) - 1) : t[i] < t[i + 1] /\ Between(t[i], t[i + 1]) = {}
  <2>1. ASSUME NEW i \in 1..(Len(t) - 1)
        PROVE  t[i] < t[i + 1] /\ Between(t[i], t[i + 1]) = {}
    <3>1. i \in 1..Len(t) /\ i + 1 \in 1..Len(t) /\ i + 1 \in 1..(Len(s) - 1)
      BY <1>1
    <3>2. QED
      BY <3>1, <1>1 DEF Consecutive
  <2>2. QED
    BY <2>1
<1>4. t # <<>> => Head(s) < t[1] /\ Between(Head(s), t[1]) = {}
  <2>1. t # <<>> => 1 \in 1..Len(t) /\ 1 \in 1..(Len(s) - 1)
    BY <1>1, <1>2
  <2>2. QED
    BY <2>1, <1>1 DEF Consecutive
<1>5. t # <<>> => t[Len(t)] = s[Len(s)]
  BY <1>1, <1>2
<1>6. t = <<>> => Head(s) = s[Len(s)]
  BY <1>1, <1>2
<1>7. s[Len(s)] < p /\ Between(s[Len(s)], p) = {}
  BY DEF UpTo
<1>8. QED
  BY <1>3, <1>4, <1>5, <1>6, <1>7 DEF Consecutive, UpTo

\* A part of a sequence read so far is consecutive as well.
LEMMA Prefix ==
  ASSUME NEW f, NEW s \in Seq(Frame), NEW t \in Seq(Frame), Consecutive(f, s \o t)
  PROVE  Consecutive(f, s)
<1>1. /\ Len(s) \in Nat /\ Len(t) \in Nat /\ Len(s \o t) = Len(s) + Len(t)
      /\ \A i \in 1..Len(s) : (s \o t)[i] = s[i]
  BY ConcatProperties, LenProperties
<1>2. s # <<>> => s \o t # <<>> /\ 1 \in 1..Len(s)
  <2>1. s # <<>> => Len(s) # 0
    BY EmptySeq
  <2>2. QED
    BY <2>1, <1>1, ConcatEqualIffEmpty
<1>3. \A i \in 1..(Len(s) - 1) : i \in 1..(Len(s \o t) - 1) /\ i \in 1..Len(s) /\ i + 1 \in 1..Len(s)
  BY <1>1
<1>4. QED
  BY <1>1, <1>2, <1>3 DEF Consecutive

\* A frame that moves on from one sequence to the one before it stays at its place.
LEMMA MovesOn ==
  ASSUME NEW S, NEW r \in Seq(S), NEW q \in Seq(S), q # <<>>
  PROVE  Append(r, Head(q)) \o Tail(q) = r \o q
<1> DEFINE a == Append(r, Head(q))
           t == Tail(q)
<1>1. /\ Len(r) \in Nat /\ Len(q) \in Nat \ {0} /\ Len(t) = Len(q) - 1
      /\ t \in Seq(S) /\ Head(q) \in S /\ Head(q) = q[1]
      /\ \A i \in 1..Len(t) : t[i] = q[i + 1]
  BY HeadTailProperties, LenProperties, EmptySeq
<1>2. /\ a \in Seq(S) /\ Len(a) = Len(r) + 1 /\ a[Len(r) + 1] = q[1]
      /\ \A i \in 1..Len(r) : a[i] = r[i]
  BY <1>1, AppendProperties
<1>3. /\ a \o t \in Seq(S) /\ Len(a \o t) = Len(r) + Len(q)
      /\ \A i \in 1..(Len(r) + Len(q)) :
           (a \o t)[i] = IF i <= Len(r) + 1 THEN a[i] ELSE t[i - (Len(r) + 1)]
  <2>1. Len(a) + Len(t) = Len(r) + Len(q)
    BY <1>1, <1>2
  <2>2. QED
    BY <2>1, <1>1, <1>2, ConcatProperties
<1>4. /\ r \o q \in Seq(S) /\ Len(r \o q) = Len(r) + Len(q)
      /\ \A i \in 1..(Len(r) + Len(q)) :
           (r \o q)[i] = IF i <= Len(r) THEN r[i] ELSE q[i - Len(r)]
  BY ConcatProperties
<1>5. ASSUME NEW i \in 1..(Len(r) + Len(q))
      PROVE  (a \o t)[i] = (r \o q)[i]
  <2>1. CASE i <= Len(r)
    BY <2>1, <1>1, <1>2, <1>3, <1>4
  <2>2. CASE i = Len(r) + 1
    BY <2>2, <1>1, <1>2, <1>3, <1>4
  <2>3. CASE i > Len(r) + 1
    <3>1. i - (Len(r) + 1) \in 1..Len(t) /\ i - (Len(r) + 1) + 1 = i - Len(r)
      BY <2>3, <1>1
    <3>2. t[i - (Len(r) + 1)] = q[i - Len(r)]
      BY <3>1, <1>1
    <3>3. QED
      BY <3>2, <2>3, <1>1, <1>3, <1>4
  <2>4. QED
    BY <2>1, <2>2, <2>3, <1>1
<1>6. QED
  BY <1>3, <1>4, <1>5, SeqEqual

\* What is appended to the last of two sequences is appended to both.
LEMMA AppendLast ==
  ASSUME NEW S, NEW r \in Seq(S), NEW q \in Seq(S), NEW e \in S
  PROVE  r \o Append(q, e) = Append(r \o q, e)
<1>1. <<e>> \in Seq(S) /\ r \o q \in Seq(S)
  BY ConcatProperties
<1>2. Append(q, e) = q \o <<e>> /\ Append(r \o q, e) = (r \o q) \o <<e>>
  BY <1>1, AppendIsConcat
<1>3. QED
  BY <1>1, <1>2, ConcatAssociative

\* The line is not changed by a push or a read, and grows when a packet is decoded.
LEMMA LineMoves ==
  ASSUME NEW r \in Seq(Frame), NEW q \in Seq(Frame), NEW c \in Seq(Frame)
  PROVE  /\ q # <<>> => (Append(r, Head(q)) \o Tail(q)) \o c = (r \o q) \o c
         /\ c # <<>> => (r \o Append(q, Head(c))) \o Tail(c) = (r \o q) \o c
         /\ \A p \in Frame : (r \o q) \o Append(c, p) = Append((r \o q) \o c, p)
<1>1. r \o q \in Seq(Frame)
  BY ConcatProperties
<1>2. q # <<>> => (Append(r, Head(q)) \o Tail(q)) \o c = (r \o q) \o c
  BY MovesOn
<1>3. ASSUME c # <<>> PROVE (r \o Append(q, Head(c))) \o Tail(c) = (r \o q) \o c
  <2>1. r \o Append(q, Head(c)) = Append(r \o q, Head(c))
    BY <1>3, HeadTailProperties, AppendLast
  <2>2. QED
    BY <2>1, <1>1, <1>3, MovesOn
<1>4. \A p \in Frame : (r \o q) \o Append(c, p) = Append((r \o q) \o c, p)
  BY <1>1, AppendLast
<1>5. QED
  BY <1>2, <1>3, <1>4

-----------------------------------------------------------------------------
(* What a search finds. *)

\* The state of a search: what the decoder holds follows what has been found.
SearchOK(s) ==
  /\ s.position \in 0..Frames
  /\ s.codec \in Seq(Frame)
  /\ s.found \in Frame \cup {None}
  /\ Consecutive(s.found, s.codec)
  /\ UpTo(s.found, s.codec, s.position)

\* It is so before the first packet, ...
LEMMA SearchBegins ==
  ASSUME NEW key \in 0..Frames
  PROVE  SearchOK(SearchFrom(key)) /\ SearchFrom(key).position = key
<1>1. <<>> \in Seq(Frame) /\ Len(<<>>) = 0
  BY EmptySeq
<1>2. Consecutive(None, <<>>) /\ UpTo(None, <<>>, key)
  BY <1>1 DEF Consecutive, UpTo
<1>3. QED
  BY <1>1, <1>2 DEF SearchOK, SearchFrom

\* ... and every packet keeps it.
LEMMA SearchGoesOn ==
  ASSUME video \in Files, NEW k \in Frame, NEW p \in 1..Frames, NEW s, SearchOK(s),
         SearchIsOver(s) \/ s.position = p - 1
  PROVE  /\ SearchOK(SearchPacket(k, s, p))
         /\ \/ SearchIsOver(SearchPacket(k, s, p))
            \/ SearchPacket(k, s, p).position = p
<1> DEFINE held == IF p - 1 \in Decodable THEN Append(s.codec, p - 1) ELSE s.codec
           out == Len(held) > video.latency
           over == SearchIsOver(s)
           next == [position |-> p,
                    codec |-> IF out THEN Tail(held) ELSE held,
                    skipped |-> IF out /\ Head(held) < k THEN s.skipped + 1 ELSE s.skipped,
                    found |-> IF out /\ Head(held) >= k THEN Head(held) ELSE None]
<1>1. SearchPacket(k, s, p) = IF over THEN s ELSE next
  BY DEF SearchPacket, SearchIsOver
<1>2. CASE over
  BY <1>1, <1>2
<1>3. CASE ~over
  <2>1. s.position = p - 1 /\ p - 1 \in Frame /\ p \in 0..Frames /\ s.found = None
    BY <1>3, ReaderAssumption DEF Frame, SearchIsOver
  <2>2. /\ held \in Seq(Frame)
        /\ Consecutive(None, held)
        /\ UpTo(None, held, p)
    <3>1. None \in Origin
      BY DEF Origin
    <3>2. /\ s.codec \in Seq(Frame) /\ Consecutive(None, s.codec)
          /\ UpTo(None, s.codec, p - 1)
      BY <2>1 DEF SearchOK
    <3>3. Append(s.codec, p - 1) \in Seq(Frame)
      BY <2>1, <3>2, AppendProperties
    <3>4. p - 1 + 1 = p
      OBVIOUS
    <3>5. QED
      BY <2>1, <3>1, <3>2, <3>3, <3>4, Extend
  <2> HIDE DEF held
  <2>3. CASE ~out
    <3>1. /\ next.position = p /\ next.codec = held /\ next.found = None
      BY <2>3
    <3>2. SearchOK(next)
      BY <3>1, <2>1, <2>2 DEF SearchOK
    <3>3. QED
      BY <3>1, <3>2, <1>1, <1>3
  <2>4. CASE out
    <3>1. held # <<>>
      <4>1. video.latency \in Nat
        BY ReaderAssumption
      <4>2. QED
        BY <4>1, <2>4, EmptySeq
    <3>2. Tail(held) \in Seq(Frame) /\ Head(held) \in Frame
      BY <3>1, <2>2, HeadTailProperties
    <3>3. \A g \in {Head(held), None} :
            Consecutive(g, Tail(held)) /\ UpTo(g, Tail(held), p)
      <4>1. None \in Origin
        BY DEF Origin
      <4>2. QED
        BY <4>1, <3>1, <2>1, <2>2, Behead
    <3>4. /\ next.position = p /\ next.codec = Tail(held)
          /\ next.found \in {Head(held), None}
      BY <2>4
    <3>5. SearchOK(next)
      <4>1. next.found \in Frame \cup {None}
        BY <3>4, <3>2
      <4>2. QED
        BY <4>1, <3>4, <3>3, <3>2, <2>1 DEF SearchOK
    <3>6. QED
      BY <3>4, <3>5, <1>1, <1>3
  <2>5. QED
    BY <2>3, <2>4
<1>4. QED
  BY <1>2, <1>3

\* So the frame a seek has found is followed by what it leaves in the decoder.
LEMMA ScanOK ==
  ASSUME video \in Files, NEW k \in Frame
  PROVE  SearchOK(Scan(k))
<1>0. PICK key \in 0..k : \E f : IsSearch(k, key, Frames, f) /\ Scan(k) = f[Frames]
  BY ScanIsSearch
<1>1. PICK f : IsSearch(k, key, Frames, f) /\ Scan(k) = f[Frames]
  BY <1>0
<1>2. key \in Nat /\ key < Frames /\ Frames \in Nat /\ key \in 0..Frames
  BY ReaderAssumption DEF Frame
<1>3. \A p \in key..Frames :
        f[p] = IF p = key THEN SearchFrom(key) ELSE SearchPacket(k, f[p - 1], p)
  BY <1>1 DEF IsSearch
<1> DEFINE Bad == {m \in key..Frames : ~(SearchOK(f[m]) /\ (SearchIsOver(f[m]) \/ f[m].position = m))}
<1>4. Bad = {}
  <2> SUFFICES ASSUME Bad # {} PROVE FALSE
    OBVIOUS
  <2>1. Bad \in SUBSET Nat
    BY <1>2
  <2>2. PICK m \in Bad : \A y \in Bad : m <= y
    BY <2>1, Least
  <2>3. m \in key..Frames /\ ~(SearchOK(f[m]) /\ (SearchIsOver(f[m]) \/ f[m].position = m))
    BY <2>2
  <2>4. CASE m = key
    <3>1. f[m] = SearchFrom(key)
      BY <2>4, <1>3, <2>3
    <3>2. SearchOK(f[m]) /\ f[m].position = m
      BY <3>1, <2>4, <1>2, SearchBegins
    <3>3. QED
      BY <3>2, <2>3, <1>2
  <2>5. CASE m # key
    <3>1. m - 1 \in key..Frames /\ m - 1 \notin Bad /\ m \in Nat
      BY <2>5, <2>2, <2>3, <1>2
    <3>2. SearchOK(f[m - 1]) /\ (SearchIsOver(f[m - 1]) \/ f[m - 1].position = m - 1)
      BY <3>1
    <3>3. f[m] = SearchPacket(k, f[m - 1], m)
      BY <2>5, <2>3, <1>3
    <3>4. m \in 1..Frames
      BY <2>3, <2>5, <1>2
    <3>5. SearchOK(f[m]) /\ (SearchIsOver(f[m]) \/ f[m].position = m)
      BY <3>2, <3>3, <3>4, SearchGoesOn
    <3>6. QED
      BY <3>5, <2>3
  <2>6. QED
    BY <2>4, <2>5
<1>5. Frames \in key..Frames
  BY <1>2
<1>6. SearchOK(f[Frames])
  BY <1>4, <1>5
<1>7. QED
  BY <1>1, <1>6

-----------------------------------------------------------------------------
(* The steps of a reader and its owner, whoever that is: seek is called only *)
(* on an open reader.                                                        *)

ReaderNext ==
  \/ Decoding
  \/ StoppingCalls
  \/ BeginRead
  \/ \E f \in Frame : ReadFrame(f)
  \/ ReadNothing
  \/ StopDecoding(Opening)
  \/ StopDecoding(Closing)
  \/ isOpen /\ \E k : StopDecoding(Seeking(k))

ReaderSpec == ReaderInit /\ [][ReaderNext]_readerVars

\* Flags stay flags.
LEMMA FlagsStep == ReaderInv /\ [ReaderNext]_readerVars => Flags'
<1> SUFFICES ASSUME ReaderInv, [ReaderNext]_readerVars PROVE Flags'
  OBVIOUS
<1> USE DEF past
<1>1. Flags /\ frameQueue \in [items : Seq(Frame), shut : BOOLEAN]
  BY DEF ReaderInv, ReaderType
<1>2. \A v : [frameQueue EXCEPT !.items = v].shut = frameQueue.shut
  BY <1>1
<1>3. [frameQueue EXCEPT !.shut = TRUE].shut = TRUE
  BY <1>1
<1>4. CASE Decoding
  <2>1. CASE DecodePacket
    BY <1>1, <2>1 DEF Flags, DecodePacket
  <2>2. CASE PushDecoded
    BY <1>1, <1>2, <2>2 DEF Flags, PushDecoded, Queue!Push
  <2>3. CASE LeaveLoop
    BY <1>1, <2>3 DEF Flags, LeaveLoop
  <2>4. CASE Drain
    BY <1>1, <1>2, <2>4 DEF Flags, Drain, Queue!Push
  <2>5. CASE ExitDecoder
    BY <1>1, <1>3, <2>5 DEF Flags, ExitDecoder, Queue!Shutdown
  <2>6. QED
    BY <1>4, <2>1, <2>2, <2>3, <2>4, <2>5 DEF Decoding
<1>5. CASE StoppingCalls
  <2>1. CASE ShutdownQueue
    BY <1>1, <1>3, <2>1 DEF Flags, ShutdownQueue, Queue!Shutdown
  <2>2. CASE JoinDecoder
    BY <1>1, <2>2 DEF Flags, JoinDecoder
  <2>3. CASE OpenFile
    BY <1>1, <2>3 DEF Flags, OpenFile, StartDecoding, Began, Queue!Reset, Queue!NewQueue
  <2>4. CASE OpenFails
    BY <1>1, <2>4 DEF Flags, OpenFails, Began
  <2>5. CASE CloseFile
    BY <1>1, <2>5 DEF Flags, CloseFile
  <2>6. ASSUME NEW k \in Frame, SeekFinds(k) PROVE Flags'
    BY <1>1, <2>6 DEF Flags, SeekFinds, StartDecoding, Began, Queue!Reset, Queue!NewQueue
  <2>7. ASSUME NEW k \in Frame, SeekFails(k) PROVE Flags'
    BY <1>1, <2>7 DEF Flags, SeekFails, StartDecoding, Began, Queue!Reset, Queue!NewQueue
  <2>8. QED
    BY <1>5, <2>1, <2>2, <2>3, <2>4, <2>5, <2>6, <2>7 DEF StoppingCalls
<1>6. CASE BeginRead
  BY <1>1, <1>6 DEF Flags, BeginRead
<1>7. ASSUME NEW f \in Frame, ReadFrame(f) PROVE Flags'
  BY <1>1, <1>2, <1>7 DEF Flags, ReadFrame, Queue!Pop
<1>8. CASE ReadNothing
  BY <1>1, <1>8 DEF Flags, ReadNothing, Queue!PopNothing
<1>9. ASSUME NEW c, StopDecoding(c) PROVE Flags'
  BY <1>1, <1>9 DEF Flags, StopDecoding
<1>10. CASE UNCHANGED readerVars
  BY <1>1, <1>10 DEF Flags, readerVars
<1>11. QED
  BY <1>4, <1>5, <1>6, <1>7, <1>8, <1>9, <1>10 DEF ReaderNext

\* One thread at a time.
LEMMA PlacesStep == ReaderInv /\ [ReaderNext]_readerVars => Places'
<1> SUFFICES ASSUME ReaderInv, [ReaderNext]_readerVars PROVE Places'
  OBVIOUS
<1>1. Places /\ Flags
  BY DEF ReaderInv
<1> USE DEF Stopping
<1>4. CASE Decoding
  <2>1. CASE DecodePacket
    BY <1>1, <2>1 DEF Places, DecodePacket
  <2>2. CASE PushDecoded
    BY <1>1, <2>2 DEF Places, PushDecoded
  <2>3. CASE LeaveLoop
    BY <1>1, <2>3 DEF Places, LeaveLoop
  <2>4. CASE Drain
    BY <1>1, <2>4 DEF Places, Drain
  <2>5. CASE ExitDecoder
    BY <1>1, <2>5 DEF Places, ExitDecoder
  <2>6. QED
    BY <1>4, <2>1, <2>2, <2>3, <2>4, <2>5 DEF Decoding
<1>5. CASE StoppingCalls
  <2>1. CASE ShutdownQueue
    BY <1>1, <2>1 DEF Places, ShutdownQueue
  <2>2. CASE JoinDecoder
    BY <1>1, <2>2 DEF Places, JoinDecoder
  <2>3. CASE OpenFile
    BY <1>1, <2>3 DEF Places, OpenFile, AtWork, Return, StartDecoding
  <2>4. CASE OpenFails
    BY <1>1, <2>4 DEF Places, OpenFails, AtWork, Return
  <2>5. CASE CloseFile
    BY <1>1, <2>5 DEF Places, CloseFile, AtWork, Return
  <2>6. ASSUME NEW k \in Frame, SeekFinds(k) PROVE Places'
    BY <1>1, <2>6 DEF Places, SeekFinds, AtWork, Return, StartDecoding
  <2>7. ASSUME NEW k \in Frame, SeekFails(k) PROVE Places'
    BY <1>1, <2>7 DEF Places, SeekFails, AtWork, Return, StartDecoding
  <2>8. QED
    BY <1>5, <2>1, <2>2, <2>3, <2>4, <2>5, <2>6, <2>7 DEF StoppingCalls
<1>6. CASE BeginRead
  BY <1>1, <1>6 DEF Places, BeginRead
<1>7. ASSUME NEW f \in Frame, ReadFrame(f) PROVE Places'
  BY <1>1, <1>7 DEF Places, ReadFrame
<1>8. CASE ReadNothing
  BY <1>1, <1>8 DEF Places, ReadNothing
<1>9. ASSUME NEW c, StopDecoding(c), \A k \in Frame : c = Seeking(k) => isOpen
      PROVE  Places'
  BY <1>1, <1>9 DEF Places, Flags, StopDecoding
<1>10. StopDecoding(Opening) \/ StopDecoding(Closing) => Places'
  <2>1. \A k : Opening # Seeking(k) /\ Closing # Seeking(k)
    <3>1. \A k : Opening.name = "open" /\ Closing.name = "close" /\ Seeking(k).name = "seek"
      BY DEF Opening, Closing, Seeking
    <3>2. QED
      BY <3>1
  <2>2. QED
    BY <2>1, <1>9
<1>11. CASE UNCHANGED readerVars
  BY <1>1, <1>11 DEF Places, readerVars
<1>12. QED
  BY <1>4, <1>5, <1>6, <1>7, <1>8, <1>9, <1>10, <1>11 DEF ReaderNext

\* A push into the frame queue, and a frame taken from it.
LEMMA QueueMoves ==
  ASSUME ReaderType, NEW v
  PROVE  /\ v \in Frame /\ Queue!Push(v) =>
              /\ frameQueue' \in [items : Seq(Frame), shut : BOOLEAN]
              /\ frameQueue'.shut = frameQueue.shut
              /\ frameQueue'.items =
                   IF frameQueue.shut THEN frameQueue.items ELSE Append(frameQueue.items, v)
         /\ Queue!Pop(v) =>
              /\ frameQueue' \in [items : Seq(Frame), shut : BOOLEAN]
              /\ frameQueue'.shut = frameQueue.shut
              /\ frameQueue.items # <<>> /\ v = Head(frameQueue.items) /\ v \in Frame
              /\ frameQueue'.items = Tail(frameQueue.items)
         /\ Queue!Shutdown =>
              /\ frameQueue' \in [items : Seq(Frame), shut : BOOLEAN]
              /\ frameQueue'.shut
              /\ frameQueue'.items = frameQueue.items
         /\ Queue!Reset =>
              /\ frameQueue' \in [items : Seq(Frame), shut : BOOLEAN]
              /\ ~frameQueue'.shut
              /\ frameQueue'.items = <<>>
<1>1. frameQueue \in [items : Seq(Frame), shut : BOOLEAN]
  BY DEF ReaderType
<1>2. ASSUME v \in Frame, Queue!Push(v)
      PROVE  /\ frameQueue' \in [items : Seq(Frame), shut : BOOLEAN]
             /\ frameQueue'.shut = frameQueue.shut
             /\ frameQueue'.items =
                  IF frameQueue.shut THEN frameQueue.items ELSE Append(frameQueue.items, v)
  <2>1. Append(frameQueue.items, v) \in Seq(Frame)
    BY <1>1, <1>2, AppendProperties
  <2>2. QED
    BY <2>1, <1>1, <1>2 DEF Queue!Push
<1>3. ASSUME Queue!Pop(v)
      PROVE  /\ frameQueue' \in [items : Seq(Frame), shut : BOOLEAN]
             /\ frameQueue'.shut = frameQueue.shut
             /\ frameQueue.items # <<>> /\ v = Head(frameQueue.items) /\ v \in Frame
             /\ frameQueue'.items = Tail(frameQueue.items)
  <2>1. frameQueue.items # <<>> /\ v = Head(frameQueue.items)
    BY <1>3 DEF Queue!Pop
  <2>2. v \in Frame /\ Tail(frameQueue.items) \in Seq(Frame)
    BY <2>1, <1>1, HeadTailProperties
  <2>3. QED
    BY <2>1, <2>2, <1>1, <1>3 DEF Queue!Pop
<1>4. ASSUME Queue!Shutdown
      PROVE  /\ frameQueue' \in [items : Seq(Frame), shut : BOOLEAN]
             /\ frameQueue'.shut
             /\ frameQueue'.items = frameQueue.items
  BY <1>1, <1>4 DEF Queue!Shutdown
<1>5. ASSUME Queue!Reset
      PROVE  /\ frameQueue' \in [items : Seq(Frame), shut : BOOLEAN]
             /\ ~frameQueue'.shut
             /\ frameQueue'.items = <<>>
  <2>1. <<>> \in Seq(Frame)
    BY EmptySeq
  <2>2. frameQueue' = [items |-> <<>>, shut |-> FALSE]
    BY <1>5 DEF Queue!Reset, Queue!NewQueue
  <2>3. QED
    BY <2>1, <2>2
<1>6. QED
  BY <1>2, <1>3, <1>4, <1>5

\* The file stays the same, so that what is said of frames may be said again.
LEMMA SameFile ==
  ASSUME video' = video
  PROVE  /\ (Consecutive(origin, reads))' <=> Consecutive(origin', reads')
         /\ Flow' <=> (isDecoding' => /\ Consecutive(origin', Line')
                                      /\ UpTo(origin', Line', position'))
         /\ EmptyMeansEnd' <=>
              (ended' /\ isOpen' /\ (reads' # <<>> \/ origin' # None) =>
                 Between(IF reads' = <<>> THEN origin' ELSE Last(reads'), Frames) = {})
<1>1. Decodable' = Decodable
  BY DEF Decodable
<1>2. (Consecutive(origin, reads))' <=> Consecutive(origin', reads')
  BY <1>1 DEF Consecutive, Between
<1>3. Flow' <=> (isDecoding' => /\ Consecutive(origin', Line')
                                /\ UpTo(origin', Line', position'))
  BY <1>1 DEF Flow, Consecutive, UpTo, Between
<1>4. QED
  BY <1>1, <1>2, <1>3 DEF EmptyMeansEnd, Between

\* No step leaves the types, and the file stays the same.
LEMMA TypeStep == ReaderInv /\ [ReaderNext]_readerVars => ReaderType' /\ video' = video
<1> SUFFICES ASSUME ReaderInv, [ReaderNext]_readerVars PROVE ReaderType' /\ video' = video
  OBVIOUS
<1>1. ReaderType
  BY DEF ReaderInv
<1>2. Frames \in Nat /\ \A p \in 0..Frames : p < Frames => p \in Frame /\ p + 1 \in 0..Frames
  BY ReaderAssumption DEF Frame
<1>3. <<>> \in Seq(Frame) /\ 0 \in 0..Frames
  BY <1>2, EmptySeq
<1> USE DEF stream, past
<1>4. CASE Decoding
  <2>1. CASE DecodePacket
    <3>1. position \in Frame /\ position' \in 0..Frames
      BY <1>1, <1>2, <2>1 DEF ReaderType, DecodePacket
    <3>2. codec' \in Seq(Frame)
      <4>1. codec \in Seq(Frame) /\ Append(codec, position) \in Seq(Frame)
        BY <1>1, <3>1, AppendProperties DEF ReaderType
      <4>2. codec' = Append(codec, position) \/ codec' = codec
        BY <2>1 DEF DecodePacket
      <4>3. QED
        BY <4>1, <4>2
    <3>3. QED
      BY <1>1, <2>1, <3>1, <3>2 DEF ReaderType, DecodePacket
  <2>2. ASSUME Queue!Push(Head(codec)), codec # <<>>, codec' = Tail(codec),
               UNCHANGED <<video, position, past>>
        PROVE  ReaderType' /\ video' = video
    <3>1. Head(codec) \in Frame /\ codec' \in Seq(Frame)
      BY <2>2, <1>1, HeadTailProperties DEF ReaderType
    <3>2. frameQueue' \in [items : Seq(Frame), shut : BOOLEAN]
      BY <2>2, <3>1, <1>1, QueueMoves
    <3>3. QED
      BY <1>1, <2>2, <3>1, <3>2 DEF ReaderType
  <2>3. CASE PushDecoded
    <3>1. CASE Len(codec) > video.latency
      <4>1. video.latency \in Nat
        BY <1>1, ReaderAssumption DEF ReaderType
      <4>2. codec # <<>>
        BY <3>1, <4>1, EmptySeq
      <4>3. QED
        BY <3>1, <4>2, <2>2, <2>3 DEF PushDecoded
    <3>2. CASE ~(Len(codec) > video.latency)
      BY <1>1, <2>3, <3>2 DEF ReaderType, PushDecoded
    <3>3. QED
      BY <3>1, <3>2
  <2>4. CASE LeaveLoop
    BY <1>1, <2>4 DEF ReaderType, LeaveLoop
  <2>5. CASE Drain
    <3>1. CASE isDecoding /\ codec # <<>>
      BY <3>1, <2>2, <2>5 DEF Drain
    <3>2. CASE ~(isDecoding /\ codec # <<>>)
      BY <1>1, <2>5, <3>2 DEF ReaderType, Drain
    <3>3. QED
      BY <3>1, <3>2
  <2>6. CASE ExitDecoder
    <3>1. frameQueue' \in [items : Seq(Frame), shut : BOOLEAN]
      BY <1>1, <2>6, QueueMoves DEF ExitDecoder
    <3>2. QED
      BY <1>1, <2>6, <3>1 DEF ReaderType, ExitDecoder
  <2>7. QED
    BY <1>4, <2>1, <2>3, <2>4, <2>5, <2>6 DEF Decoding
<1>5. CASE StoppingCalls
  <2>1. CASE ShutdownQueue
    <3>1. frameQueue' \in [items : Seq(Frame), shut : BOOLEAN]
      BY <1>1, <2>1, QueueMoves DEF ShutdownQueue
    <3>2. QED
      BY <1>1, <2>1, <3>1 DEF ReaderType, ShutdownQueue
  <2>2. CASE JoinDecoder
    BY <1>1, <2>2 DEF ReaderType, JoinDecoder
  <2>3. CASE OpenFile
    <3>1. frameQueue' \in [items : Seq(Frame), shut : BOOLEAN]
      BY <1>1, <2>3, QueueMoves DEF OpenFile, StartDecoding
    <3>2. QED
      BY <1>1, <1>3, <2>3, <3>1 DEF ReaderType, OpenFile, Began
  <2>4. CASE OpenFails
    BY <1>1, <1>3, <2>4 DEF ReaderType, OpenFails, Began
  <2>5. CASE CloseFile
    BY <1>1, <1>3, <2>5 DEF ReaderType, CloseFile
  <2>6. ASSUME NEW k \in Frame PROVE SearchOK(Scan(k))
    BY <1>1, ScanOK DEF ReaderType
  <2>7. ASSUME NEW k \in Frame, SeekFinds(k) PROVE ReaderType' /\ video' = video
    <3>1. frameQueue' \in [items : Seq(Frame), shut : BOOLEAN]
      BY <1>1, <2>7, QueueMoves DEF SeekFinds, StartDecoding
    <3>2. position' \in 0..Frames /\ codec' \in Seq(Frame) /\ origin' \in Frame /\ reads' = <<>>
      BY <2>6, <2>7 DEF SeekFinds, SearchOK, Began
    <3>3. QED
      BY <1>1, <1>3, <2>7, <3>1, <3>2 DEF ReaderType, SeekFinds
  <2>8. ASSUME NEW k \in Frame, SeekFails(k) PROVE ReaderType' /\ video' = video
    <3>1. frameQueue' \in [items : Seq(Frame), shut : BOOLEAN]
      BY <1>1, <2>8, QueueMoves DEF SeekFails, StartDecoding
    <3>2. position' \in 0..Frames /\ codec' \in Seq(Frame)
      BY <1>1, <1>3, <2>6, <2>8 DEF SeekFails, SearchOK, ReaderType
    <3>3. QED
      BY <1>1, <1>3, <2>8, <3>1, <3>2 DEF ReaderType, SeekFails, Began
  <2>9. QED
    BY <1>5, <2>1, <2>2, <2>3, <2>4, <2>5, <2>7, <2>8 DEF StoppingCalls
<1>6. CASE BeginRead
  BY <1>1, <1>6 DEF ReaderType, BeginRead
<1>7. ASSUME NEW f \in Frame, ReadFrame(f) PROVE ReaderType' /\ video' = video
  <2>1. frameQueue' \in [items : Seq(Frame), shut : BOOLEAN]
    BY <1>1, <1>7, QueueMoves DEF ReadFrame
  <2>2. reads' \in Seq(Frame)
    BY <1>1, <1>7, AppendProperties DEF ReaderType, ReadFrame
  <2>3. QED
    BY <1>1, <1>7, <2>1, <2>2 DEF ReaderType, ReadFrame
<1>8. CASE ReadNothing
  BY <1>1, <1>8 DEF ReaderType, ReadNothing, Queue!PopNothing
<1>9. ASSUME NEW c, StopDecoding(c) PROVE ReaderType' /\ video' = video
  BY <1>1, <1>9 DEF ReaderType, StopDecoding
<1>10. CASE UNCHANGED readerVars
  BY <1>1, <1>10 DEF ReaderType, readerVars
<1>11. QED
  BY <1>4, <1>5, <1>6, <1>7, <1>8, <1>9, <1>10 DEF ReaderNext

\* The thread ends by itself only at the end of the file.
LEMMA EndingStep == ReaderInv /\ [ReaderNext]_readerVars => Ending'
<1> SUFFICES ASSUME ReaderInv, [ReaderNext]_readerVars PROVE Ending'
  OBVIOUS
<1>1. Ending /\ Places /\ ReaderType
  BY DEF ReaderInv
<1> USE DEF stream, past, Stopping
<1>2. ASSUME ~isDecoding' PROVE Ending'
  BY <1>2 DEF Ending
<1>3. ASSUME UNCHANGED <<isDecoding, decoder, position, codec, frameQueue, ended>>
      PROVE  Ending'
  BY <1>1, <1>3 DEF Ending
<1>4. CASE Decoding
  <2>1. CASE DecodePacket
    <3>1. decoder' \in {"loop", "receive"} /\ ~frameQueue'.shut /\ ~ended'
      BY <1>1, <2>1 DEF Ending, DecodePacket
    <3>2. QED
      BY <3>1 DEF Ending
  <2>2. CASE PushDecoded
    <3>1. SUFFICES ASSUME isDecoding PROVE Ending'
      BY <1>2, <2>2 DEF PushDecoded
    <3>2. ~frameQueue.shut /\ ~ended
      BY <3>1, <1>1, <2>2 DEF Ending, PushDecoded
    <3>3. decoder' \in {"loop", "receive"} /\ ~ended'
      BY <3>2, <2>2 DEF PushDecoded
    <3>4. ~frameQueue'.shut
      <4>1. CASE Len(codec) > video.latency
        <5>1. video.latency \in Nat
          BY <1>1, ReaderAssumption DEF ReaderType
        <5>2. Head(codec) \in Frame
          BY <5>1, <4>1, <1>1, EmptySeq, HeadTailProperties DEF ReaderType
        <5>3. QED
          BY <5>2, <4>1, <2>2, <3>2, <1>1, QueueMoves DEF PushDecoded
      <4>2. CASE ~(Len(codec) > video.latency)
        BY <4>2, <2>2, <3>2 DEF PushDecoded
      <4>3. QED
        BY <4>1, <4>2
    <3>5. QED
      BY <3>3, <3>4 DEF Ending
  <2>3. CASE LeaveLoop
    BY <1>1, <2>3 DEF Ending, LeaveLoop
  <2>4. CASE Drain
    <3>1. CASE isDecoding /\ codec # <<>>
      <4>1. ~frameQueue.shut /\ ~ended /\ position = Frames
        BY <3>1, <1>1, <2>4 DEF Ending, Drain
      <4>2. Head(codec) \in Frame
        BY <3>1, <1>1, HeadTailProperties DEF ReaderType
      <4>3. ~frameQueue'.shut
        BY <3>1, <4>1, <4>2, <1>1, <2>4, QueueMoves DEF Drain
      <4>4. decoder' = "drain" /\ ~ended' /\ position' = Frames
        BY <3>1, <4>1, <2>4 DEF Drain
      <4>5. QED
        BY <4>3, <4>4 DEF Ending
    <3>2. CASE ~(isDecoding /\ codec # <<>>)
      BY <3>2, <1>1, <2>4 DEF Ending, Drain
    <3>3. QED
      BY <3>1, <3>2
  <2>5. CASE ExitDecoder
    BY <1>1, <2>5 DEF Ending, ExitDecoder
  <2>6. QED
    BY <1>4, <2>1, <2>2, <2>3, <2>4, <2>5 DEF Decoding
<1>5. ASSUME StartDecoding, ended' = FALSE PROVE Ending'
  <2>1. ~frameQueue'.shut
    BY <1>1, <1>5, QueueMoves DEF StartDecoding
  <2>2. QED
    BY <2>1, <1>5 DEF Ending, StartDecoding
<1>6. CASE StoppingCalls
  <2>1. CASE ShutdownQueue
    BY <1>1, <1>2, <2>1 DEF Places, ShutdownQueue
  <2>2. CASE JoinDecoder
    BY <1>1, <1>2, <2>2 DEF Places, JoinDecoder
  <2>3. CASE OpenFile
    BY <1>5, <2>3 DEF OpenFile, Began
  <2>4. CASE OpenFails
    BY <1>1, <1>2, <2>4 DEF Places, OpenFails, AtWork
  <2>5. CASE CloseFile
    BY <1>1, <1>2, <2>5 DEF Places, CloseFile, AtWork
  <2>6. ASSUME NEW k \in Frame, SeekFinds(k) \/ SeekFails(k) PROVE Ending'
    BY <1>5, <2>6 DEF SeekFinds, SeekFails, Began
  <2>7. QED
    BY <1>6, <2>1, <2>2, <2>3, <2>4, <2>5, <2>6 DEF StoppingCalls
<1>7. CASE BeginRead
  BY <1>3, <1>7 DEF BeginRead
<1>8. ASSUME NEW f \in Frame, ReadFrame(f) PROVE Ending'
  <2>1. frameQueue.items # <<>> /\ frameQueue'.shut = frameQueue.shut
    BY <1>1, <1>8, QueueMoves DEF ReadFrame
  <2>2. isDecoding => ~ended
    BY <2>1, <1>1 DEF Ending
  <2>3. QED
    BY <2>1, <2>2, <1>1, <1>8 DEF Ending, ReadFrame
<1>9. CASE ReadNothing
  BY <1>1, <1>9 DEF Ending, ReadNothing, Queue!PopNothing
<1>10. ASSUME NEW c, StopDecoding(c) PROVE Ending'
  BY <1>2, <1>10 DEF StopDecoding
<1>11. CASE UNCHANGED readerVars
  BY <1>3, <1>11 DEF readerVars
<1>12. QED
  BY <1>4, <1>6, <1>7, <1>8, <1>9, <1>10, <1>11 DEF ReaderNext

\* A frame is lost only when decoding has been stopped.
LEMMA FlowStep == ReaderInv /\ [ReaderNext]_readerVars => Flow'
<1> SUFFICES ASSUME ReaderInv, [ReaderNext]_readerVars PROVE Flow'
  OBVIOUS
<1>1. Ending /\ Places /\ ReaderType /\ Flow
  BY DEF ReaderInv
<1>2. video' = video
  BY TypeStep
<1> DEFINE Good(o, l, p) == Consecutive(o, l) /\ UpTo(o, l, p)
<1>3. Flow' <=> (isDecoding' => Good(origin', Line', position'))
  BY <1>2, SameFile
<1>4. isDecoding => Good(origin, Line, position)
  BY <1>1 DEF Flow
<1>5. /\ Line = (reads \o frameQueue.items) \o codec
      /\ Line' = (reads' \o frameQueue'.items) \o codec'
      /\ reads \in Seq(Frame) /\ codec \in Seq(Frame) /\ frameQueue.items \in Seq(Frame)
      /\ Line \in Seq(Frame)
  <2>1. reads \in Seq(Frame) /\ codec \in Seq(Frame) /\ frameQueue.items \in Seq(Frame)
    BY <1>1 DEF ReaderType
  <2>2. QED
    BY <2>1, ConcatProperties DEF Line
<1>5a. /\ frameQueue.items # <<>> =>
            (Append(reads, Head(frameQueue.items)) \o Tail(frameQueue.items)) \o codec
              = (reads \o frameQueue.items) \o codec
       /\ codec # <<>> =>
            (reads \o Append(frameQueue.items, Head(codec))) \o Tail(codec)
              = (reads \o frameQueue.items) \o codec
       /\ \A p \in Frame : (reads \o frameQueue.items) \o Append(codec, p)
                             = Append((reads \o frameQueue.items) \o codec, p)
  <2>1. reads \in Seq(Frame) /\ frameQueue.items \in Seq(Frame) /\ codec \in Seq(Frame)
    BY <1>5
  <2> HIDE DEF Good
  <2>2. QED
    BY <2>1, LineMoves, ZenonT(30)
<1>6. origin \in Origin
  BY <1>1 DEF ReaderType, Origin
<1>7. ASSUME ~isDecoding' PROVE Flow'
  BY <1>3, <1>7
<1>8. ASSUME isDecoding' = isDecoding, origin' = origin, position' = position,
             isDecoding => Line' = Line
      PROVE  Flow'
  BY <1>3, <1>4, <1>8
<1>9. ASSUME UNCHANGED <<isDecoding, origin, position, codec, reads>>,
             frameQueue'.items = frameQueue.items
      PROVE  Flow'
  BY <1>5, <1>8, <1>9
<1> HIDE DEF Good
<1> USE DEF stream, past, Stopping
<1>10. CASE DecodePacket
  <2>1. /\ isDecoding /\ isDecoding' = isDecoding /\ origin' = origin
        /\ position' = position + 1 /\ reads' = reads /\ frameQueue' = frameQueue
    BY <1>10 DEF DecodePacket
  <2>2. position \in Frame
    BY <1>1, <1>10, ReaderAssumption DEF ReaderType, DecodePacket, Frame
  <2>3. /\ position \in Decodable => Good(origin, Append(Line, position), position + 1)
        /\ position \notin Decodable => Good(origin, Line, position + 1)
    BY <2>1, <2>2, <1>4, <1>5, <1>6, Extend DEF Good
  <2>4. CASE position \in Decodable
    <3>1. codec' = Append(codec, position)
      BY <2>4, <1>10 DEF DecodePacket
    <3>2. Line' = Append(Line, position)
      BY <3>1, <2>1, <2>2, <1>5, <1>5a
    <3>3. QED
      BY <3>2, <2>1, <2>3, <2>4, <1>3
  <2>5. CASE position \notin Decodable
    <3>1. codec' = codec
      BY <2>5, <1>10 DEF DecodePacket
    <3>2. Line' = Line
      BY <3>1, <2>1, <1>5
    <3>3. QED
      BY <3>2, <2>1, <2>3, <2>5, <1>3
  <2>6. QED
    BY <2>4, <2>5
<1>11. ASSUME Queue!Push(Head(codec)), codec # <<>>, codec' = Tail(codec),
              decoder # "done", UNCHANGED <<isDecoding, position, past>>
       PROVE  Flow'
  <2>1. SUFFICES ASSUME isDecoding PROVE Flow'
    BY <1>7, <1>11
  <2>2. ~frameQueue.shut
    BY <2>1, <1>1, <1>11 DEF Ending
  <2>3. Head(codec) \in Frame
    BY <1>5, <1>11, HeadTailProperties
  <2>4. frameQueue'.items = Append(frameQueue.items, Head(codec))
    BY <2>2, <2>3, <1>1, <1>11, QueueMoves
  <2>5. Line' = Line
    BY <2>4, <1>5, <1>5a, <1>11
  <2>6. QED
    BY <2>5, <1>8, <1>11
<1>12. CASE PushDecoded
  <2>1. CASE Len(codec) > video.latency
    <3>1. video.latency \in Nat
      BY <1>1, ReaderAssumption DEF ReaderType
    <3>2. codec # <<>>
      BY <3>1, <2>1, EmptySeq
    <3>3. QED
      BY <3>2, <2>1, <1>11, <1>12 DEF PushDecoded
  <2>2. CASE ~(Len(codec) > video.latency)
    BY <2>2, <1>9, <1>12 DEF PushDecoded
  <2>3. QED
    BY <2>1, <2>2
<1>13. CASE LeaveLoop
  BY <1>9, <1>13 DEF LeaveLoop
<1>14. CASE Drain
  <2>1. CASE isDecoding /\ codec # <<>>
    BY <2>1, <1>11, <1>14 DEF Drain
  <2>2. CASE ~(isDecoding /\ codec # <<>>)
    BY <2>2, <1>9, <1>14 DEF Drain
  <2>3. QED
    BY <2>1, <2>2
<1>15. CASE ExitDecoder
  <2>1. frameQueue'.items = frameQueue.items
    BY <1>1, <1>15, QueueMoves DEF ExitDecoder
  <2>2. QED
    BY <2>1, <1>9, <1>15 DEF ExitDecoder
<1>16. ASSUME NEW o \in Origin, NEW p, NEW c \in Seq(Frame), Good(o, c, p),
              origin' = o, position' = p, codec' = c, reads' = <<>>, StartDecoding
       PROVE  Flow'
  <2>1. frameQueue'.items = <<>>
    BY <1>1, <1>16, QueueMoves DEF StartDecoding
  <2>2. <<>> \in Seq(Frame) /\ <<>> \o <<>> = <<>> /\ <<>> \o c = c
    BY <1>16, EmptySeq, ConcatEmptySeq
  <2>3. Line' = c
    BY <2>1, <2>2, <1>5, <1>16
  <2>4. QED
    BY <2>3, <1>3, <1>16
<1>17. <<>> \in Seq(Frame) /\ Len(<<>>) = 0
  BY EmptySeq
<1>18. CASE StoppingCalls
  <2>1. CASE ShutdownQueue
    BY <1>1, <1>7, <2>1 DEF Places, ShutdownQueue
  <2>2. CASE JoinDecoder
    BY <1>1, <1>7, <2>2 DEF Places, JoinDecoder
  <2>3. CASE OpenFile
    <3>1. Good(-1, <<>>, 0)
      <4>1. Between(-1, 0) = {}
        <5>1. \A x \in Decodable : x \in Int /\ x >= 0
          BY Numbers
        <5>2. QED
          BY <5>1 DEF Between
      <4>2. QED
        BY <4>1, <1>17 DEF Good, Consecutive, UpTo
    <3>2. -1 \in Origin
      BY DEF Origin
    <3>3. QED
      BY <3>1, <3>2, <1>16, <1>17, <2>3 DEF OpenFile, Began
  <2>4. CASE OpenFails
    BY <1>1, <1>7, <2>4 DEF Places, OpenFails, AtWork
  <2>5. CASE CloseFile
    BY <1>1, <1>7, <2>5 DEF Places, CloseFile, AtWork
  <2>6. ASSUME NEW k \in Frame
        PROVE  /\ Scan(k).codec \in Seq(Frame)
               /\ Scan(k).found # None => Scan(k).found \in Origin
               /\ Good(Scan(k).found, Scan(k).codec, Scan(k).position)
    BY <1>1, ScanOK DEF ReaderType, SearchOK, Good, Origin
  <2>7. ASSUME NEW k \in Frame, SeekFinds(k) PROVE Flow'
    BY <2>6, <2>7, <1>16 DEF SeekFinds, Began
  <2>8. ASSUME NEW k \in Frame, SeekFails(k) PROVE Flow'
    <3>1. None \in Origin
      BY DEF Origin
    <3>2. Good(None, <<>>, position)
      BY <1>17 DEF Good, Consecutive, UpTo
    <3>3. CASE position' = position /\ codec' = <<>>
      BY <3>1, <3>2, <3>3, <2>8, <1>16, <1>17 DEF SeekFails, Began
    <3>4. CASE Scan(k).found = None /\ position' = Scan(k).position /\ codec' = Scan(k).codec
      BY <3>1, <3>4, <2>6, <2>8, <1>16 DEF SeekFails, Began
    <3>5. QED
      BY <3>3, <3>4, <2>8 DEF SeekFails
  <2>9. QED
    BY <1>18, <2>1, <2>2, <2>3, <2>4, <2>5, <2>7, <2>8 DEF StoppingCalls
<1>19. CASE BeginRead
  BY <1>9, <1>19 DEF BeginRead
<1>20. ASSUME NEW f \in Frame, ReadFrame(f) PROVE Flow'
  <2>1. /\ frameQueue.items # <<>> /\ f = Head(frameQueue.items)
        /\ frameQueue'.items = Tail(frameQueue.items)
    BY <1>1, <1>20, QueueMoves DEF ReadFrame
  <2>2. reads' = Append(reads, Head(frameQueue.items)) /\ codec' = codec
    BY <2>1, <1>20 DEF ReadFrame
  <2>3. Line' = Line
    BY <2>1, <2>2, <1>5, <1>5a
  <2>4. QED
    BY <2>3, <1>8, <1>20 DEF ReadFrame
<1>21. CASE ReadNothing
  BY <1>9, <1>21 DEF ReadNothing, Queue!PopNothing
<1>22. ASSUME NEW c, StopDecoding(c) PROVE Flow'
  BY <1>7, <1>22 DEF StopDecoding
<1>23. CASE UNCHANGED readerVars
  BY <1>9, <1>23 DEF readerVars
<1>24. QED
  BY <1>10, <1>12, <1>13, <1>14, <1>15, <1>18, <1>19, <1>20, <1>21, <1>22, <1>23
     DEF ReaderNext, Decoding

\* What has been read stays consecutive, and an empty image still means the end.
LEMMA HistoryStep ==
  ReaderInv /\ [ReaderNext]_readerVars => (Consecutive(origin, reads))' /\ EmptyMeansEnd'
<1> SUFFICES ASSUME ReaderInv, [ReaderNext]_readerVars
             PROVE  (Consecutive(origin, reads))' /\ EmptyMeansEnd'
  OBVIOUS
<1>1. /\ Ending /\ Places /\ ReaderType /\ Flow
      /\ Consecutive(origin, reads) /\ EmptyMeansEnd
  BY DEF ReaderInv
<1>2. video' = video
  BY TypeStep
<1>3. /\ (Consecutive(origin, reads))' <=> Consecutive(origin', reads')
      /\ EmptyMeansEnd' <=>
           (ended' /\ isOpen' /\ (reads' # <<>> \/ origin' # None) =>
              Between(IF reads' = <<>> THEN origin' ELSE Last(reads'), Frames) = {})
      /\ Flow' <=> (isDecoding' => /\ Consecutive(origin', Line')
                                   /\ UpTo(origin', Line', position'))
  BY <1>2, SameFile
<1> DEFINE Goals == (Consecutive(origin, reads))' /\ EmptyMeansEnd'
<1>4. ASSUME UNCHANGED <<ended, reads, origin>>, isOpen' => isOpen PROVE Goals
  BY <1>1, <1>3, <1>4 DEF EmptyMeansEnd
<1>5. ASSUME NEW o, Began(o) PROVE Goals
  <2>1. Len(<<>>) = 0 /\ \A i \in 1..(0 - 1) : FALSE
    BY EmptySeq
  <2>2. Consecutive(o, <<>>)
    BY <2>1 DEF Consecutive
  <2>3. QED
    BY <2>2, <1>3, <1>5 DEF Began
<1> USE DEF stream, past, Stopping
<1>6. ASSUME NEW f \in Frame, ReadFrame(f) PROVE Goals
  <2>1. frameQueue.items # <<>>
    BY <1>1, <1>6, QueueMoves DEF ReadFrame
  <2>2. isDecoding /\ isDecoding' /\ ~ended /\ ~ended'
    BY <2>1, <1>1, <1>6 DEF ReadFrame, Places, Ending
  <2>3. Flow'
    BY FlowStep
  <2>4. Consecutive(origin', (reads' \o frameQueue'.items) \o codec')
    BY <2>2, <2>3, <1>3 DEF Line
  <2>5. /\ reads' \in Seq(Frame) /\ frameQueue'.items \in Seq(Frame) /\ codec' \in Seq(Frame)
    BY TypeStep DEF ReaderType
  <2>6. Consecutive(origin', reads' \o frameQueue'.items)
    BY <2>4, <2>5, ConcatProperties, Prefix
  <2>7. Consecutive(origin', reads')
    BY <2>5, <2>6, Prefix
  <2>8. QED
    BY <2>2, <2>7, <1>3
<1>7. CASE ReadNothing
  <2>1. /\ frameQueue.items = <<>> /\ frameQueue.shut /\ isDecoding
        /\ UNCHANGED <<reads, origin>>
    BY <1>1, <1>7 DEF ReadNothing, Queue!PopNothing, Places
  <2>2. codec = <<>> /\ position = Frames
    BY <2>1, <1>1 DEF Ending
  <2>3. Line = reads
    <3>1. reads \in Seq(Frame)
      BY <1>1 DEF ReaderType
    <3>2. QED
      BY <3>1, <2>1, <2>2, ConcatEmptySeq DEF Line
  <2>4. UpTo(origin, reads, Frames)
    BY <2>1, <2>2, <2>3, <1>1 DEF Flow
  <2>5. reads # <<>> \/ origin # None =>
          Between(IF reads = <<>> THEN origin ELSE Last(reads), Frames) = {}
    BY <2>4 DEF UpTo, Last
  <2>6. QED
    BY <2>1, <2>5, <1>1, <1>3
<1>8. CASE Decoding
  BY <1>4, <1>8 DEF Decoding, DecodePacket, PushDecoded, LeaveLoop, Drain, ExitDecoder
<1>9. CASE StoppingCalls
  <2>1. CASE ShutdownQueue \/ JoinDecoder \/ CloseFile
    BY <1>4, <2>1 DEF ShutdownQueue, JoinDecoder, CloseFile
  <2>2. CASE OpenFile \/ OpenFails
    BY <1>5, <2>2 DEF OpenFile, OpenFails
  <2>3. ASSUME NEW k \in Frame, SeekFinds(k) \/ SeekFails(k) PROVE Goals
    BY <1>5, <2>3 DEF SeekFinds, SeekFails
  <2>4. QED
    BY <1>9, <2>1, <2>2, <2>3 DEF StoppingCalls
<1>10. CASE BeginRead
  BY <1>4, <1>10 DEF BeginRead
<1>11. ASSUME NEW c, StopDecoding(c) PROVE Goals
  BY <1>4, <1>11 DEF StopDecoding
<1>12. CASE UNCHANGED readerVars
  BY <1>4, <1>12 DEF readerVars
<1>13. QED
  BY <1>6, <1>7, <1>8, <1>9, <1>10, <1>11, <1>12 DEF ReaderNext

-----------------------------------------------------------------------------
(* The theorems. *)

\* A new reader satisfies the invariant.
LEMMA ReaderBegins == ReaderInit => ReaderInv
<1> SUFFICES ASSUME ReaderInit PROVE ReaderInv
  OBVIOUS
<1>1. frameQueue = [items |-> <<>>, shut |-> FALSE] /\ <<>> \in Seq(Frame) /\ Len(<<>>) = 0
  BY EmptySeq DEF ReaderInit, Queue!NewQueue
<1>2. ReaderType
  <2>1. 0 \in 0..Frames
    BY ReaderAssumption
  <2>2. QED
    BY <1>1, <2>1 DEF ReaderInit, ReaderType
<1>3. Flags
  <2>1. frameQueue.shut = FALSE
    BY <1>1
  <2>2. QED
    BY <2>1 DEF ReaderInit, Flags
<1>4. Places
  BY DEF ReaderInit, Places, Stopping
<1>5. Ending /\ Flow /\ EmptyMeansEnd
  BY DEF ReaderInit, Ending, Flow, EmptyMeansEnd
<1>6. Consecutive(origin, reads)
  BY <1>1 DEF ReaderInit, Consecutive
<1>7. QED
  BY <1>2, <1>3, <1>4, <1>5, <1>6 DEF ReaderInv

\* The inductive invariant of a reader, whatever its owner does with it.
THEOREM ReaderInvariance == ReaderSpec => []ReaderInv
<1>1. ReaderInv /\ [ReaderNext]_readerVars => ReaderInv'
  BY TypeStep, FlagsStep, PlacesStep, EndingStep, FlowStep, HistoryStep DEF ReaderInv
<1>2. QED
  BY <1>1, ReaderBegins, PTL DEF ReaderSpec

\* ProcessVideo is such an owner: open, at most one seek, reads and close, one
\* after the other.
LEMMA OwnerMoves == [Next]_vars => [ReaderNext]_readerVars
<1> SUFFICES ASSUME [Next]_vars PROVE [ReaderNext]_readerVars
  OBVIOUS
<1>1. CASE Main
  <2>1. BeginOpen => ReaderNext
    BY DEF BeginOpen, ReaderNext
  <2>2. BeginSeek => ReaderNext
    BY DEF BeginSeek, ReaderNext
  <2>3. CloseReader => ReaderNext
    BY DEF CloseReader, ReaderNext
  <2>4. BeginReadFrame => ReaderNext
    BY DEF BeginReadFrame, ReaderNext
  <2>5. PushFrame => ReaderNext
    BY DEF PushFrame, ReaderNext
  <2>6. EndOfVideo => ReaderNext
    BY DEF EndOfVideo, ReaderNext
  <2>7. StoppingCalls => ReaderNext
    BY DEF ReaderNext
  <2>8. \/ OpenFailed \/ BeginLoop \/ LeaveReadLoop \/ PushEos \/ JoinWriting \/ CloseWriter
        \/ RunCancelled \/ RunFailed \/ RunCompleted \/ NothingToRename
        \/ FinishFile /\ UNCHANGED <<readerVars, run>>
        => UNCHANGED readerVars
    BY DEF OpenFailed, BeginLoop, LeaveReadLoop, PushEos, JoinWriting, CloseWriter,
           RunCancelled, RunFailed, RunCompleted, NothingToRename
  <2>9. QED
    BY <1>1, <2>1, <2>2, <2>3, <2>4, <2>5, <2>6, <2>7, <2>8 DEF Main
<1>2. CASE Writing
  BY <1>2 DEF Writing, PopFrame, OpenForFirst, WriteInHand
<1>3. CASE DecodingThread
  BY <1>3 DEF DecodingThread, ReaderNext
<1>4. CASE EncodingThread
  BY <1>4 DEF EncodingThread
<1>5. CASE Cancel
  BY <1>5 DEF Cancel
<1>6. CASE UNCHANGED vars
  BY <1>6 DEF vars
<1>7. QED
  BY <1>1, <1>2, <1>3, <1>4, <1>5, <1>6 DEF Next

\* So all that holds of a reader holds of the run's.
THEOREM RunOwnsReader == Spec => ReaderSpec
<1>1. Init => ReaderInit
  BY DEF Init
<1>2. QED
  BY <1>1, OwnerMoves, PTL DEF Spec, ReaderSpec

\* The frames read since the last open or seek are consecutive decodable frames
\* of the file, and after open they start with the first there is.
THEOREM FramesComeInOrder == Spec => []ReadsAreConsecutive
<1>1. ASSUME ReaderInv PROVE ReadsAreConsecutive
  <2>1. Consecutive(origin, reads)
    BY <1>1 DEF ReaderInv
  <2>2. ASSUME reads # <<>>, origin = -1 PROVE Between(-1, reads[1]) = {}
    <3>1. -1 # None
      BY ReaderAssumption
    <3>2. QED
      BY <2>1, <2>2, <3>1 DEF Consecutive
  <2>3. QED
    BY <2>1, <2>2 DEF Consecutive, ReadsAreConsecutive
<1>2. QED
  BY <1>1, ReaderInvariance, RunOwnsReader, PTL

\* read_frame of a reader whose place is known, from open, a seek that succeeded
\* or an earlier frame, returns an empty image only at the end of the file, never
\* because the thread was late, waiting or being stopped.
THEOREM EmptyImageIsTheEnd == Spec => []EmptyMeansEnd
<1>1. ReaderInv => EmptyMeansEnd
  BY DEF ReaderInv
<1>2. QED
  BY <1>1, ReaderInvariance, RunOwnsReader, PTL

\* While open, seek or close works on the format context and the queue, the
\* decoding thread is gone, and a closed reader has none.
THEOREM ContextHasOneUser == Spec => []OneUserOfContext
<1>1. ReaderInv => OneUserOfContext
  BY DEF ReaderInv, Places, OneUserOfContext
<1>2. QED
  BY <1>1, ReaderInvariance, RunOwnsReader, PTL

-----------------------------------------------------------------------------
(* Sequences in ascending order, and the sets of their members. *)

Ordered(s) == \A i, j \in 1..Len(s) : i < j => s[i] < s[j]
Below(S, T) == \A x \in S, y \in T : x < y

\* The members of a sequence of frames.
LEMMA Members ==
  ASSUME NEW s \in Seq(Frame)
  PROVE  /\ Len(s) \in Nat /\ ToSet(s) = {s[i] : i \in 1..Len(s)} /\ ToSet(s) \subseteq Frame
         /\ \A i \in 1..Len(s) : s[i] \in Frame /\ s[i] \in Nat
         /\ s = <<>> => ToSet(s) = {}
<1>1. Len(s) \in Nat /\ DOMAIN s = 1..Len(s) /\ \A i \in 1..Len(s) : s[i] \in Frame
  BY LenProperties, ElementOfSeq
<1>2. s = <<>> => Len(s) = 0
  BY EmptySeq
<1>3. Frame \subseteq Nat
  BY Numbers
<1>4. ToSet(s) = {s[i] : i \in 1..Len(s)}
  BY <1>1 DEF ToSet
<1>5. ToSet(s) \subseteq Frame
  BY <1>1, <1>4
<1>6. \A i \in 1..Len(s) : s[i] \in Nat
  BY <1>1, <1>3
<1>7. s = <<>> => ToSet(s) = {}
  <2>1. SUFFICES ASSUME s = <<>> PROVE 1..Len(s) = {}
    BY <1>4
  <2>2. QED
    BY <2>1, <1>2
<1>8. QED
  BY <1>1, <1>4, <1>5, <1>6, <1>7

\* No frame, no order to keep.
LEMMA NoMembers == <<>> \in Seq(Frame) /\ Ordered(<<>>) /\ ToSet(<<>>) = {}
<1>1. <<>> \in Seq(Frame) /\ Len(<<>>) = 0
  BY EmptySeq
<1>2. QED
  BY <1>1, Members DEF Ordered

\* A frame behind all others is appended.
LEMMA AppendOrdered ==
  ASSUME NEW s \in Seq(Frame), NEW e \in Frame, Ordered(s), Below(ToSet(s), {e})
  PROVE  /\ Append(s, e) \in Seq(Frame) /\ Ordered(Append(s, e))
         /\ ToSet(Append(s, e)) = ToSet(s) \cup {e}
<1> DEFINE t == Append(s, e)
<1>1. /\ t \in Seq(Frame) /\ Len(s) \in Nat /\ Len(t) = Len(s) + 1 /\ t[Len(s) + 1] = e
      /\ \A i \in 1..Len(s) : t[i] = s[i]
  BY AppendProperties, LenProperties
<1> HIDE DEF t
<1>2. /\ ToSet(s) = {s[i] : i \in 1..Len(s)} /\ ToSet(t) = {t[i] : i \in 1..Len(t)}
  BY <1>1, Members
<1>3. \A i \in 1..Len(t) : i = Len(s) + 1 \/ i \in 1..Len(s)
  BY <1>1
<1>4. Ordered(t)
  <2>1. ASSUME NEW i \in 1..Len(t), NEW j \in 1..Len(t), i < j PROVE t[i] < t[j]
    <3>1. i \in 1..Len(s)
      BY <2>1, <1>1
    <3>2. CASE j = Len(s) + 1
      BY <3>1, <3>2, <1>1, <1>2 DEF Below
    <3>3. CASE j \in 1..Len(s)
      BY <3>1, <3>3, <2>1, <1>1 DEF Ordered
    <3>4. QED
      BY <3>2, <3>3, <1>3
  <2>2. QED
    BY <2>1 DEF Ordered
<1>5. ToSet(t) = ToSet(s) \cup {e}
  <2>1. Len(s) + 1 \in 1..Len(t) /\ \A i \in 1..Len(s) : i \in 1..Len(t)
    BY <1>1
  <2>2. QED
    BY <2>1, <1>1, <1>2, <1>3
<1>6. QED
  BY <1>1, <1>4, <1>5 DEF t

\* The first frame of a sequence is below the others.
LEMMA HeadOrdered ==
  ASSUME NEW s \in Seq(Frame), s # <<>>, Ordered(s)
  PROVE  /\ Head(s) \in Frame /\ Tail(s) \in Seq(Frame) /\ Ordered(Tail(s))
         /\ ToSet(s) = {Head(s)} \cup ToSet(Tail(s))
         /\ Below({Head(s)}, ToSet(Tail(s)))
<1> DEFINE t == Tail(s)
           h == Head(s)
<1>1. /\ Len(s) \in Nat \ {0} /\ Len(t) = Len(s) - 1 /\ t \in Seq(Frame)
      /\ h = s[1] /\ h \in Frame
      /\ \A i \in 1..Len(t) : t[i] = s[i + 1]
  BY HeadTailProperties, EmptySeq, LenProperties
<1> HIDE DEF t, h
<1>2. ToSet(s) = {s[i] : i \in 1..Len(s)} /\ ToSet(t) = {t[i] : i \in 1..Len(t)}
  BY <1>1, Members
<1>3. \A i \in 1..Len(t) : i + 1 \in 1..Len(s) /\ 1 < i + 1
  BY <1>1
<1>4. \A i \in 1..Len(s) : i = 1 \/ (i - 1 \in 1..Len(t) /\ (i - 1) + 1 = i)
  BY <1>1
<1>5. 1 \in 1..Len(s)
  BY <1>1
<1>6. Ordered(t)
  <2>1. ASSUME NEW i \in 1..Len(t), NEW j \in 1..Len(t), i < j PROVE t[i] < t[j]
    <3>1. i + 1 < j + 1 /\ i + 1 \in 1..Len(s) /\ j + 1 \in 1..Len(s)
      BY <2>1, <1>1
    <3>2. s[i + 1] < s[j + 1]
      BY <3>1 DEF Ordered
    <3>3. QED
      BY <3>2, <1>1
  <2>2. QED
    BY <2>1 DEF Ordered
<1>7. Below({h}, ToSet(t))
  <2>1. ASSUME NEW i \in 1..Len(t) PROVE h < t[i]
    <3>1. s[1] < s[i + 1]
      BY <1>3, <1>5 DEF Ordered
    <3>2. QED
      BY <3>1, <1>1
  <2>2. QED
    BY <2>1, <1>2 DEF Below
<1>8. ToSet(s) = {h} \cup ToSet(t)
  <2>1. ASSUME NEW i \in 1..Len(s) PROVE s[i] \in {h} \cup ToSet(t)
    <3>1. CASE i = 1
      BY <3>1, <1>1
    <3>2. CASE i - 1 \in 1..Len(t) /\ (i - 1) + 1 = i
      <4>1. t[i - 1] = s[i]
        BY <3>2, <1>1
      <4>2. QED
        BY <3>2, <4>1, <1>2
    <3>3. QED
      BY <3>1, <3>2, <1>4
  <2>2. ASSUME NEW i \in 1..Len(t) PROVE t[i] \in ToSet(s)
    BY <1>1, <1>2, <1>3
  <2>3. h \in ToSet(s)
    BY <1>1, <1>2, <1>5
  <2>4. QED
    BY <2>1, <2>2, <2>3, <1>2
<1>9. QED
  BY <1>1, <1>6, <1>7, <1>8 DEF t, h

\* The frames from one place to another.
LEMMA SliceOrdered ==
  ASSUME NEW s \in Seq(Frame), NEW m \in Nat, NEW n \in Nat, m >= 1, n <= Len(s), m <= n + 1,
         Ordered(s)
  PROVE  /\ SubSeq(s, m, n) \in Seq(Frame) /\ Ordered(SubSeq(s, m, n))
         /\ ToSet(SubSeq(s, m, n)) = {s[i] : i \in m..n}
<1> DEFINE t == SubSeq(s, m, n)
           k == n - m + 1
<1>1. /\ m \in Int /\ n \in Int /\ Len(s) \in Nat /\ k \in Nat
      /\ \A i \in m..n : s[i] \in Frame /\ i \in 1..Len(s)
  <2>1. Len(s) \in Nat
    BY LenProperties
  <2>2. \A i \in m..n : i \in 1..Len(s)
    BY <2>1
  <2>3. QED
    BY <2>1, <2>2, ElementOfSeq
<1>2. /\ t \in Seq(Frame)
      /\ Len(t) = IF m <= n THEN n - m + 1 ELSE 0
      /\ \A i \in 1..(n - m + 1) : t[i] = s[m + i - 1]
  BY <1>1, SubSeqProperties
<1>3. Len(t) = k
  BY <1>1, <1>2
<1> HIDE DEF t
<1>4. \A i \in 1..k : t[i] = s[m + i - 1] /\ m + i - 1 \in m..n
  BY <1>1, <1>2
<1>5. \A i \in m..n : i - m + 1 \in 1..k /\ m + (i - m + 1) - 1 = i
  BY <1>1
<1>6. Ordered(t)
  <2>1. ASSUME NEW i \in 1..k, NEW j \in 1..k, i < j PROVE t[i] < t[j]
    <3>1. m + i - 1 < m + j - 1 /\ m + i - 1 \in 1..Len(s) /\ m + j - 1 \in 1..Len(s)
      BY <2>1, <1>1, <1>4
    <3>2. s[m + i - 1] < s[m + j - 1]
      BY <3>1 DEF Ordered
    <3>3. QED
      BY <3>2, <1>4
  <2>2. QED
    BY <2>1, <1>3 DEF Ordered
<1>7. ToSet(t) = {s[i] : i \in m..n}
  <2>1. ToSet(t) = {t[i] : i \in 1..k}
    BY <1>2, <1>3, Members
  <2>2. ASSUME NEW i \in m..n PROVE s[i] \in ToSet(t)
    <3>1. t[i - m + 1] = s[i]
      BY <1>4, <1>5
    <3>2. QED
      BY <3>1, <2>1, <1>5
  <2>3. ASSUME NEW i \in 1..k PROVE t[i] \in {s[l] : l \in m..n}
    BY <1>4
  <2>4. QED
    BY <2>1, <2>2, <2>3
<1>8. QED
  BY <1>2, <1>6, <1>7 DEF t

\* Two sequences, one below the other, are joined.
LEMMA JoinOrdered ==
  ASSUME NEW s \in Seq(Frame), NEW t \in Seq(Frame), Ordered(s), Ordered(t),
         Below(ToSet(s), ToSet(t))
  PROVE  /\ s \o t \in Seq(Frame) /\ Ordered(s \o t)
         /\ ToSet(s \o t) = ToSet(s) \cup ToSet(t)
<1> DEFINE u == s \o t
<1>1. /\ Len(s) \in Nat /\ Len(t) \in Nat /\ u \in Seq(Frame) /\ Len(u) = Len(s) + Len(t)
      /\ \A i \in 1..(Len(s) + Len(t)) : u[i] = IF i <= Len(s) THEN s[i] ELSE t[i - Len(s)]
  BY ConcatProperties, LenProperties
<1> HIDE DEF u
<1>2. /\ ToSet(s) = {s[i] : i \in 1..Len(s)} /\ ToSet(t) = {t[i] : i \in 1..Len(t)}
      /\ ToSet(u) = {u[i] : i \in 1..Len(u)}
  BY <1>1, Members
<1>3. \A i \in 1..Len(s) : i \in 1..Len(u) /\ u[i] = s[i]
  BY <1>1
<1>4. \A i \in 1..Len(t) : Len(s) + i \in 1..Len(u) /\ u[Len(s) + i] = t[i]
  <2>1. ASSUME NEW i \in 1..Len(t)
        PROVE  /\ Len(s) + i \in 1..(Len(s) + Len(t)) /\ ~(Len(s) + i <= Len(s))
               /\ Len(s) + i - Len(s) = i
    BY <1>1
  <2>2. QED
    BY <2>1, <1>1
<1>5. \A i \in 1..Len(u) : \/ i \in 1..Len(s) /\ u[i] = s[i]
                           \/ i - Len(s) \in 1..Len(t) /\ u[i] = t[i - Len(s)] /\ i > Len(s)
  BY <1>1
<1>6. Ordered(u)
  <2>1. ASSUME NEW i \in 1..Len(u), NEW j \in 1..Len(u), i < j PROVE u[i] < u[j]
    <3>1. CASE j \in 1..Len(s)
      <4>1. i \in 1..Len(s)
        BY <3>1, <2>1, <1>1
      <4>2. QED
        BY <4>1, <3>1, <2>1, <1>3 DEF Ordered
    <3>2. CASE j - Len(s) \in 1..Len(t) /\ u[j] = t[j - Len(s)] /\ i \in 1..Len(s) /\ u[i] = s[i]
      BY <3>2, <1>2 DEF Below
    <3>3. CASE /\ j - Len(s) \in 1..Len(t) /\ u[j] = t[j - Len(s)]
               /\ i - Len(s) \in 1..Len(t) /\ u[i] = t[i - Len(s)]
      <4>1. i - Len(s) < j - Len(s)
        BY <2>1, <1>1
      <4>2. QED
        BY <4>1, <3>3 DEF Ordered
    <3>4. QED
      BY <3>1, <3>2, <3>3, <1>5
  <2>2. QED
    BY <2>1 DEF Ordered
<1>7. ToSet(u) = ToSet(s) \cup ToSet(t)
  BY <1>2, <1>3, <1>4, <1>5
<1>8. QED
  BY <1>1, <1>6, <1>7 DEF u

\* Consecutive frames are in ascending order.
LEMMA ConsecutiveOrdered ==
  ASSUME NEW f, NEW s \in Seq(Frame), Consecutive(f, s)
  PROVE  Ordered(s)
<1>1. Len(s) \in Nat /\ \A i \in 1..Len(s) : s[i] \in Nat
  BY Members
<1>2. \A i \in 1..(Len(s) - 1) : s[i] < s[i + 1]
  BY DEF Consecutive
<1>3. ASSUME NEW i \in 1..Len(s) PROVE \A j \in 1..Len(s) : i < j => s[i] < s[j]
  <2> DEFINE Bad == {j \in 1..Len(s) : i < j /\ ~(s[i] < s[j])}
  <2>1. SUFFICES ASSUME Bad # {} PROVE FALSE
    OBVIOUS
  <2>2. PICK j \in Bad : \A y \in Bad : j <= y
    <3>1. Bad \in SUBSET Nat
      BY <1>1
    <3>2. QED
      BY <3>1, <2>1, Least
  <2>3. j \in 1..Len(s) /\ i < j /\ ~(s[i] < s[j])
    OBVIOUS
  <2>4. /\ j - 1 \in 1..(Len(s) - 1) /\ j - 1 \in 1..Len(s) /\ (j - 1) + 1 = j
        /\ ~(j <= j - 1) /\ (i = j - 1 \/ i < j - 1)
    BY <2>3, <1>1
  <2>5. s[j - 1] < s[j]
    BY <2>4, <1>2
  <2>6. i = j - 1 \/ s[i] < s[j - 1]
    <3>1. j - 1 \notin Bad
      BY <2>2, <2>4
    <3>2. QED
      BY <3>1, <2>4
  <2>7. s[i] \in Nat /\ s[j] \in Nat /\ s[j - 1] \in Nat
    BY <2>3, <2>4, <1>1
  <2>8. QED
    BY <2>3, <2>5, <2>6, <2>7
<1>4. QED
  BY <1>3 DEF Ordered

\* The first k frames of a sequence.
LEMMA Cut ==
  ASSUME NEW s \in Seq(Frame), NEW k \in 0..Len(s)
  PROVE  /\ SubSeq(s, 1, k) \in Seq(Frame)
         /\ Len(SubSeq(s, 1, k)) = k
         /\ \A i \in 1..k : SubSeq(s, 1, k)[i] = s[i]
<1>1. Len(s) \in Nat
  BY LenProperties
<1>2. k \in Int /\ 1 \in Int /\ \A i \in 1..k : s[i] \in Frame
  BY <1>1, ElementOfSeq
<1>3. /\ SubSeq(s, 1, k) \in Seq(Frame)
      /\ Len(SubSeq(s, 1, k)) = IF 1 <= k THEN k - 1 + 1 ELSE 0
      /\ \A i \in 1..(k - 1 + 1) : SubSeq(s, 1, k)[i] = s[1 + i - 1]
  BY <1>2, SubSeqProperties
<1>4. k - 1 + 1 = k /\ \A i \in 1..k : 1 + i - 1 = i
  BY <1>1
<1>5. \A i \in 1..k : SubSeq(s, 1, k)[i] = s[i]
  BY <1>3, <1>4
<1>6. Len(SubSeq(s, 1, k)) = k
  BY <1>3, <1>1
<1>7. QED
  BY <1>3, <1>5, <1>6

-----------------------------------------------------------------------------
(* The run. *)

\* Before the loop.
Early == {"begin", "opened", "sought"}

\* The call the calling thread is in when it stops the decoding thread.
Owner ==
  /\ resumeAt \in Frame
  /\ main = "sought" => resumeAt > 0
  /\ caller \in Stopping =>
       \/ main = "opened" /\ call = Opening
       \/ main = "sought" /\ \E k \in Frame : call = Seeking(k)
       \/ main = "closeReader" /\ call = Closing

\* Frames are accepted under consecutive numbers, and the one behind the last of
\* them marks the end.
Numbering ==
  /\ start \in Nat
  /\ main \in Early => /\ reads = <<>> /\ start = 0 /\ writing = "none"
                       /\ accepted = {} /\ ~ended
  /\ main = "loop" => ~ended
  /\ eos = None \/ eos = start + Len(reads)
  /\ main \in Early \cup {"loop", "eos"} => eos = None
  /\ main \in {"join", "closeWriter", "closeReader"} => eos # None
  /\ accepted \subseteq start..(start + Len(reads))
  /\ eos = None => start + Len(reads) \notin accepted

\* They are taken out from number 0 on, ...
InOrder ==
  /\ delivered \in Seq(Nat)
  /\ \A n \in 0..(Len(delivered) - 1) : n \in accepted

\* ... up to the one that marks the end.
Delivery ==
  /\ InOrder
  /\ writing \in {"none", "pop", "open", "write", "done"}
  /\ writing = "none" => delivered = <<>>
  /\ writing \in {"pop", "open", "write"} /\ eos # None => Len(delivered) <= eos
  /\ writing \in {"open", "write"} => inHand = reads[Len(delivered)]
  /\ writing \in {"open", "write", "done"} => delivered # <<>>
  /\ writing = "done" => writerError \/ (eos # None /\ Len(delivered) = eos + 1)
  /\ main \in {"closeWriter", "closeReader"} => writing = "done"

\* The calls of the run stay those it makes at its place.
LEMMA OwnerStep == Owner /\ [Next]_vars => Owner'
<1> SUFFICES ASSUME Owner, [Next]_vars PROVE Owner'
  OBVIOUS
<1>1. ASSUME UNCHANGED <<caller, call, main, resumeAt>> PROVE Owner'
  BY <1>1 DEF Owner
<1>2. ASSUME caller' \notin Stopping, resumeAt' = resumeAt, main' # "sought" \/ main' = main
      PROVE  Owner'
  BY <1>2 DEF Owner
<1> USE DEF run, readerVars, pipe, past, stream
<1>3. CASE CloseWriter \/ Cancel \/ PopFrame \/ OpenForFirst \/ WriteInHand
  BY <1>1, <1>3 DEF CloseWriter, Cancel, PopFrame, OpenForFirst, WriteInHand
<1>4. CASE (Encoding \/ FinishFile) /\ UNCHANGED <<readerVars, run>>
  BY <1>1, <1>4
<1>5. CASE DecodingThread
  BY <1>1, <1>5 DEF DecodingThread, Decoding, DecodePacket, PushDecoded, LeaveLoop, Drain,
                    ExitDecoder
<1>6. CASE OpenFailed \/ BeginLoop \/ LeaveReadLoop
  BY <1>2, <1>6 DEF OpenFailed, BeginLoop, LeaveReadLoop, Stopping, Finished
<1>7. CASE BeginReadFrame \/ PushFrame \/ EndOfVideo
  BY <1>2, <1>7 DEF BeginReadFrame, PushFrame, EndOfVideo, BeginRead, ReadFrame, ReadNothing,
                    Stopping
<1>8. CASE RunCancelled \/ RunFailed \/ RunCompleted \/ NothingToRename
  BY <1>2, <1>8 DEF RunCancelled, RunFailed, RunCompleted, NothingToRename, Closed, Finished,
                    Stopping
<1>9. CASE PushEos \/ JoinWriting
  <2>1. caller \notin Stopping
    BY <1>9 DEF Owner, PushEos, JoinWriting
  <2>2. caller' = caller /\ resumeAt' = resumeAt /\ main' # "sought"
    BY <1>9 DEF PushEos, JoinWriting
  <2>3. QED
    BY <1>2, <2>1, <2>2
<1>10. CASE BeginOpen
  BY <1>10 DEF Owner, BeginOpen, StopDecoding
<1>11. CASE BeginSeek
  <2>1. resumeAt' = resumeAt /\ resumeAt > 0 /\ main' = "sought" /\ call' = Seeking(resumeAt)
    BY <1>11 DEF BeginSeek, StopDecoding
  <2>2. QED
    BY <2>1 DEF Owner
<1>12. CASE CloseReader
  BY <1>12 DEF Owner, CloseReader, StopDecoding
<1>13. CASE StoppingCalls /\ UNCHANGED <<writerVars, run>>
  <2>1. CASE ShutdownQueue \/ JoinDecoder
    BY <2>1, <1>13 DEF ShutdownQueue, JoinDecoder, Owner, Stopping
  <2>2. CASE OpenFile \/ OpenFails \/ CloseFile \/ \E k \in Frame : SeekFinds(k) \/ SeekFails(k)
    <3>1. caller' = "idle"
      BY <2>2 DEF OpenFile, OpenFails, CloseFile, SeekFinds, SeekFails, Return
    <3>2. QED
      BY <3>1, <1>2, <1>13 DEF Stopping
  <2>3. QED
    BY <1>13, <2>1, <2>2 DEF StoppingCalls
<1>14. CASE UNCHANGED vars
  BY <1>1, <1>14 DEF vars
<1>15. QED
  BY <1>3, <1>4, <1>5, <1>6, <1>7, <1>8, <1>9, <1>10, <1>11, <1>12, <1>13, <1>14
     DEF Next, Main, Writing, EncodingThread

\* What has been read changes only when a frame is read, when the end is, and when
\* the file is opened or sought in, before the loop.
LEMMA PastMoves ==
  ASSUME Owner, [Next]_vars
  PROVE  \/ UNCHANGED past
         \/ /\ main \in {"opened", "sought"} /\ UNCHANGED <<writerVars, run>>
            /\ reads' = <<>> /\ ~ended' /\ (origin' = -1 \/ resumeAt > 0)
         \/ PushFrame
         \/ EndOfVideo
<1> USE DEF readerVars
<1>1. CASE StoppingCalls /\ UNCHANGED <<writerVars, run>>
  <2>0. /\ Opening.name = "open" /\ Closing.name = "close"
        /\ \A k \in Frame : Seeking(k).name = "seek"
    BY DEF Opening, Closing, Seeking
  <2>1. CASE ShutdownQueue \/ JoinDecoder \/ CloseFile
    BY <2>1 DEF ShutdownQueue, JoinDecoder, CloseFile
  <2>2. CASE OpenFile \/ OpenFails
    <3>1. caller = "work" /\ call = Opening /\ Began(-1)
      BY <2>2 DEF OpenFile, OpenFails, AtWork
    <3>2. main \in {"opened", "sought"}
      BY <3>1, <2>0 DEF Owner, Stopping
    <3>3. QED
      BY <3>1, <3>2, <1>1 DEF Began
  <2>3. CASE \E k \in Frame : SeekFinds(k) \/ SeekFails(k)
    <3>1. PICK k \in Frame : SeekFinds(k) \/ SeekFails(k)
      BY <2>3
    <3>2. caller = "work" /\ call = Seeking(k) /\ reads' = <<>> /\ ended' = FALSE
      BY <3>1 DEF SeekFinds, SeekFails, AtWork, Began
    <3>3. main = "sought" /\ resumeAt > 0
      BY <3>2, <2>0 DEF Owner, Stopping
    <3>4. QED
      BY <3>2, <3>3, <1>1
  <2>4. QED
    BY <1>1, <2>1, <2>2, <2>3 DEF StoppingCalls
<1>2. CASE DecodingThread
  BY <1>2 DEF DecodingThread, Decoding, DecodePacket, PushDecoded, LeaveLoop, Drain, ExitDecoder
<1>3. CASE BeginOpen \/ BeginSeek \/ CloseReader \/ BeginReadFrame
  BY <1>3 DEF BeginOpen, BeginSeek, CloseReader, BeginReadFrame, StopDecoding, BeginRead
<1>4. CASE \/ OpenFailed \/ BeginLoop \/ LeaveReadLoop \/ PushEos \/ JoinWriting
           \/ CloseWriter \/ RunCancelled \/ RunFailed \/ RunCompleted \/ NothingToRename
  BY <1>4 DEF OpenFailed, BeginLoop, LeaveReadLoop, PushEos, JoinWriting, CloseWriter,
              RunCancelled, RunFailed, RunCompleted, NothingToRename
<1>5. CASE Writing \/ Cancel
  BY <1>5 DEF Writing, PopFrame, OpenForFirst, WriteInHand, Cancel
<1>6. CASE (Encoding \/ FinishFile) /\ UNCHANGED <<readerVars, run>>
  BY <1>6
<1>7. CASE UNCHANGED vars
  BY <1>7 DEF vars
<1>8. QED
  BY <1>1, <1>2, <1>3, <1>4, <1>5, <1>6, <1>7 DEF Next, Main, EncodingThread

\* No step accepts a frame out of turn, and only the end has the number behind the
\* last.
LEMMA NumberingStep ==
  ReaderInv /\ Owner /\ Numbering /\ [Next]_vars => Numbering'
<1> SUFFICES ASSUME ReaderInv, Owner, Numbering, [Next]_vars PROVE Numbering'
  OBVIOUS
<1>1. reads \in Seq(Frame) /\ Len(reads) \in Nat /\ start \in Nat
  <2>1. reads \in Seq(Frame)
    BY DEF ReaderInv, ReaderType
  <2>2. QED
    BY <2>1, LenProperties DEF Numbering
<1>2. None \notin Int
  BY ReaderAssumption
<1> DEFINE Rest == UNCHANGED <<start, accepted, eos, reads, ended>>
<1>3. ASSUME Rest, main' = main, writing' = writing \/ writing # "none" PROVE Numbering'
  BY <1>3 DEF Numbering, Early
<1>4. ASSUME Rest, UNCHANGED writing, main \in {"begin", "opened"}, main' \in Early \cup {"done"}
      PROVE  Numbering'
  BY <1>4 DEF Numbering, Early
<1>5. ASSUME Rest, UNCHANGED writing,
             \/ main = "join" /\ main' = "closeWriter"
             \/ main = "closeWriter" /\ main' = "closeReader"
             \/ main' = "done"
             \/ main = "loop" /\ main' = "eos"
      PROVE  Numbering'
  BY <1>5 DEF Numbering, Early
<1> USE DEF pipe
<1>6. CASE PushFrame
  <2>1. PICK f \in Frame : ReadFrame(f)
    BY <1>6 DEF PushFrame
  <2>2. /\ f \in Frame /\ reads' = Append(reads, f)
        /\ UNCHANGED <<main, writing, start, eos, ended>>
        /\ main = "loop" /\ accepted' = accepted \cup {start + Len(reads)}
    BY <2>1, <1>6 DEF ReadFrame, PushFrame, NextNumber, Pipe!Accept
  <2>3. Len(reads') = Len(reads) + 1
    BY <2>2, <1>1, AppendProperties
  <2>4. eos' = None /\ ~ended'
    BY <2>2 DEF Numbering
  <2>5. /\ accepted' \subseteq start'..(start' + Len(reads'))
        /\ start' + Len(reads') \notin accepted'
    <3>1. accepted \subseteq start..(start + Len(reads))
      BY DEF Numbering
    <3>2. \A n \in accepted' : n \in start..(start + Len(reads))
      BY <2>2, <3>1, <1>1
    <3>3. /\ \A n \in accepted' : n \in start..(start + (Len(reads) + 1))
          /\ start + (Len(reads) + 1) \notin accepted'
      BY <3>2, <1>1
    <3>4. QED
      BY <3>3, <2>2, <2>3
  <2>6. QED
    BY <2>2, <2>4, <2>5, <1>1 DEF Numbering, Early
<1>7. CASE EndOfVideo
  <2>1. /\ UNCHANGED <<start, accepted, eos, reads, writing>>
        /\ main = "loop" /\ main' = "eos"
    BY <1>7 DEF EndOfVideo, ReadNothing
  <2>2. QED
    BY <2>1 DEF Numbering, Early
<1>8. ASSUME main \in {"opened", "sought"}, UNCHANGED run, reads' = <<>>, ~ended'
      PROVE  Numbering'
  <2>1. reads = <<>>
    BY <1>8 DEF Numbering, Early
  <2>2. UNCHANGED <<start, accepted, eos, reads, writing, main>>
    BY <1>8, <2>1 DEF run
  <2>3. QED
    BY <2>2, <1>8 DEF Numbering, Early
<1>9. ASSUME UNCHANGED past PROVE Numbering'
  <2> USE <1>9 DEF past
  <2>1. CASE Writing
    BY <1>3, <2>1 DEF Writing, PopFrame, OpenForFirst, WriteInHand, Pipe!Deliver
  <2>2. CASE BeginReadFrame \/ CloseWriter
    BY <1>3, <2>2 DEF BeginReadFrame, CloseWriter, run
  <2>11. CASE Cancel
    BY <1>3, <2>11 DEF Cancel
  <2>12. CASE DecodingThread \/ EncodingThread
    BY <1>3, <2>12 DEF DecodingThread, EncodingThread, run
  <2>13. CASE (StoppingCalls \/ FinishFile) /\ UNCHANGED run
    BY <1>3, <2>13 DEF run
  <2>14. CASE UNCHANGED vars
    BY <1>3, <2>14 DEF vars, run
  <2>3. CASE BeginOpen \/ BeginSeek \/ OpenFailed
    BY <1>4, <2>3 DEF BeginOpen, BeginSeek, OpenFailed, Early, Finished
  <2>4. CASE BeginLoop
    <3>1. main \in Early /\ main' = "loop" /\ writing' = "pop" /\ UNCHANGED <<accepted, eos>>
      BY <2>4 DEF BeginLoop, Early
    <3>2. start' \in Nat
      <4>1. start' = 0 \/ start' = resumeAt
        BY <2>4 DEF BeginLoop
      <4>2. 0 \in Nat /\ resumeAt \in Nat
        BY ReaderAssumption DEF Owner, Frame
      <4>3. QED
        BY <4>1, <4>2
    <3>3. accepted' = {} /\ eos' = None /\ reads' = <<>> /\ ~ended'
      BY <3>1 DEF Numbering
    <3>4. QED
      BY <3>1, <3>2, <3>3 DEF Numbering, Early
  <2>5. CASE \/ LeaveReadLoop \/ CloseReader
             \/ RunCancelled \/ RunFailed \/ RunCompleted \/ NothingToRename
    BY <1>5, <2>5 DEF LeaveReadLoop, CloseReader, RunCancelled, RunFailed, RunCompleted,
                      NothingToRename, Finished
  <2>6. CASE JoinWriting
    BY <1>5, <2>6 DEF JoinWriting, Pipe!Close
  <2>7. CASE PushEos
    <3>1. /\ UNCHANGED <<start, reads, writing>> /\ main' = "join"
          /\ eos' = start + Len(reads) /\ accepted' = accepted \cup {start + Len(reads)}
      BY <2>7 DEF PushEos, NextNumber, Pipe!Accept
    <3>2. eos' # None
      <4>1. start + Len(reads) \in Int
        BY <1>1
      <4>2. QED
        BY <4>1, <3>1, <1>2
    <3>3. accepted' \subseteq start'..(start' + Len(reads'))
      <4>1. accepted \subseteq start..(start + Len(reads))
        BY DEF Numbering
      <4>2. \A n \in accepted' : n \in start..(start + Len(reads))
        BY <3>1, <4>1, <1>1
      <4>3. QED
        BY <4>2, <3>1
    <3>4. QED
      BY <3>1, <3>2, <3>3, <1>1 DEF Numbering, Early
  <2>8. CASE Main
    BY <2>8, <2>2, <2>3, <2>4, <2>5, <2>6, <2>7, <2>13, <1>6, <1>7 DEF Main
  <2>9. QED
    BY <2>1, <2>8, <2>11, <2>12, <2>14 DEF Next
<1>10. QED
  BY <1>6, <1>7, <1>8, <1>9, PastMoves

\* So a frame is taken out only after it has been read, and none if numbering has
\* not begun with 0.
LEMMA Bounds ==
  ASSUME ReaderInv, Numbering, Delivery
  PROVE  /\ reads \in Seq(Frame) /\ Len(reads) \in Nat
         /\ Len(delivered) \in Nat
         /\ delivered # <<>> <=> Len(delivered) > 0
         /\ Len(delivered) > 0 => start = 0
         /\ writing \in {"pop", "open", "write"} => Len(delivered) <= Len(reads)
         /\ Len(delivered) - 1 <= Len(reads)
         /\ Len(delivered) \in accepted =>
              /\ start = 0 /\ Len(delivered) <= Len(reads)
              /\ eos = None => Len(delivered) < Len(reads)
<1>1. reads \in Seq(Frame) /\ Len(reads) \in Nat
  <2>1. reads \in Seq(Frame)
    BY DEF ReaderInv, ReaderType
  <2>2. QED
    BY <2>1, LenProperties
<1>2. Len(delivered) \in Nat /\ (delivered # <<>> <=> Len(delivered) > 0)
  <2>1. delivered \in Seq(Nat)
    BY DEF Delivery, InOrder
  <2>2. Len(delivered) \in Nat /\ (delivered # <<>> => Len(delivered) \in Nat \ {0})
    BY <2>1, EmptySeq, LenProperties
  <2>3. delivered = <<>> => Len(delivered) = 0
    BY EmptySeq
  <2>4. QED
    BY <2>2, <2>3
<1>3. \A n \in accepted : n \in Int /\ start <= n /\ n <= start + Len(reads)
  <2>1. accepted \subseteq start..(start + Len(reads)) /\ start \in Nat
    BY DEF Numbering
  <2>2. QED
    BY <2>1, <1>1
<1>4. \A n \in 0..(Len(delivered) - 1) : n \in accepted
  BY DEF Delivery, InOrder
<1>5. Len(delivered) > 0 => start = 0
  <2>1. Len(delivered) > 0 => 0 \in accepted
    BY <1>2, <1>4
  <2>2. start \in Nat
    BY DEF Numbering
  <2>3. QED
    BY <2>1, <2>2, <1>3
<1>6. Len(delivered) > 0 => Len(delivered) - 1 \in accepted /\ Len(delivered) - 1 <= Len(reads)
  <2>1. ASSUME Len(delivered) > 0 PROVE Len(delivered) - 1 \in accepted
    BY <2>1, <1>2, <1>4
  <2>2. QED
    BY <2>1, <1>1, <1>2, <1>3, <1>5
<1>7. ASSUME writing \in {"pop", "open", "write"} PROVE Len(delivered) <= Len(reads)
  <2>1. CASE Len(delivered) = 0
    BY <2>1, <1>1
  <2>2. CASE Len(delivered) > 0 /\ eos = None
    <3>1. Len(reads) \notin accepted
      <4>1. start + Len(reads) \notin accepted /\ start = 0
        BY <2>2, <1>5 DEF Numbering
      <4>2. QED
        BY <4>1, <1>1
    <3>2. QED
      BY <3>1, <2>2, <1>1, <1>2, <1>6
  <2>3. CASE Len(delivered) > 0 /\ eos # None
    <3>1. Len(delivered) <= eos
      BY <2>3, <1>7 DEF Delivery
    <3>2. eos = start + Len(reads) /\ start = 0
      BY <2>3, <1>5 DEF Numbering
    <3>3. QED
      BY <3>1, <3>2, <1>1
  <2>4. QED
    BY <2>1, <2>2, <2>3, <1>2
<1>8. ASSUME Len(delivered) \in accepted
      PROVE  /\ start = 0 /\ Len(delivered) <= Len(reads)
             /\ eos = None => Len(delivered) < Len(reads)
  <2>1. start = 0
    <3>1. CASE Len(delivered) = 0
      BY <3>1, <1>8, <1>3 DEF Numbering
    <3>2. CASE Len(delivered) # 0
      BY <3>2, <1>2, <1>5
    <3>3. QED
      BY <3>1, <3>2
  <2>2. eos = None => start + Len(reads) \notin accepted
    BY DEF Numbering
  <2>3. start + Len(reads) = Len(reads)
    BY <2>1, <1>1
  <2>4. QED
    BY <2>1, <2>2, <2>3, <1>8, <1>1, <1>2, <1>3
<1>9. QED
  BY <1>1, <1>2, <1>5, <1>6, <1>7, <1>8

\* A frame is taken out and looked at.
LEMMA PopMoves ==
  ASSUME ReaderInv, Numbering, Delivery, PopFrame
  PROVE  /\ writing = "pop" /\ start = 0
         /\ delivered' = Append(delivered, Len(delivered))
         /\ Len(delivered') = Len(delivered) + 1 /\ Len(delivered) \in accepted
         /\ \/ writing' = "done" /\ eos # None /\ Len(delivered) = eos
            \/ /\ writing' = IF writerOpen THEN "write" ELSE "open"
               /\ inHand' = reads[Len(delivered) + 1]
               /\ Len(delivered) < Len(reads)
               /\ eos # None => Len(delivered) < eos
         /\ UNCHANGED <<readerVars, writerVars, main, resumeAt, start, eos, accepted,
                        cancelled, writerError>>
<1>1. /\ writing = "pop" /\ Len(delivered) \in accepted
      /\ delivered' = Append(delivered, Len(delivered))
      /\ UNCHANGED <<readerVars, writerVars, main, resumeAt, start, eos, accepted,
                     cancelled, writerError>>
  BY DEF PopFrame, Pipe!Deliver
<1>2. Len(delivered) \in Nat /\ Len(reads) \in Nat
  BY Bounds
<1>3. start = 0 /\ Len(delivered) <= Len(reads) /\ (eos = None => Len(delivered) < Len(reads))
  BY <1>1, Bounds
<1>4. Len(delivered') = Len(delivered) + 1
  <2>1. delivered \in Seq(Nat)
    BY DEF Delivery, InOrder
  <2>2. QED
    BY <2>1, <1>1, <1>2, AppendProperties
<1>5. CASE Len(delivered) = eos
  <2>1. writing' = "done"
    BY <1>5 DEF PopFrame
  <2>2. eos # None
    BY <1>5, <1>2, ReaderAssumption
  <2>3. QED
    BY <2>1, <2>2, <1>1, <1>3, <1>4, <1>5
<1>6. CASE Len(delivered) # eos
  <2>1. /\ writing' = IF writerOpen THEN "write" ELSE "open"
        /\ inHand' = reads[Len(delivered) - start + 1]
    BY <1>6 DEF PopFrame, Content
  <2>2. Len(delivered) - start + 1 = Len(delivered) + 1
    BY <1>2, <1>3
  <2>3. eos # None => eos = Len(reads)
    <3>1. eos # None => eos = start + Len(reads)
      BY DEF Numbering
    <3>2. QED
      BY <3>1, <1>2, <1>3
  <2>4. Len(delivered) < Len(reads) /\ (eos # None => Len(delivered) < eos)
    BY <2>3, <1>2, <1>3, <1>6
  <2>5. QED
    BY <2>1, <2>2, <2>4, <1>1, <1>3, <1>4
<1>7. QED
  BY <1>5, <1>6

\* Frames are taken out in order, and none behind the end.
LEMMA DeliveryStep ==
  ReaderInv /\ Owner /\ Numbering /\ Delivery /\ [Next]_vars => Delivery'
<1> SUFFICES ASSUME ReaderInv, Owner, Numbering, Delivery, [Next]_vars PROVE Delivery'
  OBVIOUS
<1>1. /\ reads \in Seq(Frame) /\ Len(reads) \in Nat /\ Len(delivered) \in Nat
      /\ delivered # <<>> <=> Len(delivered) > 0
      /\ Len(delivered) > 0 => start = 0
      /\ writing \in {"pop", "open", "write"} => Len(delivered) <= Len(reads)
  BY Bounds
<1> DEFINE Same == UNCHANGED <<delivered, writing, eos, inHand, writerError>>
           Places2 == main' \in {"closeWriter", "closeReader"} =>
                       main \in {"closeWriter", "closeReader"} \/ writing = "done"
<1>2. ASSUME Same, Places2, accepted \subseteq accepted',
             reads' = reads \/ writing = "none"
      PROVE  Delivery'
  <2>1. InOrder'
    BY <1>2 DEF Delivery, InOrder
  <2>2. QED
    BY <2>1, <1>2 DEF Delivery
<1> USE DEF pipe
<1>3. CASE PushFrame
  <2>1. PICK f \in Frame : ReadFrame(f)
    BY <1>3 DEF PushFrame
  <2>2. /\ reads' = Append(reads, f) /\ Same /\ main' = main /\ accepted \subseteq accepted'
    BY <2>1, <1>3 DEF ReadFrame, PushFrame, Pipe!Accept
  <2>3. writing \in {"open", "write"} => reads'[Len(delivered)] = reads[Len(delivered)]
    <3>1. ASSUME writing \in {"open", "write"} PROVE Len(delivered) \in 1..Len(reads)
      <4>1. Len(delivered) > 0 /\ Len(delivered) <= Len(reads)
        BY <3>1, <1>1 DEF Delivery
      <4>2. QED
        BY <4>1, <1>1
    <3>2. QED
      BY <3>1, <2>2, <1>1, AppendProperties
  <2>4. InOrder'
    BY <2>2 DEF Delivery, InOrder
  <2>5. QED
    BY <2>2, <2>3, <2>4 DEF Delivery
<1>4. CASE PopFrame
  <2>1. /\ writing = "pop" /\ Len(delivered') = Len(delivered) + 1
        /\ delivered' = Append(delivered, Len(delivered)) /\ Len(delivered) \in accepted
        /\ UNCHANGED <<main, eos, accepted, writerError, reads>>
    BY <1>4, PopMoves DEF readerVars, past
  <2>2. delivered' \in Seq(Nat) /\ delivered' # <<>>
    <3>1. delivered \in Seq(Nat)
      BY DEF Delivery, InOrder
    <3>2. QED
      BY <3>1, <2>1, <1>1, AppendProperties
  <2>3. \A n \in 0..(Len(delivered') - 1) : n \in accepted'
    <3>1. \A n \in 0..(Len(delivered) - 1) : n \in accepted
      BY DEF Delivery, InOrder
    <3>2. ASSUME NEW n \in 0..(Len(delivered') - 1) PROVE n \in accepted
      <4>1. n \in 0..(Len(delivered) - 1) \/ n = Len(delivered)
        BY <2>1, <1>1
      <4>2. QED
        BY <4>1, <3>1, <2>1
    <3>3. QED
      BY <3>2, <2>1
  <2>8. InOrder'
    BY <2>2, <2>3 DEF InOrder
  <2>4. main' \notin {"closeWriter", "closeReader"}
    BY <2>1 DEF Delivery
  <2>5. CASE writing' = "done" /\ eos # None /\ Len(delivered) = eos
    <3>1. eos' # None /\ Len(delivered') = eos' + 1
      BY <2>1, <2>5
    <3>2. QED
      BY <2>1, <2>2, <2>8, <2>4, <2>5, <3>1 DEF Delivery
  <2>6. CASE /\ writing' = IF writerOpen THEN "write" ELSE "open"
             /\ inHand' = reads[Len(delivered) + 1]
             /\ eos # None => Len(delivered) < eos
    <3>1. writing' \in {"open", "write"}
      BY <2>6
    <3>2. eos' # None => Len(delivered') <= eos'
      <4>1. eos # None => eos = start + Len(reads) /\ start \in Nat
        BY DEF Numbering
      <4>2. eos # None => Len(delivered) + 1 <= eos
        BY <4>1, <2>6, <1>1
      <4>3. QED
        BY <4>2, <2>1
    <3>3. inHand' = reads'[Len(delivered')]
      BY <2>1, <2>6
    <3>4. QED
      BY <2>2, <2>8, <2>4, <3>1, <3>2, <3>3 DEF Delivery
  <2>7. QED
    BY <2>5, <2>6, <1>4, PopMoves
<1>5. CASE OpenForFirst
  <2>1. /\ writing = "open" /\ UNCHANGED <<reads, main, inHand, eos, delivered, accepted>>
    BY <1>5 DEF OpenForFirst, readerVars, past
  <2>2. writing' = "write" \/ (writing' = "done" /\ writerError' = TRUE)
    BY <1>5 DEF OpenForFirst
  <2>3. InOrder'
    BY <2>1 DEF Delivery, InOrder
  <2>4. QED
    BY <2>1, <2>2, <2>3 DEF Delivery
<1>6. CASE WriteInHand
  <2>1. /\ writing = "write" /\ writing' = "pop"
        /\ UNCHANGED <<reads, main, eos, delivered, accepted, writerError>>
    BY <1>6 DEF WriteInHand, readerVars, past
  <2>2. InOrder'
    BY <2>1 DEF Delivery, InOrder
  <2>3. QED
    BY <2>1, <2>2 DEF Delivery
<1>7. ASSUME main \in {"opened", "sought"}, UNCHANGED run PROVE Delivery'
  <2>1. writing = "none"
    BY <1>7 DEF Numbering, Early
  <2>2. QED
    BY <2>1, <1>2, <1>7 DEF run
<1>8. CASE EndOfVideo
  BY <1>2, <1>8 DEF EndOfVideo, ReadNothing
<1>9. ASSUME UNCHANGED past PROVE Delivery'
  <2> USE <1>9 DEF past
  <2>1. CASE Cancel
    BY <1>2, <2>1 DEF Cancel
  <2>2. CASE BeginReadFrame \/ CloseWriter
    BY <1>2, <2>2 DEF BeginReadFrame, CloseWriter, run
  <2>3. CASE DecodingThread \/ EncodingThread
    BY <1>2, <2>3 DEF DecodingThread, EncodingThread, run
  <2>4. CASE (StoppingCalls \/ FinishFile) /\ UNCHANGED run
    BY <1>2, <2>4 DEF run
  <2>5. CASE UNCHANGED vars
    BY <1>2, <2>5 DEF vars, run
  <2>6. CASE BeginOpen \/ BeginSeek \/ OpenFailed \/ LeaveReadLoop \/ CloseReader
    BY <1>2, <2>6 DEF BeginOpen, BeginSeek, OpenFailed, LeaveReadLoop, CloseReader, Finished
  <2>7. CASE RunCancelled \/ RunFailed \/ RunCompleted \/ NothingToRename
    BY <1>2, <2>7 DEF RunCancelled, RunFailed, RunCompleted, NothingToRename, Finished
  <2>8. CASE BeginLoop
    <3>1. writing = "none" /\ writing' = "pop" /\ main' = "loop" /\ eos = None
      BY <2>8 DEF BeginLoop, Numbering, Early
    <3>2. UNCHANGED <<delivered, accepted, eos>>
      BY <2>8 DEF BeginLoop
    <3>3. InOrder'
      BY <3>2 DEF Delivery, InOrder
    <3>4. eos' = None
      BY <3>1, <3>2
    <3>5. QED
      BY <3>1, <3>2, <3>3, <3>4 DEF Delivery
  <2>9. CASE JoinWriting
    BY <1>2, <2>9 DEF JoinWriting, Pipe!Close
  <2>10. CASE PushEos
    <3>1. /\ UNCHANGED <<delivered, writing, inHand, writerError, reads>> /\ main' = "join"
          /\ eos' = start + Len(reads) /\ accepted \subseteq accepted' /\ eos = None
      BY <2>10 DEF PushEos, NextNumber, Pipe!Accept, Numbering
    <3>2. writing \in {"pop", "open", "write"} => Len(delivered) <= eos'
      <4>1. start \in Nat
        BY DEF Numbering
      <4>2. QED
        BY <4>1, <3>1, <1>1
    <3>3. InOrder'
      BY <3>1 DEF Delivery, InOrder
    <3>4. QED
      BY <3>1, <3>2, <3>3 DEF Delivery
  <2>11. CASE Main
    BY <2>11, <2>2, <2>4, <2>6, <2>7, <2>8, <2>9, <2>10, <1>3, <1>8 DEF Main
  <2>12. QED
    BY <2>1, <2>3, <2>5, <2>11, <1>4, <1>5, <1>6 DEF Next, Writing
<1>10. QED
  BY <1>3, <1>7, <1>8, <1>9, PastMoves

-----------------------------------------------------------------------------
(* The writer. *)

\* How many frames the writer has been given, and which.
Given == IF writing = "none" THEN 0
         ELSE IF writing = "pop" THEN Len(delivered) ELSE Len(delivered) - 1
Handed == SubSeq(reads, 1, Given)

\* The frames given, G, are accounted for: they are in the queue, in the encoder, in
\* the file or lost, each at one place, and the later ones are further behind.
Accounted(G, queue, held, file, gone) ==
  /\ G = ((gone \cup ToSet(file)) \cup ToSet(held)) \cup ToSet(queue)
  /\ file \in Seq(Frame) /\ held \in Seq(Frame) /\ queue \in Seq(Frame)
  /\ Ordered(file) /\ Ordered(held) /\ Ordered(queue)
  /\ Below(ToSet(file), ToSet(held))
  /\ Below((gone \cup ToSet(file)) \cup ToSet(held), ToSet(queue))
  /\ gone \cap (ToSet(file) \cup ToSet(held)) = {}
  /\ G \subseteq Frame

\* It is so of an empty file, ...
LEMMA AccountBegins == Accounted({}, <<>>, <<>>, <<>>, {})
BY NoMembers DEF Accounted, Below

\* ... when a frame is queued, ...
LEMMA AccountPush ==
  ASSUME NEW G, NEW queue, NEW held, NEW file, NEW gone, NEW e \in Frame,
         Accounted(G, queue, held, file, gone), Below(G, {e})
  PROVE  Accounted(G \cup {e}, Append(queue, e), held, file, gone)
<1>1. Below(ToSet(queue), {e})
  BY DEF Accounted, Below
<1>2. /\ Append(queue, e) \in Seq(Frame) /\ Ordered(Append(queue, e))
      /\ ToSet(Append(queue, e)) = ToSet(queue) \cup {e}
  BY <1>1, AppendOrdered DEF Accounted
<1>3. QED
  BY <1>2 DEF Accounted, Below

\* ... when the encoding thread takes a frame, which enters the encoder or is lost, ...
LEMMA AccountTake ==
  ASSUME NEW G, NEW queue, NEW held, NEW file, NEW gone,
         Accounted(G, queue, held, file, gone), queue # <<>>
  PROVE  /\ Head(queue) \in Frame
         /\ Accounted(G, Tail(queue), Append(held, Head(queue)), file, gone)
         /\ Accounted(G, Tail(queue), held, file, gone \cup {Head(queue)})
<1> DEFINE e == Head(queue)
           rest == Tail(queue)
<1>1. /\ e \in Frame /\ rest \in Seq(Frame) /\ Ordered(rest)
      /\ ToSet(queue) = {e} \cup ToSet(rest) /\ Below({e}, ToSet(rest))
  BY HeadOrdered DEF Accounted
<1> HIDE DEF e, rest
<1>2. Below((gone \cup ToSet(file)) \cup ToSet(held), {e})
  BY <1>1 DEF Accounted, Below
<1>3. /\ Append(held, e) \in Seq(Frame) /\ Ordered(Append(held, e))
      /\ ToSet(Append(held, e)) = ToSet(held) \cup {e}
  <2>1. Below(ToSet(held), {e})
    BY <1>2 DEF Below
  <2>2. QED
    BY <2>1, <1>1, AppendOrdered DEF Accounted
<1>4. e \in Nat /\ ~(e < e)
  BY <1>1, Numbers
<1>5. e \notin (gone \cup ToSet(file)) \cup ToSet(held)
  BY <1>2, <1>4 DEF Below
<1>6. Accounted(G, rest, Append(held, e), file, gone)
  <2>1. Below(ToSet(file), ToSet(held) \cup {e})
    BY <1>2 DEF Accounted, Below
  <2>2. Below((gone \cup ToSet(file)) \cup (ToSet(held) \cup {e}), ToSet(rest))
    BY <1>1 DEF Accounted, Below
  <2>3. QED
    BY <2>1, <2>2, <1>1, <1>3, <1>5 DEF Accounted
<1>7. Accounted(G, rest, held, file, gone \cup {e})
  <2>1. Below(((gone \cup {e}) \cup ToSet(file)) \cup ToSet(held), ToSet(rest))
    BY <1>1 DEF Accounted, Below
  <2>2. QED
    BY <2>1, <1>1, <1>5 DEF Accounted
<1>8. QED
  BY <1>1, <1>6, <1>7 DEF e, rest

\* ... when of the frames held the first j are written, those up to k are lost, and
\* the rest stays in the encoder, ...
LEMMA AccountEmit ==
  ASSUME NEW G, NEW queue, NEW held, NEW file, NEW gone,
         Accounted(G, queue, held, file, gone),
         NEW j \in Nat, NEW k \in Nat, j <= k, k <= Len(held)
  PROVE  Accounted(G, queue, SubSeq(held, k + 1, Len(held)), file \o SubSeq(held, 1, j),
                   gone \cup ToSet(SubSeq(held, j + 1, k)))
<1> DEFINE n == Len(held)
           a == SubSeq(held, 1, j)
           b == SubSeq(held, j + 1, k)
           c == SubSeq(held, k + 1, n)
<1>1. held \in Seq(Frame) /\ Ordered(held) /\ n \in Nat
  BY LenProperties DEF Accounted
<1>2. a \in Seq(Frame) /\ Ordered(a) /\ ToSet(a) = {held[i] : i \in 1..j}
  BY <1>1, SliceOrdered
<1>3. ToSet(b) = {held[i] : i \in (j + 1)..k}
  <2>1. j + 1 \in Nat /\ j + 1 >= 1 /\ j + 1 <= k + 1
    OBVIOUS
  <2>2. QED
    BY <2>1, <1>1, SliceOrdered
<1>4. c \in Seq(Frame) /\ Ordered(c) /\ ToSet(c) = {held[i] : i \in (k + 1)..n}
  <2>1. k + 1 \in Nat /\ k + 1 >= 1 /\ k + 1 <= n + 1 /\ n <= Len(held)
    BY <1>1
  <2>2. QED
    BY <2>1, <1>1, SliceOrdered
<1>5. ToSet(held) = {held[i] : i \in 1..n}
  BY <1>1, Members
<1> HIDE DEF a, b, c, n
<1>6. /\ 1..n = (1..j \cup (j + 1)..k) \cup (k + 1)..n
      /\ \A x \in 1..j, y \in (j + 1)..k : x \in 1..n /\ y \in 1..n /\ x < y
      /\ \A x \in 1..j, y \in (k + 1)..n : x \in 1..n /\ y \in 1..n /\ x < y
      /\ \A x \in (j + 1)..k, y \in (k + 1)..n : x \in 1..n /\ y \in 1..n /\ x < y
  BY <1>1 DEF n
<1>7. ToSet(held) = (ToSet(a) \cup ToSet(b)) \cup ToSet(c)
  BY <1>2, <1>3, <1>4, <1>5, <1>6
<1>8. \A x, y \in 1..n : x < y => held[x] < held[y]
  BY <1>1 DEF Ordered, n
<1>9. Below(ToSet(a), ToSet(b)) /\ Below(ToSet(a), ToSet(c)) /\ Below(ToSet(b), ToSet(c))
  BY <1>2, <1>3, <1>4, <1>6, <1>8 DEF Below
<1>10. /\ file \o a \in Seq(Frame) /\ Ordered(file \o a)
       /\ ToSet(file \o a) = ToSet(file) \cup ToSet(a)
  <2>1. Below(ToSet(file), ToSet(a))
    BY <1>7 DEF Accounted, Below
  <2>2. QED
    BY <2>1, <1>2, JoinOrdered DEF Accounted
<1>11. ToSet(b) \cap ((ToSet(file) \cup ToSet(a)) \cup ToSet(c)) = {}
  <2>1. Below(ToSet(file), ToSet(b))
    BY <1>7 DEF Accounted, Below
  <2>2. \A x \in ToSet(b) : x \in Nat /\ ~(x < x)
    <3>1. ToSet(b) \subseteq Nat
      BY <1>1, <1>7, Members, Numbers
    <3>2. \A x \in Nat : ~(x < x)
      OBVIOUS
    <3>3. QED
      BY <3>1, <3>2
  <2>3. QED
    BY <2>1, <2>2, <1>9 DEF Below
<1>12. Below(ToSet(file \o a), ToSet(c))
  BY <1>7, <1>9, <1>10 DEF Accounted, Below
<1>13. Below(((gone \cup ToSet(b)) \cup ToSet(file \o a)) \cup ToSet(c), ToSet(queue))
  BY <1>7, <1>10 DEF Accounted, Below
<1>14. (gone \cup ToSet(b)) \cap (ToSet(file \o a) \cup ToSet(c)) = {}
  BY <1>7, <1>10, <1>11 DEF Accounted
<1>15. G = (((gone \cup ToSet(b)) \cup ToSet(file \o a)) \cup ToSet(c)) \cup ToSet(queue)
  BY <1>7, <1>10 DEF Accounted
<1>16. Accounted(G, queue, c, file \o a, gone \cup ToSet(b))
  BY <1>4, <1>10, <1>12, <1>13, <1>14, <1>15 DEF Accounted
<1>17. QED
  BY <1>16 DEF a, b, c, n

\* ... and when the whole file is lost.
LEMMA AccountLoss ==
  ASSUME NEW G, NEW queue, NEW file, NEW gone, Accounted(G, queue, <<>>, file, gone)
  PROVE  Accounted(G, queue, <<>>, <<>>, gone \cup ToSet(file))
BY NoMembers DEF Accounted, Below

\* The steps that concern the writer.
LEMMA WriterMoves ==
  ASSUME [Next]_vars
  PROVE  \/ PopFrame \/ OpenForFirst \/ WriteInHand
         \/ BeginLoop \/ CloseWriter \/ CloseReader
         \/ FinishFile /\ UNCHANGED <<readerVars, run>>
         \/ EncodingThread \/ RunCompleted
         \/ /\ UNCHANGED <<writerVars, writing, delivered, inHand, writerError>>
            /\ main' = "closeReader" => main = "closeReader"
<1> USE DEF pipe
<1>1. CASE StoppingCalls /\ UNCHANGED <<writerVars, run>>
  BY <1>1 DEF run
<1>2. CASE DecodingThread
  BY <1>2 DEF DecodingThread, run
<1>3. CASE Cancel
  BY <1>3 DEF Cancel
<1>4. CASE UNCHANGED vars
  BY <1>4 DEF vars, run
<1>5. CASE BeginReadFrame
  BY <1>5 DEF BeginReadFrame, run
<1>6. CASE BeginOpen \/ BeginSeek \/ OpenFailed \/ LeaveReadLoop
  BY <1>6 DEF BeginOpen, BeginSeek, OpenFailed, LeaveReadLoop, Finished
<1>7. CASE RunCancelled \/ RunFailed \/ NothingToRename
  BY <1>7 DEF RunCancelled, RunFailed, NothingToRename, Finished
<1>8. CASE PushFrame
  BY <1>8 DEF PushFrame, Pipe!Accept
<1>9. CASE PushEos
  BY <1>9 DEF PushEos, Pipe!Accept
<1>10. CASE JoinWriting
  BY <1>10 DEF JoinWriting, Pipe!Close
<1>11. CASE EndOfVideo
  BY <1>11 DEF EndOfVideo
<1>12. CASE Main
  BY <1>12, <1>1, <1>5, <1>6, <1>7, <1>8, <1>9, <1>10, <1>11 DEF Main
<1>13. QED
  BY <1>2, <1>3, <1>4, <1>12 DEF Next, Writing

\* What the writer has been given stays what was read first, and grows only when it
\* is given the next frame.
LEMMA HandedMoves ==
  ASSUME ReaderInv, Owner, Numbering, Delivery, [Next]_vars
  PROVE  /\ Given \in 0..Len(reads) /\ Handed \in Seq(Frame)
         /\ ~WriteInHand => Given' = Given /\ Handed' = Handed
         /\ WriteInHand => /\ inHand \in Frame
                           /\ Given' = Given + 1 /\ Handed' = Append(Handed, inHand)
                           /\ inHand = reads[Given + 1] /\ Given + 1 \in 1..Len(reads)
         /\ Len(Handed) = Given /\ \A i \in 1..Given : Handed[i] = reads[i]
<1>1. /\ reads \in Seq(Frame) /\ Len(reads) \in Nat /\ Len(delivered) \in Nat
      /\ delivered # <<>> <=> Len(delivered) > 0
      /\ writing \in {"pop", "open", "write"} => Len(delivered) <= Len(reads)
      /\ Len(delivered) - 1 <= Len(reads)
  BY Bounds
<1>2. writing \in {"none", "pop", "open", "write", "done"}
  BY DEF Delivery
<1>3. writing \in {"open", "write", "done"} => Len(delivered) > 0
  BY <1>1 DEF Delivery
<1>4. Given \in 0..Len(reads)
  <2>1. CASE writing = "none"
    BY <2>1, <1>1 DEF Given
  <2>2. CASE writing = "pop"
    BY <2>2, <1>1 DEF Given
  <2>3. CASE writing \in {"open", "write", "done"}
    BY <2>3, <1>1, <1>3 DEF Given
  <2>4. QED
    BY <2>1, <2>2, <2>3, <1>2
<1>5. Handed \in Seq(Frame) /\ Len(Handed) = Given /\ \A i \in 1..Given : Handed[i] = reads[i]
  BY <1>1, <1>4, Cut DEF Handed
<1>6. writing \in {"open", "write"} => Len(reads) > 0 /\ Given + 1 = Len(delivered)
  BY <1>1, <1>3 DEF Given
<1>7. UNCHANGED past \/ PushFrame \/ EndOfVideo \/ (reads' = <<>> /\ writing = "none" /\ UNCHANGED run)
  <2>1. main \in {"opened", "sought"} => writing = "none"
    BY DEF Numbering, Early
  <2>2. QED
    BY <2>1, PastMoves
<1>8. ASSUME PushFrame
      PROVE  /\ UNCHANGED <<writing, delivered>>
             /\ \E f \in Frame : reads' = Append(reads, f)
  BY <1>8 DEF PushFrame, ReadFrame, Pipe!Accept
<1>9. \/ reads' = reads
      \/ UNCHANGED <<writing, delivered>> /\ \E f \in Frame : reads' = Append(reads, f)
      \/ reads' = <<>> /\ writing = "none" /\ UNCHANGED <<writing, delivered>>
  <2>1. EndOfVideo => reads' = reads
    BY DEF EndOfVideo, ReadNothing
  <2>2. UNCHANGED run => UNCHANGED <<writing, delivered>>
    BY DEF run, pipe
  <2>3. UNCHANGED past => reads' = reads
    BY DEF past
  <2>4. QED
    BY <1>7, <1>8, <2>1, <2>2, <2>3
<1>11. ASSUME Given' = Given PROVE Handed' = Handed
  <2>1. CASE reads' = reads
    BY <2>1, <1>11 DEF Handed
  <2>2. CASE \E f \in Frame : reads' = Append(reads, f)
    <3>1. PICK f \in Frame : reads' = Append(reads, f)
      BY <2>2
    <3>2. /\ reads' \in Seq(Frame) /\ Len(reads') = Len(reads) + 1
          /\ \A i \in 1..Len(reads) : reads'[i] = reads[i]
      BY <3>1, <1>1, AppendProperties
    <3>3. Given \in 0..Len(reads')
      BY <3>2, <1>1, <1>4
    <3>4. /\ SubSeq(reads', 1, Given) \in Seq(Frame) /\ Len(SubSeq(reads', 1, Given)) = Given
          /\ \A i \in 1..Given : SubSeq(reads', 1, Given)[i] = reads'[i]
      BY <3>2, <3>3, Cut
    <3>5. \A i \in 1..Given : SubSeq(reads', 1, Given)[i] = Handed[i]
      <4>1. ASSUME NEW i \in 1..Given PROVE reads'[i] = Handed[i]
        <5>1. i \in 1..Len(reads)
          BY <1>1, <1>4
        <5>2. QED
          BY <5>1, <3>2, <1>5
      <4>2. QED
        BY <4>1, <3>4
    <3>6. SubSeq(reads', 1, Given) = Handed
      BY <3>4, <3>5, <1>5, SeqEqual
    <3>7. QED
      BY <3>6, <1>11 DEF Handed
  <2>3. CASE reads' = <<>> /\ writing = "none"
    <3>1. Given = 0
      BY <2>3 DEF Given
    <3>2. SubSeq(reads, 1, 0) = <<>> /\ SubSeq(reads', 1, 0) = <<>>
      BY SubSeqEmpty
    <3>3. QED
      BY <3>1, <3>2, <1>11 DEF Handed
  <2>4. QED
    BY <2>1, <2>2, <2>3, <1>9
<1>12. ASSUME UNCHANGED <<writing, delivered>> PROVE Given' = Given
  BY <1>12 DEF Given
<1>13. ~WriteInHand => Given' = Given
  <2>1. PopFrame => Given' = Given
    <3>1. PopFrame => /\ writing = "pop" /\ Len(delivered') = Len(delivered) + 1
                      /\ writing' \in {"done", "open", "write"}
      BY PopMoves
    <3>2. QED
      BY <3>1, <1>1 DEF Given
  <2>2. OpenForFirst => Given' = Given
    <3>1. OpenForFirst => /\ writing = "open" /\ writing' \in {"write", "done"}
                          /\ delivered' = delivered
      BY DEF OpenForFirst, pipe
    <3>2. QED
      BY <3>1 DEF Given
  <2>3. BeginLoop => Given' = Given
    <3>1. BeginLoop => writing = "none" /\ writing' = "pop" /\ delivered' = delivered
      BY DEF BeginLoop, Numbering, Early, pipe
    <3>2. BeginLoop => Len(delivered) = 0
      BY <3>1, <1>1 DEF Delivery
    <3>3. QED
      BY <3>1, <3>2 DEF Given
  <2>4. CloseWriter \/ CloseReader => UNCHANGED <<writing, delivered>>
    BY DEF CloseWriter, CloseReader, run, pipe
  <2>5. EncodingThread \/ (FinishFile /\ UNCHANGED <<readerVars, run>>)
          => UNCHANGED <<writing, delivered>>
    BY DEF EncodingThread, run, pipe
  <2>6. RunCompleted => UNCHANGED <<writing, delivered>>
    BY DEF RunCompleted, pipe
  <2>7. QED
    BY <2>1, <2>2, <2>3, <2>4, <2>5, <2>6, <1>12, WriterMoves
<1>14. ASSUME WriteInHand
       PROVE  /\ inHand \in Frame
              /\ Given' = Given + 1 /\ Handed' = Append(Handed, inHand)
              /\ inHand = reads[Given + 1] /\ Given + 1 \in 1..Len(reads)
  <2>1. /\ writing = "write" /\ writing' = "pop" /\ delivered' = delivered /\ reads' = reads
    BY <1>14 DEF WriteInHand, pipe, readerVars, past
  <2>2. Given' = Given + 1 /\ Given + 1 = Len(delivered)
    BY <2>1, <1>1, <1>6 DEF Given
  <2>3. inHand = reads[Given + 1] /\ Given + 1 \in 1..Len(reads)
    <3>1. inHand = reads[Len(delivered)]
      BY <2>1 DEF Delivery
    <3>2. QED
      BY <3>1, <2>1, <2>2, <1>1, <1>4
  <2>4. inHand \in Frame
    BY <2>3, <1>1, ElementOfSeq
  <2>5. /\ SubSeq(reads, 1, Given + 1) \in Seq(Frame)
        /\ Len(SubSeq(reads, 1, Given + 1)) = Given + 1
        /\ \A i \in 1..(Given + 1) : SubSeq(reads, 1, Given + 1)[i] = reads[i]
    <3>1. Given + 1 \in 0..Len(reads)
      BY <2>3, <1>1
    <3>2. QED
      BY <3>1, <1>1, Cut
  <2>6. /\ Append(Handed, inHand) \in Seq(Frame) /\ Len(Append(Handed, inHand)) = Given + 1
        /\ \A i \in 1..Given : Append(Handed, inHand)[i] = Handed[i]
        /\ Append(Handed, inHand)[Given + 1] = inHand
    BY <2>4, <1>5, AppendProperties
  <2>7. \A i \in 1..(Given + 1) : SubSeq(reads, 1, Given + 1)[i] = Append(Handed, inHand)[i]
    <3>1. ASSUME NEW i \in 1..(Given + 1) PROVE reads[i] = Append(Handed, inHand)[i]
      <4>1. CASE i = Given + 1
        BY <4>1, <2>3, <2>6
      <4>2. CASE i # Given + 1
        <5>1. i \in 1..Given
          BY <4>2, <1>4, <1>1
        <5>2. QED
          BY <5>1, <2>6, <1>5
      <4>3. QED
        BY <4>1, <4>2
    <3>2. QED
      BY <3>1, <2>5
  <2>8. SubSeq(reads, 1, Given + 1) = Append(Handed, inHand)
    BY <2>5, <2>6, <2>7, SeqEqual
  <2>9. Handed' = Append(Handed, inHand)
    BY <2>8, <2>1, <2>2 DEF Handed
  <2>10. QED
    BY <2>2, <2>3, <2>4, <2>9
<1>15. QED
  BY <1>4, <1>5, <1>11, <1>13, <1>14

\* The types of the writer's variables.
WriterType ==
  /\ sink \in Sinks
  /\ encodeQueue \in [items : Seq(Frame), shut : BOOLEAN]
  /\ inEncoder \in Seq(Frame)
  /\ closing \in {"no", "join", "closed"}

\* The file is open from the first frame on and until the writer thread has ended,
\* the calling thread has closed the writer and the encoding thread has given away
\* all it had.
Stages ==
  /\ (writerOpen \/ trailer) <=> (writing = "write" \/ Given > 0)
  /\ writing = "open" => ~writerOpen /\ ~trailer
  /\ writerError => writing = "done" /\ ~writerOpen /\ ~trailer
  /\ closing # "no" => writing = "done"
  /\ closing = "join" => writerOpen
  /\ closing = "closed" => ~writerOpen
  /\ main = "closeReader" => closing = "closed"
  /\ trailer => closing = "closed"
  /\ ~writerOpen => encoder = "none"
  /\ writerOpen /\ closing = "no" => encoder = "pop" /\ ~encodeQueue.shut
  /\ encoder = "done" \/ trailer => encodeQueue.items = <<>> /\ inEncoder = <<>>

\* What the writer does with its queue.
LEMMA EncodeQueueMoves ==
  ASSUME WriterType, NEW v
  PROVE  /\ v \in Frame /\ EncodeQueue!Push(v) /\ ~encodeQueue.shut =>
              /\ encodeQueue' \in [items : Seq(Frame), shut : BOOLEAN]
              /\ encodeQueue'.shut = encodeQueue.shut
              /\ encodeQueue'.items = Append(encodeQueue.items, v)
         /\ EncodeQueue!Pop(v) =>
              /\ encodeQueue' \in [items : Seq(Frame), shut : BOOLEAN]
              /\ encodeQueue'.shut = encodeQueue.shut
              /\ encodeQueue.items # <<>> /\ v = Head(encodeQueue.items) /\ v \in Frame
              /\ encodeQueue'.items = Tail(encodeQueue.items)
         /\ EncodeQueue!PopNothing =>
              encodeQueue' = encodeQueue /\ encodeQueue.items = <<>> /\ encodeQueue.shut
         /\ EncodeQueue!Shutdown =>
              /\ encodeQueue' \in [items : Seq(Frame), shut : BOOLEAN]
              /\ encodeQueue'.items = encodeQueue.items
         /\ EncodeQueue!Reset =>
              /\ encodeQueue' \in [items : Seq(Frame), shut : BOOLEAN]
              /\ ~encodeQueue'.shut /\ encodeQueue'.items = <<>>
<1>1. encodeQueue \in [items : Seq(Frame), shut : BOOLEAN]
  BY DEF WriterType
<1>2. ASSUME v \in Frame, EncodeQueue!Push(v), ~encodeQueue.shut
      PROVE  /\ encodeQueue' \in [items : Seq(Frame), shut : BOOLEAN]
             /\ encodeQueue'.shut = encodeQueue.shut
             /\ encodeQueue'.items = Append(encodeQueue.items, v)
  <2>1. Append(encodeQueue.items, v) \in Seq(Frame)
    BY <1>1, <1>2, AppendProperties
  <2>2. QED
    BY <2>1, <1>1, <1>2 DEF EncodeQueue!Push
<1>3. ASSUME EncodeQueue!Pop(v)
      PROVE  /\ encodeQueue' \in [items : Seq(Frame), shut : BOOLEAN]
             /\ encodeQueue'.shut = encodeQueue.shut
             /\ encodeQueue.items # <<>> /\ v = Head(encodeQueue.items) /\ v \in Frame
             /\ encodeQueue'.items = Tail(encodeQueue.items)
  <2>1. encodeQueue.items # <<>> /\ v = Head(encodeQueue.items)
    BY <1>3 DEF EncodeQueue!Pop
  <2>2. v \in Frame /\ Tail(encodeQueue.items) \in Seq(Frame)
    BY <2>1, <1>1, HeadTailProperties
  <2>3. QED
    BY <2>1, <2>2, <1>1, <1>3 DEF EncodeQueue!Pop
<1>4. ASSUME EncodeQueue!PopNothing
      PROVE  encodeQueue' = encodeQueue /\ encodeQueue.items = <<>> /\ encodeQueue.shut
  BY <1>4 DEF EncodeQueue!PopNothing
<1>5. ASSUME EncodeQueue!Shutdown
      PROVE  /\ encodeQueue' \in [items : Seq(Frame), shut : BOOLEAN]
             /\ encodeQueue'.items = encodeQueue.items
  BY <1>1, <1>5 DEF EncodeQueue!Shutdown
<1>6. ASSUME EncodeQueue!Reset
      PROVE  /\ encodeQueue' \in [items : Seq(Frame), shut : BOOLEAN]
             /\ ~encodeQueue'.shut /\ encodeQueue'.items = <<>>
  <2>1. <<>> \in Seq(Frame)
    BY EmptySeq
  <2>2. encodeQueue' = [items |-> <<>>, shut |-> FALSE]
    BY <1>6 DEF EncodeQueue!Reset, EncodeQueue!NewQueue
  <2>3. QED
    BY <2>1, <2>2
<1>7. QED
  BY <1>2, <1>3, <1>4, <1>5, <1>6

\* Of the frames held the first j are written, those up to k are lost, and the rest
\* stays in the encoder.
Emits(held) ==
  \E j, k \in Nat :
    /\ j <= k /\ k <= Len(held)
    /\ written' = written \o SubSeq(held, 1, j)
    /\ lost' = lost \cup ToSet(SubSeq(held, j + 1, k))
    /\ inEncoder' = SubSeq(held, k + 1, Len(held))

\* That is what the encoder does with the frames that are ready, ...
LEMMA EmitMoves ==
  ASSUME NEW held \in Seq(Frame), NEW n \in 0..Len(held), Emit(held, n)
  PROVE  Emits(held)
<1> DEFINE Parts(j, failed) ==
             /\ written' = written \o SubSeq(held, 1, j)
             /\ lost' = lost \cup ToSet(SubSeq(held, j + 1, j + failed))
             /\ inEncoder' = SubSeq(held, j + failed + 1, Len(held))
<1>0. PICK j \in 0..n : \E failed \in {k \in 0..1 : j + k <= n} : Parts(j, failed)
  BY DEF Emit
<1>1. PICK failed \in {k \in 0..1 : j + k <= n} : Parts(j, failed)
  BY <1>0
<1> DEFINE k == j + failed
<1>2. Len(held) \in Nat
  BY LenProperties
<1>3. j \in Nat /\ k \in Nat /\ j <= k /\ k <= Len(held)
  BY <1>1, <1>2
<1>4. /\ lost' = lost \cup ToSet(SubSeq(held, j + 1, k))
      /\ inEncoder' = SubSeq(held, k + 1, Len(held))
  BY <1>1
<1> HIDE DEF k
<1>5. QED
  BY <1>1, <1>3, <1>4 DEF Emits

\* ... also with those of a frame that has just entered it, unless it is lost, ...
LEMMA EncodeMoves ==
  ASSUME WriterType, NEW p, EncodeFrame(p)
  PROVE  /\ encoder = "pop" /\ encodeQueue.items # <<>> /\ p = Head(encodeQueue.items)
         /\ p \in Frame
         /\ encodeQueue' \in [items : Seq(Frame), shut : BOOLEAN]
         /\ encodeQueue'.items = Tail(encodeQueue.items)
         /\ encodeQueue'.shut = encodeQueue.shut
         /\ UNCHANGED <<sink, writerOpen, sizeLike, encoder, trailer, closing>>
         /\ Append(inEncoder, p) \in Seq(Frame)
         /\ \/ lost' = lost \cup {p} /\ UNCHANGED <<inEncoder, written>>
            \/ Emits(Append(inEncoder, p))
<1>1. /\ EncodeQueue!Pop(p) /\ encoder = "pop"
      /\ UNCHANGED <<sink, writerOpen, sizeLike, encoder, trailer, closing>>
      /\ Encode(p) \/ Drop(p)
  BY DEF EncodeFrame
<1>2. /\ encodeQueue' \in [items : Seq(Frame), shut : BOOLEAN]
      /\ encodeQueue'.shut = encodeQueue.shut
      /\ encodeQueue.items # <<>> /\ p = Head(encodeQueue.items) /\ p \in Frame
      /\ encodeQueue'.items = Tail(encodeQueue.items)
  BY <1>1, EncodeQueueMoves
<1> DEFINE held == Append(inEncoder, p)
<1>3. held \in Seq(Frame) /\ Len(held) \in Nat
  <2>1. inEncoder \in Seq(Frame)
    BY DEF WriterType
  <2>2. held \in Seq(Frame)
    BY <2>1, <1>2, AppendProperties
  <2>3. QED
    BY <2>2, LenProperties
<1>4. ASSUME Encode(p) PROVE Emits(held)
  <2>1. Emit(held, Beyond(Len(held), sink.lag))
    BY <1>4 DEF Encode
  <2>2. sink.lag \in Nat
    <3>1. sink \in [odd : SUBSET Picture, lag : Nat]
      BY WriterAssumption DEF WriterType
    <3>2. QED
      BY <3>1
  <2> HIDE DEF held
  <2>3. Beyond(Len(held), sink.lag) \in 0..Len(held)
    BY <2>2, <1>3 DEF Beyond
  <2>4. QED
    BY <2>1, <2>3, <1>3, EmitMoves
<1>5. ASSUME Drop(p) PROVE lost' = lost \cup {p} /\ UNCHANGED <<inEncoder, written>>
  BY <1>5 DEF Drop
<1>6. QED
  BY <1>1, <1>2, <1>3, <1>4, <1>5

\* ... and with all of them when it is flushed.
LEMMA FlushMoves ==
  ASSUME WriterType, FlushEncoder
  PROVE  /\ encoder = "pop" /\ encoder' = "done"
         /\ encodeQueue' = encodeQueue /\ encodeQueue.items = <<>> /\ encodeQueue.shut
         /\ UNCHANGED <<sink, writerOpen, sizeLike, trailer, closing>>
         /\ inEncoder' = <<>> /\ Emits(inEncoder)
<1>1. /\ encoder = "pop" /\ encoder' = "done" /\ EncodeQueue!PopNothing /\ inEncoder' = <<>>
      /\ UNCHANGED <<sink, writerOpen, sizeLike, trailer, closing>>
  BY DEF FlushEncoder
<1> DEFINE n == Len(inEncoder)
<1>2. PICK j \in 0..n : /\ written' = written \o SubSeq(inEncoder, 1, j)
                        /\ lost' = lost \cup ToSet(SubSeq(inEncoder, j + 1, n))
  BY DEF FlushEncoder
<1>3. n \in Nat
  BY LenProperties DEF WriterType
<1>4. SubSeq(inEncoder, n + 1, n) = <<>>
  <2>1. n + 1 \in Int /\ n \in Int /\ n < n + 1
    BY <1>3
  <2> HIDE DEF n
  <2>2. QED
    BY <2>1, SubSeqEmpty
<1>5. Emits(inEncoder)
  <2>1. j \in Nat /\ n \in Nat /\ j <= n /\ n <= Len(inEncoder)
    BY <1>3
  <2>2. inEncoder' = SubSeq(inEncoder, n + 1, Len(inEncoder))
    BY <1>1, <1>4
  <2> HIDE DEF n
  <2>3. QED
    BY <2>1, <2>2, <1>2 DEF Emits, n
<1>6. QED
  BY <1>1, <1>5, EncodeQueueMoves

\* What stays in the encoder are frames.
LEMMA EmitsType ==
  ASSUME NEW held \in Seq(Frame), Emits(held)
  PROVE  inEncoder' \in Seq(Frame)
<1>1. PICK k \in Nat : inEncoder' = SubSeq(held, k + 1, Len(held))
  BY DEF Emits
<1>2. Len(held) \in Nat
  BY LenProperties
<1>3. k + 1 \in Int /\ Len(held) \in Int /\ \A i \in (k + 1)..Len(held) : held[i] \in Frame
  BY <1>2, ElementOfSeq
<1>4. QED
  BY <1>1, <1>3, SubSeqProperties

\* What the reader and the run keep between them.
RunInv == ReaderInv /\ Owner /\ Numbering /\ Delivery

\* Until the run is over, what the writer has been given is accounted for from when
\* the file has been opened; before, nothing is lost.
Filled ==
  main # "done" =>
    IF writerOpen \/ trailer
      THEN Accounted(ToSet(Handed), encodeQueue.items, inEncoder, written, lost)
      ELSE lost = {}

\* A run that is over stays so.
LEMMA DoneStays == ASSUME [Next]_vars, main = "done" PROVE main' = "done"
<1> USE DEF run
<1>1. CASE Writing \/ Cancel
  BY <1>1 DEF Writing, PopFrame, OpenForFirst, WriteInHand, Cancel
<1>2. CASE DecodingThread \/ EncodingThread
  BY <1>2 DEF DecodingThread, EncodingThread
<1>3. CASE UNCHANGED vars
  BY <1>3 DEF vars
<1>4. CASE BeginOpen \/ BeginSeek \/ BeginLoop \/ LeaveReadLoop \/ BeginReadFrame
  BY <1>4 DEF BeginOpen, BeginSeek, BeginLoop, LeaveReadLoop, BeginReadFrame
<1>5. CASE PushFrame \/ EndOfVideo \/ PushEos \/ JoinWriting \/ CloseWriter \/ CloseReader
  BY <1>5 DEF PushFrame, EndOfVideo, PushEos, JoinWriting, CloseWriter, CloseReader
<1>6. CASE OpenFailed \/ RunCancelled \/ RunFailed \/ RunCompleted \/ NothingToRename
  BY <1>6 DEF OpenFailed, RunCancelled, RunFailed, RunCompleted, NothingToRename, Finished
<1>7. CASE Main
  BY <1>4, <1>5, <1>6, <1>7 DEF Main
<1>8. QED
  BY <1>1, <1>2, <1>3, <1>7 DEF Next

\* The encoding thread works only while the file is open.
LEMMA EncoderIsOpen ==
  ASSUME Stages
  PROVE  /\ encoder \in {"pop", "done"} => writerOpen /\ ~trailer /\ closing # "closed"
         /\ writing \in {"none", "pop", "open", "write"} => closing = "no" /\ ~trailer
         /\ writing = "write" => writerOpen /\ encoder = "pop" /\ ~encodeQueue.shut
         /\ closing = "no" => ~trailer /\ (writerOpen => ~encodeQueue.shut)
BY DEF Stages

\* No step leaves the types of the writer, and the sink stays the same.
LEMMA WriterTypeStep ==
  ASSUME RunInv, WriterType, Stages, [Next]_vars
  PROVE  WriterType' /\ sink' = sink
<1>1. /\ encodeQueue \in [items : Seq(Frame), shut : BOOLEAN]
      /\ inEncoder \in Seq(Frame) /\ sink \in Sinks /\ closing \in {"no", "join", "closed"}
  BY DEF WriterType
<1>2. CASE UNCHANGED writerVars
  BY <1>1, <1>2 DEF writerVars, WriterType
<1>3. CASE PopFrame \/ BeginLoop \/ CloseReader
  BY <1>2, <1>3 DEF PopFrame, BeginLoop, CloseReader
<1>4. CASE OpenForFirst
  <2>1. CASE OpenWriter(inHand)
    <3>1. EncodeQueue!Reset /\ inEncoder' = <<>> /\ UNCHANGED <<sink, closing>>
      BY <2>1 DEF OpenWriter
    <3>2. inEncoder' \in Seq(Frame)
      BY <3>1, EmptySeq
    <3>3. QED
      BY <3>1, <3>2, <1>1, EncodeQueueMoves DEF WriterType
  <2>2. CASE OpenWriterFails
    BY <1>2, <2>2 DEF OpenWriterFails
  <2>3. QED
    BY <2>1, <2>2, <1>4 DEF OpenForFirst
<1>5. CASE WriteInHand
  <2>1. /\ EncodeQueue!Push(inHand) /\ UNCHANGED <<sink, inEncoder, closing>>
        /\ writing = "write"
    BY <1>5 DEF WriteInHand, WriteFrame
  <2>2. ~encodeQueue.shut
    BY <2>1, EncoderIsOpen
  <2>3. inHand \in Frame
    BY <1>5, HandedMoves DEF RunInv
  <2>4. encodeQueue' \in [items : Seq(Frame), shut : BOOLEAN]
    BY <2>1, <2>2, <2>3, EncodeQueueMoves
  <2>5. QED
    BY <2>1, <2>4, <1>1 DEF WriterType
<1>6. CASE CloseWriter
  <2>1. StopEncoding
    BY <1>6 DEF CloseWriter
  <2>2. UNCHANGED <<sink, inEncoder>> /\ closing' \in {"join", "closed"}
    BY <2>1 DEF StopEncoding
  <2>3. EncodeQueue!Shutdown \/ encodeQueue' = encodeQueue
    BY <2>1 DEF StopEncoding
  <2>4. encodeQueue' \in [items : Seq(Frame), shut : BOOLEAN]
    BY <2>3, <1>1, EncodeQueueMoves
  <2>5. QED
    BY <2>2, <2>4, <1>1 DEF WriterType
<1>7. CASE FinishFile
  BY <1>1, <1>7 DEF FinishFile, WriterType
<1>8. CASE EncodingThread
  <2>1. ASSUME NEW p, EncodeFrame(p) PROVE WriterType' /\ sink' = sink
    <3>1. /\ encodeQueue' \in [items : Seq(Frame), shut : BOOLEAN]
          /\ UNCHANGED <<sink, closing>> /\ Append(inEncoder, p) \in Seq(Frame)
          /\ UNCHANGED inEncoder \/ Emits(Append(inEncoder, p))
      BY <2>1, EncodeMoves
    <3>2. inEncoder' \in Seq(Frame)
      BY <3>1, <1>1, EmitsType
    <3>3. QED
      BY <3>1, <3>2, <1>1 DEF WriterType
  <2>2. CASE FlushEncoder
    <3>1. UNCHANGED <<sink, closing, encodeQueue>> /\ inEncoder' = <<>>
      BY <2>2, FlushMoves
    <3>2. inEncoder' \in Seq(Frame)
      BY <3>1, EmptySeq
    <3>3. QED
      BY <3>1, <3>2, <1>1 DEF WriterType
  <2>3. QED
    BY <2>1, <2>2, <1>8 DEF EncodingThread, Encoding
<1>9. CASE RunCompleted
  BY <1>1, <1>9 DEF RunCompleted, WriterType
<1>10. QED
  BY <1>2, <1>3, <1>4, <1>5, <1>6, <1>7, <1>8, <1>9, WriterMoves

\* The file is opened, filled, flushed and closed in that order.
LEMMA StagesStep ==
  ASSUME RunInv, WriterType, Stages, [Next]_vars
  PROVE  Stages'
<1>1. /\ ~WriteInHand => Given' = Given
      /\ WriteInHand => Given' = Given + 1 /\ Given \in 0..Len(reads) /\ Len(reads) \in Nat
  BY HandedMoves, Bounds DEF RunInv
<1>2. CASE UNCHANGED <<writerVars, writing, delivered, inHand, writerError>>
           /\ (main' = "closeReader" => main = "closeReader")
  <2>1. Given' = Given
    BY <1>2 DEF Given
  <2>2. QED
    BY <1>2, <2>1 DEF Stages, writerVars
<1>3. CASE PopFrame
  <2>1. /\ writing = "pop" /\ writing' \in {"done", "open", "write"}
        /\ writing' # "done" => writing' = IF writerOpen THEN "write" ELSE "open"
        /\ UNCHANGED <<writerVars, main, writerError>>
    BY <1>3, PopMoves DEF RunInv
  <2>2. Given' = Given
    <3>1. ~WriteInHand
      BY <2>1 DEF WriteInHand
    <3>2. QED
      BY <3>1, <1>1
  <2>3. QED
    BY <2>1, <2>2, EncoderIsOpen DEF Stages, writerVars
<1>4. CASE OpenForFirst
  <2>1. writing = "open" /\ main' = main
    BY <1>4 DEF OpenForFirst
  <2>2. Given' = Given
    <3>1. ~WriteInHand
      BY <2>1 DEF WriteInHand
    <3>2. QED
      BY <3>1, <1>1
  <2>3. CASE OpenWriter(inHand) /\ writing' = "write" /\ UNCHANGED writerError
    <3>1. /\ writerOpen' = TRUE /\ trailer' = FALSE /\ encoder' = "pop" /\ closing' = closing
          /\ EncodeQueue!Reset
      BY <2>3 DEF OpenWriter
    <3>2. ~encodeQueue'.shut
      BY <3>1, EncodeQueueMoves
    <3>3. QED
      BY <3>1, <3>2, <2>1, <2>2, <2>3 DEF Stages
  <2>4. CASE OpenWriterFails /\ writing' = "done" /\ writerError' = TRUE
    <3>1. UNCHANGED writerVars
      BY <2>4 DEF OpenWriterFails
    <3>2. QED
      BY <3>1, <2>1, <2>2, <2>4 DEF Stages, writerVars
  <2>5. \/ OpenWriter(inHand) /\ writing' = "write" /\ UNCHANGED writerError
        \/ OpenWriterFails /\ writing' = "done" /\ writerError' = TRUE
    BY <1>4 DEF OpenForFirst
  <2>6. QED
    BY <2>3, <2>4, <2>5
<1>5. CASE WriteInHand
  <2>1. /\ writing = "write" /\ writing' = "pop" /\ UNCHANGED <<main, writerError>>
        /\ UNCHANGED <<sink, writerOpen, encoder, inEncoder, trailer, closing>>
        /\ EncodeQueue!Push(inHand)
    BY <1>5 DEF WriteInHand, WriteFrame
  <2>2. /\ writerOpen /\ encoder = "pop" /\ ~encodeQueue.shut /\ ~trailer /\ closing = "no"
    BY <2>1, EncoderIsOpen
  <2>3. encodeQueue'.shut = encodeQueue.shut
    <3>1. inHand \in Frame
      BY <1>5, HandedMoves DEF RunInv
    <3>2. QED
      BY <3>1, <2>1, <2>2, EncodeQueueMoves
  <2>4. Given' > 0
    BY <1>1, <1>5
  <2>5. QED
    BY <2>1, <2>2, <2>3, <2>4 DEF Stages
<1>6. CASE BeginLoop
  <2>1. /\ writing = "none" /\ writing' = "pop" /\ main' = "loop"
        /\ UNCHANGED <<writerVars, writerError>>
    BY <1>6 DEF BeginLoop, RunInv, Numbering, Early
  <2>2. Given' = Given
    <3>1. ~WriteInHand
      BY <2>1 DEF WriteInHand
    <3>2. QED
      BY <3>1, <1>1
  <2>3. QED
    BY <2>1, <2>2 DEF Stages, writerVars
<1>7. CASE CloseWriter
  <2>1. /\ main = "closeWriter" /\ StopEncoding /\ UNCHANGED <<main, writing, writerError, delivered>>
    BY <1>7 DEF CloseWriter, run, pipe
  <2>2. writing = "done"
    BY <2>1 DEF RunInv, Delivery
  <2>3. /\ closing = "no" /\ closing' = IF writerOpen THEN "join" ELSE "closed"
        /\ UNCHANGED <<writerOpen, encoder, inEncoder, trailer>>
    BY <2>1 DEF StopEncoding
  <2>4. encodeQueue'.items = encodeQueue.items
    <3>1. EncodeQueue!Shutdown \/ encodeQueue' = encodeQueue
      BY <2>1 DEF StopEncoding
    <3>2. QED
      BY <3>1, EncodeQueueMoves
  <2>5. Given' = Given
    BY <2>1 DEF Given
  <2>6. QED
    BY <2>1, <2>2, <2>3, <2>4, <2>5, EncoderIsOpen DEF Stages
<1>8. CASE CloseReader
  <2>1. /\ closing = "closed" /\ main = "closeWriter"
        /\ UNCHANGED <<writerVars, writing, writerError, delivered>>
    BY <1>8 DEF CloseReader, pipe
  <2>2. Given' = Given
    BY <2>1 DEF Given
  <2>3. QED
    BY <2>1, <2>2 DEF Stages, writerVars
<1>9. CASE FinishFile /\ UNCHANGED <<readerVars, run>>
  <2>1. /\ closing = "join" /\ encoder = "done" /\ encoder' = "none"
        /\ trailer' = TRUE /\ writerOpen' = FALSE /\ closing' = "closed"
        /\ UNCHANGED <<encodeQueue, inEncoder, main, writing, writerError, delivered>>
    BY <1>9 DEF FinishFile, run, pipe
  <2>2. Given' = Given
    BY <2>1 DEF Given
  <2>3. QED
    BY <2>1, <2>2 DEF Stages
<1>10. CASE EncodingThread
  <2>1. UNCHANGED <<main, writing, writerError, delivered>>
    BY <1>10 DEF EncodingThread, run, pipe
  <2>2. Given' = Given
    BY <2>1 DEF Given
  <2>3. ASSUME NEW p, EncodeFrame(p) PROVE Stages'
    <3>1. /\ encoder = "pop" /\ encodeQueue'.shut = encodeQueue.shut
          /\ UNCHANGED <<writerOpen, encoder, trailer, closing>>
      BY <2>3, EncodeMoves
    <3>2. writerOpen /\ ~trailer
      BY <3>1, EncoderIsOpen
    <3>3. QED
      BY <3>1, <3>2, <2>1, <2>2 DEF Stages
  <2>4. CASE FlushEncoder
    <3>1. /\ encoder = "pop" /\ encoder' = "done" /\ UNCHANGED <<writerOpen, trailer, closing>>
          /\ encodeQueue' = encodeQueue /\ encodeQueue.items = <<>> /\ encodeQueue.shut
          /\ inEncoder' = <<>>
      BY <2>4, FlushMoves
    <3>2. writerOpen /\ ~trailer
      BY <3>1, EncoderIsOpen
    <3>3. closing # "no"
      BY <3>1, <3>2, EncoderIsOpen
    <3>4. QED
      BY <3>1, <3>2, <3>3, <2>1, <2>2 DEF Stages
  <2>5. QED
    BY <2>3, <2>4, <1>10 DEF EncodingThread, Encoding
<1>11. CASE RunCompleted
  <2>1. /\ main' = "done"
        /\ UNCHANGED <<encodeQueue, encoder, inEncoder, writerOpen, trailer, closing>>
        /\ UNCHANGED <<writing, writerError, delivered>>
    BY <1>11 DEF RunCompleted, Finished, pipe
  <2>2. Given' = Given
    BY <2>1 DEF Given
  <2>3. QED
    BY <2>1, <2>2 DEF Stages
<1>12. QED
  BY <1>2, <1>3, <1>4, <1>5, <1>6, <1>7, <1>8, <1>9, <1>10, <1>11, WriterMoves

\* No frame is forgotten between the pipeline and the file.
LEMMA FilledStep ==
  ASSUME RunInv, WriterType, Stages, Filled, [Next]_vars
  PROVE  Filled'
<1>1. /\ ~WriteInHand => Handed' = Handed
      /\ WriteInHand => /\ inHand \in Frame /\ Handed' = Append(Handed, inHand)
                        /\ inHand = reads[Given + 1] /\ Given + 1 \in 1..Len(reads)
      /\ Len(Handed) = Given /\ \A i \in 1..Given : Handed[i] = reads[i]
      /\ Given \in 0..Len(reads) /\ Len(reads) \in Nat /\ Handed \in Seq(Frame)
  BY HandedMoves, Bounds DEF RunInv
<1>2. SUFFICES ASSUME main' # "done" PROVE Filled'
  BY DEF Filled
<1>3. main # "done"
  BY <1>2, DoneStays
<1> DEFINE Full(h, q, held, file, gone) == Accounted(ToSet(h), q, held, file, gone)
           Is == Full(Handed, encodeQueue.items, inEncoder, written, lost)
<1>4. (writerOpen \/ trailer => Is) /\ (~(writerOpen \/ trailer) => lost = {})
  BY <1>3 DEF Filled
<1>5. ASSUME writerOpen' \/ trailer',
             Full(Handed', encodeQueue'.items, inEncoder', written', lost')
      PROVE  Filled'
  BY <1>5 DEF Filled
<1>6. ASSUME ~WriteInHand, UNCHANGED <<inEncoder, written, lost>>,
             encodeQueue'.items = encodeQueue.items,
             writerOpen' \/ trailer' <=> writerOpen \/ trailer
      PROVE  Filled'
  <2>1. Handed' = Handed
    BY <1>1, <1>6
  <2>2. CASE writerOpen \/ trailer
    <3>1. Full(Handed', encodeQueue'.items, inEncoder', written', lost')
      BY <2>1, <2>2, <1>4, <1>6
    <3>2. QED
      BY <3>1, <2>2, <1>5, <1>6
  <2>3. CASE ~(writerOpen \/ trailer)
    BY <2>3, <1>4, <1>6 DEF Filled
  <2>4. QED
    BY <2>2, <2>3
<1> HIDE DEF Full
<1>7. ASSUME ~WriteInHand, UNCHANGED writerVars PROVE Filled'
  BY <1>6, <1>7 DEF writerVars
<1>8. CASE UNCHANGED <<writerVars, writing, delivered, inHand, writerError>>
  <2>1. ~WriteInHand
    BY <1>8 DEF WriteInHand
  <2>2. QED
    BY <2>1, <1>7, <1>8
<1>9. CASE PopFrame \/ BeginLoop
  <2>1. ~WriteInHand
    BY <1>9 DEF WriteInHand, PopFrame, BeginLoop, RunInv, Numbering, Early
  <2>2. QED
    BY <2>1, <1>7, <1>9 DEF PopFrame, BeginLoop
<1>10. CASE OpenForFirst
  <2>1. writing = "open" /\ ~WriteInHand
    BY <1>10 DEF OpenForFirst, WriteInHand
  <2>2. CASE OpenWriter(inHand)
    <3>1. /\ EncodeQueue!Reset /\ inEncoder' = <<>> /\ written' = <<>> /\ lost' = lost
          /\ writerOpen'
      BY <2>2 DEF OpenWriter
    <3>2. encodeQueue'.items = <<>>
      BY <3>1, EncodeQueueMoves
    <3>3. Given = 0 /\ lost = {}
      BY <2>1, <1>1, <1>4 DEF Stages
    <3>4. Handed' = <<>>
      <4>1. SubSeq(reads, 1, 0) = <<>>
        BY SubSeqEmpty
      <4>2. QED
        BY <4>1, <3>3, <2>1, <1>1 DEF Handed
    <3>5. Full(<<>>, <<>>, <<>>, <<>>, {})
      BY AccountBegins, NoMembers DEF Full
    <3>6. QED
      BY <3>1, <3>2, <3>3, <3>4, <3>5, <1>5
  <2>3. CASE OpenWriterFails
    BY <2>1, <2>3, <1>7 DEF OpenWriterFails
  <2>4. QED
    BY <2>2, <2>3, <1>10 DEF OpenForFirst
<1>11. CASE WriteInHand
  <2>1. /\ writing = "write" /\ EncodeQueue!Push(inHand)
        /\ UNCHANGED <<inEncoder, written, lost, writerOpen>>
    BY <1>11 DEF WriteInHand, WriteFrame
  <2>2. writerOpen /\ ~encodeQueue.shut
    BY <2>1, EncoderIsOpen
  <2>3. encodeQueue'.items = Append(encodeQueue.items, inHand)
    BY <2>1, <2>2, <1>1, <1>11, EncodeQueueMoves
  <2>4. Ordered(Handed) /\ Below(ToSet(Handed), {inHand})
    <3>1. Ordered(reads)
      <4>1. reads \in Seq(Frame) /\ Consecutive(origin, reads)
        BY DEF RunInv, ReaderInv, ReaderType
      <4>2. QED
        BY <4>1, ConsecutiveOrdered
    <3>2. \A i \in 1..Given : i \in 1..Len(reads) /\ i < Given + 1
      BY <1>1
    <3>3. \A i \in 1..Given : Handed[i] < inHand
      BY <3>1, <3>2, <1>1, <1>11 DEF Ordered
    <3>4. ToSet(Handed) = {Handed[i] : i \in 1..Given}
      BY <1>1, Members
    <3>5. QED
      BY <3>1, <3>2, <3>3, <3>4, <1>1 DEF Ordered, Below
  <2>5. ToSet(Append(Handed, inHand)) = ToSet(Handed) \cup {inHand}
    BY <2>4, <1>1, <1>11, AppendOrdered
  <2>6. Full(Append(Handed, inHand), Append(encodeQueue.items, inHand), inEncoder, written, lost)
    <3>1. Accounted(ToSet(Handed), encodeQueue.items, inEncoder, written, lost)
      BY <2>2, <1>4 DEF Full
    <3>2. Accounted(ToSet(Handed) \cup {inHand}, Append(encodeQueue.items, inHand), inEncoder,
                    written, lost)
      BY <3>1, <2>4, <1>1, <1>11, AccountPush
    <3>3. QED
      BY <3>2, <2>5 DEF Full
  <2>7. QED
    BY <2>1, <2>2, <2>3, <2>6, <1>1, <1>5, <1>11
<1>12. CASE CloseWriter
  <2>1. StopEncoding /\ ~WriteInHand
    BY <1>12 DEF CloseWriter, WriteInHand, run
  <2>2. UNCHANGED <<inEncoder, written, writerOpen, trailer, lost>>
    BY <2>1 DEF StopEncoding
  <2>3. encodeQueue'.items = encodeQueue.items
    <3>1. EncodeQueue!Shutdown \/ encodeQueue' = encodeQueue
      BY <2>1 DEF StopEncoding
    <3>2. QED
      BY <3>1, EncodeQueueMoves
  <2>4. QED
    BY <2>1, <2>2, <2>3, <1>6
<1>13. CASE CloseReader
  <2>1. ~WriteInHand
    BY <1>13 DEF WriteInHand, CloseReader
  <2>2. QED
    BY <2>1, <1>7, <1>13 DEF CloseReader
<1>14. CASE FinishFile /\ UNCHANGED <<readerVars, run>>
  <2>1. /\ ~WriteInHand /\ UNCHANGED <<inEncoder, encodeQueue>> /\ trailer'
        /\ \/ UNCHANGED <<written, lost>>
           \/ written' = <<>> /\ lost' = lost \cup ToSet(written)
    BY <1>14 DEF WriteInHand, FinishFile, run
  <2>2. writerOpen /\ inEncoder = <<>>
    BY <1>14 DEF FinishFile, Stages
  <2>3. CASE UNCHANGED <<written, lost>>
    <3>1. writerOpen' \/ trailer' <=> writerOpen \/ trailer
      BY <2>1, <2>2
    <3>2. QED
      BY <3>1, <2>1, <2>3, <1>6
  <2>4. CASE written' = <<>> /\ lost' = lost \cup ToSet(written)
    <3>1. Full(Handed, encodeQueue.items, <<>>, <<>>, lost \cup ToSet(written))
      <4>1. Accounted(ToSet(Handed), encodeQueue.items, <<>>, written, lost)
        BY <2>2, <1>4 DEF Full
      <4>2. QED
        BY <4>1, AccountLoss DEF Full
    <3>2. Handed' = Handed
      BY <2>1, <1>1
    <3>3. QED
      BY <3>1, <3>2, <2>1, <2>2, <2>4, <1>5
  <2>5. QED
    BY <2>1, <2>3, <2>4
<1>15. CASE EncodingThread
  <2>1. Handed' = Handed
    <3>1. ~WriteInHand
      BY <1>15 DEF EncodingThread, WriteInHand, run
    <3>2. QED
      BY <3>1, <1>1
  <2>2. ASSUME NEW q, NEW held \in Seq(Frame), writerOpen, writerOpen' = writerOpen,
               encodeQueue'.items = q, Full(Handed, q, held, written, lost), Emits(held)
        PROVE  Filled'
    <3>1. PICK j \in Nat, k \in Nat :
            /\ j <= k /\ k <= Len(held)
            /\ written' = written \o SubSeq(held, 1, j)
            /\ lost' = lost \cup ToSet(SubSeq(held, j + 1, k))
            /\ inEncoder' = SubSeq(held, k + 1, Len(held))
      BY <2>2 DEF Emits
    <3>2. Full(Handed, q, SubSeq(held, k + 1, Len(held)), written \o SubSeq(held, 1, j),
               lost \cup ToSet(SubSeq(held, j + 1, k)))
      BY <2>2, <3>1, AccountEmit DEF Full
    <3>3. QED
      BY <2>1, <2>2, <3>1, <3>2, <1>5
  <2>3. ASSUME NEW p, EncodeFrame(p) PROVE Filled'
    <3>1. /\ encoder = "pop" /\ encodeQueue.items # <<>> /\ p = Head(encodeQueue.items)
          /\ encodeQueue'.items = Tail(encodeQueue.items)
          /\ UNCHANGED <<writerOpen, trailer>> /\ Append(inEncoder, p) \in Seq(Frame)
          /\ \/ lost' = lost \cup {p} /\ UNCHANGED <<inEncoder, written>>
             \/ Emits(Append(inEncoder, p))
      BY <2>3, EncodeMoves
    <3>2. writerOpen
      BY <3>1, EncoderIsOpen
    <3>3. /\ Full(Handed, Tail(encodeQueue.items), Append(inEncoder, p), written, lost)
          /\ Full(Handed, Tail(encodeQueue.items), inEncoder, written, lost \cup {p})
      BY <3>1, <3>2, <1>4, AccountTake DEF Full
    <3>4. CASE lost' = lost \cup {p} /\ UNCHANGED <<inEncoder, written>>
      BY <3>1, <3>2, <3>3, <3>4, <2>1, <1>5
    <3>5. CASE Emits(Append(inEncoder, p))
      BY <3>1, <3>2, <3>3, <3>5, <2>2
    <3>6. QED
      BY <3>1, <3>4, <3>5
  <2>4. CASE FlushEncoder
    <3>1. /\ encoder = "pop" /\ encodeQueue' = encodeQueue /\ UNCHANGED writerOpen
          /\ Emits(inEncoder)
      BY <2>4, FlushMoves
    <3>2. writerOpen /\ inEncoder \in Seq(Frame)
      BY <3>1, EncoderIsOpen DEF WriterType
    <3>3. Full(Handed, encodeQueue.items, inEncoder, written, lost)
      BY <3>2, <1>4
    <3>4. QED
      BY <3>1, <3>2, <3>3, <2>2
  <2>5. QED
    BY <2>3, <2>4, <1>15 DEF EncodingThread, Encoding
<1>16. CASE RunCompleted
  BY <1>2, <1>16 DEF RunCompleted, Finished
<1>17. QED
  BY <1>8, <1>9, <1>10, <1>11, <1>12, <1>13, <1>14, <1>15, <1>16, WriterMoves

\* The inductive invariant of the run, next to that of the reader.
Handing == Owner /\ Numbering /\ Delivery /\ WriterType /\ Stages /\ Filled

\* It holds before the first step.
LEMMA RunBegins == Init => Handing
<1> SUFFICES ASSUME Init PROVE Handing
  OBVIOUS
<1>1. /\ reads = <<>> /\ ~ended /\ caller = "idle"
      /\ main = "begin" /\ writing = "none" /\ start = 0 /\ eos = None
      /\ accepted = {} /\ delivered = <<>> /\ writerError = FALSE
      /\ resumeAt \in SeekTargets \cup {0}
  BY DEF Init, ReaderInit, Pipe!Init
<1>2. /\ sink \in Sinks /\ writerOpen = FALSE /\ encodeQueue = [items |-> <<>>, shut |-> FALSE]
      /\ encoder = "none" /\ inEncoder = <<>> /\ trailer = FALSE /\ closing = "no"
      /\ lost = {}
  BY DEF Init, WriterInit, EncodeQueue!NewQueue
<1>3. <<>> \in Seq(Frame) /\ <<>> \in Seq(Nat) /\ Len(<<>>) = 0
  BY EmptySeq
<1>4. Owner
  <2>1. resumeAt \in Frame
    <3>1. 0 \in Frame /\ SeekTargets \subseteq Frame
      BY ReaderAssumption, TranscodeAssumption DEF Frame
    <3>2. QED
      BY <3>1, <1>1
  <2>2. QED
    BY <2>1, <1>1 DEF Owner, Stopping
<1>5. Numbering
  BY <1>1 DEF Numbering, Early
<1>6. Delivery
  <2>1. InOrder
    <3>1. 0..(Len(delivered) - 1) = {}
      BY <1>1, <1>3
    <3>2. QED
      BY <3>1, <1>1, <1>3 DEF InOrder
  <2>2. QED
    BY <2>1, <1>1 DEF Delivery
<1>7. WriterType
  BY <1>2, <1>3 DEF WriterType
<1>8. Stages /\ Filled
  <2>1. Given = 0
    BY <1>1 DEF Given
  <2>2. QED
    BY <2>1, <1>1, <1>2 DEF Stages, Filled
<1>9. QED
  BY <1>4, <1>5, <1>6, <1>7, <1>8 DEF Handing

\* All of this holds in every state of the run.
THEOREM RunInvariance == Spec => [](ReaderInv /\ Handing)
<1>1. ReaderInv /\ Handing /\ [Next]_vars => Handing'
  <2> SUFFICES ASSUME ReaderInv, Handing, [Next]_vars PROVE Handing'
    OBVIOUS
  <2>1. RunInv /\ WriterType /\ Stages /\ Filled
    BY DEF RunInv, Handing
  <2>2. Owner' /\ Numbering' /\ Delivery'
    BY <2>1, OwnerStep, NumberingStep, DeliveryStep DEF RunInv
  <2>3. WriterType' /\ Stages' /\ Filled'
    BY <2>1, WriterTypeStep, StagesStep, FilledStep
  <2>4. QED
    BY <2>2, <2>3 DEF Handing
<1>2. Spec => []ReaderInv
  BY ReaderInvariance, RunOwnsReader, PTL
<1>3. QED
  BY <1>1, <1>2, RunBegins, PTL DEF Spec

\* All frames that were taken out are given to the writer before it is closed.
LEMMA TakenIsHanded ==
  ASSUME ReaderInv, Handing, writing = "done", ~writerError
  PROVE  /\ start = 0 /\ Given = Len(reads) /\ Given \in Nat
         /\ Taken = reads /\ Handed = reads
<1>1. /\ reads \in Seq(Frame) /\ Len(reads) \in Nat /\ Len(delivered) \in Nat
      /\ delivered # <<>> <=> Len(delivered) > 0
      /\ Len(delivered) > 0 => start = 0
  BY Bounds DEF Handing
<1>2. eos # None /\ Len(delivered) = eos + 1 /\ delivered # <<>>
  BY DEF Handing, Delivery
<1>3. start = 0 /\ eos = Len(reads) /\ Given = Len(reads)
  <2>1. start = 0
    BY <1>1, <1>2
  <2>2. eos = start + Len(reads)
    BY <1>2 DEF Handing, Numbering
  <2>3. eos = Len(reads)
    BY <2>1, <2>2, <1>1
  <2>4. Given = Len(delivered) - 1
    BY DEF Given
  <2>5. QED
    BY <2>1, <2>3, <2>4, <1>1, <1>2
<1>4. Handed = reads
  <2>1. SubSeq(reads, 1, Len(reads)) = reads
    BY <1>1, SubSeqFull
  <2>2. QED
    BY <2>1, <1>3 DEF Handed
<1>5. Cardinality({n \in 0..(Len(delivered) - 1) : n # eos}) = Len(reads)
  <2>1. {n \in 0..(Len(delivered) - 1) : n # eos} = 0..(Len(reads) - 1)
    BY <1>1, <1>2, <1>3
  <2>2. Cardinality(0..(Len(reads) - 1)) = Len(reads)
    <3>1. /\ 0 \in Int /\ Len(reads) - 1 \in Int
      BY <1>1
    <3>2. Cardinality(0..(Len(reads) - 1)) =
            IF 0 > Len(reads) - 1 THEN 0 ELSE (Len(reads) - 1) - 0 + 1
      BY <3>1, FS_Interval
    <3>3. QED
      BY <3>2, <1>1
  <2>3. QED
    BY <2>1, <2>2
<1>6. Taken = [i \in 1..Len(reads) |-> reads[i]]
  <2>1. \A i \in 1..Len(reads) : Content(i - 1) = reads[i]
    <3>1. ASSUME NEW i \in 1..Len(reads) PROVE i - 1 - start + 1 = i
      BY <1>1, <1>3
    <3>2. QED
      BY <3>1 DEF Content
  <2>2. QED
    BY <2>1, <1>5 DEF Taken
<1>7. reads = [i \in 1..Len(reads) |-> reads[i]]
  BY <1>1
<1>8. QED
  BY <1>1, <1>3, <1>4, <1>6, <1>7

\* What a finished file holds.
LEMMA Finishing ==
  ASSUME ReaderInv, Handing, trailer, main # "done"
  PROVE  Taken = reads /\ Lists(written, ToSet(reads) \ lost)
<1>1. writing = "done" /\ ~writerError
  BY DEF Handing, Stages
<1>2. encodeQueue.items = <<>> /\ inEncoder = <<>>
  BY DEF Handing, Stages
<1>3. Taken = reads /\ Handed = reads
  BY <1>1, TakenIsHanded
<1>4. Accounted(ToSet(reads), <<>>, <<>>, written, lost)
  BY <1>2, <1>3 DEF Handing, Filled
<1>5. ToSet(written) = ToSet(reads) \ lost
  BY <1>4, NoMembers DEF Accounted
<1>6. \A i \in 1..(Len(written) - 1) : written[i] < written[i + 1]
  <2>1. Ordered(written) /\ Len(written) \in Nat
    BY <1>4, LenProperties DEF Accounted
  <2>2. \A i \in 1..(Len(written) - 1) :
          i \in 1..Len(written) /\ i + 1 \in 1..Len(written) /\ i < i + 1
    BY <2>1
  <2>3. QED
    BY <2>1, <2>2 DEF Ordered
<1>7. QED
  BY <1>3, <1>5, <1>6 DEF Lists

\* Of the frames the writer thread has taken out of the pipeline a finished file
\* holds, in their order, all but those that an error of the encoder or of the disk
\* has cost at its own place: shutting the queue down and closing forgets nothing
\* that was still in the queue or in the encoder.
THEOREM FileIsComplete == Spec => []FileIsWhatWasGiven
<1>1. ReaderInv /\ Handing => FileIsWhatWasGiven
  BY Finishing DEF FileIsWhatWasGiven
<1>2. QED
  BY <1>1, RunInvariance, PTL

-----------------------------------------------------------------------------
(* A run that says ok. *)

\* Without a seek all frames come from packets that can be decoded, from the first
\* on.
FromStart ==
  resumeAt = 0 =>
    /\ origin = -1
    /\ reads \in Seq(Decodable) /\ frameQueue.items \in Seq(Decodable)
    /\ codec \in Seq(Decodable)

\* The loop is left because the run is broken off or because a read found nothing,
\* and then nothing was left to read.
Leaving ==
  /\ main \in {"eos", "join", "closeWriter", "closeReader"} => ended \/ cancelled \/ writerError
  /\ ended /\ (reads # <<>> \/ origin # None) =>
       Between(IF reads = <<>> THEN origin ELSE Last(reads), Frames) = {}

\* What the run is about stays the same, and ok is said in one place only.
LEMMA ResultMoves ==
  ASSUME [Next]_vars
  PROVE  /\ UNCHANGED <<resumeAt, muxing>>
         /\ UNCHANGED <<result, output>> \/ result' # "ok" \/ RunCompleted
<1> USE DEF run
<1>1. CASE Writing \/ Cancel
  BY <1>1 DEF Writing, PopFrame, OpenForFirst, WriteInHand, Cancel
<1>2. CASE DecodingThread \/ EncodingThread
  BY <1>2 DEF DecodingThread, EncodingThread
<1>3. CASE UNCHANGED vars
  BY <1>3 DEF vars
<1>4. CASE UNCHANGED run
  BY <1>4
<1>5. CASE BeginOpen \/ BeginSeek \/ BeginLoop \/ LeaveReadLoop \/ BeginReadFrame
  BY <1>5 DEF BeginOpen, BeginSeek, BeginLoop, LeaveReadLoop, BeginReadFrame
<1>6. CASE PushFrame \/ EndOfVideo \/ PushEos \/ JoinWriting \/ CloseWriter \/ CloseReader
  BY <1>6 DEF PushFrame, EndOfVideo, PushEos, JoinWriting, CloseWriter, CloseReader
<1>7. CASE OpenFailed \/ RunCancelled \/ RunFailed \/ NothingToRename
  BY <1>7 DEF OpenFailed, RunCancelled, RunFailed, NothingToRename, Finished
<1>8. CASE RunCompleted
  BY <1>8 DEF RunCompleted
<1>9. QED
  BY <1>1, <1>2, <1>3, <1>4, <1>5, <1>6, <1>7, <1>8 DEF Next, Main

\* Whatever is read, queued or decoded was decodable when the file was opened.
LEMMA FromStartStep ==
  ASSUME ReaderInv, Owner, FromStart, [Next]_vars
  PROVE  FromStart'
<1>1. [ReaderNext]_readerVars /\ resumeAt' = resumeAt
  BY OwnerMoves, ResultMoves
<1>2. video' = video
  BY <1>1, TypeStep
<1>3. ReaderType
  BY DEF ReaderInv
<1> SUFFICES ASSUME resumeAt = 0
             PROVE  /\ origin' = -1 /\ reads' \in Seq(Decodable)
                    /\ frameQueue'.items \in Seq(Decodable) /\ codec' \in Seq(Decodable)
  BY <1>1, <1>2 DEF FromStart, Decodable
<1>4. /\ origin = -1 /\ reads \in Seq(Decodable) /\ frameQueue.items \in Seq(Decodable)
      /\ codec \in Seq(Decodable)
  BY DEF FromStart
<1>5. <<>> \in Seq(Decodable)
  BY EmptySeq
<1> USE DEF stream, past
<1> DEFINE Goal == /\ origin' = -1 /\ reads' \in Seq(Decodable)
                   /\ frameQueue'.items \in Seq(Decodable) /\ codec' \in Seq(Decodable)
<1>6. ASSUME UNCHANGED <<origin, reads, codec>>, frameQueue'.items = frameQueue.items PROVE Goal
  BY <1>4, <1>6
<1>7. ASSUME UNCHANGED <<origin, reads>>, Queue!Push(Head(codec)), codec # <<>>,
             codec' = Tail(codec)
      PROVE  Goal
  <2>1. Head(codec) \in Decodable /\ codec' \in Seq(Decodable)
    BY <1>4, <1>7, HeadTailProperties
  <2>2. Head(codec) \in Frame
    BY <2>1, Numbers
  <2>3. frameQueue'.items \in {frameQueue.items, Append(frameQueue.items, Head(codec))}
    BY <2>2, <1>3, <1>7, QueueMoves
  <2>4. Append(frameQueue.items, Head(codec)) \in Seq(Decodable)
    BY <2>1, <1>4, AppendProperties
  <2>5. QED
    BY <2>1, <2>3, <2>4, <1>4, <1>7
<1>8. CASE DecodePacket
  <2>1. UNCHANGED <<origin, reads, frameQueue>>
    BY <1>8 DEF DecodePacket
  <2>2. CASE position \in Decodable
    <3>1. Append(codec, position) \in Seq(Decodable)
      BY <2>2, <1>4, AppendProperties
    <3>2. QED
      BY <2>1, <2>2, <3>1, <1>4, <1>8 DEF DecodePacket
  <2>3. CASE position \notin Decodable
    BY <2>1, <2>3, <1>6, <1>8 DEF DecodePacket
  <2>4. QED
    BY <2>2, <2>3
<1>9. CASE PushDecoded
  <2>1. CASE Len(codec) > video.latency
    <3>1. video.latency \in Nat
      BY <1>3, ReaderAssumption DEF ReaderType
    <3>2. codec # <<>>
      BY <2>1, <3>1, EmptySeq
    <3>3. QED
      BY <2>1, <3>2, <1>7, <1>9 DEF PushDecoded
  <2>2. CASE ~(Len(codec) > video.latency)
    BY <2>2, <1>6, <1>9 DEF PushDecoded
  <2>3. QED
    BY <2>1, <2>2
<1>10. CASE LeaveLoop
  BY <1>6, <1>10 DEF LeaveLoop
<1>11. CASE Drain
  <2>1. CASE isDecoding /\ codec # <<>>
    BY <2>1, <1>7, <1>11 DEF Drain
  <2>2. CASE ~(isDecoding /\ codec # <<>>)
    BY <2>2, <1>6, <1>11 DEF Drain
  <2>3. QED
    BY <2>1, <2>2
<1>12. CASE ExitDecoder
  <2>1. frameQueue'.items = frameQueue.items
    BY <1>3, <1>12, QueueMoves DEF ExitDecoder
  <2>2. QED
    BY <2>1, <1>6, <1>12 DEF ExitDecoder
<1>13. CASE ShutdownQueue
  <2>1. frameQueue'.items = frameQueue.items
    BY <1>3, <1>13, QueueMoves DEF ShutdownQueue
  <2>2. QED
    BY <2>1, <1>6, <1>13 DEF ShutdownQueue
<1>14. CASE JoinDecoder
  BY <1>6, <1>14 DEF JoinDecoder
<1>15. CASE OpenFile
  <2>1. frameQueue'.items = <<>>
    BY <1>3, <1>15, QueueMoves DEF OpenFile, StartDecoding
  <2>2. QED
    BY <2>1, <1>5, <1>15 DEF OpenFile, Began
<1>16. CASE OpenFails
  BY <1>4, <1>5, <1>16 DEF OpenFails, Began
<1>17. CASE CloseFile
  BY <1>4, <1>5, <1>17 DEF CloseFile
<1>18. ASSUME NEW k \in Frame, SeekFinds(k) \/ SeekFails(k) PROVE Goal
  <2>1. caller = "work" /\ call = Seeking(k)
    BY <1>18 DEF SeekFinds, SeekFails, AtWork
  <2>2. Opening.name = "open" /\ Closing.name = "close" /\ Seeking(k).name = "seek"
    BY DEF Opening, Closing, Seeking
  <2>3. main = "sought" /\ resumeAt > 0
    BY <2>1, <2>2 DEF Owner, Stopping
  <2>4. QED
    BY <2>3
<1>19. CASE StoppingCalls
  BY <1>13, <1>14, <1>15, <1>16, <1>17, <1>18, <1>19 DEF StoppingCalls
<1>20. CASE BeginRead
  BY <1>6, <1>20 DEF BeginRead
<1>21. ASSUME NEW f \in Frame, ReadFrame(f) PROVE Goal
  <2>1. /\ frameQueue.items # <<>> /\ f = Head(frameQueue.items)
        /\ frameQueue'.items = Tail(frameQueue.items)
        /\ reads' = Append(reads, f) /\ UNCHANGED <<origin, codec>>
    BY <1>3, <1>21, QueueMoves DEF ReadFrame
  <2>2. f \in Decodable /\ Tail(frameQueue.items) \in Seq(Decodable)
    BY <2>1, <1>4, HeadTailProperties
  <2>3. reads' \in Seq(Decodable)
    BY <2>1, <2>2, <1>4, AppendProperties
  <2>4. QED
    BY <2>1, <2>2, <2>3, <1>4
<1>22. CASE ReadNothing
  BY <1>6, <1>22 DEF ReadNothing, Queue!PopNothing
<1>23. ASSUME NEW c, StopDecoding(c) PROVE Goal
  BY <1>6, <1>23 DEF StopDecoding
<1>24. CASE UNCHANGED readerVars
  BY <1>6, <1>24 DEF readerVars
<1>25. QED
  BY <1>1, <1>8, <1>9, <1>10, <1>11, <1>12, <1>19, <1>20, <1>21, <1>22, <1>23, <1>24
     DEF ReaderNext, Decoding

\* The loop is left at the end of the video, or because the run is broken off.
LEMMA LeavingStep ==
  ASSUME ReaderInv, Owner, Numbering, Leaving, [Next]_vars
  PROVE  Leaving'
<1>1. [ReaderNext]_readerVars /\ ReaderInv'
  BY OwnerMoves, TypeStep, FlagsStep, PlacesStep, EndingStep, FlowStep, HistoryStep
     DEF ReaderInv
<1>2. video' = video
  BY <1>1, TypeStep
<1> DEFINE Left == {"eos", "join", "closeWriter", "closeReader"}
           Over == ended /\ (reads # <<>> \/ origin # None) =>
                     Between(IF reads = <<>> THEN origin ELSE Last(reads), Frames) = {}
<1>3. ASSUME UNCHANGED past PROVE Over'
  <2>1. Over
    BY DEF Leaving
  <2>2. Decodable' = Decodable
    BY <1>2 DEF Decodable
  <2>3. QED
    BY <2>1, <2>2, <1>3 DEF past, Between
<1>4. ASSUME main' \in Left => main \in Left, ended' = ended,
             cancelled' = cancelled \/ cancelled' = TRUE,
             writerError' = writerError \/ writerError' = TRUE
      PROVE  main' \in Left => ended' \/ cancelled' \/ writerError'
  BY <1>4 DEF Leaving
<1>5. CASE PushFrame
  <2>1. ~ended' /\ main' = "loop"
    BY <1>5 DEF PushFrame, ReadFrame, Numbering
  <2>2. QED
    BY <2>1 DEF Leaving
<1>6. CASE EndOfVideo
  <2>1. ended' /\ isOpen' = isOpen /\ caller = "read"
    BY <1>6 DEF EndOfVideo, ReadNothing
  <2>2. isOpen'
    BY <2>1 DEF ReaderInv, Places
  <2>3. EmptyMeansEnd'
    BY <1>1 DEF ReaderInv
  <2>4. QED
    BY <2>1, <2>2, <2>3 DEF Leaving, EmptyMeansEnd
<1>7. CASE /\ main \in {"opened", "sought"} /\ UNCHANGED <<writerVars, run>>
           /\ reads' = <<>> /\ ~ended'
  BY <1>7 DEF run, Leaving
<1>8. ASSUME UNCHANGED past PROVE Leaving'
  <2>1. ended' = ended
    BY <1>8 DEF past
  <2>2. SUFFICES main' \in Left => ended' \/ cancelled' \/ writerError'
    BY <1>3, <1>8 DEF Leaving
  <2>3. CASE LeaveReadLoop
    BY <2>3 DEF LeaveReadLoop
  <2>4. CASE UNCHANGED run
    BY <2>1, <2>4, <1>4 DEF run
  <2>5. CASE Writing \/ Cancel
    BY <2>1, <2>5, <1>4 DEF Writing, PopFrame, OpenForFirst, WriteInHand, Cancel
  <2>6. CASE DecodingThread \/ EncodingThread \/ UNCHANGED vars
    BY <2>4, <2>6 DEF DecodingThread, EncodingThread, vars
  <2>7. CASE BeginOpen \/ BeginSeek \/ BeginLoop \/ OpenFailed
    BY <2>1, <2>7, <1>4 DEF BeginOpen, BeginSeek, BeginLoop, OpenFailed, Finished
  <2>8. CASE PushEos
    BY <2>1, <2>8, <1>4 DEF PushEos
  <2>12. CASE JoinWriting \/ CloseReader
    BY <2>1, <2>12, <1>4 DEF JoinWriting, CloseReader
  <2>9. CASE BeginReadFrame \/ CloseWriter
    BY <2>4, <2>9 DEF BeginReadFrame, CloseWriter
  <2>10. CASE RunCancelled \/ RunFailed \/ RunCompleted \/ NothingToRename
    BY <2>10 DEF RunCancelled, RunFailed, RunCompleted, NothingToRename, Finished
  <2>11. CASE Main
    BY <2>11, <2>3, <2>4, <2>7, <2>8, <2>9, <2>10, <2>12, <1>5, <1>6, <1>8, PastMoves DEF Main, Leaving
  <2>13. QED
    BY <2>5, <2>6, <2>11 DEF Next
<1>9. QED
  BY <1>5, <1>6, <1>7, <1>8, PastMoves

\* Frames that are consecutive from the first to the last list all there are.
LEMMA AllInOrder ==
  ASSUME NEW s \in Seq(Decodable), s # <<>>, Consecutive(-1, s), Between(Last(s), Frames) = {}
  PROVE  Lists(s, Decodable) /\ Len(s) <= Frames
<1> DEFINE n == Len(s)
<1>1. n \in Nat \ {0} /\ (\A i \in 1..n : s[i] \in Decodable) /\ DOMAIN s = 1..n
  BY EmptySeq, LenProperties, ElementOfSeq
<1>2. Frames \in Nat /\ \A x \in Decodable : x \in Nat /\ x < Frames
  BY Numbers
<1> HIDE DEF n
<1>3. \A i \in 1..n : s[i] \in Nat /\ s[i] < Frames
  BY <1>1, <1>2
<1>4. \A i \in 1..(n - 1) : s[i] < s[i + 1] /\ Between(s[i], s[i + 1]) = {}
  BY DEF Consecutive, n
<1>5. Between(-1, s[1]) = {} /\ Between(s[n], Frames) = {}
  <2>1. -1 # None
    BY ReaderAssumption
  <2>2. QED
    BY <2>1 DEF Consecutive, n, Last
<1>6. ASSUME NEW x \in Decodable PROVE \E i \in 1..n : s[i] = x
  <2> SUFFICES ASSUME \A i \in 1..n : s[i] # x PROVE FALSE
    OBVIOUS
  <2> DEFINE Above == {i \in 1..n : x < s[i]}
  <2>1. CASE Above = {}
    <3>1. n \in 1..n /\ ~(x < s[n])
      BY <2>1, <1>1
    <3>2. s[n] < x /\ x < Frames
      BY <3>1, <1>2, <1>3
    <3>3. QED
      BY <3>2, <1>5 DEF Between
  <2>2. CASE Above # {}
    <3>1. PICK m \in Above : \A y \in Above : m <= y
      <4>1. Above \in SUBSET Nat
        BY <1>1
      <4>2. QED
        BY <4>1, <2>2, Least
    <3>2. m \in 1..n /\ x < s[m]
      OBVIOUS
    <3>3. CASE m = 1
      <4>1. -1 < x
        BY <1>2
      <4>2. QED
        BY <4>1, <3>2, <3>3, <1>5 DEF Between
    <3>4. CASE m # 1
      <4>1. m - 1 \in 1..(n - 1) /\ m - 1 \in 1..n /\ m - 1 + 1 = m /\ ~(m <= m - 1)
        BY <3>2, <3>4, <1>1
      <4>2. m - 1 \notin Above
        BY <4>1, <3>1
      <4>3. s[m - 1] < x
        <5>1. ~(x < s[m - 1]) /\ s[m - 1] # x
          BY <4>1, <4>2
        <5>2. x \in Nat /\ s[m - 1] \in Nat
          BY <4>1, <1>2, <1>3
        <5>3. QED
          BY <5>1, <5>2
      <4>4. Between(s[m - 1], s[m]) = {}
        BY <4>1, <1>4
      <4>5. QED
        BY <4>3, <4>4, <3>2 DEF Between
    <3>5. QED
      BY <3>3, <3>4
  <2>3. QED
    BY <2>1, <2>2
<1>7. ToSet(s) = Decodable
  BY <1>1, <1>6 DEF ToSet
<1>8. \A i \in 1..n : i - 1 <= s[i]
  <2> DEFINE Bad == {i \in 1..n : ~(i - 1 <= s[i])}
  <2>1. SUFFICES ASSUME Bad # {} PROVE FALSE
    OBVIOUS
  <2>2. PICK m \in Bad : \A y \in Bad : m <= y
    <3>1. Bad \in SUBSET Nat
      BY <1>1
    <3>2. QED
      BY <3>1, <2>1, Least
  <2>3. m \in 1..n /\ ~(m - 1 <= s[m])
    OBVIOUS
  <2>4. m # 1
    BY <2>3, <1>3
  <2>5. m - 1 \in 1..(n - 1) /\ m - 1 \in 1..n /\ m - 1 + 1 = m /\ ~(m <= m - 1)
    BY <2>3, <2>4, <1>1
  <2>6. m - 1 \notin Bad
    BY <2>2, <2>5
  <2>7. m - 1 - 1 <= s[m - 1] /\ s[m - 1] < s[m]
    BY <2>5, <2>6, <1>4
  <2>8. QED
    BY <2>3, <2>5, <2>7, <1>3
<1>9. n <= Frames
  <2>1. n \in 1..n
    BY <1>1
  <2>2. n - 1 <= s[n] /\ s[n] < Frames /\ s[n] \in Nat
    BY <2>1, <1>3, <1>8
  <2>3. QED
    BY <2>2, <1>1, <1>2
<1>10. QED
  BY <1>4, <1>7, <1>9 DEF Lists, n

\* The run says ok when it is over and the writer is closed.
SaidOk == result = "ok" => main = "done" /\ closing = "closed"

\* So nothing is lost afterwards.
LEMMA OverStep ==
  ASSUME Handing, SaidOk, [Next]_vars
  PROVE  /\ SaidOk'
         /\ result = "ok" => UNCHANGED <<lost, output>>
<1>1. ASSUME main = "done", closing = "closed"
      PROVE  main' = "done" /\ closing' = "closed" /\ UNCHANGED <<lost, output>>
  <2>1. writing # "open" /\ writing # "write" /\ encoder = "none"
    BY <1>1 DEF Handing, Stages
  <2>2. main' = "done"
    BY <1>1, DoneStays
  <2>3. UNCHANGED output
    <3>1. CASE Writing \/ Cancel
      BY <3>1 DEF Writing, PopFrame, OpenForFirst, WriteInHand, Cancel
    <3>2. CASE DecodingThread \/ EncodingThread \/ UNCHANGED vars
      BY <3>2 DEF DecodingThread, EncodingThread, vars, run
    <3>3. CASE Main
      BY <1>1, <3>3 DEF Main, BeginOpen, OpenFailed, BeginSeek, BeginLoop, LeaveReadLoop,
         BeginReadFrame, PushFrame, EndOfVideo, PushEos, JoinWriting, CloseWriter, CloseReader,
         RunCancelled, RunFailed, RunCompleted, NothingToRename, Closed, run
    <3>4. QED
      BY <3>1, <3>2, <3>3 DEF Next
  <2>4. UNCHANGED <<lost, closing>>
    <3>1. ~(FinishFile \/ EncodingThread \/ RunCompleted \/ CloseWriter)
      BY <1>1, <2>1 DEF FinishFile, EncodingThread, Encoding, EncodeFrame, FlushEncoder,
         RunCompleted, Closed, CloseWriter
    <3>2. ~(OpenForFirst \/ WriteInHand)
      BY <2>1 DEF OpenForFirst, WriteInHand
    <3>3. PopFrame \/ BeginLoop \/ CloseReader => UNCHANGED <<lost, closing>>
      BY DEF PopFrame, BeginLoop, CloseReader, writerVars
    <3>4. QED
      BY <3>1, <3>2, <3>3, WriterMoves DEF writerVars
  <2>5. QED
    BY <1>1, <2>2, <2>3, <2>4
<1>2. ASSUME RunCompleted PROVE main' = "done" /\ closing' = "closed"
  BY <1>2 DEF RunCompleted, Finished, Closed, Handing, Stages
<1>3. QED
  BY <1>1, <1>2, ResultMoves DEF SaidOk

\* The step in which the run says ok.
LEMMA OkIsWhole ==
  ASSUME ReaderInv, Handing, FromStart, Leaving, RunCompleted, resumeAt = 0, Decodable # {}
  PROVE  /\ output' # None
         /\ output'.audio => muxing
         /\ Lists(output'.frames, Decodable \ lost')
<1>1. main = "closeReader" /\ ~cancelled /\ ~writerError
  BY DEF RunCompleted, Closed
<1>2. writing = "done" /\ ended /\ closing = "closed"
  BY <1>1 DEF Handing, Delivery, Leaving, Stages
<1>3. /\ origin = -1 /\ reads \in Seq(Decodable) /\ Consecutive(-1, reads)
      /\ origin # None
  <2>1. -1 # None
    BY ReaderAssumption
  <2>2. QED
    BY <2>1 DEF FromStart, ReaderInv
<1>4. Between(IF reads = <<>> THEN -1 ELSE Last(reads), Frames) = {}
  BY <1>2, <1>3 DEF Leaving
<1>5. reads # <<>>
  <2>1. PICK x \in Decodable : TRUE
    OBVIOUS
  <2>2. -1 < x /\ x < Frames
    BY Numbers
  <2>3. x \in Between(-1, Frames)
    BY <2>2 DEF Between
  <2>4. QED
    BY <2>3, <1>4
<1>6. ToSet(reads) = Decodable
  BY <1>3, <1>4, <1>5, AllInOrder DEF Lists
<1>7. Len(reads) \in Nat
  BY LenProperties DEF ReaderInv, ReaderType
<1>8. trailer
  <2>1. Given = Len(reads)
    BY <1>1, <1>2, TakenIsHanded
  <2>2. Given > 0
    BY <2>1, <1>5, <1>7, EmptySeq
  <2>3. QED
    BY <2>2, <1>2 DEF Handing, Stages
<1>9. Lists(written, Decodable \ lost) /\ written \in Seq(Frame)
  <2>1. main # "done"
    BY <1>1
  <2>2. Lists(written, Decodable \ lost)
    BY <2>1, <1>6, <1>8, Finishing
  <2>3. written \in Seq(Frame)
    BY <2>1, <1>8 DEF Handing, Filled, Accounted
  <2>4. QED
    BY <2>2, <2>3
<1>10. VideoFile = [frames |-> written, audio |-> FALSE] /\ VideoFile # None
  <2>1. VideoFile = [frames |-> written, audio |-> FALSE]
    BY <1>8 DEF VideoFile
  <2>2. VideoFile \in VideoFiles
    BY <2>1, <1>9 DEF VideoFiles
  <2>3. QED
    BY <2>1, <2>2, TranscodeAssumption
<1>11. CASE KeepVideo
  BY <1>9, <1>10, <1>11 DEF KeepVideo
<1>12. CASE muxing /\ Merge
  <2>1. PICK f \in BoundedSeq(Frame, Len(written)) :
          /\ ToSet(f) \subseteq ToSet(written) /\ Lists(f, ToSet(f))
          /\ output' = [frames |-> f, audio |-> TRUE]
          /\ lost' = lost \cup (ToSet(written) \ ToSet(f))
    BY <1>12 DEF Merge
  <2>2. f \in Seq(Frame)
    <3>1. PICK m \in 0..Len(written) : f \in [1..m -> Frame]
      BY DEF BoundedSeq, SeqOf
    <3>2. m \in Nat
      BY <3>1, <1>9, LenProperties
    <3>3. QED
      BY <3>1, <3>2, SeqDef
  <2>3. output' # None
    <3>1. output' \in VideoFiles
      BY <2>1, <2>2 DEF VideoFiles
    <3>2. QED
      BY <3>1, TranscodeAssumption
  <2>4. ToSet(f) = Decodable \ lost'
    BY <2>1, <1>9 DEF Lists
  <2>5. QED
    BY <2>1, <2>3, <2>4, <1>12
<1>13. QED
  BY <1>11, <1>12 DEF RunCompleted

\* When ProcessVideo has not resumed and says ok, the output has every frame of the
\* file that can be decoded, once and in order, but for those that an error of the
\* encoder or of the disk has cost.
THEOREM OkIsTheWholeVideo == Spec => []OkMeansWhole
<1> DEFINE Inv == FromStart /\ Leaving /\ SaidOk /\ OkMeansWhole
<1>1. Init => Inv
  <2> SUFFICES ASSUME Init PROVE Inv
    OBVIOUS
  <2>1. /\ reads = <<>> /\ ~ended /\ codec = <<>> /\ origin = -1 /\ main = "begin"
        /\ result = "running"
    BY DEF Init, ReaderInit
  <2>2. frameQueue.items = <<>>
    BY DEF Init, ReaderInit, Queue!NewQueue
  <2>3. <<>> \in Seq(Decodable)
    BY EmptySeq
  <2>4. QED
    BY <2>1, <2>2, <2>3 DEF FromStart, Leaving, SaidOk, OkMeansWhole
<1>2. ReaderInv /\ Handing /\ Inv /\ [Next]_vars => Inv'
  <2> SUFFICES ASSUME ReaderInv, Handing, Inv, [Next]_vars PROVE Inv'
    OBVIOUS
  <2>1. FromStart' /\ Leaving' /\ SaidOk'
    BY FromStartStep, LeavingStep, OverStep DEF Handing
  <2>2. OkMeansWhole'
    <3>1. video' = video /\ UNCHANGED <<resumeAt, muxing>>
      <4>1. [ReaderNext]_readerVars
        BY OwnerMoves
      <4>2. QED
        BY <4>1, TypeStep, ResultMoves
    <3>2. Decodable' = Decodable
      BY <3>1 DEF Decodable
    <3>3. CASE UNCHANGED <<result, output>>
      <4>1. CASE result = "ok"
        <5>1. lost' = lost
          BY <4>1, OverStep
        <5>2. QED
          BY <5>1, <3>1, <3>2, <3>3 DEF OkMeansWhole, Lists
      <4>2. CASE result # "ok"
        BY <4>2, <3>3 DEF OkMeansWhole
      <4>3. QED
        BY <4>1, <4>2
    <3>4. CASE result' # "ok"
      BY <3>4 DEF OkMeansWhole
    <3>5. CASE RunCompleted
      <4> SUFFICES ASSUME resumeAt = 0, Decodable # {}
                   PROVE  /\ output' # None
                          /\ output'.audio => muxing
                          /\ Lists(output'.frames, Decodable \ lost')
        BY <3>1, <3>2 DEF OkMeansWhole, Lists
      <4>1. QED
        BY <3>5, OkIsWhole
    <3>6. QED
      BY <3>3, <3>4, <3>5, ResultMoves
  <2>3. QED
    BY <2>1, <2>2
<1>3. QED
  BY <1>1, <1>2, RunInvariance, PTL DEF Spec
=============================================================================
