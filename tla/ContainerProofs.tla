--------------------------- MODULE ContainerProofs ---------------------------
(***************************************************************************)
(* Proofs about the two containers that threads share.  The queue: for any *)
(* number of threads of each kind, any capacity and any batch size, no     *)
(* wakeup is lost, and it is the blocking queue its callers see.  The      *)
(* session pool: for any keys, limits and number of sessions, its          *)
(* hand-made list stays linked both ways through exactly the entries of    *)
(* the map, and it is the LRU cache its callers see.                       *)
(***************************************************************************)
EXTENDS ThreadSafeQueue, SessionPool, SequenceTheorems, FiniteSetTheorems,
        NaturalsInduction, TLAPS

-----------------------------------------------------------------------------
(* Types. *)

\* TypeOK, in parts.
QueueType ==
  /\ queue \in Seq(1..MaxPush)
  /\ Len(queue) <= Capacity
  /\ taken \in Seq(1..MaxPush)

Sleepers ==
  /\ notEmpty \subseteq Consumer
  /\ notFull \subseteq Producer
  /\ awake \subseteq (Producer \cup Consumer) \ (notEmpty \cup notFull)

Items ==
  /\ issued \in 0..MaxPush
  /\ item \in [Producer -> 0..MaxPush]
  /\ \A p \in Producer : item[p] # 0 <=> p \in awake \cup notFull

\* The flag is set by the first statement of shutdown.
Closing ==
  /\ shut \in BOOLEAN
  /\ closer \in {"before", "wakeConsumers", "wakeProducers", "after"}
  /\ shut <=> closer # "before"

TInv == QueueType /\ Sleepers /\ Items /\ Closing

\* What taking n items does to a sequence.
LEMMA TakeFrom ==
  ASSUME NEW S, NEW q \in Seq(S), NEW n \in 0..Len(q)
  PROVE  /\ SubSeq(q, 1, n) \in Seq(S)
         /\ SubSeq(q, n + 1, Len(q)) \in Seq(S)
         /\ Len(SubSeq(q, n + 1, Len(q))) = Len(q) - n
<1>1. Len(q) \in Nat /\ n \in Nat /\ n <= Len(q)
  BY LenProperties
<1>2. \A i \in 1..Len(q) : q[i] \in S
  BY LenProperties
<1>3. SubSeq(q, 1, n) \in Seq(S)
  BY <1>1, <1>2, SubSeqProperties
<1>4. /\ SubSeq(q, n + 1, Len(q)) \in Seq(S)
      /\ Len(SubSeq(q, n + 1, Len(q))) =
           IF n + 1 <= Len(q) THEN Len(q) - (n + 1) + 1 ELSE 0
  <2>1. \A i \in (n + 1)..Len(q) : q[i] \in S
    BY <1>1, <1>2
  <2>2. n + 1 \in Int /\ Len(q) \in Int
    BY <1>1
  <2>3. QED
    BY <2>1, <2>2, SubSeqProperties
<1>5. QED
  BY <1>1, <1>3, <1>4

\* A batch is not empty and not larger than the queue.
LEMMA BatchSizeOK ==
  ASSUME QueueType, queue # <<>>
  PROVE  /\ BatchLen \in 1..Len(queue)
         /\ 1 \in 1..Len(queue)
<1>1. Len(queue) \in Nat /\ Len(queue) # 0
  BY LenProperties, EmptySeq DEF QueueType
<1>2. QED
  BY <1>1, QueueAssumption DEF BatchLen

\* Only a push adds to the queue, and only a pop takes from it.
LEMMA QueueTypeStep == TInv /\ [Next]_vars => QueueType'
<1> SUFFICES ASSUME TInv, [Next]_vars PROVE QueueType'
  OBVIOUS
<1> USE DEF TInv
<1>1. ASSUME NEW p \in Producer, Push(p) PROVE QueueType'
  <2>1. item[p] \in 1..MaxPush
    <3>1. item[p] # 0 /\ item[p] \in 0..MaxPush
      BY <1>1 DEF Push, Items
    <3>2. QED
      BY <3>1, QueueAssumption
  <2>2. /\ queue' = Append(queue, item[p])
        /\ Len(queue) < Capacity
        /\ taken' = taken
    BY <1>1 DEF Push, CanPush
  <2>3. queue' \in Seq(1..MaxPush) /\ Len(queue') = Len(queue) + 1
    BY <2>1, <2>2, AppendProperties DEF QueueType
  <2>4. Len(queue) \in Nat
    BY LenProperties DEF QueueType
  <2>5. QED
    BY <2>2, <2>3, <2>4, QueueAssumption DEF QueueType
<1>2. ASSUME NEW c \in Consumer, NEW n \in 1..Len(queue), NEW wakes,
             TakeItems(c, n, wakes)
      PROVE  QueueType'
  <2>1. Len(queue) \in Nat /\ n \in 0..Len(queue) /\ n \in Nat
    BY LenProperties DEF QueueType
  <2>2. /\ taken' = taken \o SubSeq(queue, 1, n)
        /\ queue' = SubSeq(queue, n + 1, Len(queue))
    BY <1>2 DEF TakeItems
  <2>3. /\ SubSeq(queue, 1, n) \in Seq(1..MaxPush)
        /\ queue' \in Seq(1..MaxPush) /\ Len(queue') = Len(queue) - n
    BY <2>1, <2>2, TakeFrom DEF QueueType
  <2>4. taken' \in Seq(1..MaxPush)
    BY <2>2, <2>3, ConcatProperties DEF QueueType
  <2>5. QED
    BY <2>1, <2>3, <2>4, QueueAssumption DEF QueueType
<1>3. ASSUME NEW c \in Consumer, Pop(c) \/ PopBatch(c) PROVE QueueType'
  BY <1>2, <1>3, BatchSizeOK DEF Pop, PopBatch
<1>4. ASSUME UNCHANGED <<queue, taken>> PROVE QueueType'
  BY <1>4 DEF QueueType
<1>5. QED
  BY <1>1, <1>3, <1>4
     DEF Next, PushStep, PopStep, CallPush, PushWaits, PushDiscards, CallPop,
         PopWaits, PopNothing, SetShut, WakeConsumers, WakeProducers,
         SpuriousWakeup, vars

\* Whom a notification wakes.
LEMMA Woken ==
  ASSUME NEW sleepers, NEW woken \in One(sleepers)
  PROVE  /\ woken \subseteq sleepers
         /\ sleepers = {} => woken = {}
         /\ sleepers # {} => \E t \in sleepers : woken = {t}
BY DEF One

\* A thread is asleep on one condition variable or awake, never both.
LEMMA SleepersStep == TInv /\ [Next]_vars => Sleepers'
<1> SUFFICES ASSUME TInv, [Next]_vars PROVE Sleepers'
  OBVIOUS
<1> USE QueueAssumption DEF TInv, Sleepers
<1>1. ASSUME NEW p \in Producer, CallPush(p) \/ PushStep(p) PROVE Sleepers'
  <2>1. CallPush(p) => Sleepers'
    BY DEF CallPush, Items
  <2>2. PushWaits(p) => Sleepers'
    BY DEF PushWaits
  <2>3. Push(p) => Sleepers'
    BY Woken DEF Push, LeaveAndWake
  <2>4. PushDiscards(p) => Sleepers'
    BY DEF PushDiscards
  <2>5. QED
    BY <1>1, <2>1, <2>2, <2>3, <2>4 DEF PushStep
<1>2. ASSUME NEW c \in Consumer, CallPop(c) \/ PopStep(c) PROVE Sleepers'
  <2>1. CallPop(c) => Sleepers'
    BY DEF CallPop
  <2>2. PopWaits(c) => Sleepers'
    BY DEF PopWaits
  <2>3. Pop(c) => Sleepers'
    BY Woken DEF Pop, TakeItems, LeaveAndWake
  <2>4. PopBatch(c) => Sleepers'
    BY DEF PopBatch, TakeItems, LeaveAndWake, All
  <2>5. PopNothing(c) => Sleepers'
    BY DEF PopNothing
  <2>6. QED
    BY <1>2, <2>1, <2>2, <2>3, <2>4, <2>5 DEF PopStep
<1>3. ASSUME WakeConsumers \/ WakeProducers \/ SpuriousWakeup PROVE Sleepers'
  BY <1>3 DEF WakeConsumers, WakeProducers, SpuriousWakeup
<1>4. ASSUME SetShut \/ UNCHANGED vars PROVE Sleepers'
  BY <1>4 DEF SetShut, vars
<1>5. QED
  BY <1>1, <1>2, <1>3, <1>4 DEF Next

\* A producer has an item exactly while it is in a call.
LEMMA ItemsStep == TInv /\ [Next]_vars => Items'
<1> SUFFICES ASSUME TInv, [Next]_vars PROVE Items'
  OBVIOUS
<1> USE QueueAssumption DEF TInv, Items, Sleepers
<1>1. ASSUME NEW p \in Producer, CallPush(p) PROVE Items'
  <2>1. /\ issued' = issued + 1 /\ issued < MaxPush
        /\ item' = [item EXCEPT ![p] = issued']
        /\ awake' = awake \cup {p} /\ notFull' = notFull
    BY <1>1 DEF CallPush
  <2>2. issued' \in 0..MaxPush /\ issued' # 0
    BY <2>1
  <2>3. QED
    BY <2>1, <2>2
<1>2. ASSUME NEW p \in Producer, PushWaits(p) PROVE Items'
  BY <1>2 DEF PushWaits
<1>3. ASSUME NEW p \in Producer, Push(p) PROVE Items'
  <2>1. PICK woken \in One(notEmpty) : awake' = (awake \ {p}) \cup woken
    BY <1>3 DEF Push, LeaveAndWake
  <2>2. /\ item' = [item EXCEPT ![p] = 0] /\ issued' = issued
        /\ notFull' = notFull /\ p \in awake
    BY <1>3 DEF Push
  <2>3. woken \cap Producer = {}
    BY <2>1, Woken
  <2>4. QED
    BY <2>1, <2>2, <2>3
<1>4. ASSUME NEW p \in Producer, PushDiscards(p) PROVE Items'
  BY <1>4 DEF PushDiscards
<1>5. ASSUME NEW c \in Consumer, Pop(c) \/ PopBatch(c) PROVE Items'
  <2>1. PICK woken \in One(notFull) \cup All(notFull) :
          notFull' = notFull \ woken /\ awake' = (awake \ {c}) \cup woken
    BY <1>5 DEF Pop, PopBatch, TakeItems, LeaveAndWake
  <2>2. woken \subseteq notFull
    BY <2>1, Woken DEF All
  <2>3. item' = item /\ issued' = issued
    BY <1>5 DEF Pop, PopBatch, TakeItems
  <2>4. QED
    BY <2>1, <2>2, <2>3
<1>6. ASSUME NEW c \in Consumer, CallPop(c) \/ PopWaits(c) \/ PopNothing(c)
      PROVE  Items'
  BY <1>6 DEF CallPop, PopWaits, PopNothing
<1>7. ASSUME WakeConsumers \/ WakeProducers \/ SpuriousWakeup PROVE Items'
  BY <1>7 DEF WakeConsumers, WakeProducers, SpuriousWakeup
<1>8. ASSUME SetShut \/ UNCHANGED vars PROVE Items'
  BY <1>8 DEF SetShut, vars
<1>9. QED
  BY <1>1, <1>2, <1>3, <1>4, <1>5, <1>6, <1>7, <1>8
     DEF Next, PushStep, PopStep

\* The flag goes with the first statement of shutdown.
LEMMA ClosingStep == TInv /\ [Next]_vars => Closing'
<1> SUFFICES ASSUME TInv, [Next]_vars PROVE Closing'
  OBVIOUS
<1>1. CASE SetShut \/ WakeConsumers \/ WakeProducers
  BY <1>1 DEF SetShut, WakeConsumers, WakeProducers, TInv, Closing
<1>2. CASE UNCHANGED <<shut, closer>>
  BY <1>2 DEF TInv, Closing
<1>3. QED
  BY <1>1, <1>2
     DEF Next, PushStep, PopStep, CallPush, PushWaits, Push, PushDiscards,
         CallPop, PopWaits, Pop, PopBatch, PopNothing, TakeItems,
         SpuriousWakeup, vars

\* The types hold in every reachable state.
LEMMA TypesHold == Spec => []TInv
<1>1. Init => TInv
  <2> SUFFICES ASSUME Init PROVE TInv
    OBVIOUS
  <2>1. QueueType
    BY QueueAssumption, EmptySeq DEF Init, QueueType
  <2>2. Sleepers
    BY DEF Init, Sleepers
  <2>3. item = [p \in Producer |-> 0] /\ issued = 0 /\ 0 \in 0..MaxPush
    BY QueueAssumption DEF Init
  <2>4. Items
    BY <2>3 DEF Init, Items
  <2>5. Closing
    BY DEF Init, Closing
  <2>6. QED
    BY <2>1, <2>2, <2>4, <2>5 DEF TInv
<1>2. TInv /\ [Next]_vars => TInv'
  BY QueueTypeStep, SleepersStep, ItemsStep, ClosingStep DEF TInv
<1>3. QED
  BY <1>1, <1>2, PTL DEF Spec

\* Every variable holds a value of its type, no thread is in two places at
\* once, and the queue keeps to its capacity.
THEOREM QueueTypeCorrect == Spec => []TypeOK
<1>1. TInv => TypeOK
  BY DEF TInv, QueueType, Sleepers, Items, Closing, TypeOK
<1>2. QED
  BY <1>1, TypesHold, PTL

-----------------------------------------------------------------------------
(* No wakeup is lost. *)

\* How many of a kind of thread compete for the mutex, as one of them joins or
\* leaves.
LEMMA Counting ==
  ASSUME NEW Kind, IsFiniteSet(Kind), NEW set, NEW t
  PROVE  /\ Cardinality(set \cap Kind) \in Nat
         /\ Cardinality((set \cup {t}) \cap Kind) =
              IF t \in Kind \ set THEN Cardinality(set \cap Kind) + 1
                                 ELSE Cardinality(set \cap Kind)
         /\ Cardinality((set \ {t}) \cap Kind) =
              IF t \in set \cap Kind THEN Cardinality(set \cap Kind) - 1
                                   ELSE Cardinality(set \cap Kind)
<1>1. IsFiniteSet(set \cap Kind)
  BY FS_Subset
<1>2. Cardinality(set \cap Kind) \in Nat
  BY <1>1, FS_CardinalityType
<1>3. ASSUME t \in Kind
      PROVE  /\ (set \cup {t}) \cap Kind = (set \cap Kind) \cup {t}
             /\ (set \ {t}) \cap Kind = (set \cap Kind) \ {t}
  BY <1>3
<1>4. ASSUME t \notin Kind
      PROVE  /\ (set \cup {t}) \cap Kind = set \cap Kind
             /\ (set \ {t}) \cap Kind = set \cap Kind
  BY <1>4
<1>5. CASE t \in Kind
  <2>1. Cardinality((set \cap Kind) \cup {t}) =
          IF t \in set \cap Kind THEN Cardinality(set \cap Kind)
                               ELSE Cardinality(set \cap Kind) + 1
    BY <1>1, FS_AddElement
  <2>2. Cardinality((set \cap Kind) \ {t}) =
          IF t \in set \cap Kind THEN Cardinality(set \cap Kind) - 1
                               ELSE Cardinality(set \cap Kind)
    BY <1>1, FS_RemoveElement
  <2>3. QED
    BY <1>2, <1>3, <1>5, <2>1, <2>2
<1>6. CASE t \notin Kind
  BY <1>2, <1>4, <1>6
<1>7. QED
  BY <1>5, <1>6

\* The threads of one kind that compete for the mutex.
AwakeConsumers == Cardinality(awake \cap Consumer)
AwakeProducers == Cardinality(awake \cap Producer)

\* A step of a producer in push changes the number of items by one exactly when
\* it wakes a consumer, if one sleeps.
LEMMA NoItemStep == TInv /\ NoItemForgotten /\ [Next]_vars => NoItemForgotten'
<1> SUFFICES ASSUME TInv, NoItemForgotten, [Next]_vars, notEmpty' # {}
             PROVE  Len(queue') <= AwakeConsumers'
  BY DEF NoItemForgotten, AwakeConsumers
<1> USE DEF TInv
<1>1. IsFiniteSet(Consumer) /\ Producer \cap Consumer = {}
  BY QueueAssumption
<1>2. Len(queue) \in Nat /\ AwakeConsumers \in Nat
  <2>1. Len(queue) \in Nat
    BY LenProperties DEF QueueType
  <2>2. AwakeConsumers \in Nat
    BY <1>1, Counting DEF AwakeConsumers
  <2>3. QED
    BY <2>1, <2>2
<1>3. notEmpty # {} => Len(queue) <= AwakeConsumers
  BY DEF NoItemForgotten, AwakeConsumers
<1>4. ASSUME UNCHANGED queue, notEmpty' = notEmpty,
             awake' \cap Consumer = awake \cap Consumer
      PROVE  Len(queue') <= AwakeConsumers'
  BY <1>3, <1>4 DEF AwakeConsumers
<1>5. ASSUME NEW p \in Producer, CallPush(p) \/ PushWaits(p) \/ PushDiscards(p)
      PROVE  Len(queue') <= AwakeConsumers'
  BY <1>1, <1>4, <1>5 DEF CallPush, PushWaits, PushDiscards
<1>6. ASSUME NEW p \in Producer, Push(p) PROVE Len(queue') <= AwakeConsumers'
  <2>1. PICK woken \in One(notEmpty) : /\ notEmpty' = notEmpty \ woken
                                       /\ awake' = (awake \ {p}) \cup woken
    BY <1>6 DEF Push, LeaveAndWake
  <2>2. notEmpty # {}
    BY <2>1
  <2>3. PICK t \in notEmpty : woken = {t}
    BY <2>1, <2>2, Woken
  <2>4. t \in Consumer \ awake
    BY DEF Sleepers
  <2>5. awake' \cap Consumer = (awake \cup {t}) \cap Consumer
    BY <1>1, <2>1, <2>3
  <2>6. AwakeConsumers' = AwakeConsumers + 1
    BY <1>1, <2>4, <2>5, Counting DEF AwakeConsumers
  <2>7. Len(queue') = Len(queue) + 1
    <3>1. queue' = Append(queue, item[p]) /\ item[p] # 0
      BY <1>6 DEF Push, Items
    <3>2. item[p] \in 1..MaxPush
      BY <3>1, QueueAssumption DEF Items
    <3>3. QED
      BY <3>1, <3>2, AppendProperties DEF QueueType
  <2>8. QED
    BY <1>2, <1>3, <2>2, <2>6, <2>7
<1>7. ASSUME NEW c \in Consumer, CallPop(c) PROVE Len(queue') <= AwakeConsumers'
  <2>1. /\ UNCHANGED <<queue, notEmpty>> /\ awake' = awake \cup {c}
        /\ c \notin awake
    BY <1>7 DEF CallPop
  <2>2. AwakeConsumers' = AwakeConsumers + 1
    BY <1>1, <2>1, Counting DEF AwakeConsumers
  <2>3. QED
    BY <1>2, <1>3, <2>1, <2>2
<1>8. ASSUME NEW c \in Consumer, PopWaits(c) \/ PopNothing(c)
      PROVE  Len(queue') <= AwakeConsumers'
  <2>1. queue' = <<>> /\ Len(<<>>) = 0
    BY <1>8, EmptySeq DEF PopWaits, PopNothing, CanPop
  <2>2. AwakeConsumers' \in Nat
    BY <1>1, Counting DEF AwakeConsumers
  <2>3. QED
    BY <2>1, <2>2
<1>9. ASSUME NEW c \in Consumer, Pop(c) \/ PopBatch(c)
      PROVE  Len(queue') <= AwakeConsumers'
  <2>1. PICK n \in 1..Len(queue) : queue' = SubSeq(queue, n + 1, Len(queue))
    BY <1>9, BatchSizeOK DEF Pop, PopBatch, TakeItems
  <2>2. Len(queue') = Len(queue) - n
    BY <1>2, <2>1, TakeFrom DEF QueueType
  <2>3. PICK woken \in One(notFull) \cup All(notFull) :
          awake' = (awake \ {c}) \cup woken
    BY <1>9 DEF Pop, PopBatch, TakeItems, LeaveAndWake
  <2>4. woken \subseteq Producer
    BY <2>3, Woken DEF All, Sleepers
  <2>5. awake' \cap Consumer = (awake \ {c}) \cap Consumer /\ c \in awake
    BY <1>1, <1>9, <2>3, <2>4 DEF Pop, PopBatch
  <2>6. AwakeConsumers' = AwakeConsumers - 1
    BY <1>1, <2>5, Counting DEF AwakeConsumers
  <2>7. notEmpty # {}
    BY <1>9 DEF Pop, PopBatch, TakeItems
  <2>8. QED
    BY <1>2, <1>3, <2>1, <2>2, <2>6, <2>7
<1>10. ASSUME SpuriousWakeup PROVE Len(queue') <= AwakeConsumers'
  <2>1. PICK t \in notEmpty \cup notFull :
          /\ notEmpty' = notEmpty \ {t} /\ awake' = awake \cup {t}
          /\ queue' = queue
    BY <1>10 DEF SpuriousWakeup
  <2>2. AwakeConsumers' \in {AwakeConsumers, AwakeConsumers + 1}
    BY <1>1, <2>1, Counting DEF AwakeConsumers
  <2>3. notEmpty # {}
    BY <2>1
  <2>4. QED
    BY <1>2, <1>3, <2>1, <2>2, <2>3
<1>11. ASSUME WakeProducers \/ SetShut \/ UNCHANGED vars
       PROVE  Len(queue') <= AwakeConsumers'
  <2>1. awake' \cap Consumer = awake \cap Consumer
    BY <1>1, <1>11 DEF WakeProducers, SetShut, vars, Sleepers
  <2>2. QED
    BY <1>4, <1>11, <2>1 DEF WakeProducers, SetShut, vars
<1>12. ~WakeConsumers
  BY DEF WakeConsumers
<1>13. QED
  BY <1>5, <1>6, <1>7, <1>8, <1>9, <1>10, <1>11, <1>12
     DEF Next, PushStep, PopStep

\* No item lies in front of a sleeping consumer: however the threads race for
\* the mutex, one notification per item wakes enough of them.
THEOREM ItemsFindConsumers == Spec => []NoItemForgotten
<1>1. Init => NoItemForgotten
  BY DEF Init, NoItemForgotten
<1>2. QED
  BY <1>1, TypesHold, NoItemStep, PTL DEF Spec

\* Producers keep sleeping only while those awake are enough for the free slots.
LEMMA NoSlotStep == TInv /\ NoSlotForgotten /\ [Next]_vars => NoSlotForgotten'
<1> SUFFICES ASSUME TInv, NoSlotForgotten, [Next]_vars, notFull' # {}, ~shut'
             PROVE  Capacity - Len(queue') <= AwakeProducers'
  BY DEF NoSlotForgotten, AwakeProducers
<1> USE DEF TInv
<1>1. /\ IsFiniteSet(Producer) /\ Producer \cap Consumer = {}
      /\ Capacity \in Nat
  BY QueueAssumption
<1>2. Len(queue) \in Nat /\ AwakeProducers \in Nat
  <2>1. Len(queue) \in Nat
    BY LenProperties DEF QueueType
  <2>2. AwakeProducers \in Nat
    BY <1>1, Counting DEF AwakeProducers
  <2>3. QED
    BY <2>1, <2>2
<1>3. notFull # {} /\ ~shut => Capacity - Len(queue) <= AwakeProducers
  BY DEF NoSlotForgotten, AwakeProducers
<1>4. ASSUME UNCHANGED <<queue, shut>>, notFull' = notFull,
             awake' \cap Producer = awake \cap Producer
      PROVE  Capacity - Len(queue') <= AwakeProducers'
  BY <1>3, <1>4 DEF AwakeProducers
<1>5. ASSUME NEW c \in Consumer, CallPop(c) \/ PopWaits(c)
      PROVE  Capacity - Len(queue') <= AwakeProducers'
  BY <1>1, <1>4, <1>5 DEF CallPop, PopWaits
<1>6. ASSUME NEW c \in Consumer, Pop(c)
      PROVE  Capacity - Len(queue') <= AwakeProducers'
  <2>1. PICK woken \in One(notFull) : /\ notFull' = notFull \ woken
                                      /\ awake' = (awake \ {c}) \cup woken
    BY <1>6 DEF Pop, TakeItems, LeaveAndWake
  <2>2. notFull # {} /\ ~shut
    BY <1>6, <2>1 DEF Pop, TakeItems
  <2>3. PICK t \in notFull : woken = {t}
    BY <2>1, <2>2, Woken
  <2>4. t \in Producer \ awake
    BY DEF Sleepers
  <2>5. awake' \cap Producer = (awake \cup {t}) \cap Producer
    BY <1>1, <2>1, <2>3
  <2>6. AwakeProducers' = AwakeProducers + 1
    BY <1>1, <2>4, <2>5, Counting DEF AwakeProducers
  <2>7. Len(queue') = Len(queue) - 1
    <3>1. queue' = SubSeq(queue, 1 + 1, Len(queue)) /\ 1 \in 1..Len(queue)
      BY <1>6, BatchSizeOK DEF Pop, TakeItems
    <3>2. 1 \in 0..Len(queue)
      BY <1>2, <3>1
    <3>3. QED
      BY <3>1, <3>2, TakeFrom DEF QueueType
  <2>8. QED
    BY <1>1, <1>2, <1>3, <2>2, <2>6, <2>7
<1>7. ASSUME NEW c \in Consumer PROVE ~PopBatch(c) /\ ~PopNothing(c)
  BY DEF PopBatch, TakeItems, All, PopNothing
<1>8. ASSUME NEW p \in Producer, CallPush(p)
      PROVE  Capacity - Len(queue') <= AwakeProducers'
  <2>1. /\ UNCHANGED <<queue, shut, notFull>> /\ awake' = awake \cup {p}
    BY <1>8 DEF CallPush
  <2>2. AwakeProducers' \in {AwakeProducers, AwakeProducers + 1}
    BY <1>1, <2>1, Counting DEF AwakeProducers
  <2>3. QED
    BY <1>1, <1>2, <1>3, <2>1, <2>2
<1>9. ASSUME NEW p \in Producer, PushWaits(p)
      PROVE  Capacity - Len(queue') <= AwakeProducers'
  <2>1. queue' = queue /\ ~(Len(queue) < Capacity)
    BY <1>9 DEF PushWaits, CanPush
  <2>2. AwakeProducers' \in Nat
    BY <1>1, Counting DEF AwakeProducers
  <2>3. QED
    BY <1>1, <1>2, <2>1, <2>2
<1>10. ASSUME NEW p \in Producer, Push(p)
       PROVE  Capacity - Len(queue') <= AwakeProducers'
  <2>1. PICK woken \in One(notEmpty) : awake' = (awake \ {p}) \cup woken
    BY <1>10 DEF Push, LeaveAndWake
  <2>2. woken \subseteq Consumer
    BY <2>1, Woken DEF Sleepers
  <2>3. awake' \cap Producer = (awake \ {p}) \cap Producer /\ p \in awake
    BY <1>1, <1>10, <2>1, <2>2 DEF Push
  <2>4. AwakeProducers' = AwakeProducers - 1
    BY <1>1, <2>3, Counting DEF AwakeProducers
  <2>5. notFull # {} /\ ~shut
    BY <1>10 DEF Push
  <2>6. Len(queue') = Len(queue) + 1
    <3>1. queue' = Append(queue, item[p]) /\ item[p] # 0
      BY <1>10 DEF Push, Items
    <3>2. item[p] \in 1..MaxPush
      BY <3>1, QueueAssumption DEF Items
    <3>3. QED
      BY <3>1, <3>2, AppendProperties DEF QueueType
  <2>7. QED
    BY <1>1, <1>2, <1>3, <2>4, <2>5, <2>6
<1>11. ASSUME NEW p \in Producer PROVE ~PushDiscards(p)
  BY DEF PushDiscards
<1>12. ASSUME SpuriousWakeup PROVE Capacity - Len(queue') <= AwakeProducers'
  <2>1. PICK t \in notEmpty \cup notFull :
          /\ notFull' = notFull \ {t} /\ awake' = awake \cup {t}
          /\ queue' = queue /\ shut' = shut
    BY <1>12 DEF SpuriousWakeup
  <2>2. AwakeProducers' \in {AwakeProducers, AwakeProducers + 1}
    BY <1>1, <2>1, Counting DEF AwakeProducers
  <2>3. notFull # {}
    BY <2>1
  <2>4. QED
    BY <1>1, <1>2, <1>3, <2>1, <2>2, <2>3
<1>13. ~WakeProducers /\ ~SetShut
  BY DEF WakeProducers, SetShut
<1>14. ASSUME WakeConsumers \/ UNCHANGED vars
       PROVE  Capacity - Len(queue') <= AwakeProducers'
  <2>1. awake' \cap Producer = awake \cap Producer
    BY <1>1, <1>14 DEF WakeConsumers, vars, Sleepers
  <2>2. QED
    BY <1>4, <1>14, <2>1 DEF WakeConsumers, vars
<1>15. QED
  BY <1>5, <1>6, <1>7, <1>8, <1>9, <1>10, <1>11, <1>12, <1>13, <1>14
     DEF Next, PushStep, PopStep

\* No slot stays free in front of a sleeping producer, although pop wakes only
\* one: pop_batch, which frees several, wakes them all.
THEOREM SlotsFindProducers == Spec => []NoSlotForgotten
<1>1. Init => NoSlotForgotten
  BY DEF Init, NoSlotForgotten
<1>2. QED
  BY <1>1, TypesHold, NoSlotStep, PTL DEF Spec

\* Once the flag is set nobody goes to sleep, so the notifications of shutdown,
\* sent after the mutex was released, reach everyone who sleeps.
THEOREM ShutdownWakesAll == Spec => []NobodyLeftAsleep
<1>1. Init => NobodyLeftAsleep
  BY DEF Init, NobodyLeftAsleep
<1>2. TInv /\ NobodyLeftAsleep /\ [Next]_vars => NobodyLeftAsleep'
  <2> SUFFICES ASSUME TInv, NobodyLeftAsleep, [Next]_vars
               PROVE  NobodyLeftAsleep'
    OBVIOUS
  <2>1. closer # "before" => shut
    BY DEF TInv, Closing
  <2>2. ASSUME notEmpty' \subseteq notEmpty, notFull' \subseteq notFull,
               closer' = closer
        PROVE  NobodyLeftAsleep'
    BY <2>2 DEF NobodyLeftAsleep
  <2>3. ASSUME NEW p \in Producer, PushWaits(p) PROVE NobodyLeftAsleep'
    BY <2>1, <2>3 DEF PushWaits, CanPush, NobodyLeftAsleep
  <2>4. ASSUME NEW c \in Consumer, PopWaits(c) PROVE NobodyLeftAsleep'
    BY <2>1, <2>4 DEF PopWaits, CanPop, NobodyLeftAsleep
  <2>5. ASSUME SetShut \/ WakeConsumers \/ WakeProducers PROVE NobodyLeftAsleep'
    BY <2>5 DEF SetShut, WakeConsumers, WakeProducers, NobodyLeftAsleep
  <2>6. QED
    BY <2>2, <2>3, <2>4, <2>5
       DEF Next, PushStep, PopStep, CallPush, Push, PushDiscards, CallPop, Pop,
           PopBatch, PopNothing, TakeItems, SpuriousWakeup, vars
<1>3. QED
  BY <1>1, <1>2, TypesHold, PTL DEF Spec

-----------------------------------------------------------------------------
(* The queue implements the blocking queue its callers see. *)

\* The consumers inside pop or pop_batch.
Asking == (awake \cap Consumer) \cup notEmpty

\* A step of a producer is an atomic push, the call of one, or nothing to the
\* callers.
LEMMA ProducerImplements ==
  ASSUME TInv, NEW p \in Producer, CallPush(p) \/ PushStep(p)
  PROVE  [Abstract!Next]_Abstract!vars
<1> USE QueueAssumption DEF TInv, Sleepers
<1>1. ASSUME CallPush(p) PROVE Abstract!Offer(p)
  BY <1>1 DEF CallPush, Abstract!Offer
<1>2. ASSUME PushWaits(p) PROVE UNCHANGED Abstract!vars
  BY <1>2 DEF PushWaits, Abstract!vars
<1>3. ASSUME Push(p) PROVE Abstract!Put(p)
  <2>1. PICK woken \in One(notEmpty) : /\ notEmpty' = notEmpty \ woken
                                       /\ awake' = (awake \ {p}) \cup woken
    BY <1>3 DEF Push, LeaveAndWake
  <2>2. woken \subseteq notEmpty
    BY <2>1, Woken
  <2>3. Asking' = Asking
    BY <2>1, <2>2 DEF Asking
  <2>4. item[p] # 0
    BY <1>3 DEF Push, Items
  <2>5. QED
    BY <1>3, <2>3, <2>4 DEF Push, CanPush, Asking, Abstract!Put
<1>4. ASSUME PushDiscards(p) PROVE Abstract!Put(p)
  BY <1>4 DEF PushDiscards, Items, Abstract!Put
<1>5. QED
  BY <1>1, <1>2, <1>3, <1>4 DEF PushStep, Abstract!Next

\* A step of a consumer is an atomic pop or nothing to the callers.
LEMMA ConsumerImplements ==
  ASSUME TInv, NEW c \in Consumer, CallPop(c) \/ PopStep(c)
  PROVE  [Abstract!Next]_Abstract!vars
<1> USE QueueAssumption DEF TInv, Sleepers
<1>1. ASSUME CallPop(c) PROVE Abstract!Ask(c)
  BY <1>1 DEF CallPop, Abstract!Ask
<1>2. ASSUME PopWaits(c) PROVE UNCHANGED Abstract!vars
  BY <1>2 DEF PopWaits, Abstract!vars
<1>3. ASSUME Pop(c) PROVE Abstract!Take(c)
  <2>1. Len(queue) \in Nat \ {0}
    BY <1>3, LenProperties, EmptySeq DEF Pop, QueueType
  <2>2. Abstract!Count(c) = 1
    BY <1>3, <2>1 DEF Pop, Abstract!Count
  <2>3. PICK woken \in One(notFull) : awake' = (awake \ {c}) \cup woken
    BY <1>3 DEF Pop, TakeItems, LeaveAndWake
  <2>4. woken \subseteq notFull
    BY <2>3, Woken
  <2>5. Asking' = Asking \ {c} /\ c \in Asking
    BY <1>3, <2>3, <2>4 DEF Pop, TakeItems, Asking
  <2>6. QED
    BY <1>3, <2>2, <2>5 DEF Pop, TakeItems, Asking, Abstract!Take
<1>4. ASSUME PopBatch(c) PROVE Abstract!Take(c)
  <2>1. Abstract!Count(c) = BatchLen
    BY <1>4 DEF PopBatch, Abstract!Count, BatchLen
  <2>2. awake' = (awake \ {c}) \cup notFull
    BY <1>4 DEF PopBatch, TakeItems, LeaveAndWake, All
  <2>3. Asking' = Asking \ {c} /\ c \in Asking
    BY <1>4, <2>2 DEF PopBatch, TakeItems, Asking
  <2>4. QED
    BY <1>4, <2>1, <2>3 DEF PopBatch, TakeItems, Asking, Abstract!Take
<1>5. ASSUME PopNothing(c) PROVE Abstract!Take(c)
  <2>1. queue = <<>> /\ Len(queue) = 0
    BY <1>5, EmptySeq DEF PopNothing
  <2>2. Abstract!Count(c) = 0
    BY <2>1 DEF Abstract!Count
  <2>3. SubSeq(queue, 1, 0) = <<>> /\ SubSeq(queue, 0 + 1, Len(queue)) = <<>>
    BY <2>1, SubSeqEmpty
  <2>4. taken \o <<>> = taken
    BY ConcatEmptySeq DEF QueueType
  <2>5. Asking' = Asking \ {c} /\ c \in Asking
    BY <1>5 DEF PopNothing, Asking
  <2>6. QED
    BY <1>5, <2>1, <2>2, <2>3, <2>4, <2>5
       DEF PopNothing, Asking, Abstract!Take
<1>6. QED
  BY <1>1, <1>2, <1>3, <1>4, <1>5 DEF PopStep, Abstract!Next

\* Every stretch under the mutex is one step of a queue without mutex, sleepers
\* and notifications, or none: in particular the items go out in the order they
\* came in, each once.
THEOREM ImplementsBlockingQueue == Spec => IsBlockingQueueSafely
<1>1. Init => Abstract!Init
  BY DEF Init, Abstract!Init
<1>2. TInv /\ [Next]_vars => [Abstract!Next]_Abstract!vars
  <2> SUFFICES ASSUME TInv, [Next]_vars PROVE [Abstract!Next]_Abstract!vars
    OBVIOUS
  <2> USE QueueAssumption DEF TInv, Sleepers
  <2>1. ASSUME SetShut PROVE Abstract!Shut
    BY <2>1 DEF SetShut, Abstract!Shut, Closing
  <2>2. ASSUME WakeConsumers PROVE UNCHANGED Abstract!vars
    <3>1. Asking' = Asking
      BY <2>2 DEF WakeConsumers, Asking
    <3>2. QED
      BY <2>2, <3>1 DEF WakeConsumers, Asking, Abstract!vars
  <2>3. ASSUME WakeProducers PROVE UNCHANGED Abstract!vars
    <3>1. Asking' = Asking
      BY <2>3 DEF WakeProducers, Asking
    <3>2. QED
      BY <2>3, <3>1 DEF WakeProducers, Asking, Abstract!vars
  <2>4. ASSUME SpuriousWakeup PROVE UNCHANGED Abstract!vars
    <3>1. PICK t \in notEmpty \cup notFull :
            notEmpty' = notEmpty \ {t} /\ awake' = awake \cup {t}
      BY <2>4 DEF SpuriousWakeup
    <3>2. Asking' = Asking
      BY <3>1 DEF Asking
    <3>3. QED
      BY <2>4, <3>2 DEF SpuriousWakeup, Asking, Abstract!vars
  <2>5. ASSUME UNCHANGED vars PROVE UNCHANGED Abstract!vars
    BY <2>5 DEF vars, Abstract!vars
  <2>6. QED
    BY <2>1, <2>2, <2>3, <2>4, <2>5, ProducerImplements, ConsumerImplements
       DEF Next, Abstract!Next
<1>3. QED
  BY <1>1, <1>2, TypesHold, PTL DEF Spec, IsBlockingQueueSafely,
     Abstract!SafetySpec

-----------------------------------------------------------------------------
(* The list of a sequence of keys *)

\* The fields are what they are in the code, a head and a tail and two links for
\* each of some entries.
IsList(l) ==
  /\ l = [head |-> l.head, tail |-> l.tail, prev |-> l.prev, next |-> l.next]
  /\ l.prev = [k \in DOMAIN l.prev |-> l.prev[k]]
  /\ l.next = [k \in DOMAIN l.next |-> l.next[k]]

\* From both ends the links lead along o.
Links(l, o) ==
  /\ o \in Seq(Key) /\ IsInjective(o)
  /\ l.head = IF o = <<>> THEN Nil ELSE o[1]
  /\ l.tail = IF o = <<>> THEN Nil ELSE o[Len(o)]
  /\ \A i \in 1..Len(o) :
       /\ l.next[o[i]] = IF i = Len(o) THEN Nil ELSE o[i + 1]
       /\ l.prev[o[i]] = IF i = 1 THEN Nil ELSE o[i - 1]

Chain(l, o) ==
  IsList(l) /\ Links(l, o) /\ DOMAIN l.next = ToSet(o) /\ DOMAIN l.prev = ToSet(o)

\* A key more in front.
LEMMA AddLinks ==
  ASSUME NEW l, NEW o, IsList(l), Links(l, o), ToSet(o) \subseteq DOMAIN l.next,
         ToSet(o) \subseteq DOMAIN l.prev, NEW k \in Key, k \notin ToSet(o)
  PROVE  /\ IsList(AddToHead(l, k)) /\ Links(AddToHead(l, k), <<k>> \o o)
         /\ DOMAIN AddToHead(l, k).next = DOMAIN l.next \cup {k}
         /\ DOMAIN AddToHead(l, k).prev = DOMAIN l.prev \cup {k}
         /\ ToSet(<<k>> \o o) = ToSet(o) \cup {k}
<1> DEFINE t == <<k>> \o o
           m == AddToHead(l, k)
<1>1. o \in Seq(Key) /\ Nil \notin Key
  BY PoolAssumption DEF Links
<1>2. /\ t \in Seq(Key) /\ Len(t) = Len(o) + 1 /\ Len(o) \in Nat
      /\ t[1] = k /\ t # <<>> /\ \A i \in 1..Len(o) : t[i + 1] = o[i]
      /\ \A i \in 2..Len(t) : t[i] = o[i - 1]
  BY <1>1
<1>3. /\ IsList(m)
      /\ m.head = k
      /\ m.tail = IF l.tail = Nil THEN k ELSE l.tail
      /\ DOMAIN m.next = DOMAIN l.next \cup {k} /\ DOMAIN m.prev = DOMAIN l.prev \cup {k}
      /\ \A x \in DOMAIN l.next \cup {k} : m.next[x] = IF x = k THEN l.head ELSE l.next[x]
      /\ \A x \in DOMAIN l.prev \cup {k} :
           m.prev[x] = IF x = k THEN Nil ELSE IF x = l.head THEN k ELSE l.prev[x]
  BY DEF AddToHead, IsList
<1> HIDE DEF t, m
<1>4. ToSet(t) = ToSet(o) \cup {k}
  <2>1. DOMAIN t = 1..Len(t) /\ DOMAIN o = 1..Len(o)
    BY <1>1, <1>2
  <2>2. \A i \in 1..Len(o) : i + 1 \in 1..Len(t)
    BY <1>2
  <2>3. \A i \in 1..Len(t) : i = 1 \/ (i - 1 \in 1..Len(o) /\ t[i] = o[i - 1])
    BY <1>2
  <2>4. 1 \in 1..Len(t)
    BY <1>2
  <2>5. \A x \in ToSet(t) : x = k \/ x \in ToSet(o)
    <3> SUFFICES ASSUME NEW i \in 1..Len(t)
                 PROVE  t[i] = k \/ t[i] \in ToSet(o)
      BY <2>1 DEF ToSet
    <3> QED BY <1>2, <2>1, <2>3 DEF ToSet
  <2>6. \A x \in ToSet(o) : x \in ToSet(t)
    BY <1>2, <2>1, <2>2 DEF ToSet
  <2>7. k \in ToSet(t)
    BY <1>2, <2>1, <2>4 DEF ToSet
  <2> QED BY <2>5, <2>6, <2>7
<1>5. \A i \in 1..Len(o) : o[i] \in ToSet(o) /\ o[i] # k /\ o[i] # Nil
  BY <1>1 DEF ToSet
<1>6. IsInjective(t)
  <2> SUFFICES ASSUME NEW a \in 1..Len(t), NEW b \in 1..Len(t), t[a] = t[b]
               PROVE  a = b
    BY <1>2 DEF IsInjective
  <2>1. CASE a = 1 /\ b # 1
    BY <1>2, <1>5, <2>1
  <2>2. CASE a # 1 /\ b = 1
    BY <1>2, <1>5, <2>2
  <2>3. CASE a # 1 /\ b # 1
    <3>1. o[a - 1] = o[b - 1] /\ a - 1 \in DOMAIN o /\ b - 1 \in DOMAIN o
      BY <1>1, <1>2, <2>3
    <3>2. a - 1 = b - 1
      BY <3>1 DEF Links, IsInjective
    <3> QED BY <3>2
  <2> QED BY <2>1, <2>2, <2>3
<1>7. m.tail = t[Len(t)]
  <2>1. CASE o = <<>>
    BY <1>2, <1>3, <2>1 DEF Links
  <2>2. CASE o # <<>>
    <3>1. Len(o) \in 1..Len(o) /\ l.tail = o[Len(o)]
      BY <1>1, <2>2 DEF Links
    <3> QED BY <1>2, <1>3, <1>5, <3>1
  <2> QED BY <2>1, <2>2
<1>8. ASSUME NEW i \in 1..Len(t)
      PROVE  /\ m.next[t[i]] = IF i = Len(t) THEN Nil ELSE t[i + 1]
             /\ m.prev[t[i]] = IF i = 1 THEN Nil ELSE t[i - 1]
  <2>1. CASE i = 1
    <3>1. m.next[k] = l.head /\ m.prev[k] = Nil
      BY <1>3
    <3>2. CASE o = <<>>
      BY <1>2, <2>1, <3>1, <3>2 DEF Links
    <3>3. CASE o # <<>>
      <4>1. l.head = o[1] /\ 1 \in 1..Len(o) /\ Len(t) # 1 /\ t[1 + 1] = o[1]
        BY <1>1, <1>2, <3>3 DEF Links
      <4> QED BY <1>2, <2>1, <3>1, <4>1
    <3> QED BY <3>2, <3>3
  <2>2. CASE i # 1
    <3> DEFINE j == i - 1
    <3>1. j \in 1..Len(o) /\ i = j + 1 /\ t[i] = o[j]
      BY <1>2, <2>2
    <3>2. /\ m.next[o[j]] = l.next[o[j]]
          /\ m.prev[o[j]] = IF o[j] = l.head THEN k ELSE l.prev[o[j]]
      BY <1>3, <1>5, <3>1
    <3>3. /\ l.next[o[j]] = IF j = Len(o) THEN Nil ELSE o[j + 1]
          /\ l.prev[o[j]] = IF j = 1 THEN Nil ELSE o[j - 1]
          /\ l.head = o[1]
      <4>1. o # <<>>
        BY <1>1, <3>1
      <4> QED BY <3>1, <4>1 DEF Links
    <3>4. o[j] = o[1] => j = 1
      <4>1. j \in DOMAIN o /\ 1 \in DOMAIN o
        BY <1>1, <3>1
      <4> QED BY <4>1 DEF Links, IsInjective
    <3> HIDE DEF j
    <3>5. m.next[t[i]] = IF i = Len(t) THEN Nil ELSE t[i + 1]
      <4>1. CASE j = Len(o)
        BY <1>2, <3>1, <3>2, <3>3, <4>1
      <4>2. CASE j # Len(o)
        <5>1. j + 1 \in 1..Len(o) /\ i # Len(t) /\ t[i + 1] = o[j + 1]
          BY <1>2, <3>1, <4>2
        <5> QED BY <3>1, <3>2, <3>3, <4>2, <5>1
      <4> QED BY <4>1, <4>2
    <3>6. m.prev[t[i]] = t[i - 1]
      <4>1. CASE j = 1
        BY <1>2, <3>1, <3>2, <3>3, <4>1
      <4>2. CASE j # 1
        <5>1. j - 1 \in 1..Len(o) /\ i - 1 = (j - 1) + 1
          BY <1>2, <3>1, <4>2
        <5>2. t[i - 1] = o[j - 1]
          BY <1>2, <5>1
        <5> QED BY <3>1, <3>2, <3>3, <3>4, <4>2, <5>1, <5>2
      <4> QED BY <4>1, <4>2
    <3> QED BY <2>2, <3>5, <3>6
  <2> QED BY <2>1, <2>2
<1>9. Links(m, t)
  BY <1>2, <1>3, <1>6, <1>7, <1>8 DEF Links
<1> QED BY <1>3, <1>4, <1>9 DEF m, t

\* A sequence without the i-th of its elements.
LEMMA RemovedHolds ==
  ASSUME NEW o \in Seq(Key), IsInjective(o), NEW i \in 1..Len(o)
  PROVE  /\ RemoveAt(o, i) \in Seq(Key) /\ Len(RemoveAt(o, i)) = Len(o) - 1
         /\ \A j \in 1..(Len(o) - 1) : RemoveAt(o, i)[j] = IF j < i THEN o[j] ELSE o[j + 1]
         /\ IsInjective(RemoveAt(o, i))
         /\ ToSet(RemoveAt(o, i)) = ToSet(o) \ {o[i]}
<1> DEFINE r == RemoveAt(o, i)
           a == SubSeq(o, 1, i - 1)
           b == SubSeq(o, i + 1, Len(o))
           n == Len(o)
<1>1. n \in Nat /\ i \in Nat /\ 1 <= i /\ i <= n /\ DOMAIN o = 1..n
  OBVIOUS
<1>2. r = a \o b
  BY DEF RemoveAt
<1> HIDE DEF n, r
<1>3. /\ a \in Seq(Key) /\ Len(a) = i - 1 /\ \A j \in 1..(i - 1) : a[j] = o[j]
      /\ b \in Seq(Key) /\ Len(b) = n - i /\ \A j \in 1..(n - i) : b[j] = o[i + j]
  <2>1. /\ \A j \in 1..(i - 1) : o[j] \in Key
        /\ \A j \in (i + 1)..n : o[j] \in Key
    BY <1>1
  <2>2. 1 \in Int /\ i - 1 \in Int /\ i + 1 \in Int /\ n \in Int
    BY <1>1
  <2>3. /\ a \in Seq(Key) /\ Len(a) = IF 1 <= i - 1 THEN (i - 1) - 1 + 1 ELSE 0
        /\ \A j \in 1..((i - 1) - 1 + 1) : a[j] = o[1 + j - 1]
    BY <2>1, <2>2, SubSeqProperties
  <2>4. /\ b \in Seq(Key) /\ Len(b) = IF i + 1 <= n THEN n - (i + 1) + 1 ELSE 0
        /\ \A j \in 1..(n - (i + 1) + 1) : b[j] = o[(i + 1) + j - 1]
    BY <2>1, <2>2, SubSeqProperties DEF n
  <2> HIDE DEF a, b
  <2> QED BY <1>1, <2>3, <2>4
<1> HIDE DEF a, b
<1>4. r \in Seq(Key) /\ Len(r) = n - 1
  <2>1. a \in Seq(Key) /\ b \in Seq(Key)
    BY <1>3
  <2>2. r \in Seq(Key) /\ Len(r) = Len(a) + Len(b)
    BY <1>2, <2>1
  <2> QED BY <1>1, <1>3, <2>2
<1>5. \A j \in 1..(n - 1) : r[j] = IF j < i THEN o[j] ELSE o[j + 1]
  <2> SUFFICES ASSUME NEW j \in 1..(n - 1)
               PROVE  r[j] = IF j < i THEN o[j] ELSE o[j + 1]
    OBVIOUS
  <2>1. CASE j < i
    <3>1. j \in 1..(i - 1) /\ j \in 1..Len(a)
      BY <1>1, <1>3, <2>1
    <3>2. r[j] = a[j]
      BY <1>2, <1>3, <3>1
    <3> QED BY <1>3, <2>1, <3>1, <3>2
  <2>2. CASE ~(j < i)
    <3>1. j - (i - 1) \in 1..(n - i) /\ i + (j - (i - 1)) = j + 1
      BY <1>1, <2>2
    <3>2. r[j] = b[j - (i - 1)]
      <4>1. j \in 1..(Len(a) + Len(b)) /\ ~(j <= Len(a))
        BY <1>1, <1>3, <2>2
      <4>2. r[j] = b[j - Len(a)]
        BY <1>2, <1>3, <4>1
      <4> QED BY <1>3, <4>2
    <3> QED BY <1>3, <2>2, <3>1, <3>2
  <2> QED BY <2>1, <2>2
<1>6. DOMAIN r = 1..(n - 1)
  BY <1>4
<1>7. \A j \in 1..(n - 1) : j \in 1..n /\ j + 1 \in 1..n
  BY <1>1
<1>8. IsInjective(r)
  <2> SUFFICES ASSUME NEW x \in 1..(n - 1), NEW y \in 1..(n - 1), r[x] = r[y]
               PROVE  x = y
    BY <1>6 DEF IsInjective
  <2>1. PICK u \in 1..n : u = (IF x < i THEN x ELSE x + 1) /\ r[x] = o[u]
    BY <1>5, <1>7
  <2>2. PICK v \in 1..n : v = (IF y < i THEN y ELSE y + 1) /\ r[y] = o[v]
    BY <1>5, <1>7
  <2>3. u = v
    BY <1>1, <2>1, <2>2 DEF IsInjective
  <2> QED BY <1>1, <2>1, <2>2, <2>3
<1>9. ToSet(r) = ToSet(o) \ {o[i]}
  <2>1. ASSUME NEW j \in 1..(n - 1)
        PROVE  r[j] \in ToSet(o) /\ r[j] # o[i]
    <3>1. PICK u \in 1..n : u = (IF j < i THEN j ELSE j + 1) /\ r[j] = o[u]
      BY <1>5, <1>7
    <3>2. u # i
      BY <1>1, <3>1
    <3> QED BY <1>1, <3>1, <3>2 DEF ToSet, IsInjective
  <2>2. ASSUME NEW u \in 1..n, u # i
        PROVE  \E j \in 1..(n - 1) : r[j] = o[u]
    <3>1. CASE u < i
      <4>1. u \in 1..(n - 1)
        BY <1>1, <3>1
      <4> QED BY <1>5, <3>1, <4>1
    <3>2. CASE ~(u < i)
      <4>1. u - 1 \in 1..(n - 1) /\ ~(u - 1 < i) /\ (u - 1) + 1 = u
        BY <1>1, <2>2, <3>2
      <4> QED BY <1>5, <4>1
    <3> QED BY <3>1, <3>2
  <2>3. \A x \in ToSet(r) : x \in ToSet(o) \ {o[i]}
    BY <1>6, <2>1 DEF ToSet
  <2>4. \A x \in ToSet(o) \ {o[i]} : x \in ToSet(r)
    <3> SUFFICES ASSUME NEW x \in ToSet(o) \ {o[i]}
                 PROVE  x \in ToSet(r)
      OBVIOUS
    <3>1. PICK u \in 1..n : x = o[u]
      BY <1>1 DEF ToSet
    <3>2. u # i
      BY <3>1
    <3>3. PICK j \in 1..(n - 1) : r[j] = o[u]
      BY <2>2, <3>2
    <3> QED BY <1>6, <3>1, <3>3 DEF ToSet
  <2> QED BY <2>3, <2>4
<1> QED BY <1>4, <1>5, <1>8, <1>9 DEF n, r

\* A key less.  The other keys are linked past it; its own links stay.
LEMMA RemoveLinks ==
  ASSUME NEW l, NEW o, Chain(l, o), NEW i \in 1..Len(o)
  PROVE  /\ IsList(RemoveEntry(l, o[i])) /\ Links(RemoveEntry(l, o[i]), RemoveAt(o, i))
         /\ DOMAIN RemoveEntry(l, o[i]).next = ToSet(o)
         /\ DOMAIN RemoveEntry(l, o[i]).prev = ToSet(o)
<1> DEFINE k == o[i]
           t == RemoveAt(o, i)
           m == RemoveEntry(l, k)
           n == Len(o)
           before == IF i = 1 THEN Nil ELSE o[i - 1]
           after == IF i = n THEN Nil ELSE o[i + 1]
<1>1. /\ o \in Seq(Key) /\ Nil \notin Key /\ IsInjective(o) /\ DOMAIN o = 1..n
      /\ n \in Nat /\ i \in Nat /\ 1 <= i /\ i <= n
  BY PoolAssumption DEF Chain, Links
<1>2. /\ t \in Seq(Key) /\ Len(t) = n - 1 /\ IsInjective(t)
      /\ \A j \in 1..(n - 1) : t[j] = IF j < i THEN o[j] ELSE o[j + 1]
  BY <1>1, RemovedHolds
<1>3. /\ l.head = IF o = <<>> THEN Nil ELSE o[1]
      /\ l.tail = IF o = <<>> THEN Nil ELSE o[n]
      /\ \A j \in 1..n : /\ l.next[o[j]] = IF j = n THEN Nil ELSE o[j + 1]
                         /\ l.prev[o[j]] = IF j = 1 THEN Nil ELSE o[j - 1]
  BY DEF Chain, Links
<1>4. o # <<>>
  BY <1>1
<1> HIDE DEF n
<1>5. \A j \in 1..n : o[j] \in ToSet(o) /\ o[j] # Nil
  BY <1>1 DEF ToSet
<1>6. l.prev[k] = before /\ l.next[k] = after
  BY <1>1, <1>3
<1>7. /\ IsList(m)
      /\ m.head = IF l.head = k THEN after ELSE l.head
      /\ m.tail = IF l.tail = k THEN before ELSE l.tail
      /\ DOMAIN m.next = ToSet(o) /\ DOMAIN m.prev = ToSet(o)
      /\ \A x \in ToSet(o) : m.next[x] = IF x = before THEN after ELSE l.next[x]
      /\ \A x \in ToSet(o) : m.prev[x] = IF x = after THEN before ELSE l.prev[x]
  BY <1>6 DEF RemoveEntry, IsList, Chain
<1> HIDE DEF t, m
<1>8. \A a \in 1..n : \A b \in 1..n : o[a] = o[b] => a = b
  BY <1>1 DEF IsInjective
<1>9. m.head = IF t = <<>> THEN Nil ELSE t[1]
  <2>1. l.head = o[1] /\ 1 \in 1..n
    BY <1>1, <1>4, <1>3
  <2>2. CASE n = 1
    <3>1. i = 1 /\ t = <<>>
      BY <1>1, <1>2, <2>2
    <3> QED BY <1>7, <2>1, <2>2, <3>1
  <2>3. CASE n # 1
    <3>1. t # <<>> /\ 1 \in 1..(n - 1)
      BY <1>1, <1>2, <2>1, <2>3
    <3>2. CASE i = 1
      BY <1>2, <1>7, <2>1, <2>3, <3>1, <3>2
    <3>3. CASE i # 1
      <4>1. l.head # k /\ 1 < i
        BY <1>1, <1>8, <2>1, <3>3
      <4> QED BY <1>2, <1>7, <2>1, <3>1, <4>1
    <3> QED BY <3>2, <3>3
  <2> QED BY <2>2, <2>3
<1>10. m.tail = IF t = <<>> THEN Nil ELSE t[Len(t)]
  <2>1. l.tail = o[n] /\ n \in 1..n
    BY <1>1, <1>4, <1>3
  <2>2. CASE n = 1
    <3>1. i = 1 /\ t = <<>>
      BY <1>1, <1>2, <2>2
    <3> QED BY <1>7, <2>1, <2>2, <3>1
  <2>3. CASE n # 1
    <3>1. t # <<>> /\ n - 1 \in 1..(n - 1) /\ Len(t) = n - 1
      BY <1>1, <1>2, <2>1, <2>3
    <3>2. CASE i = n
      <4>1. m.tail = o[n - 1]
        BY <1>7, <2>1, <2>3, <3>2
      <4>2. n - 1 < i
        BY <1>1, <3>2
      <4> QED BY <1>2, <3>1, <4>1, <4>2
    <3>3. CASE i # n
      <4>1. l.tail # k /\ ~(n - 1 < i) /\ (n - 1) + 1 = n
        BY <1>1, <1>8, <2>1, <3>3
      <4> QED BY <1>2, <1>7, <2>1, <3>1, <4>1
    <3> QED BY <3>2, <3>3
  <2> QED BY <2>2, <2>3
<1>11. ASSUME NEW j \in 1..Len(t)
      PROVE  m.next[t[j]] = IF j = Len(t) THEN Nil ELSE t[j + 1]
  <2> DEFINE u == IF j < i THEN j ELSE j + 1
  <2>1. u \in 1..n /\ t[j] = o[u] /\ u # i
    BY <1>1, <1>2
  <2>2. /\ m.next[o[u]] = IF o[u] = before THEN after ELSE l.next[o[u]]
        /\ l.next[o[u]] = IF u = n THEN Nil ELSE o[u + 1]
    BY <1>5, <1>7, <1>3, <2>1
  <2>3. CASE u = i - 1
    <3>1. o[u] = before
      BY <1>1, <2>1, <2>3
    <3>2. m.next[t[j]] = after
      BY <2>1, <2>2, <3>1
    <3>3. j = i - 1
      BY <1>1, <2>3
    <3>4. CASE i = n
      BY <1>2, <3>2, <3>3, <3>4
    <3>5. CASE i # n
      <4>1. i \in 1..(n - 1) /\ j # Len(t) /\ j + 1 = i
        BY <1>1, <1>2, <3>3, <3>5
      <4>2. t[i] = o[i + 1]
        BY <1>2, <4>1
      <4> QED BY <3>2, <3>5, <4>1, <4>2
    <3> QED BY <3>4, <3>5
  <2>4. CASE u # i - 1
    <3>1. o[u] # before
      <4>1. CASE i = 1
        BY <1>5, <2>1, <4>1
      <4>2. CASE i # 1
        <5>1. i - 1 \in 1..n
          BY <1>1, <4>2
        <5> QED BY <1>8, <2>1, <2>4, <4>2, <5>1
      <4> QED BY <4>1, <4>2
    <3>2. m.next[t[j]] = IF u = n THEN Nil ELSE o[u + 1]
      BY <2>1, <2>2, <3>1
    <3>3. u = n <=> j = Len(t)
      BY <1>1, <1>2, <2>1, <2>4
    <3>4. CASE j = Len(t)
      BY <3>2, <3>3, <3>4
    <3>5. CASE j # Len(t)
      <4>1. j + 1 \in 1..(n - 1) /\ u + 1 = IF j + 1 < i THEN j + 1 ELSE (j + 1) + 1
        BY <1>1, <1>2, <2>1, <2>4, <3>5
      <4>2. t[j + 1] = o[u + 1]
        BY <1>2, <4>1
      <4> QED BY <3>2, <3>3, <3>5, <4>2
    <3> QED BY <3>4, <3>5
  <2> QED BY <2>3, <2>4
<1>12. ASSUME NEW j \in 1..Len(t)
       PROVE  m.prev[t[j]] = IF j = 1 THEN Nil ELSE t[j - 1]
  <2> DEFINE u == IF j < i THEN j ELSE j + 1
  <2>1. u \in 1..n /\ t[j] = o[u] /\ u # i
    BY <1>1, <1>2
  <2>2. /\ m.prev[o[u]] = IF o[u] = after THEN before ELSE l.prev[o[u]]
        /\ l.prev[o[u]] = IF u = 1 THEN Nil ELSE o[u - 1]
    BY <1>5, <1>7, <1>3, <2>1
  <2>3. CASE u = i + 1
    <3>1. o[u] = after
      BY <1>1, <2>1, <2>3
    <3>2. m.prev[t[j]] = before
      BY <2>1, <2>2, <3>1
    <3>3. j = i
      BY <1>1, <2>3
    <3>4. CASE i = 1
      BY <3>2, <3>3, <3>4
    <3>5. CASE i # 1
      <4>1. i - 1 \in 1..(n - 1) /\ i - 1 < i
        BY <1>1, <3>5
      <4>2. t[i - 1] = o[i - 1]
        BY <1>2, <4>1
      <4> QED BY <3>2, <3>3, <3>5, <4>2
    <3> QED BY <3>4, <3>5
  <2>4. CASE u # i + 1
    <3>1. o[u] # after
      <4>1. CASE i = n
        BY <1>5, <2>1, <4>1
      <4>2. CASE i # n
        <5>1. i + 1 \in 1..n
          BY <1>1, <4>2
        <5> QED BY <1>8, <2>1, <2>4, <4>2, <5>1
      <4> QED BY <4>1, <4>2
    <3>2. m.prev[t[j]] = IF u = 1 THEN Nil ELSE o[u - 1]
      BY <2>1, <2>2, <3>1
    <3>3. u = 1 <=> j = 1
      BY <1>1, <1>2, <2>1, <2>4
    <3>4. CASE j = 1
      BY <3>2, <3>3, <3>4
    <3>5. CASE j # 1
      <4>1. j - 1 \in 1..(n - 1) /\ u - 1 = IF j - 1 < i THEN j - 1 ELSE (j - 1) + 1
        BY <1>1, <1>2, <2>1, <2>4, <3>5
      <4>2. t[j - 1] = o[u - 1]
        BY <1>2, <4>1
      <4> QED BY <3>2, <3>3, <3>5, <4>2
    <3> QED BY <3>4, <3>5
  <2> QED BY <2>3, <2>4
<1>13. Links(m, t)
  BY <1>2, <1>9, <1>10, <1>11, <1>12 DEF Links
<1> QED BY <1>7, <1>13 DEF m, t

\* An entry is unlinked and destroyed.
LEMMA EraseHolds ==
  ASSUME NEW l, NEW o, Chain(l, o), NEW i \in 1..Len(o)
  PROVE  Chain(Erase(l, o[i]), RemoveAt(o, i))
<1> DEFINE k == o[i]
           m == RemoveEntry(l, k)
           t == RemoveAt(o, i)
           e == Erase(l, k)
<1>1. /\ IsList(m) /\ Links(m, t) /\ DOMAIN m.next = ToSet(o) /\ DOMAIN m.prev = ToSet(o)
  BY RemoveLinks
<1>2. t \in Seq(Key) /\ ToSet(t) = ToSet(o) \ {k}
  BY RemovedHolds DEF Chain, Links
<1> HIDE DEF m, t
<1>3. /\ IsList(e) /\ e.head = m.head /\ e.tail = m.tail
      /\ DOMAIN e.next = ToSet(t) /\ DOMAIN e.prev = ToSet(t)
      /\ \A x \in ToSet(t) : e.next[x] = m.next[x] /\ e.prev[x] = m.prev[x]
  <2>1. e = [head |-> m.head, tail |-> m.tail, prev |-> [x \in ToSet(t) |-> m.prev[x]],
             next |-> [x \in ToSet(t) |-> m.next[x]]]
    <3>1. e = Without(m, {k})
      BY DEF Erase, m
    <3>2. /\ DOMAIN m.prev \ {k} = ToSet(t) /\ DOMAIN m.next \ {k} = ToSet(t)
      BY <1>1, <1>2
    <3>3. m = [head |-> m.head, tail |-> m.tail, prev |-> m.prev, next |-> m.next]
      BY <1>1 DEF IsList
    <3> HIDE DEF e
    <3> QED BY <3>1, <3>2, <3>3 DEF Without
  <2> HIDE DEF e
  <2> QED BY <2>1 DEF IsList
<1> HIDE DEF e
<1>4. \A j \in 1..Len(t) : t[j] \in ToSet(t)
  BY <1>2 DEF ToSet
<1>5. Links(e, t)
  BY <1>1, <1>3, <1>4 DEF Links
<1> QED BY <1>3, <1>5 DEF Chain, e, t

\* An entry that is not the first is put in front.
LEMMA MoveHolds ==
  ASSUME NEW l, NEW o, Chain(l, o), NEW i \in 1..Len(o)
  PROVE  Chain(MoveToHead(l, o[i]), <<o[i]>> \o RemoveAt(o, i))
<1> DEFINE k == o[i]
           m == RemoveEntry(l, k)
           t == RemoveAt(o, i)
           n == Len(o)
<1>1. o \in Seq(Key) /\ IsInjective(o) /\ n \in Nat /\ DOMAIN o = 1..n /\ o # <<>> /\ k \in Key
  BY DEF Chain, Links
<1>2. /\ t \in Seq(Key) /\ Len(t) = n - 1
      /\ \A j \in 1..(n - 1) : t[j] = IF j < i THEN o[j] ELSE o[j + 1]
      /\ ToSet(t) = ToSet(o) \ {k}
  BY <1>1, RemovedHolds
<1>3. l.head = o[1] /\ 1 \in 1..n /\ k \in ToSet(o)
  <2>1. 1 \in 1..n
    BY <1>1
  <2>2. l.head = o[1]
    BY <1>1 DEF Chain, Links
  <2>3. k \in ToSet(o)
    BY <1>1 DEF ToSet
  <2> QED BY <2>1, <2>2, <2>3
<1>4. CASE l.head = k
  <2>1. i = 1
    BY <1>1, <1>3, <1>4 DEF IsInjective
  <2> DEFINE s == <<k>> \o t
  <2> HIDE DEF t, n
  <2>2. s \in Seq(Key) /\ Len(s) = n /\ s[1] = k /\ \A j \in 2..n : s[j] = t[j - 1]
    BY <1>1, <1>2
  <2>3. \A j \in 2..n : j - 1 \in 1..(n - 1) /\ ~(j - 1 < i) /\ (j - 1) + 1 = j
    BY <1>1, <2>1
  <2>4. \A j \in 2..n : s[j] = o[j]
    BY <1>2, <2>2, <2>3
  <2>5. \A j \in 1..n : s[j] = o[j]
    <3> SUFFICES ASSUME NEW j \in 1..n
                 PROVE  s[j] = o[j]
      OBVIOUS
    <3>1. CASE j = 1
      BY <2>1, <2>2, <3>1
    <3>2. CASE j # 1
      <4>1. j \in 2..n
        BY <1>1, <3>2
      <4> QED BY <2>4, <4>1
    <3> QED BY <3>1, <3>2
  <2>6. s = o
    <3> HIDE DEF s
    <3> QED BY <1>1, <2>2, <2>5 DEF n
  <2>7. MoveToHead(l, k) = l
    BY <1>4 DEF MoveToHead
  <2> QED BY <2>6, <2>7 DEF t
<1>5. CASE l.head # k
  <2> DEFINE e == AddToHead(m, k)
  <2>1. IsList(m) /\ Links(m, t) /\ DOMAIN m.next = ToSet(o) /\ DOMAIN m.prev = ToSet(o)
    BY RemoveLinks
  <2>2. k \notin ToSet(t) /\ ToSet(t) \subseteq ToSet(o)
    BY <1>2
  <2>3. /\ IsList(e) /\ Links(e, <<k>> \o t)
        /\ DOMAIN e.next = ToSet(o) \cup {k} /\ DOMAIN e.prev = ToSet(o) \cup {k}
        /\ ToSet(<<k>> \o t) = ToSet(t) \cup {k}
    <3> HIDE DEF t, m
    <3> QED BY <1>1, <2>1, <2>2, AddLinks
  <2>4. ToSet(t) \cup {k} = ToSet(o) \cup {k} /\ ToSet(o) \cup {k} = ToSet(o)
    BY <1>2, <1>3
  <2>5. MoveToHead(l, k) = e
    BY <1>5 DEF MoveToHead
  <2> HIDE DEF e, t, m
  <2> QED BY <2>3, <2>4, <2>5 DEF Chain, t
<1> QED BY <1>4, <1>5

\* A new entry is put in front.
LEMMA AddHolds ==
  ASSUME NEW l, NEW o, Chain(l, o), NEW k \in Key, k \notin ToSet(o)
  PROVE  /\ Chain(AddToHead(l, k), <<k>> \o o)
         /\ ToSet(<<k>> \o o) = ToSet(o) \cup {k}
<1> DEFINE m == AddToHead(l, k)
           t == <<k>> \o o
<1>1. /\ IsList(m) /\ Links(m, t) /\ DOMAIN m.next = ToSet(o) \cup {k}
      /\ DOMAIN m.prev = ToSet(o) \cup {k} /\ ToSet(t) = ToSet(o) \cup {k}
  BY AddLinks DEF Chain
<1> HIDE DEF m, t
<1>2. Chain(m, t)
  BY <1>1 DEF Chain
<1> QED BY <1>1, <1>2 DEF m, t

\* A list without entries.
LEMMA EmptyHolds ==
  ASSUME NEW l, IsList(l), l.head = Nil, l.tail = Nil, DOMAIN l.next = {}, DOMAIN l.prev = {}
  PROVE  Chain(l, <<>>)
<1>1. <<>> \in Seq(Key) /\ Len(<<>>) = 0 /\ DOMAIN <<>> = {} /\ 1..0 = {}
  OBVIOUS
<1>2. ToSet(<<>>) = {}
  BY <1>1 DEF ToSet
<1>3. IsInjective(<<>>)
  BY <1>1 DEF IsInjective
<1>4. Links(l, <<>>)
  BY <1>1, <1>3 DEF Links
<1> QED BY <1>2, <1>4 DEF Chain

-----------------------------------------------------------------------------
(* What stays of a sequence *)

\* A sequence is one over its own elements.
LEMMA OwnElements ==
  ASSUME NEW S, NEW s \in Seq(S)
  PROVE  s \in Seq(ToSet(s))
<1>1. \A i \in 1..Len(s) : s[i] \in ToSet(s)
  BY DEF ToSet
<1>2. s = [i \in 1..Len(s) |-> s[i]] /\ Len(s) \in Nat
  OBVIOUS
<1>3. [i \in 1..Len(s) |-> s[i]] \in [1..Len(s) -> ToSet(s)]
  BY <1>1
<1> QED BY <1>2, <1>3

\* Rest, with the library's operators under their own names.
Remains(t, s, gone) ==
  /\ t \in Seq(ToSet(s) \ gone) /\ IsInjective(t) /\ ToSet(t) = ToSet(s) \ gone
  /\ \A i, j \in DOMAIN t : i < j =>
       \E m, n \in DOMAIN s : m < n /\ s[m] = t[i] /\ s[n] = t[j]

\* The names under which LruCache brings in the same operators.
LEMMA SameNames ==
  ASSUME NEW s, NEW t, NEW gone
  PROVE  /\ Lru!ToSet(s) = ToSet(s) /\ Lru!Front(s) = Front(s)
         /\ Lru!Rest(t, s, gone) <=> Remains(t, s, gone)
BY DEF Lru!ToSet, ToSet, Lru!Front, Front, Lru!IsInjective, IsInjective, Lru!Rest, Remains

\* A sequence is what stays of it if nothing goes.
LEMMA RestSame ==
  ASSUME NEW o \in Seq(Key), IsInjective(o)
  PROVE  Remains(o, o, {})
<1>1. o \in Seq(ToSet(o)) /\ ToSet(o) \ {} = ToSet(o)
  BY OwnElements
<1> QED BY <1>1 DEF Remains

\* What stays if one element goes.
LEMMA RestRemoved ==
  ASSUME NEW o \in Seq(Key), IsInjective(o), NEW i \in 1..Len(o)
  PROVE  Remains(RemoveAt(o, i), o, {o[i]})
<1> DEFINE t == RemoveAt(o, i)
           n == Len(o)
<1>1. /\ t \in Seq(Key) /\ Len(t) = n - 1 /\ IsInjective(t)
      /\ \A j \in 1..(n - 1) : t[j] = IF j < i THEN o[j] ELSE o[j + 1]
      /\ ToSet(t) = ToSet(o) \ {o[i]}
  BY RemovedHolds
<1>2. n \in Nat /\ DOMAIN o = 1..n /\ i \in Nat
  OBVIOUS
<1> HIDE DEF t, n
<1>3. t \in Seq(ToSet(o) \ {o[i]}) /\ DOMAIN t = 1..(n - 1)
  BY <1>1, OwnElements
<1>4. ASSUME NEW a \in 1..(n - 1), NEW b \in 1..(n - 1), a < b
      PROVE  \E x, y \in DOMAIN o : x < y /\ o[x] = t[a] /\ o[y] = t[b]
  <2> DEFINE x == IF a < i THEN a ELSE a + 1
             y == IF b < i THEN b ELSE b + 1
  <2>1. x \in 1..n /\ y \in 1..n /\ x < y
    BY <1>2, <1>4
  <2>2. o[x] = t[a] /\ o[y] = t[b]
    BY <1>1
  <2> QED BY <1>2, <2>1, <2>2
<1> QED BY <1>1, <1>3, <1>4 DEF Remains, t

\* What stays if elements go twice.
LEMMA RestOfRest ==
  ASSUME NEW s, NEW t, NEW u, NEW A, NEW B, Remains(t, s, A), Remains(u, t, B)
  PROVE  Remains(u, s, A \cup B)
<1>1. ToSet(u) = ToSet(s) \ (A \cup B) /\ u \in Seq(ToSet(s) \ (A \cup B)) /\ IsInjective(u)
  <2>1. ToSet(t) \ B = ToSet(s) \ (A \cup B)
    BY DEF Remains
  <2> QED BY <2>1 DEF Remains
<1>2. IsInjective(t) /\ t \in Seq(ToSet(s) \ A)
  BY DEF Remains
<1>3. ASSUME NEW a \in DOMAIN u, NEW b \in DOMAIN u, a < b
      PROVE  \E x, y \in DOMAIN s : x < y /\ s[x] = u[a] /\ s[y] = u[b]
  <2>1. PICK v \in DOMAIN t, w \in DOMAIN t : v < w /\ t[v] = u[a] /\ t[w] = u[b]
    BY <1>3 DEF Remains
  <2>2. \E x, y \in DOMAIN s : x < y /\ s[x] = t[v] /\ s[y] = t[w]
    BY <2>1 DEF Remains
  <2> QED BY <2>1, <2>2
<1> QED BY <1>1, <1>3 DEF Remains

\* As many elements as places.
LEMMA CountHolds ==
  ASSUME NEW o \in Seq(Key), IsInjective(o)
  PROVE  IsFiniteSet(ToSet(o)) /\ Cardinality(ToSet(o)) = Len(o)
<1> DEFINE n == Len(o)
<1>1. n \in Nat /\ DOMAIN o = 1..n
  OBVIOUS
<1>2. o \in Bijection(1..n, ToSet(o))
  <2>1. \A i \in 1..n : o[i] \in ToSet(o)
    BY <1>1 DEF ToSet
  <2>2. o \in [1..n -> ToSet(o)]
    BY <1>1, <2>1
  <2>3. o \in Injection(1..n, ToSet(o))
    BY <1>1, <2>2 DEF Injection, IsInjective
  <2>4. \A x \in ToSet(o) : \E i \in 1..n : o[i] = x
    BY <1>1 DEF ToSet
  <2>5. o \in Surjection(1..n, ToSet(o))
    BY <2>2, <2>4 DEF Surjection
  <2> QED BY <2>3, <2>5 DEF Bijection
<1>3. ExistsBijection(1..n, ToSet(o))
  BY <1>2 DEF ExistsBijection
<1>4. IsFiniteSet(1..n) /\ Cardinality(1..n) = n
  <2>1. IsFiniteSet(1..n) /\ Cardinality(1..n) = IF 1 > n THEN 0 ELSE n - 1 + 1
    BY <1>1, FS_Interval
  <2> HIDE DEF n
  <2> QED BY <1>1, <2>1
<1> HIDE DEF n
<1> QED BY <1>3, <1>4, FS_Bijection DEF n

-----------------------------------------------------------------------------
(* The walk along the links *)

\* A nonempty set of natural numbers has a least element.
LEMMA Least ==
  ASSUME NEW T \in SUBSET Nat, T # {}
  PROVE  \E x \in T : \A y \in T : x <= y
<1>1. PICK x \in T : \A y \in T : ~(<<y, x>> \in OpToRel(<, Nat))
  BY WFMin, NatLessThanWellFounded, T \subseteq Nat, T # {}
<1>2. \A y \in T : ~(y < x)
  BY <1>1 DEF OpToRel
<1>3. QED
  BY <1>2

\* Where the walk goes from what it has met, and what it has then met.
Step(start, link, s, i) ==
  IF i = 1 THEN start ELSE IF Len(s) < i - 1 THEN Nil ELSE link[Last(s)]
Met(start, link, s, i) ==
  IF Step(start, link, s, i) = Nil THEN s ELSE Append(s, Step(start, link, s, i))
Walked(start, link, end, f) ==
  f = [i \in 0..end |-> IF i = 0 THEN <<>> ELSE Met(start, link, f[i - 1], i)]

\* If the links lead along o the walk meets its keys in turn, and then no other.
LEMMA WalkMeets ==
  ASSUME NEW o \in Seq(Key), NEW start, NEW link,
         start = IF o = <<>> THEN Nil ELSE o[1],
         \A i \in 1..Len(o) : link[o[i]] = IF i = Len(o) THEN Nil ELSE o[i + 1]
  PROVE  \E f : Walked(start, link, Len(o) + 1, f) /\ f[Len(o) + 1] = o
<1> DEFINE n == Len(o)
           end == n + 1
           p(i) == SubSeq(o, 1, IF i <= n THEN i ELSE n)
           f == [i \in 0..end |-> p(i)]
<1>1. n \in Nat /\ Nil \notin Key /\ end \in Nat /\ end = n + 1
  BY PoolAssumption
<1>2. \A i \in 1..n : o[i] \in Key /\ o[i] # Nil
  BY <1>1
<1>3. start = IF n = 0 THEN Nil ELSE o[1]
  BY <1>1
<1>4. \A i \in 1..n : link[o[i]] = IF i = n THEN Nil ELSE o[i + 1]
  OBVIOUS
<1>5. \A m \in 0..n : /\ SubSeq(o, 1, m) \in Seq(Key) /\ Len(SubSeq(o, 1, m)) = m
                      /\ \A i \in 1..m : SubSeq(o, 1, m)[i] = o[i]
  <2> SUFFICES ASSUME NEW m \in 0..n
               PROVE  /\ SubSeq(o, 1, m) \in Seq(Key) /\ Len(SubSeq(o, 1, m)) = m
                      /\ \A i \in 1..m : SubSeq(o, 1, m)[i] = o[i]
    OBVIOUS
  <2>1. \A i \in 1..m : o[i] \in Key
    BY <1>1, <1>2
  <2>2. /\ SubSeq(o, 1, m) \in Seq(Key)
        /\ Len(SubSeq(o, 1, m)) = IF 1 <= m THEN m - 1 + 1 ELSE 0
        /\ \A i \in 1..(m - 1 + 1) : SubSeq(o, 1, m)[i] = o[1 + i - 1]
    BY <2>1, SubSeqProperties
  <2> QED BY <2>2
<1>6. \A m \in 1..n : SubSeq(o, 1, m) = Append(SubSeq(o, 1, m - 1), o[m])
  <2> SUFFICES ASSUME NEW m \in 1..n
               PROVE  SubSeq(o, 1, m) = Append(SubSeq(o, 1, m - 1), o[m])
    OBVIOUS
  <2> DEFINE a == SubSeq(o, 1, m)
             b == SubSeq(o, 1, m - 1)
  <2>1. m \in 0..n /\ m - 1 \in 0..n /\ o[m] \in Key
    BY <1>1, <1>2
  <2>2. /\ a \in Seq(Key) /\ Len(a) = m /\ \A i \in 1..m : a[i] = o[i]
        /\ b \in Seq(Key) /\ Len(b) = m - 1 /\ \A i \in 1..(m - 1) : b[i] = o[i]
    BY <1>5, <2>1
  <2> HIDE DEF a, b, n
  <2>3. Append(b, o[m]) \in Seq(Key) /\ Len(Append(b, o[m])) = m
    BY <2>1, <2>2
  <2>4. \A i \in 1..m : Append(b, o[m])[i] = o[i]
    <3> SUFFICES ASSUME NEW i \in 1..m
                 PROVE  Append(b, o[m])[i] = o[i]
      OBVIOUS
    <3>1. CASE i = m
      BY <2>1, <2>2, <3>1
    <3>2. CASE i # m
      <4>1. i \in 1..(m - 1)
        BY <2>1, <3>2
      <4> QED BY <2>1, <2>2, <4>1
    <3> QED BY <3>1, <3>2
  <2>5. a = Append(b, o[m])
    BY <2>2, <2>3, <2>4
  <2> QED BY <2>5 DEF a, b
<1> HIDE DEF n, end
<1>7. \A i \in 0..end : f[i] = p(i)
  OBVIOUS
<1>8. ASSUME NEW i \in 1..end
      PROVE  p(i) = Met(start, link, p(i - 1), i)
  <2>1. p(0) = <<>>
    <3>1. p(0) = SubSeq(o, 1, 0)
      BY <1>1
    <3>2. SubSeq(o, 1, 0) \in Seq(Key) /\ Len(SubSeq(o, 1, 0)) = 0
      BY <1>1, <1>5
    <3>3. SubSeq(o, 1, 0) = <<>>
      BY <3>2
    <3> HIDE DEF p
    <3> QED BY <3>1, <3>3
  <2>2. CASE i = 1 /\ n = 0
    <3>1. p(1) = p(0)
      BY <1>1, <2>2
    <3> QED BY <1>3, <2>2, <3>1 DEF Met, Step
  <2>3. CASE i = 1 /\ n # 0
    <3>1. 1 \in 1..n /\ p(1) = SubSeq(o, 1, 1) /\ p(0) = SubSeq(o, 1, 1 - 1) /\ 1 - 1 = 0
      BY <1>1, <2>3
    <3>2. p(1) = Append(p(0), o[1])
      BY <1>6, <3>1
    <3> HIDE DEF p
    <3>3. Step(start, link, p(0), 1) = o[1] /\ o[1] # Nil
      BY <1>2, <1>3, <2>3, <3>1 DEF Step
    <3>4. p(1) = Met(start, link, p(0), 1)
      BY <3>2, <3>3 DEF Met
    <3> QED BY <2>3, <3>1, <3>4
  <2>4. CASE i # 1 /\ i <= n
    <3>1. /\ i \in 1..n /\ i - 1 \in 1..n /\ i - 1 \in 0..n /\ i - 1 # n /\ (i - 1) + 1 = i
          /\ p(i) = SubSeq(o, 1, i) /\ p(i - 1) = SubSeq(o, 1, i - 1)
      BY <1>1, <2>4
    <3>2. Len(p(i - 1)) = i - 1 /\ p(i - 1)[i - 1] = o[i - 1]
      BY <1>5, <3>1
    <3>3. Step(start, link, p(i - 1), i) = o[i]
      <4>1. ~(Len(p(i - 1)) < i - 1) /\ Last(p(i - 1)) = o[i - 1]
        BY <3>1, <3>2 DEF Last
      <4> HIDE DEF p
      <4> QED BY <1>4, <2>4, <3>1, <4>1 DEF Step
    <3>4. p(i) = Append(p(i - 1), o[i])
      BY <1>6, <3>1
    <3> HIDE DEF p
    <3> QED BY <1>2, <3>1, <3>3, <3>4 DEF Met
  <2>5. CASE i # 1 /\ ~(i <= n)
    <3>1. /\ i = n + 1 /\ n \in 1..n /\ n \in 0..n /\ i - 1 = n
          /\ p(i) = SubSeq(o, 1, n) /\ p(i - 1) = SubSeq(o, 1, n)
      BY <1>1, <2>5
    <3>2. Len(p(i - 1)) = n /\ p(i - 1)[n] = o[n]
      BY <1>5, <3>1
    <3>3. Step(start, link, p(i - 1), i) = Nil
      <4>1. ~(Len(p(i - 1)) < i - 1) /\ Last(p(i - 1)) = o[n]
        BY <1>1, <3>1, <3>2 DEF Last
      <4> HIDE DEF p
      <4> QED BY <1>4, <2>5, <3>1, <4>1 DEF Step
    <3> HIDE DEF p
    <3> QED BY <3>1, <3>3 DEF Met
  <2> QED BY <2>2, <2>3, <2>4, <2>5
<1>9. f = [i \in 0..end |-> IF i = 0 THEN <<>> ELSE Met(start, link, f[i - 1], i)]
  <2>1. \A i \in 0..end : i # 0 => i \in 1..end /\ i - 1 \in 0..end
    BY <1>1
  <2>2. p(0) = <<>>
    <3>1. p(0) = SubSeq(o, 1, 0)
      BY <1>1
    <3>2. SubSeq(o, 1, 0) \in Seq(Key) /\ Len(SubSeq(o, 1, 0)) = 0
      BY <1>1, <1>5
    <3>3. SubSeq(o, 1, 0) = <<>>
      BY <3>2
    <3> HIDE DEF p
    <3> QED BY <3>1, <3>3
  <2> HIDE DEF p
  <2> QED BY <1>7, <1>8, <2>1, <2>2
<1>10. f[end] = o
  <2>1. end \in 0..end /\ p(end) = SubSeq(o, 1, n) /\ n \in 0..n
    BY <1>1
  <2>2. SubSeq(o, 1, n) = o
    BY <1>5, <2>1 DEF n
  <2> HIDE DEF p
  <2> QED BY <1>7, <2>1, <2>2
<1> HIDE DEF f
<1>11. Walked(start, link, end, f)
  BY <1>9 DEF Walked
<1> QED BY <1>10, <1>11 DEF end, n

\* Only one function describes a walk.
LEMMA WalkIsUnique ==
  ASSUME NEW start, NEW link, NEW end \in Nat, NEW f, NEW g,
         Walked(start, link, end, f), Walked(start, link, end, g)
  PROVE  f = g
<1> DEFINE T == {i \in 0..end : f[i] # g[i]}
<1>1. /\ f = [i \in 0..end |-> IF i = 0 THEN <<>> ELSE Met(start, link, f[i - 1], i)]
      /\ g = [i \in 0..end |-> IF i = 0 THEN <<>> ELSE Met(start, link, g[i - 1], i)]
  BY DEF Walked
<1>2. /\ \A i \in 0..end : f[i] = IF i = 0 THEN <<>> ELSE Met(start, link, f[i - 1], i)
      /\ \A i \in 0..end : g[i] = IF i = 0 THEN <<>> ELSE Met(start, link, g[i - 1], i)
  BY <1>1
<1>3. T = {}
  <2> SUFFICES ASSUME T # {}
               PROVE  FALSE
    OBVIOUS
  <2>1. T \in SUBSET Nat
    OBVIOUS
  <2>2. PICK x \in T : \A y \in T : x <= y
    <3> HIDE DEF T
    <3> QED BY <2>1, Least
  <2>3. x \in 0..end /\ f[x] # g[x] /\ x # 0
    BY <1>2, <2>2
  <2>4. x - 1 \in 0..end /\ ~(x <= x - 1)
    BY <2>3
  <2>5. f[x - 1] = g[x - 1]
    BY <2>2, <2>4
  <2> QED BY <1>2, <2>3, <2>5
<1>4. \A i \in 0..end : f[i] = g[i]
  BY <1>3
<1>5. /\ f = [i \in 0..end |-> f[i]] /\ g = [i \in 0..end |-> g[i]]
  <2>1. f = [i \in DOMAIN f |-> f[i]] /\ DOMAIN f = 0..end
    BY <1>1
  <2>2. g = [i \in DOMAIN g |-> g[i]] /\ DOMAIN g = 0..end
    BY <1>1
  <2> QED BY <2>1, <2>2
<1> QED BY <1>4, <1>5

\* A walk along links that lead along o meets the keys of o, in its order.
LEMMA WalkIsOrder ==
  ASSUME NEW o \in Seq(Key), IsInjective(o), NEW start, NEW link,
         DOMAIN link = ToSet(o), start = IF o = <<>> THEN Nil ELSE o[1],
         \A i \in 1..Len(o) : link[o[i]] = IF i = Len(o) THEN Nil ELSE o[i + 1]
  PROVE  Walk(start, link) = o
<1> DEFINE end == Len(o) + 1
           w == CHOOSE f : Walked(start, link, end, f)
<1>1. end \in Nat /\ Cardinality(DOMAIN link) + 1 = end
  BY CountHolds
<1>2. PICK g : Walked(start, link, end, g) /\ g[end] = o
  BY WalkMeets
<1> HIDE DEF end
<1>3. Walked(start, link, end, w)
  BY <1>2
<1>4. w = g
  <2> HIDE DEF w
  <2> QED BY <1>1, <1>2, <1>3, WalkIsUnique
<1>5. Walk(start, link) = w[end]
  BY <1>1 DEF Walk, Walked, Met, Step
<1> QED BY <1>2, <1>4, <1>5

\* Of a list that leads along o the walks are o and its reverse.
LEMMA ChainIsWalked ==
  ASSUME NEW l, NEW o, Chain(l, o)
  PROVE  Walk(l.head, l.next) = o /\ Walk(l.tail, l.prev) = Reverse(o)
<1> DEFINE r == Reverse(o)
           n == Len(o)
<1>1. /\ o \in Seq(Key) /\ IsInjective(o) /\ n \in Nat /\ DOMAIN o = 1..n
      /\ DOMAIN l.next = ToSet(o) /\ DOMAIN l.prev = ToSet(o)
      /\ l.head = IF o = <<>> THEN Nil ELSE o[1]
      /\ l.tail = IF o = <<>> THEN Nil ELSE o[n]
      /\ \A i \in 1..n : l.next[o[i]] = IF i = n THEN Nil ELSE o[i + 1]
      /\ \A i \in 1..n : l.prev[o[i]] = IF i = 1 THEN Nil ELSE o[i - 1]
      /\ o = <<>> <=> n = 0
  BY DEF Chain, Links
<1>2. Walk(l.head, l.next) = o
  BY <1>1, WalkIsOrder
<1>3. r = [i \in 1..n |-> o[n - i + 1]]
  BY DEF Reverse
<1> HIDE DEF n, r
<1>4. \A i \in 1..n : n - i + 1 \in 1..n /\ r[i] = o[n - i + 1] /\ o[n - i + 1] \in Key
  BY <1>1, <1>3
<1>5. r \in Seq(Key) /\ Len(r) = n /\ DOMAIN r = 1..n
  BY <1>1, <1>3, <1>4
<1>6. IsInjective(r)
  <2> SUFFICES ASSUME NEW a \in 1..n, NEW b \in 1..n, r[a] = r[b]
               PROVE  a = b
    BY <1>5 DEF IsInjective
  <2>1. n - a + 1 = n - b + 1
    BY <1>1, <1>4 DEF IsInjective
  <2> QED BY <1>1, <2>1
<1>7. ToSet(r) = ToSet(o)
  <2>1. ASSUME NEW i \in 1..n
        PROVE  r[i] \in ToSet(o)
    BY <1>1, <1>4 DEF ToSet
  <2>2. ASSUME NEW i \in 1..n
        PROVE  o[i] \in ToSet(r)
    <3>1. n - i + 1 \in 1..n /\ n - (n - i + 1) + 1 = i
      BY <1>1
    <3>2. r[n - i + 1] = o[i]
      BY <1>4, <3>1
    <3> QED BY <1>5, <3>1, <3>2 DEF ToSet
  <2>3. ToSet(r) \subseteq ToSet(o)
    BY <1>5, <2>1 DEF ToSet
  <2>4. ToSet(o) \subseteq ToSet(r)
    BY <1>1, <2>2 DEF ToSet
  <2> QED BY <2>3, <2>4
<1>8. l.tail = IF r = <<>> THEN Nil ELSE r[1]
  <2>1. CASE n = 0
    <3>1. r = <<>>
      BY <1>5, <2>1
    <3> QED BY <1>1, <2>1, <3>1
  <2>2. CASE n # 0
    <3>1. 1 \in 1..n /\ n - 1 + 1 = n
      BY <1>1, <2>2
    <3>2. r # <<>> /\ r[1] = o[n]
      BY <1>4, <1>5, <2>2, <3>1
    <3> QED BY <1>1, <2>2, <3>2
  <2> QED BY <2>1, <2>2
<1>9. ASSUME NEW i \in 1..n
      PROVE  l.prev[r[i]] = IF i = n THEN Nil ELSE r[i + 1]
  <2> DEFINE j == n - i + 1
  <2>1. j \in 1..n /\ r[i] = o[j] /\ (j = 1 <=> i = n)
    BY <1>1, <1>4
  <2>2. CASE i = n
    BY <1>1, <2>1, <2>2
  <2>3. CASE i # n
    <3>1. i + 1 \in 1..n /\ n - (i + 1) + 1 = j - 1
      BY <1>1, <2>3
    <3>2. r[i + 1] = o[j - 1]
      BY <1>4, <3>1
    <3> HIDE DEF j
    <3> QED BY <1>1, <2>1, <2>3, <3>2
  <2> QED BY <2>2, <2>3
<1>10. Walk(l.tail, l.prev) = r
  BY <1>1, <1>5, <1>6, <1>7, <1>8, <1>9, WalkIsOrder
<1> QED BY <1>2, <1>10 DEF r

-----------------------------------------------------------------------------
(* Several entries go *)

\* What a sequence loses at its end.
LEMMA PrefixHolds ==
  ASSUME NEW o \in Seq(Key), IsInjective(o), NEW m \in 0..Len(o)
  PROVE  /\ SubSeq(o, 1, m) \in Seq(Key) /\ Len(SubSeq(o, 1, m)) = m
         /\ \A i \in 1..m : SubSeq(o, 1, m)[i] = o[i]
         /\ IsInjective(SubSeq(o, 1, m))
         /\ ToSet(SubSeq(o, 1, m)) \subseteq ToSet(o)
<1> DEFINE n == Len(o)
           s == SubSeq(o, 1, m)
<1>1. n \in Nat /\ m \in Nat /\ 0 <= m /\ m <= n /\ DOMAIN o = 1..n /\ \A i \in 1..n : o[i] \in Key
  OBVIOUS
<1>2. s \in Seq(Key) /\ Len(s) = m /\ \A i \in 1..m : s[i] = o[i]
  <2>1. \A i \in 1..m : o[i] \in Key
    BY <1>1
  <2>2. /\ s \in Seq(Key)
        /\ Len(s) = IF 1 <= m THEN m - 1 + 1 ELSE 0
        /\ \A i \in 1..(m - 1 + 1) : s[i] = o[1 + i - 1]
    BY <2>1, <1>1, SubSeqProperties
  <2> HIDE DEF s, n
  <2> QED BY <1>1, <2>2
<1> HIDE DEF s, n
<1>3. DOMAIN s = 1..m /\ \A i \in 1..m : i \in 1..n
  BY <1>1, <1>2
<1>4. IsInjective(s)
  BY <1>1, <1>2, <1>3 DEF IsInjective
<1>5. \A i \in 1..m : s[i] \in ToSet(o)
  BY <1>1, <1>2, <1>3 DEF ToSet
<1>6. ToSet(s) \subseteq ToSet(o)
  BY <1>3, <1>5 DEF ToSet
<1> QED BY <1>2, <1>4, <1>6 DEF s

\* The last of them goes.
LEMMA LastRemoved ==
  ASSUME NEW o \in Seq(Key), IsInjective(o), NEW m \in 1..Len(o)
  PROVE  RemoveAt(SubSeq(o, 1, m), m) = SubSeq(o, 1, m - 1)
<1> DEFINE s == SubSeq(o, 1, m)
           t == SubSeq(o, 1, m - 1)
           r == RemoveAt(s, m)
<1>1. m \in Nat /\ 1 <= m /\ m \in 0..Len(o) /\ m - 1 \in 0..Len(o)
  OBVIOUS
<1>2. s \in Seq(Key) /\ Len(s) = m /\ IsInjective(s) /\ \A i \in 1..m : s[i] = o[i]
  BY <1>1, PrefixHolds
<1>3. t \in Seq(Key) /\ Len(t) = m - 1 /\ \A i \in 1..(m - 1) : t[i] = o[i]
  BY <1>1, PrefixHolds
<1> HIDE DEF s, t
<1>4. m \in 1..Len(s)
  BY <1>1, <1>2
<1>5. /\ r \in Seq(Key) /\ Len(r) = Len(s) - 1
      /\ \A j \in 1..(Len(s) - 1) : r[j] = IF j < m THEN s[j] ELSE s[j + 1]
  BY <1>2, <1>4, RemovedHolds
<1> HIDE DEF r
<1>6. \A j \in 1..(m - 1) : j < m /\ j \in 1..m
  BY <1>1
<1>7. Len(r) = m - 1 /\ \A j \in 1..(m - 1) : r[j] = o[j]
  BY <1>1, <1>2, <1>5, <1>6
<1>8. r = t
  BY <1>3, <1>5, <1>7
<1> QED BY <1>8 DEF r, s, t

\* Which entry is the i-th to go: that of the i-th key, or else the last of the list.
Victim(m, keys, i) == IF i \in DOMAIN keys THEN keys[i] ELSE m.tail

\* The lists that come up one after the other when n entries go.
Successive(l, keys, n, f) ==
  f = [i \in 0..n |-> IF i = 0 THEN l ELSE Erase(f[i - 1], Victim(f[i - 1], keys, i))]

\* There are such lists.
LEMMA ErasuresExist ==
  ASSUME NEW l, NEW keys, NEW n \in Nat
  PROVE  \E f : Successive(l, keys, n, f)
<1> DEFINE Up(m, f) == Successive(l, keys, m, f)
           T == {m \in Nat : ~ \E f : Up(m, f)}
<1>1. T = {}
  <2> SUFFICES ASSUME T # {}
               PROVE  FALSE
    OBVIOUS
  <2>1. PICK x \in T : \A y \in T : x <= y
    <3>1. T \in SUBSET Nat
      OBVIOUS
    <3> HIDE DEF T
    <3> QED BY <3>1, Least
  <2>2. x # 0
    <3> DEFINE f == [i \in 0..0 |-> l]
    <3>1. \A i \in 0..0 : i = 0
      OBVIOUS
    <3>2. f = [i \in 0..0 |-> IF i = 0 THEN l
                              ELSE Erase(f[i - 1], Victim(f[i - 1], keys, i))]
      BY <3>1
    <3>3. Up(0, f)
      <4> HIDE DEF f
      <4> QED BY <3>2 DEF Successive
    <3> QED BY <2>1, <3>3
  <2>3. x \in Nat /\ x - 1 \in Nat /\ x - 1 \notin T
    <3>1. x \in Nat /\ \A y \in T : x <= y
      BY <2>1
    <3>2. x - 1 \in Nat /\ ~(x <= x - 1)
      BY <2>2, <3>1
    <3> HIDE DEF T
    <3> QED BY <3>1, <3>2
  <2>4. PICK f : Up(x - 1, f)
    <3> HIDE DEF Up
    <3> QED BY <2>3
  <2> DEFINE last == Erase(f[x - 1], Victim(f[x - 1], keys, x))
             g == [i \in 0..x |-> IF i = x THEN last ELSE f[i]]
  <2>5. \A i \in 0..(x - 1) : f[i] = IF i = 0 THEN l
                                     ELSE Erase(f[i - 1], Victim(f[i - 1], keys, i))
    BY <2>4 DEF Successive
  <2>6. ASSUME NEW i \in 0..x
        PROVE  g[i] = IF i = 0 THEN l ELSE Erase(g[i - 1], Victim(g[i - 1], keys, i))
    <3>1. CASE i = x
      <4>1. x - 1 \in 0..x /\ x - 1 # x /\ x \in 0..x
        BY <2>2, <2>3
      <4>2. g[x - 1] = f[x - 1] /\ g[x] = last
        BY <4>1
      <4> HIDE DEF g
      <4> QED BY <2>2, <3>1, <4>2
    <3>2. CASE i # x
      <4>1. i \in 0..(x - 1) /\ (i # 0 => i - 1 \in 0..x /\ i - 1 # x)
        BY <2>3, <3>2
      <4>2. g[i] = f[i] /\ (i # 0 => g[i - 1] = f[i - 1])
        BY <3>2, <4>1
      <4> HIDE DEF g
      <4> QED BY <2>5, <4>1, <4>2
    <3> QED BY <3>1, <3>2
  <2>7. g = [i \in 0..x |-> g[i]]
    OBVIOUS
  <2>8. Up(x, g)
    <3> HIDE DEF g
    <3> QED BY <2>6, <2>7 DEF Successive
  <2> HIDE DEF Up, g
  <2> QED BY <2>1, <2>8
<1>2. \E f : Up(n, f)
  <2> HIDE DEF Up
  <2> QED BY <1>1
<1> QED BY <1>2

\* The n entries used longest ago go: those at the end.
LEMMA EvictHolds ==
  ASSUME NEW l, NEW o, Chain(l, o), NEW n \in 0..Len(o)
  PROVE  Chain(EvictLru(l, n), SubSeq(o, 1, Len(o) - n))
<1> DEFINE Evictions(f) == f = [i \in 0..n |-> IF i = 0 THEN l
                                               ELSE Erase(f[i - 1], f[i - 1].tail)]
           w == CHOOSE f : Evictions(f)
           p(i) == SubSeq(o, 1, Len(o) - i)
           T == {i \in 0..n : ~Chain(w[i], p(i))}
<1>1. EvictLru(l, n) = w[n]
  BY DEF EvictLru
<1>2. o \in Seq(Key) /\ IsInjective(o) /\ Len(o) \in Nat /\ n \in Nat /\ n <= Len(o)
  BY DEF Chain, Links
<1>3. \E f : Evictions(f)
  <2>1. PICK f : Successive(l, <<>>, n, f)
    BY <1>2, ErasuresExist
  <2>2. \A m, i : Victim(m, <<>>, i) = m.tail
    BY DEF Victim
  <2>3. f = [i \in 0..n |-> IF i = 0 THEN l ELSE Erase(f[i - 1], f[i - 1].tail)]
    BY <2>1, <2>2 DEF Successive
  <2> QED BY <2>3
<1>4. Evictions(w)
  <2> HIDE DEF Evictions
  <2> QED BY <1>3
<1> HIDE DEF w
<1>5. \A i \in 0..n : w[i] = IF i = 0 THEN l ELSE Erase(w[i - 1], w[i - 1].tail)
  BY <1>4
<1>6. p(0) = o
  <2>1. Len(o) - 0 = Len(o) /\ Len(o) \in 0..Len(o)
    BY <1>2
  <2>2. SubSeq(o, 1, Len(o)) = o
    BY <1>2, <2>1, PrefixHolds
  <2> QED BY <2>1, <2>2
<1>7. T = {}
  <2> SUFFICES ASSUME T # {}
               PROVE  FALSE
    OBVIOUS
  <2>1. T \in SUBSET Nat
    BY <1>2
  <2>2. PICK x \in T : \A y \in T : x <= y
    <3> HIDE DEF T
    <3> QED BY <2>1, Least
  <2>3. x \in 0..n /\ ~Chain(w[x], p(x))
    BY <2>2
  <2>4. x # 0
    <3> HIDE DEF p
    <3> QED BY <1>5, <1>6, <2>3
  <2>5. x - 1 \in 0..n /\ ~(x <= x - 1) /\ x \in Nat
    BY <1>2, <2>3, <2>4
  <2>6. Chain(w[x - 1], p(x - 1))
    <3> HIDE DEF p
    <3> QED BY <2>2, <2>5
  <2> DEFINE m == Len(o) - (x - 1)
  <2>7. m \in 1..Len(o) /\ m \in 0..Len(o) /\ m - 1 = Len(o) - x /\ m # 0
    BY <1>2, <2>3, <2>4, <2>5
  <2> HIDE DEF m
  <2>8. p(x - 1) = SubSeq(o, 1, m) /\ p(x) = SubSeq(o, 1, m - 1)
    BY <2>7 DEF m
  <2> DEFINE s == SubSeq(o, 1, m)
  <2>9. s \in Seq(Key) /\ Len(s) = m
    BY <1>2, <2>7, PrefixHolds
  <2>10. RemoveAt(s, m) = SubSeq(o, 1, m - 1)
    BY <1>2, <2>7, LastRemoved
  <2>11. Chain(w[x - 1], s)
    BY <2>6, <2>8
  <2> HIDE DEF s, p
  <2>12. w[x - 1].tail = s[m] /\ m \in 1..Len(s)
    <3>1. s # <<>> /\ m \in 1..m
      BY <2>7, <2>9
    <3> QED BY <2>9, <2>11, <3>1 DEF Chain, Links
  <2>13. Chain(Erase(w[x - 1], s[m]), RemoveAt(s, m))
    BY <2>11, <2>12, EraseHolds
  <2> QED BY <1>5, <2>3, <2>4, <2>8, <2>10, <2>12, <2>13
<1>8. Chain(w[n], p(n))
  <2> HIDE DEF p
  <2> QED BY <1>2, <1>7
<1> QED BY <1>1, <1>8

\* The entries of some keys go.
LEMMA EraseEachHolds ==
  ASSUME NEW l, NEW o, Chain(l, o), NEW keys \in Seq(Key), IsInjective(keys),
         ToSet(keys) \subseteq ToSet(o)
  PROVE  \E t : Chain(EraseEach(l, keys), t) /\ Remains(t, o, ToSet(keys))
<1> DEFINE n == Len(keys)
           Erasures(f) == f = [i \in 0..n |-> IF i = 0 THEN l ELSE Erase(f[i - 1], keys[i])]
           w == CHOOSE f : Erasures(f)
           gone(i) == {keys[j] : j \in 1..i}
           Left(i) == \E t : Chain(w[i], t) /\ Remains(t, o, gone(i))
           T == {i \in 0..n : ~Left(i)}
<1>1. EraseEach(l, keys) = w[n]
  BY DEF EraseEach
<1>2. o \in Seq(Key) /\ IsInjective(o) /\ n \in Nat /\ DOMAIN keys = 1..n
  BY DEF Chain, Links
<1>3. \E f : Erasures(f)
  <2>1. PICK f : Successive(l, keys, n, f)
    <3> HIDE DEF n
    <3> QED BY <1>2, ErasuresExist
  <2>2. \A i \in 0..n : i # 0 => \A m : Victim(m, keys, i) = keys[i]
    BY <1>2 DEF Victim
  <2>3. f = [i \in 0..n |-> IF i = 0 THEN l ELSE Erase(f[i - 1], keys[i])]
    <3> HIDE DEF n
    <3> QED BY <2>1, <2>2 DEF Successive
  <2> QED BY <2>3
<1>4. Erasures(w)
  <2> HIDE DEF Erasures
  <2> QED BY <1>3
<1> HIDE DEF w, n
<1>5. \A i \in 0..n : w[i] = IF i = 0 THEN l ELSE Erase(w[i - 1], keys[i])
  BY <1>4
<1>6. Left(0)
  <2>1. gone(0) = {} /\ w[0] = l
    BY <1>2, <1>5
  <2>2. Remains(o, o, {})
    BY <1>2, RestSame
  <2> HIDE DEF gone
  <2> QED BY <2>1, <2>2
<1>7. T = {}
  <2> SUFFICES ASSUME T # {}
               PROVE  FALSE
    OBVIOUS
  <2> HIDE DEF Left
  <2>1. T \in SUBSET Nat
    BY <1>2
  <2>2. PICK x \in T : \A y \in T : x <= y
    <3> HIDE DEF T
    <3> QED BY <2>1, Least
  <2>3. x \in 0..n /\ ~Left(x)
    BY <2>2
  <2>4. x # 0
    BY <1>6, <2>3
  <2>5. x - 1 \in 0..n /\ ~(x <= x - 1) /\ x \in 1..n
    BY <1>2, <2>3, <2>4
  <2>6. Left(x - 1)
    BY <2>2, <2>5
  <2>7. PICK t : Chain(w[x - 1], t) /\ Remains(t, o, gone(x - 1))
    <3> HIDE DEF gone
    <3> QED BY <2>6 DEF Left
  <2>8. gone(x) = gone(x - 1) \cup {keys[x]}
    <3>1. \A j \in 1..x : j = x \/ j \in 1..(x - 1)
      BY <1>2, <2>5
    <3>2. x \in 1..x /\ \A j \in 1..(x - 1) : j \in 1..x
      BY <1>2, <2>5
    <3> QED BY <3>1, <3>2
  <2>9. keys[x] \in ToSet(o) /\ keys[x] \notin gone(x - 1)
    <3>1. \A j \in 1..(x - 1) : j \in 1..n /\ j # x
      BY <1>2, <2>5
    <3>2. keys[x] \in ToSet(keys)
      BY <1>2, <2>5 DEF ToSet
    <3>3. \A j \in 1..(x - 1) : keys[j] # keys[x]
      BY <1>2, <2>5, <3>1 DEF IsInjective
    <3> QED BY <3>2, <3>3
  <2> HIDE DEF gone
  <2>10. t \in Seq(Key) /\ IsInjective(t) /\ ToSet(t) = ToSet(o) \ gone(x - 1)
    BY <2>7 DEF Chain, Links, Remains
  <2>11. PICK j \in 1..Len(t) : keys[x] = t[j]
    BY <2>9, <2>10 DEF ToSet
  <2>12. Chain(Erase(w[x - 1], t[j]), RemoveAt(t, j))
    BY <2>7, EraseHolds
  <2>13. Remains(RemoveAt(t, j), t, {t[j]})
    BY <2>10, RestRemoved
  <2>14. Remains(RemoveAt(t, j), o, gone(x - 1) \cup {t[j]})
    BY <2>7, <2>13, RestOfRest
  <2>15. w[x] = Erase(w[x - 1], keys[x])
    BY <1>5, <2>3, <2>4
  <2>16. Left(x)
    BY <2>8, <2>11, <2>12, <2>14, <2>15 DEF Left
  <2> QED BY <2>3, <2>16
<1>8. Left(n)
  <2> HIDE DEF Left
  <2> QED BY <1>2, <1>7
<1>9. gone(n) = ToSet(keys)
  BY <1>2 DEF ToSet
<1> HIDE DEF gone
<1> QED BY <1>1, <1>8, <1>9

-----------------------------------------------------------------------------
(* The pool's invariant *)

\* The links are those of the order of use, which holds the keys of the map.
OrderInv == Chain(list, Order) /\ ToSet(Order) = Cached

PoolInv ==
  /\ OrderInv
  /\ cache \in [Cached -> 1..made]
  /\ maxEntries \in Limits /\ enable \in BOOLEAN
  /\ made \in 0..MaxSessions /\ given \in Session \cup {Nil}
  /\ preloading \in Key \cup {Nil}

\* What the order is.
LEMMA OrderFacts ==
  ASSUME PoolInv
  PROVE  /\ Order \in Seq(Key) /\ IsInjective(Order)
         /\ Chain(list, Order) /\ ToSet(Order) = Cached
         /\ Cached \subseteq Key /\ Cardinality(Cached) = Len(Order)
         /\ Lru!ToSet(Order) = Cached
<1>1. /\ Order \in Seq(Key) /\ IsInjective(Order)
      /\ Chain(list, Order) /\ ToSet(Order) = Cached
  BY DEF PoolInv, OrderInv, Chain, Links
<1>2. Cached \subseteq Key
  BY <1>1 DEF ToSet
<1>3. Cardinality(Cached) = Len(Order)
  BY <1>1, CountHolds
<1>4. Lru!ToSet(Order) = Cached
  BY <1>1, SameNames
<1> QED BY <1>1, <1>2, <1>3, <1>4

\* The order after a step is read off the list after it.
LEMMA NewOrder ==
  ASSUME NEW t, Chain(list', t)
  PROVE  /\ Order' = t /\ Chain(list', Order')
         /\ t \in Seq(Key) /\ IsInjective(t) /\ DOMAIN list'.next = ToSet(t)
<1>1. Walk(list'.head, list'.next) = t
  BY ChainIsWalked
<1> QED BY <1>1 DEF Order, Chain, Links

\* The elements of a sequence with one more in front.
LEMMA FrontHolds ==
  ASSUME NEW o \in Seq(Key), NEW k \in Key
  PROVE  /\ <<k>> \o o # <<>> /\ Head(<<k>> \o o) = k /\ Tail(<<k>> \o o) = o
         /\ ToSet(<<k>> \o o) = ToSet(o) \cup {k}
<1> DEFINE t == <<k>> \o o
<1>1. /\ t \in Seq(Key) /\ Len(t) = Len(o) + 1 /\ Len(o) \in Nat
      /\ t[1] = k /\ t # <<>> /\ \A i \in 1..Len(o) : t[i + 1] = o[i]
      /\ \A i \in 2..Len(t) : t[i] = o[i - 1]
  OBVIOUS
<1> HIDE DEF t
<1>2. Head(t) = k
  BY <1>1
<1>3. Tail(t) = o
  <2>1. Tail(t) \in Seq(Key) /\ Len(Tail(t)) = Len(o) /\ \A i \in 1..Len(o) : Tail(t)[i] = t[i + 1]
    BY <1>1
  <2> QED BY <1>1, <2>1
<1>4. DOMAIN t = 1..Len(t) /\ DOMAIN o = 1..Len(o)
  BY <1>1
<1>5. ASSUME NEW i \in 1..Len(t)
      PROVE  t[i] \in ToSet(o) \cup {k}
  <2>1. CASE i = 1
    BY <1>1, <2>1
  <2>2. CASE i # 1
    <3>1. i - 1 \in 1..Len(o) /\ t[i] = o[i - 1]
      BY <1>1, <2>2
    <3> QED BY <1>4, <3>1 DEF ToSet
  <2> QED BY <2>1, <2>2
<1>6. ASSUME NEW i \in 1..Len(o)
      PROVE  o[i] \in ToSet(t)
  <2>1. i + 1 \in 1..Len(t) /\ t[i + 1] = o[i]
    BY <1>1
  <2> QED BY <1>4, <2>1 DEF ToSet
<1>7. k \in ToSet(t)
  <2>1. 1 \in 1..Len(t)
    BY <1>1
  <2> QED BY <1>1, <1>4, <2>1 DEF ToSet
<1>8. ToSet(t) \subseteq ToSet(o) \cup {k}
  BY <1>4, <1>5 DEF ToSet
<1>9. ToSet(o) \subseteq ToSet(t)
  BY <1>4, <1>6 DEF ToSet
<1> QED BY <1>1, <1>2, <1>3, <1>7, <1>8, <1>9 DEF t

\* A session that is cached is handed out.
LEMMA TouchHolds ==
  ASSUME PoolInv, NEW k \in Cached, list' = MoveToHead(list, k), given' = cache[k],
         UNCHANGED <<cache, maxEntries>>
  PROVE  OrderInv' /\ Lru!Hit(k)
<1> DEFINE o == Order
<1>1. /\ o \in Seq(Key) /\ IsInjective(o) /\ Chain(list, o) /\ ToSet(o) = Cached
      /\ Lru!ToSet(o) = Cached
  BY OrderFacts
<1> HIDE DEF o
<1>2. PICK i \in 1..Len(o) : k = o[i]
  BY <1>1 DEF ToSet
<1> DEFINE r == RemoveAt(o, i)
<1>3. Chain(list', <<k>> \o r)
  BY <1>1, <1>2, MoveHolds
<1>4. r \in Seq(Key) /\ ToSet(r) = ToSet(o) \ {k} /\ k \in Key
  BY <1>1, <1>2, RemovedHolds
<1>5. Remains(r, o, {k})
  BY <1>1, <1>2, RestRemoved
<1> HIDE DEF r
<1>6. Order' = <<k>> \o r /\ Chain(list', Order')
  BY <1>3, NewOrder
<1>7. /\ Order' # <<>> /\ Head(Order') = k /\ Tail(Order') = r
      /\ ToSet(Order') = Cached
  <2>1. /\ <<k>> \o r # <<>> /\ Head(<<k>> \o r) = k /\ Tail(<<k>> \o r) = r
        /\ ToSet(<<k>> \o r) = ToSet(r) \cup {k}
    BY <1>4, FrontHolds
  <2>2. ToSet(r) \cup {k} = Cached
    BY <1>1, <1>4
  <2> QED BY <1>6, <2>1, <2>2
<1>8. OrderInv'
  BY <1>6, <1>7 DEF OrderInv, Cached
<1>9. Lru!Rest(Tail(Order'), Order, {k})
  BY <1>5, <1>7, SameNames DEF o
<1>10. cache' = [x \in Lru!ToSet(Order') |-> cache[x]]
  <2>1. Lru!ToSet(Order') = Cached
    BY <1>7, SameNames
  <2>2. cache = [x \in Cached |-> cache[x]]
    BY DEF PoolInv
  <2> QED BY <2>1, <2>2
<1>11. Lru!Hit(k)
  BY <1>1, <1>7, <1>9, <1>10 DEF Lru!Hit, Lru!Cached, Lru!Keep, o
<1> QED BY <1>8, <1>11

\* A session enters the pool.
LEMMA InsertHolds ==
  ASSUME PoolInv, NEW k \in Key \ Cached, Make, Insert(k, made'), UNCHANGED maxEntries
  PROVE  OrderInv' /\ cache' \in [Cached' -> 1..made'] /\ Lru!Miss(k, made')
<1> DEFINE o == Order
           full == maxEntries > 0 /\ Cardinality(Cached) >= maxEntries
           kept == IF full THEN SubSeq(o, 1, Len(o) - 1) ELSE o
           room == IF full THEN EvictLru(list, 1) ELSE list
           t == <<k>> \o kept
<1>1. /\ o \in Seq(Key) /\ IsInjective(o) /\ Chain(list, o) /\ ToSet(o) = Cached
      /\ Lru!ToSet(o) = Cached /\ Cardinality(Cached) = Len(o)
      /\ Len(o) \in Nat /\ maxEntries \in Nat
  BY OrderFacts, PoolAssumption DEF PoolInv
<1>2. list' = AddToHead(room, k)
  BY DEF Insert
<1>3. cache' = [x \in DOMAIN list'.next |-> IF x = k THEN made' ELSE cache[x]]
  BY DEF Insert
<1> HIDE DEF o
<1>4. Chain(room, kept) /\ ToSet(kept) \subseteq Cached /\ kept \in Seq(Key)
  <2>1. CASE full
    <3>1. 1 \in 0..Len(o) /\ Len(o) - 1 \in 0..Len(o)
      BY <1>1, <2>1
    <3>2. Chain(EvictLru(list, 1), SubSeq(o, 1, Len(o) - 1))
      BY <1>1, <3>1, EvictHolds
    <3>3. /\ SubSeq(o, 1, Len(o) - 1) \in Seq(Key)
          /\ ToSet(SubSeq(o, 1, Len(o) - 1)) \subseteq ToSet(o)
      BY <1>1, <3>1, PrefixHolds
    <3> QED BY <1>1, <2>1, <3>2, <3>3
  <2>2. CASE ~full
    BY <1>1, <2>2
  <2> QED BY <2>1, <2>2
<1> HIDE DEF full, room
<1>5. Chain(list', t) /\ ToSet(t) = ToSet(kept) \cup {k}
  <2> HIDE DEF kept
  <2> QED BY <1>2, <1>4, AddHolds
<1>6. Order' = t /\ Chain(list', Order') /\ DOMAIN list'.next = ToSet(t)
  <2> HIDE DEF t
  <2> QED BY <1>5, NewOrder
<1>7. cache' = [x \in {k} \cup ToSet(kept) |-> IF x = k THEN made' ELSE cache[x]]
  <2> HIDE DEF t, kept
  <2>1. DOMAIN list'.next = {k} \cup ToSet(kept)
    BY <1>5, <1>6
  <2> QED BY <1>3, <2>1
<1> HIDE DEF kept
<1>8. OrderInv'
  <2>1. Cached' = {k} \cup ToSet(kept)
    BY <1>7 DEF Cached
  <2> QED BY <1>5, <1>6, <2>1 DEF OrderInv
<1>9. cache' \in [Cached' -> 1..made']
  <2>1. made' = made + 1 /\ made \in Nat
    BY PoolAssumption DEF Make, PoolInv
  <2>2. \A x \in {k} \cup ToSet(kept) : (IF x = k THEN made' ELSE cache[x]) \in 1..made'
    <3>1. \A x \in Cached : cache[x] \in 1..made
      BY DEF PoolInv
    <3> QED BY <1>4, <2>1, <3>1
  <2>3. Cached' = {k} \cup ToSet(kept)
    BY <1>7 DEF Cached
  <2> QED BY <1>7, <2>2, <2>3
<1>10. Lru!Miss(k, made')
  <2>1. k \notin Lru!Cached
    BY <1>1 DEF Lru!Cached, o
  <2>2. Lru!Full <=> full
    BY <1>1 DEF Lru!Full, full, o
  <2>3. kept = IF Lru!Full THEN Lru!Front(Order) ELSE Order
    BY <2>2, SameNames DEF Front, kept, o
  <2>4. Lru!ToSet(kept) = ToSet(kept)
    BY SameNames
  <2>5. given' = made'
    BY DEF Make
  <2>6. Order' = <<k>> \o kept
    BY <1>6
  <2>7. cache' = [x \in {k} \cup Lru!ToSet(kept) |-> IF x = k THEN made' ELSE cache[x]]
    BY <1>7, <2>4
  <2> QED BY <2>1, <2>3, <2>5, <2>6, <2>7 DEF Lru!Miss
<1> QED BY <1>8, <1>9, <1>10

\* A session that is not cached is handed out, or none.
LEMMA BypassHolds ==
  ASSUME PoolInv, Make \/ given' = Nil, UNCHANGED <<list, cache, maxEntries>>
  PROVE  OrderInv' /\ Lru!Bypass
<1>1. Order' = Order /\ Cached' = Cached
  BY DEF Order, Cached
<1>2. OrderInv'
  BY <1>1 DEF PoolInv, OrderInv
<1>3. \A k \in Lru!Cached : given' # cache[k]
  <2>1. \A k \in Cached : cache[k] \in 1..made
    BY DEF PoolInv
  <2>2. made \in Nat /\ made <= MaxSessions /\ MaxSessions \in Nat /\ Nil \notin 1..MaxSessions
    BY PoolAssumption DEF PoolInv
  <2>3. Lru!Cached = Cached
    BY OrderFacts DEF Lru!Cached
  <2>4. CASE Make
    BY <2>1, <2>2, <2>3, <2>4 DEF Make
  <2>5. CASE given' = Nil
    BY <2>1, <2>2, <2>3, <2>5
  <2> QED BY <2>4, <2>5
<1>4. Lru!Bypass
  BY <1>1, <1>3 DEF Lru!Bypass
<1> QED BY <1>2, <1>4

\* Some entries go; those that stay keep their sessions.
LEMMA DropHolds ==
  ASSUME PoolInv, NEW t, NEW gone, Chain(list', t), Remains(t, Order, gone),
         cache' = Surviving(list'), UNCHANGED maxEntries
  PROVE  /\ OrderInv' /\ cache' \in [Cached' -> 1..made]
         /\ given' = given => Lru!Drop(gone)
<1>1. Order' = t /\ Chain(list', Order') /\ DOMAIN list'.next = ToSet(t)
  BY NewOrder
<1>2. ToSet(t) \subseteq Cached
  BY OrderFacts DEF Remains
<1>3. cache' = [k \in ToSet(t) |-> cache[k]]
  BY <1>1 DEF Surviving
<1>4. OrderInv'
  BY <1>1, <1>3 DEF OrderInv, Cached
<1>5. cache' \in [Cached' -> 1..made]
  <2>1. \A k \in Cached : cache[k] \in 1..made
    BY DEF PoolInv
  <2> QED BY <1>2, <1>3, <2>1 DEF Cached
<1>6. Lru!Rest(Order', Order, gone) /\ Lru!ToSet(Order') = ToSet(t)
  BY <1>1, SameNames
<1>7. given' = given => Lru!Drop(gone)
  BY <1>3, <1>6 DEF Lru!Drop, Lru!Keep
<1> QED BY <1>4, <1>5, <1>7

-----------------------------------------------------------------------------
(* Every step keeps the invariant and is a step of the cache *)

\* evict: the entry goes, or there is none.
LEMMA EvictStep ==
  ASSUME PoolInv, NEW k \in Key, Evict(k), UNCHANGED <<maxEntries, given>>
  PROVE  OrderInv' /\ cache' \in [Cached' -> 1..made] /\ [Lru!Next]_(Lru!lruVars)
<1> DEFINE o == Order
<1>1. /\ o \in Seq(Key) /\ IsInjective(o) /\ Chain(list, o) /\ ToSet(o) = Cached
  BY OrderFacts
<1> HIDE DEF o
<1>2. CASE k \in Cached
  <2>1. PICK i \in 1..Len(o) : k = o[i]
    BY <1>1, <1>2 DEF ToSet
  <2>2. list' = Erase(list, k) /\ cache' = Surviving(list')
    BY <1>2 DEF Evict
  <2>3. Chain(list', RemoveAt(o, i))
    BY <1>1, <2>1, <2>2, EraseHolds
  <2>4. Remains(RemoveAt(o, i), Order, {k})
    BY <1>1, <2>1, RestRemoved DEF o
  <2>5. /\ OrderInv' /\ cache' \in [Cached' -> 1..made]
        /\ Lru!Drop({k})
    BY <2>2, <2>3, <2>4, DropHolds
  <2>6. \E gone \in SUBSET Key : Lru!Drop(gone)
    BY <2>5
  <2> QED BY <2>5, <2>6 DEF Lru!Next
<1>3. CASE k \notin Cached
  <2>1. UNCHANGED <<list, cache>>
    BY <1>3 DEF Evict
  <2>2. Order' = Order /\ Cached' = Cached
    BY <2>1 DEF Order, Cached
  <2>3. OrderInv' /\ cache' \in [Cached' -> 1..made]
    BY <2>1, <2>2 DEF PoolInv, OrderInv
  <2>4. UNCHANGED Lru!lruVars
    BY <2>1, <2>2 DEF Lru!lruVars
  <2> QED BY <2>3, <2>4
<1> QED BY <1>2, <1>3

\* clear: all entries go.
LEMMA ClearStep ==
  ASSUME PoolInv, Clear
  PROVE  OrderInv' /\ cache' \in [Cached' -> 1..made] /\ [Lru!Next]_(Lru!lruVars)
<1>1. /\ Order \in Seq(Key) /\ Chain(list, Order) /\ ToSet(Order) = Cached /\ Cached \subseteq Key
  BY OrderFacts
<1>2. list' = [head |-> Nil, tail |-> Nil, prev |-> [k \in {} |-> list.prev[k]],
               next |-> [k \in {} |-> list.next[k]]]
  <2>1. list = [head |-> list.head, tail |-> list.tail, prev |-> list.prev, next |-> list.next]
    BY <1>1 DEF Chain, IsList
  <2>2. DOMAIN list.prev \ Cached = {} /\ DOMAIN list.next \ Cached = {}
    BY <1>1 DEF Chain
  <2> QED BY <2>1, <2>2 DEF Clear, Without
<1>3. Chain(list', <<>>)
  <2>1. IsList(list') /\ list'.head = Nil /\ list'.tail = Nil
    BY <1>2 DEF IsList
  <2>2. DOMAIN list'.next = {} /\ DOMAIN list'.prev = {}
    BY <1>2
  <2> QED BY <2>1, <2>2, EmptyHolds
<1>4. Remains(<<>>, Order, Cached)
  <2>1. ToSet(Order) \ Cached = {} /\ DOMAIN <<>> = {} /\ <<>> \in Seq({})
    BY <1>1
  <2>2. ToSet(<<>>) = {} /\ IsInjective(<<>>)
    BY <2>1 DEF ToSet, IsInjective
  <2> QED BY <2>1, <2>2 DEF Remains
<1>5. cache' = Surviving(list')
  <2>1. DOMAIN list'.next = {}
    BY <1>2
  <2>2. <<>> = [k \in {} |-> cache[k]]
    OBVIOUS
  <2> QED BY <2>1, <2>2 DEF Surviving, Clear
<1>6. OrderInv' /\ cache' \in [Cached' -> 1..made] /\ Lru!Drop(Cached)
  BY <1>3, <1>4, <1>5, DropHolds DEF Clear
<1>7. \E gone \in SUBSET Key : Lru!Drop(gone)
  BY <1>1, <1>6
<1> QED BY <1>6, <1>7 DEF Lru!Next

\* A sequence of all elements of a finite set.
LEMMA AllOfThem ==
  ASSUME NEW U, IsFiniteSet(U), U \subseteq Key, NEW S \in SUBSET U, NEW s \in SetToSeqs(S)
  PROVE  s \in Seq(Key) /\ IsInjective(s) /\ ToSet(s) = S
<1> DEFINE n == Cardinality(S)
<1>1. IsFiniteSet(S) /\ n \in Nat
  BY FS_Subset, FS_CardinalityType
<1>2. s \in [1..n -> S] /\ DOMAIN s = 1..n /\ IsInjective(s)
  BY DEF SetToSeqs, IsInjective
<1>3. s \in Injection(1..n, S)
  BY <1>2 DEF Injection, IsInjective
<1>4. Cardinality(1..n) = n
  <2>1. Cardinality(1..n) = IF 1 > n THEN 0 ELSE n - 1 + 1
    BY <1>1, FS_Interval
  <2> HIDE DEF n
  <2> QED BY <1>1, <2>1
<1>5. s \in Surjection(1..n, S)
  BY <1>1, <1>3, <1>4, FS_Injection
<1> HIDE DEF n
<1>6. \A x \in S : \E i \in 1..n : s[i] = x
  BY <1>5 DEF Surjection
<1>7. ToSet(s) = S
  <2>1. \A i \in 1..n : s[i] \in S
    BY <1>2
  <2> QED BY <1>2, <1>6, <2>1 DEF ToSet
<1>8. s \in Seq(Key)
  BY <1>1, <1>2
<1> QED BY <1>2, <1>7, <1>8

\* cleanup_expired: some entries go, in whatever order they are met.
LEMMA CleanupStep ==
  ASSUME PoolInv, CleanupExpired
  PROVE  OrderInv' /\ cache' \in [Cached' -> 1..made] /\ [Lru!Next]_(Lru!lruVars)
<1>1. /\ Order \in Seq(Key) /\ Chain(list, Order) /\ ToSet(Order) = Cached /\ Cached \subseteq Key
  BY OrderFacts
<1>2. PICK expired \in SUBSET Cached : \E keys \in SetToSeqs(expired) :
        list' = EraseEach(list, keys) /\ cache' = Surviving(list')
  BY DEF CleanupExpired
<1>3. PICK keys \in SetToSeqs(expired) :
        list' = EraseEach(list, keys) /\ cache' = Surviving(list')
  BY <1>2
<1>4. keys \in Seq(Key) /\ IsInjective(keys) /\ ToSet(keys) = expired
  BY <1>1, <1>2, AllOfThem, CountHolds, OrderFacts
<1>5. PICK t : Chain(list', t) /\ Remains(t, Order, expired)
  BY <1>1, <1>2, <1>3, <1>4, EraseEachHolds
<1>6. OrderInv' /\ cache' \in [Cached' -> 1..made] /\ Lru!Drop(expired)
  BY <1>3, <1>5, DropHolds DEF CleanupExpired
<1>7. \E gone \in SUBSET Key : Lru!Drop(gone)
  BY <1>1, <1>6
<1> QED BY <1>6, <1>7 DEF Lru!Next
\* set_config: the new limit takes effect at once.
LEMMA ConfigStep ==
  ASSUME PoolInv, SetConfig
  PROVE  OrderInv' /\ cache' \in [Cached' -> 1..made] /\ [Lru!Next]_(Lru!lruVars)
<1> DEFINE o == Order
           n == maxEntries'
<1>1. /\ o \in Seq(Key) /\ IsInjective(o) /\ Chain(list, o) /\ ToSet(o) = Cached
      /\ Cardinality(Cached) = Len(o) /\ Lru!ToSet(o) = Cached
  BY OrderFacts
<1>2. n \in Nat /\ Len(o) \in Nat
  BY <1>1, PoolAssumption DEF SetConfig
<1> HIDE DEF o
<1>3. CASE n > 0 /\ Len(o) > n
  <2> DEFINE t == SubSeq(o, 1, n)
  <2>1. list' = EvictLru(list, Len(o) - n) /\ cache' = Surviving(list') /\ given' = given
    BY <1>1, <1>3 DEF SetConfig
  <2>2. Len(o) - n \in 0..Len(o) /\ Len(o) - (Len(o) - n) = n /\ n \in 0..Len(o)
    BY <1>2, <1>3
  <2>3. Chain(list', SubSeq(o, 1, Len(o) - (Len(o) - n)))
    <3> HIDE DEF n
    <3> QED BY <1>1, <2>1, <2>2, EvictHolds
  <2>4. Chain(list', t)
    BY <2>2, <2>3
  <2>5. ToSet(t) \subseteq Cached
    <3> HIDE DEF n
    <3> QED BY <1>1, <2>2, PrefixHolds
  <2> HIDE DEF t
  <2>6. Order' = t /\ Chain(list', Order') /\ DOMAIN list'.next = ToSet(t)
    BY <2>4, NewOrder
  <2>7. cache' = [k \in ToSet(t) |-> cache[k]]
    BY <2>1, <2>6 DEF Surviving
  <2>8. OrderInv'
    BY <2>6, <2>7 DEF OrderInv, Cached
  <2>9. cache' \in [Cached' -> 1..made]
    <3>1. \A k \in Cached : cache[k] \in 1..made
      BY DEF PoolInv
    <3> QED BY <2>5, <2>7, <3>1 DEF Cached
  <2>10. Order' = IF n # 0 /\ n < Len(Order) THEN SubSeq(Order, 1, n) ELSE Order
    <3>1. n # 0 /\ n < Len(o) /\ o = Order
      <4>1. o = Order
        BY DEF o
      <4> HIDE DEF n
      <4> QED BY <1>2, <1>3, <4>1
    <3>2. t = SubSeq(o, 1, n)
      BY DEF t
    <3> HIDE DEF n
    <3> QED BY <2>6, <3>1, <3>2
  <2>11. Lru!ToSet(Order') = ToSet(t)
    BY <2>6, SameNames
  <2>12. Lru!Resize(maxEntries')
    BY <2>1, <2>7, <2>10, <2>11 DEF Lru!Resize, Lru!Keep
  <2> QED BY <2>8, <2>9, <2>12 DEF Lru!Next
<1>4. CASE ~(n > 0 /\ Len(o) > n)
  <2>1. UNCHANGED <<list, cache, given, made>>
    BY <1>1, <1>4 DEF SetConfig
  <2>2. Order' = Order /\ Cached' = Cached
    BY <2>1 DEF Order, Cached
  <2>3. OrderInv' /\ cache' \in [Cached' -> 1..made]
    BY <2>1, <2>2 DEF PoolInv, OrderInv
  <2>4. Order' = IF n # 0 /\ n < Len(Order) THEN SubSeq(Order, 1, n) ELSE Order
    <3>1. ~(n # 0 /\ n < Len(Order))
      <4>1. Len(Order) = Len(o)
        BY DEF o
      <4> HIDE DEF n
      <4> QED BY <1>2, <1>4, <4>1
    <3> HIDE DEF n
    <3> QED BY <2>2, <3>1
  <2>5. cache' = [k \in Lru!ToSet(Order') |-> cache[k]]
    <3>1. cache = [k \in Cached |-> cache[k]]
      BY DEF PoolInv
    <3> QED BY <1>1, <2>1, <2>2, <3>1 DEF o
  <2>6. Lru!Resize(maxEntries')
    BY <2>1, <2>4, <2>5 DEF Lru!Resize, Lru!Keep
  <2> QED BY <2>3, <2>6 DEF Lru!Next
<1> QED BY <1>3, <1>4

\* The calls, one by one.
LEMMA PoolStep ==
  ASSUME PoolInv, PoolNext
  PROVE  PoolInv' /\ [Lru!Next]_(Lru!lruVars)
<1> USE DEF PoolInv
<1>1. /\ Cached \subseteq Key /\ made \in Nat /\ MaxSessions \in Nat
      /\ \A k \in Cached : cache[k] \in Session
  BY OrderFacts, PoolAssumption DEF Session
<1>2. ASSUME NEW k \in Key, Hit(k)
      PROVE  PoolInv' /\ Lru!Next
  <2>1. OrderInv' /\ Lru!Hit(k)
    BY <1>2, TouchHolds DEF Hit
  <2>2. given' \in Session /\ Cached' = Cached
    BY <1>1, <1>2 DEF Hit, Cached
  <2>3. PoolInv'
    BY <1>2, <2>1, <2>2 DEF Hit
  <2> QED BY <2>1, <2>3 DEF Lru!Next
<1>3. Make => made' \in 0..MaxSessions /\ given' = made' /\ made' \in Session
  BY <1>1 DEF Make, Session
<1>4. ASSUME NEW k \in Key, Miss(k)
      PROVE  PoolInv' /\ Lru!Next
  <2>1. OrderInv' /\ cache' \in [Cached' -> 1..made'] /\ Lru!Miss(k, made')
    BY <1>4, InsertHolds DEF Miss
  <2>2. PoolInv'
    BY <1>3, <1>4, <2>1 DEF Miss
  <2>3. made' \in Session
    BY <1>3, <1>4 DEF Miss
  <2> QED BY <2>1, <2>2, <2>3 DEF Lru!Next
<1>5. ASSUME NEW k \in Key, NotLoaded(k)
      PROVE  PoolInv' /\ Lru!Next
  <2>1. OrderInv' /\ Lru!Bypass
    BY <1>5, BypassHolds DEF NotLoaded
  <2>2. PoolInv'
    BY <1>5, <2>1 DEF NotLoaded, Cached
  <2> QED BY <2>1, <2>2 DEF Lru!Next
<1>6. CASE Disabled
  <2>1. OrderInv' /\ Lru!Bypass
    BY <1>6, BypassHolds DEF Disabled
  <2>2. cache' \in [Cached' -> 1..made']
    <3>1. 1..made \subseteq 1..made' /\ Cached' = Cached /\ cache' = cache
      BY <1>1, <1>6 DEF Disabled, Make, Cached
    <3> QED BY <3>1
  <2>3. PoolInv'
    BY <1>3, <1>6, <2>1, <2>2 DEF Disabled
  <2> QED BY <2>1, <2>3 DEF Lru!Next
<1>7. ASSUME NEW k \in Key, EvictEntry(k) \/ PreloadEvicts(k)
      PROVE  PoolInv' /\ [Lru!Next]_(Lru!lruVars)
  <2>1. /\ Evict(k) /\ UNCHANGED <<maxEntries, enable, made, given>>
        /\ preloading' \in Key \cup {Nil}
    BY <1>7 DEF EvictEntry, PreloadEvicts
  <2>2. OrderInv' /\ cache' \in [Cached' -> 1..made] /\ [Lru!Next]_(Lru!lruVars)
    BY <2>1, EvictStep
  <2> QED BY <2>1, <2>2
<1>8. CASE Clear
  BY <1>8, ClearStep DEF Clear
<1>9. CASE CleanupExpired
  BY <1>9, CleanupStep DEF CleanupExpired
<1>10. CASE SetConfig
  BY <1>10, ConfigStep DEF SetConfig
<1>11. CASE PreloadInserts
  <2> DEFINE k == preloading
  <2>1. k \in Key /\ k # Nil
    BY <1>11 DEF PreloadInserts
  <2>2. CASE enable /\ k \notin Cached /\ Make /\ Insert(k, made')
    <3>1. OrderInv' /\ cache' \in [Cached' -> 1..made'] /\ Lru!Miss(k, made')
      BY <1>11, <2>1, <2>2, InsertHolds DEF PreloadInserts
    <3>2. PoolInv'
      BY <1>3, <1>11, <2>2, <3>1 DEF PreloadInserts
    <3> QED BY <1>3, <2>1, <2>2, <3>1, <3>2 DEF Lru!Next
  <2>3. CASE /\ enable /\ k \in Cached /\ list' = MoveToHead(list, k)
             /\ given' = cache[k] /\ UNCHANGED <<cache, made>>
    <3>1. OrderInv' /\ Lru!Hit(k)
      BY <1>11, <2>3, TouchHolds DEF PreloadInserts
    <3>2. given' \in Session /\ Cached' = Cached
      BY <1>1, <2>3 DEF Cached
    <3>3. PoolInv'
      BY <1>11, <2>3, <3>1, <3>2 DEF PreloadInserts
    <3> QED BY <2>1, <3>1, <3>3 DEF Lru!Next
  <2>4. CASE ~enable /\ Make /\ UNCHANGED <<list, cache>>
    <3>1. OrderInv' /\ Lru!Bypass
      BY <1>11, <2>4, BypassHolds DEF PreloadInserts
    <3>2. cache' \in [Cached' -> 1..made']
      <4>1. 1..made \subseteq 1..made' /\ Cached' = Cached /\ cache' = cache
        BY <1>1, <2>4 DEF Make, Cached
      <4> QED BY <4>1
    <3>3. PoolInv'
      BY <1>3, <1>11, <2>4, <3>1, <3>2 DEF PreloadInserts
    <3> QED BY <3>1, <3>3 DEF Lru!Next
  <2> QED BY <1>11, <2>2, <2>3, <2>4 DEF PreloadInserts
<1> QED
  BY <1>2, <1>4, <1>5, <1>6, <1>7, <1>8, <1>9, <1>10, <1>11 DEF PoolNext

\* The pool starts empty.
LEMMA PoolInvInit ==
  ASSUME PoolInit
  PROVE  PoolInv /\ Order = <<>>
<1>1. Chain(list, <<>>)
  <2>1. IsList(list)
    <3>1. <<>> = [k \in DOMAIN <<>> |-> <<>>[k]]
      OBVIOUS
    <3> QED BY <3>1 DEF PoolInit, IsList
  <2>2. list.head = Nil /\ list.tail = Nil /\ DOMAIN list.next = {} /\ DOMAIN list.prev = {}
    BY DEF PoolInit
  <2> QED BY <2>1, <2>2, EmptyHolds
<1>2. Order = <<>>
  BY <1>1, ChainIsWalked DEF Order
<1>3. OrderInv
  <2>1. ToSet(<<>>) = {} /\ Cached = {}
    BY DEF ToSet, PoolInit, Cached
  <2> QED BY <1>1, <1>2, <2>1 DEF OrderInv
<1>4. cache \in [Cached -> 1..made]
  <2>1. cache = <<>> /\ Cached = {}
    BY DEF PoolInit, Cached
  <2> QED BY <2>1
<1>5. 0 \in 0..MaxSessions
  BY PoolAssumption
<1> QED BY <1>2, <1>3, <1>4, <1>5 DEF PoolInv, PoolInit

\* A step or a stutter keeps the invariant and is one of the cache.
LEMMA PoolInvNext ==
  ASSUME PoolInv, [PoolNext]_poolVars
  PROVE  PoolInv' /\ [Lru!Next]_(Lru!lruVars)
<1>1. CASE PoolNext
  BY <1>1, PoolStep
<1>2. CASE UNCHANGED poolVars
  <2>1. Order' = Order /\ Cached' = Cached
    BY <1>2 DEF poolVars, Order, Cached
  <2>2. PoolInv'
    BY <1>2, <2>1 DEF PoolInv, OrderInv, poolVars
  <2> QED BY <1>2, <2>1, <2>2 DEF poolVars, Lru!lruVars
<1> QED BY <1>1, <1>2

\* In every state the list is linked both ways in an order of use of the map's keys.
THEOREM PoolInvariance == PoolSpec => []PoolInv
<1>1. PoolInit => PoolInv
  BY PoolInvInit
<1>2. PoolInv /\ [PoolNext]_poolVars => PoolInv'
  BY PoolInvNext
<1> QED BY <1>1, <1>2, PTL DEF PoolSpec

\* Every variable of the pool holds a value of its type: no link leads to an entry that
\* has been destroyed.
THEOREM PoolTypeCorrect == PoolSpec => []PoolTypeOK
<1>1. PoolInv => PoolTypeOK
  <2> SUFFICES ASSUME PoolInv
               PROVE  PoolTypeOK
    OBVIOUS
  <2> DEFINE o == Order
  <2>1. /\ o \in Seq(Key) /\ IsInjective(o) /\ Chain(list, o) /\ ToSet(o) = Cached
        /\ Cached \subseteq Key
    BY OrderFacts
  <2> HIDE DEF o
  <2>2. /\ Len(o) \in Nat /\ DOMAIN o = 1..Len(o)
        /\ o # <<>> => 1 \in 1..Len(o) /\ Len(o) \in 1..Len(o)
    BY <2>1
  <2>3. \A i \in 1..Len(o) : o[i] \in Cached
    BY <2>1, <2>2 DEF ToSet
  <2>4. list.head \in Cached \cup {Nil} /\ list.tail \in Cached \cup {Nil}
    BY <2>1, <2>2, <2>3 DEF Chain, Links
  <2>5. ASSUME NEW k \in Cached
        PROVE  list.next[k] \in Cached \cup {Nil} /\ list.prev[k] \in Cached \cup {Nil}
    <3>1. PICK i \in 1..Len(o) : k = o[i]
      BY <2>1, <2>2 DEF ToSet
    <3>2. /\ list.next[k] = IF i = Len(o) THEN Nil ELSE o[i + 1]
          /\ list.prev[k] = IF i = 1 THEN Nil ELSE o[i - 1]
      BY <2>1, <3>1 DEF Chain, Links
    <3>3. (i # Len(o) => i + 1 \in 1..Len(o)) /\ (i # 1 => i - 1 \in 1..Len(o))
      <4> DEFINE n == Len(o)
      <4>1. n \in Nat /\ i \in 1..n
        BY <2>2, <3>1
      <4> HIDE DEF n
      <4>2. (i # n => i + 1 \in 1..n) /\ (i # 1 => i - 1 \in 1..n)
        BY <4>1
      <4> QED BY <4>2 DEF n
    <3> QED BY <2>3, <3>2, <3>3
  <2>6. /\ list.prev \in [Cached -> Cached \cup {Nil}]
        /\ list.next \in [Cached -> Cached \cup {Nil}]
    <3>1. /\ list.prev = [k \in Cached |-> list.prev[k]]
          /\ list.next = [k \in Cached |-> list.next[k]]
      BY <2>1 DEF Chain, IsList
    <3> QED BY <2>5, <3>1
  <2>7. cache \in [Cached -> Session]
    <3>1. 1..made \subseteq Session
      BY PoolAssumption DEF PoolInv, Session
    <3> QED BY <3>1 DEF PoolInv
  <2> QED BY <2>1, <2>4, <2>6, <2>7 DEF PoolTypeOK, PoolInv
<1> QED BY <1>1, PoolInvariance, PTL

\* The list and the map are one cache, for any keys, limits and number of sessions:
\* from the head every entry is met once, and from the tail the other way round.
THEOREM ListMatchesMap == PoolSpec => []ListIsMap
<1>1. PoolInv => ListIsMap
  <2> SUFFICES ASSUME PoolInv
               PROVE  ListIsMap
    OBVIOUS
  <2>1. /\ Chain(list, Order) /\ ToSet(Order) = Cached /\ Cardinality(Cached) = Len(Order)
    BY OrderFacts
  <2>2. Walk(list.tail, list.prev) = Reverse(Order)
    BY <2>1, ChainIsWalked
  <2> QED BY <2>1, <2>2 DEF ListIsMap
<1> QED BY <1>1, PoolInvariance, PTL

\* The pool implements the LRU cache: every call is a hit, an insertion that costs at
\* most the entry used longest ago, a removal, a change of limit, or nothing to it.
THEOREM PoolIsLruCache == PoolSpec => IsLruCache
<1>1. PoolInit => Lru!Init
  <2> SUFFICES ASSUME PoolInit
               PROVE  Lru!Init
    OBVIOUS
  <2>1. Order = <<>>
    BY PoolInvInit
  <2>2. cache = <<>> /\ maxEntries \in Nat /\ given \notin Session
    BY PoolAssumption DEF PoolInit, Session
  <2> QED BY <2>1, <2>2 DEF Lru!Init
<1>2. PoolInv /\ [PoolNext]_poolVars => [Lru!Next]_(Lru!lruVars)
  BY PoolInvNext
<1> QED BY <1>1, <1>2, PoolInvariance, PTL DEF PoolSpec, IsLruCache, Lru!Spec
=============================================================================
