--------------------------- MODULE ThreadSafeQueue ---------------------------
(***************************************************************************)
(* domain::pipeline::ThreadSafeQueue with its two condition variables: who *)
(* waits on which one, whom a notification wakes, and what a thread finds  *)
(* when it has got the mutex back.                                         *)
(*                                                                         *)
(* A step is one stretch under m_mutex, from taking it to releasing it or  *)
(* to going to sleep in wait(); shutdown notifies after it has released    *)
(* the mutex, so its three statements are three steps.                     *)
(***************************************************************************)
EXTENDS Integers, Sequences, FiniteSets

CONSTANTS Producer,          \* threads that call push
          PopConsumer,       \* threads that call pop
          BatchConsumer,     \* threads that call pop_batch
          Capacity,          \* m_max_size
          BatchSize,         \* max_items of pop_batch
          MaxPush            \* bound: calls of push

Consumer == PopConsumer \cup BatchConsumer

ASSUME QueueAssumption ==
  /\ Capacity \in Nat \ {0} /\ BatchSize \in Nat \ {0} /\ MaxPush \in Nat
  /\ PopConsumer \cap BatchConsumer = {}
  /\ Producer \cap Consumer = {}
  /\ IsFiniteSet(Producer) /\ IsFiniteSet(Consumer)

VARIABLES queue,             \* m_queue
          shut,              \* m_shutdown
          notEmpty,          \* threads asleep on m_not_empty
          notFull,           \* threads asleep on m_not_full
          awake,             \* threads in a call that compete for m_mutex
          item,              \* what each producer is pushing, 0 if in no call
          issued,            \* push calls so far, and the item of the latest
          taken,             \* history: items handed out, in order
          closer             \* how far the thread in shutdown() has come

vars == <<queue, shut, notEmpty, notFull, awake, item, issued, taken, closer>>

Init ==
  /\ queue = <<>> /\ shut = FALSE
  /\ notEmpty = {} /\ notFull = {} /\ awake = {}
  /\ item = [p \in Producer |-> 0]
  /\ issued = 0 /\ taken = <<>>
  /\ closer = "before"

-----------------------------------------------------------------------------
(* The predicates waited for, and the two ways to wake a sleeper. *)

CanPush == Len(queue) < Capacity \/ shut
CanPop  == queue # <<>> \/ shut

\* The sets a notification may wake: one sleeper, if there is any; everybody.
One(sleepers) == IF sleepers = {} THEN {{}} ELSE {{t} : t \in sleepers}
All(sleepers) == {sleepers}

\* Thread t leaves its call and wakes the threads woken.
LeaveAndWake(t, woken) == awake' = (awake \ {t}) \cup woken

-----------------------------------------------------------------------------
(* push *)

CallPush(p) ==
  /\ item[p] = 0
  /\ issued < MaxPush
  /\ issued' = issued + 1
  /\ item' = [item EXCEPT ![p] = issued']
  /\ awake' = awake \cup {p}
  /\ UNCHANGED <<queue, shut, notEmpty, notFull, taken, closer>>

\* Seeded bug: the wait predicate does not look at m_shutdown.
PushWaitsAnyway(p) ==
  /\ p \in awake
  /\ Len(queue) >= Capacity
  /\ notFull' = notFull \cup {p}
  /\ awake' = awake \ {p}
  /\ UNCHANGED <<queue, shut, notEmpty, item, issued, taken, closer>>

PushWaits(p) ==
  /\ p \in awake
  /\ ~CanPush
  /\ notFull' = notFull \cup {p}
  /\ awake' = awake \ {p}
  /\ UNCHANGED <<queue, shut, notEmpty, item, issued, taken, closer>>

\* Seeded bug: notifies only when the queue was empty.
PushSeldomNotifies(p) ==
  /\ p \in awake
  /\ ~shut /\ CanPush
  /\ queue' = Append(queue, item[p])
  /\ item' = [item EXCEPT ![p] = 0]
  /\ \E woken \in IF queue = <<>> THEN One(notEmpty) ELSE {{}} :
       notEmpty' = notEmpty \ woken /\ LeaveAndWake(p, woken)
  /\ UNCHANGED <<shut, notFull, issued, taken, closer>>

Push(p) ==
  /\ p \in awake
  /\ ~shut /\ CanPush
  /\ queue' = Append(queue, item[p])
  /\ item' = [item EXCEPT ![p] = 0]
  /\ \E woken \in One(notEmpty) :
       notEmpty' = notEmpty \ woken /\ LeaveAndWake(p, woken)
  /\ UNCHANGED <<shut, notFull, issued, taken, closer>>

\* The queue has been shut down: the item is discarded without a word.
PushDiscards(p) ==
  /\ p \in awake
  /\ shut
  /\ item' = [item EXCEPT ![p] = 0]
  /\ awake' = awake \ {p}
  /\ UNCHANGED <<queue, shut, notEmpty, notFull, issued, taken, closer>>

-----------------------------------------------------------------------------
(* pop and pop_batch *)

CallPop(c) ==
  /\ c \notin awake \cup notEmpty
  /\ awake' = awake \cup {c}
  /\ UNCHANGED <<queue, shut, notEmpty, notFull, item, issued, taken, closer>>

PopWaits(c) ==
  /\ c \in awake
  /\ ~CanPop
  /\ notEmpty' = notEmpty \cup {c}
  /\ awake' = awake \ {c}
  /\ UNCHANGED <<queue, shut, notFull, item, issued, taken, closer>>

\* Thread c takes the first n items and wakes one of the sets in wakes.
TakeItems(c, n, wakes) ==
  /\ taken' = taken \o SubSeq(queue, 1, n)
  /\ queue' = SubSeq(queue, n + 1, Len(queue))
  /\ \E woken \in wakes :
       notFull' = notFull \ woken /\ LeaveAndWake(c, woken)
  /\ UNCHANGED <<shut, notEmpty, item, issued, closer>>

Pop(c) ==
  /\ c \in PopConsumer \cap awake
  /\ queue # <<>>
  /\ TakeItems(c, 1, One(notFull))

BatchLen == IF Len(queue) < BatchSize THEN Len(queue) ELSE BatchSize

\* Seeded bug: several slots are freed, one producer is woken.
PopBatchWakesOne(c) ==
  /\ c \in BatchConsumer \cap awake
  /\ queue # <<>>
  /\ TakeItems(c, BatchLen, One(notFull))

PopBatch(c) ==
  /\ c \in BatchConsumer \cap awake
  /\ queue # <<>>
  /\ TakeItems(c, BatchLen, All(notFull))

\* Seeded bug: after a shutdown the items left are not handed out.
PopNothingEarly(c) ==
  /\ c \in awake
  /\ shut
  /\ awake' = awake \ {c}
  /\ UNCHANGED <<queue, shut, notEmpty, notFull, item, issued, taken, closer>>

\* nullopt, or an empty batch.
PopNothing(c) ==
  /\ c \in awake
  /\ queue = <<>> /\ shut
  /\ awake' = awake \ {c}
  /\ UNCHANGED <<queue, shut, notEmpty, notFull, item, issued, taken, closer>>

-----------------------------------------------------------------------------
(* shutdown: set the flag, then notify_all twice. *)

SetShut ==
  /\ closer = "before"
  /\ shut' = TRUE
  /\ closer' = "wakeConsumers"
  /\ UNCHANGED <<queue, notEmpty, notFull, awake, item, issued, taken>>

WakeConsumers ==
  /\ closer = "wakeConsumers"
  /\ awake' = awake \cup notEmpty
  /\ notEmpty' = {}
  /\ closer' = "wakeProducers"
  /\ UNCHANGED <<queue, shut, notFull, item, issued, taken>>

WakeProducers ==
  /\ closer = "wakeProducers"
  /\ awake' = awake \cup notFull
  /\ notFull' = {}
  /\ closer' = "after"
  /\ UNCHANGED <<queue, shut, notEmpty, item, issued, taken>>

\* A condition variable may wake a thread for no reason.
SpuriousWakeup ==
  \E t \in notEmpty \cup notFull :
    /\ notEmpty' = notEmpty \ {t}
    /\ notFull' = notFull \ {t}
    /\ awake' = awake \cup {t}
    /\ UNCHANGED <<queue, shut, item, issued, taken, closer>>

-----------------------------------------------------------------------------
\* What a thread does once it has the mutex.
PushStep(p) == PushWaits(p) \/ Push(p) \/ PushDiscards(p)
PopStep(c) == PopWaits(c) \/ Pop(c) \/ PopBatch(c) \/ PopNothing(c)

Next ==
  \/ \E p \in Producer : CallPush(p) \/ PushStep(p)
  \/ \E c \in Consumer : CallPop(c) \/ PopStep(c)
  \/ SetShut \/ WakeConsumers \/ WakeProducers
  \/ SpuriousWakeup

(***************************************************************************)
(* Fairness: a thread that is awake in a call gets the mutex eventually,   *)
(* and shutdown, once begun, runs to its end.  Nobody has to call anything *)
(* and nobody is woken without a notification.                             *)
(***************************************************************************)
Spec ==
  /\ Init /\ [][Next]_vars
  /\ \A p \in Producer : WF_vars(PushStep(p))
  /\ \A c \in Consumer : WF_vars(PopStep(c))
  /\ WF_vars(WakeConsumers) /\ WF_vars(WakeProducers)

-----------------------------------------------------------------------------
(* Properties *)

\* Every variable holds a value of its type, no thread is in two places at
\* once, and the queue keeps to its capacity.
TypeOK ==
  /\ queue \in Seq(1..MaxPush) /\ Len(queue) <= Capacity
  /\ shut \in BOOLEAN
  /\ notEmpty \subseteq Consumer /\ notFull \subseteq Producer
  /\ awake \subseteq (Producer \cup Consumer) \ (notEmpty \cup notFull)
  /\ item \in [Producer -> 0..MaxPush]
  /\ \A p \in Producer : item[p] # 0 <=> p \in awake \cup notFull
  /\ issued \in 0..MaxPush
  /\ taken \in Seq(1..MaxPush)
  /\ closer \in {"before", "wakeConsumers", "wakeProducers", "after"}

\* push wakes one consumer per item (queue.ixx, notify_one at the end of push):
\* consumers sleep only while the ones already awake are enough for what is
\* queued, so no item is left lying in front of a sleeping consumer.
NoItemForgotten ==
  notEmpty # {} => Len(queue) <= Cardinality(awake \cap Consumer)

\* pop wakes one producer per freed slot and pop_batch, which frees several,
\* wakes them all: producers sleep only while the ones already awake are enough
\* for the free slots.  (After a shutdown slots no longer matter.)
NoSlotForgotten ==
  notFull # {} /\ ~shut =>
    Capacity - Len(queue) <= Cardinality(awake \cap Producer)

\* Nobody goes to sleep behind shutdown's back: once its notifications are out
\* no thread sleeps, also those that tested the predicate while it ran.
NobodyLeftAsleep ==
  /\ closer \in {"wakeProducers", "after"} => notEmpty = {}
  /\ closer = "after" => notFull = {}

\* The mutex and the condition variables implement the blocking queue: items go
\* out in the order they went in, and every call that can complete does.
Abstract == INSTANCE BlockingQueue WITH
              Most <- LAMBDA c : IF c \in PopConsumer THEN 1 ELSE BatchSize,
              offer <- item,
              asking <- (awake \cap Consumer) \cup notEmpty
IsBlockingQueue == Abstract!Spec

\* The part of it that is proved for every instance: items go out in the order
\* they went in.
IsBlockingQueueSafely == Abstract!SafetySpec
=============================================================================
