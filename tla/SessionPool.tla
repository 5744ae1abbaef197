----------------------------- MODULE SessionPool -----------------------------
(***************************************************************************)
(* SessionPool and the InferenceSessionRegistry around it: sessions cached *)
(* in a map whose entries form a doubly linked list, the one used last at  *)
(* its head.  Every call holds the mutex from beginning to end, the call   *)
(* of the factory included, and is one step here; preload_session of the   *)
(* registry is two calls, and other threads may come between them.         *)
(***************************************************************************)
EXTENDS SequencesExt

CONSTANTS Key,               \* model path and options
          Limits,            \* values of max_entries that are configured
          MaxSessions,       \* bound: sessions made
          Nil                \* nullptr

ASSUME PoolAssumption ==
  Limits \subseteq Nat /\ MaxSessions \in Nat /\ Nil \notin Key \cup 1..MaxSessions

VARIABLES list,              \* lru_head, lru_tail, prev and next of the entries
          cache,             \* the session of every entry of the map
          maxEntries, enable,
          made,              \* sessions made so far
          given,             \* what the last get_or_create returned
          preloading         \* a preload between its two calls, or Nil

poolVars == <<list, cache, maxEntries, enable, made, given, preloading>>

Session == 1..MaxSessions
Cached == DOMAIN cache

PoolInit ==
  /\ list = [head |-> Nil, tail |-> Nil, prev |-> <<>>, next |-> <<>>]
  /\ cache = <<>>
  /\ maxEntries \in Limits /\ enable \in BOOLEAN
  /\ made = 0
  /\ given = Nil
  /\ preloading = Nil

-----------------------------------------------------------------------------
(* The list.  An entry that is in the map has a prev and a next. *)

\* The fields of the entries that remain when gone are destroyed.
Without(l, gone) ==
  [l EXCEPT !.prev = [k \in DOMAIN @ \ gone |-> @[k]],
            !.next = [k \in DOMAIN @ \ gone |-> @[k]]]

\* The entry is unlinked; its own fields stay as they are.
RemoveEntry(l, k) ==
  LET before == l.prev[k]
      after == l.next[k]
  IN [head |-> IF l.head = k THEN after ELSE l.head,
      tail |-> IF l.tail = k THEN before ELSE l.tail,
      next |-> [x \in DOMAIN l.next |-> IF x = before THEN after ELSE l.next[x]],
      prev |-> [x \in DOMAIN l.prev |-> IF x = after THEN before ELSE l.prev[x]]]

\* Seeded bug: the first entry is not made the tail.
AddToHeadOnly(l, k) ==
  [head |-> k,
   tail |-> l.tail,
   next |-> [x \in DOMAIN l.next \cup {k} |-> IF x = k THEN l.head ELSE l.next[x]],
   prev |-> [x \in DOMAIN l.prev \cup {k} |->
               IF x = k THEN Nil ELSE IF x = l.head THEN k ELSE l.prev[x]]]

\* The entry, new or unlinked, is put in front.
AddToHead(l, k) ==
  [head |-> k,
   tail |-> IF l.tail = Nil THEN k ELSE l.tail,
   next |-> [x \in DOMAIN l.next \cup {k} |-> IF x = k THEN l.head ELSE l.next[x]],
   prev |-> [x \in DOMAIN l.prev \cup {k} |->
               IF x = k THEN Nil ELSE IF x = l.head THEN k ELSE l.prev[x]]]

MoveToHead(l, k) == IF l.head = k THEN l ELSE AddToHead(RemoveEntry(l, k), k)

\* The entry is unlinked and destroyed.
Erase(l, k) == Without(RemoveEntry(l, k), {k})

\* Seeded bug: the entry used last is evicted.
EvictMru(l, n) ==
  LET after[i \in 0..n] ==
        IF i = 0 THEN l ELSE Erase(after[i - 1], after[i - 1].head)
  IN after[n]

\* The n entries used longest ago are evicted.
EvictLru(l, n) ==
  LET after[i \in 0..n] ==
        IF i = 0 THEN l ELSE Erase(after[i - 1], after[i - 1].tail)
  IN after[n]

\* The entries of these keys go, one by one.
EraseEach(l, keys) ==
  LET after[i \in 0..Len(keys)] ==
        IF i = 0 THEN l ELSE Erase(after[i - 1], keys[i])
  IN after[Len(keys)]

\* The sessions of the entries that are still in the list.
Surviving(l) == [k \in DOMAIN l.next |-> cache[k]]

-----------------------------------------------------------------------------
(* get_or_create *)

Hit(k) ==
  /\ enable
  /\ k \in Cached
  /\ list' = MoveToHead(list, k)
  /\ given' = cache[k]
  /\ UNCHANGED <<cache, maxEntries, enable, made, preloading>>

\* A session enters the pool, perhaps for the one used longest ago.
Insert(k, s) ==
  LET full == maxEntries > 0 /\ Cardinality(Cached) >= maxEntries
      room == IF full THEN EvictLru(list, 1) ELSE list
  IN /\ list' = AddToHead(room, k)
     /\ cache' = [x \in DOMAIN list'.next |-> IF x = k THEN s ELSE cache[x]]

\* The factory is called: for a cached key only if the pool is disabled.
Make ==
  /\ made < MaxSessions
  /\ made' = made + 1
  /\ given' = made'

Miss(k) ==
  /\ enable
  /\ k \notin Cached
  /\ Make
  /\ Insert(k, made')
  /\ UNCHANGED <<maxEntries, enable, preloading>>

Disabled ==
  /\ ~enable
  /\ Make
  /\ UNCHANGED <<list, cache, maxEntries, enable, preloading>>

\* The model cannot be loaded: the factory throws or returns nullptr.
NotLoaded(k) ==
  /\ k \notin Cached \/ ~enable
  /\ given' = Nil
  /\ UNCHANGED <<list, cache, maxEntries, enable, made, preloading>>

-----------------------------------------------------------------------------
(* The other calls *)

\* evict, by the registry's preload or by a client of the pool.
Evict(k) ==
  IF k \in Cached
    THEN /\ list' = Erase(list, k)
         /\ cache' = Surviving(list')
    ELSE UNCHANGED <<list, cache>>

EvictEntry(k) ==
  /\ Evict(k)
  /\ UNCHANGED <<maxEntries, enable, made, given, preloading>>

Clear ==
  /\ list' = [Without(list, Cached) EXCEPT !.head = Nil, !.tail = Nil]
  /\ cache' = <<>>
  /\ UNCHANGED <<maxEntries, enable, made, given, preloading>>

\* cleanup_expired: any of the entries may have been idle for too long, and they are
\* met in any order.
CleanupExpired ==
  /\ \E expired \in SUBSET Cached : \E keys \in SetToSeqs(expired) :
       /\ list' = EraseEach(list, keys)
       /\ cache' = Surviving(list')
  /\ UNCHANGED <<maxEntries, enable, made, given, preloading>>

\* set_config, by the registry's configure.
SetConfig ==
  /\ maxEntries' \in Limits /\ enable' \in BOOLEAN
  /\ LET size == Cardinality(Cached) IN
       IF maxEntries' > 0 /\ size > maxEntries'
         THEN /\ list' = EvictLru(list, size - maxEntries')
              /\ cache' = Surviving(list')
         ELSE UNCHANGED <<list, cache>>
  /\ UNCHANGED <<made, given, preloading>>

\* preload_session takes out what is there ...
PreloadEvicts(k) ==
  /\ preloading = Nil
  /\ Evict(k)
  /\ preloading' = k
  /\ UNCHANGED <<maxEntries, enable, made, given>>

\* ... and asks for the key with a factory that returns the given session.  If
\* another thread has been faster, that one's session stays.
PreloadInserts ==
  /\ preloading # Nil
  /\ preloading' = Nil
  /\ \/ /\ enable /\ preloading \notin Cached
        /\ Make
        /\ Insert(preloading, made')
     \/ /\ enable /\ preloading \in Cached
        /\ list' = MoveToHead(list, preloading)
        /\ given' = cache[preloading]
        /\ UNCHANGED <<cache, made>>
     \/ /\ ~enable
        /\ Make
        /\ UNCHANGED <<list, cache>>
  /\ UNCHANGED <<maxEntries, enable>>

PoolNext ==
  \/ \E k \in Key : Hit(k) \/ Miss(k) \/ NotLoaded(k)
  \/ \E k \in Key : EvictEntry(k) \/ PreloadEvicts(k)
  \/ Disabled \/ Clear \/ CleanupExpired \/ SetConfig \/ PreloadInserts

PoolSpec == PoolInit /\ [][PoolNext]_poolVars

-----------------------------------------------------------------------------
(* Properties *)

\* The keys met from an end of the list, and one more if the list goes on.
Walk(start, link) ==
  LET end == Cardinality(DOMAIN link) + 1
      met[n \in 0..end] ==
        IF n = 0 THEN <<>>
        ELSE LET at == IF n = 1 THEN start
                       ELSE IF Len(met[n - 1]) < n - 1 THEN Nil
                       ELSE link[Last(met[n - 1])]
             IN IF at = Nil THEN met[n - 1] ELSE Append(met[n - 1], at)
  IN met[end]

Order == Walk(list.head, list.next)

\* Every variable holds a value of its type; prev and next exist for the
\* entries of the map and point to entries of the map.
PoolTypeOK ==
  /\ list.head \in Cached \cup {Nil} /\ list.tail \in Cached \cup {Nil}
  /\ list.prev \in [Cached -> Cached \cup {Nil}]
  /\ list.next \in [Cached -> Cached \cup {Nil}]
  /\ Cached \subseteq Key /\ cache \in [Cached -> Session]
  /\ maxEntries \in Limits /\ enable \in BOOLEAN
  /\ made \in 0..MaxSessions /\ given \in Session \cup {Nil}
  /\ preloading \in Key \cup {Nil}

\* List and map are one cache: from the head every entry is met once, and from
\* the tail the same entries the other way round.
ListIsMap ==
  /\ ToSet(Order) = Cached /\ Len(Order) = Cardinality(Cached)
  /\ Walk(list.tail, list.prev) = Reverse(Order)

Lru == INSTANCE LruCache WITH
  order <- Order, held <- cache, capacity <- maxEntries, Unlimited <- 0

\* The pool implements the cache: a hit returns the session stored for the key,
\* an insertion into a full pool costs exactly the entry used longest ago, a
\* smaller limit takes effect at once.
IsLruCache == Lru!Spec
=============================================================================
