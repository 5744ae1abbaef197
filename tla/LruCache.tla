------------------------------- MODULE LruCache -------------------------------
(***************************************************************************)
(* What a session pool promises: a bounded cache that forgets the entry    *)
(* used longest ago.                                                       *)
(***************************************************************************)
EXTENDS SequencesExt

CONSTANTS Key, Session,
          Unlimited          \* the capacity that is none

VARIABLES order,             \* the cached keys, the one used last in front
          held,              \* the session cached for a key
          capacity,
          given              \* what the last call returned

lruVars == <<order, held, capacity, given>>

Init ==
  /\ order = <<>>
  /\ held = <<>>
  /\ capacity \in Nat
  /\ given \notin Session

Cached == ToSet(order)
Full == capacity # Unlimited /\ Len(order) >= capacity

\* t is what stays of s, in its order, when some elements go.
Rest(t, s, gone) ==
  /\ t \in Seq(ToSet(s) \ gone) /\ IsInjective(t) /\ ToSet(t) = ToSet(s) \ gone
  /\ \A i, j \in DOMAIN t : i < j =>
       \E m, n \in DOMAIN s : m < n /\ s[m] = t[i] /\ s[n] = t[j]

\* The entries that stay keep their sessions.
Keep == held' = [k \in ToSet(order') |-> held[k]]

\* A cached session is handed out, and is the one used last from now on.
Hit(k) ==
  /\ k \in Cached
  /\ given' = held[k]
  /\ order' # <<>> /\ Head(order') = k /\ Rest(Tail(order'), order, {k})
  /\ Keep
  /\ UNCHANGED capacity

\* A new session is cached; if there is no room, the oldest entry goes.
Miss(k, s) ==
  /\ k \notin Cached
  /\ given' = s
  /\ LET kept == IF Full THEN Front(order) ELSE order IN
       /\ order' = <<k>> \o kept
       /\ held' = [x \in {k} \cup ToSet(kept) |-> IF x = k THEN s ELSE held[x]]
  /\ UNCHANGED capacity

\* A session that is not cached is handed out, or none at all.
Bypass ==
  /\ \A k \in Cached : given' # held[k]
  /\ UNCHANGED <<order, held, capacity>>

\* Some entries go, because they are old or not wanted any more.
Drop(gone) ==
  /\ UNCHANGED <<capacity, given>>
  /\ Keep
  /\ Rest(order', order, gone)

\* A new capacity takes effect at once.
Resize(n) ==
  /\ capacity' = n
  /\ order' = IF n # Unlimited /\ n < Len(order) THEN SubSeq(order, 1, n) ELSE order
  /\ Keep
  /\ UNCHANGED given

Next ==
  \/ \E k \in Key : Hit(k)
  \/ \E k \in Key, s \in Session : Miss(k, s)
  \/ Bypass
  \/ \E gone \in SUBSET Key : Drop(gone)
  \/ Resize(capacity')

Spec == Init /\ [][Next]_lruVars
=============================================================================
