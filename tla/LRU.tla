-------------------------------- MODULE LRU --------------------------------
(***************************************************************************)
(* server/internal/lru/lru.go: the bounded cache behind the tombstones,    *)
(* the per-address counters and the rate limiters.  A cache is the list ll *)
(* from most to least recently used; items, the index into it, is implied. *)
(* Every operation holds the cache's mutex, so it is a function on caches. *)
(***************************************************************************)
EXTENDS Integers, SequencesExt

Entry(k, v) == [key |-> k, val |-> v]

Entries(Keys, Vals) == [key : Keys, val : Vals]

Caches(Keys, Vals, capacity) ==
  {c \in BoundedSeq(Entries(Keys, Vals), capacity) :
     \A i, j \in DOMAIN c : c[i].key = c[j].key => i = j}

KeysOf(c) == {c[i].key : i \in DOMAIN c}

InCache(c, k) == k \in KeysOf(c)

ValOf(c, k) == c[CHOOSE i \in DOMAIN c : c[i].key = k].val

\* Where the entries are that the keys ks do not name, in order.
Left(c, ks) ==
  CHOOSE f \in BoundedSeq(DOMAIN c, Len(c)) :
    /\ Range(f) = {i \in DOMAIN c : c[i].key \notin ks}
    /\ \A i, j \in DOMAIN f : i < j => f[i] < f[j]

\* Delete, of each of the keys ks: the other entries stay, in their order.
Without(c, ks) == [i \in DOMAIN Left(c, ks) |-> c[Left(c, ks)[i]]]

\* Mutant: a lookup does not count as a use.
Touched_NoMove(c, k) == c

\* Get and GetMut: the key moves to the front.
Touched(c, k) ==
  IF InCache(c, k) THEN <<Entry(k, ValOf(c, k))>> \o Without(c, {k}) ELSE c

\* Put: the key moves to the front; a new key may push the last one out.
Put(c, k, v, capacity) ==
  LET all == <<Entry(k, v)>> \o Without(c, {k})
  IN  IF Len(all) > capacity THEN Front(all) ELSE all
=============================================================================
