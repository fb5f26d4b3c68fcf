---------------------------- MODULE StoresProofs ----------------------------
(***************************************************************************)
(* The promises of the bounded stores, for every capacity, lifetime, rate  *)
(* and set of keys: first what the operations of an LRU cache do, then the *)
(* invariants of the tombstones, the token buckets and the counters.       *)
(***************************************************************************)
EXTENDS Stores, SequenceTheorems, FiniteSetTheorems, WellFoundedInduction, TLAPS

-----------------------------------------------------------------------------
(* Arithmetic *)

\* Induction over the naturals, for a set.
LEMMA NatSetInduction ==
  ASSUME NEW S \in SUBSET Nat, 0 \in S, \A n \in S : n + 1 \in S
  PROVE  S = Nat
<1> SUFFICES ASSUME S # Nat PROVE FALSE
  OBVIOUS
<1> DEFINE R == OpToRel(<, Nat)
<1>1. IsWellFoundedOn(R, Nat)
  BY NatLessThanWellFounded
<1>2. Nat \ S # {} /\ Nat \ S \subseteq Nat
  OBVIOUS
<1>3. \E m \in Nat \ S : \A y \in Nat \ S : ~(<<y, m>> \in R)
  <2> HIDE DEF R
  <2> QED
    BY <1>1, <1>2, WFMin
<1>4. PICK m \in Nat \ S : \A y \in Nat \ S : ~(y < m)
  BY <1>3 DEF OpToRel
<1>5. m # 0 /\ m - 1 \in S
  BY <1>4
<1> QED
  BY <1>4, <1>5

-----------------------------------------------------------------------------
(* The LRU cache *)

\* f lists the set S of positions from first to last.
Lists(f, S, n) ==
  /\ f \in BoundedSeq(1..n, n)
  /\ Range(f) = S
  /\ \A i, j \in DOMAIN f : i < j => f[i] < f[j]

\* Any set of positions can be listed.
LEMMA ListingExists ==
  ASSUME NEW n \in Nat, NEW S \in SUBSET (1..n)
  PROVE  \E f : Lists(f, S, n)
<1> DEFINE M == {m \in Nat : \A T \in SUBSET (1..m) : \E f : Lists(f, T, m)}
<1>1. 0 \in M
  <2>1. ASSUME NEW T \in SUBSET (1..0) PROVE \E f : Lists(f, T, 0)
    <3>1. T = {}
      OBVIOUS
    <3>2. << >> \in [1..0 -> 1..0] /\ Range(<< >>) = {}
      BY DEF Range
    <3>3. << >> \in BoundedSeq(1..0, 0)
      BY <3>2 DEF BoundedSeq, SeqOf
    <3>4. DOMAIN << >> = {}
      OBVIOUS
    <3>5. Lists(<< >>, T, 0)
      BY <3>1, <3>2, <3>3, <3>4 DEF Lists
    <3> QED
      BY <3>5
  <2> QED
    BY <2>1
<1>2. ASSUME NEW m \in M PROVE m + 1 \in M
  <2>1. ASSUME NEW T \in SUBSET (1..(m + 1)) PROVE \E f : Lists(f, T, m + 1)
    <3>1. T \ {m + 1} \in SUBSET (1..m) /\ m \in Nat
      OBVIOUS
    <3>2. PICK f : Lists(f, T \ {m + 1}, m)
      BY <3>1
    <3>3. PICK k \in 0..m : f \in [1..k -> 1..m]
      BY <3>2 DEF Lists, BoundedSeq, SeqOf
    <3>4. CASE m + 1 \notin T
      <4>1. f \in [1..k -> 1..(m + 1)] /\ k \in 0..(m + 1)
        BY <3>1, <3>3
      <4>2. f \in BoundedSeq(1..(m + 1), m + 1)
        BY <4>1 DEF BoundedSeq, SeqOf
      <4> QED
        BY <3>2, <3>4, <4>2 DEF Lists
    <3>5. CASE m + 1 \in T
      <4> DEFINE g == [i \in 1..(k + 1) |-> IF i = k + 1 THEN m + 1 ELSE f[i]]
      <4>1. g \in [1..(k + 1) -> 1..(m + 1)] /\ k + 1 \in 0..(m + 1)
        BY <3>1, <3>3
      <4>2. g \in BoundedSeq(1..(m + 1), m + 1)
        BY <4>1 DEF BoundedSeq, SeqOf
      <4>3. Range(g) = T
        <5>1. DOMAIN g = 1..(k + 1) /\ DOMAIN f = 1..k /\ 1..(k + 1) = (1..k) \cup {k + 1}
          BY <3>3
        <5>2. \A i \in 1..k : g[i] = f[i]
          BY <3>3
        <5>3. g[k + 1] = m + 1
          BY <3>3
        <5>4. {f[i] : i \in 1..k} = T \ {m + 1}
          BY <3>2, <5>1 DEF Lists, Range
        <5> HIDE DEF g
        <5>5. {g[i] : i \in 1..(k + 1)} = {f[i] : i \in 1..k} \cup {m + 1}
          BY <5>1, <5>2, <5>3
        <5> QED
          BY <3>5, <5>1, <5>4, <5>5 DEF Range
      <4>4. ASSUME NEW i \in DOMAIN g, NEW j \in DOMAIN g, i < j PROVE g[i] < g[j]
        <5>1. i \in 1..k /\ j \in 1..(k + 1) /\ f[i] \in 1..m
          BY <3>3, <4>4
        <5>2. CASE j = k + 1
          BY <3>1, <5>1, <5>2
        <5>3. CASE j # k + 1
          <6>1. j \in 1..k /\ DOMAIN f = 1..k
            BY <3>3, <5>1, <5>3
          <6> QED
            BY <3>2, <3>3, <4>4, <5>1, <5>3, <6>1 DEF Lists
        <5> QED
          BY <5>2, <5>3
      <4>5. Lists(g, T, m + 1)
        BY <4>2, <4>3, <4>4 DEF Lists
      <4> QED
        BY <4>5
    <3> QED
      BY <3>4, <3>5
  <2> QED
    BY <2>1
<1>3. M = Nat
  <2>1. M \in SUBSET Nat
    OBVIOUS
  <2> HIDE DEF M
  <2> QED
    BY <1>1, <1>2, <2>1, NatSetInduction
<1> QED
  BY <1>3

\* Deleting leaves the other entries, in their order.
LEMMA LeftLists ==
  ASSUME NEW E, NEW c \in Seq(E), NEW ks
  PROVE  Lists(Left(c, ks), {i \in DOMAIN c : c[i].key \notin ks}, Len(c))
<1> DEFINE S == {i \in DOMAIN c : c[i].key \notin ks}
<1>1. DOMAIN c = 1..Len(c) /\ Len(c) \in Nat /\ S \in SUBSET (1..Len(c))
  OBVIOUS
<1> HIDE DEF S
<1>2. \E f : Lists(f, S, Len(c))
  BY <1>1, ListingExists
<1>3. \E f \in BoundedSeq(DOMAIN c, Len(c)) :
        /\ Range(f) = S
        /\ \A i, j \in DOMAIN f : i < j => f[i] < f[j]
  BY <1>1, <1>2 DEF Lists
<1> QED
  BY <1>1, <1>3, Zenon DEF Left, Lists, S

\* A function on 1..m is a sequence of length m.
LEMMA AsSeq ==
  ASSUME NEW E, NEW m \in Nat, NEW c \in [1..m -> E]
  PROVE  c \in Seq(E) /\ Len(c) = m /\ DOMAIN c = 1..m
OBVIOUS

\* A cache is a sequence of entries with distinct keys.
LEMMA CacheFacts ==
  ASSUME NEW Keys, NEW Vals, NEW n \in Nat, NEW c \in Caches(Keys, Vals, n)
  PROVE  /\ c \in Seq(Entries(Keys, Vals))
         /\ DOMAIN c = 1..Len(c) /\ Len(c) \in 0..n
         /\ \A i \in 1..Len(c) : /\ c[i] \in Entries(Keys, Vals)
                                 /\ c[i].key \in Keys /\ c[i].val \in Vals
         /\ \A i, j \in 1..Len(c) : c[i].key = c[j].key => i = j
         /\ \A k : k \in KeysOf(c) <=> \E i \in 1..Len(c) : c[i].key = k
<1>1. PICK m \in 0..n : c \in [1..m -> Entries(Keys, Vals)]
  BY DEF Caches, BoundedSeq, SeqOf
<1>2. c \in Seq(Entries(Keys, Vals)) /\ Len(c) = m /\ DOMAIN c = 1..m
  BY <1>1, AsSeq
<1>3. \A i \in 1..m : c[i] \in Entries(Keys, Vals)
  BY <1>1
<1>4. \A e \in Entries(Keys, Vals) : e.key \in Keys /\ e.val \in Vals
  BY DEF Entries
<1>5. \A i, j \in 1..m : c[i].key = c[j].key => i = j
  BY <1>2 DEF Caches
<1>6. \A k : k \in KeysOf(c) <=> \E i \in 1..m : c[i].key = k
  BY <1>2 DEF KeysOf
<1> QED
  BY <1>1, <1>2, <1>3, <1>4, <1>5, <1>6

\* The other way round.
LEMMA CacheIntro ==
  ASSUME NEW Keys, NEW Vals, NEW n \in Nat, NEW m \in 0..n, NEW c,
         c \in [1..m -> Entries(Keys, Vals)],
         \A i, j \in 1..m : c[i].key = c[j].key => i = j
  PROVE  c \in Caches(Keys, Vals, n) /\ Len(c) = m
<1>1. Len(c) = m /\ DOMAIN c = 1..m
  BY AsSeq
<1>2. c \in BoundedSeq(Entries(Keys, Vals), n)
  BY DEF BoundedSeq, SeqOf
<1> QED
  BY <1>1, <1>2 DEF Caches

\* The value of a key is the one stored with it.
LEMMA ValFacts ==
  ASSUME NEW Keys, NEW Vals, NEW n \in Nat, NEW c \in Caches(Keys, Vals, n),
         NEW i \in 1..Len(c)
  PROVE  ValOf(c, c[i].key) = c[i].val /\ ValOf(c, c[i].key) \in Vals
<1>1. /\ DOMAIN c = 1..Len(c) /\ c[i].val \in Vals
      /\ \A j \in 1..Len(c) : c[j].key = c[i].key => j = i
  BY CacheFacts
<1>2. (CHOOSE j \in DOMAIN c : c[j].key = c[i].key) = i
  BY <1>1
<1> QED
  BY <1>1, <1>2 DEF ValOf

\* Keys that were used after k.
Before(c, k) == {c[i].key : i \in {i \in DOMAIN c : \E j \in DOMAIN c : i < j /\ c[j].key = k}}

\* s is c without the keys ks.
Removed(c, ks, s) ==
  /\ KeysOf(s) = KeysOf(c) \ ks
  /\ \A k \in KeysOf(s) : ValOf(s, k) = ValOf(c, k) /\ Before(s, k) \subseteq Before(c, k)

\* What deleting does.
LEMMA WithoutFacts ==
  ASSUME NEW Keys, NEW Vals, NEW n \in Nat, NEW c \in Caches(Keys, Vals, n), NEW ks,
         NEW s, s = Without(c, ks)
  PROVE  /\ s \in Caches(Keys, Vals, n)
         /\ Len(s) <= Len(c) /\ \A k \in KeysOf(c) : k \in ks => Len(s) < Len(c)
         /\ Removed(c, ks, s)
<1> DEFINE f == Left(c, ks)
<1>1. /\ c \in Seq(Entries(Keys, Vals)) /\ DOMAIN c = 1..Len(c) /\ Len(c) \in 0..n
      /\ \A k : k \in KeysOf(c) <=> \E i \in 1..Len(c) : c[i].key = k
      /\ \A i \in 1..Len(c) : c[i] \in Entries(Keys, Vals)
      /\ \A i, j \in 1..Len(c) : c[i].key = c[j].key => i = j
  BY CacheFacts
<1>2. Lists(f, {i \in 1..Len(c) : c[i].key \notin ks}, Len(c))
  BY <1>1, LeftLists
<1>3. s = [i \in DOMAIN f |-> c[f[i]]]
  BY DEF Without
<1> HIDE DEF f
<1>4. PICK m \in 0..Len(c) : f \in [1..m -> 1..Len(c)]
  BY <1>2 DEF Lists, BoundedSeq, SeqOf
<1>5. DOMAIN f = 1..m /\ m \in 0..n
  BY <1>1, <1>4
<1>6. /\ {f[i] : i \in 1..m} = {i \in 1..Len(c) : c[i].key \notin ks}
      /\ \A i, j \in 1..m : i < j => f[i] < f[j]
  BY <1>2, <1>5 DEF Lists, Range
<1>7. \A i \in 1..m : f[i] \in 1..Len(c) /\ s[i] = c[f[i]]
  BY <1>3, <1>4, <1>5
<1>8. s \in [1..m -> Entries(Keys, Vals)]
  BY <1>1, <1>3, <1>5, <1>7
<1>9. ASSUME NEW i \in 1..m, NEW j \in 1..m, s[i].key = s[j].key PROVE i = j
  <2>1. f[i] = f[j] /\ f[i] \in Nat /\ f[j] \in Nat
    BY <1>1, <1>7, <1>9
  <2> QED
    BY <1>6, <2>1
<1>10. s \in Caches(Keys, Vals, n) /\ Len(s) = m
  BY <1>5, <1>8, <1>9, CacheIntro
<1>11. \A k : k \in KeysOf(s) <=> \E i \in 1..m : s[i].key = k
  BY <1>10, CacheFacts
<1>12. KeysOf(s) = KeysOf(c) \ ks
  <2>1. ASSUME NEW i \in 1..m PROVE s[i].key \in KeysOf(c) \ ks
    BY <1>1, <1>6, <1>7
  <2>2. ASSUME NEW p \in 1..Len(c), c[p].key \notin ks PROVE \E i \in 1..m : s[i].key = c[p].key
    <3>1. PICK i \in 1..m : f[i] = p
      BY <1>6, <2>2
    <3> QED
      BY <1>7, <3>1
  <2> QED
    BY <1>1, <1>11, <2>1, <2>2
<1>13. ASSUME NEW k \in KeysOf(s) PROVE ValOf(s, k) = ValOf(c, k) /\ Before(s, k) \subseteq Before(c, k)
  <2>1. PICK i \in 1..m : k = s[i].key
    BY <1>11
  <2>2. ValOf(s, k) = s[i].val
    BY <1>10, <2>1, ValFacts
  <2>3. ValOf(c, k) = c[f[i]].val
    <3>1. f[i] \in 1..Len(c) /\ k = c[f[i]].key
      BY <1>7, <2>1
    <3> QED
      BY <3>1, ValFacts
  <2>4. ASSUME NEW q \in Before(s, k) PROVE q \in Before(c, k)
    <3>1. PICK a \in 1..m, b \in 1..m : a < b /\ s[a].key = q /\ s[b].key = k
      BY <1>8, <2>4 DEF Before
    <3>2. f[a] \in 1..Len(c) /\ f[b] \in 1..Len(c) /\ f[a] < f[b] /\ c[f[a]].key = q /\ c[f[b]].key = k
      BY <1>6, <1>7, <3>1
    <3> QED
      BY <1>1, <3>2 DEF Before
  <2> QED
    BY <1>7, <2>1, <2>2, <2>3, <2>4
<1>14. ASSUME NEW k \in KeysOf(c), k \in ks PROVE m < Len(c)
  <2> SUFFICES ASSUME m = Len(c) PROVE FALSE
    OBVIOUS
  <2>1. PICK p \in 1..Len(c) : c[p].key = k
    BY <1>1
  <2>2. f \in Injection(1..m, 1..Len(c))
    <3>1. \A i, j \in 1..m : f[i] = f[j] => i = j
      BY <1>6, <1>7
    <3> QED
      BY <1>4, <3>1 DEF Injection, IsInjective
  <2>3. IsFiniteSet(1..Len(c))
    BY <1>1, FS_Interval
  <2>4. f \in Surjection(1..m, 1..Len(c))
    BY <2>2, <2>3, FS_Injection
  <2>5. \E i \in 1..m : f[i] = p
    BY <2>4 DEF Surjection
  <2> QED
    BY <1>6, <1>14, <2>1, <2>5
<1> QED
  BY <1>4, <1>10, <1>12, <1>13, <1>14 DEF Removed

\* An entry in front of a list.
LEMMA ConsFacts ==
  ASSUME NEW E, NEW e \in E, NEW s \in Seq(E)
  PROVE  LET r == <<e>> \o s
         IN  /\ r \in Seq(E) /\ Len(r) = Len(s) + 1
             /\ r[1] = e /\ \A i \in 2..Len(r) : r[i] = s[i - 1]
<1>1. <<e>> \in Seq(E) /\ Len(<<e>>) = 1 /\ <<e>>[1] = e
  OBVIOUS
<1> QED
  BY <1>1, ConcatProperties

\* k is stored with v, in front; nothing overtakes another key but k.
Stored(c, k, v, r) ==
  /\ k \in KeysOf(r) /\ ValOf(r, k) = v /\ Before(r, k) = {}
  /\ KeysOf(r) \subseteq KeysOf(c) \cup {k}
  /\ \A q \in KeysOf(r) \ {k} : /\ ValOf(r, q) = ValOf(c, q)
                                /\ Before(r, q) \subseteq Before(c, q) \cup {k}

\* r is c with k in front, cut after m entries; s is the list behind it.
Pushed(Keys, Vals, n, c, k, v, s, m, r) ==
  /\ n \in Nat /\ c \in Caches(Keys, Vals, n) /\ s \in Caches(Keys, Vals, n)
  /\ k \in Keys /\ v \in Vals
  /\ Removed(c, {k}, s)
  /\ m \in 1..n /\ m <= Len(s) + 1
  /\ r \in [1..m -> Entries(Keys, Vals)]
  /\ r[1] = Entry(k, v) /\ \A i \in 2..m : r[i] = s[i - 1]

\* A key moves, or is pushed, to the front, and the list is cut after m entries.
LEMMA PushFacts ==
  ASSUME NEW Keys, NEW Vals, NEW n, NEW c, NEW k, NEW v, NEW s, NEW m, NEW r,
         Pushed(Keys, Vals, n, c, k, v, s, m, r)
  PROVE  /\ r \in Caches(Keys, Vals, n) /\ Len(r) = m
         /\ Stored(c, k, v, r)
         /\ m = Len(s) + 1 => KeysOf(r) = KeysOf(c) \cup {k}
         /\ m = Len(s) =>
              \A q \in KeysOf(c) \ KeysOf(r) : KeysOf(r) \subseteq Before(c, q) \cup {k}
<1>0. /\ n \in Nat /\ c \in Caches(Keys, Vals, n) /\ s \in Caches(Keys, Vals, n)
      /\ k \in Keys /\ v \in Vals
      /\ m \in 1..n /\ m <= Len(s) + 1
      /\ r \in [1..m -> Entries(Keys, Vals)]
      /\ \A i \in 2..m : r[i] = s[i - 1]
  BY DEF Pushed
<1>1. /\ KeysOf(s) = KeysOf(c) \ {k}
      /\ \A q \in KeysOf(s) : ValOf(s, q) = ValOf(c, q) /\ Before(s, q) \subseteq Before(c, q)
  BY DEF Pushed, Removed
<1>2. /\ DOMAIN s = 1..Len(s) /\ Len(s) \in Nat
      /\ \A i, j \in 1..Len(s) : s[i].key = s[j].key => i = j
      /\ \A q : q \in KeysOf(s) <=> \E i \in 1..Len(s) : s[i].key = q
  BY <1>0, CacheFacts
<1>3. \A i \in 2..m : r[i] = s[i - 1] /\ i - 1 \in 1..Len(s)
  BY <1>0, <1>2
<1>4. r[1].key = k /\ r[1].val = v
  BY DEF Entry, Pushed
<1>5. ASSUME NEW i \in 2..m PROVE r[i].key # k /\ r[i].key \in KeysOf(s)
  BY <1>0, <1>1, <1>2, <1>3
<1>6. ASSUME NEW i \in 1..m, NEW j \in 1..m, r[i].key = r[j].key PROVE i = j
  <2>1. CASE i = 1 \/ j = 1
    BY <1>0, <1>4, <1>5, <1>6, <2>1
  <2>2. CASE i \in 2..m /\ j \in 2..m
    <3>1. i - 1 = j - 1
      BY <1>0, <1>2, <1>3, <1>6, <2>2, SMTT(30)
    <3> QED
      BY <1>0, <3>1
  <2> QED
    BY <1>0, <2>1, <2>2
<1>7. r \in Caches(Keys, Vals, n) /\ Len(r) = m
  BY <1>0, <1>6, CacheIntro
<1>8. DOMAIN r = 1..m /\ \A q : q \in KeysOf(r) <=> \E i \in 1..m : r[i].key = q
  BY <1>0 DEF KeysOf
<1>9. k \in KeysOf(r) /\ ValOf(r, k) = v
  <2>1. 1 \in 1..m
    BY <1>0
  <2> QED
    BY <1>0, <1>4, <1>7, <1>8, <2>1, ValFacts
<1>10. Before(r, k) = {}
  <2>1. ASSUME NEW i \in 1..m, NEW j \in 1..m, i < j, r[j].key = k PROVE FALSE
    BY <1>0, <1>5, <2>1
  <2> QED
    BY <1>0, <1>8, <2>1 DEF Before
<1>11. KeysOf(r) \subseteq KeysOf(c) \cup {k}
  <2>1. \A i \in 1..m : r[i].key = k \/ r[i].key \in KeysOf(s)
    BY <1>0, <1>4, <1>5
  <2> QED
    BY <1>0, <1>1, <1>8, <2>1
<1>12. ASSUME NEW q \in KeysOf(r) \ {k}
       PROVE  /\ ValOf(r, q) = ValOf(c, q)
              /\ Before(r, q) \subseteq Before(c, q) \cup {k}
  <2>1. PICK i \in 2..m : r[i].key = q
    BY <1>0, <1>4, <1>8
  <2>2. ValOf(r, q) = r[i].val
    <3>1. n \in Nat /\ r \in Caches(Keys, Vals, n) /\ i \in 1..Len(r)
      BY <1>0, <1>7
    <3>2. ValOf(r, r[i].key) = r[i].val
      BY <3>1, ValFacts
    <3> QED
      BY <2>1, <3>2
  <2>3. i - 1 \in 1..Len(s) /\ r[i] = s[i - 1] /\ q \in KeysOf(s)
    BY <1>0, <1>3, <1>5, <2>1
  <2>4. ValOf(s, q) = r[i].val
    BY <1>0, <1>1, <2>1, <2>3, ValFacts
  <2>5. ASSUME NEW x \in Before(r, q), x # k PROVE x \in Before(s, q)
    <3>1. PICK a \in 1..m, b \in 1..m : a < b /\ r[a].key = x /\ r[b].key = q
      BY <1>0, <1>8, <2>5 DEF Before
    <3>2. a \in 2..m /\ b \in 2..m
      BY <1>0, <1>4, <2>5, <3>1
    <3>3. /\ a - 1 \in 1..Len(s) /\ b - 1 \in 1..Len(s) /\ a - 1 < b - 1
          /\ s[a - 1].key = x /\ s[b - 1].key = q
      BY <1>0, <1>3, <3>1, <3>2
    <3> QED
      BY <1>0, <1>2, <3>3 DEF Before
  <2> QED
    BY <1>0, <1>1, <2>2, <2>3, <2>4, <2>5
<1>13. ASSUME m = Len(s) + 1 PROVE KeysOf(r) = KeysOf(c) \cup {k}
  <2>1. ASSUME NEW q \in KeysOf(s) PROVE q \in KeysOf(r)
    <3>1. PICK i \in 1..Len(s) : s[i].key = q
      BY <1>0, <1>2
    <3>2. i + 1 \in 2..m /\ i + 1 \in 1..m /\ (i + 1) - 1 = i
      BY <1>0, <1>2, <1>13
    <3>3. r[i + 1].key = q
      BY <1>0, <1>3, <3>1, <3>2
    <3> QED
      BY <1>0, <1>8, <3>2, <3>3
  <2> QED
    BY <1>0, <1>1, <1>9, <1>11, <2>1
<1>14. ASSUME m = Len(s), NEW q \in KeysOf(c) \ KeysOf(r), NEW x \in KeysOf(r), x # k
       PROVE  x \in Before(c, q)
  <2>1. q \in KeysOf(s)
    BY <1>0, <1>1, <1>9
  <2>2. PICK j \in 1..Len(s) : s[j].key = q
    BY <1>0, <1>2, <2>1
  <2>3. PICK i \in 2..m : r[i].key = x
    BY <1>0, <1>4, <1>8, <1>14
  <2>4. j = Len(s)
    <3>1. ASSUME j # Len(s) PROVE FALSE
      <4>1. j + 1 \in 2..m /\ j + 1 \in 1..m /\ (j + 1) - 1 = j
        <5>1. m \in Nat /\ j \in 1..m /\ j # m
          BY <1>0, <1>14, <3>1
        <5> QED
          BY <1>0, <5>1
      <4>2. r[j + 1].key = q
        BY <1>0, <1>3, <2>2, <4>1
      <4> QED
        BY <1>0, <1>8, <4>1, <4>2
    <3> QED
      BY <1>0, <3>1
  <2>5. i - 1 \in 1..Len(s) /\ i - 1 < j /\ s[i - 1].key = x
    BY <1>0, <1>2, <1>3, <1>14, <2>3, <2>4
  <2>6. x \in Before(s, q)
    BY <1>0, <1>2, <2>2, <2>5 DEF Before
  <2> QED
    BY <1>0, <1>1, <2>1, <2>6
<1>15. Stored(c, k, v, r)
  BY <1>0, <1>9, <1>10, <1>11, <1>12 DEF Stored
<1> QED
  BY <1>0, <1>7, <1>13, <1>14, <1>15

\* Get and GetMut change the order and nothing else.
LEMMA TouchedFacts ==
  ASSUME NEW Keys, NEW Vals, NEW n \in Nat, NEW c \in Caches(Keys, Vals, n), NEW k \in KeysOf(c)
  PROVE  LET r == Touched(c, k)
         IN  /\ r \in Caches(Keys, Vals, n) /\ KeysOf(r) = KeysOf(c)
             /\ Stored(c, k, ValOf(c, k), r)
<1> DEFINE s == Without(c, {k})
           v == ValOf(c, k)
           r == <<Entry(k, v)>> \o s
<1>1. Touched(c, k) = r
  BY DEF Touched, InCache
<1>2. k \in Keys /\ v \in Vals
  <2>1. PICK i \in 1..Len(c) : c[i].key = k
    BY CacheFacts
  <2> QED
    BY <2>1, ValFacts, CacheFacts
<1>3. /\ s \in Caches(Keys, Vals, n) /\ Len(s) < Len(c) /\ Len(c) \in 0..n
      /\ Removed(c, {k}, s)
  BY WithoutFacts, CacheFacts
<1>4. s \in Seq(Entries(Keys, Vals)) /\ Len(s) \in Nat
  BY <1>3, CacheFacts
<1>5. Entry(k, v) \in Entries(Keys, Vals)
  BY <1>2 DEF Entry, Entries
<1> HIDE DEF s, v
<1>6. /\ r \in Seq(Entries(Keys, Vals)) /\ Len(r) = Len(s) + 1
      /\ r[1] = Entry(k, v) /\ \A i \in 2..Len(r) : r[i] = s[i - 1]
  BY <1>4, <1>5, ConsFacts
<1> HIDE DEF r
<1>7. r \in [1..Len(r) -> Entries(Keys, Vals)] /\ Len(r) \in 1..n
  BY <1>3, <1>4, <1>6
<1>8. /\ r \in Caches(Keys, Vals, n) /\ Stored(c, k, v, r)
      /\ KeysOf(r) = KeysOf(c) \cup {k}
  <2> DEFINE m == Len(r)
  <2>1. /\ m \in 1..n /\ m = Len(s) + 1 /\ m <= Len(s) + 1
        /\ r \in [1..m -> Entries(Keys, Vals)]
    BY <1>4, <1>6, <1>7
  <2>2. r[1] = Entry(k, v) /\ \A i \in 2..m : r[i] = s[i - 1]
    BY <1>6
  <2> HIDE DEF m
  <2>3. Pushed(Keys, Vals, n, c, k, v, s, m, r)
    BY <1>2, <1>3, <2>1, <2>2 DEF Pushed
  <2> QED
    BY <2>1, <2>3, PushFacts
<1> QED
  BY <1>1, <1>8 DEF v

\* Put stores the key and may cost the one used least recently its place.
LEMMA PutFacts ==
  ASSUME NEW Keys, NEW Vals, NEW n \in Nat \ {0}, NEW c \in Caches(Keys, Vals, n),
         NEW k \in Keys, NEW v \in Vals
  PROVE  LET r == Put(c, k, v, n)
         IN  /\ r \in Caches(Keys, Vals, n) /\ Stored(c, k, v, r)
             /\ \A q \in KeysOf(c) \ KeysOf(r) :
                  Len(r) = n /\ KeysOf(r) \subseteq Before(c, q) \cup {k}
             /\ k \in KeysOf(c) => KeysOf(r) = KeysOf(c)
<1> DEFINE s == Without(c, {k})
           a == <<Entry(k, v)>> \o s
           r == IF Len(a) > n THEN Front(a) ELSE a
           m == IF Len(s) + 1 > n THEN n ELSE Len(s) + 1
<1>1. Put(c, k, v, n) = r
  BY DEF Put
<1>2. s \in Caches(Keys, Vals, n) /\ Removed(c, {k}, s)
  BY WithoutFacts
<1>3. Entry(k, v) \in Entries(Keys, Vals)
  BY DEF Entry, Entries
<1> HIDE DEF s
<1>4. s \in Seq(Entries(Keys, Vals)) /\ Len(s) \in 0..n
  BY <1>2, CacheFacts
<1>5. /\ a \in Seq(Entries(Keys, Vals)) /\ Len(a) = Len(s) + 1
      /\ a[1] = Entry(k, v) /\ \A i \in 2..Len(a) : a[i] = s[i - 1]
  BY <1>3, <1>4, ConsFacts
<1>6. m \in 1..n /\ m <= Len(s) + 1
  BY <1>4
<1> HIDE DEF a
<1>7. r \in [1..m -> Entries(Keys, Vals)] /\ \A i \in 1..m : r[i] = a[i]
  <2>1. CASE Len(a) > n
    <3>1. Len(a) = n + 1 /\ m = n /\ r = Front(a)
      BY <1>4, <1>5, <2>1
    <3> HIDE DEF r, m
    <3>2. r = SubSeq(a, 1, n)
      BY <3>1 DEF Front
    <3>3. \A i \in 1..n : a[i] \in Entries(Keys, Vals)
      BY <1>5, <3>1
    <3>4. /\ SubSeq(a, 1, n) \in Seq(Entries(Keys, Vals)) /\ Len(SubSeq(a, 1, n)) = n
          /\ \A i \in 1..n : SubSeq(a, 1, n)[i] = a[i]
      BY <1>5, <3>1, <3>3, SubSeqProperties
    <3>5. r \in Seq(Entries(Keys, Vals)) /\ Len(r) = n /\ \A i \in 1..n : r[i] = a[i]
      BY <3>2, <3>4
    <3>6. r \in [1..Len(r) -> Entries(Keys, Vals)]
      BY <3>5, LenProperties
    <3> QED
      BY <3>1, <3>5, <3>6
  <2>2. CASE ~(Len(a) > n)
    <3>1. m = Len(a) /\ r = a
      BY <1>5, <2>2
    <3> HIDE DEF r, m
    <3> QED
      BY <1>5, <3>1
  <2> QED
    BY <2>1, <2>2
<1>8. m = Len(s) + 1 \/ (m = Len(s) /\ m = n)
  BY <1>4
<1> HIDE DEF r, m
<1>9. r[1] = Entry(k, v) /\ \A i \in 2..m : r[i] = s[i - 1]
  <2>1. m \in Nat /\ 1 \in 1..m /\ m <= Len(a) /\ Len(a) \in Nat
    BY <1>4, <1>5, <1>6
  <2> QED
    BY <1>5, <1>7, <2>1
<1>10. Pushed(Keys, Vals, n, c, k, v, s, m, r)
  BY <1>2, <1>6, <1>7, <1>9 DEF Pushed
<1>11. /\ r \in Caches(Keys, Vals, n) /\ Len(r) = m
       /\ Stored(c, k, v, r)
       /\ m = Len(s) + 1 => KeysOf(r) = KeysOf(c) \cup {k}
       /\ m = Len(s) =>
            \A q \in KeysOf(c) \ KeysOf(r) : KeysOf(r) \subseteq Before(c, q) \cup {k}
  BY <1>10, PushFacts
<1>12. ASSUME k \in KeysOf(c) PROVE m = Len(s) + 1
  <2>1. Len(s) < Len(c) /\ Len(c) \in 0..n
    BY <1>12, WithoutFacts, CacheFacts DEF s
  <2> QED
    BY <1>4, <1>8, <2>1
<1> QED
  BY <1>1, <1>8, <1>11, <1>12

\* A cache holds as many keys as it is long.
LEMMA KeyCount ==
  ASSUME NEW Keys, NEW Vals, NEW n \in Nat, NEW c \in Caches(Keys, Vals, n),
         NEW S, IsFiniteSet(S), KeysOf(c) \subseteq S
  PROVE  Len(c) <= Cardinality(S)
<1> DEFINE f == [i \in 1..Len(c) |-> c[i].key]
<1>1. Len(c) \in Nat /\ \A i \in 1..Len(c) : c[i].key \in S
  BY CacheFacts
<1>2. \A i, j \in 1..Len(c) : c[i].key = c[j].key => i = j
  BY CacheFacts
<1>3. f \in Injection(1..Len(c), S)
  <2>1. f \in [1..Len(c) -> S]
    BY <1>1
  <2>2. IsInjective(f)
    BY <1>2 DEF IsInjective
  <2> QED
    BY <2>1, <2>2 DEF Injection
<1>4. Cardinality(1..Len(c)) <= Cardinality(S)
  <2> HIDE DEF f
  <2> QED
    BY <1>3, FS_Injection
<1>5. Cardinality(1..Len(c)) = Len(c)
  <2> DEFINE l == Len(c)
  <2>1. l \in Nat /\ 1 \in Int /\ l \in Int
    BY <1>1
  <2> HIDE DEF l
  <2>2. Cardinality(1..l) = IF 1 > l THEN 0 ELSE l - 1 + 1
    BY <2>1, FS_Interval
  <2>3. Cardinality(1..l) = l
    BY <2>1, <2>2
  <2> QED
    BY <2>3 DEF l
<1> QED
  BY <1>4, <1>5

\* A key in the cache has a value of the type.
LEMMA ValType ==
  ASSUME NEW Keys, NEW Vals, NEW n \in Nat, NEW c \in Caches(Keys, Vals, n), NEW k \in KeysOf(c)
  PROVE  k \in Keys /\ ValOf(c, k) \in Vals
<1>1. PICK i \in 1..Len(c) : c[i].key = k
  BY CacheFacts
<1> QED
  BY <1>1, CacheFacts, ValFacts

\* The empty cache.
LEMMA NoEntries ==
  ASSUME NEW Keys, NEW Vals, NEW n \in Nat
  PROVE  << >> \in Caches(Keys, Vals, n) /\ KeysOf(<< >>) = {}
BY DEF Caches, BoundedSeq, SeqOf, KeysOf

-----------------------------------------------------------------------------
(* The counters *)

CountTypes ==
  /\ counts \in Caches(Ips, 1..MaxPerIp, CountCap)
  /\ held \in [Ips -> Nat] /\ exact \in SUBSET Ips

CountInv == CountTypes /\ ChargeExact

\* What the cache answers for an address.
LEMMA CountFacts ==
  ASSUME CountTypes, NEW ip \in Ips
  PROVE  /\ CountOf(ip) \in 0..MaxPerIp
         /\ ip \in KeysOf(counts) => CountOf(ip) = ValOf(counts, ip) /\ CountOf(ip) > 0
         /\ ip \notin KeysOf(counts) => CountOf(ip) = 0
<1>1. ASSUME ip \in KeysOf(counts) PROVE ValOf(counts, ip) \in 1..MaxPerIp
  <2>0. counts \in Caches(Ips, 1..MaxPerIp, CountCap) /\ CountCap \in Nat
    BY StoresAssumption DEF CountTypes
  <2> QED
    BY <1>1, <2>0, ValType
<1>2. MaxPerIp \in Nat \ {0}
  BY StoresAssumption
<1> QED
  BY <1>1, <1>2 DEF CountOf, InCache

\* One address is charged differently; others may lose their counter.
LEMMA CountMoves ==
  ASSUME CountInv, CountTypes', NEW ip \in Ips,
         KeysOf(counts') \subseteq KeysOf(counts) \cup {ip},
         \A x \in KeysOf(counts') \ {ip} : ValOf(counts', x) = ValOf(counts, x),
         \A x \in Ips \ {ip} : held'[x] = held[x],
         exact' \subseteq exact,
         \A x \in Ips \ {ip} : x \in KeysOf(counts) /\ x \notin KeysOf(counts') => x \notin exact',
         CountOf(ip)' <= held'[ip],
         ip \in exact' => CountOf(ip)' = held'[ip]
  PROVE  CountInv'
<1>1. ASSUME NEW x \in Ips
      PROVE  /\ CountOf(x)' <= held'[x]
             /\ x \in exact' => CountOf(x)' = held'[x] /\ held'[x] <= MaxPerIp
  <2>1. CountOf(x)' \in 0..MaxPerIp
    <3>1. counts' \in Caches(Ips, 1..MaxPerIp, CountCap) /\ CountCap \in Nat /\ MaxPerIp \in Nat
      BY StoresAssumption DEF CountTypes
    <3>2. x \in KeysOf(counts') => ValOf(counts', x) \in 1..MaxPerIp
      BY <3>1, ValType
    <3> QED
      BY <3>1, <3>2 DEF CountOf, InCache
  <2>2. CASE x = ip
    BY <2>1, <2>2
  <2>3. CASE x # ip
    <3>1. CountOf(x) <= held[x] /\ (x \in exact => CountOf(x) = held[x] /\ held[x] <= MaxPerIp)
      BY DEF CountInv, ChargeExact
    <3>2. held[x] \in Nat /\ held'[x] = held[x]
      BY <2>3 DEF CountInv, CountTypes
    <3>3. CASE x \in KeysOf(counts')
      <4>1. CountOf(x)' = CountOf(x)
        BY <2>3, <3>3 DEF CountOf, InCache
      <4> QED
        BY <3>1, <3>2, <4>1
    <3>4. CASE x \notin KeysOf(counts')
      <4>1. CountOf(x)' = 0
        BY <3>4 DEF CountOf, InCache
      <4>2. x \in exact' => CountOf(x) = 0
        BY <2>3, <3>4 DEF CountOf, InCache
      <4> QED
        BY <3>1, <3>2, <4>1, <4>2
    <3> QED
      BY <3>3, <3>4
  <2> QED
    BY <2>2, <2>3
<1> QED
  BY <1>1 DEF CountInv, ChargeExact

\* Increment under the limit.
LEMMA IncrementStep ==
  ASSUME CountInv, NEW ip \in Ips, Increment(ip)
  PROVE  CountInv'
<1> DEFINE v == CountOf(ip) + 1
           new == Put(counts, ip, v, CountCap)
<1>1. /\ CountOf(ip) < MaxPerIp /\ counts' = new
      /\ held' = [held EXCEPT ![ip] = @ + 1] /\ exact' = exact \ (KeysOf(counts) \ KeysOf(new))
  BY DEF Increment, Evicted
<1>2. CountTypes /\ counts \in Caches(Ips, 1..MaxPerIp, CountCap) /\ CountCap \in Nat \ {0}
  BY StoresAssumption DEF CountInv, CountTypes
<1>3. CountOf(ip) \in 0..MaxPerIp /\ MaxPerIp \in Nat
  BY <1>2, CountFacts, StoresAssumption
<1>4. v \in 1..MaxPerIp
  BY <1>1, <1>3
<1> HIDE DEF v
<1>5. new \in Caches(Ips, 1..MaxPerIp, CountCap) /\ Stored(counts, ip, v, new)
  BY <1>2, <1>4, PutFacts
<1> HIDE DEF new
<1>6. /\ ip \in KeysOf(new) /\ ValOf(new, ip) = v
      /\ KeysOf(new) \subseteq KeysOf(counts) \cup {ip}
      /\ \A q \in KeysOf(new) \ {ip} : ValOf(new, q) = ValOf(counts, q)
  BY <1>5 DEF Stored
<1>7. held \in [Ips -> Nat] /\ exact \in SUBSET Ips
  BY <1>2 DEF CountTypes
<1>8. CountTypes'
  BY <1>1, <1>5, <1>7 DEF CountTypes
<1>9. CountOf(ip)' = CountOf(ip) + 1 /\ held'[ip] = held[ip] + 1 /\ held[ip] \in Nat
  BY <1>1, <1>6, <1>7 DEF CountOf, InCache, v
<1>10. CountOf(ip)' <= held'[ip] /\ (ip \in exact' => CountOf(ip)' = held'[ip])
  <2>1. CountOf(ip) <= held[ip] /\ (ip \in exact => CountOf(ip) = held[ip])
    BY DEF CountInv, ChargeExact
  <2> QED
    BY <1>1, <1>3, <1>9, <2>1
<1>11. /\ \A x \in Ips \ {ip} : held'[x] = held[x]
       /\ exact' \subseteq exact
       /\ \A x \in Ips \ {ip} : x \in KeysOf(counts) /\ x \notin KeysOf(counts') => x \notin exact'
  BY <1>1, <1>7
<1> QED
  BY <1>1, <1>6, <1>8, <1>10, <1>11, CountMoves

\* Increment at the limit, with and without Restore.
LEMMA RefusedStep ==
  ASSUME CountInv, NEW ip \in Ips, NEW restoring, IncrementRefused(ip, restoring)
  PROVE  CountInv'
<1> DEFINE new == Touched(counts, ip)
<1>1. /\ CountOf(ip) >= MaxPerIp /\ counts' = new
      /\ \/ held' = [held EXCEPT ![ip] = @ + 1] /\ exact' = exact \ {ip}
         \/ UNCHANGED <<held, exact>>
  BY DEF IncrementRefused
<1>2. /\ CountTypes /\ counts \in Caches(Ips, 1..MaxPerIp, CountCap) /\ CountCap \in Nat
      /\ MaxPerIp \in Nat \ {0}
  BY StoresAssumption DEF CountInv, CountTypes
<1>3. ip \in KeysOf(counts)
  BY <1>1, <1>2, CountFacts
<1>4. /\ new \in Caches(Ips, 1..MaxPerIp, CountCap) /\ KeysOf(new) = KeysOf(counts)
      /\ Stored(counts, ip, ValOf(counts, ip), new)
  BY <1>2, <1>3, TouchedFacts
<1> HIDE DEF new
<1>5. \A q \in KeysOf(new) : ValOf(new, q) = ValOf(counts, q)
  BY <1>4 DEF Stored
<1>6. held \in [Ips -> Nat] /\ exact \in SUBSET Ips
  BY <1>2 DEF CountTypes
<1>7. CountTypes'
  BY <1>1, <1>4, <1>6 DEF CountTypes
<1>8. CountOf(ip)' = CountOf(ip) /\ CountOf(ip) \in 0..MaxPerIp
  BY <1>1, <1>2, <1>3, <1>4, <1>5, CountFacts DEF CountOf, InCache
<1>9. CountOf(ip)' <= held'[ip] /\ (ip \in exact' => CountOf(ip)' = held'[ip])
  <2>1. CountOf(ip) <= held[ip] /\ (ip \in exact => CountOf(ip) = held[ip]) /\ held[ip] \in Nat
    BY <1>6 DEF CountInv, ChargeExact
  <2> QED
    BY <1>1, <1>6, <1>8, <2>1
<1>10. /\ \A x \in Ips \ {ip} : held'[x] = held[x]
       /\ exact' \subseteq exact
       /\ KeysOf(counts') = KeysOf(counts)
  BY <1>1, <1>4, <1>6
<1> QED
  BY <1>1, <1>5, <1>7, <1>9, <1>10, CountMoves

\* Decrement: the last unit takes the counter with it.
LEMMA DecrementStep ==
  ASSUME CountInv, NEW ip \in Ips, Decrement(ip)
  PROVE  CountInv'
<1>1. /\ held[ip] > 0 /\ held' = [held EXCEPT ![ip] = @ - 1] /\ exact' = exact
      /\ counts' = IF ip \in KeysOf(counts) THEN Decremented(ip) ELSE counts
  BY DEF Decrement, InCache
<1>2. /\ CountTypes /\ counts \in Caches(Ips, 1..MaxPerIp, CountCap) /\ CountCap \in Nat \ {0}
      /\ MaxPerIp \in Nat \ {0} /\ held \in [Ips -> Nat] /\ exact \in SUBSET Ips
      /\ CountCap \in Nat
  BY StoresAssumption DEF CountInv, CountTypes
<1>3. /\ CountOf(ip) \in 0..MaxPerIp /\ CountOf(ip) <= held[ip]
      /\ ip \in exact => CountOf(ip) = held[ip]
  BY <1>2, CountFacts DEF CountInv, ChargeExact
<1>4. /\ counts' \in Caches(Ips, 1..MaxPerIp, CountCap)
      /\ KeysOf(counts') \subseteq KeysOf(counts)
      /\ \A x \in Ips \ {ip} : x \in KeysOf(counts) => x \in KeysOf(counts') \/ x \notin exact'
      /\ \A x \in KeysOf(counts') \ {ip} : ValOf(counts', x) = ValOf(counts, x)
      /\ CountOf(ip)' = IF CountOf(ip) = 0 THEN 0 ELSE CountOf(ip) - 1
  <2>1. CASE ip \notin KeysOf(counts)
    BY <1>1, <1>2, <2>1 DEF CountOf, InCache
  <2>2. CASE ip \in KeysOf(counts) /\ CountOf(ip) = 1
    <3>1. counts' = Without(counts, {ip})
      BY <1>1, <2>2 DEF Decremented
    <3>2. counts' \in Caches(Ips, 1..MaxPerIp, CountCap) /\ Removed(counts, {ip}, counts')
      BY <1>2, <3>1, WithoutFacts
    <3>3. /\ KeysOf(counts') = KeysOf(counts) \ {ip}
          /\ \A x \in KeysOf(counts') : ValOf(counts', x) = ValOf(counts, x)
      BY <3>2 DEF Removed
    <3> QED
      BY <2>2, <3>2, <3>3 DEF CountOf, InCache
  <2>3. CASE ip \in KeysOf(counts) /\ CountOf(ip) # 1
    <3> DEFINE v == CountOf(ip) - 1
    <3>1. counts' = Put(counts, ip, v, CountCap)
      BY <1>1, <2>3 DEF Decremented
    <3>2. v \in 1..MaxPerIp /\ v = CountOf(ip) - 1
      BY <1>2, <1>3, <2>3, CountFacts
    <3> HIDE DEF v
    <3>3. /\ counts' \in Caches(Ips, 1..MaxPerIp, CountCap) /\ Stored(counts, ip, v, counts')
          /\ KeysOf(counts) = KeysOf(counts')
      BY <1>2, <2>3, <3>1, <3>2, PutFacts
    <3>4. /\ ip \in KeysOf(counts') /\ ValOf(counts', ip) = v
          /\ KeysOf(counts') \subseteq KeysOf(counts) \cup {ip}
          /\ \A q \in KeysOf(counts') \ {ip} : ValOf(counts', q) = ValOf(counts, q)
      BY <3>3 DEF Stored
    <3>5. CountOf(ip)' = v /\ CountOf(ip) # 0
      BY <1>2, <2>3, <3>4, CountFacts DEF CountOf, InCache
    <3> QED
      BY <2>3, <3>2, <3>3, <3>4, <3>5
  <2> QED
    BY <2>1, <2>2, <2>3
<1>5. CountTypes'
  BY <1>1, <1>2, <1>4 DEF CountTypes
<1>6. held'[ip] = held[ip] - 1 /\ held[ip] \in Nat /\ \A x \in Ips \ {ip} : held'[x] = held[x]
  BY <1>1, <1>2
<1>7. CountOf(ip)' <= held'[ip] /\ (ip \in exact' => CountOf(ip)' = held'[ip])
  BY <1>1, <1>3, <1>4, <1>6
<1> QED
  BY <1>1, <1>4, <1>5, <1>6, <1>7, CountMoves

-----------------------------------------------------------------------------
(* The token buckets *)

\* What a bucket holds is what its requests have left: the least, over the
\* windows that start at a request and end at last, of the size of the bucket
\* and the refill less the price of the requests in the window.
Ledger(tokens, last, g) ==
  /\ \A i \in 1..Len(g) :
       /\ g[i] <= last
       /\ tokens + Cost * (Len(g) - i + 1) <= Burst + Rate * (last - g[i])
  /\ \/ tokens = Burst
     \/ \E i \in 1..Len(g) :
          tokens + Cost * (Len(g) - i + 1) = Burst + Rate * (last - g[i])

BucketTypes ==
  /\ now \in Times
  /\ buckets \in Caches(Ips, Bucket, BucketCap)
  /\ granted \in [Ips -> Seq(Times)]

BucketInv ==
  /\ BucketTypes
  /\ \A ip \in KeysOf(buckets) :
       LET b == ValOf(buckets, ip)
       IN  b.last <= now /\ Ledger(b.tokens, b.last, granted[ip])

\* The numbers of the specification.
LEMMA Numbers ==
  /\ Rate \in Nat /\ Cost \in Nat \ {0} /\ Burst \in Nat /\ Cost <= Burst /\ MaxTime \in Nat
  /\ BucketCap \in Nat \ {0} /\ \A t \in Times : t \in Nat
BY StoresAssumption DEF Times

\* Refill over two spells is refill over both.
LEMMA Distribute ==
  ASSUME NEW a \in Nat, NEW x \in Int, NEW y \in Int
  PROVE  a * (x + y) = a * x + a * y /\ a * x \in Int /\ (x >= 0 => a * x >= 0)
OBVIOUS

\* A request more in the window costs Cost more.
LEMMA OneMore ==
  ASSUME NEW n \in Int, NEW i \in Int
  PROVE  /\ Cost * (n - i + 2) = Cost * (n - i + 1) + Cost
         /\ Cost * (n + 1 - i + 1) = Cost * (n - i + 1) + Cost
         /\ Cost * (n - i + 1) \in Int
<1>1. Cost \in Nat /\ n - i + 1 \in Int /\ 1 \in Int
  BY Numbers
<1>2. Cost * ((n - i + 1) + 1) = Cost * (n - i + 1) + Cost * 1 /\ Cost * (n - i + 1) \in Int
  BY <1>1, Distribute
<1>3. (n - i + 1) + 1 = n - i + 2 /\ n + 1 - i + 1 = n - i + 2 /\ Cost * 1 = Cost
  BY <1>1
<1> QED
  BY <1>2, <1>3

\* The smaller of two numbers.
LEMMA MinOfTwo ==
  ASSUME NEW a \in Int, NEW b \in Int
  PROVE  Min({a, b}) = IF a <= b THEN a ELSE b
BY DEF Min

\* Refilling, up to the size of the bucket, keeps the ledger.
LEMMA RefillKeeps ==
  ASSUME NEW tokens \in 0..Burst, NEW last \in Nat, NEW t \in Nat, last <= t,
         NEW g \in Seq(Times), Ledger(tokens, last, g),
         NEW x, x = Min({Burst, tokens + Rate * (t - last)})
  PROVE  x \in 0..Burst /\ Ledger(x, t, g)
<1> DEFINE d == Rate * (t - last)
<1>1. d \in Int /\ d >= 0 /\ Burst \in Nat /\ Rate \in Nat
  BY Numbers, Distribute
<1> HIDE DEF d
<1>2. x = IF Burst <= tokens + d THEN Burst ELSE tokens + d
  BY <1>1, MinOfTwo DEF d
<1>3. x \in 0..Burst /\ x <= tokens + d
  BY <1>1, <1>2
<1>4. ASSUME NEW i \in 1..Len(g)
      PROVE  /\ g[i] \in Nat /\ g[i] <= t /\ Cost * (Len(g) - i + 1) \in Int
             /\ Rate * (t - g[i]) = d + Rate * (last - g[i]) /\ Rate * (last - g[i]) \in Int
             /\ tokens + Cost * (Len(g) - i + 1) <= Burst + Rate * (last - g[i])
  <2>1. g[i] \in Nat /\ g[i] <= last
    BY Numbers DEF Ledger
  <2>2. Len(g) \in Int /\ i \in Int
    OBVIOUS
  <2>3. /\ Rate * ((t - last) + (last - g[i])) = Rate * (t - last) + Rate * (last - g[i])
        /\ Rate * (last - g[i]) \in Int
    BY <1>1, <2>1, Distribute
  <2>4. (t - last) + (last - g[i]) = t - g[i]
    BY <2>1
  <2> QED
    BY <2>1, <2>2, <2>3, <2>4, OneMore DEF Ledger, d
<1>5. ASSUME NEW i \in 1..Len(g)
      PROVE  g[i] <= t /\ x + Cost * (Len(g) - i + 1) <= Burst + Rate * (t - g[i])
  <2> DEFINE p == Cost * (Len(g) - i + 1)
             q == Rate * (last - g[i])
             z == Rate * (t - g[i])
  <2>1. p \in Int /\ q \in Int /\ z = d + q /\ tokens + p <= Burst + q /\ g[i] <= t
    BY <1>4
  <2> HIDE DEF p, q, z
  <2>2. x + p <= Burst + z
    BY <1>1, <1>3, <2>1
  <2> QED
    BY <2>1, <2>2 DEF p, z
<1>6. x = Burst \/ \E i \in 1..Len(g) : x + Cost * (Len(g) - i + 1) = Burst + Rate * (t - g[i])
  <2>1. CASE tokens = Burst \/ x = Burst
    BY <1>1, <1>2, <2>1
  <2>2. CASE ~(tokens = Burst \/ x = Burst)
    <3>1. PICK i \in 1..Len(g) : tokens + Cost * (Len(g) - i + 1) = Burst + Rate * (last - g[i])
      BY <2>2 DEF Ledger
    <3> DEFINE p == Cost * (Len(g) - i + 1)
               q == Rate * (last - g[i])
               z == Rate * (t - g[i])
    <3>2. p \in Int /\ q \in Int /\ z = d + q /\ tokens + p = Burst + q
      BY <1>4, <3>1
    <3> HIDE DEF p, q, z
    <3>3. x + p = Burst + z
      BY <1>1, <1>2, <2>2, <3>2
    <3> QED
      BY <3>3 DEF p, z
  <2> QED
    BY <2>1, <2>2
<1> QED
  BY <1>3, <1>5, <1>6 DEF Ledger

\* A request that is paid for is entered in the ledger.
LEMMA TakeKeeps ==
  ASSUME NEW x \in 0..Burst, NEW t \in Times, NEW g \in Seq(Times), Ledger(x, t, g), x >= Cost
  PROVE  g \o <<t>> \in Seq(Times) /\ Ledger(x - Cost, t, g \o <<t>>)
<1> DEFINE h == g \o <<t>>
           n == Len(g)
           l == n + 1
<1>1. n \in Nat /\ t \in Nat /\ Cost \in Nat /\ Burst \in Nat /\ Rate \in Nat
  BY Numbers
<1>2. /\ h \in Seq(Times) /\ Len(h) = l /\ h[n + 1] = t
      /\ \A i \in 1..n : h[i] = g[i] /\ g[i] \in Nat
  BY Numbers
<1> HIDE DEF h
<1>3. ASSUME NEW i \in 1..n
      PROVE  /\ g[i] <= t /\ h[i] = g[i]
             /\ (x - Cost) + Cost * (n + 1 - i + 1) = x + Cost * (n - i + 1)
             /\ x + Cost * (n - i + 1) <= Burst + Rate * (t - g[i])
  <2> DEFINE p == Cost * (n - i + 1)
             q == Cost * (n + 1 - i + 1)
  <2>0. n \in Int /\ i \in Int
    BY <1>1
  <2>1. q = p + Cost /\ p \in Int
    BY <2>0, OneMore
  <2>2. g[i] <= t /\ x + p <= Burst + Rate * (t - g[i])
    BY DEF Ledger
  <2> HIDE DEF p, q
  <2>3. (x - Cost) + q = x + p
    BY <1>1, <2>1
  <2> QED
    BY <1>2, <2>2, <2>3 DEF p, q
<1>4. (x - Cost) + Cost * (n + 1 - (n + 1) + 1) = x /\ Rate * (t - t) = 0
  <2>1. n + 1 - (n + 1) + 1 = 1 /\ t - t = 0
    BY <1>1
  <2> QED
    BY <1>1, <2>1
<1>5. ASSUME NEW i \in 1..l
      PROVE  h[i] <= t /\ (x - Cost) + Cost * (l - i + 1) <= Burst + Rate * (t - h[i])
  <2>1. CASE i = n + 1
    BY <1>1, <1>2, <1>4, <2>1
  <2>2. CASE i # n + 1
    <3>1. i \in 1..n
      BY <1>1, <2>2
    <3> QED
      BY <1>3, <3>1
  <2> QED
    BY <2>1, <2>2
<1>6. \E i \in 1..l : (x - Cost) + Cost * (l - i + 1) = Burst + Rate * (t - h[i])
  <2>1. CASE x = Burst
    <3>1. n + 1 \in 1..(n + 1)
      BY <1>1
    <3>2. (x - Cost) + Cost * (n + 1 - (n + 1) + 1) = Burst + Rate * (t - h[n + 1])
      BY <1>1, <1>2, <1>4, <2>1
    <3> QED
      BY <3>1, <3>2
  <2>2. CASE x # Burst
    <3>1. PICK i \in 1..n : x + Cost * (n - i + 1) = Burst + Rate * (t - g[i])
      BY <2>2 DEF Ledger
    <3>2. i \in 1..(n + 1)
      BY <1>1
    <3>3. (x - Cost) + Cost * (n + 1 - i + 1) = Burst + Rate * (t - h[i])
      BY <1>3, <3>1
    <3> QED
      BY <3>2, <3>3
  <2> QED
    BY <2>1, <2>2
<1> HIDE DEF n, l
<1>7. Ledger(x - Cost, t, h)
  BY <1>2, <1>5, <1>6, Zenon DEF Ledger
<1> QED
  BY <1>2, <1>7 DEF h

\* A new bucket is full and nothing was taken from it.
LEMMA NewLedger ==
  ASSUME NEW t \in Times
  PROVE  << >> \in Seq(Times) /\ Ledger(Burst, t, << >>)
BY DEF Ledger

\* AllowN: the bucket of one address moves on, another's may be evicted.
LEMMA AllowStep ==
  ASSUME BucketInv, NEW ip \in Ips, Allow(ip)
  PROVE  BucketInv'
<1> DEFINE b == IF InCache(buckets, ip) THEN ValOf(buckets, ip) ELSE NewBucket
           g == IF InCache(buckets, ip) THEN granted[ip] ELSE << >>
           x == Refilled(b)
           v == [tokens |-> After(x), last |-> now]
           h == g \o (IF x >= Cost THEN <<now>> ELSE << >>)
           new == Put(buckets, ip, v, BucketCap)
<1>1. /\ buckets' = new /\ now' = now
      /\ granted' = [granted EXCEPT ![ip] = h]
  BY DEF Allow, BucketInv, BucketTypes
<1>2. /\ BucketTypes /\ now \in Times /\ now \in Nat /\ granted \in [Ips -> Seq(Times)]
      /\ buckets \in Caches(Ips, Bucket, BucketCap) /\ BucketCap \in Nat /\ BucketCap \in Nat \ {0}
  BY Numbers DEF BucketInv, BucketTypes
<1>3. b.tokens \in 0..Burst /\ b.last \in Nat /\ b.last <= now /\ g \in Seq(Times)
      /\ Ledger(b.tokens, b.last, g)
  <2>1. CASE InCache(buckets, ip)
    <3>1. ip \in KeysOf(buckets) /\ b = ValOf(buckets, ip) /\ g = granted[ip]
      BY <2>1 DEF InCache
    <3>2. b \in Bucket
      BY <1>2, <3>1, ValType
    <3>3. b.last <= now /\ Ledger(b.tokens, b.last, g)
      BY <3>1 DEF BucketInv
    <3> HIDE DEF b, g
    <3>4. b.tokens \in 0..Burst /\ b.last \in Nat
      BY <3>2, Numbers DEF Bucket
    <3> QED
      BY <1>2, <3>1, <3>3, <3>4
  <2>2. CASE ~InCache(buckets, ip)
    <3>1. b.tokens = Burst /\ b.last = now /\ g = << >>
      BY <2>2 DEF NewBucket
    <3> HIDE DEF b, g
    <3> QED
      BY <1>2, <3>1, NewLedger, Numbers
  <2> QED
    BY <2>1, <2>2
<1>4. x = Min({Burst, b.tokens + Rate * (now - b.last)})
  BY DEF Refilled
<1> HIDE DEF b, g, x
<1>5. x \in 0..Burst /\ Ledger(x, now, g)
  BY <1>2, <1>3, <1>4, RefillKeeps
<1>6. After(x) \in 0..Burst /\ h \in Seq(Times) /\ Ledger(After(x), now, h)
  <2>1. CASE x >= Cost
    <3>1. After(x) = x - Cost /\ h = g \o <<now>>
      BY <2>1 DEF After
    <3>2. x - Cost \in 0..Burst
      BY <1>5, <2>1, Numbers
    <3> QED
      BY <1>2, <1>3, <1>5, <2>1, <3>1, <3>2, TakeKeeps
  <2>2. CASE ~(x >= Cost)
    <3>1. After(x) = x /\ h = g \o << >>
      BY <2>2 DEF After
    <3>2. g \o << >> = g
      BY <1>3, ConcatEmptySeq
    <3> QED
      BY <1>3, <1>5, <3>1, <3>2
  <2> QED
    BY <2>1, <2>2
<1>7. v \in Bucket /\ v.tokens = After(x) /\ v.last = now
  BY <1>2, <1>6 DEF Bucket
<1> HIDE DEF v, h
<1>8. new \in Caches(Ips, Bucket, BucketCap) /\ Stored(buckets, ip, v, new)
  BY <1>2, <1>7, PutFacts
<1> HIDE DEF new
<1>9. /\ ValOf(new, ip) = v /\ KeysOf(new) \subseteq KeysOf(buckets) \cup {ip}
      /\ \A q \in KeysOf(new) \ {ip} : ValOf(new, q) = ValOf(buckets, q)
  BY <1>8 DEF Stored
<1>10. BucketTypes'
  BY <1>1, <1>2, <1>6, <1>8 DEF BucketTypes
<1>11. ASSUME NEW q \in KeysOf(new)
       PROVE  /\ ValOf(new, q).last <= now
              /\ Ledger(ValOf(new, q).tokens, ValOf(new, q).last, granted'[q])
  <2>1. CASE q = ip
    <3>1. granted'[ip] = h
      BY <1>1, <1>2
    <3> QED
      BY <1>2, <1>6, <1>7, <1>9, <2>1, <3>1
  <2>2. CASE q # ip
    <3>1. q \in KeysOf(buckets) /\ ValOf(new, q) = ValOf(buckets, q)
      BY <1>9, <2>2
    <3>2. q \in Ips
      BY <1>2, <3>1, ValType
    <3>3. granted'[q] = granted[q]
      BY <1>1, <1>2, <2>2, <3>2
    <3> QED
      BY <3>1, <3>3 DEF BucketInv
  <2> QED
    BY <2>1, <2>2
<1> QED
  BY <1>1, <1>10, <1>11 DEF BucketInv

\* The bucket's answer follows from the ledger.
LEMMA LedgerAnswers ==
  ASSUME BucketInv
  PROVE  LimiterExact
<1> SUFFICES ASSUME NEW ip \in KeysOf(buckets)
             PROVE  Refilled(ValOf(buckets, ip)) >= Cost <=>
                      \A i \in DOMAIN granted[ip] :
                        Cost * (Len(granted[ip]) - i + 2) <= Burst + Rate * (now - granted[ip][i])
  BY DEF LimiterExact
<1> DEFINE b == ValOf(buckets, ip)
           g == granted[ip]
           x == Refilled(b)
<1>1. /\ now \in Nat /\ b \in Bucket /\ g \in Seq(Times) /\ b.last <= now
      /\ Ledger(b.tokens, b.last, g)
  <2>1. /\ now \in Times /\ granted \in [Ips -> Seq(Times)]
        /\ buckets \in Caches(Ips, Bucket, BucketCap) /\ BucketCap \in Nat
    BY Numbers DEF BucketInv, BucketTypes
  <2>2. ip \in Ips /\ b \in Bucket
    BY <2>1, ValType
  <2> QED
    BY <2>1, <2>2, Numbers DEF BucketInv
<1>2. x = Min({Burst, b.tokens + Rate * (now - b.last)})
  BY DEF Refilled
<1> HIDE DEF b, g, x
<1>3. b.tokens \in 0..Burst /\ b.last \in Nat
  BY <1>1, Numbers DEF Bucket
<1>4. x \in 0..Burst /\ Ledger(x, now, g)
  BY <1>1, <1>2, <1>3, RefillKeeps
<1>5. Cost \in Nat /\ Burst \in Nat /\ Rate \in Nat /\ Cost <= Burst
  BY Numbers
<1>6. ASSUME NEW i \in 1..Len(g)
      PROVE  /\ Cost * (Len(g) - i + 2) = Cost * (Len(g) - i + 1) + Cost
             /\ Cost * (Len(g) - i + 1) \in Int /\ Rate * (now - g[i]) \in Int
             /\ x + Cost * (Len(g) - i + 1) <= Burst + Rate * (now - g[i])
  <2>1. Len(g) \in Int /\ i \in Int /\ g[i] \in Nat
    BY <1>1, Numbers
  <2> QED
    BY <1>1, <1>4, <1>5, <2>1, OneMore, Distribute DEF Ledger
<1>7. ASSUME x >= Cost, NEW i \in 1..Len(g)
      PROVE  Cost * (Len(g) - i + 2) <= Burst + Rate * (now - g[i])
  <2> DEFINE p == Cost * (Len(g) - i + 1)
             q == Cost * (Len(g) - i + 2)
             z == Rate * (now - g[i])
  <2>1. q = p + Cost /\ p \in Int /\ z \in Int /\ x + p <= Burst + z
    BY <1>6, <1>7
  <2> HIDE DEF p, q, z
  <2>2. q <= Burst + z
    BY <1>4, <1>5, <1>7, <2>1
  <2> QED
    BY <2>2 DEF q, z
<1>8. ASSUME \A i \in 1..Len(g) : Cost * (Len(g) - i + 2) <= Burst + Rate * (now - g[i])
      PROVE  x >= Cost
  <2>1. CASE x = Burst
    BY <1>5, <2>1
  <2>2. CASE x # Burst
    <3>1. PICK i \in 1..Len(g) : x + Cost * (Len(g) - i + 1) = Burst + Rate * (now - g[i])
      BY <1>4, <2>2 DEF Ledger
    <3> DEFINE p == Cost * (Len(g) - i + 1)
               q == Cost * (Len(g) - i + 2)
               z == Rate * (now - g[i])
    <3>2. q = p + Cost /\ p \in Int /\ z \in Int /\ x + p = Burst + z /\ q <= Burst + z
      BY <1>6, <1>8, <3>1
    <3> HIDE DEF p, q, z
    <3> QED
      BY <1>4, <1>5, <3>2
  <2> QED
    BY <2>1, <2>2
<1>9. DOMAIN g = 1..Len(g)
  BY <1>1
<1> QED
  BY <1>7, <1>8, <1>9 DEF b, g, x

-----------------------------------------------------------------------------
(* The tombstones *)

TombTypes ==
  /\ now \in Times
  /\ tomb \in Caches(Rooms, Times, TombCap)
  /\ closedAt \in [Rooms -> Times \cup {-1}]
  /\ since \in [Rooms -> SUBSET Rooms]

\* The rooms in front of r in the list were closed or found since r was; a room
\* that is not in the list has expired or was overtaken by a full store.
Remembered(r) ==
  /\ IsFiniteSet(since[r])
  /\ r \in KeysOf(tomb) => ValOf(tomb, r) = closedAt[r] /\ Before(tomb, r) \subseteq since[r]
  /\ closedAt[r] >= 0 /\ now - closedAt[r] <= TombTtl /\ Cardinality(since[r]) < TombCap
       => r \in KeysOf(tomb)

TombInv == TombTypes /\ \A r \in Rooms : Remembered(r)

\* r is closed or found.
LEMMA TombUsed ==
  ASSUME TombInv, TombTypes', NEW r \in Rooms, NEW v \in Times,
         Stored(tomb, r, v, tomb'), Use(r), now' = now,
         \A q \in KeysOf(tomb) \ KeysOf(tomb') :
           Len(tomb') = TombCap /\ KeysOf(tomb') \subseteq Before(tomb, q) \cup {r},
         closedAt'[r] = v, \A q \in Rooms \ {r} : closedAt'[q] = closedAt[q]
  PROVE  TombInv'
<1> SUFFICES ASSUME NEW q \in Rooms PROVE Remembered(q)'
  BY DEF TombInv
<1>1. /\ r \in KeysOf(tomb') /\ ValOf(tomb', r) = v /\ Before(tomb', r) = {}
      /\ KeysOf(tomb') \subseteq KeysOf(tomb) \cup {r}
      /\ \A x \in KeysOf(tomb') \ {r} : /\ ValOf(tomb', x) = ValOf(tomb, x)
                                        /\ Before(tomb', x) \subseteq Before(tomb, x) \cup {r}
  BY DEF Stored
<1>2. since'[r] = {} /\ \A x \in Rooms \ {r} : since'[x] = since[x] \cup {r}
  BY DEF Use
<1>3. CASE q = r
  BY <1>1, <1>2, <1>3, FS_EmptySet DEF Remembered
<1>4. CASE q # r
  <2>1. Remembered(q) /\ since'[q] = since[q] \cup {r} /\ closedAt'[q] = closedAt[q]
    BY <1>2, <1>4 DEF TombInv
  <2>2. IsFiniteSet(since[q]) /\ IsFiniteSet(since'[q])
    BY <2>1, FS_AddElement DEF Remembered
  <2>3. Cardinality(since[q]) <= Cardinality(since'[q])
    <3>1. since[q] \in SUBSET since'[q]
      BY <2>1
    <3> QED
      BY <2>2, <3>1, FS_Subset
  <2>4. q \in KeysOf(tomb') => ValOf(tomb', q) = closedAt'[q] /\ Before(tomb', q) \subseteq since'[q]
    BY <1>1, <1>4, <2>1 DEF Remembered
  <2>5. ASSUME closedAt'[q] >= 0, now' - closedAt'[q] <= TombTtl, Cardinality(since'[q]) < TombCap
        PROVE  q \in KeysOf(tomb')
    <3>1. Cardinality(since[q]) \in Nat /\ Cardinality(since'[q]) \in Nat /\ TombCap \in Nat
      BY <2>2, FS_CardinalityType, StoresAssumption
    <3>2. Cardinality(since[q]) < TombCap
      BY <2>3, <2>5, <3>1
    <3>3. q \in KeysOf(tomb)
      BY <2>1, <2>5, <3>2 DEF Remembered
    <3>4. ASSUME q \notin KeysOf(tomb') PROVE FALSE
      <4>1. Len(tomb') = TombCap /\ KeysOf(tomb') \subseteq Before(tomb, q) \cup {r}
        BY <3>3, <3>4
      <4>2. KeysOf(tomb') \subseteq since'[q]
        BY <2>1, <3>3, <4>1 DEF Remembered
      <4>3. tomb' \in Caches(Rooms, Times, TombCap)
        BY DEF TombTypes
      <4>4. Len(tomb') <= Cardinality(since'[q])
        BY <2>2, <3>1, <4>2, <4>3, KeyCount
      <4> QED
        BY <2>5, <3>1, <4>1, <4>4
    <3> QED
      BY <3>4
  <2> QED
    BY <2>2, <2>4, <2>5 DEF Remembered
<1> QED
  BY <1>3, <1>4

\* Expired entries are dropped.
LEMMA TombDrops ==
  ASSUME TombInv, TombTypes', NEW ks, Removed(tomb, ks, tomb'),
         \A k \in KeysOf(tomb) : k \in ks => Expired(ValOf(tomb, k)),
         UNCHANGED <<now, closedAt, since>>
  PROVE  TombInv'
<1> SUFFICES ASSUME NEW q \in Rooms PROVE Remembered(q)'
  BY DEF TombInv
<1>1. /\ KeysOf(tomb') = KeysOf(tomb) \ ks
      /\ \A k \in KeysOf(tomb') : /\ ValOf(tomb', k) = ValOf(tomb, k)
                                  /\ Before(tomb', k) \subseteq Before(tomb, k)
  BY DEF Removed
<1>2. Remembered(q)
  BY DEF TombInv
<1>3. q \in KeysOf(tomb') => ValOf(tomb', q) = closedAt'[q] /\ Before(tomb', q) \subseteq since'[q]
  BY <1>1, <1>2 DEF Remembered
<1>4. ASSUME q \in KeysOf(tomb), q \notin KeysOf(tomb') PROVE ~(now - closedAt[q] <= TombTtl)
  <2>1. now - closedAt[q] > TombTtl
    BY <1>1, <1>2, <1>4 DEF Remembered, Expired
  <2>2. now \in Int /\ closedAt[q] \in Int /\ TombTtl \in Int
    BY StoresAssumption DEF TombInv, TombTypes, Times
  <2> QED
    BY <2>1, <2>2
<1>5. closedAt'[q] >= 0 /\ now' - closedAt'[q] <= TombTtl /\ Cardinality(since'[q]) < TombCap
        => q \in KeysOf(tomb')
  BY <1>2, <1>4 DEF Remembered
<1> QED
  BY <1>2, <1>3, <1>5 DEF Remembered

\* Add puts the room in front, and may push out the last one.
LEMMA AddStep ==
  ASSUME TombInv, NEW r \in Rooms, Add(r)
  PROVE  TombInv'
<1>1. /\ tomb' = Put(tomb, r, now, TombCap) /\ now' = now /\ Use(r)
      /\ closedAt' = [closedAt EXCEPT ![r] = now]
  BY DEF Add
<1>2. /\ now \in Times /\ tomb \in Caches(Rooms, Times, TombCap) /\ TombCap \in Nat \ {0}
      /\ closedAt \in [Rooms -> Times \cup {-1}] /\ since \in [Rooms -> SUBSET Rooms]
  BY StoresAssumption DEF TombInv, TombTypes
<1>3. /\ tomb' \in Caches(Rooms, Times, TombCap) /\ Stored(tomb, r, now, tomb')
      /\ \A q \in KeysOf(tomb) \ KeysOf(tomb') :
           Len(tomb') = TombCap /\ KeysOf(tomb') \subseteq Before(tomb, q) \cup {r}
  BY <1>1, <1>2, PutFacts
<1>4. since' \in [Rooms -> SUBSET Rooms]
  BY <1>1, <1>2 DEF Use
<1>5. closedAt' \in [Rooms -> Times \cup {-1}] /\ closedAt'[r] = now
      /\ \A q \in Rooms \ {r} : closedAt'[q] = closedAt[q]
  BY <1>1, <1>2
<1>6. TombTypes'
  BY <1>1, <1>2, <1>3, <1>4, <1>5 DEF TombTypes
<1> QED
  BY <1>1, <1>2, <1>3, <1>5, <1>6, TombUsed

\* Has finds the room and moves it, drops it when it expired, or finds nothing.
LEMMA HasStep ==
  ASSUME TombInv, NEW r \in Rooms, Has(r)
  PROVE  TombInv'
<1>1. /\ UNCHANGED <<now, closedAt>>
      /\ tomb' = IF InCache(tomb, r) /\ ~HasTomb(r) THEN Without(tomb, {r}) ELSE Touched(tomb, r)
      /\ IF HasTomb(r) THEN Use(r) ELSE UNCHANGED since
  BY DEF Has
<1>2. /\ now \in Times /\ tomb \in Caches(Rooms, Times, TombCap) /\ TombCap \in Nat
      /\ closedAt \in [Rooms -> Times \cup {-1}] /\ since \in [Rooms -> SUBSET Rooms]
  BY StoresAssumption DEF TombInv, TombTypes
<1>3. CASE HasTomb(r)
  <2>1. r \in KeysOf(tomb) /\ tomb' = Touched(tomb, r) /\ Use(r)
    BY <1>1, <1>3 DEF HasTomb, InCache
  <2>2. /\ tomb' \in Caches(Rooms, Times, TombCap) /\ KeysOf(tomb') = KeysOf(tomb)
        /\ Stored(tomb, r, ValOf(tomb, r), tomb')
    BY <1>2, <2>1, TouchedFacts
  <2>3. ValOf(tomb, r) \in Times /\ ValOf(tomb, r) = closedAt'[r]
    <3>1. Remembered(r)
      BY DEF TombInv
    <3> QED
      BY <1>1, <1>2, <2>1, <3>1, ValType DEF Remembered
  <2>4. since' \in [Rooms -> SUBSET Rooms]
    BY <1>2, <2>1 DEF Use
  <2>5. TombTypes'
    BY <1>1, <1>2, <2>2, <2>4 DEF TombTypes
  <2> QED
    BY <1>1, <2>1, <2>2, <2>3, <2>5, TombUsed
<1>4. CASE ~HasTomb(r) /\ InCache(tomb, r)
  <2>1. tomb' = Without(tomb, {r}) /\ UNCHANGED since /\ Expired(ValOf(tomb, r))
    BY <1>1, <1>4 DEF HasTomb
  <2>2. tomb' \in Caches(Rooms, Times, TombCap) /\ Removed(tomb, {r}, tomb')
    BY <1>2, <2>1, WithoutFacts
  <2>3. TombTypes'
    BY <1>1, <1>2, <2>1, <2>2 DEF TombTypes
  <2> QED
    BY <1>1, <2>1, <2>2, <2>3, TombDrops
<1>5. CASE ~InCache(tomb, r)
  <2>1. UNCHANGED <<now, closedAt, since, tomb>>
    BY <1>1, <1>5 DEF HasTomb, Touched
  <2> QED
    BY <2>1 DEF TombInv, TombTypes, Remembered
<1> QED
  BY <1>3, <1>4, <1>5

\* Sweep drops what has expired.
LEMMA SweepStep ==
  ASSUME TombInv, Sweep
  PROVE  TombInv'
<1> DEFINE ks == {r \in KeysOf(tomb) : Expired(ValOf(tomb, r))}
<1>1. tomb' = Without(tomb, ks) /\ UNCHANGED <<now, closedAt, since>>
  BY DEF Sweep
<1>2. tomb \in Caches(Rooms, Times, TombCap) /\ TombCap \in Nat
  BY StoresAssumption DEF TombInv, TombTypes
<1>3. \A k \in KeysOf(tomb) : k \in ks => Expired(ValOf(tomb, k))
  OBVIOUS
<1> HIDE DEF ks
<1>4. tomb' \in Caches(Rooms, Times, TombCap) /\ Removed(tomb, ks, tomb')
  BY <1>1, <1>2, WithoutFacts
<1>5. TombTypes'
  BY <1>1, <1>4 DEF TombInv, TombTypes
<1> QED
  BY <1>1, <1>3, <1>4, <1>5, TombDrops

\* What Has answers follows from what is remembered.
LEMMA TombAnswers == TombInv => TombstoneKept
<1> SUFFICES ASSUME TombInv, NEW r \in Rooms
             PROVE  /\ HasTomb(r) => closedAt[r] >= 0 /\ now - closedAt[r] <= TombTtl
                    /\ closedAt[r] >= 0 /\ now - closedAt[r] <= TombTtl
                       /\ Cardinality(since[r]) < TombCap => HasTomb(r)
  BY DEF TombstoneKept
<1>1. Remembered(r) /\ now \in Int /\ closedAt[r] \in Int /\ TombTtl \in Int
  BY StoresAssumption DEF TombInv, TombTypes, Times
<1>2. r \in KeysOf(tomb) => ValOf(tomb, r) = closedAt[r] /\ closedAt[r] >= 0
  <2>1. tomb \in Caches(Rooms, Times, TombCap) /\ TombCap \in Nat /\ \A t \in Times : t >= 0
    BY StoresAssumption DEF TombInv, TombTypes, Times
  <2> QED
    BY <1>1, <2>1, ValType DEF Remembered
<1> QED
  BY <1>1, <1>2 DEF HasTomb, InCache, Expired, Remembered

-----------------------------------------------------------------------------
(* The theorems *)

StoresInv == calls \in 0..MaxCalls /\ CountInv /\ BucketInv /\ TombInv

\* Empty stores.
LEMMA StoresInit == Init => StoresInv
<1> SUFFICES ASSUME Init PROVE StoresInv
  OBVIOUS
<1>1. /\ 0 \in Times /\ 0 \in 0..MaxCalls
      /\ TombCap \in Nat /\ BucketCap \in Nat /\ CountCap \in Nat /\ MaxPerIp \in Nat
  BY StoresAssumption DEF Times
<1>2. CountInv
  <2>1. counts \in Caches(Ips, 1..MaxPerIp, CountCap) /\ KeysOf(counts) = {}
    BY <1>1, NoEntries DEF Init
  <2>2. CountTypes
    BY <2>1 DEF Init, CountTypes
  <2>3. \A ip \in Ips : CountOf(ip) = 0 /\ held[ip] = 0
    BY <2>1 DEF Init, CountOf, InCache
  <2> QED
    BY <1>1, <2>2, <2>3 DEF CountInv, ChargeExact
<1>3. BucketInv
  <2>1. buckets \in Caches(Ips, Bucket, BucketCap) /\ KeysOf(buckets) = {}
    BY <1>1, NoEntries DEF Init
  <2>2. granted \in [Ips -> Seq(Times)]
    BY DEF Init
  <2> QED
    BY <1>1, <2>1, <2>2 DEF Init, BucketInv, BucketTypes
<1>4. TombInv
  <2>1. tomb \in Caches(Rooms, Times, TombCap) /\ KeysOf(tomb) = {}
    BY <1>1, NoEntries DEF Init
  <2>2. \A r \in Rooms : since[r] = {} /\ closedAt[r] = -1
    BY DEF Init
  <2>3. TombTypes
    BY <1>1, <2>1 DEF Init, TombTypes
  <2> QED
    BY <2>1, <2>2, <2>3, FS_EmptySet DEF TombInv, Remembered
<1> QED
  BY <1>1, <1>2, <1>3, <1>4 DEF Init, StoresInv

\* A store that a step does not call stays as it is.
LEMMA CountIdle == CountInv /\ UNCHANGED countVars => CountInv'
BY DEF CountInv, CountTypes, ChargeExact, CountOf, countVars

\* The clock may move on under the buckets ...
LEMMA BucketIdle ==
  ASSUME BucketInv, UNCHANGED bucketVars, now' \in Times, now <= now'
  PROVE  BucketInv'
<1>1. UNCHANGED <<buckets, granted>>
  BY DEF bucketVars
<1>2. BucketTypes'
  BY <1>1 DEF BucketInv, BucketTypes
<1>3. ASSUME NEW ip \in KeysOf(buckets)
      PROVE  /\ ValOf(buckets, ip).last <= now'
             /\ Ledger(ValOf(buckets, ip).tokens, ValOf(buckets, ip).last, granted[ip])
  <2>1. ValOf(buckets, ip) \in Bucket /\ now \in Times
    BY ValType, Numbers DEF BucketInv, BucketTypes
  <2>2. ValOf(buckets, ip).last \in Nat /\ now \in Nat /\ now' \in Nat
    BY <2>1, Numbers DEF Bucket
  <2> QED
    BY <2>2 DEF BucketInv
<1> QED
  BY <1>1, <1>2, <1>3 DEF BucketInv

\* ... and under the tombstones.
LEMMA TombIdle ==
  ASSUME TombInv, UNCHANGED tombVars, now' \in Times, now <= now'
  PROVE  TombInv'
<1>1. UNCHANGED <<tomb, closedAt, since>>
  BY DEF tombVars
<1>2. TombTypes'
  BY <1>1 DEF TombInv, TombTypes
<1>3. ASSUME NEW r \in Rooms PROVE Remembered(r)'
  <2>1. now \in Int /\ now' \in Int /\ closedAt[r] \in Int /\ TombTtl \in Int
    BY StoresAssumption DEF TombInv, TombTypes, Times
  <2>2. now' - closedAt[r] <= TombTtl => now - closedAt[r] <= TombTtl
    BY <2>1
  <2> QED
    BY <1>1, <2>2 DEF TombInv, Remembered
<1> QED
  BY <1>2, <1>3 DEF TombInv

\* Every call, and the clock, keeps the three stores in order.
LEMMA StoresStep == StoresInv /\ [Next]_vars => StoresInv'
<1> SUFFICES ASSUME StoresInv, [Next]_vars PROVE StoresInv'
  OBVIOUS
<1>0. CountInv /\ BucketInv /\ TombInv /\ calls \in 0..MaxCalls /\ now \in Times /\ now <= now
  BY StoresAssumption DEF StoresInv, TombInv, TombTypes, Times
<1>1. Call => calls' \in 0..MaxCalls
  BY <1>0, StoresAssumption DEF Call
<1>2. ASSUME NEW r \in Rooms, Add(r) \/ Has(r) PROVE StoresInv'
  <2>1. Call /\ now' = now /\ UNCHANGED <<bucketVars, countVars>>
    BY <1>2 DEF Add, Has
  <2> QED
    BY <1>0, <1>1, <1>2, <2>1, AddStep, HasStep, BucketIdle, CountIdle DEF StoresInv
<1>3. CASE Sweep
  <2>1. Call /\ now' = now /\ UNCHANGED <<bucketVars, countVars>>
    BY <1>3 DEF Sweep
  <2> QED
    BY <1>0, <1>1, <1>3, <2>1, SweepStep, BucketIdle, CountIdle DEF StoresInv
<1>4. ASSUME NEW ip \in Ips, Allow(ip) PROVE StoresInv'
  <2>1. Call /\ now' = now /\ UNCHANGED <<tombVars, countVars>>
    BY <1>4 DEF Allow
  <2> QED
    BY <1>0, <1>1, <1>4, <2>1, AllowStep, TombIdle, CountIdle DEF StoresInv
<1>5. ASSUME NEW ip \in Ips, NEW restoring \in BOOLEAN,
             Increment(ip) \/ Decrement(ip) \/ IncrementRefused(ip, restoring)
      PROVE  StoresInv'
  <2>1. Call /\ now' = now /\ UNCHANGED <<tombVars, bucketVars>>
    BY <1>5 DEF Increment, Decrement, IncrementRefused
  <2>2. CountInv'
    BY <1>0, <1>5, IncrementStep, DecrementStep, RefusedStep
  <2> QED
    BY <1>0, <1>1, <2>1, <2>2, TombIdle, BucketIdle DEF StoresInv
<1>6. CASE Tick
  <2>1. /\ now < MaxTime /\ now' = now + 1
        /\ UNCHANGED <<calls, tombVars, bucketVars, countVars>>
    BY <1>6 DEF Tick
  <2>2. now' \in Times /\ now <= now'
    BY <1>0, <2>1, StoresAssumption DEF Times
  <2> QED
    BY <1>0, <2>1, <2>2, TombIdle, BucketIdle, CountIdle DEF StoresInv
<1>7. CASE UNCHANGED vars
  <2>1. now' = now /\ UNCHANGED <<calls, tombVars, bucketVars, countVars>>
    BY <1>7 DEF vars
  <2> QED
    BY <1>0, <2>1, TombIdle, BucketIdle, CountIdle DEF StoresInv
<1> QED
  BY <1>2, <1>3, <1>4, <1>5, <1>6, <1>7 DEF Next

\* The invariant of the three stores.
LEMMA StoresAlways == Spec => []StoresInv
BY StoresInit, StoresStep, PTL DEF Spec

\* The caches stay within their capacities with one entry per key, a bucket
\* holds between nothing and its size, and no stored counter is zero or past
\* the limit.
THEOREM StoresTypes == Spec => []TypeOK
<1>1. StoresInv => TypeOK
  BY DEF StoresInv, CountInv, CountTypes, BucketInv, BucketTypes, TombInv, TombTypes, TypeOK
<1> QED
  BY <1>1, StoresAlways, PTL

\* A closed room is refused for its tombstone's life unless as many others as
\* the store holds were closed or looked up since, and never for longer.
THEOREM TombstonesKept == Spec => []TombstoneKept
<1>1. StoresInv => TombstoneKept
  BY TombAnswers DEF StoresInv
<1> QED
  BY <1>1, StoresAlways, PTL

\* The limiter allows exactly what the size of the bucket and its refill pay
\* for, in every window that ends now.
THEOREM LimitsExact == Spec => []LimiterExact
<1>1. StoresInv => LimiterExact
  BY LedgerAnswers DEF StoresInv
<1> QED
  BY <1>1, StoresAlways, PTL

\* Nobody is charged for rooms he does not have, and while his counter is kept
\* the charge is exact.
THEOREM ChargesExact == Spec => []ChargeExact
<1>1. StoresInv => ChargeExact
  BY DEF StoresInv, CountInv
<1> QED
  BY <1>1, StoresAlways, PTL
=============================================================================
