------------------------------- MODULE Stores -------------------------------
(***************************************************************************)
(* The three bounded stores of the server, as its handlers and its sweep   *)
(* call them: tombstones (tombstone/tombstone.go), token buckets and room  *)
(* counters per address (ratelimit/ratelimit.go), each over an LRU cache.  *)
(* A call runs under its store's mutex and reads the clock inside it, so   *)
(* it is one action; the callers' own interleavings are RoomRegistry's     *)
(* subject, where these stores are a set, a counter and a free choice.     *)
(*                                                                         *)
(* Tokens are counted in units: a request costs Cost of them and Rate are  *)
(* refilled per tick, which makes the bucket's fractions whole numbers.    *)
(* The variables marked history are what a caller knows: they define what  *)
(* the stores should answer without a cache.                               *)
(***************************************************************************)
EXTENDS LRU

CONSTANTS
  Rooms,        \* room ids that may be closed
  Ips,          \* addresses
  TombCap,      \* cfg.TombstoneMaxEntries
  TombTtl,      \* cfg.TombstoneTtl, in ticks
  BucketCap,    \* capacity of a ratelimit.Map
  Rate, Cost, Burst,  \* refill per tick, price of a request, bucket size
  CountCap,     \* capacity of the CounterMap
  MaxPerIp,     \* cfg.MaxRoomsPerIp
  MaxTime,      \* bound: the clock
  MaxCalls      \* bound: calls to the stores

ASSUME StoresAssumption ==
  /\ TombCap \in Nat \ {0} /\ BucketCap \in Nat \ {0} /\ CountCap \in Nat \ {0}
  /\ TombTtl \in Nat /\ Rate \in Nat \ {0} /\ Cost \in Nat \ {0}
  /\ Burst \in Nat /\ Cost <= Burst
  /\ MaxPerIp \in Nat \ {0}
  /\ MaxTime \in Nat /\ MaxCalls \in Nat

VARIABLES
  now,       \* the clock
  calls,     \* calls made so far
  tomb,      \* tombstone.Store.c: room -> ClosedAt
  closedAt,  \* history: when a room was last closed; -1: never
  since,     \* history: rooms closed or found since this one was
  buckets,   \* ratelimit.Map.c: address -> bucket
  granted,   \* history: when the requests of this bucket were allowed
  counts,    \* CounterMap.c: address -> units in use
  held,      \* history: rooms an address is charged with
  exact      \* history: addresses whose counter was never evicted or bypassed

tombVars   == <<tomb, closedAt, since>>
bucketVars == <<buckets, granted>>
countVars  == <<counts, held, exact>>
vars == <<now, calls, tombVars, bucketVars, countVars>>

-----------------------------------------------------------------------------
(* Types *)

Times == 0..MaxTime

Bucket == [tokens : 0..Burst, last : Times]

\* The type of the state.  A counter that is stored is not zero and within the
\* limit.
TypeOK ==
  /\ now \in Times /\ calls \in 0..MaxCalls
  /\ tomb \in Caches(Rooms, Times, TombCap)
  /\ closedAt \in [Rooms -> Times \cup {-1}]
  /\ since \in [Rooms -> SUBSET Rooms]
  /\ buckets \in Caches(Ips, Bucket, BucketCap)
  /\ granted \in [Ips -> Seq(Times)]
  /\ counts \in Caches(Ips, 1..MaxPerIp, CountCap)
  /\ held \in [Ips -> Nat]
  /\ exact \in SUBSET Ips

Call == calls < MaxCalls /\ calls' = calls + 1

-----------------------------------------------------------------------------
(* tombstone.Store *)

Expired(at) == now - at > TombTtl

\* r was used; it is now the most recent.
Use(r) == since' = [q \in Rooms |-> IF q = r THEN {} ELSE since[q] \cup {r}]

Add(r) ==
  /\ Call
  /\ tomb' = Put(tomb, r, now, TombCap)
  /\ closedAt' = [closedAt EXCEPT ![r] = now]
  /\ Use(r)
  /\ UNCHANGED <<now, bucketVars, countVars>>

\* What Has and Get answer.
HasTomb(r) == InCache(tomb, r) /\ ~Expired(ValOf(tomb, r))

\* Has and Get: an expired entry is removed on the way.
Has(r) ==
  /\ Call
  /\ tomb' = IF InCache(tomb, r) /\ ~HasTomb(r) THEN Without(tomb, {r})
             ELSE Touched(tomb, r)
  /\ IF HasTomb(r) THEN Use(r) ELSE UNCHANGED since
  /\ UNCHANGED <<now, closedAt, bucketVars, countVars>>

\* Range finds the expired entries, Delete removes each of them.
Sweep ==
  /\ Call
  /\ tomb' = Without(tomb, {r \in KeysOf(tomb) : Expired(ValOf(tomb, r))})
  /\ UNCHANGED <<now, closedAt, since, bucketVars, countVars>>

-----------------------------------------------------------------------------
(* ratelimit.Map *)

NewBucket == [tokens |-> Burst, last |-> now]

\* Mutant: the bucket may grow past its size.
Refilled_NoCap(b) == b.tokens + Rate * (now - b.last)

\* Take, up to the comparison.
Refilled(b) == Min({Burst, b.tokens + Rate * (now - b.last)})

After(tokens) == IF tokens >= Cost THEN tokens - Cost ELSE tokens

\* AllowN with n = 1: the bucket is looked up or made, and Take runs on it.
Allow(ip) ==
  LET b == IF InCache(buckets, ip) THEN ValOf(buckets, ip) ELSE NewBucket
  IN  /\ Call
      /\ buckets' = Put(buckets, ip, [tokens |-> After(Refilled(b)), last |-> now],
                        BucketCap)
      /\ granted' = [granted EXCEPT ![ip] =
                       (IF InCache(buckets, ip) THEN @ ELSE << >>)
                         \o (IF Refilled(b) >= Cost THEN <<now>> ELSE << >>)]
      /\ UNCHANGED <<now, tombVars, countVars>>

-----------------------------------------------------------------------------
(* ratelimit.CounterMap *)

CountOf(ip) == IF InCache(counts, ip) THEN ValOf(counts, ip) ELSE 0

\* The address whose counter this call pushes out, if any.
Evicted(new) == KeysOf(counts) \ KeysOf(new)

Increment(ip) ==
  LET new == Put(counts, ip, CountOf(ip) + 1, CountCap)
  IN  /\ Call
      /\ CountOf(ip) < MaxPerIp
      /\ counts' = new
      /\ held' = [held EXCEPT ![ip] = @ + 1]
      /\ exact' = exact \ Evicted(new)
      /\ UNCHANGED <<now, tombVars, bucketVars>>

\* At the limit the caller gives up, except for Restore, which registers the
\* room all the same.
IncrementRefused(ip, restoring) ==
  /\ Call
  /\ CountOf(ip) >= MaxPerIp
  /\ counts' = Touched(counts, ip)
  /\ IF restoring
     THEN held' = [held EXCEPT ![ip] = @ + 1] /\ exact' = exact \ {ip}
     ELSE UNCHANGED <<held, exact>>
  /\ UNCHANGED <<now, tombVars, bucketVars>>

\* Mutant: the last unit leaves a zero behind.
Decremented_KeepsZero(ip) == Put(counts, ip, CountOf(ip) - 1, CountCap)

\* Mutant: the address is forgotten with its first room.
Decremented_Forgets(ip) == Without(counts, {ip})

\* Decrement, for a counter that is there.
Decremented(ip) ==
  IF CountOf(ip) = 1 THEN Without(counts, {ip})
  ELSE Put(counts, ip, CountOf(ip) - 1, CountCap)

\* removeRoomLocked and the roll-backs: one Decrement for each room charged.
Decrement(ip) ==
  /\ Call
  /\ held[ip] > 0
  /\ held' = [held EXCEPT ![ip] = @ - 1]
  /\ counts' = IF InCache(counts, ip) THEN Decremented(ip) ELSE counts
  /\ UNCHANGED <<now, tombVars, bucketVars, exact>>

-----------------------------------------------------------------------------

Tick == now < MaxTime /\ now' = now + 1 /\ UNCHANGED <<calls, tombVars, bucketVars, countVars>>

Init ==
  /\ now = 0 /\ calls = 0
  /\ tomb = << >> /\ closedAt = [r \in Rooms |-> -1] /\ since = [r \in Rooms |-> {}]
  /\ buckets = << >> /\ granted = [ip \in Ips |-> << >>]
  /\ counts = << >> /\ held = [ip \in Ips |-> 0] /\ exact = Ips

Next ==
  \/ \E r \in Rooms : Add(r) \/ Has(r)
  \/ Sweep
  \/ \E ip \in Ips : \/ Allow(ip) \/ Increment(ip) \/ Decrement(ip)
                     \/ \E restoring \in BOOLEAN : IncrementRefused(ip, restoring)
  \/ Tick

Spec == Init /\ [][Next]_vars

-----------------------------------------------------------------------------
(* Properties *)

\* A closed room is refused for as long as its tombstone's life and no longer,
\* unless as many other rooms as the store holds were closed or looked up
\* since: the lookups of generateRoomID and RejoinRoom, the sweep and the
\* expiry on lookup never cost a room its tombstone (tombstone.go: Add, Has,
\* Sweep; lru.go: Get, Put).
TombstoneKept ==
  \A r \in Rooms :
    /\ HasTomb(r) => closedAt[r] >= 0 /\ now - closedAt[r] <= TombTtl
    /\ closedAt[r] >= 0 /\ now - closedAt[r] <= TombTtl /\ Cardinality(since[r]) < TombCap
         => HasTomb(r)

\* While an address keeps its bucket, the next request is allowed exactly when
\* no window that ends now holds more of its requests than the size of the
\* bucket and the refill of that window pay for (ratelimit.go: Take).
LimiterExact ==
  \A ip \in KeysOf(buckets) :
    Refilled(ValOf(buckets, ip)) >= Cost <=>
      \A i \in DOMAIN granted[ip] :
        Cost * (Len(granted[ip]) - i + 2) <= Burst + Rate * (now - granted[ip][i])

\* An address is never charged for more rooms than it has, so its limit never
\* locks it out for good; and as long as its counter is not evicted and Restore
\* does not bypass it, the charge is exact and the limit holds
\* (ratelimit.go: Increment, Decrement).
ChargeExact ==
  \A ip \in Ips :
    /\ CountOf(ip) <= held[ip]
    /\ ip \in exact => CountOf(ip) = held[ip] /\ held[ip] <= MaxPerIp
=============================================================================
