--------------------- MODULE RoomRegistryRelayProofs ---------------------
(***************************************************************************)
(* What the registry tells a connection: that two connections in a room    *)
(* know each other's epoch, and that signals reach a client in order       *)
(* whichever way they take, for every number of connections and rooms.     *)
(***************************************************************************)
EXTENDS RoomRegistryProofs

-----------------------------------------------------------------------------
(* The invariants *)

\* Not closed yet, admitted or not.
Present(c) == sock[c] \in {"new", "open"}

Unseen(c) == \A o \in Objs, r \in Role : Seat(o, r) # c

\* What a handler may be about to answer.
Replies == {"create-response", "join-response", "rejoin-response", "overflow",
            "locked-out"}

\* A handler answers for a session it has attached, except the guess that
\* locked the room; the answer to create-room names no epoch.
ReplyInv(c) ==
  /\ h[c].at = "replying" => h[c].ev.type \in Replies
  /\ h[c].at = "replying" /\ h[c].ev.type = "create-response" => h[c].ev.epoch = NoEpoch
  /\ sock[c] = "open" /\ h[c].at = "replying" =>
       (h[c].ev.type = "locked-out" <=> sess[c].room = NoObj)

\* The room a handler of an open connection has loaded is the session's.
LoadedInv(c) ==
  sock[c] = "open" /\ h[c].at = "loaded" =>
    sess[c].room = h[c].obj /\ sess[c].role = h[c].role

\* The epoch a response told c, or is about to.
Expected(c) ==
  IF h[c].at = "replying" /\ h[c].ev.type \in Responses THEN h[c].ev.epoch
  ELSE told[c].last

Answering(c, type) == h[c].at = "replying" /\ h[c].ev.type = type

\* What c, seated at r, has been told of the epoch opposite.  An overflow is
\* answered while nobody is there, or somebody has announced himself since.
NewsAt(c, o, r) ==
  IF told[c].news # NoEpoch THEN told[c].news = obj[o].slots[Other(r)].epoch
  ELSE /\ obj[o].slots[Other(r)].epoch = Expected(c)
       /\ Answering(c, "overflow") => Seat(o, Other(r)) = NoConn
       /\ h[c].at = "created" \/ Answering(c, "create-response")
            => told[c].last = NoEpoch

NewsOf(c) ==
  /\ ReplyInv(c)
  /\ LoadedInv(c)
  /\ Present(c) /\ Unseen(c) => told[c] = NothingTold
  /\ sock[c] = "open" =>
       \A o \in Objs, r \in Role : Seat(o, r) = c => NewsAt(c, o, r)

\* The inductive invariant behind EpochNews.
NewsInv == \A c \in Conns : NewsOf(c)

Ordered(sig) ==
  \A i, j \in DOMAIN sig :
    i < j /\ sig[i].epoch = sig[j].epoch => sig[i].seq < sig[j].seq

\* No signal of the epoch a slot is under is beyond its number.
Below(sig, s) ==
  \A i \in DOMAIN sig : sig[i].epoch = s.epoch => sig[i].seq <= s.lastSeq

HeldInv(o, r) ==
  /\ Ordered(Replay(obj[o].slots[r]))
  /\ Below(Replay(obj[o].slots[r]), obj[o].slots[Other(r)])

HeardInv(c) ==
  /\ Ordered(told[c].signals)
  /\ sock[c] = "open" =>
       \A o \in Objs, r \in Role :
         Seat(o, r) = c => Below(told[c].signals, obj[o].slots[Other(r)])

\* The inductive invariant behind RelayOrder: what a slot's buffer holds and
\* what its occupant has heard are in order, up to the number of the sender.
RelayInv ==
  /\ \A o \in Objs, r \in Role : HeldInv(o, r)
  /\ \A c \in Conns : HeardInv(c)

-----------------------------------------------------------------------------
(* What a change of a room does to what it relays *)

\* Epoch, number and buffer, the parts of a slot that signals depend on.
SameRelay(s, u) == u.epoch = s.epoch /\ u.lastSeq = s.lastSeq /\ u.buffer = s.buffer

\* Leaving, guessing and reporting touch none of them.
LEMMA LeavingSameRelay ==
  ASSUME NEW rm \in Room, NEW r \in Role, NEW c \in Conns, NEW t \in Time, NEW q \in Role
  PROVE  /\ SameRelay(rm.slots[q], Vacated(rm, r, c).slots[q])
         /\ SameRelay(rm.slots[q], Detached(rm, r, c, t).slots[q])
         /\ SameRelay(rm.slots[q], Emptied(rm).slots[q])
         /\ SameRelay(rm.slots[q], Reported(rm, r, t).slots[q])
<1>0. \A s \in Slot : SameRelay(s, Unseated(s)) /\ SameRelay(s, s)
  BY DEF SameRelay, Unseated, Slot
<1>1. rm.slots \in [Role -> Slot]
  BY DEF Room
<1>2. SameRelay(rm.slots[q], Vacated(rm, r, c).slots[q])
  BY <1>0, <1>1 DEF Vacated, WithSlot, Room
<1>3. Detached(rm, r, c, t).slots = Vacated(rm, r, c).slots
  <2>1. Vacated(rm, r, c) \in Room
    BY VacatedFacts
  <2>2. computePeerDeadline(t, rm.expiresAt) \in OptTime
    BY DeadlineTypes DEF Room, OptTime
  <2> QED
    BY <2>1, <2>2, WithDeadlineFacts DEF Detached
<1>4. SameRelay(rm.slots[q], Emptied(rm).slots[q])
  BY <1>0, <1>1 DEF Emptied, Room
<1>5. SameRelay(rm.slots[q], Reported(rm, r, t).slots[q])
  BY <1>1 DEF Reported, WithSlot, Room, SameRelay, Slot
<1> QED
  BY <1>2, <1>3, <1>4, <1>5

\* What an attaching guest changes: its epoch and its connection.
LEMMA GuestRelay ==
  ASSUME NEW rm \in Room, NEW c \in Conns, NEW e \in Epochs
  PROVE  /\ GuestAttached(rm, c, e).slots["host"] = rm.slots["host"]
         /\ GuestAttached(rm, c, e).slots["guest"].epoch = e
         /\ GuestAttached(rm, c, e).slots["guest"].lastSeq = rm.slots["guest"].lastSeq
         /\ GuestAttached(rm, c, e).slots["guest"].buffer = rm.slots["guest"].buffer
BY DEF GuestAttached, WithDeadline, WithSlot, Seated, Room, Role, Slot

\* The rejoining slot: reset with its buffer when the epoch has changed.
LEMMA RejoinRelay ==
  ASSUME NEW rm \in Room, NEW r \in Role, NEW c \in Conns, NEW e \in Epochs,
         NEW b \in BOOLEAN, NEW t \in Time
  PROVE  LET new == Rejoined(rm, r, c, e, b, t).slots
         IN  /\ new[r].epoch = e
             /\ new[Other(r)].epoch = rm.slots[Other(r)].epoch
             /\ EpochChanged(rm, r, e, b) => new[r].buffer = << >> /\ new[r].lastSeq = 0
             /\ EpochChanged(rm, r, e, b) /\ Occupied(rm, Other(r)) =>
                  new[Other(r)].buffer = << >> /\ new[Other(r)].lastSeq = 0
             /\ EpochChanged(rm, r, e, b) /\ ~Occupied(rm, Other(r)) =>
                  new[Other(r)] = rm.slots[Other(r)]
             /\ ~EpochChanged(rm, r, e, b) =>
                  /\ rm.slots[r].epoch = e /\ ~b
                  /\ new[r].buffer = rm.slots[r].buffer
                  /\ new[r].lastSeq = rm.slots[r].lastSeq
                  /\ new[Other(r)] = rm.slots[Other(r)]
<1> DEFINE changed == EpochChanged(rm, r, e, b)
           there   == Occupied(rm, Other(r))
           base    == IF changed THEN ResetSlot(rm.slots[r]) ELSE rm.slots[r]
           mine    == Seated(base, c, e)
           other   == IF changed /\ there THEN ResetSlot(rm.slots[Other(r)])
                      ELSE rm.slots[Other(r)]
           d       == IF there THEN NoTime
                      ELSE computePeerDeadline(t, rm.expiresAt)
<1>0. Other(r) \in Role /\ Other(r) # r
  BY OtherRole
<1>1. rm.slots[r] \in Slot /\ rm.slots[Other(r)] \in Slot
  BY <1>0, SlotOf
<1>2. \A s \in Slot : /\ ResetSlot(s) \in Slot /\ ResetSlot(s).buffer = << >>
                      /\ ResetSlot(s).lastSeq = 0 /\ ResetSlot(s).epoch = s.epoch
  BY ResetSlotFacts DEF ResetSlot, EmptySlot
<1>3. /\ base \in Slot /\ other \in Slot
      /\ changed => base.buffer = << >> /\ base.lastSeq = 0
      /\ ~changed => base = rm.slots[r] /\ other = rm.slots[Other(r)]
      /\ other.epoch = rm.slots[Other(r)].epoch
      /\ changed /\ there => other.buffer = << >> /\ other.lastSeq = 0
      /\ changed /\ ~there => other = rm.slots[Other(r)]
  BY <1>1, <1>2
<1>4. changed <=> b \/ rm.slots[r].epoch # e
  BY DEF EpochChanged
<1> HIDE DEF base, other, d, changed, there
<1>5. /\ mine.epoch = e /\ mine.buffer = base.buffer /\ mine.lastSeq = base.lastSeq
  BY <1>3 DEF Seated, Slot
<1>6. Rejoined(rm, r, c, e, b, t) =
        WithDeadline(WithSlot(WithSlot(rm, r, mine), Other(r), other), d)
  BY DEF Rejoined, mine, base, other, d, changed, there
<1> HIDE DEF mine
<1>7. /\ Rejoined(rm, r, c, e, b, t).slots[r] = mine
      /\ Rejoined(rm, r, c, e, b, t).slots[Other(r)] = other
  BY <1>0, <1>6 DEF WithDeadline, WithSlot, Room
<1>8. EpochChanged(rm, r, e, b) <=> changed
  BY DEF changed
<1>9. Occupied(rm, Other(r)) <=> there
  BY DEF there
<1> QED
  BY <1>3, <1>4, <1>5, <1>7, <1>8, <1>9

\* A signal that is accepted moves the sender's number.
LEMMA SignalRelay ==
  ASSUME NEW rm \in Room, NEW r \in Role, NEW n \in 1..MaxSeq, NEW z \in Sizes
  PROVE  LET old == rm.slots
             bs  == [fromEpoch |-> rm.slots[r].epoch, seq |-> n, size |-> z]
             acc == Accepted(rm, r, n).slots
             ovf == Overflowed(rm, r, n).slots
             buf == Buffered(rm, r, n, z).slots
         IN  /\ acc[Other(r)] = old[Other(r)]
             /\ acc[r].epoch = old[r].epoch /\ acc[r].buffer = old[r].buffer
             /\ acc[r].lastSeq = n
             /\ ovf[r] = acc[r] /\ buf[r] = acc[r]
             /\ ovf[Other(r)].epoch = old[Other(r)].epoch
             /\ ovf[Other(r)].lastSeq = old[Other(r)].lastSeq
             /\ ovf[Other(r)].buffer = << >>
             /\ buf[Other(r)].epoch = old[Other(r)].epoch
             /\ buf[Other(r)].lastSeq = old[Other(r)].lastSeq
             /\ buf[Other(r)].buffer = Append(old[Other(r)].buffer, bs)
<1>0. /\ Other(r) \in Role /\ Other(r) # r
      /\ rm.slots[r] \in Slot /\ rm.slots[Other(r)] \in Slot
  BY OtherRole, SlotOf
<1>1. Accepted(rm, r, n) \in Room /\ Accepted(rm, r, n).slots[Other(r)] = rm.slots[Other(r)]
  BY AcceptedFacts
<1>2. /\ Accepted(rm, r, n).slots[r].epoch = rm.slots[r].epoch
      /\ Accepted(rm, r, n).slots[r].buffer = rm.slots[r].buffer
      /\ Accepted(rm, r, n).slots[r].lastSeq = n
  BY <1>0 DEF Accepted, WithSlot, Room, Slot
<1>3. /\ Overflowed(rm, r, n).slots[r] = Accepted(rm, r, n).slots[r]
      /\ Overflowed(rm, r, n).slots[Other(r)].epoch = rm.slots[Other(r)].epoch
      /\ Overflowed(rm, r, n).slots[Other(r)].lastSeq = rm.slots[Other(r)].lastSeq
      /\ Overflowed(rm, r, n).slots[Other(r)].buffer = << >>
  BY <1>0, <1>1 DEF Overflowed, WithSlot, Room, Slot
<1>4. /\ Buffered(rm, r, n, z).slots[r] = Accepted(rm, r, n).slots[r]
      /\ Buffered(rm, r, n, z).slots[Other(r)].epoch = rm.slots[Other(r)].epoch
      /\ Buffered(rm, r, n, z).slots[Other(r)].lastSeq = rm.slots[Other(r)].lastSeq
      /\ Buffered(rm, r, n, z).slots[Other(r)].buffer =
           Append(rm.slots[Other(r)].buffer,
                  [fromEpoch |-> rm.slots[r].epoch, seq |-> n, size |-> z])
  BY <1>0, <1>1 DEF Buffered, WithSlot, Room, Slot
<1> QED
  BY <1>1, <1>2, <1>3, <1>4

\* A new room holds and has numbered nothing.
LEMMA NewRelay ==
  ASSUME NEW id \in RoomIds, NEW ip \in IPs, NEW u \in Time, NEW t \in Time,
         NEW pw \in BOOLEAN, NEW c \in Conns, NEW e \in Epochs, NEW r \in Role
  PROVE  LET rm == NewRoom(id, ip, u, t, pw)
             hm == HostAttached(rm, c, e)
         IN  /\ rm.slots[r].buffer = << >> /\ hm.slots[r].buffer = << >>
             /\ rm.slots[r].epoch = NoEpoch /\ hm.slots["guest"].epoch = NoEpoch
<1> DEFINE rm == NewRoom(id, ip, u, t, pw)
<1>1. rm \in Room
  BY NewRoomFacts
<1>2. \A q \in Role : rm.slots[q] = EmptySlot
  BY DEF NewRoom
<1> HIDE DEF rm
<1>3. EmptySlot.buffer = << >> /\ EmptySlot.epoch = NoEpoch /\ EmptySlot \in Slot
  BY EmptySlotType DEF EmptySlot
<1>4. HostAttached(rm, c, e).slots = [rm.slots EXCEPT !["host"] = Seated(EmptySlot, c, e)]
  BY <1>1, <1>2 DEF HostAttached, WithSlot, Role, Room
<1>5. Seated(EmptySlot, c, e).buffer = << >>
  BY <1>3 DEF Seated, Slot
<1>6. HostAttached(rm, c, e).slots[r].buffer = << >>
      /\ HostAttached(rm, c, e).slots["guest"].epoch = NoEpoch
  BY <1>1, <1>2, <1>3, <1>4, <1>5 DEF Room, Role
<1> QED
  BY <1>2, <1>3, <1>6 DEF rm

-----------------------------------------------------------------------------
(* Steps that tell nobody anything *)

\* An open connection is in one slot.
LEMMA OneSeat ==
  ASSUME TypeInv, AttachInv, NEW c \in Conns, sock[c] = "open",
         NEW o \in Objs, NEW r \in Role, NEW q \in Objs, NEW s \in Role,
         Seat(o, r) = c, Seat(q, s) = c
  PROVE  o = q /\ r = s
<1>1. SeatsOf(c) /\ NotYet(c)
  BY DEF AttachInv, ConnInv
<1>2. \/ sess[c] = [room |-> o, role |-> r] \/ Publishing(c, o, r)
  BY <1>1 DEF SeatsOf
<1>3. \/ sess[c] = [room |-> q, role |-> s] \/ Publishing(c, q, s)
  BY <1>1 DEF SeatsOf
<1>4. h[c].at = "created" => sess[c].room = NoObj
  BY <1>1 DEF NotYet, Attaching
<1>5. o # NoObj /\ q # NoObj
  BY DEF Objs, NoObj
<1> QED
  BY <1>2, <1>3, <1>4, <1>5 DEF Publishing

\* A session with a room is seated.
LEMMA SessionSeen ==
  ASSUME TypeInv, AttachInv, NEW c \in Conns, sock[c] = "open", sess[c].room # NoObj
  PROVE  ~Unseen(c)
<1>1. Seat(sess[c].room, sess[c].role) = c
  BY DEF AttachInv, ConnInv, SessionSeated
<1>2. sess[c].room \in Objs /\ sess[c].role \in Role
  BY DEF TypeInv, TypeOK, Session
<1> QED
  BY <1>1, <1>2 DEF Unseen

\* Slots are emptied and nothing else of them changes; a connection that is
\* still open or not yet admitted keeps its seat, and nobody is told anything.
Calm ==
  /\ \A o \in Objs, r \in Role :
       /\ SameRelay(obj[o].slots[r], obj'[o].slots[r])
       /\ Seat(o, r)' \in {Seat(o, r), NoConn}
  /\ \A d \in Conns : told'[d] \in {told[d], NothingTold}
  /\ \A d \in Conns : Present(d)' =>
       /\ Present(d)
       /\ told'[d] = told[d]
       /\ sess'[d] = sess[d]
       /\ \A o \in Objs, r \in Role : Seat(o, r)' = d <=> Seat(o, r) = d

\* No handler begins to answer, but for the guess that locks a room, and one
\* that has answered is of a connection that is closed by now.
HandlersCalm ==
  \A d \in Conns :
    \/ h'[d] = h[d]
    \/ h[d].at # "replying" /\ h'[d].at \notin {"replying", "created", "loaded"}
    \/ /\ h[d].at = "checked" /\ h'[d].at = "loaded"
       /\ sess[d].room = h'[d].obj /\ sess[d].role = h'[d].role
    \/ h[d].at = "joinLock" /\ h'[d].at = "replying" /\ h'[d].ev.type = "locked-out"
    \/ h'[d].at \notin {"replying", "loaded"} /\ ~Present(d)'

\* What is buffered depends on the buffer alone.
LEMMA SameReplay ==
  ASSUME NEW s, NEW u, u.buffer = s.buffer PROVE Replay(u) = Replay(s)
BY DEF Replay

\* Such a step keeps the order of signals.
LEMMA CalmRelay ==
  ASSUME TypeInv, AttachInv, RelayInv, Calm
  PROVE  RelayInv'
<1>0. \A r \in Role : Other(r) \in Role
  BY OtherRole
<1>1. ASSUME NEW o \in Objs, NEW r \in Role PROVE HeldInv(o, r)'
  <2>1. HeldInv(o, r) /\ SameRelay(obj[o].slots[r], obj'[o].slots[r])
        /\ SameRelay(obj[o].slots[Other(r)], obj'[o].slots[Other(r)])
    BY <1>0 DEF RelayInv, Calm
  <2>2. Replay(obj'[o].slots[r]) = Replay(obj[o].slots[r])
    BY <2>1, SameReplay DEF SameRelay
  <2> QED
    BY <2>1, <2>2 DEF HeldInv, Below, SameRelay
<1>2. ASSUME NEW c \in Conns PROVE HeardInv(c)'
  <2>1. HeardInv(c) /\ told'[c] \in {told[c], NothingTold}
    BY DEF RelayInv, Calm
  <2>2. Ordered(told'[c].signals)
    BY <2>1 DEF HeardInv, NothingTold, Ordered
  <2>3. ASSUME sock'[c] = "open", NEW o \in Objs, NEW r \in Role, Seat(o, r)' = c
        PROVE  Below(told'[c].signals, obj'[o].slots[Other(r)])
    <3>1. Present(c)'
      BY <2>3 DEF Present
    <3>2. CASE sock[c] = "open"
      <4>1. Below(told[c].signals, obj[o].slots[Other(r)])
        BY <2>1, <2>3, <3>1, <3>2 DEF HeardInv, Calm
      <4>2. SameRelay(obj[o].slots[Other(r)], obj'[o].slots[Other(r)])
        BY <1>0 DEF Calm
      <4> QED
        BY <3>1, <4>1, <4>2 DEF Calm, Below, SameRelay
    <3>3. CASE sock[c] # "open"
      <4>1. sock[c] = "new" /\ Seat(o, r) = c
        BY <2>3, <3>1, <3>3 DEF Calm, Present
      <4> QED
        BY <4>1 DEF AttachInv, ConnInv, Untouched
    <3> QED
      BY <3>2, <3>3
  <2> QED
    BY <2>2, <2>3 DEF HeardInv
<1> QED
  BY <1>1, <1>2 DEF RelayInv

\* Such a step keeps what everybody knows of the epoch opposite.
LEMMA CalmNews ==
  ASSUME TypeInv, AttachInv, NewsInv, Calm, HandlersCalm
  PROVE  NewsInv'
<1>0. \A r \in Role : Other(r) \in Role
  BY OtherRole
<1> SUFFICES ASSUME NEW c \in Conns PROVE NewsOf(c)'
  BY DEF NewsInv
<1>1. NewsOf(c) /\ Untouched(c)
  BY DEF NewsInv, AttachInv, ConnInv
<1>2. ASSUME sock'[c] = "open", h[c].at # "idle" PROVE sock[c] = "open"
  BY <1>1, <1>2 DEF Calm, Present, Untouched
<1>3. ReplyInv(c)'
  <2>1. h'[c].at = "replying" =>
          \/ h'[c] = h[c]
          \/ h[c].at = "joinLock" /\ h'[c].ev.type = "locked-out"
    BY DEF HandlersCalm
  <2>2. sock'[c] = "open" => sess'[c] = sess[c]
    BY DEF Calm, Present
  <2>3. h[c].at = "joinLock" => sess[c].room = NoObj
    BY DEF AttachInv, ConnInv, NotYet, Attaching
  <2> QED
    BY <1>1, <1>2, <2>1, <2>2, <2>3 DEF NewsOf, ReplyInv, Replies
<1>4. LoadedInv(c)'
  <2>1. SUFFICES ASSUME sock'[c] = "open", h'[c].at = "loaded" PROVE LoadedInv(c)'
    BY DEF LoadedInv
  <2>2. sess'[c] = sess[c] /\ Present(c)'
    BY <2>1 DEF Calm, Present
  <2>3. CASE h'[c] = h[c]
    BY <1>1, <1>2, <2>1, <2>2, <2>3 DEF NewsOf, LoadedInv
  <2>4. CASE h'[c] # h[c]
    BY <2>1, <2>2, <2>4 DEF HandlersCalm, LoadedInv
  <2> QED
    BY <2>3, <2>4
<1>5. ASSUME Present(c)', Unseen(c)' PROVE told'[c] = NothingTold
  <2>1. Present(c) /\ Unseen(c) /\ told'[c] = told[c]
    BY <1>5 DEF Calm, Unseen
  <2> QED
    BY <1>1, <2>1 DEF NewsOf
<1>6. ASSUME sock'[c] = "open", NEW o \in Objs, NEW r \in Role, Seat(o, r)' = c
      PROVE  NewsAt(c, o, r)'
  <2>1. /\ Present(c)' /\ Present(c) /\ told'[c] = told[c]
        /\ Seat(o, r) = c /\ Seat(o, Other(r))' \in {Seat(o, Other(r)), NoConn}
        /\ obj'[o].slots[Other(r)].epoch = obj[o].slots[Other(r)].epoch
    BY <1>0, <1>6 DEF Present, Calm, SameRelay
  <2>2. sock[c] = "open"
    BY <1>1, <2>1 DEF Present, Untouched
  <2>3. NewsAt(c, o, r)
    BY <1>1, <2>1, <2>2 DEF NewsOf
  <2>4. \/ h'[c] = h[c]
        \/ h[c].at # "replying" /\ h'[c].at \notin {"replying", "created"}
    <3>1. h[c].at # "joinLock"
      BY <2>1, <2>2, NotSeated DEF Attaching
    <3> QED
      BY <2>1, <3>1 DEF HandlersCalm
  <2> QED
    BY <2>1, <2>3, <2>4 DEF NewsAt, Expected, Answering
<1> QED
  BY <1>3, <1>4, <1>5, <1>6 DEF NewsOf

\* Whatever takes nobody's seat but a closed connection's is such a step.
LEMMA LeavingCalm ==
  ASSUME TypeInv, AttachInv, OnlyLeaving, told' = told,
         \A o \in Objs, r \in Role : SameRelay(obj[o].slots[r], obj'[o].slots[r])
  PROVE  Calm
<1>1. \A o \in Objs, r \in Role : Seat(o, r)' \in {Seat(o, r), NoConn}
  BY DEF OnlyLeaving
<1>2. ASSUME NEW d \in Conns, Present(d)'
      PROVE  /\ Present(d) /\ sess'[d] = sess[d]
             /\ \A o \in Objs, r \in Role : Seat(o, r)' = d <=> Seat(o, r) = d
  <2>1. Present(d) /\ sock'[d] = sock[d] /\ sess'[d] = sess[d]
    BY <1>2 DEF OnlyLeaving, Present
  <2>2. ASSUME NEW o \in Objs, NEW r \in Role, Seat(o, r) = d PROVE Seat(o, r)' = d
    <3>1. sock[d] # "new"
      BY <2>2 DEF AttachInv, ConnInv, Untouched
    <3>2. sock'[d] = "open"
      BY <1>2, <2>1, <3>1 DEF Present
    <3> QED
      BY <2>2, <3>2 DEF OnlyLeaving
  <2>3. d # NoConn
    BY RoomStateAssumption
  <2> QED
    BY <1>1, <2>1, <2>2, <2>3
<1> QED
  BY <1>1, <1>2 DEF Calm

\* A slot is as it was.
LEMMA SameSlotRelay == \A s : SameRelay(s, s)
BY DEF SameRelay

\* A write of one object that keeps the relayed parts of its slots.
LEMMA OneRelay ==
  ASSUME TypeInv, NEW o \in Objs, NEW rm, obj' = [obj EXCEPT ![o] = rm],
         \A r \in Role : SameRelay(obj[o].slots[r], rm.slots[r])
  PROVE  \A q \in Objs, r \in Role : SameRelay(obj[q].slots[r], obj'[q].slots[r])
BY SameSlotRelay DEF TypeInv, TypeOK

\* One handler goes on without answering.
LEMMA OneCalm ==
  ASSUME TypeInv, NEW c \in Conns, NEW f, Goto(c, f), h[c].at # "replying",
         f.at \notin {"replying", "created", "loaded"}
  PROVE  HandlersCalm
BY DEF TypeInv, TypeOK, Goto, HandlersCalm

\* Arrivals, closes and the release of a connection.
LEMMA ConnectionsCalm ==
  ASSUME TypeInv, AttachInv, NEW c \in Conns,
         Accept(c) \/ SocketCloses(c) \/ ReplyFatal(c) \/ Release(c)
  PROVE  Calm /\ HandlersCalm
<1>0. sock \in [Conns -> SockState] /\ told \in [Conns -> Told] /\ sess \in [Conns -> Session]
  BY DEF TypeInv, TypeOK
<1>1. CASE Accept(c)
  <2>1. obj' = obj /\ told' = told /\ sess' = sess /\ h' = h
    BY <1>1 DEF Accept
  <2>2. \A d \in Conns : Present(d)' => Present(d)
    BY <1>0, <1>1 DEF Accept, Present
  <2> QED
    BY <2>1, <2>2, SameSlotRelay DEF Calm, HandlersCalm, Seat
<1>2. CASE SocketCloses(c)
  <2>1. obj' = obj /\ told' = told /\ h' = h
    BY <1>2 DEF SocketCloses
  <2> QED
    BY <1>2, <2>1, ClosingLeaves, LeavingCalm, SameSlotRelay DEF HandlersCalm
<1>3. CASE ReplyFatal(c)
  <2>1. obj' = obj /\ told' = told /\ Goto(c, Idle) /\ h[c].at = "replying"
    BY <1>3 DEF ReplyFatal
  <2>2. sock[c] # "new"
    BY <2>1, Started
  <2>3. ~Present(c)'
    BY <1>0, <1>3, <2>2, CloseFacts DEF ReplyFatal, Present
  <2>4. HandlersCalm
    BY <2>1, <2>3 DEF Goto, Idle, HandlersCalm, TypeInv, TypeOK
  <2> QED
    BY <1>3, <2>1, <2>4, ClosingLeaves, LeavingCalm, SameSlotRelay
<1>4. CASE DetachSession(c)
  <2>1. obj' = obj /\ h' = h /\ \A d \in Conns :
          IF d = c THEN sock'[d] = "detaching" /\ told'[d] = NothingTold
          ELSE sock'[d] = sock[d] /\ told'[d] = told[d] /\ sess'[d] = sess[d]
    BY <1>0, <1>4 DEF DetachSession
  <2> QED
    BY <2>1, SameSlotRelay DEF Calm, HandlersCalm, Present, Seat
<1>5. CASE DetachRoom(c)
  <2> DEFINE o == det[c].room
             role == det[c].role
  <2>0. /\ o \in Objs \union {NoObj} /\ role \in Role /\ now \in Time
        /\ obj \in [Objs -> Room]
    BY DEF TypeInv, TypeOK, Session
  <2>1. told' = told /\ h' = h
    BY <1>5 DEF DetachRoom
  <2>2. \A q \in Objs, r \in Role : SameRelay(obj[q].slots[r], obj'[q].slots[r])
    <3>1. CASE o = NoObj
      BY <1>5, <3>1, SameSlotRelay DEF DetachRoom
    <3>2. CASE o # NoObj
      <4>1. o \in Objs /\ obj[o] \in Room
        BY <2>0, <3>2
      <4>2. PICK rm : /\ rm \in {Vacated(obj[o], role, c), Detached(obj[o], role, c, now)}
                      /\ obj' = [obj EXCEPT ![o] = rm]
        BY <1>5, <3>2, <4>1 DEF DetachRoom
      <4>3. \A r \in Role : SameRelay(obj[o].slots[r], rm.slots[r])
        <5> DEFINE before == obj[o]
        <5>1. before \in Room
          BY <4>1
        <5> HIDE DEF before, o, role
        <5>2. \A r \in Role :
                /\ SameRelay(before.slots[r], Vacated(before, role, c).slots[r])
                /\ SameRelay(before.slots[r], Detached(before, role, c, now).slots[r])
          BY <2>0, <5>1, LeavingSameRelay
        <5> QED
          BY <4>2, <5>2 DEF before
      <4> HIDE DEF o, role
      <4> QED
        BY <4>1, <4>2, <4>3, OneRelay
    <3> QED
      BY <3>1, <3>2
  <2>3. HandlersCalm
    BY <2>1 DEF HandlersCalm
  <2> QED
    BY <1>5, <2>1, <2>2, <2>3, DetachRoomLeaves, LeavingCalm
<1> QED
  BY <1>1, <1>2, <1>3, <1>4, <1>5 DEF Release

\* The first step of a handler, its lookups and refusals.
LEMMA LookupsCalm ==
  ASSUME TypeInv, AttachInv, NEW c \in Conns,
         \/ Request(c) \/ CreateFails(c) \/ JoinLookup(c) \/ JoinRefused(c)
         \/ RejoinLookup(c) \/ RejoinRefused(c) \/ LoadRoom(c)
  PROVE  Calm /\ HandlersCalm
<1>0. Idle.at = "idle" /\ h[c] \in Handler /\ h \in [Conns -> Handler]
  BY DEF Idle, TypeInv, TypeOK
<1>1. obj' = obj /\ told' = told
  BY DEF Request, CreateRoom, JoinRoom, RejoinRoom, CheckAttached, CreateFails,
         JoinLookup, JoinRefused, RejoinLookup, RejoinRefused, LoadRoom
<1>2. Calm
  BY <1>1, RequestLeaves, LookupLeaves, LeavingCalm, SameSlotRelay
<1>3. CASE Request(c)
  <2>1. h[c].at = "idle"
    BY <1>3 DEF Request, CreateRoom, JoinRoom, RejoinRoom, CheckAttached, ReadFrame
  <2>2. PICK f : Goto(c, f) /\ f.at \in {"creating", "joining", "rejoining", "checked"}
    <3>0. \A id : /\ [Idle EXCEPT !.at = "creating", !.id = id].at = "creating"
                  /\ [Idle EXCEPT !.at = "joining", !.id = id].at = "joining"
      BY DEF Idle
    <3>1. CASE CreateRoom(c)
      BY <3>0, <3>1 DEF CreateRoom
    <3>2. CASE JoinRoom(c)
      BY <3>0, <3>2 DEF JoinRoom
    <3>3. CASE RejoinRoom(c)
      <4> DEFINE f(tok) == [Idle EXCEPT !.at = "rejoining", !.id = tok.id,
                                        !.role = tok.role, !.createdAt = tok.createdAt,
                                        !.password = tok.password, !.t = now]
      <4>1. \E tok \in tokens : Goto(c, f(tok))
        BY <3>3 DEF RejoinRoom
      <4>2. \A tok : f(tok).at = "rejoining"
        BY DEF Idle
      <4> HIDE DEF f
      <4> QED
        BY <4>1, <4>2
    <3>4. CASE CheckAttached(c)
      BY <3>4 DEF CheckAttached, Idle
    <3> QED
      BY <1>3, <3>1, <3>2, <3>3, <3>4 DEF Request
  <2> QED
    BY <1>2, <2>1, <2>2, OneCalm
<1>4. CASE LoadRoom(c)
  <2>1. CASE h' = h
    BY <1>2, <2>1 DEF HandlersCalm
  <2>2. CASE h' # h
    <3> DEFINE f == [h[c] EXCEPT !.at = "loaded", !.obj = sess[c].room,
                                 !.role = sess[c].role]
    <3>1. h[c].at = "checked" /\ Goto(c, f)
      BY <1>4, <2>2 DEF LoadRoom
    <3>2. f.at = "loaded" /\ f.obj = sess[c].room /\ f.role = sess[c].role
      BY <1>0 DEF Handler
    <3> HIDE DEF f
    <3>3. \A d \in Conns : h'[d] = IF d = c THEN f ELSE h[d]
      BY <1>0, <3>1 DEF Goto
    <3> QED
      BY <1>2, <3>1, <3>2, <3>3 DEF HandlersCalm
  <2> QED
    BY <2>1, <2>2
<1>5. CASE CreateFails(c) \/ JoinRefused(c) \/ RejoinRefused(c)
  <2>1. Goto(c, Idle) /\ h[c].at # "replying"
    BY <1>5 DEF CreateFails, JoinRefused, RejoinRefused
  <2> QED
    BY <1>0, <1>2, <2>1, OneCalm
<1>6. CASE JoinLookup(c) \/ RejoinLookup(c)
  <2>1. PICK f : Goto(c, f) /\ f.at \in {"idle", "joinLock", "recreating", "rejoinLock"}
    <3>1. \A o : [h[c] EXCEPT !.at = "joinLock", !.obj = o].at = "joinLock"
      BY <1>0 DEF Handler
    <3>2. \A o : [h[c] EXCEPT !.at = "rejoinLock", !.obj = o].at = "rejoinLock"
      BY <1>0 DEF Handler
    <3>3. [h[c] EXCEPT !.at = "recreating"].at = "recreating"
      BY <1>0 DEF Handler
    <3>4. CASE JoinLookup(c)
      BY <1>0, <3>1, <3>4 DEF JoinLookup
    <3>5. CASE RejoinLookup(c)
      BY <3>2, <3>3, <3>5 DEF RejoinLookup
    <3> QED
      BY <1>6, <3>4, <3>5
  <2>2. h[c].at # "replying"
    BY <1>6 DEF JoinLookup, RejoinLookup
  <2> QED
    BY <1>2, <2>1, <2>2, OneCalm
<1> QED
  BY <1>3, <1>4, <1>5, <1>6

\* The end of a room, by whomever.
LEMMA EndCalm ==
  ASSUME TypeInv, NEW o \in Objs, NEW rm \in Room, rm.slots = obj[o].slots,
         endRoom(o, rm)
  PROVE  \A q \in Objs, r \in Role : SameRelay(obj[q].slots[r], obj'[q].slots[r])
<1>1. \A r \in Role : SameRelay(obj[o].slots[r], Emptied(rm).slots[r])
  <2> SUFFICES ASSUME NEW r \in Role
               PROVE  SameRelay(rm.slots[r], Emptied(rm).slots[r])
    OBVIOUS
  <2>1. rm.slots[r] \in Slot
    BY SlotOf
  <2>2. Emptied(rm).slots[r] = Unseated(rm.slots[r])
    BY DEF Emptied, Room
  <2> QED
    BY <2>1, <2>2 DEF SameRelay, Unseated, Slot
<1>2. obj' = [obj EXCEPT ![o] = Emptied(rm)]
  BY DEF endRoom
<1> QED
  BY <1>1, <1>2, OneRelay

\* A guess, a report and a close.
LEMMA RoomStepsCalm ==
  ASSUME TypeInv, AttachInv, NEW c \in Conns,
         JoinWrongPassword(c) \/ PeerConnected(c) \/ CloseRoom(c)
  PROVE  Calm /\ HandlersCalm
<1>0. /\ h[c] \in Handler /\ h[c].obj \in Objs /\ obj \in [Objs -> Room]
      /\ h[c].role \in Role /\ now \in Time /\ Idle.at = "idle"
  BY DEF JoinWrongPassword, PeerConnected, CloseRoom, TypeInv, TypeOK, FrameOK, Handler, Idle
<1>o. PICK o \in Objs, role \in Role : o = h[c].obj /\ role = h[c].role
  BY <1>0
<1>1. told' = told /\ OnlyLeaving
  BY RoomStepLeaves DEF JoinWrongPassword, PeerConnected, CloseRoom
<1>2. CASE JoinWrongPassword(c)
  <2> DEFINE rm == GuessedWrong(obj[o])
             f  == [h[c] EXCEPT !.at = "replying", !.ev = Ev("locked-out", NoEpoch)]
  <2>1. rm \in Room /\ rm.slots = obj[o].slots
    BY <1>0, GuessedWrongFacts
  <2>2. f.at = "replying" /\ f.ev.type = "locked-out"
    BY <1>0 DEF Handler, Ev
  <2>3. \/ endRoom(o, rm) /\ Goto(c, f)
        \/ obj' = [obj EXCEPT ![o] = rm] /\ Goto(c, Idle)
    BY <1>o, <1>2 DEF JoinWrongPassword, closeRoomLocked
  <2>4. h[c].at = "joinLock"
    BY <1>2 DEF JoinWrongPassword
  <2> HIDE DEF rm, f
  <2>5. \A q \in Objs, r \in Role : SameRelay(obj[q].slots[r], obj'[q].slots[r])
    BY <2>1, <2>3, EndCalm, OneRelay, SameSlotRelay
  <2>6. HandlersCalm
    BY <1>0, <2>2, <2>3, <2>4 DEF HandlersCalm, Goto, TypeInv, TypeOK
  <2> QED
    BY <1>1, <2>5, <2>6, LeavingCalm
<1>3. CASE PeerConnected(c)
  <2> DEFINE rm == Reported(obj[o], role, now)
  <2>1. \A r \in Role : SameRelay(obj[o].slots[r], rm.slots[r])
    BY <1>0, LeavingSameRelay
  <2>2. /\ obj' = obj \/ obj' = [obj EXCEPT ![o] = rm]
        /\ Goto(c, Idle) /\ h[c].at = "loaded"
    BY <1>o, <1>3 DEF PeerConnected
  <2> HIDE DEF rm
  <2>3. \A q \in Objs, r \in Role : SameRelay(obj[q].slots[r], obj'[q].slots[r])
    BY <2>1, <2>2, OneRelay, SameSlotRelay
  <2> QED
    BY <1>0, <1>1, <2>2, <2>3, LeavingCalm, OneCalm
<1>4. CASE CloseRoom(c)
  <2>1. endRoom(o, obj[o]) /\ Goto(c, Idle) /\ h[c].at = "loaded"
    BY <1>o, <1>4 DEF CloseRoom, closeRoomLocked
  <2>2. \A q \in Objs, r \in Role : SameRelay(obj[q].slots[r], obj'[q].slots[r])
    BY <1>0, <2>1, EndCalm
  <2> QED
    BY <1>0, <1>1, <2>1, <2>2, LeavingCalm, OneCalm
<1> QED
  BY <1>2, <1>3, <1>4

\* The sweep, the clock and a step that is none.
LEMMA OthersCalm ==
  ASSUME TypeInv, AttachInv, Sweep \/ Tick \/ UNCHANGED vars
  PROVE  Calm /\ HandlersCalm
<1>1. told' = told /\ h' = h
  BY DEF Sweep, SweepStart, SweepRoom, Tick, vars
<1>2. OnlyLeaving
  <2>1. CASE UNCHANGED vars
    BY <2>1 DEF vars, countVars, connVars, sweepVars, OnlyLeaving, HandlerMoves, Seat
  <2> QED
    BY <2>1, SweepLeaves
<1>3. \A q \in Objs, r \in Role : SameRelay(obj[q].slots[r], obj'[q].slots[r])
  <2>1. CASE obj' = obj
    BY <2>1, SameSlotRelay
  <2>2. CASE obj' # obj
    <3>1. PICK o \in Objs : endRoom(o, obj[o])
      BY <2>2 DEF Sweep, SweepStart, SweepRoom, Tick, vars
    <3>2. obj[o] \in Room
      BY DEF TypeInv, TypeOK
    <3> QED
      BY <3>1, <3>2, EndCalm
  <2> QED
    BY <2>1, <2>2
<1>4. HandlersCalm
  BY <1>1 DEF HandlersCalm
<1> QED
  BY <1>1, <1>2, <1>3, <1>4, LeavingCalm

-----------------------------------------------------------------------------
(* Steps that tell somebody of an epoch *)

\* Nobody is there.
LEMMA InitNews == Init => NewsInv /\ RelayInv
<1> SUFFICES ASSUME Init PROVE NewsInv /\ RelayInv
  OBVIOUS
<1>1. (CHOOSE id \in RoomIds : TRUE) \in RoomIds /\ (CHOOSE ip \in IPs : TRUE) \in IPs
  BY RoomStateAssumption
<1>2. \A o \in Objs, r \in Role : obj[o].slots[r] = EmptySlot
  BY DEF Init, Unbuilt, NewRoom
<1>3. ASSUME NEW c \in Conns PROVE NewsOf(c) /\ HeardInv(c)
  <2>1. h[c].at = "idle" /\ sock[c] = "new" /\ told[c] = NothingTold
    BY DEF Init, Idle
  <2>2. told[c].signals = << >>
    BY <2>1 DEF NothingTold
  <2> QED
    BY <2>1, <2>2 DEF NewsOf, ReplyInv, LoadedInv, HeardInv, Ordered
<1>4. ASSUME NEW o \in Objs, NEW r \in Role PROVE HeldInv(o, r)
  <2>1. Replay(obj[o].slots[r]) = << >>
    BY <1>2 DEF Replay, EmptySlot
  <2> QED
    BY <2>1 DEF HeldInv, Ordered, Below
<1> QED
  BY <1>3, <1>4 DEF NewsInv, RelayInv

\* A connection whose handler, seat and news are as they were, and so is the
\* epoch opposite.
LEMMA QuietNews ==
  ASSUME NEW d \in Conns, NewsOf(d), h'[d] = h[d],
         Present(d)' =>
           /\ sock'[d] = sock[d] /\ sess'[d] = sess[d]
           /\ told'[d].news = told[d].news /\ told'[d].last = told[d].last
           /\ told'[d] = told[d] \/ ~Unseen(d)'
           /\ \A o \in Objs, r \in Role :
                /\ Seat(o, r)' = d <=> Seat(o, r) = d
                /\ Seat(o, r) = d =>
                     /\ obj'[o].slots[Other(r)].epoch = obj[o].slots[Other(r)].epoch
                     /\ Seat(o, Other(r))' \in {Seat(o, Other(r)), NoConn}
  PROVE  NewsOf(d)'
<1>1. ReplyInv(d)' /\ LoadedInv(d)'
  BY DEF NewsOf, ReplyInv, LoadedInv, Present
<1>2. ASSUME Present(d)', Unseen(d)' PROVE told'[d] = NothingTold
  <2>1. Present(d) /\ Unseen(d) /\ told'[d] = told[d]
    BY <1>2 DEF Present, Unseen
  <2> QED
    BY <2>1 DEF NewsOf
<1>3. ASSUME sock'[d] = "open", NEW o \in Objs, NEW r \in Role, Seat(o, r)' = d
      PROVE  NewsAt(d, o, r)'
  <2>0. Present(d)'
    BY <1>3 DEF Present
  <2>1. /\ sock[d] = "open" /\ Seat(o, r) = d
        /\ told'[d].news = told[d].news /\ told'[d].last = told[d].last
        /\ obj'[o].slots[Other(r)].epoch = obj[o].slots[Other(r)].epoch
        /\ Seat(o, Other(r))' \in {Seat(o, Other(r)), NoConn}
    BY <1>3, <2>0
  <2>2. NewsAt(d, o, r)
    BY <2>1 DEF NewsOf
  <2> QED
    BY <2>1, <2>2 DEF NewsAt, Expected, Answering
<1> QED
  BY <1>1, <1>2, <1>3 DEF NewsOf

\* An attach: the newcomer is about to be told the epoch opposite, and whoever
\* is there is told the newcomer's.
LEMMA SeatNews ==
  ASSUME TypeInv, AttachInv, NewsInv,
         NEW c \in Conns, NEW o \in Objs, NEW role \in Role, NEW f, NEW e \in Epochs,
         h[c].at \in {"joinLock", "rejoinLock"}, Goto(c, f), f.at = "replying",
         f.ev.type \in Responses, f.ev.epoch = obj[o].slots[Other(role)].epoch,
         sess' = [sess EXCEPT ![c] = [room |-> o, role |-> role]],
         \A q \in Objs, r \in Role :
           /\ Seat(q, r)' = IF q = o /\ r = role THEN c ELSE Seat(q, r)
           /\ obj'[q].slots[r].epoch = IF q = o /\ r = role THEN e ELSE obj[q].slots[r].epoch,
         \A d \in Conns : sock'[d] = sock[d] \/ (sock[d] = "open" /\ sock'[d] = "closing"),
         \A d \in Conns : Seat(o, role) = d => sock'[d] # "open",
         \A d \in Conns :
           IF sock[d] = "open" /\ Seat(o, Other(role)) = d
           THEN told'[d].news = e
           ELSE /\ told'[d].news = told[d].news /\ told'[d].last = told[d].last
                /\ d = c \/ told'[d] = told[d]
  PROVE  NewsInv'
<1>0. Other(role) \in Role /\ Other(role) # role
      /\ \A r \in Role : (r = role \/ r = Other(role)) /\ Other(Other(role)) = role
  BY DEF Other, Role
<1>1. \A d \in Conns :
        /\ h'[d] = IF d = c THEN f ELSE h[d]
        /\ sess'[d] = IF d = c THEN [room |-> o, role |-> role] ELSE sess[d]
  BY DEF Goto, TypeInv, TypeOK
<1>2. sock[c] # "new" /\ h[c].at \in Attaching /\ h[c].at # "created"
  BY Started DEF Attaching
<1>3. e # NoEpoch
  BY RoomStateAssumption
<1>4. NewsOf(c)'
  <2>1. h'[c] = f /\ sess'[c].room = o /\ o # NoObj
    BY <1>1 DEF Objs, NoObj
  <2>2. ReplyInv(c)' /\ LoadedInv(c)'
    BY <2>1 DEF ReplyInv, LoadedInv, Responses, Replies
  <2>3. ~Unseen(c)'
    BY DEF Unseen
  <2>4. ASSUME sock'[c] = "open", NEW q \in Objs, NEW r \in Role, Seat(q, r)' = c
        PROVE  NewsAt(c, q, r)'
    <3>1. sock[c] = "open"
      BY <2>4
    <3>2. Unseen(c)
      BY <1>2, <3>1, NotSeated DEF Unseen
    <3>3. told[c].news = NoEpoch /\ told'[c].news = NoEpoch
      <4>1. told[c] = NothingTold
        BY <3>1, <3>2 DEF NewsInv, NewsOf, Present
      <4>2. Seat(o, Other(role)) # c
        BY <1>0, <3>2 DEF Unseen
      <4> QED
        BY <4>1, <4>2 DEF NothingTold
    <3>4. q = o /\ r = role
      BY <2>4, <3>2 DEF Unseen
    <3>5. obj'[o].slots[Other(role)].epoch = f.ev.epoch
      BY <1>0
    <3>6. f.ev.type \notin {"overflow", "create-response"}
      BY DEF Responses
    <3> QED
      BY <2>1, <3>3, <3>4, <3>5, <3>6 DEF NewsAt, Expected, Answering
  <2> QED
    BY <2>2, <2>3, <2>4 DEF NewsOf
<1>5. ASSUME NEW d \in Conns, d # c PROVE NewsOf(d)'
  <2>0. NewsOf(d) /\ h'[d] = h[d] /\ sess'[d] = sess[d]
    BY <1>1, <1>5 DEF NewsInv
  <2>1. CASE sock[d] = "open" /\ Seat(o, Other(role)) = d /\ Present(d)'
    <3>1. sock'[d] = "open" /\ sock[d] = "open" /\ told'[d].news = e
      BY <2>1 DEF Present
    <3>2. ReplyInv(d)' /\ LoadedInv(d)'
      BY <2>0, <3>1 DEF NewsOf, ReplyInv, LoadedInv
    <3>3. ~Unseen(d)'
      BY <1>0, <2>1 DEF Unseen
    <3>4. ASSUME NEW q \in Objs, NEW r \in Role, Seat(q, r)' = d
          PROVE  NewsAt(d, q, r)'
      <4>1. Seat(q, r) = d
        BY <1>5, <3>4
      <4>2. q = o /\ r = Other(role)
        BY <1>0, <2>1, <4>1, OneSeat
      <4> QED
        BY <1>0, <1>3, <3>1, <4>2 DEF NewsAt
    <3> QED
      BY <3>2, <3>3, <3>4 DEF NewsOf
  <2>2. CASE ~(sock[d] = "open" /\ Seat(o, Other(role)) = d) \/ ~Present(d)'
    <3>1. ASSUME Present(d)'
          PROVE  /\ sock'[d] = sock[d] /\ told'[d] = told[d]
                 /\ \A q \in Objs, r \in Role :
                      /\ Seat(q, r)' = d <=> Seat(q, r) = d
                      /\ Seat(q, r) = d =>
                           /\ obj'[q].slots[Other(r)].epoch = obj[q].slots[Other(r)].epoch
                           /\ Seat(q, Other(r))' = Seat(q, Other(r))
      <4>1. sock'[d] = sock[d] /\ told'[d] = told[d] /\ told'[d].news = told[d].news
        BY <1>5, <2>2, <3>1 DEF Present
      <4>2. ASSUME NEW q \in Objs, NEW r \in Role
            PROVE  Seat(q, r)' = d <=> Seat(q, r) = d
        <5>1. Seat(o, role) = d => sock[d] = "new"
          BY <3>1, <4>1 DEF Present
        <5>2. sock[d] = "new" => Seat(o, role) # d
          BY DEF AttachInv, ConnInv, Untouched
        <5> QED
          BY <1>5, <5>1, <5>2
      <4>3. ASSUME NEW q \in Objs, NEW r \in Role, Seat(q, r) = d
            PROVE  ~(q = o /\ Other(r) = role)
        <5>1. sock[d] # "new"
          BY <4>3 DEF AttachInv, ConnInv, Untouched
        <5>2. sock[d] = "open"
          BY <3>1, <4>1, <5>1 DEF Present
        <5>3. Other(r) = role => r = Other(role)
          BY DEF Other, Role
        <5> QED
          BY <2>2, <3>1, <4>3, <5>2, <5>3
      <4>4. \A r \in Role : Other(r) \in Role
        BY OtherRole
      <4> QED
        BY <4>1, <4>2, <4>3, <4>4
    <3> QED
      BY <2>0, <3>1, QuietNews
  <2> QED
    BY <2>1, <2>2
<1> QED
  BY <1>4, <1>5 DEF NewsInv

\* What a buffer becomes when it is replayed.
LEMMA ReplayFacts ==
  ASSUME NEW s, s.buffer \in Seq(BufferedSignal)
  PROVE  /\ DOMAIN Replay(s) = DOMAIN s.buffer
         /\ \A i \in DOMAIN s.buffer :
              /\ Replay(s)[i].epoch = s.buffer[i].fromEpoch
              /\ Replay(s)[i].seq = s.buffer[i].seq
<1>1. DOMAIN s.buffer = 1..Len(s.buffer) /\ Len(s.buffer) \in Nat
  OBVIOUS
<1>2. DOMAIN Replay(s) = 1..Len(s.buffer)
  BY DEF Replay
<1>3. \A i \in 1..Len(s.buffer) :
        Replay(s)[i] = SignalEv(s.buffer[i].fromEpoch, s.buffer[i].seq)
  BY DEF Replay
<1>4. \A x, y : SignalEv(x, y).epoch = x /\ SignalEv(x, y).seq = y
  BY DEF SignalEv
<1> QED
  BY <1>1, <1>2, <1>3, <1>4

\* Who hears a message: the open connection it is for.
LEMMA SendFacts ==
  ASSUME TypeInv, NEW p, NEW ev
  PROVE  \A d \in Conns : Send(told, p, ev)[d] =
           IF d = p /\ sock[d] = "open" THEN Tell(told[d], ev) ELSE told[d]
BY DEF Send, TypeInv, TypeOK

\* A slot, in this state or the next.
SlotAt(o, r) == obj[o].slots[r]

\* What was below the number of a slot under the epoch it is given stays below.
Carries(o, role, e) ==
  \/ SlotAt(o, role)'.lastSeq = SlotAt(o, role).lastSeq /\ SlotAt(o, role).epoch = e
  \/ Unheard(o, role, e)

\* An attach keeps the order of signals, if what remains of the slots and of
\* what was heard is either below the numbers it was below, or of other epochs.
LEMMA SeatRelay ==
  ASSUME TypeInv, AttachInv, NewsInv, RelayInv,
         NEW c \in Conns, NEW o \in Objs, NEW role \in Role, NEW e \in Epochs,
         h[c].at \in {"joinLock", "rejoinLock"},
         \A q \in Objs, r \in Role :
           Seat(q, r)' = IF q = o /\ r = role THEN c ELSE Seat(q, r),
         \A q \in Objs : q # o => obj'[q] = obj[q],
         \A d \in Conns : sock'[d] = sock[d] \/ (sock[d] = "open" /\ sock'[d] = "closing"),
         \A d \in Conns : Seat(o, role) = d => sock'[d] # "open",
         SlotAt(o, role)'.epoch = e,
         SlotAt(o, Other(role))'.epoch = SlotAt(o, Other(role)).epoch,
         \/ SlotAt(o, role)'.buffer = << >>
         \/ /\ SlotAt(o, role)'.buffer = SlotAt(o, role).buffer
            /\ SlotAt(o, Other(role))'.lastSeq = SlotAt(o, Other(role)).lastSeq,
         \/ SlotAt(o, Other(role))'.buffer = << >>
         \/ /\ SlotAt(o, Other(role))'.buffer = SlotAt(o, Other(role)).buffer
            /\ Carries(o, role, e),
         \A d \in Conns : d # c =>
           \/ told'[d].signals = << >>
           \/ /\ told'[d].signals = told[d].signals
              /\ sock[d] = "open" /\ Seat(o, Other(role)) = d => Carries(o, role, e),
         \/ told'[c].signals = << >>
         \/ told'[c].signals = told[c].signals /\ sock[c] # "open"
         \/ /\ told'[c].signals = Replay(SlotAt(o, role))
            /\ SlotAt(o, Other(role))'.lastSeq = SlotAt(o, Other(role)).lastSeq
  PROVE  RelayInv'
<1> DEFINE mine == SlotAt(o, role)
           other == SlotAt(o, Other(role))
<1>m. PICK mine1, other1 : mine1 = SlotAt(o, role)' /\ other1 = SlotAt(o, Other(role))'
  OBVIOUS
<1>s. /\ mine = obj[o].slots[role] /\ other = obj[o].slots[Other(role)]
      /\ mine1 = obj'[o].slots[role] /\ other1 = obj'[o].slots[Other(role)]
  BY <1>m DEF SlotAt
<1>c. Carries(o, role, e) <=> \/ mine1.lastSeq = mine.lastSeq /\ mine.epoch = e
                              \/ Unheard(o, role, e)
  BY <1>m DEF Carries
<1>f. /\ mine1.epoch = e /\ other1.epoch = other.epoch
      /\ mine1.buffer = << >> \/ (mine1.buffer = mine.buffer /\ other1.lastSeq = other.lastSeq)
      /\ other1.buffer = << >> \/ (other1.buffer = other.buffer /\ Carries(o, role, e))
      /\ \/ told'[c].signals = << >>
         \/ told'[c].signals = told[c].signals /\ sock[c] # "open"
         \/ told'[c].signals = Replay(mine) /\ other1.lastSeq = other.lastSeq
  BY <1>m
<1> HIDE DEF mine, other
<1>0. Other(role) \in Role /\ Other(role) # role /\ Other(Other(role)) = role
      /\ \A r \in Role : Other(r) \in Role /\ (r = role \/ r = Other(role))
  BY DEF Other, Role
<1>1. \A s : s.buffer = << >> => Replay(s) = << >>
  BY DEF Replay
<1>2. HeldInv(o, role) /\ HeldInv(o, Other(role))
  BY <1>0 DEF RelayInv
<1>3. Unheard(o, role, e) =>
        /\ \A i \in DOMAIN Replay(other) : Replay(other)[i].epoch # e
        /\ \A p \in Conns : Seat(o, Other(role)) = p =>
             \A i \in DOMAIN told[p].signals : told[p].signals[i].epoch # e
  <2>1. other.buffer \in Seq(BufferedSignal)
    BY <1>0, <1>s, SlotOf DEF TypeInv, TypeOK, Slot
  <2>2. DOMAIN Replay(other) = DOMAIN other.buffer
        /\ \A i \in DOMAIN other.buffer : Replay(other)[i].epoch = other.buffer[i].fromEpoch
    BY <2>1, ReplayFacts
  <2> QED
    BY <1>s, <2>2 DEF Unheard, Seat
<1>4. HeldInv(o, role)'
  <2>1. CASE mine1.buffer = << >>
    BY <1>0, <1>1, <1>s, <2>1 DEF HeldInv, Ordered, Below
  <2>2. CASE mine1.buffer = mine.buffer /\ other1.lastSeq = other.lastSeq
    <3>1. Replay(mine1) = Replay(mine)
      BY <2>2, SameReplay
    <3> QED
      BY <1>2, <1>f, <1>s, <2>2, <3>1 DEF HeldInv, Below
  <2> QED
    BY <1>f, <2>1, <2>2
<1>5. HeldInv(o, Other(role))'
  <2>1. CASE other1.buffer = << >>
    BY <1>0, <1>1, <1>s, <2>1 DEF HeldInv, Ordered, Below
  <2>2. CASE other1.buffer = other.buffer /\ Carries(o, role, e)
    <3>1. Replay(other1) = Replay(other)
      BY <2>2, SameReplay
    <3>2. Below(Replay(other), mine1)
      BY <1>0, <1>2, <1>3, <1>c, <1>f, <1>s, <2>2 DEF HeldInv, Below
    <3> QED
      BY <1>0, <1>2, <1>s, <3>1, <3>2 DEF HeldInv
  <2> QED
    BY <1>f, <2>1, <2>2
<1>6. ASSUME NEW q \in Objs, NEW r \in Role PROVE HeldInv(q, r)'
  <2>1. q # o => HeldInv(q, r)'
    BY DEF RelayInv, HeldInv
  <2> QED
    BY <1>0, <1>4, <1>5, <2>1
<1>7. sock[c] # "new" /\ h[c].at \in Attaching /\ h[c].at # "created"
  BY Started DEF Attaching
<1>8. HeardInv(c)'
  <2>1. Ordered(told'[c].signals)
    BY <1>2, <1>f, <1>s, SMTT(90) DEF RelayInv, HeardInv, HeldInv, Ordered
  <2>2. ASSUME sock'[c] = "open", NEW q \in Objs, NEW r \in Role, Seat(q, r)' = c
        PROVE  Below(told'[c].signals, obj'[q].slots[Other(r)])
    <3>1. sock[c] = "open"
      BY <2>2
    <3>2. \A p \in Objs, s \in Role : Seat(p, s) # c
      BY <1>7, <3>1, NotSeated
    <3>3. q = o /\ r = role
      BY <2>2, <3>2
    <3>4. Below(told'[c].signals, other1)
      BY <1>2, <1>f, <1>s, <3>1 DEF HeldInv, Below
    <3> QED
      BY <1>s, <3>3, <3>4
  <2> QED
    BY <2>1, <2>2 DEF HeardInv
<1>9. ASSUME NEW d \in Conns, d # c PROVE HeardInv(d)'
  <2>1. HeardInv(d)
    BY DEF RelayInv
  <2>2. Ordered(told'[d].signals)
    BY <1>9, <2>1 DEF HeardInv, Ordered
  <2>3. ASSUME sock'[d] = "open", NEW q \in Objs, NEW r \in Role, Seat(q, r)' = d
        PROVE  Below(told'[d].signals, obj'[q].slots[Other(r)])
    <3>1. sock[d] = "open" /\ Seat(q, r) = d /\ ~(q = o /\ r = role)
      BY <1>9, <2>3
    <3>2. Below(told[d].signals, obj[q].slots[Other(r)])
      BY <2>1, <3>1 DEF HeardInv
    <3>3. CASE q # o
      BY <1>9, <3>2, <3>3 DEF Below
    <3>4. CASE q = o
      <4>1. r = Other(role)
        BY <1>0, <3>1, <3>4
      <4>2. CASE told'[d].signals = << >>
        BY <4>2 DEF Below
      <4>3. CASE told'[d].signals = told[d].signals /\ Carries(o, role, e)
        BY <1>0, <1>3, <1>c, <1>f, <1>s, <3>1, <3>2, <3>4, <4>1, <4>3 DEF Below
      <4> QED
        BY <1>9, <3>1, <3>4, <4>1, <4>2, <4>3
    <3> QED
      BY <3>3, <3>4
  <2> QED
    BY <2>2, <2>3 DEF HeardInv
<1> QED
  BY <1>6, <1>8, <1>9 DEF RelayInv

\* What a peer event does to a client's history.
LEMMA TellPeer ==
  \A v, e : \A type \in PeerEvents :
    /\ Tell(v, Ev(type, e)).news = e
    /\ Tell(v, Ev(type, e)).signals = IF type = "peer-reset" THEN << >> ELSE v.signals
<1> SUFFICES ASSUME NEW v, NEW e, NEW type \in PeerEvents
             PROVE  /\ Tell(v, Ev(type, e)).news = e
                    /\ Tell(v, Ev(type, e)).signals =
                         IF type = "peer-reset" THEN << >> ELSE v.signals
  OBVIOUS
<1>1. Ev(type, e).type = type /\ Ev(type, e).epoch = e
  BY DEF Ev
<1> QED
  BY <1>1 DEF Tell, PeerEvents

\* What a fresh epoch means for the connection that attaches.
LEMMA FreshOf ==
  ASSUME TypeInv, AttachInv, FreshEpochs, NEW c \in Conns, NEW o \in Objs, NEW role \in Role,
         h[c].at \in {"joinLock", "rejoinLock"},
         sess' = [sess EXCEPT ![c] = [room |-> o, role |-> role]]
  PROVE  LET e == obj'[o].slots[role].epoch
         IN  (e = obj[o].slots[role].epoch /\ ~h[c].recreated) \/ Unheard(o, role, e)
<1>1. sess[c].room = NoObj
  BY DEF AttachInv, ConnInv, NotYet, Attaching
<1>2. sess'[c].room = o /\ sess'[c].role = role /\ o # NoObj
  BY DEF TypeInv, TypeOK, Objs, NoObj
<1> QED
  BY <1>1, <1>2 DEF FreshEpochs

\* A guest joins and the host is told.
LEMMA JoinTells ==
  ASSUME TypeInv, AttachInv, NewsInv, NEW c \in Conns, JoinAttach(c)
  PROVE  /\ NewsInv'
         /\ RelayInv /\ FreshEpochs => RelayInv'
<1>0. /\ h[c] \in Handler /\ h[c].at = "joinLock" /\ h[c].obj \in Objs
      /\ obj \in [Objs -> Room] /\ "guest" \in Role /\ "host" \in Role
      /\ Other("guest") = "host"
  BY DEF JoinAttach, TypeInv, TypeOK, FrameOK, Role, Other
<1>1. PICK o \in Objs : o = h[c].obj
  BY <1>0
<1>2. obj[o] \in Room
  BY <1>0
<1>3. PICK e \in Epochs :
        /\ obj' = [obj EXCEPT ![o] = GuestAttached(obj[o], c, e)]
        /\ told' = Send(told, Seat(o, "host"), Ev("guest-joined", e))
  BY <1>1 DEF JoinAttach, Seat
<1>4. PICK f : /\ Goto(c, f) /\ f.at = "replying" /\ f.ev.type \in Responses
               /\ f.ev.epoch = obj[o].slots["host"].epoch
  <2> DEFINE f0 == [h[c] EXCEPT !.at = "replying", !.role = "guest",
                                !.createdAt = obj[o].createdAt,
                                !.password = obj[o].password,
                                !.ev = Ev("join-response", obj[o].slots["host"].epoch)]
  <2>1. f0.at = "replying" /\ f0.ev = Ev("join-response", obj[o].slots["host"].epoch)
    BY <1>0 DEF Handler
  <2>2. Goto(c, f0)
    BY <1>1 DEF JoinAttach
  <2> HIDE DEF f0
  <2> QED
    BY <2>1, <2>2 DEF Ev, Responses
<1> DEFINE rm == GuestAttached(obj[o], c, e)
<1>5. /\ rm.slots["guest"].conn = c
      /\ rm.slots["guest"].epoch = e
      /\ rm.slots["guest"].lastSeq = obj[o].slots["guest"].lastSeq
      /\ rm.slots["guest"].buffer = obj[o].slots["guest"].buffer
      /\ rm.slots["host"] = obj[o].slots["host"]
  BY <1>2, GuestAttachedFacts, GuestRelay
<1>6. obj' = [obj EXCEPT ![o] = rm]
  BY <1>3
<1> HIDE DEF rm
<1>7. obj'[o] = rm /\ \A q \in Objs : q # o => obj'[q] = obj[q]
  BY <1>0, <1>6
<1>8. \A q \in Objs, r \in Role :
        /\ Seat(q, r)' = IF q = o /\ r = "guest" THEN c ELSE Seat(q, r)
        /\ obj'[q].slots[r].epoch = IF q = o /\ r = "guest" THEN e ELSE obj[q].slots[r].epoch
  BY <1>5, <1>7 DEF Seat, Role
<1>9. Seat(o, "guest") = NoConn
  BY <1>1 DEF JoinAttach, GuestSlotFree, Occupied, Seat
<1>10. sess' = [sess EXCEPT ![c] = [room |-> o, role |-> "guest"]] /\ sock' = sock
  BY <1>1 DEF JoinAttach
<1>11. \A d \in Conns : Seat(o, "guest") = d => sock'[d] # "open"
  BY <1>9, RoomStateAssumption
<1>12. \A d \in Conns :
         IF sock[d] = "open" /\ Seat(o, "host") = d
         THEN told'[d].news = e /\ told'[d].signals = told[d].signals
         ELSE told'[d] = told[d]
  <2>1. \A v : /\ Tell(v, Ev("guest-joined", e)).news = e
               /\ Tell(v, Ev("guest-joined", e)).signals = v.signals
    BY TellPeer DEF PeerEvents
  <2> QED
    BY <1>3, <2>1, SendFacts
<1>13. /\ \A q \in Objs, r \in Role :
             Seat(q, r)' = IF q = o /\ r = "guest" THEN c ELSE Seat(q, r)
       /\ \A d \in Conns : sock'[d] = sock[d] \/ (sock[d] = "open" /\ sock'[d] = "closing")
       /\ f.ev.epoch = obj[o].slots[Other("guest")].epoch
       /\ \A d \in Conns :
            IF sock[d] = "open" /\ Seat(o, Other("guest")) = d
            THEN told'[d].news = e
            ELSE /\ told'[d].news = told[d].news /\ told'[d].last = told[d].last
                 /\ d = c \/ told'[d] = told[d]
       /\ h[c].at \in {"joinLock", "rejoinLock"}
  BY <1>0, <1>4, <1>8, <1>10, <1>12
<1>14. NewsInv'
  BY <1>0, <1>4, <1>8, <1>10, <1>11, <1>13, SeatNews
<1>15. ASSUME RelayInv, FreshEpochs PROVE RelayInv'
  <2>1. Carries(o, "guest", e)
    BY <1>0, <1>5, <1>7, <1>10, <1>15, FreshOf DEF Carries, SlotAt
  <2>2. told'[c].signals = << >> \/ (told'[c].signals = told[c].signals /\ sock[c] # "open")
    <3>1. CASE sock[c] = "open"
      <4>1. Unseen(c)
        BY <1>0, <3>1, NotSeated DEF Unseen, Attaching
      <4>2. told'[c] = NothingTold
        BY <1>0, <1>12, <3>1, <4>1 DEF NewsInv, NewsOf, Present, Unseen
      <4> QED
        BY <4>2 DEF NothingTold
    <3> QED
      BY <1>12, <3>1
  <2>3. /\ \A d \in Conns : d # c =>
             \/ told'[d].signals = << >>
             \/ /\ told'[d].signals = told[d].signals
                /\ sock[d] = "open" /\ Seat(o, Other("guest")) = d => Carries(o, "guest", e)
        /\ \/ told'[c].signals = << >>
           \/ told'[c].signals = told[c].signals /\ sock[c] # "open"
           \/ /\ told'[c].signals = Replay(SlotAt(o, "guest"))
              /\ SlotAt(o, Other("guest"))'.lastSeq = SlotAt(o, Other("guest")).lastSeq
    BY <1>12, <2>1, <2>2
  <2>4. /\ SlotAt(o, "guest")'.epoch = e
        /\ SlotAt(o, "guest")'.buffer = SlotAt(o, "guest").buffer
        /\ SlotAt(o, Other("guest"))' = SlotAt(o, Other("guest"))
    BY <1>0, <1>5, <1>7 DEF SlotAt
  <2> QED
    BY <1>0, <1>7, <1>11, <1>13, <1>15, <2>1, <2>3, <2>4, SeatRelay
<1> QED
  BY <1>14, <1>15

\* A token holder rejoins, the other side is told, and what was buffered is
\* replayed if the epoch is the same.
LEMMA RejoinTells ==
  ASSUME TypeInv, AttachInv, NewsInv, NEW c \in Conns, RejoinAttach(c)
  PROVE  /\ NewsInv'
         /\ RelayInv /\ FreshEpochs => RelayInv'
<1>0. /\ h[c] \in Handler /\ h[c].at = "rejoinLock" /\ h[c].obj \in Objs
      /\ h[c].role \in Role /\ h[c].recreated \in BOOLEAN /\ h[c].t \in Time
      /\ obj \in [Objs -> Room] /\ sock \in [Conns -> SockState]
  BY DEF RejoinAttach, TypeInv, TypeOK, FrameOK, Handler
<1>1. PICK o \in Objs, role \in Role : o = h[c].obj /\ role = h[c].role
  BY <1>0
<1>2. /\ obj[o] \in Room /\ Other(role) \in Role /\ Other(role) # role
      /\ \A r \in Role : r = role \/ r = Other(role)
  BY <1>0 DEF Other, Role
<1>3. PICK e \in Epochs :
        LET changed == EpochChanged(obj[o], role, e, h[c].recreated)
            next    == Send(told, Seat(o, Other(role)),
                            Ev(IF changed THEN "peer-reset" ELSE "peer-rejoined", e))
        IN  /\ obj' = [obj EXCEPT ![o] =
                         Rejoined(obj[o], role, c, e, h[c].recreated, h[c].t)]
            /\ told' = IF changed \/ sock[c] # "open" THEN next
                       ELSE [next EXCEPT ![c].signals = @ \o Replay(obj[o].slots[role])]
  BY <1>1 DEF RejoinAttach, Seat
<1>4. PICK f : /\ Goto(c, f) /\ f.at = "replying" /\ f.ev.type \in Responses
               /\ f.ev.epoch = obj[o].slots[Other(role)].epoch
  <2> DEFINE ev0 == Ev("rejoin-response", obj[o].slots[Other(role)].epoch)
             f0  == [h[c] EXCEPT !.at = "replying", !.ev = ev0]
  <2>1. Goto(c, f0)
    BY <1>1 DEF RejoinAttach
  <2>2. f0.at = "replying" /\ f0.ev = ev0
    BY <1>0 DEF Handler
  <2> HIDE DEF f0
  <2> QED
    BY <2>1, <2>2 DEF Ev, Responses
<1> DEFINE rm      == Rejoined(obj[o], role, c, e, h[c].recreated, h[c].t)
           changed == EpochChanged(obj[o], role, e, h[c].recreated)
           kind    == IF changed THEN "peer-reset" ELSE "peer-rejoined"
           next    == Send(told, Seat(o, Other(role)), Ev(kind, e))
           mine    == obj[o].slots[role]
           other   == obj[o].slots[Other(role)]
<1>5. /\ rm.slots[role].conn = c
      /\ rm.slots[Other(role)].conn = other.conn
      /\ rm.slots[role].epoch = e
      /\ rm.slots[Other(role)].epoch = other.epoch
      /\ changed => rm.slots[role].buffer = << >>
      /\ changed /\ Seat(o, Other(role)) # NoConn =>
           rm.slots[Other(role)].buffer = << >>
      /\ changed /\ Seat(o, Other(role)) = NoConn =>
           rm.slots[Other(role)] = other
      /\ ~changed => /\ mine.epoch = e
                     /\ rm.slots[role].buffer = mine.buffer
                     /\ rm.slots[role].lastSeq = mine.lastSeq
                     /\ rm.slots[Other(role)] = other
  BY <1>0, <1>2, RejoinedFacts, RejoinRelay DEF Occupied, Seat
<1>6. obj' = [obj EXCEPT ![o] = rm]
  BY <1>3
<1>7. told' = IF changed \/ sock[c] # "open" THEN next
              ELSE [next EXCEPT ![c].signals = @ \o Replay(mine)]
  BY <1>3
<1>8. changed <=> h[c].recreated \/ mine.epoch # e
  BY DEF EpochChanged
<1>9. /\ kind \in PeerEvents /\ (kind = "peer-reset" <=> changed)
      /\ mine \in Slot
  BY <1>2, SlotOf DEF PeerEvents
<1> HIDE DEF rm, changed, kind
<1>10. /\ next \in [Conns -> Told]
       /\ \A d \in Conns :
            IF sock[d] = "open" /\ Seat(o, Other(role)) = d
            THEN /\ next[d].news = e
                 /\ changed => next[d].signals = << >>
                 /\ ~changed => next[d].signals = told[d].signals
            ELSE next[d] = told[d]
  <2>1. Ev(kind, e) \in Event
    BY <1>9, EventTypes DEF EventType, PeerEvents, OptEpoch
  <2> DEFINE ev == Ev(kind, e)
  <2>2. ASSUME NEW v
        PROVE  /\ Tell(v, ev).news = e
               /\ Tell(v, ev).signals = IF kind = "peer-reset" THEN << >> ELSE v.signals
    <3>1. kind \in PeerEvents
      BY <1>9
    <3> QED
      BY <3>1, TellPeer
  <2>3. \A v : /\ Tell(v, ev).news = e
               /\ changed => Tell(v, ev).signals = << >>
               /\ ~changed => Tell(v, ev).signals = v.signals
    BY <1>9, <2>2
  <2>4. next = Send(told, Seat(o, Other(role)), ev)
    BY DEF next
  <2> HIDE DEF ev
  <2>5. next \in [Conns -> Told]
    BY <2>1, <2>4, SendType DEF TypeInv, TypeOK, ev
  <2>6. \A d \in Conns : next[d] =
          IF d = Seat(o, Other(role)) /\ sock[d] = "open" THEN Tell(told[d], ev)
          ELSE told[d]
    BY <2>4, SendFacts
  <2> QED
    BY <2>3, <2>5, <2>6
<1> HIDE DEF next
<1>11. sock[c] = "open" => Unseen(c) /\ told[c] = NothingTold /\ next[c] = NothingTold
  <2> SUFFICES ASSUME sock[c] = "open"
               PROVE  Unseen(c) /\ told[c] = NothingTold /\ next[c] = NothingTold
    OBVIOUS
  <2>1. Unseen(c)
    BY <1>0, NotSeated DEF Unseen, Attaching
  <2>2. told[c] = NothingTold
    BY <2>1 DEF NewsInv, NewsOf, Present
  <2> QED
    BY <1>2, <1>10, <2>1, <2>2 DEF Unseen
<1>12. /\ \A d \in Conns : d # c => told'[d] = next[d]
       /\ told'[c].news = next[c].news /\ told'[c].last = next[c].last
       /\ IF changed \/ sock[c] # "open" THEN told'[c] = next[c]
          ELSE told'[c].signals = next[c].signals \o Replay(mine)
  BY <1>7, <1>10 DEF Told
<1>13. obj'[o] = rm /\ \A q \in Objs : q # o => obj'[q] = obj[q]
  BY <1>0, <1>6
<1>14. /\ \A q \in Objs, r \in Role :
            /\ Seat(q, r)' = IF q = o /\ r = role THEN c ELSE Seat(q, r)
            /\ obj'[q].slots[r].epoch = IF q = o /\ r = role THEN e ELSE obj[q].slots[r].epoch
       /\ \A q \in Objs, r \in Role :
            Seat(q, r)' = IF q = o /\ r = role THEN c ELSE Seat(q, r)
  BY <1>2, <1>5, <1>13 DEF Seat
<1>15. sess' = [sess EXCEPT ![c] = [room |-> o, role |-> role]]
  BY <1>1 DEF RejoinAttach
<1>16. /\ \A d \in Conns : sock'[d] = sock[d] \/ (sock[d] = "open" /\ sock'[d] = "closing")
       /\ \A d \in Conns : Seat(o, role) = d => sock'[d] # "open"
  <2>1. sock' = Close({Seat(o, role)})
    BY <1>1 DEF RejoinAttach, Seat
  <2> QED
    BY <1>0, <2>1, CloseFacts
<1>17. \A d \in Conns :
         IF sock[d] = "open" /\ Seat(o, Other(role)) = d
         THEN told'[d].news = e
         ELSE /\ told'[d].news = told[d].news /\ told'[d].last = told[d].last
              /\ d = c \/ told'[d] = told[d]
  BY <1>10, <1>12
<1>18. h[c].at \in {"joinLock", "rejoinLock"}
  BY <1>0
<1>19. NewsInv'
  BY <1>4, <1>14, <1>15, <1>16, <1>17, <1>18, SeatNews
<1>20. ASSUME RelayInv, FreshEpochs PROVE RelayInv'
  <2>1. SlotAt(o, role) = mine /\ SlotAt(o, Other(role)) = other
        /\ SlotAt(o, role)' = rm.slots[role] /\ SlotAt(o, Other(role))' = rm.slots[Other(role)]
    BY <1>13 DEF SlotAt
  <2>2. (changed /\ Seat(o, Other(role)) # NoConn) \/ Carries(o, role, e)
    <3>1. CASE ~changed
      BY <1>5, <2>1, <3>1 DEF Carries
    <3>2. CASE changed /\ Seat(o, Other(role)) = NoConn
      <4>1. obj'[o].slots[role].epoch = e
        BY <1>5, <1>13
      <4>2. (e = mine.epoch /\ ~h[c].recreated) \/ Unheard(o, role, e)
        BY <1>15, <1>18, <1>20, <4>1, FreshOf
      <4> QED
        BY <1>8, <3>2, <4>2 DEF Carries
    <3> QED
      BY <3>1, <3>2
  <2>3. /\ SlotAt(o, role)'.epoch = e
        /\ SlotAt(o, Other(role))'.epoch = SlotAt(o, Other(role)).epoch
        /\ \/ SlotAt(o, role)'.buffer = << >>
           \/ /\ SlotAt(o, role)'.buffer = SlotAt(o, role).buffer
              /\ SlotAt(o, Other(role))'.lastSeq = SlotAt(o, Other(role)).lastSeq
        /\ \/ SlotAt(o, Other(role))'.buffer = << >>
           \/ /\ SlotAt(o, Other(role))'.buffer = SlotAt(o, Other(role)).buffer
              /\ Carries(o, role, e)
    BY <1>5, <2>1, <2>2
  <2>4. \A d \in Conns : d # c =>
          \/ told'[d].signals = << >>
          \/ /\ told'[d].signals = told[d].signals
             /\ sock[d] = "open" /\ Seat(o, Other(role)) = d => Carries(o, role, e)
    BY <1>10, <1>12, <2>2, RoomStateAssumption
  <2>5. \/ told'[c].signals = << >>
        \/ told'[c].signals = told[c].signals /\ sock[c] # "open"
        \/ /\ told'[c].signals = Replay(SlotAt(o, role))
           /\ SlotAt(o, Other(role))'.lastSeq = SlotAt(o, Other(role)).lastSeq
    <3>1. NothingTold.signals = << >>
      BY DEF NothingTold
    <3>2. CASE sock[c] # "open"
      BY <1>10, <1>12, <3>2
    <3>3. CASE sock[c] = "open" /\ changed
      BY <1>11, <1>12, <3>1, <3>3
    <3>4. CASE sock[c] = "open" /\ ~changed
      <4>1. Replay(mine) \in Seq(Event)
        BY <1>9, ReplayType
      <4>2. << >> \o Replay(mine) = Replay(mine)
        BY <4>1
      <4> QED
        BY <1>5, <1>11, <1>12, <2>1, <3>1, <3>4, <4>2
    <3> QED
      BY <3>2, <3>3, <3>4
  <2> QED
    BY <1>13, <1>14, <1>16, <1>18, <1>20, <2>3, <2>4, <2>5, SeatRelay
<1> QED
  BY <1>19, <1>20

-----------------------------------------------------------------------------
(* Signals *)

\* The next signal of a sender comes after all of its epoch.
LEMMA AppendInOrder ==
  ASSUME NEW sig \in Seq(Event), NEW x \in Event, NEW s \in Slot, NEW u \in Slot,
         Ordered(sig), Below(sig, s), x.epoch = s.epoch, s.lastSeq < x.seq,
         u.epoch = s.epoch, u.lastSeq = x.seq
  PROVE  Ordered(Append(sig, x)) /\ Below(Append(sig, x), u)
<1> DEFINE n == Len(sig)
           new == Append(sig, x)
<1>1. /\ n \in Nat /\ DOMAIN sig = 1..n /\ DOMAIN new = 1..(n + 1)
      /\ new[n + 1] = x /\ \A i \in 1..n : new[i] = sig[i]
  OBVIOUS
<1>2. x.seq \in Nat /\ s.lastSeq \in Nat /\ \A i \in 1..n : sig[i].seq \in Nat
  <2>1. \A i \in 1..n : sig[i] \in Event
    BY <1>1
  <2> QED
    BY <2>1, RoomStateAssumption DEF Event, Slot
<1> HIDE DEF n, new
<1>3. Ordered(new)
  <2> SUFFICES ASSUME NEW i \in 1..(n + 1), NEW j \in 1..(n + 1), i < j,
                      new[i].epoch = new[j].epoch
               PROVE  new[i].seq < new[j].seq
    BY <1>1 DEF Ordered
  <2>1. i \in 1..n /\ new[i] = sig[i]
    BY <1>1
  <2>2. CASE j = n + 1
    BY <1>1, <1>2, <2>1, <2>2 DEF Below
  <2>3. CASE j # n + 1
    <3>1. j \in 1..n /\ new[j] = sig[j]
      BY <1>1, <2>3
    <3> QED
      BY <1>1, <2>1, <3>1 DEF Ordered
  <2> QED
    BY <2>2, <2>3
<1>4. Below(new, u)
  <2> SUFFICES ASSUME NEW i \in 1..(n + 1), new[i].epoch = u.epoch
               PROVE  new[i].seq <= u.lastSeq
    BY <1>1 DEF Below
  <2>1. CASE i = n + 1
    BY <1>1, <1>2, <2>1
  <2>2. CASE i # n + 1
    <3>1. i \in 1..n /\ new[i] = sig[i]
      BY <1>1, <2>2
    <3> QED
      BY <1>1, <1>2, <3>1 DEF Below
  <2> QED
    BY <2>1, <2>2
<1> QED
  BY <1>3, <1>4 DEF new

\* A higher number leaves everything below it.
LEMMA BelowGrows ==
  ASSUME NEW sig \in Seq(Event), NEW s \in Slot, NEW u \in Slot,
         Below(sig, s), u.epoch = s.epoch, s.lastSeq <= u.lastSeq
  PROVE  Below(sig, u)
<1>1. s.lastSeq \in Nat /\ u.lastSeq \in Nat /\ \A i \in DOMAIN sig : sig[i].seq \in Nat
  <2>1. \A i \in DOMAIN sig : sig[i] \in Event
    OBVIOUS
  <2> QED
    BY <2>1, RoomStateAssumption DEF Event, Slot
<1> QED
  BY <1>1 DEF Below

\* A signal that is buffered is replayed after those before it.
LEMMA ReplayAppend ==
  ASSUME NEW s \in Slot, NEW u \in Slot, NEW bs \in BufferedSignal,
         u.buffer = Append(s.buffer, bs)
  PROVE  Replay(u) = Append(Replay(s), SignalEv(bs.fromEpoch, bs.seq))
<1> DEFINE x == SignalEv(bs.fromEpoch, bs.seq)
           n == Len(s.buffer)
<1>1. /\ s.buffer \in Seq(BufferedSignal) /\ n \in Nat
      /\ Len(u.buffer) = n + 1 /\ u.buffer[n + 1] = bs
      /\ \A i \in 1..n : u.buffer[i] = s.buffer[i]
  BY DEF Slot
<1>2. Replay(s) \in Seq(Event) /\ Len(Replay(s)) = n
  BY <1>1, ReplayType DEF Replay
<1>3. \A i \in 1..n : Replay(s)[i] = SignalEv(s.buffer[i].fromEpoch, s.buffer[i].seq)
  BY DEF Replay
<1>4. Replay(u) = [i \in 1..(n + 1) |-> SignalEv(u.buffer[i].fromEpoch, u.buffer[i].seq)]
  BY <1>1 DEF Replay
<1> DEFINE p == Replay(u)
           q == Append(Replay(s), x)
<1>5. /\ DOMAIN p = 1..(n + 1)
      /\ \A i \in 1..(n + 1) : p[i] = IF i = n + 1 THEN x ELSE Replay(s)[i]
  BY <1>1, <1>3, <1>4
<1>6. /\ DOMAIN q = 1..(n + 1)
      /\ \A i \in 1..(n + 1) : q[i] = IF i = n + 1 THEN x ELSE Replay(s)[i]
  BY <1>1, <1>2
<1>7. p = [i \in 1..(n + 1) |-> p[i]] /\ q = [i \in 1..(n + 1) |-> q[i]]
  BY <1>1, <1>2, <1>4, <1>5, <1>6
<1> HIDE DEF p, q
<1> QED
  BY <1>5, <1>6, <1>7 DEF p, q

\* What a signal does to a client's history.
LEMMA TellSignal ==
  \A v, e, n :
    /\ Tell(v, SignalEv(e, n)).news = v.news
    /\ Tell(v, SignalEv(e, n)).last = v.last
    /\ Tell(v, SignalEv(e, n)).signals = Append(v.signals, SignalEv(e, n))
<1> SUFFICES ASSUME NEW v, NEW e, NEW n
             PROVE  /\ Tell(v, SignalEv(e, n)).news = v.news
                    /\ Tell(v, SignalEv(e, n)).last = v.last
                    /\ Tell(v, SignalEv(e, n)).signals = Append(v.signals, SignalEv(e, n))
  OBVIOUS
<1>1. SignalEv(e, n).type = "signal"
  BY DEF SignalEv
<1> QED
  BY <1>1 DEF Tell, PeerEvents, Responses

\* The order of signals is kept if the sender's number only grows and what
\* is added to the buffer opposite or told to somebody is in order itself.
LEMMA NumberGrows ==
  ASSUME TypeInv, TypeInv', RelayInv, NEW o \in Objs, NEW role \in Role,
         \A q \in Objs : q # o => obj'[q] = obj[q],
         \A q \in Objs, r \in Role : Seat(q, r)' = Seat(q, r),
         sock' = sock,
         SlotAt(o, role)'.epoch = SlotAt(o, role).epoch,
         SlotAt(o, role)'.buffer = SlotAt(o, role).buffer,
         SlotAt(o, role).lastSeq <= SlotAt(o, role)'.lastSeq,
         SlotAt(o, Other(role))'.epoch = SlotAt(o, Other(role)).epoch,
         SlotAt(o, Other(role))'.lastSeq = SlotAt(o, Other(role)).lastSeq,
         HeldInv(o, Other(role))',
         \A d \in Conns : told'[d].signals = told[d].signals \/ HeardInv(d)'
  PROVE  RelayInv'
<1>0. Other(role) \in Role /\ Other(role) # role /\ Other(Other(role)) = role
      /\ \A r \in Role : Other(r) \in Role /\ (r = role \/ r = Other(role))
  BY DEF Other, Role
<1>1. \A q \in Objs, r \in Role : obj[q].slots[r] \in Slot /\ obj'[q].slots[r] \in Slot
  <2>1. \A q \in Objs : obj[q] \in Room /\ obj'[q] \in Room
    BY DEF TypeInv, TypeOK
  <2> QED
    BY <2>1, SlotOf
<1>2. HeldInv(o, role)'
  <2>1. HeldInv(o, role)
    BY DEF RelayInv
  <2>2. Replay(SlotAt(o, role)') = Replay(SlotAt(o, role))
    BY SameReplay
  <2> QED
    BY <2>1, <2>2 DEF HeldInv, Below, SlotAt
<1>3. ASSUME NEW q \in Objs, NEW r \in Role PROVE HeldInv(q, r)'
  <2>1. q # o => HeldInv(q, r)'
    BY DEF RelayInv, HeldInv
  <2> QED
    BY <1>0, <1>2, <2>1
<1>4. ASSUME NEW d \in Conns, told'[d].signals = told[d].signals PROVE HeardInv(d)'
  <2>1. HeardInv(d) /\ told[d].signals \in Seq(Event)
    BY DEF RelayInv, TypeInv, TypeOK, Told
  <2>2. ASSUME sock[d] = "open", NEW q \in Objs, NEW r \in Role, Seat(q, r) = d
        PROVE  Below(told[d].signals, obj'[q].slots[Other(r)])
    <3>1. Below(told[d].signals, obj[q].slots[Other(r)])
      BY <2>1, <2>2 DEF HeardInv
    <3>2. CASE q # o
      BY <3>1, <3>2
    <3>3. CASE q = o /\ r = role
      BY <3>1, <3>3 DEF Below, SlotAt
    <3>4. CASE q = o /\ r = Other(role)
      BY <1>0, <1>1, <2>1, <3>1, <3>4, BelowGrows DEF SlotAt
    <3> QED
      BY <1>0, <3>2, <3>3, <3>4
  <2> QED
    BY <1>4, <2>1, <2>2 DEF HeardInv
<1>5. \A d \in Conns : HeardInv(d)'
  BY <1>4
<1> QED
  BY <1>3, <1>5 DEF RelayInv

\* The four ways of a signal, with the handler's answer.
SignalWay(c, o, role, n, z) ==
  LET mine  == SlotAt(o, role)
      other == SlotAt(o, Other(role))
      f     == [Idle EXCEPT !.at = "replying", !.ev = Ev("overflow", NoEpoch)]
  IN  \/ obj' = obj /\ told' = told /\ Goto(c, Idle)
      \/ /\ mine.lastSeq < n
         /\ obj' = [obj EXCEPT ![o] = Accepted(obj[o], role, n)]
         /\ told' = Send(told, other.conn, SignalEv(mine.epoch, n))
         /\ Goto(c, Idle)
      \/ /\ mine.lastSeq < n
         /\ other.conn = NoConn
         /\ obj' = [obj EXCEPT ![o] = Overflowed(obj[o], role, n)]
         /\ told' = told
         /\ Goto(c, f)
      \/ /\ mine.lastSeq < n
         /\ obj' = [obj EXCEPT ![o] = Buffered(obj[o], role, n, z)]
         /\ told' = told
         /\ Goto(c, Idle)

\* A signal takes one of them.
LEMMA SignalWays ==
  ASSUME TypeInv, NEW c \in Conns, Signal(c)
  PROVE  /\ \E o \in Objs, role \in Role, n \in 1..MaxSeq, z \in Sizes :
              /\ o = h[c].obj /\ role = h[c].role
              /\ SignalWay(c, o, role, n, z)
         /\ h[c].at = "loaded" /\ sock' = sock /\ sess' = sess
<1>0. h[c].at = "loaded" /\ h[c].obj \in Objs /\ h[c].role \in Role
  BY DEF Signal, TypeInv, TypeOK, FrameOK, Handler
<1>1. PICK o \in Objs, role \in Role : o = h[c].obj /\ role = h[c].role
  BY <1>0
<1>2. SlotAt(o, role).lastSeq \in Nat
  BY SlotOf, RoomStateAssumption DEF SlotAt, TypeInv, TypeOK, Slot
<1>3. \A n \in 1..MaxSeq : ~IsDuplicate(SlotAt(o, role), n) <=> SlotAt(o, role).lastSeq < n
  BY <1>2 DEF IsDuplicate
<1>4. PICK n \in 1..MaxSeq, z \in Sizes : SignalWay(c, o, role, n, z)
  BY <1>1, <1>3 DEF Signal, SignalWay, SlotAt
<1> QED
  BY <1>0, <1>1, <1>4 DEF Signal, connVars

\* No way changes a seat or an epoch, and who hears something is in a seat.
LEMMA SignalQuiet ==
  ASSUME TypeInv, NEW c \in Conns, NEW o \in Objs, NEW role \in Role,
         NEW n \in 1..MaxSeq, NEW z \in Sizes, SignalWay(c, o, role, n, z)
  PROVE  /\ \A q \in Objs : q # o => obj'[q] = obj[q]
         /\ \A q \in Objs, r \in Role :
              /\ Seat(q, r)' = Seat(q, r)
              /\ obj'[q].slots[r].epoch = obj[q].slots[r].epoch
         /\ \A d \in Conns :
              /\ told'[d].news = told[d].news /\ told'[d].last = told[d].last
              /\ told'[d] = told[d] \/ Seat(o, Other(role)) = d
<1>0. /\ obj \in [Objs -> Room] /\ obj[o] \in Room /\ Other(role) \in Role
      /\ \A r \in Role : r = role \/ r = Other(role)
  BY DEF TypeInv, TypeOK, Other, Role
<1>1. PICK rm \in {obj[o], Accepted(obj[o], role, n), Overflowed(obj[o], role, n),
                   Buffered(obj[o], role, n, z)} : obj' = [obj EXCEPT ![o] = rm]
  BY <1>0 DEF SignalWay
<1>2. \A r \in Role : /\ rm.slots[r].conn = obj[o].slots[r].conn
                      /\ rm.slots[r].epoch = obj[o].slots[r].epoch
  <2>1. \A r \in Role :
          /\ Accepted(obj[o], role, n).slots[r].conn = obj[o].slots[r].conn
          /\ Overflowed(obj[o], role, n).slots[r].conn = obj[o].slots[r].conn
          /\ Buffered(obj[o], role, n, z).slots[r].conn = obj[o].slots[r].conn
    BY <1>0, AcceptedFacts, OverflowedFacts, BufferedFacts
  <2>2. \A r \in {role, Other(role)} :
          /\ Accepted(obj[o], role, n).slots[r].epoch = obj[o].slots[r].epoch
          /\ Overflowed(obj[o], role, n).slots[r].epoch = obj[o].slots[r].epoch
          /\ Buffered(obj[o], role, n, z).slots[r].epoch = obj[o].slots[r].epoch
    <3>0. PICK before \in Room : before = obj[o]
      BY <1>0
    <3> DEFINE acc == Accepted(before, role, n).slots
               ovf == Overflowed(before, role, n).slots
               buf == Buffered(before, role, n, z).slots
               old == before.slots
    <3>1. /\ acc[Other(role)] = old[Other(role)] /\ acc[role].epoch = old[role].epoch
          /\ ovf[role] = acc[role] /\ buf[role] = acc[role]
          /\ ovf[Other(role)].epoch = old[Other(role)].epoch
          /\ buf[Other(role)].epoch = old[Other(role)].epoch
      BY SignalRelay, ZenonT(60)
    <3> HIDE DEF acc, ovf, buf, old
    <3>2. \A r \in {role, Other(role)} : /\ acc[r].epoch = old[r].epoch
                                         /\ ovf[r].epoch = old[r].epoch
                                         /\ buf[r].epoch = old[r].epoch
      BY <3>1
    <3> QED
      BY <3>0, <3>2 DEF acc, ovf, buf, old
  <2> QED
    BY <1>0, <2>1, <2>2
<1>3. /\ \A q \in Objs : q # o => obj'[q] = obj[q]
      /\ \A q \in Objs, r \in Role :
           /\ Seat(q, r)' = Seat(q, r)
           /\ obj'[q].slots[r].epoch = obj[q].slots[r].epoch
  BY <1>0, <1>1, <1>2 DEF Seat
<1>4. \A d \in Conns :
        /\ told'[d].news = told[d].news /\ told'[d].last = told[d].last
        /\ told'[d] = told[d] \/ Seat(o, Other(role)) = d
  <2>1. CASE told' = told
    BY <2>1
  <2>2. CASE told' = Send(told, Seat(o, Other(role)), SignalEv(SlotAt(o, role).epoch, n))
    BY <2>2, SendFacts, TellSignal
  <2> QED
    BY <2>1, <2>2 DEF SignalWay, SlotAt, Seat
<1> QED
  BY <1>3, <1>4

\* A signal is no news of an epoch; an overflow is answered while nobody is
\* opposite.
LEMMA SignalNews ==
  ASSUME TypeInv, AttachInv, NewsInv, NEW c \in Conns, Signal(c)
  PROVE  NewsInv'
<1>1. PICK o \in Objs, role \in Role, n \in 1..MaxSeq, z \in Sizes :
        o = h[c].obj /\ role = h[c].role /\ SignalWay(c, o, role, n, z)
  BY SignalWays
<1>2. h[c].at = "loaded" /\ sock' = sock /\ sess' = sess
  BY SignalWays
<1>3. /\ \A q \in Objs, r \in Role :
           /\ Seat(q, r)' = Seat(q, r)
           /\ obj'[q].slots[r].epoch = obj[q].slots[r].epoch
      /\ \A d \in Conns :
           /\ told'[d].news = told[d].news /\ told'[d].last = told[d].last
           /\ told'[d] = told[d] \/ Seat(o, Other(role)) = d
  BY <1>1, SignalQuiet
<1>4. Other(role) \in Role /\ \A r \in Role : Other(r) \in Role
  BY OtherRole
<1>5. PICK f : /\ Goto(c, f)
               /\ \/ f.at = "idle"
                  \/ /\ f.at = "replying" /\ f.ev.type = "overflow"
                     /\ Seat(o, Other(role)) = NoConn
  <2> DEFINE f1 == [Idle EXCEPT !.at = "replying", !.ev = Ev("overflow", NoEpoch)]
  <2>1. f1.at = "replying" /\ f1.ev.type = "overflow" /\ Idle.at = "idle"
    BY DEF Idle, Ev
  <2>2. Goto(c, Idle) \/ (Goto(c, f1) /\ Seat(o, Other(role)) = NoConn)
    BY <1>1 DEF SignalWay, SlotAt, Seat
  <2> HIDE DEF f1
  <2> QED
    BY <2>1, <2>2
<1>6. \A d \in Conns : h'[d] = IF d = c THEN f ELSE h[d]
  BY <1>5 DEF Goto, TypeInv, TypeOK
<1>7. \A d \in Conns : told'[d] = told[d] \/ ~Unseen(d)'
  BY <1>3, <1>4 DEF Unseen
<1>8. ASSUME NEW d \in Conns, d # c PROVE NewsOf(d)'
  BY <1>2, <1>3, <1>4, <1>6, <1>7, <1>8, QuietNews DEF NewsInv
<1>9. NewsOf(c)'
  <2>0. NewsOf(c) /\ h'[c] = f
    BY <1>6 DEF NewsInv
  <2>1. sock[c] = "open" => sess[c].room = o /\ sess[c].role = role /\ o # NoObj
    BY <1>1, <1>2, <2>0 DEF NewsOf, LoadedInv, Objs, NoObj
  <2>2. ReplyInv(c)' /\ LoadedInv(c)'
    BY <1>2, <1>5, <2>0, <2>1 DEF ReplyInv, LoadedInv, Replies
  <2>3. Present(c)' /\ Unseen(c)' => told'[c] = NothingTold
    BY <1>2, <1>3, <1>7, <2>0 DEF NewsOf, Present, Unseen
  <2>4. ASSUME sock[c] = "open", NEW q \in Objs, NEW r \in Role, Seat(q, r) = c
        PROVE  NewsAt(c, q, r)'
    <3>1. NewsAt(c, q, r)
      BY <2>0, <2>4 DEF NewsOf
    <3>2. Seat(o, role) = c
      BY <2>1, <2>4 DEF AttachInv, ConnInv, SessionSeated
    <3>3. q = o /\ r = role
      BY <2>4, <3>2, OneSeat
    <3>4. f.at = "idle" => ~Answering(c, "overflow")'
      BY <2>0 DEF Answering
    <3>5. Expected(c)' = told[c].last /\ Expected(c) = told[c].last
      BY <1>2, <1>3, <1>5, <2>0 DEF Expected, Responses
    <3>6. Answering(c, "overflow")' => Seat(o, Other(role))' = NoConn
      BY <1>3, <1>4, <1>5, <3>4
    <3>7. ~(h'[c].at = "created" \/ Answering(c, "create-response")')
      BY <1>5, <2>0 DEF Answering
    <3> QED
      BY <1>3, <1>4, <3>1, <3>3, <3>5, <3>6, <3>7 DEF NewsAt
  <2> QED
    BY <1>2, <1>3, <2>2, <2>3, <2>4 DEF NewsOf
<1> QED
  BY <1>8, <1>9 DEF NewsInv

\* A signal is forwarded or buffered behind all of its epoch, or its buffer
\* is dropped.
LEMMA SignalOrder ==
  ASSUME TypeInv, AttachInv, RelayInv, NEW c \in Conns, Signal(c)
  PROVE  RelayInv'
<1>1. PICK o \in Objs, role \in Role, n \in 1..MaxSeq, z \in Sizes :
        o = h[c].obj /\ role = h[c].role /\ SignalWay(c, o, role, n, z)
  BY SignalWays
<1>2. sock' = sock /\ TypeInv'
  BY SignalWays, SignalType
<1>3. PICK before \in Room : before = obj[o]
  BY DEF TypeInv, TypeOK
<1>4. /\ \A q \in Objs : q # o => obj'[q] = obj[q]
      /\ \A q \in Objs, r \in Role : Seat(q, r)' = Seat(q, r)
  BY <1>1, SignalQuiet
<1>5. Other(role) \in Role /\ Other(role) # role /\ Other(Other(role)) = role
  BY DEF Other, Role
<1>6. PICK mine, other, mine1, other1 :
        /\ mine = SlotAt(o, role) /\ other = SlotAt(o, Other(role))
        /\ mine1 = SlotAt(o, role)' /\ other1 = SlotAt(o, Other(role))'
  OBVIOUS
<1>7. /\ mine \in Slot /\ other \in Slot /\ mine1 \in Slot /\ other1 \in Slot
      /\ mine = before.slots[role] /\ other = before.slots[Other(role)]
  <2>1. obj[o] \in Room /\ obj'[o] \in Room
    BY <1>2 DEF TypeInv, TypeOK
  <2> QED
    BY <1>3, <1>5, <1>6, <2>1, SlotOf DEF SlotAt
<1>8. mine.epoch \in OptEpoch /\ mine.lastSeq \in Nat /\ n \in Nat
  BY <1>7, RoomStateAssumption, SMTT(30) DEF Slot
<1>9. PICK x \in Event : x = SignalEv(mine.epoch, n)
  BY <1>8, EventTypes
<1>10. x.epoch = mine.epoch /\ x.seq = n
  BY <1>9 DEF SignalEv
<1>11. HeldInv(o, Other(role)) /\ Below(Replay(other), mine) /\ Ordered(Replay(other))
  BY <1>5, <1>6 DEF RelayInv, HeldInv, SlotAt
<1>12. Replay(other) \in Seq(Event)
  BY <1>7, ReplayType
<1>13. Below(Replay(other1), mine1) /\ Ordered(Replay(other1)) => HeldInv(o, Other(role))'
  BY <1>5, <1>6 DEF HeldInv, SlotAt
<1>14. \A rm : obj' = [obj EXCEPT ![o] = rm] =>
         mine1 = rm.slots[role] /\ other1 = rm.slots[Other(role)]
  BY <1>6 DEF SlotAt, TypeInv, TypeOK
<1>15. ASSUME /\ mine1.epoch = mine.epoch /\ mine1.buffer = mine.buffer
              /\ mine.lastSeq <= mine1.lastSeq
              /\ other1.epoch = other.epoch /\ other1.lastSeq = other.lastSeq,
              HeldInv(o, Other(role))',
              \A d \in Conns : told'[d].signals = told[d].signals \/ HeardInv(d)'
       PROVE  RelayInv'
  BY <1>2, <1>4, <1>6, <1>15, NumberGrows
<1>16. CASE obj' = obj /\ told' = told
  <2>1. mine1 = mine /\ other1 = other
    BY <1>6, <1>16 DEF SlotAt
  <2> QED
    BY <1>8, <1>11, <1>13, <1>15, <1>16, <2>1
<1>17. CASE /\ mine.lastSeq < n
            /\ obj' = [obj EXCEPT ![o] = Accepted(before, role, n)]
            /\ told' = Send(told, Seat(o, Other(role)), x)
  <2>0. mine1 = Accepted(before, role, n).slots[role] /\ other1 = Accepted(before, role, n).slots[Other(role)]
    BY <1>14, <1>17
  <2>1. /\ mine1.epoch = mine.epoch /\ mine1.buffer = mine.buffer /\ mine1.lastSeq = n
        /\ other1 = other
    BY <1>7, <2>0, SignalRelay
  <2>2. HeldInv(o, Other(role))'
    BY <1>7, <1>8, <1>11, <1>12, <1>13, <1>17, <2>1, BelowGrows
  <2>3. ASSUME NEW d \in Conns PROVE told'[d].signals = told[d].signals \/ HeardInv(d)'
    <3>1. CASE ~(d = Seat(o, Other(role)) /\ sock[d] = "open")
      BY <1>17, <3>1, SendFacts
    <3>2. CASE d = Seat(o, Other(role)) /\ sock[d] = "open"
      <4>1. told'[d] = Tell(told[d], x)
        BY <1>17, <3>2, SendFacts
      <4>2. told'[d].signals = Append(told[d].signals, x)
        BY <1>9, <4>1, TellSignal
      <4>3. told[d].signals \in Seq(Event)
        BY DEF TypeInv, TypeOK, Told
      <4>4. Ordered(told[d].signals) /\ Below(told[d].signals, mine)
        BY <1>5, <1>6, <3>2 DEF RelayInv, HeardInv, SlotAt
      <4>5. Ordered(told'[d].signals) /\ Below(told'[d].signals, mine1)
        BY <1>7, <1>10, <1>17, <2>1, <4>2, <4>3, <4>4, AppendInOrder
      <4>6. ASSUME NEW q \in Objs, NEW r \in Role, Seat(q, r) = d
            PROVE  q = o /\ Other(r) = role
        BY <1>5, <3>2, <4>6, OneSeat
      <4> QED
        BY <1>2, <1>4, <1>6, <4>5, <4>6 DEF HeardInv, SlotAt
    <3> QED
      BY <3>1, <3>2
  <2> QED
    BY <1>8, <1>15, <1>17, <2>1, <2>2, <2>3
<1>18. CASE /\ mine.lastSeq < n
            /\ obj' = [obj EXCEPT ![o] = Overflowed(before, role, n)]
            /\ told' = told
  <2>0. mine1 = Overflowed(before, role, n).slots[role] /\ other1 = Overflowed(before, role, n).slots[Other(role)]
    BY <1>14, <1>18
  <2>a. /\ Buffered(before, role, n, z).slots[role] = Accepted(before, role, n).slots[role]
        /\ Overflowed(before, role, n).slots[role] = Accepted(before, role, n).slots[role]
        /\ Accepted(before, role, n).slots[role].epoch = before.slots[role].epoch
        /\ Accepted(before, role, n).slots[role].buffer = before.slots[role].buffer
        /\ Accepted(before, role, n).slots[role].lastSeq = n
        /\ Overflowed(before, role, n).slots[Other(role)].epoch = before.slots[Other(role)].epoch
        /\ Overflowed(before, role, n).slots[Other(role)].lastSeq =
             before.slots[Other(role)].lastSeq
        /\ Overflowed(before, role, n).slots[Other(role)].buffer = << >>
    BY SignalRelay, ZenonT(60)
  <2>1. /\ mine1.epoch = mine.epoch /\ mine1.buffer = mine.buffer /\ mine1.lastSeq = n
        /\ other1.epoch = other.epoch /\ other1.lastSeq = other.lastSeq
        /\ other1.buffer = << >>
    BY <1>7, <2>0, <2>a
  <2>2. Replay(other1) = << >>
    BY <2>1 DEF Replay
  <2>3. HeldInv(o, Other(role))'
    BY <1>13, <2>2 DEF Below, Ordered
  <2> QED
    BY <1>8, <1>15, <1>18, <2>1, <2>3
<1>19. CASE /\ mine.lastSeq < n
            /\ obj' = [obj EXCEPT ![o] = Buffered(before, role, n, z)]
            /\ told' = told
  <2> DEFINE bs == [fromEpoch |-> mine.epoch, seq |-> n, size |-> z]
  <2>0. mine1 = Buffered(before, role, n, z).slots[role] /\ other1 = Buffered(before, role, n, z).slots[Other(role)]
    BY <1>14, <1>19
  <2>1. /\ mine1.epoch = mine.epoch /\ mine1.buffer = mine.buffer /\ mine1.lastSeq = n
        /\ other1.epoch = other.epoch /\ other1.lastSeq = other.lastSeq
        /\ other1.buffer = Append(other.buffer, bs)
    BY <1>7, <2>0, SignalRelay
  <2>2. bs \in BufferedSignal /\ SignalEv(bs.fromEpoch, bs.seq) = x
    BY <1>8, <1>9 DEF BufferedSignal
  <2> HIDE DEF bs
  <2>3. Replay(other1) = Append(Replay(other), x)
    BY <1>7, <2>1, <2>2, ReplayAppend
  <2>4. HeldInv(o, Other(role))'
    BY <1>7, <1>10, <1>11, <1>12, <1>13, <1>19, <2>1, <2>3, AppendInOrder
  <2> QED
    BY <1>8, <1>15, <1>19, <2>1, <2>4
<1> QED
  <2>1. /\ SlotAt(o, role) = mine /\ SlotAt(o, Other(role)) = other
        /\ other.conn = Seat(o, Other(role))
    BY <1>6 DEF SlotAt, Seat
  <2> QED
    BY <1>1, <1>3, <1>9, <1>16, <1>17, <1>18, <1>19, <2>1 DEF SignalWay

-----------------------------------------------------------------------------
(* New rooms, answers *)

\* A room is built, with the connection that builds it in it or with nobody.
LEMMA BuiltTells ==
  ASSUME TypeInv, AttachInv, NewsInv, NEW c \in Conns, NEW f, NEW n \in Objs,
         n \notin Built,
         h[c].at \in {"creating", "recreating"}, Goto(c, f),
         f.at \in {"created", "rejoinLock"},
         sock' = sock, sess' = sess, told' = told,
         \A q \in Objs : q # n => obj'[q] = obj[q],
         \A r \in Role : obj'[n].slots[r].buffer = << >>,
         Seat(n, "host")' \in {c, NoConn}, Seat(n, "guest")' = NoConn,
         obj'[n].slots["guest"].epoch = NoEpoch
  PROVE  NewsInv' /\ (RelayInv => RelayInv')
<1>0. /\ \A r \in Role : Other(r) \in Role /\ (r = "host" \/ r = "guest")
      /\ "host" \in Role /\ "guest" \in Role /\ Other("host") = "guest"
      /\ \A d \in Conns : d # NoConn
  BY RoomStateAssumption DEF Role, Other
<1>1. \A d \in Conns : h'[d] = IF d = c THEN f ELSE h[d]
  BY DEF Goto, TypeInv, TypeOK
<1>2. \A r \in Role : Seat(n, r) = NoConn
  BY DEF AttachInv, MapInv
<1>3. \A q \in Objs, r \in Role : q # n => Seat(q, r)' = Seat(q, r)
  BY DEF Seat
<1>4. \A q \in Objs, r \in Role, d \in Conns :
        d # c => (Seat(q, r)' = d <=> Seat(q, r) = d)
  BY <1>0, <1>2, <1>3
<1>5. sock[c] = "open" => Unseen(c) /\ told[c] = NothingTold
  <2>1. h[c].at \in Attaching /\ h[c].at # "created"
    BY DEF Attaching
  <2>2. sock[c] = "open" => Unseen(c)
    BY <2>1, NotSeated DEF Unseen
  <2> QED
    BY <2>2 DEF NewsInv, NewsOf, Present
<1>6. sock[c] # "new"
  BY Started
<1>7. ASSUME NEW d \in Conns, d # c PROVE NewsOf(d)'
  <2>1. ASSUME NEW q \in Objs, NEW r \in Role, Seat(q, r) = d
        PROVE  /\ obj'[q].slots[Other(r)].epoch = obj[q].slots[Other(r)].epoch
               /\ Seat(q, Other(r))' = Seat(q, Other(r))
    <3>1. q # n
      BY <1>0, <1>2, <2>1
    <3> QED
      BY <1>0, <1>3, <3>1
  <2>2. NewsOf(d) /\ h'[d] = h[d]
    BY <1>1, <1>7 DEF NewsInv
  <2> QED
    BY <1>4, <1>7, <2>1, <2>2, QuietNews
<1>8. NewsOf(c)'
  <2>1. h'[c] = f /\ f.at \notin {"replying", "loaded"}
    BY <1>1
  <2>2. ReplyInv(c)' /\ LoadedInv(c)'
    BY <2>1 DEF ReplyInv, LoadedInv
  <2>3. Present(c)' => sock[c] = "open" /\ told'[c] = NothingTold
    BY <1>5, <1>6 DEF Present
  <2>4. ASSUME sock[c] = "open", NEW q \in Objs, NEW r \in Role, Seat(q, r)' = c
        PROVE  NewsAt(c, q, r)'
    <3>1. q = n /\ r = "host"
      BY <1>0, <1>3, <1>5, <2>4 DEF Unseen
    <3>2. told'[c].news = NoEpoch /\ told'[c].last = NoEpoch
      BY <1>5, <2>4 DEF NothingTold
    <3> QED
      BY <1>0, <2>1, <3>1, <3>2 DEF NewsAt, Expected, Answering
  <2> QED
    BY <2>2, <2>3, <2>4 DEF NewsOf
<1>9. ASSUME RelayInv PROVE RelayInv'
  <2>1. ASSUME NEW q \in Objs, NEW r \in Role PROVE HeldInv(q, r)'
    <3>1. CASE q # n
      BY <1>9, <3>1 DEF RelayInv, HeldInv
    <3>2. CASE q = n
      <4>1. Replay(obj'[n].slots[r]) = << >>
        BY DEF Replay
      <4> QED
        BY <3>2, <4>1 DEF HeldInv, Ordered, Below
    <3> QED
      BY <3>1, <3>2
  <2>2. ASSUME NEW d \in Conns PROVE HeardInv(d)'
    <3>1. HeardInv(d)
      BY <1>9 DEF RelayInv
    <3>2. ASSUME sock[d] = "open", NEW q \in Objs, NEW r \in Role, Seat(q, r)' = d
          PROVE  Below(told[d].signals, obj'[q].slots[Other(r)])
      <4>1. CASE q # n
        BY <1>3, <3>1, <3>2, <4>1 DEF HeardInv
      <4>2. CASE q = n
        <5>1. d = c
          BY <1>0, <1>2, <1>4, <3>2, <4>2
        <5> QED
          BY <1>5, <3>2, <5>1 DEF NothingTold, Below
      <4> QED
        BY <4>1, <4>2
    <3> QED
      BY <3>1, <3>2 DEF HeardInv
  <2> QED
    BY <2>1, <2>2 DEF RelayInv
<1> QED
  BY <1>7, <1>8, <1>9 DEF NewsInv

\* create-room and a rejoin of a room that is gone.
LEMMA BuildingTells ==
  ASSUME TypeInv, AttachInv, NewsInv, NEW c \in Conns, PublishRoom(c) \/ Recreate(c)
  PROVE  NewsInv' /\ (RelayInv => RelayInv')
<1>n. PICK n : n = nObj + 1
  OBVIOUS
<1>0. /\ h[c] \in Handler /\ h[c].id \in RoomIds /\ now \in Time /\ IpOf[c] \in IPs
      /\ h[c].createdAt \in Time /\ h[c].t \in Time /\ h[c].password \in BOOLEAN
      /\ n \in Objs /\ n \notin Built /\ obj \in [Objs -> Room]
      /\ "host" \in Role /\ "guest" \in Role
  <2>1. CanBuild /\ h[c].at \in {"creating", "recreating"}
    BY DEF PublishRoom, Recreate
  <2>2. /\ h[c] \in Handler /\ FrameOK(h[c]) /\ now \in Time /\ IpOf[c] \in IPs
        /\ obj \in [Objs -> Room] /\ nObj \in Nat
    BY RoomRegistryAssumption DEF TypeInv, TypeOK
  <2>3. n \in Objs /\ n \notin Built
    BY <1>n, <2>1, <2>2, RoomRegistryAssumption DEF CanBuild, Objs, Built
  <2>4. /\ h[c].createdAt \in Time /\ h[c].t \in Time /\ h[c].password \in BOOLEAN
        /\ h[c].id \in RoomIds
    BY <2>1, <2>2 DEF Handler, FrameOK
  <2> QED
    BY <2>2, <2>3, <2>4 DEF Role
<1>1. sock' = sock /\ sess' = sess /\ told' = told
  BY DEF PublishRoom, Recreate, connVars
<1>2. CASE PublishRoom(c)
  <2>1. PICK e \in Epochs, pw \in Passwords :
          /\ obj' = [obj EXCEPT ![n] =
                       HostAttached(NewRoom(h[c].id, IpOf[c], now, now, pw), c, e)]
          /\ Goto(c, [h[c] EXCEPT !.at = "created", !.obj = n,
                                  !.createdAt = now, !.password = pw])
    BY <1>2, <1>n DEF PublishRoom
  <2> DEFINE new == NewRoom(h[c].id, IpOf[c], now, now, pw)
             rm  == HostAttached(new, c, e)
             f   == [h[c] EXCEPT !.at = "created", !.obj = n,
                                 !.createdAt = now, !.password = pw]
  <2>2. pw \in BOOLEAN
    BY RoomRegistryAssumption
  <2>3. new \in Room /\ new.slots["guest"].conn = NoConn
    BY <1>0, <2>2, NewRoomFacts
  <2>4. rm.slots["host"].conn = c /\ rm.slots["guest"].conn = NoConn
    BY <2>3, HostAttachedFacts
  <2>5. rm.slots["guest"].epoch = NoEpoch /\ \A r \in Role : rm.slots[r].buffer = << >>
    BY <1>0, <2>2, NewRelay
  <2>6. f.at = "created" /\ h[c].at = "creating"
    BY <1>0, <1>2 DEF Handler, PublishRoom
  <2> HIDE DEF rm, f
  <2>7. obj'[n] = rm /\ (\A q \in Objs : q # n => obj'[q] = obj[q]) /\ Goto(c, f)
    BY <1>0, <2>1 DEF rm, f
  <2>8. /\ Seat(n, "host")' \in {c, NoConn} /\ Seat(n, "guest")' = NoConn
        /\ obj'[n].slots["guest"].epoch = NoEpoch
        /\ \A r \in Role : obj'[n].slots[r].buffer = << >>
    BY <2>4, <2>5, <2>7 DEF Seat
  <2> QED
    BY <1>0, <1>1, <2>6, <2>7, <2>8, BuiltTells
<1>3. CASE Recreate(c)
  <2> DEFINE rm == NewRoom(h[c].id, IpOf[c], h[c].createdAt, h[c].t, h[c].password)
             f  == [h[c] EXCEPT !.at = "rejoinLock", !.obj = n, !.recreated = TRUE]
  <2>1. \A r \in Role : rm.slots[r].conn = NoConn
    BY <1>0, NewRoomFacts
  <2>2. \A r \in Role : rm.slots[r] = EmptySlot
    BY DEF NewRoom
  <2>3. f.at = "rejoinLock" /\ h[c].at = "recreating"
    BY <1>0, <1>3 DEF Handler, Recreate
  <2>4. obj' = [obj EXCEPT ![n] = rm] /\ Goto(c, f)
    BY <1>3, <1>n DEF Recreate
  <2> HIDE DEF rm, f
  <2>5. obj'[n] = rm /\ \A q \in Objs : q # n => obj'[q] = obj[q]
    BY <1>0, <2>4
  <2>6. EmptySlot.buffer = << >> /\ EmptySlot.epoch = NoEpoch
    BY DEF EmptySlot
  <2>7. /\ Seat(n, "host")' \in {c, NoConn} /\ Seat(n, "guest")' = NoConn
        /\ obj'[n].slots["guest"].epoch = NoEpoch
        /\ \A r \in Role : obj'[n].slots[r].buffer = << >>
    BY <1>0, <2>1, <2>2, <2>5, <2>6 DEF Seat
  <2> QED
    BY <1>0, <1>1, <2>3, <2>4, <2>5, <2>7, BuiltTells
<1> QED
  BY <1>2, <1>3

\* The creator's session learns its room, and the answer is still to come.
LEMMA CreatorTells ==
  ASSUME TypeInv, AttachInv, NewsInv, NEW c \in Conns, AttachCreator(c)
  PROVE  NewsInv' /\ (RelayInv => RelayInv')
<1>0. /\ obj' = obj /\ sock' = sock /\ told' = told /\ h[c].at = "created"
      /\ h[c] \in Handler /\ h[c].obj \in Objs /\ h[c].obj # NoObj
  BY DEF AttachCreator, TypeInv, TypeOK, FrameOK, Objs, NoObj
<1>1. PICK f : /\ Goto(c, f) /\ f.at = "replying"
               /\ f.ev.type = "create-response" /\ f.ev.epoch = NoEpoch
  <2> DEFINE f0 == [h[c] EXCEPT !.at = "replying", !.ev = Ev("create-response", NoEpoch)]
  <2>1. f0.at = "replying" /\ f0.ev = Ev("create-response", NoEpoch)
    BY <1>0 DEF Handler
  <2>2. Goto(c, f0)
    BY DEF AttachCreator
  <2> HIDE DEF f0
  <2> QED
    BY <2>1, <2>2 DEF Ev
<1>2. \A d \in Conns :
        /\ h'[d] = IF d = c THEN f ELSE h[d]
        /\ d # c => sess'[d] = sess[d]
        /\ sess'[c].room = h[c].obj
  BY <1>1 DEF AttachCreator, Goto, TypeInv, TypeOK
<1>3. \A o \in Objs, r \in Role : Seat(o, r)' = Seat(o, r)
  BY <1>0 DEF Seat
<1>4. ASSUME NEW d \in Conns, d # c PROVE NewsOf(d)'
  BY <1>0, <1>2, <1>3, <1>4, QuietNews, OtherRole DEF NewsInv
<1>5. NewsOf(c)'
  <2>0. NewsOf(c) /\ h'[c] = f
    BY <1>2 DEF NewsInv
  <2>1. ReplyInv(c)' /\ LoadedInv(c)'
    BY <1>0, <1>1, <1>2, <2>0 DEF ReplyInv, LoadedInv, Replies
  <2>2. Present(c)' /\ Unseen(c)' => told'[c] = NothingTold
    BY <1>0, <1>3, <2>0 DEF NewsOf, Present, Unseen
  <2>3. ASSUME sock[c] = "open", NEW q \in Objs, NEW r \in Role, Seat(q, r) = c
        PROVE  NewsAt(c, q, r)'
    <3>1. NewsAt(c, q, r)
      BY <2>0, <2>3 DEF NewsOf
    <3> QED
      BY <1>0, <1>1, <2>0, <3>1 DEF NewsAt, Expected, Answering, Responses
  <2> QED
    BY <1>0, <1>3, <2>1, <2>2, <2>3 DEF NewsOf
<1>6. RelayInv => RelayInv'
  BY <1>0 DEF RelayInv, HeldInv, HeardInv, Seat
<1> QED
  BY <1>4, <1>5, <1>6 DEF NewsInv

\* An answer is sent: what it says of the epoch opposite is what was expected.
LEMMA ReplyTells ==
  ASSUME TypeInv, AttachInv, NewsInv, NEW c \in Conns, Reply(c)
  PROVE  NewsInv' /\ (RelayInv => RelayInv')
<1>0. /\ obj' = obj /\ sock' = sock /\ sess' = sess /\ told' = Send(told, c, h[c].ev)
      /\ h[c].at = "replying" /\ Goto(c, Idle) /\ Idle.at = "idle"
      /\ told \in [Conns -> Told]
  BY DEF Reply, connVars, TypeInv, TypeOK, Idle
<1>1. h[c].ev.type \in Replies /\ h[c].ev.type # "locked-out"
  BY <1>0 DEF NewsInv, NewsOf, ReplyInv, Reply
<1>2. \A d \in Conns : told'[d] =
        IF d = c /\ sock[d] = "open" THEN Tell(told[d], h[c].ev) ELSE told[d]
  BY <1>0, SendFacts
<1>3. /\ Tell(told[c], h[c].ev).news = told[c].news
      /\ Tell(told[c], h[c].ev).signals = told[c].signals
      /\ Tell(told[c], h[c].ev).last = Expected(c)
  BY <1>0, <1>1 DEF Tell, PeerEvents, Replies, Expected, Responses
<1>4. \A d \in Conns : h'[d] = IF d = c THEN Idle ELSE h[d]
  BY <1>0 DEF Goto, TypeInv, TypeOK
<1>5. \A o \in Objs, r \in Role : Seat(o, r)' = Seat(o, r)
  BY <1>0 DEF Seat
<1>6. ASSUME NEW d \in Conns, d # c PROVE NewsOf(d)'
  BY <1>0, <1>2, <1>4, <1>5, <1>6, QuietNews, OtherRole DEF NewsInv
<1>7. NewsOf(c)'
  <2>0. NewsOf(c) /\ h'[c].at = "idle"
    BY <1>0, <1>4 DEF NewsInv
  <2>1. ReplyInv(c)' /\ LoadedInv(c)'
    BY <2>0 DEF ReplyInv, LoadedInv
  <2>2. Present(c)' => sock[c] = "open" /\ ~Unseen(c)'
    <3>1. sock[c] # "new"
      BY <1>0, Started
    <3>2. sock[c] = "open" => sess[c].room # NoObj
      BY <1>0, <1>1, <2>0 DEF NewsOf, ReplyInv
    <3>3. sock[c] = "open" => ~Unseen(c)
      BY <3>2, SessionSeen
    <3> QED
      BY <1>0, <1>5, <3>1, <3>3 DEF Present, Unseen
  <2>3. ASSUME sock[c] = "open", NEW q \in Objs, NEW r \in Role, Seat(q, r) = c
        PROVE  NewsAt(c, q, r)'
    <3>1. NewsAt(c, q, r)
      BY <2>0, <2>3 DEF NewsOf
    <3>2. told'[c].news = told[c].news /\ told'[c].last = Expected(c)
      BY <1>2, <1>3, <2>3
    <3>3. Expected(c)' = told'[c].last /\ ~Answering(c, "overflow")'
          /\ ~Answering(c, "create-response")'
      BY <2>0 DEF Expected, Answering
    <3> QED
      BY <1>0, <2>0, <3>1, <3>2, <3>3 DEF NewsAt
  <2> QED
    BY <1>0, <1>5, <2>1, <2>2, <2>3 DEF NewsOf
<1>8. ASSUME RelayInv PROVE RelayInv'
  <2>1. \A d \in Conns : told'[d].signals = told[d].signals
    BY <1>2, <1>3
  <2> QED
    BY <1>0, <1>8, <2>1 DEF RelayInv, HeldInv, HeardInv, Seat
<1> QED
  BY <1>6, <1>7, <1>8 DEF NewsInv

-----------------------------------------------------------------------------
(* The theorems *)

\* Every step keeps what everybody knows, and the order of signals if the
\* epochs clients attach with are fresh.
LEMMA NextRelay ==
  ASSUME TypeInv, AttachInv, NewsInv, [Next]_vars
  PROVE  /\ NewsInv'
         /\ RelayInv /\ (FreshEpochs \/ UNCHANGED vars) => RelayInv'
<1>1. CASE Calm /\ HandlersCalm
  BY <1>1, CalmNews, CalmRelay
<1>2. ASSUME NEW c \in Conns, Continue(c), ~(Calm /\ HandlersCalm)
      PROVE  /\ NewsInv'
             /\ RelayInv /\ (FreshEpochs \/ UNCHANGED vars) => RelayInv'
  <2>1. \/ PublishRoom(c) \/ Recreate(c) \/ AttachCreator(c) \/ Reply(c) \/ Signal(c)
        \/ JoinAttach(c) \/ RejoinAttach(c)
    BY <1>2, ConnectionsCalm, LookupsCalm, RoomStepsCalm DEF Continue
  <2>2. CASE PublishRoom(c) \/ Recreate(c)
    BY <2>2, BuildingTells
  <2>3. CASE AttachCreator(c)
    BY <2>3, CreatorTells
  <2>4. CASE Reply(c)
    BY <2>4, ReplyTells
  <2>5. CASE Signal(c)
    BY <2>5, SignalNews, SignalOrder
  <2>6. CASE UNCHANGED vars
    BY <1>2, <2>6, OthersCalm
  <2>7. CASE JoinAttach(c) /\ ~UNCHANGED vars
    BY <2>7, JoinTells
  <2>8. CASE RejoinAttach(c) /\ ~UNCHANGED vars
    BY <2>8, RejoinTells
  <2> QED
    BY <2>1, <2>2, <2>3, <2>4, <2>5, <2>6, <2>7, <2>8
<1>3. ASSUME NEW c \in Conns, Accept(c) \/ SocketCloses(c) \/ Request(c) \/ Release(c)
      PROVE  Calm /\ HandlersCalm
  BY <1>3, ConnectionsCalm, LookupsCalm
<1> QED
  BY <1>1, <1>2, <1>3, OthersCalm DEF Next

\* The epochs that two facing connections know follow from the invariant.
LEMMA NewsInvKnows == TypeInv /\ AttachInv /\ NewsInv => EpochNews
<1> SUFFICES ASSUME TypeInv, AttachInv, NewsInv, NEW c \in Conns, NEW p \in Conns,
                    NEW o \in Objs, NEW role \in Role, Facing(c, p, o, role),
                    told[c].news = NoEpoch
             PROVE  obj[o].slots[Other(role)].epoch =
                      IF h[c].at = "replying" THEN h[c].ev.epoch ELSE told[c].last
  <2>1. ASSUME NEW c \in Conns, NEW p \in Conns, NEW o \in Objs, NEW role \in Role,
               TypeInv, AttachInv, NewsInv, Facing(c, p, o, role), told[c].news # NoEpoch
        PROVE  told[c].news = obj[o].slots[Other(role)].epoch
    BY <2>1 DEF NewsInv, NewsOf, NewsAt, Facing, Seat
  <2> QED
    BY <2>1 DEF EpochNews
<1>1. sock[c] = "open" /\ Seat(o, role) = c /\ Seat(o, Other(role)) = p /\ p # NoConn
  BY RoomStateAssumption DEF Facing, Seat
<1>2. NewsAt(c, o, role) /\ ReplyInv(c)
  BY <1>1 DEF NewsInv, NewsOf
<1>4. CASE h[c].at # "replying"
  BY <1>2, <1>4 DEF NewsAt, Expected
<1>5. CASE h[c].at = "replying"
  <2>1. ~Answering(c, "overflow")
    BY <1>1, <1>2 DEF NewsAt
  <2>2. h[c].ev.type # "locked-out"
    <3>1. sess[c].room # NoObj
      <4>1. SeatsOf(c) /\ o # NoObj
        BY <1>1 DEF AttachInv, ConnInv, Objs, NoObj
      <4>2. sess[c] = [room |-> o, role |-> role]
        BY <1>1, <1>5, <4>1 DEF SeatsOf, Publishing
      <4>3. sess[c].room = o
        BY <4>2
      <4> QED
        BY <4>1, <4>3
    <3> QED
      BY <1>1, <1>2, <1>5, <3>1 DEF ReplyInv
  <2>3. h[c].ev.type \in Responses \union {"create-response"}
    BY <1>2, <1>5, <2>1, <2>2 DEF ReplyInv, Replies, Responses, Answering
  <2>4. CASE h[c].ev.type \in Responses
    BY <1>2, <1>5, <2>4 DEF NewsAt, Expected
  <2>5. CASE h[c].ev.type = "create-response"
    <3>1. h[c].ev.epoch = NoEpoch
      BY <1>2, <1>5, <2>5 DEF ReplyInv
    <3>2. told[c].last = NoEpoch
      BY <1>2, <1>5, <2>5 DEF NewsAt, Answering
    <3> QED
      BY <1>2, <1>5, <2>5, <3>1, <3>2 DEF NewsAt, Expected, Responses
  <2> QED
    BY <2>3, <2>4, <2>5
<1> QED
  BY <1>4, <1>5

\* Two connections that face each other in a room know each other's epoch, from
\* the latest peer event or from the response, whichever handlers attach them
\* and in whichever order their answers leave (JoinRoom, RejoinRoom, Signal).
THEOREM EpochsKnown == Spec => []EpochNews
<1>1. Init => TypeInv /\ AttachInv /\ NewsInv
  BY InitType, InitAttach, InitNews
<1>2. TypeInv /\ AttachInv /\ NewsInv /\ [Next]_vars => (TypeInv /\ AttachInv /\ NewsInv)'
  BY NextType, NextAttach, NextRelay
<1> QED
  BY <1>1, <1>2, NewsInvKnows, PTL DEF Spec

\* With clients that attach under fresh epochs, the signals a connection is sent
\* between two peer-resets are in increasing sequence within each sender epoch:
\* forwarded, buffered and replayed ones alike, whichever way each one takes.
THEOREM SignalsInOrder == RelaySpec => []RelayOrder
<1>1. Init => TypeInv /\ AttachInv /\ NewsInv /\ RelayInv
  BY InitType, InitAttach, InitNews
<1>2. TypeInv /\ AttachInv /\ NewsInv /\ RelayInv /\ [Next /\ FreshEpochs]_vars
        => (TypeInv /\ AttachInv /\ NewsInv /\ RelayInv)'
  BY NextType, NextAttach, NextRelay
<1>3. RelayInv => RelayOrder
  BY DEF RelayInv, HeardInv, Ordered, RelayOrder
<1> QED
  BY <1>1, <1>2, <1>3, PTL DEF RelaySpec
=============================================================================
