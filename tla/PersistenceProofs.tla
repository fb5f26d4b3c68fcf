------------------------- MODULE PersistenceProofs -------------------------
(***************************************************************************)
(* Theorems about Persistence, for any number of connections, rooms and    *)
(* generations, any queue and any batch: the state is well typed, the      *)
(* files catch up with the rooms, and a crash loses nothing that had       *)
(* settled.                                                                *)
(***************************************************************************)
EXTENDS Persistence, RoomStateProofs

-----------------------------------------------------------------------------
(* What a file must have of a room *)

\* SameButUnmarked, field by field; x and y are rooms or snapshots of rooms.
Alike(x, y) ==
  /\ x.id = y.id /\ x.createdAt = y.createdAt /\ x.expiresAt = y.expiresAt
  /\ x.peerDeadlineAt = y.peerDeadlineAt /\ x.password = y.password
  /\ x.ownerIP = y.ownerIP
  /\ \A r \in Role :
       /\ x.slots[r].epoch = y.slots[r].epoch
       /\ x.slots[r].reportedConnected = y.slots[r].reportedConnected
       /\ x.slots[r].buffer = y.slots[r].buffer
       /\ x.slots[r].bufferBytes = y.slots[r].bufferBytes
       /\ x.slots[r].overflowReset = y.slots[r].overflowReset
       /\ x.slots[r].lastSeq <= y.slots[r].lastSeq

\* Somebody has been in the room.
Known(x) == \E r \in Role : x.slots[r].epoch # NoEpoch

\* No signal waits in the room.
Bufferless(x) == \A r \in Role : x.slots[r].buffer = << >>

\* What every section keeps: a room somebody has been in stays one, and only
\* such a room buffers signals.
Keeps(x, y) == /\ Known(x) => Known(y)
               /\ Bufferless(x) => Known(y) \/ Bufferless(y)

\* The snapshot of a slot is what its name says.
LEMMA SlotSnapshotFacts ==
  ASSUME NEW s \in Slot
  PROVE  /\ slotSnapshot(s) \in SlotSnapshot
         /\ slotSnapshot(s).epoch = s.epoch
         /\ slotSnapshot(s).reportedConnected = s.reportedConnected
         /\ slotSnapshot(s).lastSeq = s.lastSeq
         /\ slotSnapshot(s).buffer = s.buffer
         /\ slotSnapshot(s).bufferBytes = s.bufferBytes
         /\ slotSnapshot(s).overflowReset = s.overflowReset
BY DEF slotSnapshot, Slot, SlotSnapshot

\* The snapshot of a room has all its fields but the connections and the
\* scheduled release.
LEMMA SnapshotFacts ==
  ASSUME NEW rm \in Room
  PROVE  /\ marshalSnapshot(rm) \in RoomSnapshot
         /\ Alike(marshalSnapshot(rm), rm)
         /\ marshalSnapshot(rm).passwordAttempts = rm.passwordAttempts
         /\ \A r \in Role : marshalSnapshot(rm).slots[r] = slotSnapshot(rm.slots[r])
<1> DEFINE f == [r \in Role |-> slotSnapshot(rm.slots[r])]
<1>1. \A r \in Role : rm.slots[r] \in Slot /\ rm.slots[r].lastSeq \in 0..MaxSeq
  BY SlotOf DEF Slot
<1>2. f \in [Role -> SlotSnapshot] /\ \A r \in Role : f[r] = slotSnapshot(rm.slots[r])
  BY <1>1, SlotSnapshotFacts
<1>3. marshalSnapshot(rm) =
        [id |-> rm.id, createdAt |-> rm.createdAt, expiresAt |-> rm.expiresAt,
         peerDeadlineAt |-> rm.peerDeadlineAt, password |-> rm.password,
         passwordAttempts |-> rm.passwordAttempts, ownerIP |-> rm.ownerIP,
         slots |-> f]
  BY DEF marshalSnapshot
<1> HIDE DEF f
<1>4. marshalSnapshot(rm) \in RoomSnapshot
  BY <1>2, <1>3 DEF Room, RoomSnapshot
<1>5. /\ marshalSnapshot(rm).slots = f
      /\ marshalSnapshot(rm).passwordAttempts = rm.passwordAttempts
  BY <1>3
<1>6. /\ marshalSnapshot(rm).id = rm.id
      /\ marshalSnapshot(rm).createdAt = rm.createdAt
      /\ marshalSnapshot(rm).expiresAt = rm.expiresAt
      /\ marshalSnapshot(rm).peerDeadlineAt = rm.peerDeadlineAt
      /\ marshalSnapshot(rm).password = rm.password
      /\ marshalSnapshot(rm).ownerIP = rm.ownerIP
  BY <1>3
<1>7. Alike(marshalSnapshot(rm), rm)
  BY <1>1, <1>2, <1>5, <1>6, SlotSnapshotFacts, RoomStateAssumption DEF Alike
<1> QED
  BY <1>2, <1>4, <1>5, <1>7

\* Alike is an order.
LEMMA AlikeTrans ==
  ASSUME NEW x \in RoomSnapshot \union Room, NEW y \in RoomSnapshot \union Room,
         NEW z \in RoomSnapshot \union Room, Alike(x, y), Alike(y, z)
  PROVE  Alike(x, z)
<1>1. \A w \in RoomSnapshot \union Room : \A r \in Role : w.slots[r].lastSeq \in Int
  BY RoomStateAssumption DEF RoomSnapshot, Room, Slot, SlotSnapshot
<1> QED
  BY <1>1 DEF Alike

LEMMA AlikeRefl ==
  ASSUME NEW x \in RoomSnapshot \union Room
  PROVE  Alike(x, x)
<1>1. \A r \in Role : x.slots[r].lastSeq \in Int
  BY RoomStateAssumption DEF RoomSnapshot, Room, Slot, SlotSnapshot
<1> QED
  BY <1>1 DEF Alike

\* A snapshot without what no handler marks, as in SameButUnmarked.
Zero(s) == [r \in Role |-> [s.slots[r] EXCEPT !.lastSeq = 0]]

Blur(s) == [s EXCEPT !.passwordAttempts = 0, !.slots = Zero(s)]

\* The file of a room and the room, as FilesCatchUp compares them.
LEMMA SameIsAlike ==
  ASSUME NEW x \in RoomSnapshot, NEW rm \in Room
  PROVE  SameButUnmarked(x, rm) <=> Alike(x, rm)
<1> DEFINE cur == marshalSnapshot(rm)
<1>1. cur \in RoomSnapshot /\ Alike(cur, rm)
  BY SnapshotFacts
<1>1a. Alike(rm, cur)
  <2>1. \A r \in Role : cur.slots[r].lastSeq = rm.slots[r].lastSeq
    BY SnapshotFacts, SlotOf, SlotSnapshotFacts
  <2>2. \A r \in Role : rm.slots[r].lastSeq \in Int
    BY RoomStateAssumption DEF Room, Slot
  <2> QED
    BY <1>1, <2>1, <2>2 DEF Alike
<1>2. SameButUnmarked(x, rm) <=>
        /\ Blur(x) = Blur(cur)
        /\ \A r \in Role : x.slots[r].lastSeq <= cur.slots[r].lastSeq
  BY DEF SameButUnmarked, Blur, Zero
<1> HIDE DEF cur
<1>3. ASSUME NEW y \in RoomSnapshot, NEW r \in Role
      PROVE  /\ y.slots[r] \in SlotSnapshot
             /\ Zero(y)[r].epoch = y.slots[r].epoch
             /\ Zero(y)[r].reportedConnected = y.slots[r].reportedConnected
             /\ Zero(y)[r].buffer = y.slots[r].buffer
             /\ Zero(y)[r].bufferBytes = y.slots[r].bufferBytes
             /\ Zero(y)[r].overflowReset = y.slots[r].overflowReset
  <2>1. y.slots[r] \in SlotSnapshot
    BY DEF RoomSnapshot
  <2>2. Zero(y)[r] = [y.slots[r] EXCEPT !.lastSeq = 0]
    BY DEF Zero
  <2> QED
    BY <2>1, <2>2 DEF SlotSnapshot
<1>4. ASSUME NEW y \in RoomSnapshot
      PROVE  /\ Blur(y).slots = Zero(y)
             /\ Blur(y).id = y.id /\ Blur(y).createdAt = y.createdAt
             /\ Blur(y).expiresAt = y.expiresAt
             /\ Blur(y).peerDeadlineAt = y.peerDeadlineAt
             /\ Blur(y).password = y.password /\ Blur(y).ownerIP = y.ownerIP
  BY DEF RoomSnapshot, Blur
<1>5. ASSUME Blur(x) = Blur(cur),
             \A r \in Role : x.slots[r].lastSeq <= cur.slots[r].lastSeq
      PROVE  Alike(x, rm)
  <2>1. /\ x.id = cur.id /\ x.createdAt = cur.createdAt
        /\ x.expiresAt = cur.expiresAt /\ x.peerDeadlineAt = cur.peerDeadlineAt
        /\ x.password = cur.password /\ x.ownerIP = cur.ownerIP
        /\ Zero(x) = Zero(cur)
    BY <1>1, <1>4, <1>5
  <2>2. ASSUME NEW r \in Role
        PROVE  /\ x.slots[r].epoch = cur.slots[r].epoch
               /\ x.slots[r].reportedConnected = cur.slots[r].reportedConnected
               /\ x.slots[r].buffer = cur.slots[r].buffer
               /\ x.slots[r].bufferBytes = cur.slots[r].bufferBytes
               /\ x.slots[r].overflowReset = cur.slots[r].overflowReset
    <3>1. Zero(x)[r] = Zero(cur)[r]
      BY <2>1
    <3>2. /\ Zero(x)[r].epoch = x.slots[r].epoch
          /\ Zero(x)[r].reportedConnected = x.slots[r].reportedConnected
          /\ Zero(x)[r].buffer = x.slots[r].buffer
          /\ Zero(x)[r].bufferBytes = x.slots[r].bufferBytes
          /\ Zero(x)[r].overflowReset = x.slots[r].overflowReset
      BY <1>3
    <3> QED
      BY <1>1, <1>3, <3>1, <3>2
  <2>3. Alike(x, cur)
    BY <1>5, <2>1, <2>2 DEF Alike
  <2> QED
    BY <1>1, <2>3, AlikeTrans
<1>6. ASSUME Alike(x, rm)
      PROVE  /\ Blur(x) = Blur(cur)
             /\ \A r \in Role : x.slots[r].lastSeq <= cur.slots[r].lastSeq
  <2>1. Alike(x, cur)
    BY <1>1, <1>1a, <1>6, AlikeTrans
  <2>2. ASSUME NEW r \in Role
        PROVE  Zero(x)[r] = Zero(cur)[r]
    <3>1. x.slots[r] \in SlotSnapshot /\ cur.slots[r] \in SlotSnapshot
      BY <1>1, <1>3
    <3>2. [x.slots[r] EXCEPT !.lastSeq = 0] = [cur.slots[r] EXCEPT !.lastSeq = 0]
      BY <2>1, <3>1 DEF Alike, SlotSnapshot
    <3> QED
      BY <3>2 DEF Zero
  <2>3. Zero(x) = Zero(cur)
    BY <2>2 DEF Zero
  <2>4. Blur(x) = Blur(cur)
    BY <1>1, <2>1, <2>3 DEF Alike, RoomSnapshot, Blur
  <2> QED
    BY <2>1, <2>4 DEF Alike
<1> QED
  BY <1>2, <1>5, <1>6

-----------------------------------------------------------------------------
(* What the sections do to what a file must have *)

\* A file and its room were known to the same sides.
LEMMA AlikeKeeps ==
  ASSUME NEW x, NEW y, Alike(x, y)
  PROVE  /\ Keeps(x, y)
         /\ Known(y) => Known(x)
         /\ Bufferless(y) => Bufferless(x)
BY DEF Alike, Keeps, Known, Bufferless

\* A new room has no signals.
LEMMA NewRoomBare ==
  ASSUME NEW id, NEW ip, NEW u, NEW t, NEW pw
  PROVE  Bufferless(NewRoom(id, ip, u, t, pw))
BY DEF NewRoom, EmptySlot, Bufferless

\* Replacing a slot, slot by slot.
LEMMA SlotReplaced ==
  ASSUME NEW rm \in Room, NEW r \in Role, NEW s \in Slot
  PROVE  /\ WithSlot(rm, r, s) \in Room
         /\ \A q \in Role : WithSlot(rm, r, s).slots[q] =
              IF q = r THEN s ELSE rm.slots[q]
<1>1. /\ WithSlot(rm, r, s) \in Room
      /\ WithSlot(rm, r, s).slots = [rm.slots EXCEPT ![r] = s]
  BY WithSlotFacts
<1>2. rm.slots \in [Role -> Slot]
  BY DEF Room
<1> QED
  BY <1>1, <1>2

\* Who attaches makes the room known.
LEMMA AttachedKnown ==
  ASSUME NEW rm \in Room, NEW c \in Conns, NEW e \in Epochs
  PROVE  /\ Known(HostAttached(rm, c, e))
         /\ Known(GuestAttached(rm, c, e))
<1>1. \A s \in Slot : Seated(s, c, e).epoch = e
  BY DEF Seated, Slot
<1>2. e # NoEpoch /\ e \in OptEpoch /\ NoTime \in OptTime
  BY RoomStateAssumption DEF OptEpoch, OptTime
<1>3. ASSUME NEW r \in Role
      PROVE  LET rm1 == WithSlot(rm, r, Seated(rm.slots[r], c, e))
             IN  /\ rm1 \in Room
                 /\ rm1.slots[r].epoch = e
  <2>1. rm.slots[r] \in Slot
    BY SlotOf
  <2>2. Seated(rm.slots[r], c, e) \in Slot /\ Seated(rm.slots[r], c, e).epoch = e
    BY <1>1, <1>2, <2>1, SeatedFacts
  <2> QED
    BY <2>2, SlotReplaced
<1>4. Known(HostAttached(rm, c, e))
  BY <1>2, <1>3 DEF HostAttached, Known, Role
<1>5. LET rm1 == WithSlot(rm, "guest", Seated(rm.slots["guest"], c, e))
      IN  /\ rm1 \in Room
          /\ rm1.slots["guest"].epoch = e
  BY <1>3 DEF Role
<1>6. GuestAttached(rm, c, e).slots["guest"].epoch = e
  BY <1>2, <1>5, WithDeadlineFacts DEF GuestAttached
<1> QED
  BY <1>2, <1>4, <1>6 DEF Known, Role

\* So does who rejoins.
LEMMA RejoinedKnown ==
  ASSUME NEW rm \in Room, NEW r \in Role, NEW c \in Conns, NEW e \in Epochs,
         NEW b \in BOOLEAN, NEW t \in Time
  PROVE  Known(Rejoined(rm, r, c, e, b, t))
<1> DEFINE changed == EpochChanged(rm, r, e, b)
           there   == Occupied(rm, Other(r))
           base    == IF changed THEN ResetSlot(rm.slots[r]) ELSE rm.slots[r]
           mine    == Seated(base, c, e)
           other   == IF changed /\ there THEN ResetSlot(rm.slots[Other(r)])
                      ELSE rm.slots[Other(r)]
           d       == IF there THEN NoTime
                      ELSE computePeerDeadline(t, rm.expiresAt)
           rm1     == WithSlot(rm, r, mine)
           rm2     == WithSlot(rm1, Other(r), other)
<1>0. Other(r) \in Role /\ Other(r) # r /\ e # NoEpoch /\ e \in OptEpoch
  BY OtherRole, RoomStateAssumption DEF OptEpoch
<1>1. base \in Slot /\ other \in Slot
  BY <1>0, SlotOf, ResetSlotFacts
<1>2. d \in OptTime
  BY DeadlineTypes DEF OptTime, Room
<1>7. Rejoined(rm, r, c, e, b, t) = WithDeadline(rm2, d)
  BY DEF Rejoined
<1> HIDE DEF base, other, d
<1>3. mine \in Slot /\ mine.epoch = e
  BY <1>0, <1>1, SeatedFacts DEF Seated, Slot
<1> HIDE DEF mine
<1>4. rm1 \in Room /\ rm1.slots[r] = mine
  BY <1>3, SlotReplaced
<1> HIDE DEF rm1
<1>5. rm2 \in Room /\ rm2.slots[r] = mine
  BY <1>0, <1>1, <1>4, SlotReplaced
<1> HIDE DEF rm2
<1>6. WithDeadline(rm2, d).slots[r] = mine
  BY <1>2, <1>5, WithDeadlineFacts
<1> QED
  BY <1>0, <1>3, <1>6, <1>7 DEF Known

\* A wrong guess, a forwarded signal and the end of a room change nothing a
\* file must have.
LEMMA UnmarkedAlike ==
  ASSUME NEW rm \in Room
  PROVE  /\ Alike(rm, GuessedWrong(rm))
         /\ Alike(rm, Emptied(rm))
         /\ \A r \in Role, n \in 1..MaxSeq :
              n > rm.slots[r].lastSeq => Alike(rm, Accepted(rm, r, n))
<1>0. \A r \in Role : rm.slots[r] \in Slot /\ rm.slots[r].lastSeq \in Int
  BY SlotOf, RoomStateAssumption DEF Slot
<1>1. Alike(rm, GuessedWrong(rm))
  BY <1>0 DEF GuessedWrong, Room, Alike
<1>2. Alike(rm, Emptied(rm))
  <2>1. \A s \in Slot : /\ Unseated(s).epoch = s.epoch
                        /\ Unseated(s).reportedConnected = s.reportedConnected
                        /\ Unseated(s).buffer = s.buffer
                        /\ Unseated(s).bufferBytes = s.bufferBytes
                        /\ Unseated(s).overflowReset = s.overflowReset
                        /\ Unseated(s).lastSeq = s.lastSeq
    BY DEF Unseated, Slot
  <2> DEFINE f == [r \in Role |-> Unseated(rm.slots[r])]
  <2>2. Emptied(rm) = [rm EXCEPT !.slots = f] /\ \A r \in Role : f[r] = Unseated(rm.slots[r])
    BY DEF Emptied
  <2> HIDE DEF f
  <2>3. /\ Emptied(rm).slots = f
        /\ Emptied(rm).id = rm.id /\ Emptied(rm).createdAt = rm.createdAt
        /\ Emptied(rm).expiresAt = rm.expiresAt
        /\ Emptied(rm).peerDeadlineAt = rm.peerDeadlineAt
        /\ Emptied(rm).password = rm.password /\ Emptied(rm).ownerIP = rm.ownerIP
    BY <2>2 DEF Room
  <2> QED
    BY <1>0, <2>1, <2>2, <2>3 DEF Alike
<1>3. ASSUME NEW r \in Role, NEW n \in 1..MaxSeq, n > rm.slots[r].lastSeq
      PROVE  Alike(rm, Accepted(rm, r, n))
  <2> DEFINE s == [rm.slots[r] EXCEPT !.lastSeq = n]
  <2>0. rm.slots[r] \in Slot
    BY <1>0
  <2>1. /\ s.lastSeq = n
        /\ s.epoch = rm.slots[r].epoch
        /\ s.reportedConnected = rm.slots[r].reportedConnected
        /\ s.buffer = rm.slots[r].buffer
        /\ s.bufferBytes = rm.slots[r].bufferBytes
        /\ s.overflowReset = rm.slots[r].overflowReset
    BY <2>0 DEF Slot
  <2>2. Accepted(rm, r, n) = [rm EXCEPT !.slots[r] = s]
    BY DEF Accepted, WithSlot
  <2> HIDE DEF s
  <2>3. /\ Accepted(rm, r, n).slots = [rm.slots EXCEPT ![r] = s]
        /\ Accepted(rm, r, n).id = rm.id
        /\ Accepted(rm, r, n).createdAt = rm.createdAt
        /\ Accepted(rm, r, n).expiresAt = rm.expiresAt
        /\ Accepted(rm, r, n).peerDeadlineAt = rm.peerDeadlineAt
        /\ Accepted(rm, r, n).password = rm.password
        /\ Accepted(rm, r, n).ownerIP = rm.ownerIP
    BY <2>2 DEF Room
  <2>4. \A q \in Role : Accepted(rm, r, n).slots[q] = IF q = r THEN s ELSE rm.slots[q]
    BY <2>3 DEF Room
  <2> QED
    BY <1>0, <1>3, <2>1, <2>3, <2>4 DEF Alike
<1> QED
  BY <1>1, <1>2, <1>3

\* Replacing a slot by one with the same epoch.
LEMMA WithSlotKnown ==
  ASSUME NEW rm \in Room, NEW r \in Role, NEW s \in Slot,
         s.epoch = rm.slots[r].epoch, Known(rm)
  PROVE  Known(WithSlot(rm, r, s))
<1>1. \A q \in Role : WithSlot(rm, r, s).slots[q] = IF q = r THEN s ELSE rm.slots[q]
  BY SlotReplaced
<1> QED
  BY <1>1 DEF Known

\* The other sections leave a known room known.
LEMMA SectionsKnown ==
  ASSUME NEW rm \in Room, NEW r \in Role, Known(rm)
  PROVE  /\ \A n \in 1..MaxSeq : Known(Overflowed(rm, r, n))
         /\ \A n \in 1..MaxSeq, z \in Sizes : Known(Buffered(rm, r, n, z))
         /\ \A t \in Time : Known(Reported(rm, r, t))
         /\ \A c \in Conns, t \in Time : Known(Detached(rm, r, c, t))
<1>0. Other(r) \in Role /\ Other(r) # r
  BY OtherRole
<1>1. \A q \in Role : rm.slots[q] \in Slot
  BY SlotOf
<1>2. ASSUME NEW n \in 1..MaxSeq
      PROVE  /\ Accepted(rm, r, n) \in Room /\ Known(Accepted(rm, r, n))
             /\ Accepted(rm, r, n).slots[Other(r)] = rm.slots[Other(r)]
  <2> DEFINE s == [rm.slots[r] EXCEPT !.lastSeq = n]
  <2>1. n \in 0..MaxSeq /\ rm.slots[r] \in Slot
    BY <1>1, RoomStateAssumption
  <2>2. s \in Slot /\ s.epoch = rm.slots[r].epoch
    BY <2>1 DEF Slot
  <2>3. Accepted(rm, r, n) = WithSlot(rm, r, s)
    BY DEF Accepted
  <2> HIDE DEF s
  <2> QED
    BY <2>2, <2>3, WithSlotKnown, AcceptedFacts
<1>3. ASSUME NEW n \in 1..MaxSeq
      PROVE  Known(Overflowed(rm, r, n))
  <2> DEFINE old == rm.slots[Other(r)]
             s == [old EXCEPT !.buffer = << >>, !.bufferBytes = 0, !.overflowReset = TRUE]
  <2>1. old \in Slot /\ << >> \in Seq(BufferedSignal)
    BY <1>0, <1>1
  <2>3. Overflowed(rm, r, n) = WithSlot(Accepted(rm, r, n), Other(r), s)
    BY DEF Overflowed
  <2>4. old = Accepted(rm, r, n).slots[Other(r)]
    BY <1>2
  <2> HIDE DEF old
  <2>2. s \in Slot /\ s.epoch = old.epoch
    BY <2>1 DEF Slot
  <2> HIDE DEF s
  <2> QED
    BY <1>0, <1>2, <2>2, <2>3, <2>4, WithSlotKnown
<1>4. ASSUME NEW n \in 1..MaxSeq, NEW z \in Sizes
      PROVE  Known(Buffered(rm, r, n, z))
  <2> DEFINE old == rm.slots[Other(r)]
             bs  == [fromEpoch |-> rm.slots[r].epoch, seq |-> n, size |-> z]
             buf == Append(old.buffer, bs)
             s == [old EXCEPT !.buffer = buf, !.bufferBytes = old.bufferBytes + z]
  <2>0. old \in Slot /\ bs \in BufferedSignal
    BY <1>0, <1>1 DEF Slot, BufferedSignal
  <2>3. Buffered(rm, r, n, z) = WithSlot(Accepted(rm, r, n), Other(r), s)
    BY DEF Buffered
  <2>4. old = Accepted(rm, r, n).slots[Other(r)]
    BY <1>2
  <2> HIDE DEF old, bs
  <2>1. buf \in Seq(BufferedSignal) /\ old.bufferBytes + z \in Nat
    BY <2>0, RoomStateAssumption DEF Slot
  <2> HIDE DEF buf
  <2>2. s \in Slot /\ s.epoch = old.epoch
    BY <2>0, <2>1 DEF Slot
  <2> HIDE DEF s
  <2> QED
    BY <1>0, <1>2, <2>2, <2>3, <2>4, WithSlotKnown
<1>5. ASSUME NEW t \in Time
      PROVE  Known(Reported(rm, r, t))
  <2> DEFINE s == [rm.slots[r] EXCEPT !.reportedConnected = TRUE]
             rm1 == WithSlot(rm, r, s)
             d == IF rm.slots[Other(r)].reportedConnected /\ ReleaseSocketsOnPeerConnected
                  THEN t + PeerConnectedGrace ELSE rm1.releaseAt
  <2>0. rm.slots[r] \in Slot
    BY <1>1
  <2>1. s \in Slot /\ s.epoch = rm.slots[r].epoch
    BY <2>0 DEF Slot
  <2>4. Reported(rm, r, t) = [rm1 EXCEPT !.releaseAt = d]
    BY DEF Reported
  <2> HIDE DEF s
  <2>2. rm1 \in Room /\ Known(rm1)
    BY <2>1, WithSlotKnown, WithSlotFacts
  <2> HIDE DEF rm1, d
  <2>3. Reported(rm, r, t).slots = rm1.slots
    BY <2>2, <2>4 DEF Room
  <2> QED
    BY <2>2, <2>3 DEF Known
<1>6. ASSUME NEW c \in Conns, NEW t \in Time
      PROVE  Known(Detached(rm, r, c, t))
  <2>1. Unseated(rm.slots[r]) \in Slot /\ Unseated(rm.slots[r]).epoch = rm.slots[r].epoch
    <3>1. rm.slots[r] \in Slot
      BY <1>1
    <3> QED
      BY <3>1, UnseatedFacts DEF Unseated, Slot
  <2>2. Vacated(rm, r, c) \in Room /\ Known(Vacated(rm, r, c))
    BY <2>1, WithSlotKnown, VacatedFacts DEF Vacated
  <2>3. computePeerDeadline(t, rm.expiresAt) \in OptTime
    BY DeadlineTypes DEF Room, OptTime
  <2>4. Detached(rm, r, c, t).slots = Vacated(rm, r, c).slots
    BY <2>2, <2>3, WithDeadlineFacts DEF Detached
  <2> QED
    BY <2>2, <2>4 DEF Known
<1> QED
  BY <1>3, <1>4, <1>5, <1>6

\* Restore reads back what was written and leaves the seats empty.
LEMMA UnmarshalFacts ==
  ASSUME NEW x \in RoomSnapshot
  PROVE  /\ unmarshalSnapshot(x) \in Room
         /\ Alike(x, unmarshalSnapshot(x)) /\ Alike(unmarshalSnapshot(x), x)
         /\ unmarshalSnapshot(x).releaseAt = NoTime
         /\ \A r \in Role : unmarshalSnapshot(x).slots[r].conn = NoConn
<1> DEFINE f == [r \in Role |-> unmarshalSlot(x.slots[r])]
<1>1. \A r \in Role : x.slots[r] \in SlotSnapshot /\ x.slots[r].lastSeq \in Int
  BY RoomStateAssumption DEF RoomSnapshot, SlotSnapshot
<1>2. \A s \in SlotSnapshot : /\ unmarshalSlot(s) \in Slot
                              /\ unmarshalSlot(s).conn = NoConn
                              /\ unmarshalSlot(s).epoch = s.epoch
                              /\ unmarshalSlot(s).reportedConnected = s.reportedConnected
                              /\ unmarshalSlot(s).lastSeq = s.lastSeq
                              /\ unmarshalSlot(s).buffer = s.buffer
                              /\ unmarshalSlot(s).bufferBytes = s.bufferBytes
                              /\ unmarshalSlot(s).overflowReset = s.overflowReset
  BY DEF unmarshalSlot, SlotSnapshot, Slot
<1>3. f \in [Role -> Slot] /\ \A r \in Role : f[r] = unmarshalSlot(x.slots[r])
  BY <1>1, <1>2
<1>4. unmarshalSnapshot(x) =
        [id |-> x.id, ownerIP |-> x.ownerIP, createdAt |-> x.createdAt,
         expiresAt |-> x.expiresAt, peerDeadlineAt |-> x.peerDeadlineAt,
         releaseAt |-> NoTime, password |-> x.password,
         passwordAttempts |-> x.passwordAttempts, slots |-> f]
  BY DEF unmarshalSnapshot
<1> HIDE DEF f
<1>5. unmarshalSnapshot(x) \in Room
  BY <1>3, <1>4 DEF RoomSnapshot, Room, OptTime
<1>6. /\ unmarshalSnapshot(x).slots = f
      /\ unmarshalSnapshot(x).releaseAt = NoTime
      /\ unmarshalSnapshot(x).id = x.id
      /\ unmarshalSnapshot(x).createdAt = x.createdAt
      /\ unmarshalSnapshot(x).expiresAt = x.expiresAt
      /\ unmarshalSnapshot(x).peerDeadlineAt = x.peerDeadlineAt
      /\ unmarshalSnapshot(x).password = x.password
      /\ unmarshalSnapshot(x).ownerIP = x.ownerIP
  BY <1>4
<1>7. Alike(x, unmarshalSnapshot(x)) /\ Alike(unmarshalSnapshot(x), x)
  BY <1>1, <1>2, <1>3, <1>6 DEF Alike
<1> QED
  BY <1>1, <1>2, <1>3, <1>5, <1>6, <1>7

\* A room as it is after Restore: the room of the file but for its deadline.
LEMMA RestoredFacts ==
  ASSUME NEW x \in RoomSnapshot, NEW t \in Time
  PROVE  /\ RestoredRoom(x, t) \in Room
         /\ Known(x) => Known(RestoredRoom(x, t))
         /\ RestoredRoom(x, t).releaseAt = NoTime
         /\ Occupants(RestoredRoom(x, t)) = {}
         /\ \A y \in Room : Alike(x, y) =>
              /\ WithDeadline(RestoredRoom(x, t), y.peerDeadlineAt) \in Room
              /\ Alike(WithDeadline(RestoredRoom(x, t), y.peerDeadlineAt), y)
<1> DEFINE u == unmarshalSnapshot(x)
           d == computePeerDeadline(t, x.expiresAt)
<1>1. /\ u \in Room /\ Alike(x, u) /\ Alike(u, x) /\ u.releaseAt = NoTime
      /\ \A r \in Role : u.slots[r].conn = NoConn
  BY UnmarshalFacts
<1>2. d \in OptTime
  BY DeadlineTypes DEF RoomSnapshot, OptTime
<1>3. RestoredRoom(x, t) = WithDeadline(u, d)
  BY DEF RestoredRoom
<1> HIDE DEF u, d
<1>4. /\ RestoredRoom(x, t) \in Room
      /\ RestoredRoom(x, t).slots = u.slots
      /\ RestoredRoom(x, t).releaseAt = NoTime
  BY <1>1, <1>2, <1>3, WithDeadlineFacts DEF WithDeadline, Room
<1>5. Known(x) => Known(RestoredRoom(x, t))
  BY <1>1, <1>4 DEF Alike, Known
<1>6. Occupants(RestoredRoom(x, t)) = {}
  BY <1>1, <1>4 DEF Occupants
<1>7. ASSUME NEW y \in Room, Alike(x, y)
      PROVE  /\ WithDeadline(RestoredRoom(x, t), y.peerDeadlineAt) \in Room
             /\ Alike(WithDeadline(RestoredRoom(x, t), y.peerDeadlineAt), y)
  <2> DEFINE w == WithDeadline(RestoredRoom(x, t), y.peerDeadlineAt)
  <2>1. y.peerDeadlineAt \in OptTime
    BY DEF Room
  <2>2. /\ w \in Room /\ w.slots = u.slots /\ w.peerDeadlineAt = y.peerDeadlineAt
        /\ w.id = u.id /\ w.createdAt = u.createdAt /\ w.expiresAt = u.expiresAt
        /\ w.password = u.password /\ w.ownerIP = u.ownerIP
    BY <1>1, <1>2, <1>3, <1>4, <2>1 DEF WithDeadline, Room
  <2> HIDE DEF w
  <2>3. Alike(u, y)
    BY <1>1, <1>7, AlikeTrans
  <2>4. Alike(w, y)
    BY <2>2, <2>3 DEF Alike
  <2> QED
    BY <2>2, <2>4 DEF w
<1> QED
  BY <1>4, <1>5, <1>6, <1>7

-----------------------------------------------------------------------------
(* The heap *)

Heaps == [RoomIds -> Seq(Room)]

SetIn(h, id, g, rm) == [h EXCEPT ![id][g] = rm]

AddTo(h, id, rm) == [h EXCEPT ![id] = Append(h[id], rm)]

\* SetObj, object by object.
LEMMA SetHeap ==
  ASSUME NEW h \in Heaps, NEW id \in RoomIds, NEW g \in 1..Len(h[id]),
         NEW rm \in Room
  PROVE  /\ SetIn(h, id, g, rm) \in Heaps
         /\ \A i \in RoomIds : Len(SetIn(h, id, g, rm)[i]) = Len(h[i])
         /\ \A i \in RoomIds : i # id => SetIn(h, id, g, rm)[i] = h[i]
         /\ SetIn(h, id, g, rm)[id][g] = rm
         /\ \A k \in 1..Len(h[id]) : k # g => SetIn(h, id, g, rm)[id][k] = h[id][k]
<1>1. h[id] \in Seq(Room)
  BY DEF Heaps
<1> DEFINE s == [h[id] EXCEPT ![g] = rm]
<1>2. /\ s \in Seq(Room) /\ Len(s) = Len(h[id]) /\ s[g] = rm
      /\ \A k \in 1..Len(h[id]) : k # g => s[k] = h[id][k]
  BY <1>1
<1> HIDE DEF s
<1>3. SetIn(h, id, g, rm) = [h EXCEPT ![id] = s]
  BY DEF s, SetIn
<1> QED
  BY <1>2, <1>3 DEF Heaps

\* Publish, object by object.
LEMMA GrowHeap ==
  ASSUME NEW h \in Heaps, NEW id \in RoomIds, NEW rm \in Room
  PROVE  /\ AddTo(h, id, rm) \in Heaps
         /\ \A i \in RoomIds : i # id => AddTo(h, id, rm)[i] = h[i]
         /\ Len(AddTo(h, id, rm)[id]) = Len(h[id]) + 1
         /\ AddTo(h, id, rm)[id][Len(h[id]) + 1] = rm
         /\ \A k \in 1..Len(h[id]) : AddTo(h, id, rm)[id][k] = h[id][k]
<1>1. h[id] \in Seq(Room)
  BY DEF Heaps
<1> DEFINE s == Append(h[id], rm)
<1>2. /\ s \in Seq(Room) /\ Len(s) = Len(h[id]) + 1 /\ s[Len(h[id]) + 1] = rm
      /\ \A k \in 1..Len(h[id]) : s[k] = h[id][k]
  BY <1>1
<1> HIDE DEF s
<1>3. AddTo(h, id, rm) = [h EXCEPT ![id] = s]
  BY DEF s, AddTo
<1> QED
  BY <1>2, <1>3 DEF Heaps

-----------------------------------------------------------------------------
(* Type correctness: every pointer is nil or to an object of the heap *)

RefIn(hp, ref) == ref \in Ref /\ (ref # NoRef => ref.gen <= Len(hp[ref.id]))

SessOK(hp, s) == /\ s \in Session /\ RefIn(hp, s.at)
                 /\ s.at = NoRef => s = NoSession

TaskOK(hp, t) == /\ t \in Task /\ RefIn(hp, t.at)
                 /\ t.at = NoRef => t = NoTask
                 /\ t.do = "nothing" => t = NoTask

\* flush holds nothing, a pointer, or bytes.
HoldOK(hp, d) == /\ d \in Holding
                 /\ d # NoHold => d.id \in RoomIds
                 /\ d.gen # NoGen => d.gen <= Len(hp[d.id]) /\ d.data = NoFile

HeapOK(hp, rs) ==
  /\ hp \in Heaps
  /\ rs \in [RoomIds -> Gens \union {NoGen}]
  /\ \A id \in RoomIds : rs[id] <= Len(hp[id]) /\ Len(hp[id]) <= MaxGens

SessInv == sess \in [Conns -> Session] /\ \A c \in Conns : SessOK(heap, sess[c])

TaskInv == task \in [Conns -> Task] /\ \A c \in Conns : TaskOK(heap, task[c])

PlainInv ==
  /\ tomb \in [RoomIds -> {"none", "closed", "locked"}]
  /\ leaving \subseteq Conns
  /\ tokens \subseteq [id : RoomIds, role : Role, createdAt : Time]

MainInv ==
  /\ RefIn(heap, sweeping) /\ RefIn(heap, shutting)
  /\ \A ref \in toShut : ref # NoRef /\ RefIn(heap, ref)
  /\ toMark \subseteq RoomIds

Op == [id : RoomIds, kind : OpKind]

QueueInv ==
  /\ opCh \in Seq(Op) /\ Len(opCh) <= QueueCap
  /\ newest \in [RoomIds -> OpKind \union {"none", "lost"}]
  /\ late \subseteq RoomIds

LoopInv ==
  /\ pending \in [RoomIds -> OpKind \union {"none"}]
  /\ batch \in [RoomIds -> OpKind \union {"none"}]
  /\ HoldOK(heap, holding)
  /\ loop \in {"select", "drain", "final"}
  /\ loop = "drain" => batch = NoOps /\ holding = NoHold

DiskInv ==
  /\ disk \in [RoomIds -> RoomSnapshot \union {NoFile}]
  /\ promised \in [RoomIds -> Room \union {NoFile}]

\* A process that does not run has no memory.
Blank ==
  /\ heap = [id \in RoomIds |-> << >>]
  /\ rooms = [id \in RoomIds |-> NoGen]
  /\ sess = [c \in Conns |-> NoSession]
  /\ task = [c \in Conns |-> NoTask]
  /\ sweeping = NoRef /\ shutting = NoRef
  /\ toMark = {} /\ toShut = {}
  /\ opCh = << >>
  /\ pending = NoOps /\ batch = NoOps /\ holding = NoHold
  /\ loop = "select"
  /\ newest = [id \in RoomIds |-> "none"]
  /\ late = {}

ClockInv ==
  /\ now \in Time
  /\ phase \in {"down", "booting", "serving", "draining", "stopping"}
  /\ handled \in 0..MaxHandled
  /\ phase = "down" => Blank

TypeInv == /\ ClockInv /\ HeapOK(heap, rooms) /\ SessInv /\ TaskInv /\ PlainInv
           /\ MainInv /\ QueueInv /\ LoopInv /\ DiskInv

\* The heap only grows while the process runs.
Grown(hp, h2) == \A id \in RoomIds : Len(hp[id]) <= Len(h2[id])

LEMMA RefFacts ==
  ASSUME NEW ref \in Ref, ref # NoRef
  PROVE  /\ ref.id \in RoomIds /\ ref.gen \in Gens /\ ref.gen \in Nat /\ ref.gen >= 1
         /\ ref = [id |-> ref.id, gen |-> ref.gen]
BY PersistenceAssumption DEF Ref, NoRef, Gens

LEMMA RefMade ==
  ASSUME NEW id \in RoomIds, NEW g \in Gens
  PROVE  LET ref == [id |-> id, gen |-> g]
         IN  ref \in Ref /\ ref # NoRef /\ ref.id = id /\ ref.gen = g
BY PersistenceAssumption DEF Ref, NoRef, Gens, NoGen

\* Nil values are typed.
LEMMA NilTypes ==
  /\ NoRef \in Ref /\ NoRef.id = NoId /\ NoRef.id \notin RoomIds
  /\ NoSession \in Session /\ NoSession.at = NoRef
  /\ NoTask \in Task /\ NoTask.at = NoRef /\ NoTask.do = "nothing"
  /\ NoHold \in Holding /\ NoHold.id = NoId /\ NoHold.gen = NoGen /\ NoHold.data = NoFile
  /\ NoOps \in [RoomIds -> OpKind \union {"none"}]
  /\ \A id \in RoomIds : NoOps[id] = "none"
<1>1. /\ NoRef \in Ref /\ NoRef.id = NoId /\ NoRef.id \notin RoomIds
  BY PersistenceAssumption DEF Ref, NoRef
<1>2. NoSession \in Session /\ NoSession.at = NoRef
  BY <1>1 DEF Session, NoSession, Role
<1>3. NoTask \in Task /\ NoTask.at = NoRef /\ NoTask.do = "nothing"
  BY <1>1 DEF Task, NoTask, Role
<1>4. NoHold \in Holding /\ NoHold.id = NoId /\ NoHold.gen = NoGen /\ NoHold.data = NoFile
  BY DEF Holding, NoHold, NoGen
<1>5. /\ NoOps \in [RoomIds -> OpKind \union {"none"}]
      /\ \A id \in RoomIds : NoOps[id] = "none"
  BY DEF NoOps
<1> QED
  BY <1>1, <1>2, <1>3, <1>4, <1>5

LEMMA GrownKeeps ==
  ASSUME NEW hp \in Heaps, NEW h2 \in Heaps, Grown(hp, h2)
  PROVE  /\ \A ref : RefIn(hp, ref) => RefIn(h2, ref)
         /\ \A s : SessOK(hp, s) => SessOK(h2, s)
         /\ \A t : TaskOK(hp, t) => TaskOK(h2, t)
         /\ \A d : HoldOK(hp, d) => HoldOK(h2, d)
<1>1. \A id \in RoomIds : Len(hp[id]) \in Nat /\ Len(h2[id]) \in Nat
  BY DEF Heaps
<1>2. ASSUME NEW ref, RefIn(hp, ref) PROVE RefIn(h2, ref)
  <2>1. CASE ref = NoRef
    BY <1>2, <2>1 DEF RefIn
  <2>2. CASE ref # NoRef
    <3>1. ref.id \in RoomIds /\ ref.gen \in Nat
      BY <1>2, <2>2, RefFacts DEF RefIn
    <3> QED
      BY <1>1, <1>2, <2>2, <3>1 DEF RefIn, Grown
  <2> QED
    BY <2>1, <2>2
<1>3. ASSUME NEW d, HoldOK(hp, d) PROVE HoldOK(h2, d)
  <2>1. CASE d.gen = NoGen
    BY <1>3, <2>1 DEF HoldOK
  <2>2. CASE d.gen # NoGen
    <3>0. d # NoHold
      BY <2>2, NilTypes
    <3>1. d.id \in RoomIds /\ d.gen \in Nat
      BY <1>3, <3>0, PersistenceAssumption DEF HoldOK, Holding, Gens, NoGen
    <3> QED
      BY <1>1, <1>3, <2>2, <3>1 DEF HoldOK, Grown
  <2> QED
    BY <2>1, <2>2
<1> QED
  BY <1>2, <1>3 DEF SessOK, TaskOK

\* What the map names is in the heap.
LEMMA LiveRefFacts ==
  ASSUME TypeInv, NEW id \in RoomIds, rooms[id] # NoGen
  PROVE  /\ LiveRef(id) \in Ref /\ LiveRef(id) # NoRef
         /\ LiveRef(id).id = id /\ LiveRef(id).gen = rooms[id]
         /\ RefIn(heap, LiveRef(id))
<1>1. rooms[id] \in Gens /\ rooms[id] <= Len(heap[id])
  BY DEF TypeInv, HeapOK
<1>2. /\ LiveRef(id) \in Ref /\ LiveRef(id) # NoRef
      /\ LiveRef(id).id = id /\ LiveRef(id).gen = rooms[id]
  BY <1>1, RefMade DEF LiveRef
<1> QED
  BY <1>1, <1>2 DEF RefIn

\* A pointer that is not nil is to a room.
LEMMA ObjFacts ==
  ASSUME TypeInv, NEW ref, RefIn(heap, ref), ref # NoRef
  PROVE  /\ ref.id \in RoomIds /\ ref.gen \in 1..Len(heap[ref.id])
         /\ Obj(ref) \in Room
<1>1. ref.id \in RoomIds /\ ref.gen \in Nat /\ ref.gen >= 1 /\ ref.gen <= Len(heap[ref.id])
  BY RefFacts DEF RefIn
<1>2. heap[ref.id] \in Seq(Room)
  BY <1>1 DEF TypeInv, HeapOK, Heaps
<1> QED
  BY <1>1, <1>2 DEF Obj

\* SetObj keeps the heap typed and as long as it was.
LEMMA SetObjFacts ==
  ASSUME TypeInv, NEW ref, RefIn(heap, ref), ref # NoRef, NEW rm \in Room,
         SetObj(ref, rm)
  PROVE  /\ heap' \in Heaps /\ Grown(heap, heap')
         /\ \A i \in RoomIds : Len(heap'[i]) = Len(heap[i])
         /\ \A i \in RoomIds : i # ref.id => heap'[i] = heap[i]
         /\ heap'[ref.id][ref.gen] = rm
         /\ \A k \in 1..Len(heap[ref.id]) : k # ref.gen => heap'[ref.id][k] = heap[ref.id][k]
<1>1. ref.id \in RoomIds /\ ref.gen \in 1..Len(heap[ref.id]) /\ heap \in Heaps
  BY ObjFacts DEF TypeInv, HeapOK
<1>2. heap' = SetIn(heap, ref.id, ref.gen, rm)
  BY DEF SetObj, SetIn
<1>3. /\ heap' \in Heaps
      /\ \A i \in RoomIds : Len(heap'[i]) = Len(heap[i])
      /\ \A i \in RoomIds : i # ref.id => heap'[i] = heap[i]
      /\ heap'[ref.id][ref.gen] = rm
      /\ \A k \in 1..Len(heap[ref.id]) : k # ref.gen => heap'[ref.id][k] = heap[ref.id][k]
  BY <1>1, <1>2, SetHeap
<1>4. \A i \in RoomIds : Len(heap[i]) \in Nat
  BY <1>1 DEF Heaps
<1> QED
  BY <1>3, <1>4 DEF Grown

\* Publish puts one room more on the heap and into the map.
LEMMA PublishFacts ==
  ASSUME TypeInv, NEW id \in RoomIds, NEW rm \in Room, Publish(id, rm)
  PROVE  /\ HeapOK(heap', rooms') /\ Grown(heap, heap')
         /\ \A i \in RoomIds : i # id => heap'[i] = heap[i] /\ rooms'[i] = rooms[i]
         /\ Len(heap'[id]) = Len(heap[id]) + 1
         /\ heap'[id][Len(heap[id]) + 1] = rm
         /\ \A k \in 1..Len(heap[id]) : heap'[id][k] = heap[id][k]
         /\ rooms'[id] = Len(heap[id]) + 1 /\ Len(heap[id]) + 1 \in Gens
<1>1. /\ heap \in Heaps /\ rooms \in [RoomIds -> Gens \union {NoGen}]
      /\ \A i \in RoomIds : rooms[i] <= Len(heap[i]) /\ Len(heap[i]) <= MaxGens
      /\ \A i \in RoomIds : Len(heap[i]) \in Nat
  BY DEF TypeInv, HeapOK, Heaps
<1>2. /\ heap' = AddTo(heap, id, rm)
      /\ rooms' = [rooms EXCEPT ![id] = Len(heap[id]) + 1]
      /\ Len(heap[id]) < MaxGens
  BY DEF Publish, AddTo
<1>3. /\ heap' \in Heaps
      /\ \A i \in RoomIds : i # id => heap'[i] = heap[i]
      /\ Len(heap'[id]) = Len(heap[id]) + 1
      /\ heap'[id][Len(heap[id]) + 1] = rm
      /\ \A k \in 1..Len(heap[id]) : heap'[id][k] = heap[id][k]
  BY <1>1, <1>2, GrowHeap
<1>4. Len(heap[id]) + 1 \in Gens
  BY <1>1, <1>2, PersistenceAssumption DEF Gens
<1>5. /\ rooms' \in [RoomIds -> Gens \union {NoGen}]
      /\ rooms'[id] = Len(heap[id]) + 1
      /\ \A i \in RoomIds : i # id => rooms'[i] = rooms[i]
  BY <1>1, <1>2, <1>4
<1>6. \A i \in RoomIds : rooms'[i] <= Len(heap'[i]) /\ Len(heap'[i]) <= MaxGens
  BY <1>1, <1>2, <1>3, <1>5, PersistenceAssumption
<1>7. Grown(heap, heap')
  BY <1>1, <1>3 DEF Grown
<1> QED
  BY <1>3, <1>4, <1>5, <1>6, <1>7 DEF HeapOK

\* removeRoomLocked
LEMMA RemoveFacts ==
  ASSUME TypeInv, NEW id \in RoomIds, removeRoomLocked(id)
  PROVE  /\ rooms' \in [RoomIds -> Gens \union {NoGen}] /\ rooms'[id] = NoGen
         /\ \A i \in RoomIds : i # id => rooms'[i] = rooms[i]
BY DEF TypeInv, HeapOK, removeRoomLocked

\* Who is in a room is a connection.
LEMMA OccupantsFacts ==
  ASSUME NEW rm \in Room
  PROVE  Occupants(rm) \subseteq Conns
BY SlotOf DEF Occupants, OptConn

\* Mark keeps the queue within its capacity.
LEMMA MarkTypes ==
  ASSUME QueueInv, NEW id \in RoomIds, NEW k \in OpKind, Mark(id, k)
  PROVE  QueueInv'
<1> DEFINE op == [id |-> id, kind |-> k]
<1>1. op \in Op
  BY DEF Op
<1>2. opCh \in Seq(Op) /\ Len(opCh) \in Nat /\ Len(opCh) <= QueueCap
  BY DEF QueueInv
<1>3. newest' \in [RoomIds -> OpKind \union {"none", "lost"}] /\ late' \subseteq RoomIds
  BY DEF QueueInv, Mark
<1>4. opCh' = IF Len(opCh) < QueueCap THEN Append(opCh, op) ELSE opCh
  BY DEF Mark
<1> HIDE DEF op
<1>5. opCh' \in Seq(Op) /\ Len(opCh') <= QueueCap
  BY <1>1, <1>2, <1>4, PersistenceAssumption
<1> QED
  BY <1>3, <1>5 DEF QueueInv

-----------------------------------------------------------------------------
(* Types: the handlers *)

\* What a handler changes is typed.
Handled ==
  /\ HeapOK(heap', rooms') /\ Grown(heap, heap')
  /\ SessInv' /\ TaskInv' /\ PlainInv' /\ QueueInv'

LEMMA SessKept ==
  ASSUME TypeInv, heap' \in Heaps, Grown(heap, heap'), UNCHANGED sess
  PROVE  SessInv'
<1>1. heap \in Heaps /\ SessInv
  BY DEF TypeInv, HeapOK
<1>2. \A s : SessOK(heap, s) => SessOK(heap', s)
  BY <1>1, GrownKeeps
<1> QED
  BY <1>1, <1>2 DEF SessInv

LEMMA SessAttached ==
  ASSUME TypeInv, heap' \in Heaps, Grown(heap, heap'), NEW c \in Conns,
         NEW ref, RefIn(heap', ref), ref # NoRef, NEW role \in Role,
         Attach(c, ref, role)
  PROVE  SessInv'
<1> DEFINE s == [at |-> ref, role |-> role]
<1>1. heap \in Heaps /\ SessInv
  BY DEF TypeInv, HeapOK
<1>2. \A x : SessOK(heap, x) => SessOK(heap', x)
  BY <1>1, GrownKeeps
<1>3. SessOK(heap', s)
  BY DEF SessOK, Session, RefIn
<1>4. sess' = [sess EXCEPT ![c] = s]
  BY DEF Attach
<1> HIDE DEF s
<1>5. s \in Session
  BY <1>3 DEF SessOK
<1> QED
  BY <1>1, <1>2, <1>3, <1>4, <1>5 DEF SessInv

LEMMA SessDropped ==
  ASSUME TypeInv, heap' \in Heaps, Grown(heap, heap'), NEW c \in Conns,
         sess' = [sess EXCEPT ![c] = NoSession]
  PROVE  SessInv'
<1>1. heap \in Heaps /\ SessInv
  BY DEF TypeInv, HeapOK
<1>2. \A x : SessOK(heap, x) => SessOK(heap', x)
  BY <1>1, GrownKeeps
<1>3. SessOK(heap', NoSession) /\ NoSession \in Session
  BY NilTypes DEF SessOK, RefIn
<1> QED
  BY <1>1, <1>2, <1>3 DEF SessInv

LEMMA TaskKept ==
  ASSUME TypeInv, heap' \in Heaps, Grown(heap, heap'), UNCHANGED task
  PROVE  TaskInv'
<1>1. heap \in Heaps /\ TaskInv
  BY DEF TypeInv, HeapOK
<1>2. \A x : TaskOK(heap, x) => TaskOK(heap', x)
  BY <1>1, GrownKeeps
<1> QED
  BY <1>1, <1>2 DEF TaskInv

SetTask(c, t) == task' = [task EXCEPT ![c] = t]

LEMMA TaskSet ==
  ASSUME TypeInv, heap' \in Heaps, Grown(heap, heap'), NEW c \in Conns,
         NEW t, TaskOK(heap', t), SetTask(c, t)
  PROVE  TaskInv'
<1>1. heap \in Heaps /\ TaskInv
  BY DEF TypeInv, HeapOK
<1>2. \A x : TaskOK(heap, x) => TaskOK(heap', x)
  BY <1>1, GrownKeeps
<1>3. t \in Task /\ task' = [task EXCEPT ![c] = t]
  BY DEF TaskOK, SetTask
<1> QED
  BY <1>1, <1>2, <1>3 DEF TaskInv

LEMMA NoTaskOK == \A hp : TaskOK(hp, NoTask)
BY NilTypes DEF TaskOK, RefIn

\* What a handler still has to do has an object.
LEMMA TaskFacts ==
  ASSUME TypeInv, NEW c \in Conns, task[c].do # "nothing"
  PROVE  /\ RefIn(heap, task[c].at) /\ task[c].at # NoRef
         /\ task[c].at.id \in RoomIds /\ Obj(task[c].at) \in Room
         /\ task[c].role \in Role
<1>1. TaskOK(heap, task[c])
  BY DEF TypeInv, TaskInv
<1>2. RefIn(heap, task[c].at) /\ task[c].at # NoRef /\ task[c].role \in Role
  BY <1>1, NilTypes DEF TaskOK, Task
<1> QED
  BY <1>2, ObjFacts

\* So has a session.
LEMMA SessFacts ==
  ASSUME TypeInv, NEW c \in Conns, sess[c].at # NoRef
  PROVE  /\ RefIn(heap, sess[c].at)
         /\ sess[c].at.id \in RoomIds /\ Obj(sess[c].at) \in Room
         /\ sess[c].role \in Role
<1>1. SessOK(heap, sess[c])
  BY DEF TypeInv, SessInv
<1>2. RefIn(heap, sess[c].at) /\ sess[c].role \in Role
  BY <1>1 DEF SessOK, Session
<1> QED
  BY <1>2, ObjFacts

\* The map is as it was and the heap as long.
LEMMA HeapKept ==
  ASSUME TypeInv, heap' \in Heaps, UNCHANGED rooms,
         \A i \in RoomIds : Len(heap'[i]) = Len(heap[i])
  PROVE  HeapOK(heap', rooms')
BY DEF TypeInv, HeapOK

LEMMA HeapRemoved ==
  ASSUME TypeInv, heap' \in Heaps, NEW id \in RoomIds, removeRoomLocked(id),
         \A i \in RoomIds : Len(heap'[i]) = Len(heap[i])
  PROVE  HeapOK(heap', rooms')
<1>1. /\ rooms' \in [RoomIds -> Gens \union {NoGen}] /\ rooms'[id] = NoGen
      /\ \A i \in RoomIds : i # id => rooms'[i] = rooms[i]
  BY RemoveFacts
<1>2. \A i \in RoomIds : Len(heap[i]) \in Nat
  BY DEF TypeInv, HeapOK, Heaps
<1> QED
  BY <1>1, <1>2 DEF TypeInv, HeapOK, NoGen

\* The heap is untouched.
LEMMA HeapSame ==
  ASSUME TypeInv, UNCHANGED <<heap, rooms>>
  PROVE  HeapOK(heap', rooms') /\ heap' \in Heaps /\ Grown(heap, heap')
<1>1. \A i \in RoomIds : Len(heap[i]) \in Nat
  BY DEF TypeInv, HeapOK, Heaps
<1> QED
  BY <1>1 DEF TypeInv, HeapOK, Grown

LEMMA IpType == Ip \in IPs
BY RoomStateAssumption DEF Ip

\* A room a handler builds.
LEMMA BuiltFacts ==
  ASSUME TypeInv, NEW id \in RoomIds, NEW u \in Time
  PROVE  /\ NewRoom(id, Ip, u, now, HasPassword) \in Room
         /\ Bufferless(NewRoom(id, Ip, u, now, HasPassword))
         /\ \A c \in Conns, e \in Epochs :
              /\ HostAttached(NewRoom(id, Ip, u, now, HasPassword), c, e) \in Room
              /\ Known(HostAttached(NewRoom(id, Ip, u, now, HasPassword), c, e))
<1>1. now \in Time /\ HasPassword \in BOOLEAN
  BY PersistenceAssumption DEF TypeInv, ClockInv
<1>2. /\ NewRoom(id, Ip, u, now, HasPassword) \in Room
      /\ Bufferless(NewRoom(id, Ip, u, now, HasPassword))
  BY <1>1, IpType, NewRoomFacts, NewRoomBare
<1> QED
  BY <1>2, HostAttachedFacts, AttachedKnown

LEMMA CreateTypes ==
  ASSUME TypeInv, NEW c \in Conns, NEW id \in RoomIds, NEW e \in Epochs,
         CreateRoom(c, id, e)
  PROVE  Handled
<1> DEFINE rm  == HostAttached(NewRoom(id, Ip, now, now, HasPassword), c, e)
           ref == [id |-> id, gen |-> Len(heap[id]) + 1]
           t   == [do |-> "markCreated", at |-> ref, role |-> "host"]
<1>1. /\ Publish(id, rm) /\ Attach(c, ref, "host") /\ SetTask(c, t)
      /\ UNCHANGED <<tomb, leaving, tokens, queueVars>>
  BY DEF CreateRoom, SetTask
<1>2. now \in Time
  BY DEF TypeInv, ClockInv
<1>3. rm \in Room
  BY <1>2, BuiltFacts
<1> HIDE DEF rm
<1>4. /\ HeapOK(heap', rooms') /\ Grown(heap, heap') /\ heap' \in Heaps
      /\ Len(heap'[id]) = Len(heap[id]) + 1 /\ Len(heap[id]) + 1 \in Gens
  BY <1>1, <1>3, PublishFacts DEF HeapOK
<1>5. ref \in Ref /\ ref # NoRef /\ ref.id = id /\ ref.gen = Len(heap[id]) + 1
  BY <1>4, RefMade
<1> HIDE DEF ref
<1>6. RefIn(heap', ref)
  BY <1>4, <1>5, PersistenceAssumption DEF RefIn, Gens
<1>7. TaskOK(heap', t)
  BY <1>5, <1>6 DEF TaskOK, Task, Role
<1> HIDE DEF t
<1>8. SessInv' /\ TaskInv'
  BY <1>1, <1>4, <1>5, <1>6, <1>7, SessAttached, TaskSet DEF Role
<1>9. PlainInv' /\ QueueInv'
  BY <1>1 DEF TypeInv, PlainInv, QueueInv, queueVars
<1> QED
  BY <1>4, <1>8, <1>9 DEF Handled

\* Tokens are issued for rooms.
LEMMA IssueTypes ==
  ASSUME TypeInv, NEW id \in RoomIds, NEW role \in Role, NEW rm \in Room,
         Issue(id, role, rm)
  PROVE  tokens' \subseteq [id : RoomIds, role : Role, createdAt : Time]
<1>1. rm.createdAt \in Time
  BY DEF Room
<1> QED
  BY <1>1 DEF Issue, TypeInv, PlainInv

LEMMA MarkCreatedTypes ==
  ASSUME TypeInv, NEW c \in Conns, MarkCreated(c)
  PROVE  Handled
<1> DEFINE ref == task[c].at
<1>1. /\ task[c].do = "markCreated" /\ Mark(ref.id, "save")
      /\ Issue(ref.id, "host", Obj(ref)) /\ SetTask(c, NoTask)
      /\ UNCHANGED <<heap, rooms, tomb, sess, leaving>>
  BY DEF MarkCreated, SetTask, markDirty
<1>2. ref.id \in RoomIds /\ Obj(ref) \in Room
  BY <1>1, TaskFacts
<1> HIDE DEF ref
<1>3. HeapOK(heap', rooms') /\ heap' \in Heaps /\ Grown(heap, heap')
  BY <1>1, HeapSame
<1>4. SessInv' /\ TaskInv'
  BY <1>1, <1>3, SessKept, TaskSet, NoTaskOK
<1>5. QueueInv'
  BY <1>1, <1>2, MarkTypes DEF TypeInv, OpKind
<1>6. tokens' \subseteq [id : RoomIds, role : Role, createdAt : Time]
  BY <1>1, <1>2, IssueTypes DEF Role
<1>7. PlainInv'
  BY <1>1, <1>6 DEF TypeInv, PlainInv
<1> QED
  BY <1>3, <1>4, <1>5, <1>7 DEF Handled

LEMMA JoinTypes ==
  ASSUME TypeInv, NEW c \in Conns, NEW id \in RoomIds, NEW e \in Epochs,
         JoinRoom(c, id, e)
  PROVE  Handled
<1> DEFINE ref == LiveRef(id)
           rm  == GuestAttached(Obj(ref), c, e)
<1>1. /\ rooms[id] # NoGen /\ SetObj(ref, rm) /\ Attach(c, ref, "guest")
      /\ Mark(id, "save") /\ Issue(id, "guest", Obj(ref))
      /\ UNCHANGED <<rooms, tomb, leaving, task>>
  BY DEF JoinRoom, markDirty
<1>2. RefIn(heap, ref) /\ ref # NoRef /\ Obj(ref) \in Room
  BY <1>1, LiveRefFacts, ObjFacts
<1>3. rm \in Room
  BY <1>2, GuestAttachedFacts
<1> HIDE DEF ref, rm
<1>4. /\ heap' \in Heaps /\ Grown(heap, heap')
      /\ \A i \in RoomIds : Len(heap'[i]) = Len(heap[i])
  BY <1>1, <1>2, <1>3, SetObjFacts
<1>5. HeapOK(heap', rooms')
  BY <1>1, <1>4, HeapKept
<1>6. RefIn(heap', ref)
  BY <1>2, <1>4, GrownKeeps DEF TypeInv, HeapOK
<1>7. SessInv' /\ TaskInv'
  BY <1>1, <1>2, <1>4, <1>6, SessAttached, TaskKept DEF Role
<1>8. QueueInv'
  BY <1>1, MarkTypes DEF TypeInv, OpKind
<1>9. tokens' \subseteq [id : RoomIds, role : Role, createdAt : Time]
  BY <1>1, <1>2, IssueTypes DEF Role
<1>10. PlainInv'
  BY <1>1, <1>9 DEF TypeInv, PlainInv
<1> QED
  BY <1>4, <1>5, <1>7, <1>8, <1>10 DEF Handled

LEMMA WrongPasswordTypes ==
  ASSUME TypeInv, NEW c \in Conns, NEW id \in RoomIds, WrongPassword(c, id)
  PROVE  Handled
<1> DEFINE ref == LiveRef(id)
           rm  == GuessedWrong(Obj(ref))
<1>1. /\ rooms[id] # NoGen
      /\ IF rm.passwordAttempts >= MaxPasswordAttempts
         THEN /\ heap' = [heap EXCEPT ![id][ref.gen] = Emptied(rm)]
              /\ leaving' = leaving \union Occupants(rm)
              /\ removeRoomLocked(id)
              /\ tomb' = [tomb EXCEPT ![id] = "locked"]
         ELSE SetObj(ref, rm) /\ UNCHANGED <<leaving, rooms, tomb>>
      /\ UNCHANGED <<sess, task, tokens, queueVars>>
  BY DEF WrongPassword
<1>2. RefIn(heap, ref) /\ ref # NoRef /\ Obj(ref) \in Room /\ ref.id = id
  BY <1>1, LiveRefFacts, ObjFacts
<1>3. rm \in Room /\ Emptied(rm) \in Room /\ Occupants(rm) \subseteq Conns
  BY <1>2, GuessedWrongFacts, EmptiedFacts, OccupantsFacts
<1> HIDE DEF ref, rm
<1>4. CASE rm.passwordAttempts >= MaxPasswordAttempts
  <2>1. SetObj(ref, Emptied(rm))
    BY <1>1, <1>2, <1>4 DEF SetObj
  <2>2. /\ heap' \in Heaps /\ Grown(heap, heap')
        /\ \A i \in RoomIds : Len(heap'[i]) = Len(heap[i])
    BY <1>2, <1>3, <2>1, SetObjFacts
  <2>3. HeapOK(heap', rooms')
    BY <1>1, <1>4, <2>2, HeapRemoved
  <2>4. PlainInv'
    BY <1>1, <1>3, <1>4 DEF TypeInv, PlainInv
  <2>5. SessInv' /\ TaskInv' /\ QueueInv'
    BY <1>1, <2>2, SessKept, TaskKept DEF TypeInv, QueueInv, queueVars
  <2> QED
    BY <2>2, <2>3, <2>4, <2>5 DEF Handled
<1>5. CASE ~(rm.passwordAttempts >= MaxPasswordAttempts)
  <2>2. /\ heap' \in Heaps /\ Grown(heap, heap')
        /\ \A i \in RoomIds : Len(heap'[i]) = Len(heap[i])
    BY <1>1, <1>2, <1>3, <1>5, SetObjFacts
  <2>3. HeapOK(heap', rooms')
    BY <1>1, <1>5, <2>2, HeapKept
  <2>4. PlainInv'
    BY <1>1, <1>5 DEF TypeInv, PlainInv
  <2>5. SessInv' /\ TaskInv' /\ QueueInv'
    BY <1>1, <2>2, SessKept, TaskKept DEF TypeInv, QueueInv, queueVars
  <2> QED
    BY <2>2, <2>3, <2>4, <2>5 DEF Handled
<1> QED
  BY <1>4, <1>5

\* RejoinSection, for both its callers.
LEMMA SectionTypes ==
  ASSUME TypeInv, NEW c \in Conns, NEW ref, RefIn(heap, ref), ref # NoRef,
         NEW role \in Role, NEW e \in Epochs, NEW b \in BOOLEAN,
         RejoinSection(c, ref, role, e, b), UNCHANGED <<rooms, tomb, tokens>>
  PROVE  /\ HeapOK(heap', rooms') /\ heap' \in Heaps /\ Grown(heap, heap')
         /\ SessInv' /\ PlainInv' /\ QueueInv'
<1> DEFINE rm  == Rejoined(Obj(ref), role, c, e, b, now)
           old == Obj(ref).slots[role].conn
<1>1. /\ SetObj(ref, rm) /\ leaving' = leaving \union ({old} \ {NoConn})
      /\ Attach(c, ref, role) /\ Mark(ref.id, "save")
  BY DEF RejoinSection, markDirty
<1>2. Obj(ref) \in Room /\ now \in Time /\ ref.id \in RoomIds
  BY ObjFacts DEF TypeInv, ClockInv
<1>3. rm \in Room
  BY <1>2, RejoinedFacts
<1>4. old \in Conns \union {NoConn}
  BY <1>2, SlotOf DEF OptConn
<1> HIDE DEF rm, old
<1>5. /\ heap' \in Heaps /\ Grown(heap, heap')
      /\ \A i \in RoomIds : Len(heap'[i]) = Len(heap[i])
  BY <1>1, <1>3, SetObjFacts
<1>6. HeapOK(heap', rooms')
  BY <1>5, HeapKept
<1>7. RefIn(heap', ref)
  BY <1>5, GrownKeeps DEF TypeInv, HeapOK
<1>8. SessInv'
  BY <1>1, <1>5, <1>7, SessAttached
<1>9. QueueInv'
  BY <1>1, <1>2, MarkTypes DEF TypeInv, OpKind
<1>10. PlainInv'
  BY <1>1, <1>4 DEF TypeInv, PlainInv
<1> QED
  BY <1>5, <1>6, <1>8, <1>9, <1>10

LEMMA RejoinTypes ==
  ASSUME TypeInv, NEW c \in Conns, NEW tok \in tokens, NEW e \in Epochs,
         RejoinRoom(c, tok, e)
  PROVE  Handled
<1>1. tok.id \in RoomIds /\ tok.role \in Role
  BY DEF TypeInv, PlainInv
<1>2. /\ rooms[tok.id] # NoGen
      /\ RejoinSection(c, LiveRef(tok.id), tok.role, e, FALSE)
      /\ UNCHANGED <<rooms, tomb, task, tokens>>
  BY DEF RejoinRoom
<1>3. RefIn(heap, LiveRef(tok.id)) /\ LiveRef(tok.id) # NoRef
  BY <1>1, <1>2, LiveRefFacts
<1>4. /\ HeapOK(heap', rooms') /\ heap' \in Heaps /\ Grown(heap, heap')
      /\ SessInv' /\ PlainInv' /\ QueueInv'
  BY <1>1, <1>2, <1>3, SectionTypes
<1>5. TaskInv'
  BY <1>2, <1>4, TaskKept
<1> QED
  BY <1>4, <1>5 DEF Handled

LEMMA RecreateTypes ==
  ASSUME TypeInv, NEW c \in Conns, NEW tok \in tokens, Recreate(c, tok)
  PROVE  Handled
<1> DEFINE id  == tok.id
           rm  == NewRoom(id, Ip, tok.createdAt, now, HasPassword)
           ref == [id |-> id, gen |-> Len(heap[id]) + 1]
           t   == [do |-> "markRecreated", at |-> ref, role |-> tok.role]
<1>1. /\ Publish(id, rm) /\ SetTask(c, t)
      /\ UNCHANGED <<tomb, sess, leaving, tokens, queueVars>>
  BY DEF Recreate, SetTask
<1>2. id \in RoomIds /\ tok.role \in Role /\ tok.createdAt \in Time
  BY DEF TypeInv, PlainInv
<1>3. rm \in Room
  BY <1>2, BuiltFacts
<1> HIDE DEF id, rm
<1>4. /\ HeapOK(heap', rooms') /\ Grown(heap, heap') /\ heap' \in Heaps
      /\ Len(heap'[id]) = Len(heap[id]) + 1 /\ Len(heap[id]) + 1 \in Gens
  BY <1>1, <1>2, <1>3, PublishFacts DEF HeapOK
<1>5. ref \in Ref /\ ref # NoRef /\ ref.id = id /\ ref.gen = Len(heap[id]) + 1
  BY <1>2, <1>4, RefMade
<1> HIDE DEF ref
<1>6. RefIn(heap', ref)
  BY <1>4, <1>5, PersistenceAssumption DEF RefIn, Gens
<1>7. TaskOK(heap', t)
  BY <1>2, <1>5, <1>6 DEF TaskOK, Task
<1> HIDE DEF t
<1>8. SessInv' /\ TaskInv'
  BY <1>1, <1>4, <1>7, SessKept, TaskSet
<1>9. PlainInv' /\ QueueInv'
  BY <1>1 DEF TypeInv, PlainInv, QueueInv, queueVars
<1> QED
  BY <1>4, <1>8, <1>9 DEF Handled

LEMMA MarkRecreatedTypes ==
  ASSUME TypeInv, NEW c \in Conns, MarkRecreated(c)
  PROVE  Handled
<1> DEFINE t == [task[c] EXCEPT !.do = "attach"]
<1>1. /\ task[c].do = "markRecreated" /\ Mark(task[c].at.id, "save")
      /\ task' = [task EXCEPT ![c].do = "attach"]
      /\ UNCHANGED <<heap, rooms, tomb, sess, leaving, tokens>>
  BY DEF MarkRecreated, markDirty
<1>2. /\ task[c].at.id \in RoomIds /\ RefIn(heap, task[c].at) /\ task[c].at # NoRef
      /\ task[c] \in Task
  BY <1>1, TaskFacts DEF TypeInv, TaskInv
<1>3. HeapOK(heap', rooms') /\ heap' \in Heaps /\ Grown(heap, heap')
  BY <1>1, HeapSame
<1>4. t \in Task /\ t.at = task[c].at /\ t.do = "attach"
  BY <1>2 DEF Task
<1>5. SetTask(c, t)
  BY <1>1 DEF SetTask
<1> HIDE DEF t
<1>6. TaskOK(heap', t)
  BY <1>1, <1>2, <1>4 DEF TaskOK
<1>7. SessInv' /\ TaskInv'
  BY <1>1, <1>3, <1>5, <1>6, SessKept, TaskSet
<1>8. QueueInv'
  BY <1>1, <1>2, MarkTypes DEF TypeInv, OpKind
<1>9. PlainInv'
  BY <1>1 DEF TypeInv, PlainInv
<1> QED
  BY <1>3, <1>7, <1>8, <1>9 DEF Handled

LEMMA AttachRecreatedTypes ==
  ASSUME TypeInv, NEW c \in Conns, NEW e \in Epochs, AttachRecreated(c, e)
  PROVE  Handled
<1>1. /\ task[c].do = "attach"
      /\ RejoinSection(c, task[c].at, task[c].role, e, TRUE)
      /\ SetTask(c, NoTask)
      /\ UNCHANGED <<rooms, tomb, tokens>>
  BY DEF AttachRecreated, SetTask
<1>2. RefIn(heap, task[c].at) /\ task[c].at # NoRef /\ task[c].role \in Role
  BY <1>1, TaskFacts
<1>3. /\ HeapOK(heap', rooms') /\ heap' \in Heaps /\ Grown(heap, heap')
      /\ SessInv' /\ PlainInv' /\ QueueInv'
  BY <1>1, <1>2, SectionTypes
<1>4. TaskInv'
  BY <1>1, <1>3, TaskSet, NoTaskOK
<1> QED
  BY <1>3, <1>4 DEF Handled

\* A section that changes the object of a session and no list.
LEMMA ObjSetTypes ==
  ASSUME TypeInv, NEW ref, RefIn(heap, ref), ref # NoRef, NEW rm \in Room,
         SetObj(ref, rm), UNCHANGED <<rooms, tomb, sess, leaving, task, tokens>>,
         QueueInv'
  PROVE  Handled
<1>1. /\ heap' \in Heaps /\ Grown(heap, heap')
      /\ \A i \in RoomIds : Len(heap'[i]) = Len(heap[i])
  BY SetObjFacts
<1>2. HeapOK(heap', rooms')
  BY <1>1, HeapKept
<1>3. SessInv' /\ TaskInv'
  BY <1>1, SessKept, TaskKept
<1>4. PlainInv'
  BY DEF TypeInv, PlainInv
<1> QED
  BY <1>1, <1>2, <1>3, <1>4 DEF Handled

\* What a signal makes of a room.
SignalledRoom(rm, role, seq, size) ==
  IF Occupied(rm, Other(role)) THEN Accepted(rm, role, seq)
  ELSE IF BufferFull(rm.slots[Other(role)], size) THEN Overflowed(rm, role, seq)
  ELSE Buffered(rm, role, seq, size)

LEMMA SignalledType ==
  ASSUME NEW rm \in Room, NEW role \in Role, NEW seq \in 1..MaxSeq, NEW size \in Sizes
  PROVE  SignalledRoom(rm, role, seq, size) \in Room
BY AcceptedFacts, OverflowedFacts, BufferedFacts DEF SignalledRoom

LEMMA SignalTypes ==
  ASSUME TypeInv, NEW c \in Conns, NEW seq \in 1..MaxSeq, NEW size \in Sizes,
         Signal(c, sess[c].at, seq, size)
  PROVE  Handled
<1> DEFINE ref == sess[c].at
           rm  == SignalledRoom(Obj(ref), sess[c].role, seq, size)
<1>1. /\ ref # NoRef /\ SetObj(ref, rm)
      /\ UNCHANGED queueVars \/ Mark(ref.id, "save")
      /\ UNCHANGED <<rooms, tomb, sess, leaving, task, tokens>>
  BY DEF Signal, AttachedTo, SignalledRoom, markDirty, SetObj
<1>2. RefIn(heap, ref) /\ ref.id \in RoomIds /\ Obj(ref) \in Room /\ sess[c].role \in Role
  BY <1>1, SessFacts
<1>3. rm \in Room
  BY <1>2, SignalledType
<1> HIDE DEF ref, rm
<1>4. QueueInv'
  <2>1. CASE UNCHANGED queueVars
    BY <2>1 DEF TypeInv, QueueInv, queueVars
  <2>2. CASE Mark(ref.id, "save")
    BY <1>2, <2>2, MarkTypes DEF TypeInv, OpKind
  <2> QED
    BY <1>1, <2>1, <2>2
<1> QED
  BY <1>1, <1>2, <1>3, <1>4, ObjSetTypes

LEMMA PeerConnectedTypes ==
  ASSUME TypeInv, NEW c \in Conns, PeerConnected(c, sess[c].at)
  PROVE  Handled
<1> DEFINE ref == sess[c].at
           rm  == Reported(Obj(ref), sess[c].role, now)
<1>1. /\ ref # NoRef /\ SetObj(ref, rm) /\ Mark(ref.id, "save")
      /\ UNCHANGED <<rooms, tomb, sess, leaving, task, tokens>>
  BY DEF PeerConnected, AttachedTo, markDirty
<1>2. RefIn(heap, ref) /\ ref.id \in RoomIds /\ Obj(ref) \in Room /\ sess[c].role \in Role
  BY <1>1, SessFacts
<1>3. rm \in Room
  BY <1>2, ReportedFacts DEF TypeInv, ClockInv
<1> HIDE DEF ref, rm
<1>4. QueueInv'
  BY <1>1, <1>2, MarkTypes DEF TypeInv, OpKind
<1> QED
  BY <1>1, <1>2, <1>3, <1>4, ObjSetTypes

\* EndRoom
LEMMA EndRoomTypes ==
  ASSUME TypeInv, NEW ref, RefIn(heap, ref), ref # NoRef, EndRoom(ref)
  PROVE  /\ HeapOK(heap', rooms') /\ heap' \in Heaps /\ Grown(heap, heap')
         /\ leaving' \subseteq Conns
<1> DEFINE rm == Emptied(Obj(ref))
<1>1. /\ SetObj(ref, rm) /\ leaving' = leaving \union Occupants(Obj(ref))
      /\ removeRoomLocked(ref.id)
  BY DEF EndRoom
<1>2. ref.id \in RoomIds /\ rm \in Room /\ Occupants(Obj(ref)) \subseteq Conns
  BY ObjFacts, EmptiedFacts, OccupantsFacts
<1> HIDE DEF rm
<1>3. /\ heap' \in Heaps /\ Grown(heap, heap')
      /\ \A i \in RoomIds : Len(heap'[i]) = Len(heap[i])
  BY <1>1, <1>2, SetObjFacts
<1>4. HeapOK(heap', rooms')
  BY <1>1, <1>2, <1>3, HeapRemoved
<1> QED
  BY <1>1, <1>2, <1>3, <1>4 DEF TypeInv, PlainInv

LEMMA CloseRoomTypes ==
  ASSUME TypeInv, NEW c \in Conns, CloseRoom(c, sess[c].at)
  PROVE  Handled
<1> DEFINE ref == sess[c].at
           t   == [do |-> "markClosed", at |-> ref, role |-> "host"]
<1>1. /\ ref # NoRef /\ EndRoom(ref) /\ SetTask(c, t)
      /\ tomb' = [tomb EXCEPT ![ref.id] = "closed"]
      /\ UNCHANGED <<sess, tokens, queueVars>>
  BY DEF CloseRoom, AttachedTo, SetTask
<1>2. RefIn(heap, ref)
  BY <1>1, SessFacts
<1> HIDE DEF ref
<1>3. /\ HeapOK(heap', rooms') /\ heap' \in Heaps /\ Grown(heap, heap')
      /\ leaving' \subseteq Conns
  BY <1>1, <1>2, EndRoomTypes
<1>4. RefIn(heap', ref)
  BY <1>2, <1>3, GrownKeeps DEF TypeInv, HeapOK
<1>5. TaskOK(heap', t)
  BY <1>1, <1>4 DEF TaskOK, Task, Role, RefIn
<1> HIDE DEF t
<1>6. SessInv' /\ TaskInv'
  BY <1>1, <1>3, <1>5, SessKept, TaskSet
<1>7. PlainInv' /\ QueueInv'
  BY <1>1, <1>3 DEF TypeInv, PlainInv, QueueInv, queueVars
<1> QED
  BY <1>3, <1>6, <1>7 DEF Handled

LEMMA MarkClosedTypes ==
  ASSUME TypeInv, NEW c \in Conns, MarkClosed(c)
  PROVE  Handled
<1>1. /\ task[c].do = "markClosed" /\ Mark(task[c].at.id, "delete")
      /\ SetTask(c, NoTask)
      /\ UNCHANGED <<heap, rooms, tomb, sess, leaving, tokens>>
  BY DEF MarkClosed, markDeleted, SetTask
<1>2. task[c].at.id \in RoomIds
  BY <1>1, TaskFacts
<1>3. HeapOK(heap', rooms') /\ heap' \in Heaps /\ Grown(heap, heap')
  BY <1>1, HeapSame
<1>4. SessInv' /\ TaskInv'
  BY <1>1, <1>3, SessKept, TaskSet, NoTaskOK
<1>5. QueueInv'
  BY <1>1, <1>2, MarkTypes DEF TypeInv, OpKind
<1>6. PlainInv'
  BY <1>1 DEF TypeInv, PlainInv
<1> QED
  BY <1>3, <1>4, <1>5, <1>6 DEF Handled

LEMMA LoseTypes ==
  ASSUME TypeInv, NEW c \in Conns, Lose(c)
  PROVE  Handled
<1>1. /\ leaving' = leaving \union {c}
      /\ UNCHANGED <<heap, rooms, tomb, sess, task, tokens, queueVars>>
  BY DEF Lose
<1>3. HeapOK(heap', rooms') /\ heap' \in Heaps /\ Grown(heap, heap')
  BY <1>1, HeapSame
<1>4. SessInv' /\ TaskInv'
  BY <1>1, <1>3, SessKept, TaskKept
<1>5. PlainInv' /\ QueueInv'
  BY <1>1 DEF TypeInv, PlainInv, QueueInv, queueVars
<1> QED
  BY <1>3, <1>4, <1>5 DEF Handled

LEMMA DetachTypes ==
  ASSUME TypeInv, NEW c \in Conns, Detach(c)
  PROVE  Handled
<1> DEFINE ref == sess[c].at
           rm  == Detached(Obj(ref), sess[c].role, c, now)
<1>1. /\ sess[c] # NoSession /\ SetObj(ref, rm) /\ Mark(ref.id, "save")
      /\ sess' = [sess EXCEPT ![c] = NoSession]
      /\ leaving' \in {leaving, leaving \ {c}}
      /\ UNCHANGED <<rooms, tomb, task, tokens>>
  BY DEF Detach, MarkDetached, markDirty
<1>2. ref # NoRef
  BY <1>1 DEF TypeInv, SessInv, SessOK
<1>3. RefIn(heap, ref) /\ ref.id \in RoomIds /\ Obj(ref) \in Room /\ sess[c].role \in Role
  BY <1>2, SessFacts
<1>4. rm \in Room
  BY <1>3, DetachedFacts DEF TypeInv, ClockInv
<1> HIDE DEF ref, rm
<1>5. /\ heap' \in Heaps /\ Grown(heap, heap')
      /\ \A i \in RoomIds : Len(heap'[i]) = Len(heap[i])
  BY <1>1, <1>2, <1>3, <1>4, SetObjFacts
<1>6. HeapOK(heap', rooms')
  BY <1>1, <1>5, HeapKept
<1>7. SessInv' /\ TaskInv'
  BY <1>1, <1>5, SessDropped, TaskKept
<1>8. QueueInv'
  BY <1>1, <1>3, MarkTypes DEF TypeInv, OpKind
<1>9. PlainInv'
  BY <1>1 DEF TypeInv, PlainInv
<1> QED
  BY <1>5, <1>6, <1>7, <1>8, <1>9 DEF Handled

\* What a handler leaves alone stays typed on the grown heap.
LEMMA FrameTypes ==
  ASSUME TypeInv, heap' \in Heaps, Grown(heap, heap')
  PROVE  /\ UNCHANGED <<sweeping, shutting, toShut, toMark>> => MainInv'
         /\ UNCHANGED loopVars => LoopInv'
<1>1. heap \in Heaps
  BY DEF TypeInv, HeapOK
<1>2. /\ \A ref : RefIn(heap, ref) => RefIn(heap', ref)
      /\ \A d : HoldOK(heap, d) => HoldOK(heap', d)
  BY <1>1, GrownKeeps
<1>3. ASSUME UNCHANGED <<sweeping, shutting, toShut, toMark>> PROVE MainInv'
  BY <1>2, <1>3 DEF TypeInv, MainInv
<1>4. ASSUME UNCHANGED loopVars PROVE LoopInv'
  BY <1>2, <1>4 DEF TypeInv, LoopInv, loopVars
<1> QED
  BY <1>3, <1>4

\* Every handler step keeps the types, and only a running process has one.
LEMMA StartTypes ==
  ASSUME TypeInv, NEW c \in Conns, StartHandler(c)
  PROVE  Handled /\ Handling /\ handled' \in 0..MaxHandled
<1>1. handled' \in 0..MaxHandled
  BY PersistenceAssumption DEF StartHandler, TypeInv, ClockInv
<1>2. CASE \E id \in RoomIds, e \in Epochs : CreateRoom(c, id, e) \/ JoinRoom(c, id, e)
  BY <1>1, <1>2, CreateTypes, JoinTypes DEF CreateRoom, JoinRoom, Unattached, Ready
<1>3. CASE \E id \in RoomIds : WrongPassword(c, id)
  BY <1>1, <1>3, WrongPasswordTypes DEF WrongPassword, Unattached, Ready
<1>4. CASE \E tok \in tokens : Recreate(c, tok) \/ \E e \in Epochs : RejoinRoom(c, tok, e)
  BY <1>1, <1>4, RecreateTypes, RejoinTypes DEF Recreate, RejoinRoom, Unattached, Ready
<1>5. CASE \E seq \in 1..MaxSeq, size \in Sizes : Signal(c, sess[c].at, seq, size)
  BY <1>1, <1>5, SignalTypes DEF Signal, AttachedTo, Ready
<1>6. CASE PeerConnected(c, sess[c].at)
  BY <1>1, <1>6, PeerConnectedTypes DEF PeerConnected, AttachedTo, Ready
<1>7. CASE CloseRoom(c, sess[c].at)
  BY <1>1, <1>7, CloseRoomTypes DEF CloseRoom, AttachedTo, Ready
<1>8. CASE Lose(c)
  BY <1>1, <1>8, LoseTypes DEF Lose, Ready
<1> QED
  BY <1>2, <1>3, <1>4, <1>5, <1>6, <1>7, <1>8 DEF StartHandler

LEMMA ContinueTypes ==
  ASSUME TypeInv, NEW c \in Conns, ContinueHandler(c)
  PROVE  Handled /\ Handling /\ handled' \in 0..MaxHandled
<1>1. handled' \in 0..MaxHandled
  BY DEF ContinueHandler, TypeInv, ClockInv
<1>2. CASE \E e \in Epochs : AttachRecreated(c, e)
  BY <1>1, <1>2, AttachRecreatedTypes DEF AttachRecreated
<1>3. CASE MarkCreated(c)
  BY <1>1, <1>3, MarkCreatedTypes DEF MarkCreated
<1>4. CASE MarkRecreated(c)
  BY <1>1, <1>4, MarkRecreatedTypes DEF MarkRecreated
<1>5. CASE MarkClosed(c)
  BY <1>1, <1>5, MarkClosedTypes DEF MarkClosed
<1>6. CASE Detach(c)
  BY <1>1, <1>6, DetachTypes DEF Detach
<1> QED
  BY <1>2, <1>3, <1>4, <1>5, <1>6 DEF ContinueHandler

LEMMA HandleTypes ==
  ASSUME TypeInv, Handle
  PROVE  TypeInv'
<1>1. /\ Handled /\ Handling /\ handled' \in 0..MaxHandled
      /\ UNCHANGED <<now, phase, sweeping, mainVars, loopVars, disk, promised>>
  BY StartTypes, ContinueTypes DEF Handle
<1>2. heap' \in Heaps /\ Grown(heap, heap')
  BY <1>1 DEF Handled, HeapOK
<1>3. MainInv' /\ LoopInv'
  BY <1>1, <1>2, FrameTypes DEF mainVars
<1>4. DiskInv'
  BY <1>1 DEF TypeInv, DiskInv
<1>5. ClockInv'
  BY <1>1 DEF TypeInv, ClockInv, Handling
<1> QED
  BY <1>1, <1>3, <1>4, <1>5 DEF TypeInv, Handled

-----------------------------------------------------------------------------
(* Types: sweep, persister, process *)

LEMMA SweepTypes ==
  ASSUME TypeInv, Sweep
  PROVE  TypeInv'
<1>1. CASE SweepMark
  <2>1. /\ sweeping # NoRef /\ Mark(sweeping.id, "delete") /\ sweeping' = NoRef
        /\ phase # "down"
        /\ UNCHANGED <<now, phase, memVars, mainVars, loopVars, disk, promised>>
    BY <1>1 DEF SweepMark, markDeleted
  <2>2. sweeping.id \in RoomIds
    BY <2>1, RefFacts DEF TypeInv, MainInv, RefIn
  <2>3. QueueInv'
    BY <2>1, <2>2, MarkTypes DEF TypeInv, OpKind
  <2>4. HeapOK(heap', rooms') /\ heap' \in Heaps /\ Grown(heap, heap')
    BY <2>1, HeapSame DEF memVars
  <2>5. SessInv' /\ TaskInv' /\ LoopInv'
    BY <2>1, <2>4, SessKept, TaskKept, FrameTypes DEF memVars
  <2>6. MainInv'
    BY <2>1, NilTypes DEF TypeInv, MainInv, RefIn, mainVars, memVars
  <2>7. PlainInv' /\ DiskInv' /\ ClockInv'
    BY <2>1 DEF TypeInv, PlainInv, DiskInv, ClockInv, memVars
  <2> QED
    BY <2>3, <2>4, <2>5, <2>6, <2>7 DEF TypeInv
<1>2. ASSUME NEW id \in RoomIds, SweepRoom(id) PROVE TypeInv'
  <2>1. /\ Handling /\ rooms[id] # NoGen /\ EndRoom(LiveRef(id))
        /\ sweeping' = LiveRef(id)
        /\ UNCHANGED <<now, phase, tomb, sess, task, handled, tokens, mainVars,
                       queueVars, loopVars, disk, promised>>
    BY <1>2 DEF SweepRoom
  <2>2. RefIn(heap, LiveRef(id)) /\ LiveRef(id) # NoRef
    BY <2>1, LiveRefFacts
  <2>3. /\ HeapOK(heap', rooms') /\ heap' \in Heaps /\ Grown(heap, heap')
        /\ leaving' \subseteq Conns
    BY <2>1, <2>2, EndRoomTypes
  <2>4. SessInv' /\ TaskInv' /\ LoopInv'
    BY <2>1, <2>3, SessKept, TaskKept, FrameTypes
  <2>5. MainInv'
    <3>1. \A ref : RefIn(heap, ref) => RefIn(heap', ref)
      BY <2>3, GrownKeeps DEF TypeInv, HeapOK
    <3>2. RefIn(heap', sweeping')
      BY <2>1, <2>2, <3>1
    <3> QED
      BY <2>1, <3>1, <3>2 DEF TypeInv, MainInv, mainVars
  <2>6. PlainInv' /\ DiskInv' /\ ClockInv' /\ QueueInv'
    BY <2>1, <2>3
    DEF TypeInv, PlainInv, DiskInv, ClockInv, QueueInv, queueVars, Handling
  <2> QED
    BY <2>3, <2>4, <2>5, <2>6 DEF TypeInv
<1> QED
  BY <1>1, <1>2 DEF Sweep

\* What the persister leaves alone.
LEMMA PersisterFrame ==
  ASSUME TypeInv, phase # "down", UNCHANGED persisterRest
  PROVE  /\ ClockInv' /\ HeapOK(heap', rooms') /\ SessInv' /\ TaskInv' /\ PlainInv'
         /\ MainInv' /\ heap' = heap
<1>1. HeapOK(heap', rooms') /\ heap' \in Heaps /\ Grown(heap, heap')
  BY HeapSame DEF persisterRest, memVars
<1>2. SessInv' /\ TaskInv' /\ MainInv'
  BY <1>1, SessKept, TaskKept, FrameTypes DEF persisterRest, memVars, mainVars
<1> QED
  BY <1>1, <1>2 DEF TypeInv, PlainInv, ClockInv, persisterRest, memVars

LEMMA WrittenTypes ==
  ASSUME TypeInv, NEW id \in RoomIds, NEW data \in RoomSnapshot \union {NoFile},
         Written(id, data), UNCHANGED <<opCh, late, promised>>
  PROVE  QueueInv' /\ DiskInv'
BY DEF Written, TypeInv, QueueInv, DiskInv

LEMMA PersisterTypes ==
  ASSUME TypeInv, Persister
  PROVE  TypeInv'
<1>0. /\ pending \in [RoomIds -> OpKind \union {"none"}]
      /\ batch \in [RoomIds -> OpKind \union {"none"}]
      /\ HoldOK(heap, holding) /\ loop \in {"select", "drain", "final"}
      /\ loop = "drain" => batch = NoOps /\ holding = NoHold
      /\ opCh \in Seq(Op) /\ Len(opCh) <= QueueCap
  BY DEF TypeInv, LoopInv, QueueInv
<1>1. CASE Take
  <2> DEFINE p == Coalesce(pending, Head(opCh))
  <2>1. /\ phase # "down" /\ opCh # << >> /\ opCh' = Tail(opCh)
        /\ \/ batch' = p /\ pending' = NoOps /\ loop = "select"
           \/ pending' = p /\ UNCHANGED batch
        /\ UNCHANGED <<persisterRest, newest, late, holding, loop, disk>>
    BY <1>1 DEF Take
  <2>2. Head(opCh) \in Op /\ Tail(opCh) \in Seq(Op) /\ Len(Tail(opCh)) = Len(opCh) - 1
    BY <1>0, <2>1
  <2>3. p \in [RoomIds -> OpKind \union {"none"}]
    BY <1>0, <2>2 DEF Coalesce, Op
  <2> HIDE DEF p
  <2>4. QueueInv'
    <3>1. Len(opCh) \in Nat /\ QueueCap \in Nat
      BY <1>0, PersistenceAssumption
    <3>2. Len(opCh') <= QueueCap
      BY <1>0, <2>1, <2>2, <3>1
    <3> QED
      BY <2>1, <2>2, <3>2 DEF TypeInv, QueueInv
  <2>5. LoopInv'
    BY <1>0, <2>1, <2>3, NilTypes, PersisterFrame DEF LoopInv
  <2> QED
    BY <2>1, <2>4, <2>5, PersisterFrame DEF TypeInv, DiskInv, persisterRest
<1>2. CASE TickerFlush
  <2>1. /\ phase # "down" /\ loop = "select" /\ batch' = pending /\ pending' = NoOps
        /\ UNCHANGED <<persisterRest, queueVars, holding, loop, disk>>
    BY <1>2 DEF TickerFlush
  <2>2. LoopInv'
    BY <1>0, <2>1, NilTypes, PersisterFrame DEF LoopInv
  <2> QED
    BY <2>1, <2>2, PersisterFrame DEF TypeInv, DiskInv, QueueInv, persisterRest, queueVars
<1>3. CASE SeeStop
  <2>1. /\ phase = "stopping" /\ loop' = "drain" /\ batch = NoOps /\ holding = NoHold
        /\ UNCHANGED <<persisterRest, queueVars, pending, batch, holding, disk>>
    BY <1>3 DEF SeeStop, Flushing
  <2>2. LoopInv'
    BY <1>0, <2>1, PersisterFrame DEF LoopInv
  <2> QED
    BY <2>1, <2>2, PersisterFrame DEF TypeInv, DiskInv, QueueInv, persisterRest, queueVars
<1>4. CASE FinalFlush
  <2>1. /\ phase # "down" /\ loop' = "final" /\ batch' = pending /\ pending' = NoOps
        /\ UNCHANGED <<persisterRest, queueVars, holding, disk>>
    BY <1>4 DEF FinalFlush
  <2>2. LoopInv'
    BY <1>0, <2>1, NilTypes, PersisterFrame DEF LoopInv
  <2> QED
    BY <2>1, <2>2, PersisterFrame DEF TypeInv, DiskInv, QueueInv, persisterRest, queueVars
<1>5. CASE SnapshotRead
  <2> DEFINE ref == [id |-> holding.id, gen |-> holding.gen]
             d   == marshalSnapshot(Obj(ref))
  <2>1. /\ phase # "down" /\ holding.gen # NoGen
        /\ holding' = [id |-> holding.id, gen |-> NoGen, data |-> d]
        /\ UNCHANGED <<persisterRest, queueVars, pending, batch, loop, disk>>
    BY <1>5 DEF SnapshotRead
  <2>2. holding # NoHold
    BY <2>1, NilTypes
  <2>3. holding.id \in RoomIds /\ holding.gen \in Gens /\ holding.gen <= Len(heap[holding.id])
    BY <1>0, <2>1, <2>2 DEF HoldOK, Holding
  <2>4. RefIn(heap, ref) /\ ref # NoRef
    BY <2>3, RefMade DEF RefIn
  <2>5. d \in RoomSnapshot
    BY <2>4, ObjFacts, SnapshotFacts
  <2> HIDE DEF d
  <2>6. HoldOK(heap, holding')
    BY <2>1, <2>3, <2>5 DEF HoldOK, Holding
  <2>7. LoopInv'
    BY <1>0, <2>1, <2>2, <2>6, PersisterFrame DEF LoopInv
  <2> QED
    BY <2>1, <2>7, PersisterFrame DEF TypeInv, DiskInv, QueueInv, persisterRest, queueVars
<1>6. CASE FlushSave
  <2>1. /\ phase # "down" /\ holding.data # NoFile /\ Written(holding.id, holding.data)
        /\ holding' = NoHold
        /\ UNCHANGED <<persisterRest, opCh, late, pending, batch, loop>>
    BY <1>6 DEF FlushSave
  <2>2. holding # NoHold
    BY <2>1, NilTypes
  <2>3. holding.id \in RoomIds /\ holding.data \in RoomSnapshot \union {NoFile}
    BY <1>0, <2>2 DEF HoldOK, Holding
  <2>4. QueueInv' /\ DiskInv'
    BY <2>1, <2>3, WrittenTypes DEF persisterRest
  <2>5. HoldOK(heap, NoHold)
    BY NilTypes DEF HoldOK
  <2>6. LoopInv'
    BY <1>0, <2>1, <2>5, PersisterFrame DEF LoopInv
  <2> QED
    BY <2>1, <2>4, <2>6, PersisterFrame DEF TypeInv
<1>7. ASSUME NEW id \in RoomIds, FlushDelete(id) PROVE TypeInv'
  <2>1. /\ phase # "down" /\ Written(id, NoFile)
        /\ batch[id] # "none"
        /\ batch' = [batch EXCEPT ![id] = "none"]
        /\ UNCHANGED <<persisterRest, opCh, late, pending, holding, loop>>
    BY <1>7 DEF FlushDelete
  <2>2. QueueInv' /\ DiskInv'
    BY <2>1, WrittenTypes DEF persisterRest
  <2>3. loop # "drain"
    BY <1>0, <2>1, NilTypes
  <2>4. LoopInv'
    BY <1>0, <2>1, <2>3, PersisterFrame DEF LoopInv
  <2> QED
    BY <2>1, <2>2, <2>4, PersisterFrame DEF TypeInv
<1>8. ASSUME NEW id \in RoomIds, SnapshotLookup(id) PROVE TypeInv'
  <2>1. /\ phase # "down" /\ rooms[id] # NoGen /\ batch[id] = "save"
        /\ batch' = [batch EXCEPT ![id] = "none"]
        /\ holding' = [id |-> id, gen |-> rooms[id], data |-> NoFile]
        /\ UNCHANGED <<persisterRest, queueVars, pending, loop, disk>>
    BY <1>8 DEF SnapshotLookup
  <2>2. rooms[id] \in Gens /\ rooms[id] <= Len(heap[id])
    BY <2>1 DEF TypeInv, HeapOK
  <2>3. HoldOK(heap, holding')
    BY <2>1, <2>2 DEF HoldOK, Holding
  <2>4. loop # "drain"
    BY <1>0, <2>1, NilTypes
  <2>5. LoopInv'
    BY <1>0, <2>1, <2>3, <2>4, PersisterFrame DEF LoopInv
  <2> QED
    BY <2>1, <2>5, PersisterFrame DEF TypeInv, DiskInv, QueueInv, persisterRest, queueVars
<1> QED
  BY <1>1, <1>2, <1>3, <1>4, <1>5, <1>6, <1>7, <1>8 DEF Persister, Flush

MemoryInv == /\ HeapOK(heap, rooms) /\ SessInv /\ TaskInv /\ MainInv /\ QueueInv
             /\ LoopInv

\* A process without memory is typed.
LEMMA BlankTypes == Blank => MemoryInv
<1> SUFFICES ASSUME Blank PROVE MemoryInv
  OBVIOUS
<1>1. /\ heap = [id \in RoomIds |-> << >>] /\ rooms = [id \in RoomIds |-> NoGen]
      /\ sess = [c \in Conns |-> NoSession] /\ task = [c \in Conns |-> NoTask]
      /\ sweeping = NoRef /\ shutting = NoRef /\ toMark = {} /\ toShut = {}
      /\ opCh = << >> /\ pending = NoOps /\ batch = NoOps /\ holding = NoHold
      /\ loop = "select" /\ newest = [id \in RoomIds |-> "none"] /\ late = {}
  BY DEF Blank
<1>2. << >> \in Seq(Room) /\ Len(<< >>) = 0 /\ << >> \in Seq(Op)
  OBVIOUS
<1>3. HeapOK(heap, rooms)
  BY <1>1, <1>2, PersistenceAssumption DEF HeapOK, Heaps, NoGen
<1>4. SessInv /\ TaskInv
  BY <1>1, NilTypes DEF SessInv, TaskInv, SessOK, TaskOK, RefIn
<1>5. MainInv
  BY <1>1, NilTypes DEF MainInv, RefIn
<1>6. QueueInv
  BY <1>1, <1>2, PersistenceAssumption DEF QueueInv
<1>7. LoopInv
  BY <1>1, NilTypes DEF LoopInv, HoldOK
<1> QED
  BY <1>3, <1>4, <1>5, <1>6, <1>7 DEF MemoryInv

LEMMA InitTypes ==
  ASSUME Init
  PROVE  TypeInv
<1>1. Blank
  BY DEF Init, Blank
<1>2. PlainInv /\ DiskInv
  BY DEF Init, PlainInv, DiskInv
<1>3. ClockInv
  BY <1>1, PersistenceAssumption DEF Init, ClockInv, Time
<1> QED
  BY <1>1, <1>2, <1>3, BlankTypes DEF TypeInv, MemoryInv

LEMMA NoProcessTypes ==
  ASSUME TypeInv, NoProcess, UNCHANGED <<now, handled, tokens, disk>>,
         promised' \in [RoomIds -> Room \union {NoFile}]
  PROVE  TypeInv'
<1>1. Blank'
  BY DEF NoProcess, Blank
<1>2. MemoryInv'
  BY <1>1, BlankTypes, PTL
<1>3. PlainInv' /\ DiskInv'
  BY DEF NoProcess, TypeInv, PlainInv, DiskInv
<1>4. ClockInv'
  BY <1>1 DEF NoProcess, TypeInv, ClockInv
<1> QED
  BY <1>2, <1>3, <1>4 DEF TypeInv, MemoryInv

LEMMA CrashTypes ==
  ASSUME TypeInv, Crash
  PROVE  TypeInv'
<1>1. \A id \in RoomIds : rooms[id] # NoGen => Obj(LiveRef(id)) \in Room
  BY LiveRefFacts, ObjFacts
<1>2. promised' \in [RoomIds -> Room \union {NoFile}]
  BY <1>1 DEF Crash
<1> QED
  BY <1>2, NoProcessTypes DEF Crash

LEMMA BootTypes ==
  ASSUME TypeInv, Boot
  PROVE  TypeInv'
<1> DEFINE live == {id \in RoomIds : disk[id] # NoFile /\ Restorable(disk[id], now)}
<1>1. /\ phase = "down" /\ phase' = "booting"
      /\ heap' = [id \in RoomIds |->
                    IF id \in live THEN <<RestoredRoom(disk[id], now)>> ELSE << >>]
      /\ rooms' = [id \in RoomIds |-> IF id \in live THEN 1 ELSE NoGen]
      /\ \E kept \in SUBSET (RoomIds \ live) :
           disk' = [id \in RoomIds |-> IF id \in live \union kept THEN disk[id] ELSE NoFile]
      /\ toMark' = live
      /\ promised' = [id \in RoomIds |-> NoFile]
      /\ UNCHANGED <<now, tomb, sess, leaving, task, handled, tokens, sweeping, toShut,
                     shutting, queueVars, loopVars>>
  BY DEF Boot
<1>2. Blank
  BY <1>1 DEF TypeInv, ClockInv
<1>3. \A id \in RoomIds : id \in live => RestoredRoom(disk[id], now) \in Room
  BY RestoredFacts DEF TypeInv, DiskInv, ClockInv
<1>4. live \subseteq RoomIds
  OBVIOUS
<1> HIDE DEF live
<1>5. \A id \in RoomIds :
        /\ heap'[id] = IF id \in live THEN <<RestoredRoom(disk[id], now)>> ELSE << >>
        /\ rooms'[id] = IF id \in live THEN 1 ELSE NoGen
  BY <1>1
<1>6. \A id \in RoomIds : heap'[id] \in Seq(Room) /\ rooms'[id] <= Len(heap'[id])
                          /\ Len(heap'[id]) <= 1 /\ rooms'[id] \in Gens \union {NoGen}
  <2> TAKE id \in RoomIds
  <2>1. CASE id \in live
    <3> DEFINE rm == RestoredRoom(disk[id], now)
    <3>1. rm \in Room
      BY <1>3, <2>1
    <3>2. heap'[id] = <<rm>> /\ rooms'[id] = 1
      BY <1>5, <2>1
    <3> HIDE DEF rm
    <3>3. <<rm>> \in Seq(Room) /\ Len(<<rm>>) = 1
      BY <3>1
    <3> QED
      BY <3>2, <3>3, PersistenceAssumption DEF Gens
  <2>2. CASE id \notin live
    <3>1. heap'[id] = << >> /\ rooms'[id] = NoGen
      BY <1>5, <2>2
    <3>2. << >> \in Seq(Room) /\ Len(<< >>) = 0
      OBVIOUS
    <3> QED
      BY <3>1, <3>2 DEF NoGen
  <2> QED
    BY <2>1, <2>2
<1>7. HeapOK(heap', rooms') /\ heap' \in Heaps
  <2>1. heap' \in Heaps
    BY <1>1, <1>6 DEF Heaps
  <2>2. rooms' \in [RoomIds -> Gens \union {NoGen}]
    BY <1>1, <1>6
  <2>3. 1 <= MaxGens /\ MaxGens \in Nat
    BY PersistenceAssumption
  <2>4. \A id \in RoomIds : Len(heap'[id]) <= MaxGens
    <3>1. \A id \in RoomIds : Len(heap'[id]) \in Nat
      BY <1>6
    <3> QED
      BY <1>6, <2>3, <3>1
  <2> QED
    BY <1>6, <2>1, <2>2, <2>4 DEF HeapOK
<1>8. heap \in Heaps /\ Grown(heap, heap')
  <2>1. \A id \in RoomIds : Len(heap[id]) = 0
    BY <1>2 DEF Blank
  <2>2. \A id \in RoomIds : Len(heap'[id]) \in Nat
    BY <1>6
  <2> QED
    BY <2>1, <2>2 DEF TypeInv, HeapOK, Grown
<1>9. SessInv' /\ TaskInv' /\ LoopInv'
  BY <1>1, <1>7, <1>8, SessKept, TaskKept, FrameTypes
<1>10. MainInv'
  BY <1>1, <1>2, <1>4, NilTypes DEF Blank, MainInv, RefIn
<1>11. PlainInv' /\ QueueInv'
  BY <1>1 DEF TypeInv, PlainInv, QueueInv, queueVars
<1>12. DiskInv'
  BY <1>1 DEF TypeInv, DiskInv
<1>13. ClockInv'
  BY <1>1 DEF TypeInv, ClockInv
<1> QED
  BY <1>7, <1>9, <1>10, <1>11, <1>12, <1>13 DEF TypeInv

LEMMA MainTypes ==
  ASSUME TypeInv, Main
  PROVE  TypeInv'
<1>1. CASE Boot
  BY <1>1, BootTypes
<1>2. CASE Serve
  <2>1. /\ phase' = "serving"
        /\ UNCHANGED <<now, memVars, sweeping, mainVars, queueVars, loopVars, disk, promised>>
    BY <1>2 DEF Serve
  <2> QED
    BY <2>1 DEF TypeInv, ClockInv, HeapOK, SessInv, TaskInv, PlainInv, MainInv, QueueInv,
                LoopInv, DiskInv, memVars, mainVars, queueVars, loopVars
<1>3. CASE ShutdownRemove
  <2>1. /\ phase = "draining" /\ shutting # NoRef /\ removeRoomLocked(shutting.id)
        /\ shutting' = NoRef
        /\ UNCHANGED <<now, phase, heap, tomb, sess, leaving, task, handled, tokens,
                       sweeping, toMark, toShut, queueVars, loopVars, disk, promised>>
    BY <1>3 DEF ShutdownRemove
  <2>2. shutting.id \in RoomIds
    BY <2>1, RefFacts DEF TypeInv, MainInv, RefIn
  <2>3. heap' \in Heaps /\ \A i \in RoomIds : Len(heap'[i]) = Len(heap[i])
    BY <2>1 DEF TypeInv, HeapOK
  <2>4. HeapOK(heap', rooms')
    BY <2>1, <2>2, <2>3, HeapRemoved
  <2> QED
    BY <2>1, <2>4, NilTypes
    DEF TypeInv, ClockInv, SessInv, TaskInv, PlainInv, MainInv, QueueInv,
        LoopInv, DiskInv, queueVars, loopVars, RefIn
<1>4. CASE Stop
  <2>1. /\ phase' = "stopping"
        /\ UNCHANGED <<now, memVars, sweeping, mainVars, queueVars, loopVars, disk, promised>>
    BY <1>4 DEF Stop
  <2> QED
    BY <2>1 DEF TypeInv, ClockInv, HeapOK, SessInv, TaskInv, PlainInv, MainInv, QueueInv,
                LoopInv, DiskInv, memVars, mainVars, queueVars, loopVars
<1>5. CASE Exit
  BY <1>5, NoProcessTypes DEF Exit, TypeInv, DiskInv
<1>6. ASSUME NEW id \in RoomIds, MarkAllDirty(id) PROVE TypeInv'
  <2>1. /\ phase = "booting" /\ Mark(id, "save") /\ toMark' = toMark \ {id}
        /\ UNCHANGED <<now, phase, memVars, sweeping, toShut, shutting, loopVars,
                       disk, promised>>
    BY <1>6 DEF MarkAllDirty, markDirty
  <2>2. QueueInv'
    BY <2>1, MarkTypes DEF TypeInv, OpKind
  <2> QED
    BY <2>1, <2>2 DEF TypeInv, ClockInv, HeapOK, SessInv, TaskInv, PlainInv, MainInv,
                      LoopInv, DiskInv, memVars, loopVars
<1>7. ASSUME NEW ref \in toShut, ShutdownClose(ref) PROVE TypeInv'
  <2> DEFINE rm == Emptied(Obj(ref))
  <2>1. /\ phase = "draining" /\ SetObj(ref, rm)
        /\ leaving' = leaving \union Occupants(Obj(ref))
        /\ toShut' = toShut \ {ref} /\ shutting' = ref
        /\ UNCHANGED <<now, phase, rooms, tomb, sess, task, handled, tokens, sweeping,
                       toMark, queueVars, loopVars, disk, promised>>
    BY <1>7 DEF ShutdownClose
  <2>2. RefIn(heap, ref) /\ ref # NoRef
    BY DEF TypeInv, MainInv
  <2>3. rm \in Room /\ Occupants(Obj(ref)) \subseteq Conns
    BY <2>2, ObjFacts, EmptiedFacts, OccupantsFacts
  <2> HIDE DEF rm
  <2>4. /\ heap' \in Heaps /\ Grown(heap, heap')
        /\ \A i \in RoomIds : Len(heap'[i]) = Len(heap[i])
    BY <2>1, <2>2, <2>3, SetObjFacts
  <2>5. HeapOK(heap', rooms')
    BY <2>1, <2>4, HeapKept
  <2>6. SessInv' /\ TaskInv' /\ LoopInv'
    BY <2>1, <2>4, SessKept, TaskKept, FrameTypes
  <2>7. MainInv'
    <3>1. \A x : RefIn(heap, x) => RefIn(heap', x)
      BY <2>4, GrownKeeps DEF TypeInv, HeapOK
    <3> QED
      BY <2>1, <2>2, <3>1 DEF TypeInv, MainInv
  <2>8. PlainInv' /\ QueueInv' /\ DiskInv' /\ ClockInv'
    BY <2>1, <2>3 DEF TypeInv, PlainInv, QueueInv, DiskInv, ClockInv, queueVars
  <2> QED
    BY <2>5, <2>6, <2>7, <2>8 DEF TypeInv
<1> QED
  BY <1>1, <1>2, <1>3, <1>4, <1>5, <1>6, <1>7 DEF Main

LEMMA ShutdownTypes ==
  ASSUME TypeInv, Shutdown
  PROVE  TypeInv'
<1>1. /\ phase' = "draining"
      /\ toShut' = {LiveRef(id) : id \in {i \in RoomIds : rooms[i] # NoGen}}
      /\ UNCHANGED <<now, memVars, sweeping, toMark, shutting, queueVars, loopVars,
                     disk, promised>>
  BY DEF Shutdown
<1>2. \A ref \in toShut' : ref # NoRef /\ RefIn(heap, ref)
  BY <1>1, LiveRefFacts
<1>3. MainInv'
  BY <1>1, <1>2 DEF TypeInv, MainInv, memVars
<1> QED
  BY <1>1, <1>3 DEF TypeInv, ClockInv, HeapOK, SessInv, TaskInv, PlainInv, QueueInv,
                    LoopInv, DiskInv, memVars, queueVars, loopVars

\* The invariant behind the types is inductive.
LEMMA NextTypes ==
  ASSUME TypeInv, [Next]_vars
  PROVE  TypeInv'
<1>1. CASE Tick
  <2>1. /\ now' = now + 1
        /\ UNCHANGED <<phase, memVars, sweeping, mainVars, queueVars, loopVars, disk, promised>>
    BY <1>1 DEF Tick
  <2>2. now' \in Time
    BY <2>1 DEF TypeInv, ClockInv, Time
  <2>3. UNCHANGED Blank
    BY <2>1 DEF Blank, memVars, mainVars, queueVars, loopVars
  <2>4. ClockInv'
    BY <2>1, <2>2, <2>3 DEF TypeInv, ClockInv, memVars
  <2> QED
    BY <2>1, <2>4 DEF TypeInv, HeapOK, SessInv, TaskInv, PlainInv, MainInv, QueueInv,
                      LoopInv, DiskInv, memVars, mainVars, queueVars, loopVars
<1>2. CASE UNCHANGED vars
  <2>1. UNCHANGED <<now, phase, memVars, sweeping, mainVars, queueVars, loopVars, disk,
                    promised>>
    BY <1>2 DEF vars
  <2>3. UNCHANGED Blank
    BY <2>1 DEF Blank, memVars, mainVars, queueVars, loopVars
  <2>4. ClockInv'
    BY <2>1, <2>3 DEF TypeInv, ClockInv, memVars
  <2> QED
    BY <2>1, <2>4 DEF TypeInv, HeapOK, SessInv, TaskInv, PlainInv, MainInv, QueueInv,
                      LoopInv, DiskInv, memVars, mainVars, queueVars, loopVars
<1> QED
  BY <1>1, <1>2, HandleTypes, SweepTypes, PersisterTypes, MainTypes, ShutdownTypes,
     CrashTypes DEF Next

LEMMA TypeInvImplies == TypeInv => TypeOK
<1> SUFFICES ASSUME TypeInv PROVE TypeOK
  OBVIOUS
<1>1. /\ now \in Time
      /\ phase \in {"down", "booting", "serving", "draining", "stopping"}
      /\ handled \in 0..MaxHandled
  BY DEF TypeInv, ClockInv
<1>2. /\ heap \in [RoomIds -> Seq(Room)]
      /\ rooms \in [RoomIds -> Gens \union {NoGen}]
      /\ \A id \in RoomIds : rooms[id] <= Len(heap[id]) /\ Len(heap[id]) <= MaxGens
  BY DEF TypeInv, HeapOK, Heaps
<1>3. sess \in [Conns -> Session] /\ task \in [Conns -> Task]
  BY DEF TypeInv, SessInv, TaskInv
<1>4. /\ tomb \in [RoomIds -> {"none", "closed", "locked"}]
      /\ leaving \subseteq Conns
      /\ tokens \subseteq [id : RoomIds, role : Role, createdAt : Time]
  BY DEF TypeInv, PlainInv
<1>5. sweeping \in Ref /\ toMark \subseteq RoomIds /\ toShut \subseteq Ref /\ shutting \in Ref
  BY DEF TypeInv, MainInv, RefIn
<1>6. /\ opCh \in Seq([id : RoomIds, kind : OpKind]) /\ Len(opCh) <= QueueCap
      /\ newest \in [RoomIds -> OpKind \union {"none", "lost"}] /\ late \subseteq RoomIds
  BY DEF TypeInv, QueueInv, Op
<1>7. /\ pending \in [RoomIds -> OpKind \union {"none"}]
      /\ batch \in [RoomIds -> OpKind \union {"none"}]
      /\ holding \in Holding
      /\ loop \in {"select", "drain", "final"}
  BY DEF TypeInv, LoopInv, HoldOK
<1>8. /\ disk \in [RoomIds -> RoomSnapshot \union {NoFile}]
      /\ promised \in [RoomIds -> Room \union {NoFile}]
  BY DEF TypeInv, DiskInv
<1> QED
  BY <1>1, <1>2, <1>3, <1>4, <1>5, <1>6, <1>7, <1>8 DEF TypeOK

\* TypeOK holds in every behaviour: no handler, sweep, snapshot or shutdown
\* follows a pointer that is nil or to no object, across crashes and restarts,
\* and the queue of marks stays within its capacity.
THEOREM PersistenceTypes == Spec => []TypeOK
<1>1. Init => TypeInv
  BY InitTypes
<1>2. TypeInv /\ [Next]_vars => TypeInv'
  BY NextTypes
<1> QED
  BY <1>1, <1>2, TypeInvImplies, PTL DEF Spec

-----------------------------------------------------------------------------
(* The files catch up with the rooms *)

LiveObj(id) == heap[id][rooms[id]]

\* A mark of the id is on its way to the disk: queued, coalesced, or in flush.
InPipe(id) == Queued(id) \/ pending[id] # "none" \/ batch[id] # "none"

\* Somebody has changed the room and is about to mark it.
Coming(id) == \/ id \in toMark \/ sweeping.id = id
              \/ \E c \in Conns : task[c].at.id = id

\* The room went without a mark: a lockout, or Shutdown.
Gone(id) == /\ rooms[id] = NoGen
            /\ tomb[id] = "locked" \/ phase \notin {"booting", "serving"}

\* x is what the file of the room may hold once nothing is outstanding.
Matches(id, x) ==
  IF rooms[id] = NoGen THEN x = NoFile \/ Gone(id)
  ELSE x # NoFile /\ Alike(x, LiveObj(id))

\* A file left over from before the process started is one Restore refused.
Stale(id) == disk[id] # NoFile => ~Restorable(disk[id], now)

\* The last mark in the queue is the newest.
LastRight(id) ==
  \A i \in 1..Len(opCh) :
    opCh[i].id = id /\ (\A j \in 1..Len(opCh) : j > i => opCh[j].id # id)
      => opCh[i].kind = newest[id]

\* The newest mark is the last one of the first stage that has one.
PipeOne(id) ==
  newest[id] # "lost" =>
    /\ LastRight(id)
    /\ ~Queued(id) /\ pending[id] # "none" => pending[id] = newest[id]
    /\ ~Queued(id) /\ pending[id] = "none" /\ batch[id] # "none"
         => batch[id] = newest[id]
    /\ ~InPipe(id) /\ holding.id = id => newest[id] = "save"

\* What it asked for is on disk or in the hands of flush once the stages are
\* empty and nobody is about to mark.
CatchOne(id) ==
  /\ newest[id] = "delete" =>
       /\ ~InPipe(id) => disk[id] = NoFile
       /\ ~Coming(id) => rooms[id] = NoGen \/ id \in late
  /\ newest[id] = "none" =>
       /\ ~InPipe(id) /\ holding.id # id
       /\ ~Coming(id) => Stale(id) /\ rooms[id] = NoGen
  /\ newest[id] = "save" /\ ~InPipe(id) /\ ~Coming(id) =>
       /\ holding.id # id => Matches(id, disk[id])
       /\ holding.id = id /\ holding.data # NoFile => Matches(id, holding.data)
       /\ holding.id = id /\ holding.gen # NoGen => rooms[id] = holding.gen \/ Gone(id)

FileInv == phase # "down" => \A id \in RoomIds : PipeOne(id) /\ CatchOne(id)

\* A step that changes nothing of the room that needs a mark, or that leaves a
\* mark to be made.
Same(id) == /\ rooms'[id] = rooms[id]
            /\ Gone(id) => Gone(id)'
            /\ rooms[id] # NoGen => Alike(LiveObj(id), LiveObj(id)')

Calm(id) == /\ Coming(id) => Coming(id)'
            /\ Coming(id)' \/ Gone(id)' \/ Same(id)

\* Such a step keeps the invariant for this id.
LEMMA CalmKeeps ==
  ASSUME TypeInv, TypeInv', NEW id \in RoomIds, PipeOne(id), CatchOne(id),
         UNCHANGED <<loopVars, disk>>, newest'[id] = newest[id],
         id \in late' <=> id \in late, Stale(id) => Stale(id)',
         Queued(id)' <=> Queued(id),
         newest[id] # "lost" /\ LastRight(id) => LastRight(id)', Calm(id)
  PROVE  PipeOne(id)' /\ CatchOne(id)'
<1>1. UNCHANGED <<pending, batch, holding, disk>>
  BY DEF loopVars
<1>2. InPipe(id)' <=> InPipe(id)
  BY <1>1 DEF InPipe
<1>3. PipeOne(id)'
  BY <1>1, <1>2 DEF PipeOne
<1>4. ASSUME newest'[id] = "delete"
      PROVE  /\ ~InPipe(id)' => disk'[id] = NoFile
             /\ ~Coming(id)' => rooms'[id] = NoGen \/ id \in late'
  BY <1>1, <1>2, <1>4 DEF CatchOne, Calm, Gone, Same
<1>5. ASSUME newest'[id] = "none"
      PROVE  /\ ~InPipe(id)' /\ holding'.id # id
             /\ ~Coming(id)' => Stale(id)' /\ rooms'[id] = NoGen
  BY <1>1, <1>2, <1>5 DEF CatchOne, Calm, Gone, Same
<1>6. ASSUME NEW x \in RoomSnapshot \union {NoFile}, Matches(id, x), ~Coming(id)'
      PROVE  Matches(id, x)'
  <2>1. CASE Gone(id)'
    BY <2>1 DEF Matches, Gone
  <2>2. CASE Same(id) /\ rooms[id] = NoGen
    BY <1>6, <2>2 DEF Matches, Same
  <2>3. CASE Same(id) /\ rooms[id] # NoGen
    <3>1. /\ x # NoFile /\ Alike(x, LiveObj(id)) /\ Alike(LiveObj(id), LiveObj(id)')
          /\ rooms'[id] # NoGen
      BY <1>6, <2>3 DEF Matches, Same
    <3>2. LiveObj(id) \in Room /\ LiveObj(id)' \in Room
      <4>1. /\ heap[id] \in Seq(Room) /\ rooms[id] \in 1..Len(heap[id])
            /\ heap'[id] \in Seq(Room) /\ rooms'[id] \in 1..Len(heap'[id])
        BY <2>3, <3>1, PersistenceAssumption DEF TypeInv, HeapOK, Heaps, Gens, NoGen
      <4> QED
        BY <4>1 DEF LiveObj
    <3>3. Alike(x, LiveObj(id)')
      BY <1>6, <3>1, <3>2, AlikeTrans
    <3> QED
      BY <3>1, <3>3 DEF Matches
  <2> QED
    BY <1>6, <2>1, <2>2, <2>3 DEF Calm
<1>7. disk[id] \in RoomSnapshot \union {NoFile} /\ holding.data \in RoomSnapshot \union {NoFile}
  BY DEF TypeInv, DiskInv, LoopInv, HoldOK, Holding
<1>8. ASSUME newest'[id] = "save", ~InPipe(id)', ~Coming(id)'
      PROVE  /\ holding'.id # id => Matches(id, disk[id])'
             /\ holding'.id = id /\ holding'.data # NoFile => Matches(id, holding.data)'
             /\ holding'.id = id /\ holding'.gen # NoGen
                  => rooms'[id] = holding'.gen \/ Gone(id)'
  <2>1. newest[id] = "save" /\ ~InPipe(id) /\ ~Coming(id)
    BY <1>2, <1>8 DEF Calm
  <2>2. holding.id # id => Matches(id, disk[id])'
    <3>1. holding.id # id => Matches(id, disk[id])
      BY <2>1 DEF CatchOne
    <3>2. Matches(id, disk[id]) => Matches(id, disk[id])'
      BY <1>1, <1>6, <1>7, <1>8 DEF Matches
    <3> QED
      BY <3>1, <3>2
  <2>3. holding.id = id /\ holding.data # NoFile => Matches(id, holding.data)'
    <3>1. holding.id = id /\ holding.data # NoFile => Matches(id, holding.data)
      BY <2>1 DEF CatchOne
    <3>2. Matches(id, holding.data) => Matches(id, holding.data)'
      BY <1>1, <1>6, <1>7, <1>8 DEF Matches
    <3> QED
      BY <3>1, <3>2
  <2>4. holding.id = id /\ holding.gen # NoGen => rooms'[id] = holding.gen \/ Gone(id)'
    BY <1>8, <2>1 DEF CatchOne, Calm, Same
  <2> QED
    BY <1>1, <2>2, <2>3, <2>4
<1> QED
  BY <1>3, <1>4, <1>5, <1>8 DEF CatchOne

\* A mark, for the id it is of.
LEMMA MarkOwn ==
  ASSUME TypeInv, NEW id \in RoomIds, NEW k \in OpKind, Mark(id, k),
         k = "delete" => rooms' = rooms
  PROVE  PipeOne(id)' /\ CatchOne(id)'
<1> DEFINE op == [id |-> id, kind |-> k]
<1>1. /\ opCh \in Seq(Op) /\ Len(opCh) \in Nat
      /\ newest \in [RoomIds -> OpKind \union {"none", "lost"}]
  BY DEF TypeInv, QueueInv
<1>2. CASE Len(opCh) < QueueCap
  <2>1. opCh' = Append(opCh, op) /\ newest'[id] = k
    BY <1>1, <1>2 DEF Mark
  <2>2. op.id = id /\ op.kind = k /\ op \in Op
    BY DEF Op
  <2> HIDE DEF op
  <2>3. Len(opCh') = Len(opCh) + 1 /\ opCh'[Len(opCh) + 1] = op
    BY <1>1, <2>1, <2>2
  <2>4. Queued(id)'
    BY <1>1, <2>2, <2>3 DEF Queued
  <2>5. LastRight(id)'
    <3> SUFFICES ASSUME NEW i \in 1..Len(opCh'), opCh'[i].id = id,
                        \A j \in 1..Len(opCh') : j > i => opCh'[j].id # id
                 PROVE  opCh'[i].kind = newest'[id]
      BY DEF LastRight
    <3>1. Len(opCh) + 1 \in 1..Len(opCh')
      BY <1>1, <2>3
    <3>2. ~(Len(opCh) + 1 > i)
      BY <2>2, <2>3, <3>1
    <3>3. i = Len(opCh) + 1
      BY <1>1, <2>3, <3>2
    <3> QED
      BY <2>1, <2>2, <2>3, <3>3
  <2>6. k # "none"
    BY DEF OpKind
  <2>7. k = "delete" => rooms'[id] = NoGen \/ id \in late'
    BY DEF Mark
  <2> QED
    BY <2>1, <2>4, <2>5, <2>6, <2>7 DEF PipeOne, CatchOne, InPipe
<1>3. CASE ~(Len(opCh) < QueueCap)
  <2>1. newest'[id] = "lost"
    BY <1>1, <1>3 DEF Mark
  <2> QED
    BY <2>1 DEF PipeOne, CatchOne
<1> QED
  BY <1>2, <1>3

\* A mark, for the other ids.
LEMMA MarkOther ==
  ASSUME TypeInv, NEW m \in RoomIds, NEW k \in OpKind, Mark(m, k),
         NEW id \in RoomIds, id # m
  PROVE  /\ newest'[id] = newest[id]
         /\ id \in late' <=> id \in late
         /\ Queued(id)' <=> Queued(id)
         /\ LastRight(id) => LastRight(id)'
<1> DEFINE op == [id |-> m, kind |-> k]
<1>1. /\ opCh \in Seq(Op) /\ Len(opCh) \in Nat
      /\ newest \in [RoomIds -> OpKind \union {"none", "lost"}]
  BY DEF TypeInv, QueueInv
<1>2. newest'[id] = newest[id] /\ (id \in late' <=> id \in late)
  BY <1>1 DEF Mark
<1>3. CASE Len(opCh) < QueueCap
  <2>1. opCh' = Append(opCh, op)
    BY <1>3 DEF Mark
  <2>2. op.id = m /\ op \in Op
    BY DEF Op
  <2> HIDE DEF op
  <2>3. /\ Len(opCh') = Len(opCh) + 1 /\ opCh'[Len(opCh) + 1] = op
        /\ \A i \in 1..Len(opCh) : opCh'[i] = opCh[i]
    BY <1>1, <2>1, <2>2
  <2>4. \A i \in 1..Len(opCh') : i \in 1..Len(opCh) \/ i = Len(opCh) + 1
    BY <1>1, <2>3
  <2>5. \A i \in 1..Len(opCh) : i \in 1..Len(opCh')
    BY <1>1, <2>3
  <2>6. Queued(id)' <=> Queued(id)
    BY <2>2, <2>3, <2>4, <2>5 DEF Queued
  <2>7. ASSUME LastRight(id) PROVE LastRight(id)'
    <3> SUFFICES ASSUME NEW i \in 1..Len(opCh'), opCh'[i].id = id,
                        \A j \in 1..Len(opCh') : j > i => opCh'[j].id # id
                 PROVE  opCh'[i].kind = newest'[id]
      BY DEF LastRight
    <3>1. i \in 1..Len(opCh) /\ opCh'[i] = opCh[i]
      BY <2>2, <2>3, <2>4
    <3>2. \A j \in 1..Len(opCh) : j > i => opCh[j].id # id
      BY <2>3, <2>5
    <3> QED
      BY <1>2, <2>7, <3>1, <3>2 DEF LastRight
  <2> QED
    BY <1>2, <2>6, <2>7
<1>4. CASE ~(Len(opCh) < QueueCap)
  <2>1. opCh' = opCh
    BY <1>4 DEF Mark
  <2> QED
    BY <1>2, <2>1 DEF Queued, LastRight
<1> QED
  BY <1>3, <1>4

\* A step outside the persister: it marks what it changes, leaves a mark to be
\* made, or changes nothing a file must have.
MemoryStep ==
  /\ phase # "down" /\ UNCHANGED <<loopVars, disk>>
  /\ \/ UNCHANGED queueVars /\ \A id \in RoomIds : Calm(id)
     \/ \E m \in RoomIds, k \in OpKind :
          /\ Mark(m, k) /\ (k = "delete" => rooms' = rooms)
          /\ \A id \in RoomIds : id # m => Calm(id)

LEMMA MemoryStepKeeps ==
  ASSUME TypeInv, TypeInv', FileInv, MemoryStep, \A id \in RoomIds : Stale(id) => Stale(id)'
  PROVE  FileInv'
<1> SUFFICES ASSUME NEW id \in RoomIds PROVE PipeOne(id)' /\ CatchOne(id)'
  BY DEF FileInv
<1>0. PipeOne(id) /\ CatchOne(id) /\ UNCHANGED <<loopVars, disk>>
  BY DEF FileInv, MemoryStep
<1>1. CASE UNCHANGED queueVars /\ Calm(id)
  <2>1. /\ newest'[id] = newest[id] /\ late' = late /\ (Queued(id)' <=> Queued(id))
        /\ LastRight(id) => LastRight(id)'
    BY <1>1 DEF queueVars, Queued, LastRight
  <2> QED
    BY <1>0, <1>1, <2>1, CalmKeeps
<1>2. ASSUME NEW m \in RoomIds, NEW k \in OpKind, Mark(m, k), k = "delete" => rooms' = rooms,
             id # m => Calm(id)
      PROVE  PipeOne(id)' /\ CatchOne(id)'
  <2>1. CASE id = m
    BY <1>2, <2>1, MarkOwn
  <2>2. CASE id # m
    <3>1. /\ newest'[id] = newest[id] /\ (Queued(id)' <=> Queued(id))
          /\ id \in late' <=> id \in late
          /\ LastRight(id) => LastRight(id)'
      BY <1>2, <2>2, MarkOther
    <3> QED
      BY <1>0, <1>2, <2>2, <3>1, CalmKeeps
  <2> QED
    BY <2>1, <2>2
<1> QED
  BY <1>1, <1>2 DEF MemoryStep

\* A room the step does not touch.
LEMMA UnmovedCalm ==
  ASSUME TypeInv, NEW id \in RoomIds, heap'[id] = heap[id], rooms'[id] = rooms[id],
         tomb'[id] = tomb[id], Coming(id) => Coming(id)',
         phase' \in {"booting", "serving"} => phase \in {"booting", "serving"}
  PROVE  Calm(id)
<1>1. LiveObj(id)' = LiveObj(id)
  BY DEF LiveObj
<1>2. rooms[id] # NoGen => LiveObj(id) \in Room
  <2>1. rooms[id] # NoGen => heap[id] \in Seq(Room) /\ rooms[id] \in 1..Len(heap[id])
    BY PersistenceAssumption DEF TypeInv, HeapOK, Heaps, Gens
  <2> QED
    BY <2>1 DEF LiveObj
<1>3. rooms[id] # NoGen => Alike(LiveObj(id), LiveObj(id)')
  BY <1>1, <1>2, AlikeRefl
<1>4. Gone(id) => Gone(id)'
  BY DEF Gone
<1> QED
  BY <1>3, <1>4 DEF Calm, Same

\* An object changes in nothing a file must have.
LEMMA AlikeCalm ==
  ASSUME TypeInv, NEW ref, RefIn(heap, ref), ref # NoRef, NEW rm \in Room,
         SetObj(ref, rm), Alike(Obj(ref), rm),
         UNCHANGED <<rooms, tomb, phase, toMark, sweeping, task>>
  PROVE  \A id \in RoomIds : Calm(id)
<1> TAKE id \in RoomIds
<1>1. /\ \A i \in RoomIds : i # ref.id => heap'[i] = heap[i]
      /\ heap'[ref.id][ref.gen] = rm
      /\ \A k \in 1..Len(heap[ref.id]) : k # ref.gen => heap'[ref.id][k] = heap[ref.id][k]
  BY SetObjFacts
<1>2. Coming(id)' <=> Coming(id)
  BY DEF Coming
<1>3. CASE id # ref.id
  BY <1>1, <1>2, <1>3, UnmovedCalm
<1>4. CASE id = ref.id /\ rooms[id] = NoGen
  BY <1>2, <1>4 DEF Calm, Same, Gone
<1>5. CASE id = ref.id /\ rooms[id] # NoGen
  <2>1. heap[id] \in Seq(Room) /\ rooms[id] \in 1..Len(heap[id])
    BY <1>5, PersistenceAssumption DEF TypeInv, HeapOK, Heaps, Gens
  <2>2. LiveObj(id) \in Room
    BY <2>1 DEF LiveObj
  <2>3. CASE rooms[id] = ref.gen
    <3>1. LiveObj(id) = Obj(ref) /\ LiveObj(id)' = rm
      BY <1>1, <1>5, <2>3 DEF LiveObj, Obj
    <3> QED
      BY <1>2, <1>5, <3>1 DEF Calm, Same, Gone
  <2>4. CASE rooms[id] # ref.gen
    <3>1. LiveObj(id)' = LiveObj(id)
      BY <1>1, <1>5, <2>1, <2>4 DEF LiveObj
    <3> QED
      BY <1>2, <1>5, <2>2, <3>1, AlikeRefl DEF Calm, Same, Gone
  <2> QED
    BY <2>3, <2>4
<1> QED
  BY <1>3, <1>4, <1>5

\* A task is taken up or done; it was of no other room.
LEMMA ComingKept ==
  ASSUME TypeInv, NEW c \in Conns, NEW t, SetTask(c, t), UNCHANGED <<toMark, sweeping>>,
         NEW id \in RoomIds, task[c].at.id # id
  PROVE  Coming(id) => Coming(id)'
<1>1. \A d \in Conns : d # c => task'[d] = task[d]
  BY DEF TypeInv, TaskInv, SetTask
<1> QED
  BY <1>1 DEF Coming

LEMMA ComingNow ==
  ASSUME TypeInv, NEW c \in Conns, NEW t, SetTask(c, t), NEW id \in RoomIds, t.at.id = id
  PROVE  Coming(id)'
<1>1. task'[c] = t
  BY DEF TypeInv, TaskInv, SetTask
<1> QED
  BY <1>1 DEF Coming

LEMMA NoTaskNoRoom ==
  ASSUME NEW c, task[c] = NoTask, NEW id \in RoomIds
  PROVE  task[c].at.id # id
BY NilTypes

HandlerFrame == UNCHANGED <<now, phase, sweeping, mainVars, loopVars, disk, promised>>

LEMMA CreateFiles ==
  ASSUME TypeInv, HandlerFrame, NEW c \in Conns, NEW id \in RoomIds, NEW e \in Epochs,
         CreateRoom(c, id, e)
  PROVE  MemoryStep
<1> DEFINE rm  == HostAttached(NewRoom(id, Ip, now, now, HasPassword), c, e)
           ref == [id |-> id, gen |-> Len(heap[id]) + 1]
           t   == [do |-> "markCreated", at |-> ref, role |-> "host"]
<1>1. /\ Publish(id, rm) /\ SetTask(c, t) /\ task[c] = NoTask /\ Handling
      /\ UNCHANGED <<tomb, queueVars>>
  BY DEF CreateRoom, SetTask, Unattached, Ready
<1>2. rm \in Room
  BY BuiltFacts DEF TypeInv, ClockInv
<1>3. t.at.id = id
  OBVIOUS
<1> HIDE DEF rm, t
<1>4. \A i \in RoomIds : i # id => heap'[i] = heap[i] /\ rooms'[i] = rooms[i]
  BY <1>1, <1>2, PublishFacts
<1>5. Coming(id)'
  BY <1>1, <1>3, ComingNow
<1>6. ASSUME NEW i \in RoomIds, i # id PROVE Calm(i)
  <2>1. Coming(i) => Coming(i)'
    BY <1>1, ComingKept, NoTaskNoRoom DEF HandlerFrame, mainVars
  <2> QED
    BY <1>1, <1>4, <1>6, <2>1, UnmovedCalm DEF HandlerFrame
<1>7. \A i \in RoomIds : Calm(i)
  BY <1>5, <1>6 DEF Calm
<1> QED
  BY <1>1, <1>7 DEF MemoryStep, HandlerFrame, Handling

LEMMA RecreateFiles ==
  ASSUME TypeInv, HandlerFrame, NEW c \in Conns, NEW tok \in tokens, Recreate(c, tok)
  PROVE  MemoryStep
<1> DEFINE id  == tok.id
           rm  == NewRoom(id, Ip, tok.createdAt, now, HasPassword)
           ref == [id |-> id, gen |-> Len(heap[id]) + 1]
           t   == [do |-> "markRecreated", at |-> ref, role |-> tok.role]
<1>1. /\ Publish(id, rm) /\ SetTask(c, t) /\ task[c] = NoTask /\ Handling
      /\ UNCHANGED <<tomb, queueVars>>
  BY DEF Recreate, SetTask, Unattached, Ready
<1>2. id \in RoomIds /\ tok.createdAt \in Time
  BY DEF TypeInv, PlainInv
<1>2a. rm \in Room
  BY <1>2, BuiltFacts
<1>3. t.at.id = id
  OBVIOUS
<1> HIDE DEF id, rm, t
<1>4. \A i \in RoomIds : i # id => heap'[i] = heap[i] /\ rooms'[i] = rooms[i]
  BY <1>1, <1>2, <1>2a, PublishFacts
<1>5. Coming(id)'
  BY <1>1, <1>2, <1>3, ComingNow
<1>6. ASSUME NEW i \in RoomIds, i # id PROVE Calm(i)
  <2>1. Coming(i) => Coming(i)'
    BY <1>1, ComingKept, NoTaskNoRoom DEF HandlerFrame, mainVars
  <2> QED
    BY <1>1, <1>4, <1>6, <2>1, UnmovedCalm DEF HandlerFrame
<1>7. \A i \in RoomIds : Calm(i)
  BY <1>5, <1>6 DEF Calm
<1> QED
  BY <1>1, <1>7 DEF MemoryStep, HandlerFrame, Handling

\* A task ends with its mark and touches no room.
LEMMA TaskMarkFiles ==
  ASSUME TypeInv, HandlerFrame, Handling, NEW c \in Conns, NEW t, SetTask(c, t),
         task[c].do # "nothing", NEW k \in OpKind, Mark(task[c].at.id, k),
         UNCHANGED <<heap, rooms, tomb>>
  PROVE  MemoryStep
<1>1. task[c].at.id \in RoomIds
  BY TaskFacts
<1>2. ASSUME NEW i \in RoomIds, i # task[c].at.id PROVE Calm(i)
  <2>1. Coming(i) => Coming(i)'
    BY <1>2, ComingKept DEF HandlerFrame, mainVars
  <2> QED
    BY <1>2, <2>1, UnmovedCalm DEF HandlerFrame
<1> QED
  BY <1>1, <1>2 DEF MemoryStep, HandlerFrame, Handling

\* A section that marks the room whose object it changes.
LEMMA MarkedSectionFiles ==
  ASSUME TypeInv, HandlerFrame, Handling, NEW ref, RefIn(heap, ref), ref # NoRef,
         NEW rm \in Room, SetObj(ref, rm), Mark(ref.id, "save"), UNCHANGED <<rooms, tomb>>,
         \A i \in RoomIds : i # ref.id => (Coming(i) => Coming(i)')
  PROVE  MemoryStep
<1>1. ref.id \in RoomIds /\ "save" \in OpKind
  BY ObjFacts DEF OpKind
<1>2. \A i \in RoomIds : i # ref.id => heap'[i] = heap[i]
  BY SetObjFacts
<1>3. ASSUME NEW i \in RoomIds, i # ref.id PROVE Calm(i)
  BY <1>2, <1>3, UnmovedCalm DEF HandlerFrame
<1> QED
  BY <1>1, <1>3 DEF MemoryStep, HandlerFrame, Handling

LEMMA TaskAlone ==
  ASSUME HandlerFrame, UNCHANGED task
  PROVE  \A i \in RoomIds : Coming(i) => Coming(i)'
BY DEF HandlerFrame, Coming, mainVars

LEMMA JoinFiles ==
  ASSUME TypeInv, HandlerFrame, NEW c \in Conns, NEW id \in RoomIds, NEW e \in Epochs,
         JoinRoom(c, id, e)
  PROVE  MemoryStep
<1> DEFINE ref == LiveRef(id)
           rm  == GuestAttached(Obj(ref), c, e)
<1>1. /\ rooms[id] # NoGen /\ SetObj(ref, rm) /\ Mark(id, "save") /\ Handling
      /\ UNCHANGED <<rooms, tomb, task>>
  BY DEF JoinRoom, markDirty, Unattached, Ready
<1>2. RefIn(heap, ref) /\ ref # NoRef /\ Obj(ref) \in Room /\ ref.id = id
  BY <1>1, LiveRefFacts, ObjFacts
<1>3. rm \in Room
  BY <1>2, GuestAttachedFacts
<1> HIDE DEF ref, rm
<1> QED
  BY <1>1, <1>2, <1>3, MarkedSectionFiles, TaskAlone

LEMMA WrongPasswordFiles ==
  ASSUME TypeInv, HandlerFrame, NEW c \in Conns, NEW id \in RoomIds, WrongPassword(c, id)
  PROVE  MemoryStep
<1> DEFINE ref == LiveRef(id)
           rm  == GuessedWrong(Obj(ref))
<1>1. /\ rooms[id] # NoGen /\ Handling
      /\ IF rm.passwordAttempts >= MaxPasswordAttempts
         THEN /\ heap' = [heap EXCEPT ![id][ref.gen] = Emptied(rm)]
              /\ removeRoomLocked(id)
              /\ tomb' = [tomb EXCEPT ![id] = "locked"]
         ELSE SetObj(ref, rm) /\ UNCHANGED <<leaving, rooms, tomb>>
      /\ UNCHANGED <<task, queueVars>>
  BY DEF WrongPassword, Unattached, Ready
<1>2. RefIn(heap, ref) /\ ref # NoRef /\ Obj(ref) \in Room /\ ref.id = id
  BY <1>1, LiveRefFacts, ObjFacts
<1>3. rm \in Room /\ Emptied(rm) \in Room /\ Alike(Obj(ref), rm)
  BY <1>2, GuessedWrongFacts, EmptiedFacts, UnmarkedAlike
<1> HIDE DEF ref, rm
<1>4. CASE rm.passwordAttempts >= MaxPasswordAttempts
  <2>1. SetObj(ref, Emptied(rm))
    BY <1>1, <1>2, <1>4 DEF SetObj
  <2>2. \A i \in RoomIds : i # id => heap'[i] = heap[i]
    BY <1>2, <1>3, <2>1, SetObjFacts
  <2>3. rooms'[id] = NoGen /\ \A i \in RoomIds : i # id => rooms'[i] = rooms[i]
    BY <1>1, <1>4, RemoveFacts
  <2>4. tomb'[id] = "locked" /\ \A i \in RoomIds : i # id => tomb'[i] = tomb[i]
    BY <1>1, <1>4 DEF TypeInv, PlainInv
  <2>5. \A i \in RoomIds : Coming(i) => Coming(i)'
    BY <1>1, TaskAlone
  <2>6. Calm(id)
    BY <2>3, <2>4, <2>5 DEF Calm, Gone
  <2>7. ASSUME NEW i \in RoomIds, i # id PROVE Calm(i)
    BY <2>2, <2>3, <2>4, <2>5, <2>7, UnmovedCalm DEF HandlerFrame
  <2> QED
    BY <1>1, <2>6, <2>7 DEF MemoryStep, HandlerFrame, Handling
<1>5. CASE ~(rm.passwordAttempts >= MaxPasswordAttempts)
  <2>1. \A i \in RoomIds : Calm(i)
    BY <1>1, <1>2, <1>3, <1>5, AlikeCalm DEF HandlerFrame, mainVars
  <2> QED
    BY <1>1, <2>1 DEF MemoryStep, HandlerFrame, Handling
<1> QED
  BY <1>4, <1>5

LEMMA RejoinFiles ==
  ASSUME TypeInv, HandlerFrame, NEW c \in Conns, NEW tok \in tokens, NEW e \in Epochs,
         RejoinRoom(c, tok, e)
  PROVE  MemoryStep
<1> DEFINE ref == LiveRef(tok.id)
           rm  == Rejoined(Obj(ref), tok.role, c, e, FALSE, now)
<1>1. /\ rooms[tok.id] # NoGen /\ SetObj(ref, rm) /\ Mark(ref.id, "save") /\ Handling
      /\ UNCHANGED <<rooms, tomb, task>>
  BY DEF RejoinRoom, RejoinSection, markDirty, Unattached, Ready
<1>2. tok.id \in RoomIds /\ tok.role \in Role /\ now \in Time
  BY DEF TypeInv, PlainInv, ClockInv
<1>3. RefIn(heap, ref) /\ ref # NoRef /\ Obj(ref) \in Room
  BY <1>1, <1>2, LiveRefFacts, ObjFacts
<1>4. rm \in Room
  BY <1>2, <1>3, RejoinedFacts
<1> HIDE DEF ref, rm
<1> QED
  BY <1>1, <1>3, <1>4, MarkedSectionFiles, TaskAlone

LEMMA AttachRecreatedFiles ==
  ASSUME TypeInv, HandlerFrame, NEW c \in Conns, NEW e \in Epochs, AttachRecreated(c, e)
  PROVE  MemoryStep
<1> DEFINE ref == task[c].at
           rm  == Rejoined(Obj(ref), task[c].role, c, e, TRUE, now)
<1>1. /\ task[c].do = "attach" /\ SetObj(ref, rm) /\ Mark(ref.id, "save") /\ Handling
      /\ SetTask(c, NoTask) /\ UNCHANGED <<rooms, tomb>>
  BY DEF AttachRecreated, RejoinSection, markDirty, SetTask
<1>2. RefIn(heap, ref) /\ ref # NoRef /\ Obj(ref) \in Room /\ task[c].role \in Role
      /\ now \in Time
  BY <1>1, TaskFacts DEF TypeInv, ClockInv
<1>3. rm \in Room
  BY <1>2, RejoinedFacts
<1>4. \A i \in RoomIds : i # ref.id => (Coming(i) => Coming(i)')
  BY <1>1, ComingKept DEF HandlerFrame, mainVars
<1> HIDE DEF ref, rm
<1> QED
  BY <1>1, <1>2, <1>3, <1>4, MarkedSectionFiles

LEMMA SignalFiles ==
  ASSUME TypeInv, HandlerFrame, NEW c \in Conns, NEW seq \in 1..MaxSeq, NEW size \in Sizes,
         Signal(c, sess[c].at, seq, size)
  PROVE  MemoryStep
<1> DEFINE ref  == sess[c].at
           role == sess[c].role
           rm   == SignalledRoom(Obj(ref), role, seq, size)
<1>1. /\ ref # NoRef /\ SetObj(ref, rm) /\ Handling
      /\ seq > Obj(ref).slots[role].lastSeq
      /\ \/ Mark(ref.id, "save")
         \/ UNCHANGED queueVars /\ rm = Accepted(Obj(ref), role, seq)
      /\ UNCHANGED <<rooms, tomb, task>>
  BY DEF Signal, AttachedTo, Ready, SignalledRoom, markDirty, SetObj
<1>2. RefIn(heap, ref) /\ Obj(ref) \in Room /\ role \in Role
  BY <1>1, SessFacts
<1>3. rm \in Room
  BY <1>2, SignalledType
<1>4. rm = Accepted(Obj(ref), role, seq) => Alike(Obj(ref), rm)
  BY <1>1, <1>2, UnmarkedAlike
<1> HIDE DEF ref, role, rm
<1>5. CASE Mark(ref.id, "save")
  BY <1>1, <1>2, <1>3, <1>5, MarkedSectionFiles, TaskAlone
<1>6. CASE UNCHANGED queueVars /\ rm = Accepted(Obj(ref), role, seq)
  <2>1. \A i \in RoomIds : Calm(i)
    BY <1>1, <1>2, <1>3, <1>4, <1>6, AlikeCalm DEF HandlerFrame, mainVars
  <2> QED
    BY <1>1, <1>6, <2>1 DEF MemoryStep, HandlerFrame, Handling
<1> QED
  BY <1>1, <1>5, <1>6

LEMMA PeerConnectedFiles ==
  ASSUME TypeInv, HandlerFrame, NEW c \in Conns, PeerConnected(c, sess[c].at)
  PROVE  MemoryStep
<1> DEFINE ref == sess[c].at
           rm  == Reported(Obj(ref), sess[c].role, now)
<1>1. /\ ref # NoRef /\ SetObj(ref, rm) /\ Mark(ref.id, "save") /\ Handling
      /\ UNCHANGED <<rooms, tomb, task>>
  BY DEF PeerConnected, AttachedTo, Ready, markDirty
<1>2. RefIn(heap, ref) /\ Obj(ref) \in Room /\ sess[c].role \in Role /\ now \in Time
  BY <1>1, SessFacts DEF TypeInv, ClockInv
<1>3. rm \in Room
  BY <1>2, ReportedFacts
<1> HIDE DEF ref, rm
<1> QED
  BY <1>1, <1>2, <1>3, MarkedSectionFiles, TaskAlone

LEMMA DetachFiles ==
  ASSUME TypeInv, HandlerFrame, NEW c \in Conns, Detach(c)
  PROVE  MemoryStep
<1> DEFINE ref == sess[c].at
           rm  == Detached(Obj(ref), sess[c].role, c, now)
<1>1. /\ sess[c] # NoSession /\ SetObj(ref, rm) /\ Mark(ref.id, "save") /\ Handling
      /\ UNCHANGED <<rooms, tomb, task>>
  BY DEF Detach, MarkDetached, markDirty
<1>2. ref # NoRef
  BY <1>1 DEF TypeInv, SessInv, SessOK
<1>3. RefIn(heap, ref) /\ Obj(ref) \in Room /\ sess[c].role \in Role /\ now \in Time
  BY <1>2, SessFacts DEF TypeInv, ClockInv
<1>4. rm \in Room
  BY <1>3, DetachedFacts
<1> HIDE DEF ref, rm
<1> QED
  BY <1>1, <1>2, <1>3, <1>4, MarkedSectionFiles, TaskAlone

\* A room ends with its mark to come.
LEMMA EndRoomMoves ==
  ASSUME TypeInv, NEW ref, RefIn(heap, ref), ref # NoRef, EndRoom(ref)
  PROVE  \A i \in RoomIds : i # ref.id => heap'[i] = heap[i] /\ rooms'[i] = rooms[i]
<1> DEFINE rm == Emptied(Obj(ref))
<1>1. SetObj(ref, rm) /\ removeRoomLocked(ref.id)
  BY DEF EndRoom
<1>2. ref.id \in RoomIds /\ rm \in Room
  BY ObjFacts, EmptiedFacts
<1> HIDE DEF rm
<1> QED
  BY <1>1, <1>2, SetObjFacts, RemoveFacts

LEMMA CloseRoomFiles ==
  ASSUME TypeInv, HandlerFrame, NEW c \in Conns, CloseRoom(c, sess[c].at)
  PROVE  MemoryStep
<1> SUFFICES ASSUME NEW ref, ref = sess[c].at PROVE MemoryStep
  OBVIOUS
<1> DEFINE t == [do |-> "markClosed", at |-> ref, role |-> "host"]
<1>1. /\ ref # NoRef /\ EndRoom(ref) /\ SetTask(c, t) /\ Handling /\ task[c] = NoTask
      /\ tomb' = [tomb EXCEPT ![ref.id] = "closed"]
      /\ UNCHANGED queueVars
  BY DEF CloseRoom, AttachedTo, Ready, SetTask
<1>2. RefIn(heap, ref) /\ ref.id \in RoomIds
  BY <1>1, SessFacts
<1>3. t.at.id = ref.id
  OBVIOUS
<1> HIDE DEF t
<1>4. \A i \in RoomIds : i # ref.id => heap'[i] = heap[i] /\ rooms'[i] = rooms[i]
  BY <1>1, <1>2, EndRoomMoves
<1>5. Coming(ref.id)'
  BY <1>1, <1>2, <1>3, ComingNow
<1>6. \A i \in RoomIds : i # ref.id => tomb'[i] = tomb[i]
  BY <1>1, <1>2 DEF TypeInv, PlainInv
<1>7. ASSUME NEW i \in RoomIds, i # ref.id PROVE Calm(i)
  <2>1. Coming(i) => Coming(i)'
    BY <1>1, ComingKept, NoTaskNoRoom DEF HandlerFrame, mainVars
  <2> QED
    BY <1>4, <1>6, <1>7, <2>1, UnmovedCalm DEF HandlerFrame
<1>8. \A i \in RoomIds : Calm(i)
  BY <1>5, <1>7 DEF Calm
<1> QED
  BY <1>1, <1>8 DEF MemoryStep, HandlerFrame, Handling

LEMMA LoseFiles ==
  ASSUME TypeInv, HandlerFrame, NEW c \in Conns, Lose(c)
  PROVE  MemoryStep
<1>1. Handling /\ UNCHANGED <<heap, rooms, tomb, task, queueVars>>
  BY DEF Lose, Ready
<1>2. \A i \in RoomIds : Calm(i)
  BY <1>1, TaskAlone, UnmovedCalm DEF HandlerFrame
<1> QED
  BY <1>1, <1>2 DEF MemoryStep, HandlerFrame, Handling

LEMMA HandleFiles ==
  ASSUME TypeInv, Handle
  PROVE  MemoryStep
<1>0. PICK c \in Conns : StartHandler(c) \/ ContinueHandler(c)
  BY DEF Handle
<1>f. HandlerFrame
  BY DEF Handle, HandlerFrame
<1>k. "save" \in OpKind /\ "delete" \in OpKind
  BY DEF OpKind
<1>1. CASE StartHandler(c)
  BY <1>1, <1>f, CreateFiles, JoinFiles, WrongPasswordFiles, RecreateFiles, RejoinFiles,
     SignalFiles, PeerConnectedFiles, CloseRoomFiles, LoseFiles DEF StartHandler
<1>2. CASE \E e \in Epochs : AttachRecreated(c, e)
  BY <1>2, <1>f, AttachRecreatedFiles
<1>3. CASE MarkCreated(c)
  BY <1>3, <1>f, <1>k, TaskMarkFiles DEF MarkCreated, SetTask, markDirty
<1>4. CASE MarkRecreated(c)
  <2> DEFINE t == [task[c] EXCEPT !.do = "attach"]
  <2>1. SetTask(c, t)
    BY <1>4 DEF MarkRecreated, SetTask
  <2> HIDE DEF t
  <2> QED
    BY <1>4, <1>f, <1>k, <2>1, TaskMarkFiles DEF MarkRecreated, markDirty
<1>5. CASE MarkClosed(c)
  BY <1>5, <1>f, <1>k, TaskMarkFiles DEF MarkClosed, SetTask, markDeleted
<1>6. CASE Detach(c)
  BY <1>6, <1>f, DetachFiles
<1> QED
  BY <1>0, <1>1, <1>2, <1>3, <1>4, <1>5, <1>6 DEF ContinueHandler


LEMMA SweepFiles ==
  ASSUME TypeInv, Sweep
  PROVE  MemoryStep
<1>1. CASE SweepMark
  <2> SUFFICES ASSUME NEW m, m = sweeping.id PROVE MemoryStep
    OBVIOUS
  <2>1. /\ phase # "down" /\ sweeping # NoRef /\ Mark(m, "delete") /\ sweeping' = NoRef
        /\ UNCHANGED <<phase, heap, rooms, tomb, task, toMark, loopVars, disk>>
    BY <1>1 DEF SweepMark, markDeleted, memVars, mainVars
  <2>2. m \in RoomIds
    BY <2>1, ObjFacts DEF TypeInv, MainInv
  <2>3. ASSUME NEW i \in RoomIds, i # m PROVE Calm(i)
    <3>1. Coming(i) => Coming(i)'
      BY <2>1, <2>3 DEF Coming
    <3> QED
      BY <2>1, <3>1, UnmovedCalm
  <2> QED
    BY <2>1, <2>2, <2>3 DEF MemoryStep, OpKind
<1>2. ASSUME NEW id \in RoomIds, SweepRoom(id) PROVE MemoryStep
  <2> SUFFICES ASSUME NEW ref, ref = LiveRef(id) PROVE MemoryStep
    OBVIOUS
  <2>1. /\ Handling /\ rooms[id] # NoGen /\ sweeping = NoRef /\ EndRoom(ref) /\ sweeping' = ref
        /\ UNCHANGED <<phase, tomb, task, toMark, queueVars, loopVars, disk>>
    BY <1>2 DEF SweepRoom, mainVars
  <2>2. RefIn(heap, ref) /\ ref # NoRef /\ ref.id = id
    BY <2>1, LiveRefFacts
  <2>3. \A i \in RoomIds : i # id => heap'[i] = heap[i] /\ rooms'[i] = rooms[i]
    BY <2>1, <2>2, EndRoomMoves
  <2>4. Coming(id)'
    BY <2>1, <2>2 DEF Coming
  <2>5. ASSUME NEW i \in RoomIds, i # id PROVE Calm(i)
    <3>1. Coming(i) => Coming(i)'
      BY <2>1, NilTypes DEF Coming
    <3> QED
      BY <2>1, <2>3, <2>5, <3>1, UnmovedCalm
  <2>6. \A i \in RoomIds : Calm(i)
    BY <2>4, <2>5 DEF Calm
  <2> QED
    BY <2>1, <2>6 DEF MemoryStep, Handling
<1> QED
  BY <1>1, <1>2 DEF Sweep

\* The steps of main that touch no room.
LEMMA QuietFiles ==
  ASSUME TypeInv, phase # "down",
         UNCHANGED <<heap, rooms, tomb, task, sweeping, toMark, queueVars, loopVars, disk>>,
         phase' \in {"booting", "serving"} => phase \in {"booting", "serving"}
  PROVE  MemoryStep
<1>1. \A i \in RoomIds : Calm(i)
  <2> TAKE i \in RoomIds
  <2>1. Coming(i) => Coming(i)'
    BY DEF Coming
  <2> QED
    BY <2>1, UnmovedCalm
<1> QED
  BY <1>1 DEF MemoryStep

LEMMA MainFiles ==
  ASSUME TypeInv, Main \/ Shutdown
  PROVE  Boot \/ Exit \/ MemoryStep
<1>1. CASE Serve
  BY <1>1, QuietFiles DEF Serve, memVars, mainVars
<1>2. CASE Stop
  BY <1>2, QuietFiles DEF Stop, memVars, mainVars
<1>3. CASE Shutdown
  BY <1>3, QuietFiles DEF Shutdown, memVars
<1>4. CASE ShutdownRemove
  <2> SUFFICES ASSUME NEW id, id = shutting.id PROVE MemoryStep
    OBVIOUS
  <2>1. /\ phase = "draining" /\ shutting # NoRef /\ removeRoomLocked(id)
        /\ UNCHANGED <<phase, heap, tomb, task, sweeping, toMark, queueVars, loopVars, disk>>
    BY <1>4 DEF ShutdownRemove
  <2>2. id \in RoomIds
    BY <2>1, ObjFacts DEF TypeInv, MainInv
  <2>3. rooms'[id] = NoGen /\ \A i \in RoomIds : i # id => rooms'[i] = rooms[i]
    BY <2>1, <2>2, RemoveFacts
  <2>4. \A i \in RoomIds : Coming(i) => Coming(i)'
    BY <2>1 DEF Coming
  <2>5. Calm(id)
    BY <2>1, <2>2, <2>3, <2>4 DEF Calm, Gone
  <2>6. ASSUME NEW i \in RoomIds, i # id PROVE Calm(i)
    BY <2>1, <2>3, <2>4, <2>6, UnmovedCalm
  <2> QED
    BY <2>1, <2>5, <2>6 DEF MemoryStep
<1>5. ASSUME NEW id \in RoomIds, MarkAllDirty(id) PROVE MemoryStep
  <2>1. /\ phase = "booting" /\ Mark(id, "save") /\ toMark' = toMark \ {id}
        /\ UNCHANGED <<phase, heap, rooms, tomb, task, sweeping, loopVars, disk>>
    BY <1>5 DEF MarkAllDirty, markDirty, memVars
  <2>2. ASSUME NEW i \in RoomIds, i # id PROVE Calm(i)
    <3>1. Coming(i) => Coming(i)'
      BY <2>1, <2>2 DEF Coming
    <3> QED
      BY <2>1, <3>1, UnmovedCalm
  <2> QED
    BY <2>1, <2>2 DEF MemoryStep, OpKind
<1>6. ASSUME NEW ref \in toShut, ShutdownClose(ref) PROVE MemoryStep
  <2> DEFINE rm == Emptied(Obj(ref))
  <2>1. /\ phase = "draining" /\ SetObj(ref, rm)
        /\ UNCHANGED <<phase, rooms, tomb, task, sweeping, toMark, queueVars, loopVars, disk>>
    BY <1>6 DEF ShutdownClose
  <2>2. RefIn(heap, ref) /\ ref # NoRef
    BY DEF TypeInv, MainInv
  <2>3. rm \in Room /\ Alike(Obj(ref), rm)
    BY <2>2, ObjFacts, EmptiedFacts, UnmarkedAlike
  <2> HIDE DEF rm
  <2>4. \A i \in RoomIds : Calm(i)
    BY <2>1, <2>2, <2>3, AlikeCalm
  <2> QED
    BY <2>1, <2>4 DEF MemoryStep
<1> QED
  BY <1>1, <1>2, <1>3, <1>4, <1>5, <1>6 DEF Main

LEMMA IdleFiles ==
  ASSUME TypeInv, phase # "down", Tick \/ UNCHANGED vars
  PROVE  MemoryStep
<1>1. CASE Tick
  BY <1>1, QuietFiles DEF Tick, memVars, mainVars
<1>2. CASE UNCHANGED vars
  BY <1>2, QuietFiles DEF vars, memVars, mainVars
<1> QED
  BY <1>1, <1>2

\* The persister touches no room.
LEMMA LoopFrame ==
  ASSUME UNCHANGED persisterRest, NEW id \in RoomIds
  PROVE  /\ Coming(id)' <=> Coming(id)
         /\ Gone(id)' <=> Gone(id)
         /\ rooms'[id] = rooms[id] /\ LiveObj(id)' = LiveObj(id)
BY DEF persisterRest, memVars, mainVars, Coming, Gone, LiveObj

LEMMA MatchesFrame ==
  ASSUME UNCHANGED persisterRest, NEW id \in RoomIds, NEW x
  PROVE  Matches(id, x)' <=> Matches(id, x)
BY LoopFrame DEF Matches

\* A mark moves on, or nothing of this id does.
LEMMA MovedOn ==
  ASSUME UNCHANGED persisterRest, NEW id \in RoomIds, CatchOne(id),
         InPipe(id)' <=> InPipe(id), newest'[id] = newest[id], disk'[id] = disk[id], late' = late,
         \/ holding' = holding
         \/ holding.id # id /\ holding'.id # id
  PROVE  CatchOne(id)'
<1>1. \A x : Matches(id, x)' <=> Matches(id, x)
  BY MatchesFrame
<1>2. (Coming(id)' <=> Coming(id)) /\ (Gone(id)' <=> Gone(id)) /\ rooms'[id] = rooms[id]
  BY LoopFrame
<1>3. (Matches(id, disk[id])' <=> Matches(id, disk[id])) /\ (Stale(id)' <=> Stale(id))
  BY <1>1 DEF Matches, Stale, persisterRest
<1>4. holding' = holding => (Matches(id, holding.data)' <=> Matches(id, holding.data))
  BY <1>1 DEF Matches
<1> QED
  BY <1>2, <1>3, <1>4 DEF CatchOne

\* The queue loses its head.
LEMMA TakeFacts ==
  ASSUME TypeInv, opCh # << >>, opCh' = Tail(opCh), newest' = newest, NEW id \in RoomIds
  PROVE  /\ Head(opCh) \in Op
         /\ Queued(id) <=> Queued(id)' \/ Head(opCh).id = id
         /\ LastRight(id) =>
              /\ LastRight(id)'
              /\ Head(opCh).id = id /\ ~Queued(id)' => Head(opCh).kind = newest[id]
<1>1. /\ opCh \in Seq(Op) /\ Len(opCh) \in Nat /\ Len(opCh) >= 1
      /\ Len(opCh') = Len(opCh) - 1 /\ Head(opCh) = opCh[1] /\ Head(opCh) \in Op
      /\ \A i \in 1..Len(opCh') : opCh'[i] = opCh[i + 1]
  BY DEF TypeInv, QueueInv
<1>2. ASSUME Queued(id) PROVE Queued(id)' \/ Head(opCh).id = id
  <2>1. PICK i \in 1..Len(opCh) : opCh[i].id = id
    BY <1>2 DEF Queued
  <2>2. i = 1 \/ (i - 1 \in 1..Len(opCh') /\ (i - 1) + 1 = i)
    BY <1>1
  <2> QED
    BY <1>1, <2>1, <2>2 DEF Queued
<1>3. ASSUME Queued(id)' PROVE Queued(id)
  <2>1. PICK i \in 1..Len(opCh') : opCh'[i].id = id
    BY <1>3 DEF Queued
  <2>2. i + 1 \in 1..Len(opCh) /\ opCh[i + 1].id = id
    BY <1>1, <2>1
  <2> QED
    BY <2>2 DEF Queued
<1>4. Head(opCh).id = id => Queued(id)
  BY <1>1 DEF Queued
<1>5. ASSUME LastRight(id) PROVE LastRight(id)'
  <2> SUFFICES ASSUME NEW i \in 1..Len(opCh'), opCh'[i].id = id,
                      \A j \in 1..Len(opCh') : j > i => opCh'[j].id # id
               PROVE  opCh'[i].kind = newest'[id]
    BY DEF LastRight
  <2>1. i + 1 \in 1..Len(opCh) /\ opCh[i + 1] = opCh'[i]
    BY <1>1
  <2>2. ASSUME NEW j \in 1..Len(opCh), j > i + 1 PROVE opCh[j].id # id
    <3>1. j - 1 \in 1..Len(opCh') /\ j - 1 > i /\ (j - 1) + 1 = j
      BY <1>1, <2>2
    <3> QED
      BY <1>1, <3>1
  <2> QED
    BY <1>5, <2>1, <2>2 DEF LastRight
<1>6. ASSUME LastRight(id), Head(opCh).id = id, ~Queued(id)'
      PROVE  Head(opCh).kind = newest[id]
  <2>1. ASSUME NEW j \in 1..Len(opCh), j > 1 PROVE opCh[j].id # id
    <3>1. j - 1 \in 1..Len(opCh') /\ (j - 1) + 1 = j
      BY <1>1, <2>1
    <3> QED
      BY <1>1, <1>6, <3>1 DEF Queued
  <2>2. 1 \in 1..Len(opCh) /\ opCh[1].id = id
    BY <1>1, <1>6
  <2> QED
    BY <1>1, <1>6, <2>1, <2>2 DEF LastRight
<1> QED
  BY <1>1, <1>2, <1>3, <1>4, <1>5, <1>6

LEMMA TakeFiles ==
  ASSUME TypeInv, Take, NEW id \in RoomIds, PipeOne(id), CatchOne(id)
  PROVE  PipeOne(id)' /\ CatchOne(id)'
<1> DEFINE op == Head(opCh)
           p  == Coalesce(pending, op)
<1>1. /\ batch = NoOps /\ holding = NoHold /\ opCh # << >> /\ opCh' = Tail(opCh)
      /\ \/ batch' = p /\ pending' = NoOps
         \/ pending' = p /\ batch' = batch
      /\ newest' = newest /\ late' = late /\ disk' = disk /\ holding' = holding
      /\ UNCHANGED persisterRest
  BY DEF Take, Flushing
<1>2. /\ op \in Op
      /\ Queued(id) <=> Queued(id)' \/ op.id = id
      /\ LastRight(id) =>
           /\ LastRight(id)'
           /\ op.id = id /\ ~Queued(id)' => op.kind = newest[id]
  BY <1>1, TakeFacts
<1>3. p[id] = IF op.id = id THEN op.kind ELSE pending[id]
  BY <1>2 DEF Coalesce, TypeInv, LoopInv
<1>4. op.kind # "none"
  BY <1>2 DEF Op, OpKind
<1> HIDE DEF op, p
<1>5. NoOps[id] = "none" /\ NoHold.id # id
  BY NilTypes, PersistenceAssumption
<1>6. InPipe(id)' <=> InPipe(id)
  BY <1>1, <1>2, <1>3, <1>4, <1>5 DEF InPipe
<1>7. PipeOne(id)'
  BY <1>1, <1>2, <1>3, <1>4, <1>5 DEF PipeOne, InPipe
<1> QED
  BY <1>1, <1>6, <1>7, MovedOn

\* What was coalesced becomes the batch.
LEMMA BatchFiles ==
  ASSUME TypeInv, NEW id \in RoomIds, PipeOne(id), CatchOne(id),
         batch = NoOps, holding = NoHold, batch' = pending, pending' = NoOps,
         UNCHANGED <<persisterRest, opCh, newest, late, holding, disk>>
  PROVE  PipeOne(id)' /\ CatchOne(id)'
<1>1. NoOps[id] = "none" /\ NoHold.id # id
  BY NilTypes, PersistenceAssumption
<1>2. (Queued(id)' <=> Queued(id)) /\ (LastRight(id)' <=> LastRight(id))
  BY DEF Queued, LastRight
<1>3. InPipe(id)' <=> InPipe(id)
  BY <1>1, <1>2 DEF InPipe
<1>4. PipeOne(id)'
  BY <1>1, <1>2 DEF PipeOne, InPipe
<1> QED
  BY <1>3, <1>4, MovedOn

\* The ids a step of flush is not about.
LEMMA FlushOther ==
  ASSUME NEW id \in RoomIds, PipeOne(id), CatchOne(id),
         UNCHANGED <<persisterRest, opCh, late, pending>>,
         batch'[id] = batch[id], newest'[id] = newest[id], disk'[id] = disk[id],
         \/ holding' = holding
         \/ holding.id # id /\ holding'.id # id
  PROVE  PipeOne(id)' /\ CatchOne(id)'
<1>1. (Queued(id)' <=> Queued(id)) /\ (LastRight(id)' <=> LastRight(id))
  BY DEF Queued, LastRight
<1>2. InPipe(id)' <=> InPipe(id)
  BY <1>1 DEF InPipe
<1>3. PipeOne(id)'
  BY <1>1, <1>2 DEF PipeOne
<1> QED
  BY <1>2, <1>3, MovedOn

\* Written touches one file and the fate of one mark.
LEMMA WrittenFacts ==
  ASSUME TypeInv, NEW m \in RoomIds, NEW data, Written(m, data)
  PROVE  /\ \A id \in RoomIds : id # m => disk'[id] = disk[id] /\ newest'[id] = newest[id]
         /\ \/ disk'[m] = data /\ newest'[m] = newest[m]
            \/ disk'[m] = disk[m] /\ Queued(m) /\ newest'[m] = newest[m]
            \/ newest'[m] = "lost"
BY DEF Written, TypeInv, DiskInv, QueueInv

LEMMA FlushDeleteFiles ==
  ASSUME TypeInv, NEW m \in RoomIds, FlushDelete(m), NEW id \in RoomIds,
         PipeOne(id), CatchOne(id)
  PROVE  PipeOne(id)' /\ CatchOne(id)'
<1>1. /\ holding = NoHold /\ batch[m] # "none"
      /\ batch[m] = "delete" \/ (batch[m] = "save" /\ rooms[m] = NoGen)
      /\ batch' = [batch EXCEPT ![m] = "none"] /\ Written(m, NoFile)
      /\ UNCHANGED <<persisterRest, opCh, late, pending, holding>>
  BY DEF FlushDelete
<1>2. batch'[m] = "none" /\ (id # m => batch'[id] = batch[id])
  BY <1>1 DEF TypeInv, LoopInv
<1>3. CASE id # m
  BY <1>1, <1>2, <1>3, WrittenFacts, FlushOther
<1>4. CASE id = m
  <2>1. (Queued(id)' <=> Queued(id)) /\ (newest'[id] = newest[id] => (LastRight(id)' <=> LastRight(id)))
    BY <1>1 DEF Queued, LastRight
  <2>2. /\ InPipe(id) /\ holding'.id # id
        /\ InPipe(id)' <=> Queued(id) \/ pending[id] # "none"
    BY <1>1, <1>2, <1>4, <2>1, NilTypes, PersistenceAssumption DEF InPipe
  <2>3. newest'[id] = newest[id] \/ newest'[id] = "lost"
    BY <1>1, <1>4, WrittenFacts
  <2>4. PipeOne(id)'
    BY <1>1, <1>2, <1>4, <2>1, <2>2, <2>3 DEF PipeOne
  <2>5. newest[id] # "none"
    BY <2>2 DEF CatchOne
  <2>6. ASSUME newest'[id] # "lost", ~InPipe(id)' PROVE disk'[id] = NoFile
    BY <1>1, <1>4, <2>2, <2>6, WrittenFacts
  <2>7. ASSUME newest'[id] = "save", ~InPipe(id)' PROVE Matches(id, disk[id])'
    <3>1. newest[id] = "save" /\ batch[id] = "save"
      BY <1>1, <1>4, <2>2, <2>3, <2>7 DEF PipeOne
    <3>2. rooms'[id] = NoGen
      BY <1>1, <1>4, <3>1, LoopFrame
    <3> QED
      BY <2>6, <2>7, <3>2 DEF Matches
  <2>8. /\ Coming(id)' <=> Coming(id)
        /\ rooms'[id] = rooms[id] /\ late' = late
    BY <1>1, LoopFrame
  <2> QED
    BY <2>2, <2>3, <2>4, <2>5, <2>6, <2>7, <2>8 DEF CatchOne
<1> QED
  BY <1>3, <1>4

LEMMA LookupFiles ==
  ASSUME TypeInv, NEW m \in RoomIds, SnapshotLookup(m), NEW id \in RoomIds,
         PipeOne(id), CatchOne(id)
  PROVE  PipeOne(id)' /\ CatchOne(id)'
<1>1. /\ holding = NoHold /\ batch[m] = "save"
      /\ batch' = [batch EXCEPT ![m] = "none"]
      /\ holding' = [id |-> m, gen |-> rooms[m], data |-> NoFile]
      /\ UNCHANGED <<persisterRest, opCh, newest, late, pending, disk>>
  BY DEF SnapshotLookup, queueVars
<1>2. batch'[m] = "none" /\ (id # m => batch'[id] = batch[id])
  BY <1>1 DEF TypeInv, LoopInv
<1>3. /\ holding.id \notin RoomIds
      /\ holding'.id = m /\ holding'.gen = rooms[m] /\ holding'.data = NoFile
  BY <1>1, NilTypes, PersistenceAssumption
<1>4. CASE id # m
  BY <1>1, <1>2, <1>3, <1>4, FlushOther
<1>5. CASE id = m
  <2>1. (Queued(id)' <=> Queued(id)) /\ (LastRight(id)' <=> LastRight(id))
    BY <1>1 DEF Queued, LastRight
  <2>2. InPipe(id) /\ (InPipe(id)' <=> Queued(id) \/ pending[id] # "none")
    BY <1>1, <1>2, <1>5, <2>1 DEF InPipe
  <2>3. /\ newest'[id] = newest[id] /\ rooms'[id] = rooms[id] /\ late' = late
        /\ disk' = disk /\ (Coming(id)' <=> Coming(id))
    BY <1>1, LoopFrame
  <2>4. newest[id] # "lost" /\ ~InPipe(id)' => newest[id] = "save"
    BY <1>1, <1>5, <2>2 DEF PipeOne
  <2>5. PipeOne(id)'
    BY <1>1, <1>2, <1>5, <2>1, <2>2, <2>3, <2>4 DEF PipeOne
  <2>6. newest[id] # "none"
    BY <2>2 DEF CatchOne
  <2> QED
    BY <1>3, <1>5, <2>2, <2>3, <2>4, <2>5, <2>6 DEF CatchOne
<1> QED
  BY <1>4, <1>5

LEMMA ReadFiles ==
  ASSUME TypeInv, SnapshotRead, NEW id \in RoomIds, PipeOne(id), CatchOne(id)
  PROVE  PipeOne(id)' /\ CatchOne(id)'
<1> DEFINE ref == [id |-> holding.id, gen |-> holding.gen]
           x   == marshalSnapshot(Obj(ref))
<1>1. /\ holding.gen # NoGen
      /\ holding' = [id |-> holding.id, gen |-> NoGen, data |-> x]
      /\ UNCHANGED <<persisterRest, opCh, newest, late, pending, batch, disk>>
  BY DEF SnapshotRead, queueVars
<1>2. Obj(ref) = heap[holding.id][holding.gen]
  BY DEF Obj
<1> HIDE DEF ref, x
<1>3. holding'.id = holding.id /\ holding'.gen = NoGen /\ holding'.data = x
  BY <1>1
<1>4. CASE id # holding.id
  BY <1>1, <1>3, <1>4, FlushOther
<1>5. CASE id = holding.id
  <2>1. (Queued(id)' <=> Queued(id)) /\ (LastRight(id)' <=> LastRight(id))
    BY <1>1 DEF Queued, LastRight
  <2>2. InPipe(id)' <=> InPipe(id)
    BY <1>1, <2>1 DEF InPipe
  <2>3. PipeOne(id)'
    BY <1>1, <1>3, <2>1, <2>2 DEF PipeOne
  <2>4. /\ newest'[id] = newest[id] /\ rooms'[id] = rooms[id] /\ disk' = disk
        /\ LiveObj(id)' = LiveObj(id) /\ late' = late /\ (Stale(id)' <=> Stale(id))
        /\ (Coming(id)' <=> Coming(id)) /\ (Gone(id)' <=> Gone(id))
    BY <1>1, LoopFrame DEF Stale, persisterRest
  <2>5. ASSUME newest'[id] = "save", ~InPipe(id)', ~Coming(id)'
        PROVE  Matches(id, holding.data)'
    <3>1. rooms[id] = holding.gen \/ Gone(id)
      BY <1>1, <1>5, <2>2, <2>4, <2>5 DEF CatchOne
    <3>2. CASE Gone(id)
      BY <2>4, <3>2 DEF Matches, Gone
    <3>3. CASE rooms[id] = holding.gen
      <4>1. /\ LiveRef(id) # NoRef /\ RefIn(heap, LiveRef(id))
            /\ Obj(LiveRef(id)) = LiveObj(id)
        BY <1>1, <3>3, LiveRefFacts DEF Obj, LiveObj
      <4>2. LiveObj(id) \in Room
        BY <4>1, ObjFacts
      <4>3. x = marshalSnapshot(LiveObj(id))
        BY <1>2, <1>5, <3>3 DEF x, LiveObj
      <4>4. x # NoFile /\ Alike(x, LiveObj(id))
        BY <4>2, <4>3, SnapshotFacts, NoFileAssumption
      <4> QED
        BY <1>1, <1>3, <2>4, <3>3, <4>4 DEF Matches
    <3> QED
      BY <3>1, <3>2, <3>3
  <2> QED
    BY <1>3, <1>5, <2>2, <2>3, <2>4, <2>5 DEF CatchOne
<1> QED
  BY <1>4, <1>5

LEMMA SaveFiles ==
  ASSUME TypeInv, FlushSave, NEW id \in RoomIds, PipeOne(id), CatchOne(id)
  PROVE  PipeOne(id)' /\ CatchOne(id)'
<1> SUFFICES ASSUME NEW m, m = holding.id, NEW x, x = holding.data
             PROVE  PipeOne(id)' /\ CatchOne(id)'
  OBVIOUS
<1>1. /\ x # NoFile /\ Written(m, x) /\ holding' = NoHold
      /\ UNCHANGED <<persisterRest, opCh, late, pending, batch>>
  BY DEF FlushSave
<1>2. m \in RoomIds
  BY <1>1, NilTypes DEF TypeInv, LoopInv, HoldOK
<1>3. holding'.id # id
  BY <1>1, NilTypes, PersistenceAssumption
<1>4. CASE id # m
  BY <1>1, <1>2, <1>3, <1>4, WrittenFacts, FlushOther
<1>5. CASE id = m
  <2>1. /\ Queued(id)' <=> Queued(id)
        /\ newest'[id] = newest[id] => (LastRight(id)' <=> LastRight(id))
    BY <1>1 DEF Queued, LastRight
  <2>2. InPipe(id)' <=> InPipe(id)
    BY <1>1, <2>1 DEF InPipe
  <2>3. \/ disk'[id] = x /\ newest'[id] = newest[id]
        \/ disk'[id] = disk[id] /\ Queued(id) /\ newest'[id] = newest[id]
        \/ newest'[id] = "lost"
    BY <1>1, <1>2, <1>5, WrittenFacts
  <2>4. PipeOne(id)'
    BY <1>1, <1>3, <2>1, <2>2, <2>3 DEF PipeOne
  <2>5. newest[id] # "none" /\ (newest[id] # "lost" /\ ~InPipe(id) => newest[id] = "save")
    BY <1>5 DEF CatchOne, PipeOne
  <2>6. ASSUME newest'[id] = "save", ~InPipe(id)', ~Coming(id)'
        PROVE  Matches(id, disk[id])'
    <3>1. newest[id] = "save" /\ ~InPipe(id) /\ ~Coming(id) /\ disk'[id] = x
      BY <1>1, <2>2, <2>3, <2>6, LoopFrame DEF InPipe
    <3>2. Matches(id, x)
      BY <1>1, <1>5, <3>1 DEF CatchOne
    <3>3. Matches(id, x)'
      BY <1>1, <3>2, MatchesFrame
    <3> QED
      BY <3>1, <3>3 DEF Matches
  <2>7. (Coming(id)' <=> Coming(id)) /\ rooms'[id] = rooms[id] /\ late' = late
    BY <1>1, LoopFrame
  <2> QED
    BY <1>3, <2>2, <2>3, <2>4, <2>5, <2>6, <2>7 DEF CatchOne
<1> QED
  BY <1>4, <1>5

LEMMA PersisterFiles ==
  ASSUME TypeInv, FileInv, Persister
  PROVE  FileInv'
<1>0. phase # "down" /\ phase' = phase
  BY DEF Persister, Take, TickerFlush, SeeStop, FinalFlush, Flush, FlushDelete,
         SnapshotLookup, SnapshotRead, FlushSave, persisterRest
<1> SUFFICES ASSUME NEW id \in RoomIds PROVE PipeOne(id)' /\ CatchOne(id)'
  BY DEF FileInv
<1>1. PipeOne(id) /\ CatchOne(id)
  BY <1>0 DEF FileInv
<1>2. CASE Take
  BY <1>1, <1>2, TakeFiles
<1>3. CASE TickerFlush
  BY <1>1, <1>3, BatchFiles DEF TickerFlush, Flushing, queueVars
<1>4. CASE SeeStop
  BY <1>1, <1>4, FlushOther DEF SeeStop, queueVars
<1>5. CASE FinalFlush
  BY <1>1, <1>5, BatchFiles DEF FinalFlush, queueVars, TypeInv, LoopInv
<1>6. CASE Flush
  BY <1>1, <1>6, FlushDeleteFiles, LookupFiles, ReadFiles, SaveFiles DEF Flush
<1> QED
  BY <1>2, <1>3, <1>4, <1>5, <1>6 DEF Persister

LEMMA BootFiles ==
  ASSUME TypeInv, Boot
  PROVE  FileInv'
<1> SUFFICES ASSUME NEW id \in RoomIds PROVE PipeOne(id)' /\ CatchOne(id)'
  BY DEF FileInv
<1>1. /\ opCh' = << >> /\ newest'[id] = "none" /\ pending'[id] = "none" /\ batch'[id] = "none"
      /\ holding'.id # id
  BY NilTypes, PersistenceAssumption DEF Boot, TypeInv, ClockInv, Blank, queueVars, loopVars
<1>2. id \in toMark' \/ (Stale(id)' /\ rooms'[id] = NoGen)
  BY DEF Boot, Stale
<1>3. ~Queued(id)' /\ LastRight(id)'
  BY <1>1 DEF Queued, LastRight
<1> QED
  BY <1>1, <1>2, <1>3 DEF PipeOne, CatchOne, InPipe, Coming

\* Time does not make a stale file fresh.
LEMMA StaleStays ==
  ASSUME TypeInv, DiskInv', [Next]_vars, disk' = disk, ~Boot, NEW id \in RoomIds, Stale(id)
  PROVE  Stale(id)'
<1>1. now \in Int /\ (now' = now \/ now' = now + 1)
  BY DEF TypeInv, ClockInv, Time, Next, vars, Handle, Sweep, SweepMark, SweepRoom, Persister, Take,
         TickerFlush, SeeStop, FinalFlush, Flush, FlushDelete, SnapshotLookup, SnapshotRead,
         FlushSave, persisterRest, Main, Serve, ShutdownRemove, Stop, Exit, MarkAllDirty,
         ShutdownClose, Shutdown, Crash, Tick
<1>2. disk[id] # NoFile => disk[id].expiresAt \in Int
  BY DEF TypeInv, DiskInv, RoomSnapshot, Time
<1> QED
  BY <1>1, <1>2 DEF Stale, Restorable

\* The invariant behind FilesCatchUp is inductive.
LEMMA NextFiles ==
  ASSUME TypeInv, TypeInv', FileInv, [Next]_vars
  PROVE  FileInv'
<1>0. ASSUME MemoryStep, ~Boot PROVE FileInv'
  BY <1>0, StaleStays, MemoryStepKeeps DEF MemoryStep, TypeInv
<1>1. CASE Handle
  BY <1>0, <1>1, HandleFiles DEF MemoryStep, Boot
<1>2. CASE Sweep
  BY <1>0, <1>2, SweepFiles DEF MemoryStep, Boot
<1>3. CASE Persister
  BY <1>3, PersisterFiles
<1>4. CASE Main \/ Shutdown
  BY <1>0, <1>4, MainFiles, BootFiles DEF Exit, NoProcess, FileInv
<1>5. CASE Crash
  BY <1>5 DEF Crash, NoProcess, FileInv
<1>6. CASE Tick \/ UNCHANGED vars
  <2>1. phase' = phase
    BY <1>6 DEF Tick, vars
  <2>2. CASE phase = "down"
    BY <2>1, <2>2 DEF FileInv
  <2>3. CASE phase # "down"
    BY <1>0, <1>6, <2>3, IdleFiles DEF Boot
  <2> QED
    BY <2>2, <2>3
<1> QED
  BY <1>1, <1>2, <1>3, <1>4, <1>5, <1>6 DEF Next

\* A settled id, in the terms of the invariant.
LEMMA SettledFacts ==
  ASSUME NEW id \in RoomIds, Settled(id)
  PROVE  ~InPipe(id) /\ ~Coming(id) /\ holding.id # id
BY DEF Settled, Outstanding, InPipe, Coming

\* A settled file whose newest mark is a save.
LEMMA SettledSave ==
  ASSUME TypeInv, NEW id \in RoomIds, Matches(id, disk[id]), rooms[id] # NoGen
  PROVE  disk[id] # NoFile /\ disk[id] \in RoomSnapshot /\ Obj(LiveRef(id)) \in Room
         /\ Alike(disk[id], Obj(LiveRef(id)))
<1>1. disk[id] # NoFile /\ Alike(disk[id], LiveObj(id))
  BY DEF Matches
<1>2. disk[id] \in RoomSnapshot
  BY <1>1 DEF TypeInv, DiskInv
<1>3. Obj(LiveRef(id)) \in Room
  BY LiveRefFacts, ObjFacts
<1>4. Obj(LiveRef(id)) = LiveObj(id)
  BY LiveRefFacts DEF Obj, LiveObj
<1> QED
  BY <1>1, <1>2, <1>3, <1>4

LEMMA FileInvImplies == TypeInv /\ FileInv => FilesCatchUp
<1> SUFFICES ASSUME TypeInv, FileInv, phase \in {"booting", "serving"},
                    NEW id \in RoomIds, Settled(id)
             PROVE  CASE newest[id] = "lost"   -> TRUE
                      [] newest[id] = "delete" ->
                           disk[id] = NoFile /\ (rooms[id] = NoGen \/ id \in late)
                      [] newest[id] = "none"   ->
                           /\ rooms[id] = NoGen
                           /\ disk[id] # NoFile => ~Restorable(disk[id], now)
                      [] newest[id] = "save"   ->
                           IF rooms[id] = NoGen THEN disk[id] = NoFile \/ tomb[id] = "locked"
                           ELSE disk[id] # NoFile /\ SameButUnmarked(disk[id], Obj(LiveRef(id)))
  BY DEF FilesCatchUp
<1>1. ~InPipe(id) /\ ~Coming(id) /\ holding.id # id
  BY SettledFacts
<1>2. CatchOne(id)
  BY DEF FileInv
<1>3. newest[id] \in {"save", "delete", "none", "lost"}
  BY DEF TypeInv, QueueInv, OpKind
<1>4. CASE newest[id] = "lost"
  BY <1>4
<1>5. CASE newest[id] = "delete"
  BY <1>1, <1>2, <1>5 DEF CatchOne
<1>6. CASE newest[id] = "none"
  BY <1>1, <1>2, <1>6 DEF CatchOne, Stale
<1>7. CASE newest[id] = "save"
  <2>1. Matches(id, disk[id])
    BY <1>1, <1>2, <1>7 DEF CatchOne
  <2>2. rooms[id] = NoGen => disk[id] = NoFile \/ tomb[id] = "locked"
    BY <2>1 DEF Matches, Gone
  <2>3. rooms[id] # NoGen =>
          disk[id] # NoFile /\ SameButUnmarked(disk[id], Obj(LiveRef(id)))
    BY <2>1, SettledSave, SameIsAlike
  <2> QED
    BY <1>7, <2>2, <2>3
<1> QED
  BY <1>3, <1>4, <1>5, <1>6, <1>7

\* FilesCatchUp: when no mark of a room is on its way, its file is the room as
\* it is now, or both are gone, whatever order the handlers, the sweep,
\* MarkAllDirty and the persister ran in and however the marks were coalesced
\* (store.go loop and flush).  Apart from it are, as the property spells out,
\* an id whose newest mark was dropped or whose write failed, a live room whose
\* file a late delete of the sweep took, the file of a locked-out room, and a
\* stale file Restore could not delete.
THEOREM FilesKept == Spec => []FilesCatchUp
<1>1. Init => TypeInv /\ FileInv
  BY InitTypes DEF Init, FileInv
<1>2. TypeInv /\ FileInv /\ [Next]_vars => (TypeInv /\ FileInv)'
  BY NextTypes, NextFiles
<1> QED
  BY <1>1, <1>2, FileInvImplies, PTL DEF Spec

-----------------------------------------------------------------------------
(* Every room on disk can be rejoined *)

\* A handler has built this object from a token and not yet attached to it.
Recreating(id, g) ==
  \E c \in Conns : /\ task[c].at = [id |-> id, gen |-> g]
                   /\ task[c].do \in {"markRecreated", "attach"}

\* Somebody has been in the room, or is about to be.
Fit(id, g) == \/ Known(heap[id][g])
              \/ Bufferless(heap[id][g]) /\ Recreating(id, g)

ObjInv == \A id \in RoomIds : \A g \in 1..Len(heap[id]) : Fit(id, g)

SessKnown == \A c \in Conns : sess[c].at # NoRef => Known(Obj(sess[c].at))

Readable(x) == x # NoFile => Known(x) \/ Bufferless(x)

FileKnown == Readable(holding.data) /\ \A id \in RoomIds : Readable(disk[id])

KnownInv == ObjInv /\ SessKnown /\ FileKnown

\* No object goes, and none is forgotten.
Remembers ==
  \A id \in RoomIds : \A g \in 1..Len(heap[id]) :
    g \in 1..Len(heap'[id]) /\ (Known(heap[id][g]) => Known(heap'[id][g]))

TasksKept ==
  \A id \in RoomIds : \A g \in Gens : Recreating(id, g) => Recreating(id, g)'

LEMMA SameObjects ==
  ASSUME TypeInv, ObjInv, heap' = heap, TasksKept
  PROVE  ObjInv' /\ Remembers
<1>1. \A id \in RoomIds : \A g \in 1..Len(heap[id]) : g \in Gens
  BY PersistenceAssumption DEF TypeInv, HeapOK, Heaps, Gens
<1> QED
  BY <1>1 DEF ObjInv, Fit, TasksKept, Remembers

\* One object changes.
LEMMA SetObjKnown ==
  ASSUME TypeInv, ObjInv, NEW ref, RefIn(heap, ref), ref # NoRef, NEW rm \in Room,
         SetObj(ref, rm), Known(rm) \/ Alike(Obj(ref), rm),
         \A id \in RoomIds : \A g \in Gens :
           Recreating(id, g) => \/ Recreating(id, g)'
                                \/ Known(rm) /\ id = ref.id /\ g = ref.gen
  PROVE  ObjInv' /\ Remembers /\ (Known(rm) => Known(heap'[ref.id][ref.gen]))
<1>1. /\ \A i \in RoomIds : Len(heap'[i]) = Len(heap[i])
      /\ \A i \in RoomIds : i # ref.id => heap'[i] = heap[i]
      /\ heap'[ref.id][ref.gen] = rm
      /\ \A k \in 1..Len(heap[ref.id]) : k # ref.gen => heap'[ref.id][k] = heap[ref.id][k]
  BY SetObjFacts
<1>2. ref.id \in RoomIds /\ ref.gen \in 1..Len(heap[ref.id])
  BY ObjFacts
<1>3. \A id \in RoomIds : \A g \in 1..Len(heap[id]) : g \in Gens
  BY PersistenceAssumption DEF TypeInv, HeapOK, Heaps, Gens
<1>4. Obj(ref) = heap[ref.id][ref.gen]
  BY DEF Obj
<1>5. Alike(Obj(ref), rm) =>
        (Known(Obj(ref)) => Known(rm)) /\ (Bufferless(Obj(ref)) => Known(rm) \/ Bufferless(rm))
  BY AlikeKeeps DEF Keeps
<1>6. ASSUME NEW id \in RoomIds, NEW g \in 1..Len(heap[id])
      PROVE  Fit(id, g)' /\ (Known(heap[id][g]) => Known(heap'[id][g]))
  <2>1. Fit(id, g) /\ g \in Gens
    BY <1>3, <1>6 DEF ObjInv
  <2>2. CASE id = ref.id /\ g = ref.gen
    <3>1. heap'[id][g] = rm /\ heap[id][g] = Obj(ref)
      BY <1>1, <1>4, <2>2
    <3>2. CASE Known(rm)
      BY <3>1, <3>2 DEF Fit
    <3>3. CASE ~Known(rm)
      <4>1. Recreating(id, g) => Recreating(id, g)'
        BY <2>1, <3>3
      <4> QED
        BY <1>5, <2>1, <3>1, <3>3, <4>1 DEF Fit
    <3> QED
      BY <3>2, <3>3
  <2>3. CASE ~(id = ref.id /\ g = ref.gen)
    <3>1. heap'[id][g] = heap[id][g]
      BY <1>1, <1>2, <1>6, <2>3
    <3>2. Recreating(id, g) => Recreating(id, g)'
      BY <2>1, <2>3
    <3> QED
      BY <2>1, <3>1, <3>2 DEF Fit
  <2> QED
    BY <2>2, <2>3
<1>7. ObjInv'
  BY <1>1, <1>6 DEF ObjInv
<1>8. Remembers
  BY <1>1, <1>6 DEF Remembers
<1> QED
  BY <1>1, <1>7, <1>8

\* One object more.
LEMMA PublishKnown ==
  ASSUME TypeInv, ObjInv, TasksKept, NEW id \in RoomIds, NEW rm \in Room, Publish(id, rm),
         NEW g, g = Len(heap[id]) + 1,
         Known(rm) \/ (Bufferless(rm) /\ Recreating(id, g)')
  PROVE  ObjInv' /\ Remembers
<1>1. /\ \A i \in RoomIds : i # id => heap'[i] = heap[i]
      /\ Len(heap'[id]) = Len(heap[id]) + 1
      /\ heap'[id][Len(heap[id]) + 1] = rm
      /\ \A k \in 1..Len(heap[id]) : heap'[id][k] = heap[id][k]
  BY PublishFacts
<1>2. \A i \in RoomIds : Len(heap[i]) \in Nat /\ \A k \in 1..Len(heap[i]) : k \in Gens
  BY PersistenceAssumption DEF TypeInv, HeapOK, Heaps, Gens
<1>3. ASSUME NEW i \in RoomIds, NEW k \in 1..Len(heap[i])
      PROVE  Fit(i, k)' /\ heap'[i][k] = heap[i][k] /\ k \in 1..Len(heap'[i])
  <2>1. Fit(i, k) /\ k \in Gens
    BY <1>2, <1>3 DEF ObjInv
  <2>2. heap'[i][k] = heap[i][k] /\ k \in 1..Len(heap'[i])
    BY <1>1, <1>2, <1>3
  <2>3. Recreating(i, k) => Recreating(i, k)'
    BY <2>1 DEF TasksKept
  <2> QED
    BY <2>1, <2>2, <2>3 DEF Fit
<1>4. Fit(id, g)'
  BY <1>1 DEF Fit
<1>5. \A i \in RoomIds : \A k \in 1..Len(heap'[i]) : k \in 1..Len(heap[i]) \/ (i = id /\ k = g)
  BY <1>1, <1>2
<1>6. ObjInv'
  BY <1>3, <1>4, <1>5 DEF ObjInv
<1>7. Remembers
  BY <1>3 DEF Remembers
<1> QED
  BY <1>6, <1>7

\* Sessions: none changes, one ends, or one begins in a known room.
LEMMA SessStays ==
  ASSUME TypeInv, SessKnown, Remembers, sess' = sess
  PROVE  SessKnown'
<1> SUFFICES ASSUME NEW c \in Conns, sess[c].at # NoRef
             PROVE  Known(heap'[sess[c].at.id][sess[c].at.gen])
  BY DEF SessKnown, Obj
<1>1. /\ sess[c].at.id \in RoomIds
      /\ sess[c].at.gen \in 1..Len(heap[sess[c].at.id])
  BY ObjFacts DEF TypeInv, SessInv, SessOK
<1>2. Known(heap[sess[c].at.id][sess[c].at.gen])
  BY DEF SessKnown, Obj
<1> QED
  BY <1>1, <1>2 DEF Remembers

LEMMA SessSet ==
  ASSUME TypeInv, SessKnown, Remembers, NEW c \in Conns, NEW s,
         sess' = [sess EXCEPT ![c] = s],
         s.at # NoRef => Known(heap'[s.at.id][s.at.gen])
  PROVE  SessKnown'
<1> SUFFICES ASSUME NEW d \in Conns, sess'[d].at # NoRef
             PROVE  Known(heap'[sess'[d].at.id][sess'[d].at.gen])
  BY DEF SessKnown, Obj
<1>0. sess'[c] = s /\ \A x \in Conns : x # c => sess'[x] = sess[x]
  BY DEF TypeInv, SessInv
<1>1. CASE d = c
  BY <1>0, <1>1
<1>2. CASE d # c
  <2>1. sess'[d] = sess[d]
    BY <1>0, <1>2
  <2>2. /\ sess[d].at.id \in RoomIds
        /\ sess[d].at.gen \in 1..Len(heap[sess[d].at.id])
    BY <2>1, ObjFacts DEF TypeInv, SessInv, SessOK
  <2>3. Known(heap[sess[d].at.id][sess[d].at.gen])
    BY <2>1 DEF SessKnown, Obj
  <2> QED
    BY <2>1, <2>2, <2>3 DEF Remembers
<1> QED
  BY <1>1, <1>2

\* A task that does not end the recreation of a room.
LEMMA TaskGoesOn ==
  ASSUME TypeInv, NEW c \in Conns, NEW t, SetTask(c, t),
         \/ task[c].do \notin {"markRecreated", "attach"}
         \/ t.at = task[c].at /\ t.do \in {"markRecreated", "attach"}
  PROVE  TasksKept
<1>1. task'[c] = t /\ \A d \in Conns : d # c => task'[d] = task[d]
  BY DEF TypeInv, TaskInv, SetTask
<1> SUFFICES ASSUME NEW id \in RoomIds, NEW g \in Gens, Recreating(id, g)
             PROVE  Recreating(id, g)'
  BY DEF TasksKept
<1>2. PICK d \in Conns : /\ task[d].at = [id |-> id, gen |-> g]
                         /\ task[d].do \in {"markRecreated", "attach"}
  BY DEF Recreating
<1>3. task'[d].at = [id |-> id, gen |-> g] /\ task'[d].do \in {"markRecreated", "attach"}
  BY <1>1, <1>2
<1> QED
  BY <1>3 DEF Recreating

LEMMA TasksSame ==
  ASSUME task' = task
  PROVE  TasksKept
BY DEF TasksKept, Recreating

\* A section that makes or leaves the room known, or changes nothing of note,
\* and no task.
LEMMA SectionKnown ==
  ASSUME TypeInv, ObjInv, NEW ref, RefIn(heap, ref), ref # NoRef, NEW rm \in Room,
         SetObj(ref, rm), Known(rm) \/ Alike(Obj(ref), rm), TasksKept
  PROVE  ObjInv' /\ Remembers /\ (Known(rm) => Known(heap'[ref.id][ref.gen]))
<1>1. \A id \in RoomIds : \A g \in Gens :
        Recreating(id, g) => \/ Recreating(id, g)'
                             \/ Known(rm) /\ id = ref.id /\ g = ref.gen
  BY DEF TasksKept
<1> QED
  BY <1>1, SetObjKnown

LEMMA CreateKnown ==
  ASSUME TypeInv, KnownInv, NEW c \in Conns, NEW id \in RoomIds, NEW e \in Epochs,
         CreateRoom(c, id, e)
  PROVE  ObjInv' /\ SessKnown'
<1> SUFFICES ASSUME NEW g, g = Len(heap[id]) + 1 PROVE ObjInv' /\ SessKnown'
  OBVIOUS
<1> DEFINE rm  == HostAttached(NewRoom(id, Ip, now, now, HasPassword), c, e)
           s   == [at |-> [id |-> id, gen |-> g], role |-> "host"]
           t   == [do |-> "markCreated", at |-> [id |-> id, gen |-> g], role |-> "host"]
<1>1. /\ Publish(id, rm) /\ SetTask(c, t) /\ task[c] = NoTask
      /\ sess' = [sess EXCEPT ![c] = s]
  BY DEF CreateRoom, SetTask, Unattached, Ready, Attach
<1>2. rm \in Room /\ Known(rm)
  BY BuiltFacts, AttachedKnown DEF TypeInv, ClockInv
<1>3. s.at.id = id /\ s.at.gen = g
  OBVIOUS
<1> HIDE DEF rm, t, s
<1>4. TasksKept
  BY <1>1, TaskGoesOn, NilTypes
<1>5. ObjInv' /\ Remembers
  BY <1>1, <1>2, <1>4, PublishKnown DEF KnownInv
<1>6. heap'[id][g] = rm
  BY <1>1, <1>2, PublishFacts
<1> QED
  BY <1>1, <1>2, <1>3, <1>5, <1>6, SessSet DEF KnownInv

LEMMA RecreateKnown ==
  ASSUME TypeInv, KnownInv, NEW c \in Conns, NEW tok \in tokens, Recreate(c, tok)
  PROVE  ObjInv' /\ SessKnown'
<1> SUFFICES ASSUME NEW id, id = tok.id, NEW g, g = Len(heap[id]) + 1
             PROVE  ObjInv' /\ SessKnown'
  OBVIOUS
<1> DEFINE rm  == NewRoom(id, Ip, tok.createdAt, now, HasPassword)
           t   == [do |-> "markRecreated", at |-> [id |-> id, gen |-> g], role |-> tok.role]
<1>1. /\ Publish(id, rm) /\ SetTask(c, t) /\ task[c] = NoTask /\ sess' = sess
  BY DEF Recreate, SetTask, Unattached, Ready
<1>2. id \in RoomIds /\ tok.createdAt \in Time
  BY DEF TypeInv, PlainInv
<1>3. rm \in Room /\ Bufferless(rm)
  BY <1>2, BuiltFacts, NewRoomBare
<1>4. t.at = [id |-> id, gen |-> g] /\ t.do = "markRecreated"
  OBVIOUS
<1> HIDE DEF rm, t
<1>5. TasksKept
  BY <1>1, TaskGoesOn, NilTypes
<1>6. Recreating(id, g)'
  <2>1. task'[c] = t
    BY <1>1 DEF TypeInv, TaskInv, SetTask
  <2> QED
    BY <1>4, <2>1 DEF Recreating
<1>7. ObjInv' /\ Remembers
  BY <1>1, <1>2, <1>3, <1>5, <1>6, PublishKnown DEF KnownInv
<1> QED
  BY <1>1, <1>7, SessStays DEF KnownInv

\* Somebody attaches to an object.
LEMMA AttachKnown ==
  ASSUME TypeInv, KnownInv, NEW c \in Conns, NEW ref, RefIn(heap, ref), ref # NoRef,
         NEW rm \in Room, Known(rm), SetObj(ref, rm), NEW role, Attach(c, ref, role),
         \A id \in RoomIds : \A g \in Gens :
           Recreating(id, g) => \/ Recreating(id, g)'
                                \/ Known(rm) /\ id = ref.id /\ g = ref.gen
  PROVE  ObjInv' /\ SessKnown'
<1> DEFINE s == [at |-> ref, role |-> role]
<1>1. ObjInv' /\ Remembers /\ Known(heap'[ref.id][ref.gen])
  BY SetObjKnown DEF KnownInv
<1>2. sess' = [sess EXCEPT ![c] = s] /\ s.at = ref
  BY DEF Attach
<1> HIDE DEF s
<1> QED
  BY <1>1, <1>2, SessSet DEF KnownInv

LEMMA AttachHandlersKnown ==
  ASSUME TypeInv, KnownInv, NEW c \in Conns, NEW e \in Epochs,
         \/ \E id \in RoomIds : JoinRoom(c, id, e)
         \/ \E tok \in tokens : RejoinRoom(c, tok, e)
         \/ AttachRecreated(c, e)
  PROVE  ObjInv' /\ SessKnown'
<1>1. ASSUME NEW id \in RoomIds, JoinRoom(c, id, e)
      PROVE  ObjInv' /\ SessKnown'
  <2> DEFINE ref == LiveRef(id)
             rm  == GuestAttached(Obj(ref), c, e)
  <2>1. /\ rooms[id] # NoGen /\ SetObj(ref, rm) /\ Attach(c, ref, "guest") /\ task' = task
    BY <1>1 DEF JoinRoom
  <2>2. RefIn(heap, ref) /\ ref # NoRef /\ Obj(ref) \in Room
    BY <2>1, LiveRefFacts, ObjFacts
  <2>3. rm \in Room /\ Known(rm)
    BY <2>2, GuestAttachedFacts, AttachedKnown
  <2> HIDE DEF ref, rm
  <2>4. TasksKept
    BY <2>1, TasksSame
  <2> QED
    BY <2>1, <2>2, <2>3, <2>4, AttachKnown DEF TasksKept
<1>2. ASSUME NEW tok \in tokens, RejoinRoom(c, tok, e)
      PROVE  ObjInv' /\ SessKnown'
  <2> DEFINE ref == LiveRef(tok.id)
             rm  == Rejoined(Obj(ref), tok.role, c, e, FALSE, now)
  <2>1. /\ rooms[tok.id] # NoGen /\ SetObj(ref, rm) /\ Attach(c, ref, tok.role) /\ task' = task
    BY <1>2 DEF RejoinRoom, RejoinSection
  <2>2. tok.id \in RoomIds /\ tok.role \in Role /\ now \in Time
    BY DEF TypeInv, PlainInv, ClockInv
  <2>3. RefIn(heap, ref) /\ ref # NoRef /\ Obj(ref) \in Room
    BY <2>1, <2>2, LiveRefFacts, ObjFacts
  <2>4. rm \in Room /\ Known(rm)
    BY <2>2, <2>3, RejoinedFacts, RejoinedKnown
  <2> HIDE DEF ref, rm
  <2>5. TasksKept
    BY <2>1, TasksSame
  <2> QED
    BY <2>1, <2>3, <2>4, <2>5, AttachKnown DEF TasksKept
<1>3. CASE AttachRecreated(c, e)
  <2> SUFFICES ASSUME NEW ref, ref = task[c].at PROVE ObjInv' /\ SessKnown'
    OBVIOUS
  <2> DEFINE rm == Rejoined(Obj(ref), task[c].role, c, e, TRUE, now)
  <2>1. /\ task[c].do = "attach" /\ SetObj(ref, rm) /\ Attach(c, ref, task[c].role)
        /\ SetTask(c, NoTask)
    BY <1>3 DEF AttachRecreated, RejoinSection, SetTask
  <2>2. RefIn(heap, ref) /\ ref # NoRef /\ Obj(ref) \in Room /\ task[c].role \in Role
        /\ now \in Time
    BY <2>1, TaskFacts DEF TypeInv, ClockInv
  <2>3. rm \in Room /\ Known(rm)
    BY <2>2, RejoinedFacts, RejoinedKnown
  <2> HIDE DEF rm
  <2>4. ASSUME NEW id \in RoomIds, NEW g \in Gens, Recreating(id, g)
        PROVE  Recreating(id, g)' \/ (id = ref.id /\ g = ref.gen)
    <3>1. PICK d \in Conns : /\ task[d].at = [id |-> id, gen |-> g]
                             /\ task[d].do \in {"markRecreated", "attach"}
      BY <2>4 DEF Recreating
    <3>2. CASE d = c
      BY <3>1, <3>2
    <3>3. CASE d # c
      <4>1. task'[d] = task[d]
        BY <2>1, <3>3 DEF TypeInv, TaskInv, SetTask
      <4> QED
        BY <3>1, <4>1 DEF Recreating
    <3> QED
      BY <3>2, <3>3
  <2> QED
    BY <2>1, <2>2, <2>3, <2>4, AttachKnown
<1> QED
  BY <1>1, <1>2, <1>3

\* A section of an attached connection: its room is known and stays so.
LEMMA AttachedSectionKnown ==
  ASSUME TypeInv, KnownInv, NEW c \in Conns, sess[c].at # NoRef,
         NEW rm \in Room, SetObj(sess[c].at, rm), Known(Obj(sess[c].at)) => Known(rm),
         TasksKept,
         sess' = sess \/ sess' = [sess EXCEPT ![c] = NoSession]
  PROVE  ObjInv' /\ SessKnown'
<1> SUFFICES ASSUME NEW ref, ref = sess[c].at PROVE ObjInv' /\ SessKnown'
  OBVIOUS
<1>1. RefIn(heap, ref) /\ ref # NoRef /\ Known(rm)
  BY DEF TypeInv, SessInv, SessOK, KnownInv, SessKnown
<1>2. ObjInv' /\ Remembers
  BY <1>1, SectionKnown DEF KnownInv
<1>3. CASE sess' = sess
  BY <1>2, <1>3, SessStays DEF KnownInv
<1>4. CASE sess' = [sess EXCEPT ![c] = NoSession]
  BY <1>2, <1>4, SessSet, NilTypes DEF KnownInv
<1> QED
  BY <1>2, <1>3, <1>4

LEMMA SessionHandlersKnown ==
  ASSUME TypeInv, KnownInv, NEW c \in Conns,
         \/ \E seq \in 1..MaxSeq, size \in Sizes : Signal(c, sess[c].at, seq, size)
         \/ PeerConnected(c, sess[c].at)
         \/ CloseRoom(c, sess[c].at)
         \/ Detach(c)
  PROVE  ObjInv' /\ SessKnown'
<1> DEFINE ref  == sess[c].at
           role == sess[c].role
<1>0. ref # NoRef => RefIn(heap, ref) /\ Obj(ref) \in Room /\ role \in Role /\ now \in Time
  BY SessFacts DEF TypeInv, ClockInv
<1>1. ASSUME NEW seq \in 1..MaxSeq, NEW size \in Sizes, Signal(c, ref, seq, size)
      PROVE  ObjInv' /\ SessKnown'
  <2> DEFINE rm == SignalledRoom(Obj(ref), role, seq, size)
  <2>1. /\ ref # NoRef /\ SetObj(ref, rm)
        /\ seq > Obj(ref).slots[role].lastSeq
        /\ UNCHANGED <<task, sess>>
    BY <1>1 DEF Signal, AttachedTo, SignalledRoom, SetObj
  <2>2. rm \in Room
    BY <1>0, <2>1, SignalledType
  <2>3. Known(Obj(ref)) => Known(rm)
    <3>1. Alike(Obj(ref), Accepted(Obj(ref), role, seq))
      BY <1>0, <2>1, UnmarkedAlike
    <3>2. Known(Obj(ref)) => Known(Accepted(Obj(ref), role, seq))
      BY <3>1, AlikeKeeps DEF Keeps
    <3> QED
      BY <1>0, <2>1, <3>2, SectionsKnown DEF SignalledRoom
  <2> HIDE DEF rm
  <2> QED
    BY <2>1, <2>2, <2>3, TasksSame, AttachedSectionKnown
<1>2. CASE PeerConnected(c, ref)
  <2> DEFINE rm == Reported(Obj(ref), role, now)
  <2>1. ref # NoRef /\ SetObj(ref, rm) /\ UNCHANGED <<task, sess>>
    BY <1>2 DEF PeerConnected, AttachedTo
  <2>2. rm \in Room /\ (Known(Obj(ref)) => Known(rm))
    BY <1>0, <2>1, ReportedFacts, SectionsKnown
  <2> HIDE DEF rm
  <2> QED
    BY <2>1, <2>2, TasksSame, AttachedSectionKnown
<1>3. CASE CloseRoom(c, ref)
  <2> DEFINE rm == Emptied(Obj(ref))
             t  == [do |-> "markClosed", at |-> ref, role |-> "host"]
  <2>1. ref # NoRef /\ SetObj(ref, rm) /\ SetTask(c, t) /\ task[c] = NoTask /\ sess' = sess
    BY <1>3 DEF CloseRoom, EndRoom, AttachedTo, Ready, SetTask
  <2>2. rm \in Room /\ Alike(Obj(ref), rm)
    BY <1>0, <2>1, EmptiedFacts, UnmarkedAlike
  <2> HIDE DEF rm, t
  <2>3. Known(Obj(ref)) => Known(rm)
    BY <2>2, AlikeKeeps DEF Keeps
  <2>4. TasksKept
    BY <2>1, TaskGoesOn, NilTypes
  <2> QED
    BY <2>1, <2>2, <2>3, <2>4, AttachedSectionKnown
<1>4. CASE Detach(c)
  <2> DEFINE rm == Detached(Obj(ref), role, c, now)
  <2>1. /\ sess[c] # NoSession /\ SetObj(ref, rm) /\ task' = task
        /\ sess' = [sess EXCEPT ![c] = NoSession]
    BY <1>4 DEF Detach
  <2>2. ref # NoRef
    BY <2>1 DEF TypeInv, SessInv, SessOK
  <2>3. rm \in Room /\ (Known(Obj(ref)) => Known(rm))
    BY <1>0, <2>2, DetachedFacts, SectionsKnown
  <2> HIDE DEF rm
  <2> QED
    BY <2>1, <2>2, <2>3, TasksSame, AttachedSectionKnown
<1> QED
  BY <1>1, <1>2, <1>3, <1>4

\* A section that changes nothing of note.
LEMMA AlikeKnown ==
  ASSUME TypeInv, KnownInv, NEW ref, RefIn(heap, ref), ref # NoRef, NEW rm \in Room,
         SetObj(ref, rm), Alike(Obj(ref), rm), UNCHANGED <<task, sess>>
  PROVE  ObjInv' /\ SessKnown'
BY TasksSame, SectionKnown, SessStays DEF KnownInv

LEMMA WrongPasswordKnown ==
  ASSUME TypeInv, KnownInv, NEW c \in Conns, NEW id \in RoomIds, WrongPassword(c, id)
  PROVE  ObjInv' /\ SessKnown'
<1> DEFINE ref == LiveRef(id)
           rm  == GuessedWrong(Obj(ref))
           rm2 == Emptied(rm)
<1>1. /\ rooms[id] # NoGen /\ UNCHANGED <<task, sess>>
      /\ SetObj(ref, rm2) \/ SetObj(ref, rm)
  BY DEF WrongPassword, SetObj, LiveRef
<1>2. RefIn(heap, ref) /\ ref # NoRef /\ Obj(ref) \in Room
  BY <1>1, LiveRefFacts, ObjFacts
<1>3. rm \in Room /\ Alike(Obj(ref), rm)
  BY <1>2, GuessedWrongFacts, UnmarkedAlike
<1> HIDE DEF ref, rm
<1>4. rm2 \in Room /\ Alike(rm, rm2)
  BY <1>3, EmptiedFacts, UnmarkedAlike
<1>5. Alike(Obj(ref), rm2)
  BY <1>2, <1>3, <1>4, AlikeTrans
<1> HIDE DEF rm2
<1> QED
  BY <1>1, <1>2, <1>3, <1>4, <1>5, AlikeKnown

\* Nothing changes on the heap.
LEMMA QuietKnown ==
  ASSUME TypeInv, KnownInv, heap' = heap, sess' = sess, TasksKept
  PROVE  ObjInv' /\ SessKnown'
BY SameObjects, SessStays DEF KnownInv

LEMMA HandleKnown ==
  ASSUME TypeInv, KnownInv, Handle
  PROVE  ObjInv' /\ SessKnown'
<1>0. PICK c \in Conns : StartHandler(c) \/ ContinueHandler(c)
  BY DEF Handle
<1>1. CASE Lose(c)
  BY <1>1, QuietKnown, TasksSame DEF Lose
<1>2. CASE MarkCreated(c)
  <2>1. SetTask(c, NoTask) /\ task[c].do = "markCreated" /\ heap' = heap /\ sess' = sess
    BY <1>2 DEF MarkCreated, SetTask
  <2> QED
    BY <2>1, TaskGoesOn, QuietKnown
<1>3. CASE MarkClosed(c)
  <2>1. SetTask(c, NoTask) /\ task[c].do = "markClosed" /\ heap' = heap /\ sess' = sess
    BY <1>3 DEF MarkClosed, SetTask
  <2> QED
    BY <2>1, TaskGoesOn, QuietKnown
<1>4. CASE MarkRecreated(c)
  <2> DEFINE t == [task[c] EXCEPT !.do = "attach"]
  <2>1. SetTask(c, t) /\ heap' = heap /\ sess' = sess
    BY <1>4 DEF MarkRecreated, SetTask
  <2>2. t.at = task[c].at /\ t.do = "attach"
    BY DEF TypeInv, TaskInv, Task
  <2> HIDE DEF t
  <2> QED
    BY <2>1, <2>2, TaskGoesOn, QuietKnown
<1>5. CASE StartHandler(c)
  BY <1>1, <1>5, CreateKnown, RecreateKnown, AttachHandlersKnown, SessionHandlersKnown,
     WrongPasswordKnown DEF StartHandler
<1>6. CASE ContinueHandler(c)
  BY <1>2, <1>3, <1>4, <1>6, AttachHandlersKnown, SessionHandlersKnown DEF ContinueHandler
<1> QED
  BY <1>0, <1>5, <1>6

\* The steps of the sweep, of main and of the persister.
LEMMA OthersKnown ==
  ASSUME TypeInv, KnownInv,
         Sweep \/ Persister \/ Shutdown \/ Tick \/ UNCHANGED vars
         \/ (Main /\ ~Boot /\ ~Exit)
  PROVE  ObjInv' /\ SessKnown'
<1>1. ASSUME NEW id \in RoomIds, SweepRoom(id) PROVE ObjInv' /\ SessKnown'
  <2> DEFINE ref == LiveRef(id)
             rm  == Emptied(Obj(ref))
  <2>1. rooms[id] # NoGen /\ SetObj(ref, rm) /\ UNCHANGED <<task, sess>>
    BY <1>1 DEF SweepRoom, EndRoom
  <2>2. RefIn(heap, ref) /\ ref # NoRef /\ Obj(ref) \in Room
    BY <2>1, LiveRefFacts, ObjFacts
  <2>3. rm \in Room /\ Alike(Obj(ref), rm)
    BY <2>2, EmptiedFacts, UnmarkedAlike
  <2> HIDE DEF ref, rm
  <2> QED
    BY <2>1, <2>2, <2>3, AlikeKnown
<1>2. ASSUME NEW ref \in toShut, ShutdownClose(ref) PROVE ObjInv' /\ SessKnown'
  <2> DEFINE rm == Emptied(Obj(ref))
  <2>1. SetObj(ref, rm) /\ UNCHANGED <<task, sess>>
    BY <1>2 DEF ShutdownClose
  <2>2. RefIn(heap, ref) /\ ref # NoRef /\ Obj(ref) \in Room
    BY ObjFacts DEF TypeInv, MainInv
  <2>3. rm \in Room /\ Alike(Obj(ref), rm)
    BY <2>2, EmptiedFacts, UnmarkedAlike
  <2> HIDE DEF rm
  <2> QED
    BY <2>1, <2>2, <2>3, AlikeKnown
<1>3. ASSUME heap' = heap, sess' = sess, task' = task PROVE ObjInv' /\ SessKnown'
  BY <1>3, QuietKnown, TasksSame
<1>4. CASE SweepMark \/ Shutdown \/ Tick \/ UNCHANGED vars
  BY <1>3, <1>4 DEF SweepMark, Shutdown, Tick, vars, memVars
<1>5. CASE Persister
  BY <1>3, <1>5 DEF Persister, Take, TickerFlush, SeeStop, FinalFlush, Flush, FlushDelete,
         SnapshotLookup, SnapshotRead, FlushSave, persisterRest, memVars
<1>6. CASE Serve \/ ShutdownRemove \/ Stop
  BY <1>3, <1>6 DEF Serve, ShutdownRemove, Stop, memVars
<1>7. ASSUME NEW id \in RoomIds, MarkAllDirty(id) PROVE ObjInv' /\ SessKnown'
  BY <1>3, <1>7 DEF MarkAllDirty, memVars
<1> QED
  BY <1>1, <1>2, <1>4, <1>5, <1>6, <1>7 DEF Sweep, Main

LEMMA PersisterReadable ==
  ASSUME TypeInv, KnownInv, Persister
  PROVE  FileKnown'
<1>0. Readable(NoFile) /\ Readable(holding.data) /\ \A id \in RoomIds : Readable(disk[id])
  BY DEF Readable, KnownInv, FileKnown
<1>1. CASE Take \/ TickerFlush \/ SeeStop \/ FinalFlush
  <2>1. UNCHANGED <<holding, disk>>
    BY <1>1 DEF Take, TickerFlush, SeeStop, FinalFlush
  <2> QED
    BY <1>0, <2>1 DEF FileKnown, Readable
<1>2. ASSUME NEW m \in RoomIds, NEW x, Readable(x), Written(m, x),
             holding' = holding \/ holding' = NoHold
      PROVE  FileKnown'
  <2>1. \A id \in RoomIds : disk'[id] = disk[id] \/ disk'[id] = x
    BY <1>2 DEF Written, TypeInv, DiskInv
  <2>2. \A id \in RoomIds : Readable(disk'[id])
    BY <1>0, <1>2, <2>1
  <2>3. holding'.data = holding.data \/ holding'.data = NoFile
    BY <1>2, NilTypes
  <2>4. Readable(holding'.data)
    BY <1>0, <2>3
  <2> QED
    BY <2>2, <2>4 DEF FileKnown, Readable
<1>3. ASSUME NEW m \in RoomIds, FlushDelete(m) PROVE FileKnown'
  BY <1>0, <1>2, <1>3 DEF FlushDelete
<1>4. ASSUME NEW m \in RoomIds, SnapshotLookup(m) PROVE FileKnown'
  <2>1. disk' = disk /\ holding'.data = NoFile
    BY <1>4 DEF SnapshotLookup
  <2> QED
    BY <1>0, <2>1 DEF FileKnown, Readable
<1>5. CASE SnapshotRead
  <2> DEFINE ref == [id |-> holding.id, gen |-> holding.gen]
             rm  == Obj(ref)
             x   == marshalSnapshot(rm)
  <2>1. holding.gen # NoGen /\ holding'.data = x /\ disk' = disk
    BY <1>5 DEF SnapshotRead
  <2>2. holding.id \in RoomIds /\ holding.gen \in 1..Len(heap[holding.id])
    BY <2>1, NilTypes, PersistenceAssumption DEF TypeInv, LoopInv, HoldOK, Holding, Gens, NoGen
  <2>3. rm = heap[holding.id][holding.gen]
    BY DEF Obj
  <2>4. Fit(holding.id, holding.gen)
    BY <2>2 DEF KnownInv, ObjInv
  <2>5. rm \in Room
    BY <2>2, <2>3 DEF TypeInv, HeapOK, Heaps
  <2>6. Known(rm) \/ Bufferless(rm)
    BY <2>3, <2>4 DEF Fit
  <2> HIDE DEF rm
  <2>7. Alike(x, rm)
    BY <2>5, SnapshotFacts
  <2> HIDE DEF x
  <2>8. Known(x) \/ Bufferless(x)
    BY <2>6, <2>7, AlikeKeeps
  <2> QED
    BY <1>0, <2>1, <2>8 DEF FileKnown, Readable
<1>6. CASE FlushSave
  <2>1. holding.data # NoFile /\ Written(holding.id, holding.data) /\ holding' = NoHold
    BY <1>6 DEF FlushSave
  <2>2. holding.id \in RoomIds
    BY <2>1, NilTypes DEF TypeInv, LoopInv, HoldOK
  <2> QED
    BY <1>0, <1>2, <2>1, <2>2
<1> QED
  BY <1>1, <1>3, <1>4, <1>5, <1>6 DEF Persister, Flush

LEMMA FilesSame ==
  ASSUME KnownInv, Handle \/ Sweep \/ Shutdown \/ Tick \/ UNCHANGED vars
                   \/ (Main /\ ~Boot /\ ~Exit)
  PROVE  FileKnown'
<1>1. UNCHANGED <<holding, disk>>
  BY DEF Handle, Sweep, SweepMark, SweepRoom, Shutdown, Tick, vars, Main, Serve,
         ShutdownRemove, Stop, MarkAllDirty, ShutdownClose, loopVars
<1> QED
  BY <1>1 DEF KnownInv, FileKnown, Readable

\* The process ends: only the files are left.
LEMMA NoProcessKnown ==
  ASSUME KnownInv, NoProcess, disk' = disk
  PROVE  KnownInv'
<1>1. \A id \in RoomIds : Len(heap'[id]) = 0
  BY DEF NoProcess
<1>2. ObjInv'
  BY <1>1 DEF ObjInv
<1>3. SessKnown'
  BY NilTypes DEF SessKnown, NoProcess
<1>4. FileKnown'
  BY NilTypes DEF KnownInv, FileKnown, Readable, NoProcess
<1> QED
  BY <1>2, <1>3, <1>4 DEF KnownInv

\* What Restore builds is known, because of what may be on disk.
LEMMA BootKnown ==
  ASSUME TypeInv, KnownInv, Boot
  PROVE  KnownInv'
<1>1. Blank /\ UNCHANGED <<sess, holding>>
  BY DEF Boot, TypeInv, ClockInv, loopVars
<1>2. \A id \in RoomIds : disk'[id] = disk[id] \/ disk'[id] = NoFile
  BY DEF Boot
<1>3. FileKnown'
  BY <1>1, <1>2 DEF KnownInv, FileKnown, Readable
<1>4. SessKnown'
  BY <1>1, NilTypes DEF Blank, SessKnown
<1>5. ASSUME NEW id \in RoomIds, NEW g \in 1..Len(heap'[id])
      PROVE  Fit(id, g)'
  <2> DEFINE rm == RestoredRoom(disk[id], now)
  <2>1. /\ disk[id] # NoFile /\ Restorable(disk[id], now) /\ heap'[id] = <<rm>>
    <3>1. CASE disk[id] # NoFile /\ Restorable(disk[id], now)
      BY <3>1 DEF Boot
    <3>2. CASE ~(disk[id] # NoFile /\ Restorable(disk[id], now))
      <4>1. heap'[id] = << >>
        BY <3>2 DEF Boot
      <4> QED
        BY <1>5, <4>1
    <3> QED
      BY <3>1, <3>2
  <2>2. disk[id] \in RoomSnapshot /\ now \in Time
    BY <2>1 DEF TypeInv, DiskInv, ClockInv
  <2>3. Known(disk[id])
    BY <2>1 DEF Restorable, KnownInv, FileKnown, Readable, Known, Bufferless
  <2>4. Known(rm)
    BY <2>2, <2>3, RestoredFacts
  <2> HIDE DEF rm
  <2>5. heap'[id][g] = rm
    BY <1>5, <2>1
  <2> QED
    BY <2>4, <2>5 DEF Fit
<1>6. ObjInv'
  BY <1>5 DEF ObjInv
<1> QED
  BY <1>3, <1>4, <1>6 DEF KnownInv

LEMMA NextKnown ==
  ASSUME TypeInv, KnownInv, [Next]_vars
  PROVE  KnownInv'
<1>1. CASE Handle
  BY <1>1, HandleKnown, FilesSame DEF KnownInv
<1>2. CASE Persister
  BY <1>2, OthersKnown, PersisterReadable DEF KnownInv
<1>3. CASE Boot
  BY <1>3, BootKnown
<1>4. CASE Exit \/ Crash
  BY <1>4, NoProcessKnown DEF Exit, Crash
<1>5. CASE Sweep \/ Shutdown \/ Tick \/ UNCHANGED vars \/ (Main /\ ~Boot /\ ~Exit)
  BY <1>5, OthersKnown, FilesSame DEF KnownInv
<1> QED
  BY <1>1, <1>2, <1>3, <1>4, <1>5 DEF Next

-----------------------------------------------------------------------------
(* A crash loses nothing that had settled *)

\* What a crash found settled is on disk, and can be rejoined.
Kept(id) == promised[id] # NoFile =>
              /\ disk[id] \in RoomSnapshot /\ promised[id] \in Room
              /\ Alike(disk[id], promised[id]) /\ Known(disk[id])

PromiseInv == \A id \in RoomIds : /\ Kept(id)
                                  /\ phase # "down" => promised[id] = NoFile

\* Only a crash promises.
LEMMA CrashPromises ==
  ASSUME TypeInv, FileInv, KnownInv, Crash
  PROVE  PromiseInv'
<1> SUFFICES ASSUME NEW id \in RoomIds, promised'[id] # NoFile
             PROVE  /\ disk[id] \in RoomSnapshot /\ promised'[id] \in Room
                    /\ Alike(disk[id], promised'[id]) /\ Known(disk[id])
  BY DEF PromiseInv, Kept, Crash, NoProcess
<1>1. /\ Settled(id) /\ newest[id] = "save" /\ rooms[id] # NoGen
      /\ promised'[id] = Obj(LiveRef(id)) /\ phase # "down"
  BY DEF Crash
<1>2. ~InPipe(id) /\ ~Coming(id) /\ holding.id # id
  BY <1>1, SettledFacts
<1>3. Matches(id, disk[id])
  BY <1>1, <1>2 DEF FileInv, CatchOne
<1>4. /\ disk[id] \in RoomSnapshot /\ Obj(LiveRef(id)) \in Room
      /\ Alike(disk[id], Obj(LiveRef(id)))
  BY <1>1, <1>3, SettledSave
<1>5. Known(Obj(LiveRef(id)))
  <2>1. rooms[id] \in 1..Len(heap[id]) /\ Obj(LiveRef(id)) = heap[id][rooms[id]]
    BY <1>1, LiveRefFacts, ObjFacts DEF Obj
  <2>2. Fit(id, rooms[id])
    BY <2>1 DEF KnownInv, ObjInv
  <2>3. ~Recreating(id, rooms[id])
    BY <1>2 DEF Recreating, Coming
  <2> QED
    BY <2>1, <2>2, <2>3 DEF Fit
<1>6. Known(disk[id])
  BY <1>4, <1>5, AlikeKeeps
<1> QED
  BY <1>1, <1>4, <1>6

LEMMA NextPromise ==
  ASSUME TypeInv, FileInv, KnownInv, PromiseInv, [Next]_vars
  PROVE  PromiseInv'
<1>1. CASE Crash
  BY <1>1, CrashPromises
<1>2. CASE Boot
  BY <1>2 DEF Boot, PromiseInv, Kept
<1>3. CASE UNCHANGED <<promised, phase, disk>>
  BY <1>3 DEF PromiseInv, Kept
<1>4. CASE phase # "down" /\ promised' = promised
  BY <1>4 DEF PromiseInv, Kept
<1>5. CASE Handle
  BY <1>3, <1>5 DEF Handle
<1>6. CASE Sweep
  BY <1>3, <1>6 DEF Sweep, SweepMark, SweepRoom
<1>7. CASE Persister
  <2>1. phase # "down" /\ promised' = promised
    BY <1>7 DEF Persister, Take, TickerFlush, SeeStop, FinalFlush, Flush, FlushDelete,
         SnapshotLookup, SnapshotRead, FlushSave, persisterRest
  <2> QED
    BY <1>4, <2>1
<1>8. CASE (Main /\ ~Boot) \/ Shutdown
  <2>1. phase # "down" /\ promised' = promised
    BY <1>8 DEF Main, Serve, ShutdownRemove, Stop, Exit, MarkAllDirty, ShutdownClose, Shutdown
  <2> QED
    BY <1>4, <2>1
<1>9. CASE Tick \/ UNCHANGED vars
  BY <1>3, <1>9 DEF Tick, vars
<1> QED
  BY <1>1, <1>2, <1>5, <1>6, <1>7, <1>8, <1>9 DEF Next

\* What SurvivesCrash says of one room.
LEMMA BootRestores ==
  ASSUME TypeInv, PromiseInv, Boot, NEW id \in RoomIds,
         promised[id] # NoFile, now < promised[id].expiresAt
  PROVE  /\ rooms'[id] # NoGen
         /\ LET rm == heap'[id][rooms'[id]] IN
              /\ SameButUnmarked(
                   marshalSnapshot(WithDeadline(rm, promised[id].peerDeadlineAt)),
                   promised[id])
              /\ Occupants(rm) = {} /\ rm.releaseAt = NoTime
<1> DEFINE x == disk[id]
           y == promised[id]
           rm == RestoredRoom(x, now)
           w == WithDeadline(rm, y.peerDeadlineAt)
<1>1. x \in RoomSnapshot /\ y \in Room /\ Alike(x, y) /\ Known(x) /\ now \in Time
  BY DEF PromiseInv, Kept, TypeInv, ClockInv
<1>2. x # NoFile /\ Restorable(x, now)
  BY <1>1, NoFileAssumption DEF Alike, Known, Restorable
<1>3. rooms'[id] = 1 /\ heap'[id] = <<rm>>
  BY <1>2 DEF Boot
<1>4. w \in Room /\ Alike(w, y) /\ Occupants(rm) = {} /\ rm.releaseAt = NoTime
  BY <1>1, RestoredFacts
<1> HIDE DEF rm, w, y
<1>5. heap'[id][rooms'[id]] = rm
  BY <1>3
<1>6. marshalSnapshot(w) \in RoomSnapshot /\ Alike(marshalSnapshot(w), w)
  BY <1>4, SnapshotFacts
<1>7. Alike(marshalSnapshot(w), y)
  BY <1>1, <1>4, <1>6, AlikeTrans
<1>8. SameButUnmarked(marshalSnapshot(w), y)
  BY <1>1, <1>6, <1>7, SameIsAlike
<1> QED
  BY <1>3, <1>4, <1>5, <1>8 DEF w, y, NoGen

LEMMA OnlyBoot ==
  ASSUME Next, phase = "down", phase' = "booting"
  PROVE  Boot
BY DEF Next, Handle, Sweep, SweepMark, SweepRoom, Handling, Persister, Take, TickerFlush,
       SeeStop, FinalFlush, Flush, FlushDelete, SnapshotLookup, SnapshotRead, FlushSave, Main,
       Serve, ShutdownRemove, Stop, Exit, MarkAllDirty, ShutdownClose, Shutdown, Crash, Tick

\* SurvivesCrash: whatever was settled when the process crashed, the next one
\* restores: the room, both epochs, the reports and the buffered signals, with
\* nobody in it and no release scheduled (snapshot.go, Restore).
THEOREM CrashSurvived == Spec => SurvivesCrash
<1> DEFINE Inv == TypeInv /\ FileInv /\ KnownInv /\ PromiseInv
           Step == phase = "down" /\ phase' = "booting" =>
             \A id \in RoomIds :
               promised[id] # NoFile /\ now < promised[id].expiresAt =>
                 /\ rooms'[id] # NoGen
                 /\ LET rm == heap'[id][rooms'[id]] IN
                      /\ SameButUnmarked(
                           marshalSnapshot(WithDeadline(rm, promised[id].peerDeadlineAt)),
                           promised[id])
                      /\ Occupants(rm) = {} /\ rm.releaseAt = NoTime
<1>1. Init => Inv
  <2> SUFFICES ASSUME Init PROVE Inv
    OBVIOUS
  <2>1. TypeInv /\ FileInv
    BY InitTypes DEF Init, FileInv
  <2>2. ObjInv
    <3>1. \A id \in RoomIds : Len(heap[id]) = 0
      BY DEF Init
    <3> QED
      BY <3>1 DEF ObjInv
  <2>3. SessKnown /\ FileKnown
    BY NilTypes DEF Init, SessKnown, FileKnown, Readable
  <2>4. PromiseInv
    BY DEF Init, PromiseInv, Kept
  <2> QED
    BY <2>1, <2>2, <2>3, <2>4 DEF KnownInv
<1>2. Inv /\ [Next]_vars => Inv'
  BY NextTypes, NextFiles, NextKnown, NextPromise
<1>3. Inv /\ [Next]_vars => [Step]_vars
  BY OnlyBoot, BootRestores
<1>4. Spec => [][Step]_vars
  BY <1>1, <1>2, <1>3, PTL DEF Spec
<1> QED
  BY <1>4 DEF SurvivesCrash
=============================================================================
