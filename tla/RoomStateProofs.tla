-------------------------- MODULE RoomStateProofs --------------------------
(***************************************************************************)
(* Lemmas on the operators of RoomState: each takes a Room to a Room, and  *)
(* each changes who is in the slots in the way stated, and in no other.    *)
(* The proofs about the registry use these lemmas and do not open the      *)
(* operators again.                                                        *)
(***************************************************************************)
EXTENDS RoomState, TLAPS

\* The buffer of each slot is within both limits.
BuffersBounded(rm) ==
  \A r \in Role : /\ Len(rm.slots[r].buffer) <= MaxBufferedSignals
                  /\ rm.slots[r].bufferBytes <= MaxBufferedSignalBytes

OptConn == Conns \union {NoConn}

\* The other slot is another slot.
LEMMA OtherRole == \A r \in Role : Other(r) \in Role /\ Other(r) # r
BY DEF Role, Other

\* Deadlines are instants, never nil.
LEMMA DeadlineTypes ==
  /\ \A t, u \in Time : computeExpiresAt(t, u) \in Time
  /\ \A t, u \in Time : computePeerDeadline(t, u) \in Time
BY RoomStateAssumption DEF Time, computeExpiresAt, computePeerDeadline, Earlier

-----------------------------------------------------------------------------
(* Slots *)

\* An empty slot is a slot.
LEMMA EmptySlotType == EmptySlot \in Slot
BY RoomStateAssumption DEF EmptySlot, Slot, OptEpoch

\* Attaching gives the slot its connection and its epoch.
LEMMA SeatedFacts ==
  ASSUME NEW s \in Slot, NEW c \in Conns, NEW e \in OptEpoch
  PROVE  /\ Seated(s, c, e) \in Slot
         /\ Seated(s, c, e).conn = c
         /\ Seated(s, c, e).buffer = s.buffer
         /\ Seated(s, c, e).bufferBytes = s.bufferBytes
BY DEF Seated, Slot

\* Leaving empties it.
LEMMA UnseatedFacts ==
  ASSUME NEW s \in Slot
  PROVE  /\ Unseated(s) \in Slot
         /\ Unseated(s).conn = NoConn
         /\ Unseated(s).buffer = s.buffer
         /\ Unseated(s).bufferBytes = s.bufferBytes
BY DEF Unseated, Slot

\* A reset clears the buffer and keeps the occupant.
LEMMA ResetSlotFacts ==
  ASSUME NEW s \in Slot
  PROVE  /\ ResetSlot(s) \in Slot
         /\ ResetSlot(s).conn = s.conn
         /\ ResetSlot(s).buffer = << >>
         /\ ResetSlot(s).bufferBytes = 0
<1>1. s.conn \in OptConn /\ s.epoch \in OptEpoch
  BY DEF Slot, OptConn
<1>2. ResetSlot(s) \in Slot
  BY <1>1, EmptySlotType DEF ResetSlot, Slot, OptConn
<1>3. ResetSlot(s).conn = s.conn
  BY EmptySlotType DEF ResetSlot, Slot
<1>4. EmptySlot.buffer = << >> /\ EmptySlot.bufferBytes = 0
  BY DEF EmptySlot
<1>5. /\ ResetSlot(s).buffer = EmptySlot.buffer
      /\ ResetSlot(s).bufferBytes = EmptySlot.bufferBytes
  BY EmptySlotType DEF ResetSlot, Slot
<1> QED
  BY <1>2, <1>3, <1>4, <1>5

-----------------------------------------------------------------------------
(* Rooms *)

\* Replacing a slot changes that slot only.
LEMMA WithSlotFacts ==
  ASSUME NEW rm \in Room, NEW r \in Role, NEW s \in Slot
  PROVE  /\ WithSlot(rm, r, s) \in Room
         /\ WithSlot(rm, r, s).slots = [rm.slots EXCEPT ![r] = s]
         /\ WithSlot(rm, r, s).id = rm.id
         /\ WithSlot(rm, r, s).expiresAt = rm.expiresAt
BY DEF WithSlot, Room

\* Setting the deadline changes no slot.
LEMMA WithDeadlineFacts ==
  ASSUME NEW rm \in Room, NEW d \in OptTime
  PROVE  /\ WithDeadline(rm, d) \in Room
         /\ WithDeadline(rm, d).slots = rm.slots
         /\ WithDeadline(rm, d).id = rm.id
BY DEF WithDeadline, Room

\* What a slot of a room is.
LEMMA SlotOf ==
  ASSUME NEW rm \in Room, NEW r \in Role
  PROVE  rm.slots[r] \in Slot /\ rm.slots[r].conn \in OptConn
BY DEF Room, Slot, OptConn

\* A new room is empty.
LEMMA NewRoomFacts ==
  ASSUME NEW id \in RoomIds, NEW ip \in IPs, NEW u \in Time, NEW t \in Time,
         NEW pw \in BOOLEAN
  PROVE  /\ NewRoom(id, ip, u, t, pw) \in Room
         /\ \A r \in Role : NewRoom(id, ip, u, t, pw).slots[r].conn = NoConn
         /\ BuffersBounded(NewRoom(id, ip, u, t, pw))
<1>1. computeExpiresAt(t, u) \in Time
  BY DeadlineTypes
<1>2. computePeerDeadline(t, computeExpiresAt(t, u)) \in Time
  BY <1>1, DeadlineTypes
<1>3. NewRoom(id, ip, u, t, pw) \in Room
  BY <1>1, <1>2, EmptySlotType DEF NewRoom, Room, OptTime
<1>4. \A r \in Role : NewRoom(id, ip, u, t, pw).slots[r] = EmptySlot
  BY DEF NewRoom
<1> QED
  BY <1>3, <1>4, RoomStateAssumption DEF EmptySlot, BuffersBounded

\* The host takes its seat.
LEMMA HostAttachedFacts ==
  ASSUME NEW rm \in Room, NEW c \in Conns, NEW e \in Epochs
  PROVE  /\ HostAttached(rm, c, e) \in Room
         /\ HostAttached(rm, c, e).slots["host"].conn = c
         /\ HostAttached(rm, c, e).slots["guest"].conn = rm.slots["guest"].conn
         /\ BuffersBounded(rm) => BuffersBounded(HostAttached(rm, c, e))
<1> DEFINE s == Seated(rm.slots["host"], c, e)
<1>1. /\ s \in Slot
      /\ s.conn = c
      /\ s.buffer = rm.slots["host"].buffer
      /\ s.bufferBytes = rm.slots["host"].bufferBytes
  BY SeatedFacts, SlotOf DEF Role, OptEpoch
<1>2. /\ HostAttached(rm, c, e) \in Room
      /\ HostAttached(rm, c, e).slots = [rm.slots EXCEPT !["host"] = s]
  BY <1>1, WithSlotFacts DEF HostAttached, Role
<1> HIDE DEF s
<1> QED
  BY <1>1, <1>2 DEF Role, Room, BuffersBounded

\* The guest takes its seat.
LEMMA GuestAttachedFacts ==
  ASSUME NEW rm \in Room, NEW c \in Conns, NEW e \in Epochs
  PROVE  /\ GuestAttached(rm, c, e) \in Room
         /\ GuestAttached(rm, c, e).slots["guest"].conn = c
         /\ GuestAttached(rm, c, e).slots["host"].conn = rm.slots["host"].conn
         /\ BuffersBounded(rm) => BuffersBounded(GuestAttached(rm, c, e))
<1> DEFINE s == Seated(rm.slots["guest"], c, e)
<1>1. /\ s \in Slot
      /\ s.conn = c
      /\ s.buffer = rm.slots["guest"].buffer
      /\ s.bufferBytes = rm.slots["guest"].bufferBytes
  BY SeatedFacts, SlotOf DEF Role, OptEpoch
<1>2. /\ WithSlot(rm, "guest", s) \in Room
      /\ WithSlot(rm, "guest", s).slots = [rm.slots EXCEPT !["guest"] = s]
  BY <1>1, WithSlotFacts DEF Role
<1>3. /\ GuestAttached(rm, c, e) \in Room
      /\ GuestAttached(rm, c, e).slots = [rm.slots EXCEPT !["guest"] = s]
  BY <1>2, WithDeadlineFacts DEF GuestAttached, OptTime
<1> HIDE DEF s
<1> QED
  BY <1>1, <1>3 DEF Role, Room, BuffersBounded

\* A wrong guess touches no slot.
LEMMA GuessedWrongFacts ==
  ASSUME NEW rm \in Room
  PROVE  /\ GuessedWrong(rm) \in Room
         /\ GuessedWrong(rm).slots = rm.slots
         /\ GuessedWrong(rm).id = rm.id
BY DEF GuessedWrong, Room

\* The rejoining connection takes its seat and leaves the other as it is.
LEMMA RejoinedFacts ==
  ASSUME NEW rm \in Room, NEW r \in Role, NEW c \in Conns, NEW e \in Epochs,
         NEW b \in BOOLEAN, NEW t \in Time
  PROVE  /\ Rejoined(rm, r, c, e, b, t) \in Room
         /\ Rejoined(rm, r, c, e, b, t).slots[r].conn = c
         /\ Rejoined(rm, r, c, e, b, t).slots[Other(r)].conn
              = rm.slots[Other(r)].conn
         /\ BuffersBounded(rm) => BuffersBounded(Rejoined(rm, r, c, e, b, t))
<1> DEFINE changed == EpochChanged(rm, r, e, b)
           there   == Occupied(rm, Other(r))
           base    == IF changed THEN ResetSlot(rm.slots[r]) ELSE rm.slots[r]
           mine    == Seated(base, c, e)
           other   == IF changed /\ there THEN ResetSlot(rm.slots[Other(r)])
                      ELSE rm.slots[Other(r)]
           d       == IF there THEN NoTime
                      ELSE computePeerDeadline(t, rm.expiresAt)
<1>0. Other(r) \in Role /\ Other(r) # r
  BY OtherRole
<1>1. /\ base \in Slot
      /\ \/ base.buffer = << >> /\ base.bufferBytes = 0
         \/ base.buffer = rm.slots[r].buffer /\ base.bufferBytes = rm.slots[r].bufferBytes
  BY SlotOf, ResetSlotFacts
<1>2. /\ other \in Slot
      /\ other.conn = rm.slots[Other(r)].conn
      /\ \/ other.buffer = << >> /\ other.bufferBytes = 0
         \/ /\ other.buffer = rm.slots[Other(r)].buffer
            /\ other.bufferBytes = rm.slots[Other(r)].bufferBytes
  BY <1>0, SlotOf, ResetSlotFacts
<1>3. d \in OptTime
  BY DeadlineTypes DEF OptTime, Room
<1> HIDE DEF base, other, d
<1>4. /\ mine \in Slot
      /\ mine.conn = c
      /\ mine.buffer = base.buffer
      /\ mine.bufferBytes = base.bufferBytes
  BY <1>1, SeatedFacts DEF OptEpoch
<1> HIDE DEF mine
<1> DEFINE rm1 == WithSlot(rm, r, mine)
           rm2 == WithSlot(rm1, Other(r), other)
<1>5. rm1 \in Room /\ rm1.slots = [rm.slots EXCEPT ![r] = mine]
  BY <1>4, WithSlotFacts
<1> HIDE DEF rm1
<1>6. rm2 \in Room /\ rm2.slots = [rm1.slots EXCEPT ![Other(r)] = other]
  BY <1>0, <1>2, <1>5, WithSlotFacts
<1> HIDE DEF rm2
<1>7. Rejoined(rm, r, c, e, b, t) = WithDeadline(rm2, d)
  BY DEF Rejoined, rm2, rm1, mine, base, other, d
<1>8. /\ Rejoined(rm, r, c, e, b, t) \in Room
      /\ Rejoined(rm, r, c, e, b, t).slots
           = [rm.slots EXCEPT ![r] = mine, ![Other(r)] = other]
  BY <1>3, <1>5, <1>6, <1>7, WithDeadlineFacts
<1>9. /\ Rejoined(rm, r, c, e, b, t).slots[r] = mine
      /\ Rejoined(rm, r, c, e, b, t).slots[Other(r)] = other
  BY <1>0, <1>8 DEF Room
<1>10. ASSUME BuffersBounded(rm)
       PROVE  BuffersBounded(Rejoined(rm, r, c, e, b, t))
  <2>1. \A q \in Role : q = r \/ q = Other(r)
    BY DEF Role, Other
  <2>2. Len(<< >>) = 0
    OBVIOUS
  <2> QED
    BY <1>0, <1>1, <1>2, <1>4, <1>9, <1>10, <2>1, <2>2, RoomStateAssumption
    DEF BuffersBounded
<1> QED
  BY <1>2, <1>4, <1>8, <1>9, <1>10

\* An accepted signal moves nobody.
LEMMA AcceptedFacts ==
  ASSUME NEW rm \in Room, NEW r \in Role, NEW n \in 1..MaxSeq
  PROVE  /\ Accepted(rm, r, n) \in Room
         /\ Accepted(rm, r, n).slots[Other(r)] = rm.slots[Other(r)]
         /\ \A q \in Role :
              /\ Accepted(rm, r, n).slots[q].conn = rm.slots[q].conn
              /\ Accepted(rm, r, n).slots[q].buffer = rm.slots[q].buffer
              /\ Accepted(rm, r, n).slots[q].bufferBytes = rm.slots[q].bufferBytes
<1> DEFINE s == [rm.slots[r] EXCEPT !.lastSeq = n]
<1>1. n \in 0..MaxSeq
  BY RoomStateAssumption
<1>2. /\ s \in Slot
      /\ s.conn = rm.slots[r].conn
      /\ s.buffer = rm.slots[r].buffer
      /\ s.bufferBytes = rm.slots[r].bufferBytes
  BY <1>1, SlotOf DEF Slot
<1> HIDE DEF s
<1>3. /\ Accepted(rm, r, n) \in Room
      /\ Accepted(rm, r, n).slots = [rm.slots EXCEPT ![r] = s]
  BY <1>2, WithSlotFacts DEF Accepted, s
<1> QED
  BY <1>2, <1>3, OtherRole DEF Room

\* An overflow empties the buffer of the absent side.
LEMMA OverflowedFacts ==
  ASSUME NEW rm \in Room, NEW r \in Role, NEW n \in 1..MaxSeq
  PROVE  /\ Overflowed(rm, r, n) \in Room
         /\ \A q \in Role : Overflowed(rm, r, n).slots[q].conn = rm.slots[q].conn
         /\ BuffersBounded(rm) => BuffersBounded(Overflowed(rm, r, n))
<1> DEFINE acc == Accepted(rm, r, n)
           s   == [rm.slots[Other(r)] EXCEPT !.buffer = << >>, !.bufferBytes = 0,
                                             !.overflowReset = TRUE]
<1>0. Other(r) \in Role /\ Other(r) # r
  BY OtherRole
<1>1. << >> \in Seq(BufferedSignal) /\ Len(<< >>) = 0
  OBVIOUS
<1>2. /\ s \in Slot
      /\ s.conn = rm.slots[Other(r)].conn
      /\ s.buffer = << >>
      /\ s.bufferBytes = 0
  BY <1>0, <1>1, SlotOf DEF Slot
<1>3. /\ acc \in Room
      /\ \A q \in Role : /\ acc.slots[q].conn = rm.slots[q].conn
                         /\ acc.slots[q].buffer = rm.slots[q].buffer
                         /\ acc.slots[q].bufferBytes = rm.slots[q].bufferBytes
  BY AcceptedFacts
<1> HIDE DEF s, acc
<1>4. /\ Overflowed(rm, r, n) \in Room
      /\ Overflowed(rm, r, n).slots = [acc.slots EXCEPT ![Other(r)] = s]
  BY <1>0, <1>2, <1>3, WithSlotFacts DEF Overflowed, s, acc
<1>5. \A q \in Role : Overflowed(rm, r, n).slots[q] =
        IF q = Other(r) THEN s ELSE acc.slots[q]
  BY <1>3, <1>4 DEF Room
<1> QED
  BY <1>1, <1>2, <1>3, <1>4, <1>5, RoomStateAssumption DEF BuffersBounded

\* A signal is buffered only where BufferFull says it fits.
LEMMA BufferedFacts ==
  ASSUME NEW rm \in Room, NEW r \in Role, NEW n \in 1..MaxSeq, NEW z \in Sizes
  PROVE  /\ Buffered(rm, r, n, z) \in Room
         /\ \A q \in Role : Buffered(rm, r, n, z).slots[q].conn = rm.slots[q].conn
         /\ BuffersBounded(rm) /\ ~BufferFull(rm.slots[Other(r)], z)
              => BuffersBounded(Buffered(rm, r, n, z))
<1> DEFINE acc == Accepted(rm, r, n)
           old == rm.slots[Other(r)]
           bs  == [fromEpoch |-> rm.slots[r].epoch, seq |-> n, size |-> z]
           buf == Append(old.buffer, bs)
           s   == [old EXCEPT !.buffer = buf, !.bufferBytes = old.bufferBytes + z]
<1>0. Other(r) \in Role /\ Other(r) # r
  BY OtherRole
<1>1. bs \in BufferedSignal
  BY SlotOf DEF Slot, BufferedSignal
<1>2. old \in Slot /\ old.buffer \in Seq(BufferedSignal) /\ old.bufferBytes \in Nat
  BY <1>0, SlotOf DEF Slot
<1> HIDE DEF bs, old
<1>3. buf \in Seq(BufferedSignal) /\ Len(buf) = Len(old.buffer) + 1
  BY <1>1, <1>2
<1>4. z \in Nat /\ old.bufferBytes + z \in Nat
  BY <1>2, RoomStateAssumption
<1> HIDE DEF buf
<1>5. /\ s \in Slot
      /\ s.conn = old.conn
      /\ s.buffer = buf
      /\ s.bufferBytes = old.bufferBytes + z
  BY <1>2, <1>3, <1>4 DEF Slot
<1>6. /\ acc \in Room
      /\ \A q \in Role : /\ acc.slots[q].conn = rm.slots[q].conn
                         /\ acc.slots[q].buffer = rm.slots[q].buffer
                         /\ acc.slots[q].bufferBytes = rm.slots[q].bufferBytes
  BY AcceptedFacts
<1> HIDE DEF s, acc
<1>7. Buffered(rm, r, n, z) = WithSlot(acc, Other(r), s)
  BY DEF Buffered, s, acc, buf, bs, old
<1>8. /\ Buffered(rm, r, n, z) \in Room
      /\ Buffered(rm, r, n, z).slots = [acc.slots EXCEPT ![Other(r)] = s]
  BY <1>0, <1>5, <1>6, <1>7, WithSlotFacts
<1>9. \A q \in Role : Buffered(rm, r, n, z).slots[q] =
        IF q = Other(r) THEN s ELSE acc.slots[q]
  BY <1>6, <1>8 DEF Room
<1>10. \A q \in Role : Buffered(rm, r, n, z).slots[q].conn = rm.slots[q].conn
  BY <1>5, <1>6, <1>9 DEF old
<1>11. ASSUME BuffersBounded(rm), ~BufferFull(old, z)
       PROVE  BuffersBounded(Buffered(rm, r, n, z))
  <2>1. Len(buf) <= MaxBufferedSignals
    BY <1>2, <1>3, <1>11, RoomStateAssumption DEF BufferFull
  <2>2. old.bufferBytes + z <= MaxBufferedSignalBytes
    BY <1>2, <1>4, <1>11, RoomStateAssumption DEF BufferFull
  <2> QED
    BY <1>5, <1>6, <1>9, <1>11, <2>1, <2>2 DEF BuffersBounded
<1> QED
  BY <1>8, <1>10, <1>11 DEF old

\* A report moves nobody.
LEMMA ReportedFacts ==
  ASSUME NEW rm \in Room, NEW r \in Role, NEW t \in Time
  PROVE  /\ Reported(rm, r, t) \in Room
         /\ \A q \in Role : Reported(rm, r, t).slots[q].conn = rm.slots[q].conn
         /\ BuffersBounded(rm) => BuffersBounded(Reported(rm, r, t))
<1> DEFINE s   == [rm.slots[r] EXCEPT !.reportedConnected = TRUE]
           rm1 == WithSlot(rm, r, s)
           both == rm.slots[Other(r)].reportedConnected
           d   == IF both /\ ReleaseSocketsOnPeerConnected
                  THEN t + PeerConnectedGrace ELSE rm1.releaseAt
<1>1. /\ s \in Slot
      /\ s.conn = rm.slots[r].conn
      /\ s.buffer = rm.slots[r].buffer
      /\ s.bufferBytes = rm.slots[r].bufferBytes
  BY SlotOf DEF Slot
<1>2. rm1 \in Room /\ rm1.slots = [rm.slots EXCEPT ![r] = s]
  BY <1>1, WithSlotFacts
<1> HIDE DEF s, rm1
<1>3. d \in OptTime
  BY <1>2, RoomStateAssumption DEF OptTime, Time, Room
<1>4. Reported(rm, r, t) = [rm1 EXCEPT !.releaseAt = d]
  BY DEF Reported, rm1, s
<1> HIDE DEF d
<1>5. Reported(rm, r, t) \in Room /\ Reported(rm, r, t).slots = rm1.slots
  BY <1>2, <1>3, <1>4 DEF Room
<1>6. \A q \in Role : Reported(rm, r, t).slots[q] = IF q = r THEN s ELSE rm.slots[q]
  BY <1>2, <1>5 DEF Room
<1> QED
  BY <1>1, <1>5, <1>6 DEF BuffersBounded

\* Only the connection that leaves loses its seat.
LEMMA VacatedFacts ==
  ASSUME NEW rm \in Room, NEW r \in Role, NEW c \in Conns
  PROVE  /\ Vacated(rm, r, c) \in Room
         /\ Vacated(rm, r, c).expiresAt = rm.expiresAt
         /\ \A q \in Role : Vacated(rm, r, c).slots[q].conn =
              IF q = r /\ rm.slots[q].conn = c THEN NoConn ELSE rm.slots[q].conn
         /\ BuffersBounded(rm) => BuffersBounded(Vacated(rm, r, c))
<1> DEFINE s == Unseated(rm.slots[r])
<1>1. /\ s \in Slot
      /\ s.conn = NoConn
      /\ s.buffer = rm.slots[r].buffer
      /\ s.bufferBytes = rm.slots[r].bufferBytes
  BY SlotOf, UnseatedFacts
<1>2. /\ WithSlot(rm, r, s) \in Room
      /\ WithSlot(rm, r, s).slots = [rm.slots EXCEPT ![r] = s]
      /\ WithSlot(rm, r, s).expiresAt = rm.expiresAt
  BY <1>1, WithSlotFacts
<1>3. Vacated(rm, r, c) = IF rm.slots[r].conn = c THEN WithSlot(rm, r, s) ELSE rm
  BY DEF Vacated
<1> HIDE DEF s
<1>4. \A q \in Role : WithSlot(rm, r, s).slots[q] = IF q = r THEN s ELSE rm.slots[q]
  BY <1>2 DEF Room
<1> QED
  BY <1>1, <1>2, <1>3, <1>4 DEF BuffersBounded

\* The same of Detach's whole section.
LEMMA DetachedFacts ==
  ASSUME NEW rm \in Room, NEW r \in Role, NEW c \in Conns, NEW t \in Time
  PROVE  /\ Detached(rm, r, c, t) \in Room
         /\ \A q \in Role : Detached(rm, r, c, t).slots[q].conn =
              IF q = r /\ rm.slots[q].conn = c THEN NoConn ELSE rm.slots[q].conn
         /\ BuffersBounded(rm) => BuffersBounded(Detached(rm, r, c, t))
<1>1. computePeerDeadline(t, rm.expiresAt) \in OptTime
  BY DeadlineTypes DEF Room, OptTime
<1>2. /\ Detached(rm, r, c, t) \in Room
      /\ Detached(rm, r, c, t).slots = Vacated(rm, r, c).slots
  BY <1>1, VacatedFacts, WithDeadlineFacts DEF Detached
<1>3. \A q \in Role : Vacated(rm, r, c).slots[q].conn =
        IF q = r /\ rm.slots[q].conn = c THEN NoConn ELSE rm.slots[q].conn
  BY VacatedFacts
<1>4. BuffersBounded(rm) => BuffersBounded(Vacated(rm, r, c))
  BY VacatedFacts
<1> QED
  BY <1>2, <1>3, <1>4 DEF BuffersBounded

\* An ended room holds nobody.
LEMMA EmptiedFacts ==
  ASSUME NEW rm \in Room
  PROVE  /\ Emptied(rm) \in Room
         /\ \A q \in Role : Emptied(rm).slots[q].conn = NoConn
         /\ BuffersBounded(rm) => BuffersBounded(Emptied(rm))
<1>1. \A q \in Role : /\ Unseated(rm.slots[q]) \in Slot
                      /\ Unseated(rm.slots[q]).conn = NoConn
                      /\ Unseated(rm.slots[q]).buffer = rm.slots[q].buffer
                      /\ Unseated(rm.slots[q]).bufferBytes = rm.slots[q].bufferBytes
  BY SlotOf, UnseatedFacts
<1> DEFINE f == [q \in Role |-> Unseated(rm.slots[q])]
<1>2. f \in [Role -> Slot] /\ \A q \in Role : f[q] = Unseated(rm.slots[q])
  BY <1>1
<1> HIDE DEF f
<1>3. Emptied(rm) \in Room /\ Emptied(rm).slots = f
  <2>1. Emptied(rm) = [rm EXCEPT !.slots = f]
    BY DEF Emptied, f
  <2> QED
    BY <1>2, <2>1 DEF Room
<1> QED
  BY <1>1, <1>2, <1>3 DEF BuffersBounded

=============================================================================
