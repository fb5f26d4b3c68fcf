----------------------------- MODULE RoomState -----------------------------
(***************************************************************************)
(* The Room and Slot structs of server/internal/room/room.go and what each *)
(* room.mu critical section of handlers.go computes on them.  Everything   *)
(* here is a pure operator on a Room record; RoomRegistry runs them as     *)
(* steps.  The TURN credential cache is left out: no handler branches on   *)
(* it except through an error return, which RoomRegistry keeps.            *)
(***************************************************************************)
EXTENDS Integers, Sequences

CONSTANTS
  Conns,                   \* connections (one Session and one wsConn each)
  NoConn,                  \* slot.conn == nil
  Epochs,                  \* epoch strings a client may send
  NoEpoch,                 \* slot.epoch == "": never occupied
  RoomIds,                 \* canonical room ids
  IPs,                     \* client addresses
  MaxSeq,                  \* bound: sequence numbers a client sends are 1..MaxSeq
  Sizes,                   \* encoded sizes of a signal's data
  MaxBufferedSignals,      \* cfg.MaxBufferedSignals
  MaxBufferedSignalBytes,  \* cfg.MaxBufferedSignalBytes
  PeerDeadline,            \* cfg.PeerDeadline
  RoomMaxLifetime,         \* cfg.RoomMaxLifetime
  RejoinTokenTtl,          \* cfg.RejoinTokenTtl
  PeerConnectedGrace,      \* cfg.PeerConnectedGrace
  ReleaseSocketsOnPeerConnected   \* cfg flag

ASSUME RoomStateAssumption ==
  /\ NoConn \notin Conns
  /\ RoomIds # {}
  /\ IPs # {}
  /\ NoEpoch \notin Epochs
  /\ MaxSeq \in Nat
  /\ Sizes \subseteq Nat
  /\ MaxBufferedSignals \in Nat
  /\ MaxBufferedSignalBytes \in Nat
  /\ PeerDeadline \in Nat \ {0}
  /\ RoomMaxLifetime \in Nat \ {0}
  /\ RejoinTokenTtl \in Nat \ {0}
  /\ PeerConnectedGrace \in Nat
  /\ ReleaseSocketsOnPeerConnected \in BOOLEAN

Role == {"host", "guest"}

Other(role) == IF role = "host" THEN "guest" ELSE "host"

NoTime == -1    \* a nil *time.Time

Time == Nat

OptTime == Time \union {NoTime}

OptEpoch == Epochs \union {NoEpoch}

BufferedSignal == [fromEpoch : OptEpoch, seq : 1..MaxSeq, size : Sizes]

Slot == [conn : Conns \union {NoConn},
         epoch : OptEpoch,
         reportedConnected : BOOLEAN,
         lastSeq : 0..MaxSeq,
         buffer : Seq(BufferedSignal),
         bufferBytes : Nat,
         overflowReset : BOOLEAN]

Room == [id : RoomIds,
         ownerIP : IPs,
         createdAt : Time,
         expiresAt : Time,
         peerDeadlineAt : OptTime,
         releaseAt : OptTime,
         password : BOOLEAN,
         passwordAttempts : Nat,
         slots : [Role -> Slot]]

EmptySlot == [conn |-> NoConn, epoch |-> NoEpoch, reportedConnected |-> FALSE,
              lastSeq |-> 0, buffer |-> << >>, bufferBytes |-> 0,
              overflowReset |-> FALSE]

-----------------------------------------------------------------------------
(* Deadlines *)

Earlier(a, b) == IF b < a THEN b ELSE a

computeExpiresAt(instantiatedAt, createdAt) ==
  Earlier(instantiatedAt + RoomMaxLifetime, createdAt + RejoinTokenTtl)

computePeerDeadline(t, expiresAt) == Earlier(t + PeerDeadline, expiresAt)

\* !now.Before(d) for a non-nil deadline d
Reached(d, t) == d # NoTime /\ t >= d

-----------------------------------------------------------------------------
(* The sections *)

\* The literal both CreateRoom and the recreate path of RejoinRoom build: two
\* empty slots and a peer deadline.
NewRoom(id, ip, createdAt, t, pw) ==
  LET exp == computeExpiresAt(t, createdAt)
  IN  [id |-> id, ownerIP |-> ip, createdAt |-> createdAt, expiresAt |-> exp,
       peerDeadlineAt |-> computePeerDeadline(t, exp), releaseAt |-> NoTime,
       password |-> pw, passwordAttempts |-> 0,
       slots |-> [r \in Role |-> EmptySlot]]

\* What a changed epoch resets in a slot: all but who is in it.
ResetSlot(s) == [EmptySlot EXCEPT !.conn = s.conn, !.epoch = s.epoch]

Occupied(rm, role) == rm.slots[role].conn # NoConn

Occupants(rm) == {rm.slots[r].conn : r \in Role} \ {NoConn}

WithSlot(rm, role, s) == [rm EXCEPT !.slots[role] = s]

WithDeadline(rm, d) == [rm EXCEPT !.peerDeadlineAt = d]

\* The connection and the epoch an attach writes.
Seated(s, c, e) == [s EXCEPT !.conn = c, !.epoch = e]

\* CreateRoom puts the host in its slot before the room is published.
HostAttached(rm, c, e) ==
  WithSlot(rm, "host", Seated(rm.slots["host"], c, e))

\* Mutant: the epoch of a joining guest is not recorded.
GuestAttached_KeepsEpoch(rm, c, e) ==
  LET s == rm.slots["guest"]
  IN  WithDeadline(WithSlot(rm, "guest", Seated(s, c, s.epoch)), NoTime)

\* JoinRoom's attach: the connection, the epoch and the deadline, and no other
\* field of the slot.
GuestAttached(rm, c, e) ==
  WithDeadline(WithSlot(rm, "guest", Seated(rm.slots["guest"], c, e)), NoTime)

\* A wrong guest password.
GuessedWrong(rm) == [rm EXCEPT !.passwordAttempts = @ + 1]

EpochChanged(rm, role, e, recreated) ==
  recreated \/ rm.slots[role].epoch # e

\* RejoinRoom's attach.  A changed epoch resets the rejoining slot, and the
\* other slot too when somebody is in it to be told.
Rejoined(rm, role, c, e, recreated, t) ==
  LET changed == EpochChanged(rm, role, e, recreated)
      there   == Occupied(rm, Other(role))
      Reset(s, cond) == IF cond THEN ResetSlot(s) ELSE s
      mine    == Seated(Reset(rm.slots[role], changed), c, e)
      other   == Reset(rm.slots[Other(role)], changed /\ there)
  IN  WithDeadline(WithSlot(WithSlot(rm, role, mine), Other(role), other),
                   IF there THEN NoTime
                   ELSE computePeerDeadline(t, rm.expiresAt))

\* Mutant: both limits off by one.
BufferFull_OffByOne(s, size) ==
  \/ Len(s.buffer) > MaxBufferedSignals
  \/ s.bufferBytes + size > MaxBufferedSignalBytes + 1

\* Signal: the buffer of the absent receiver is at one of its limits.
BufferFull(s, size) ==
  \/ Len(s.buffer) >= MaxBufferedSignals
  \/ s.bufferBytes + size > MaxBufferedSignalBytes

Accepted(rm, role, seq) ==
  WithSlot(rm, role, [rm.slots[role] EXCEPT !.lastSeq = seq])

Overflowed(rm, role, seq) ==
  WithSlot(Accepted(rm, role, seq), Other(role),
           [rm.slots[Other(role)] EXCEPT !.buffer = << >>, !.bufferBytes = 0,
                                         !.overflowReset = TRUE])

Buffered(rm, role, seq, size) ==
  LET bs == [fromEpoch |-> rm.slots[role].epoch, seq |-> seq, size |-> size]
  IN  WithSlot(Accepted(rm, role, seq), Other(role),
               [rm.slots[Other(role)] EXCEPT !.buffer = Append(@, bs),
                                             !.bufferBytes = @ + size])

\* PeerConnected: the second report schedules the release.
Reported(rm, role, t) ==
  LET both == rm.slots[Other(role)].reportedConnected
  IN  [WithSlot(rm, role, [rm.slots[role] EXCEPT !.reportedConnected = TRUE])
         EXCEPT !.releaseAt = IF both /\ ReleaseSocketsOnPeerConnected
                              THEN t + PeerConnectedGrace ELSE @]

Unseated(s) == [s EXCEPT !.conn = NoConn]

\* Mutant: the slot is cleared without asking whose it is by now.
Vacated_Anyone(rm, role, c) == WithSlot(rm, role, Unseated(rm.slots[role]))

\* Detach: leave the slot if it is still ours.
Vacated(rm, role, c) ==
  IF rm.slots[role].conn = c THEN WithSlot(rm, role, Unseated(rm.slots[role]))
  ELSE rm

\* The deadline Detach then arms, whether or not a slot was left.
Detached(rm, role, c, t) ==
  WithDeadline(Vacated(rm, role, c), computePeerDeadline(t, rm.expiresAt))

\* close, expiry and release all empty both slots.
Emptied(rm) == [rm EXCEPT !.slots = [r \in Role |-> Unseated(rm.slots[r])]]
=============================================================================
