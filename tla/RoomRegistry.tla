---------------------------- MODULE RoomRegistry ----------------------------
(***************************************************************************)
(* The room registry of server/internal/room: the map of live rooms, the   *)
(* sessions of the connections, the capacity counters, the tombstones and  *)
(* the sweep, run by the goroutines that really run them:                  *)
(*                                                                         *)
(*   - one reader per connection (wsConn.onReadable), which dispatches the *)
(*     frames it has read one handler at a time and sends the response     *)
(*     after the handler has let go of its locks;                          *)
(*   - one release goroutine per closed connection (wsConn.release);       *)
(*   - the sweep goroutine.                                                *)
(*                                                                         *)
(* A step is what one goroutine does under one lock (r.mu, room.mu or      *)
(* s.mu): a handler that looks the room up under r.mu and then locks       *)
(* room.mu is two steps, and anything may happen between them.  A Room is  *)
(* an object with an identity: the map may drop it, or name another object *)
(* under the same id, while a handler still holds a pointer to it.         *)
(*                                                                         *)
(* Inputs of a message that a handler first uses at a later step (epoch,   *)
(* sequence number, password guess) are chosen at that step.  The clock    *)
(* counts whole seconds, the unit of a token's CreatedAt.  Persistence is  *)
(* off (STATE_DIR empty: markDirty and markDeleted do nothing).  Requests  *)
(* refused without a change of the server's state (malformed, wrong state, *)
(* rate limited, bad token) are not steps.                                 *)
(***************************************************************************)
EXTENDS RoomState, FiniteSets

CONSTANTS
  NoId,                  \* a frame that names no room
  IpOf,                  \* address of each connection
  MaxConnectionsGlobal,  \* cfg.MaxConnectionsGlobal
  MaxRoomsGlobal,        \* cfg.MaxRoomsGlobal
  MaxRoomsPerIp,         \* cfg.MaxRoomsPerIp
  MaxPasswordAttempts,   \* cfg.MaxPasswordAttempts
  TombstoneTtl,          \* cfg.TombstoneTtl
  Passwords,             \* may a creator set a guest password? {FALSE}, or BOOLEAN
  MaxObjs,               \* bound: Room objects ever built
  MaxPipelined,          \* bound: frames one read of a socket may hold
  MaxBusy,               \* bound: handlers under way at once
  MaxTime                \* bound: last instant of the clock

ASSUME RoomRegistryAssumption ==
  /\ NoId \notin RoomIds
  /\ IpOf \in [Conns -> IPs]
  /\ MaxConnectionsGlobal \in Nat
  /\ MaxRoomsGlobal \in Nat
  /\ MaxRoomsPerIp \in Nat
  /\ MaxPasswordAttempts \in Nat \ {0}
  /\ TombstoneTtl \in Nat
  /\ Passwords \subseteq BOOLEAN
  /\ MaxObjs \in Nat
  /\ MaxPipelined \in Nat \ {0}
  /\ MaxBusy \in Nat \ {0}
  /\ MaxTime \in Nat

VARIABLES
  now,                \* the wall clock
  rooms,              \* Registry.rooms: id -> object
  obj,                \* the Room objects
  nObj,               \* how many have been built
  tomb,               \* tombstones: id -> closedAt
  tokens,             \* rejoin tokens clients hold
  roomsGlobal,        \* Registry.roomsGlobal
  roomsPerIP,         \* Registry.roomsPerIP
  connectionsGlobal,  \* Registry.connectionsGlobal
  sock,               \* life of each connection
  sess,               \* Session: the room and role it is attached to
  det,                \* the same, saved by a Detach under way
  chunk,              \* frames already read but not yet dispatched
  h,                  \* the handler each reader is in
  told,               \* what the frames sent to each connection add up to
  sweepQ,             \* rooms this sweep has yet to visit
  sweepNow,           \* the instant the latest sweep read
  crashed             \* a goroutine panicked: the process is gone

countVars == <<roomsGlobal, roomsPerIP>>
connVars  == <<sock, sess, det, connectionsGlobal>>
sweepVars == <<sweepQ, sweepNow>>
vars == <<now, rooms, obj, nObj, tomb, tokens, countVars, connVars, chunk, h,
          told, sweepVars, crashed>>

-----------------------------------------------------------------------------
(* Types *)

Objs == 1..MaxObjs

NoObj == 0    \* a nil *Room

Session == [room : Objs \union {NoObj}, role : Role]

NoSession == [room |-> NoObj, role |-> "host"]

Token == [id : RoomIds, role : Role, createdAt : Time, password : BOOLEAN]

\* The messages that reach a client and that a property tells apart.  epoch
\* is the epoch a message reports of the other side.
EventType == {"none", "create-response", "join-response", "rejoin-response",
              "guest-joined", "peer-rejoined", "peer-reset", "signal",
              "overflow", "locked-out"}

Event == [type : EventType, epoch : OptEpoch, seq : 0..MaxSeq]

Ev(type, epoch) == [type |-> type, epoch |-> epoch, seq |-> 0]

NoEvent == Ev("none", NoEpoch)

SignalEv(epoch, seq) == [type |-> "signal", epoch |-> epoch, seq |-> seq]

\* A history of what a connection has been sent: the epoch of the other side
\* that the last peer event named (news), that the last message of any kind
\* named (last), and the signals since the last peer-reset.
Told == [news : OptEpoch, last : OptEpoch, signals : Seq(Event)]

NothingTold == [news |-> NoEpoch, last |-> NoEpoch, signals |-> << >>]

\* A connection is open until Close, which starts the release goroutine:
\* closing before Detach's s.mu section, detaching before its room.mu section.
SockState == {"new", "open", "closing", "detaching", "gone"}

At == {"idle", "creating", "created", "joining", "joinLock", "rejoining",
       "recreating", "rejoinLock", "checked", "loaded", "replying"}

Handler == [at : At, id : RoomIds \union {NoId}, role : Role, createdAt : Time,
            password : BOOLEAN, t : Time, obj : Objs \union {NoObj},
            recreated : BOOLEAN, ev : Event]

Idle == [at |-> "idle", id |-> NoId, role |-> "host", createdAt |-> 0,
         password |-> FALSE, t |-> 0, obj |-> NoObj, recreated |-> FALSE,
         ev |-> NoEvent]

\* What Objs hold before they are built; never read.
Unbuilt == NewRoom(CHOOSE id \in RoomIds : TRUE, CHOOSE ip \in IPs : TRUE,
                   0, 0, FALSE)

TypeOK ==
  /\ now \in Time
  /\ rooms \in [RoomIds -> Objs \union {NoObj}]
  /\ obj \in [Objs -> Room]
  /\ nObj \in 0..MaxObjs
  /\ tomb \in [RoomIds -> OptTime]
  /\ tokens \subseteq Token
  /\ roomsGlobal \in Int
  /\ roomsPerIP \in [IPs -> Nat]
  /\ connectionsGlobal \in Int
  /\ sock \in [Conns -> SockState]
  /\ sess \in [Conns -> Session]
  /\ det \in [Conns -> Session]
  /\ chunk \in [Conns -> Nat]
  /\ h \in [Conns -> Handler]
  /\ told \in [Conns -> Told]
  /\ sweepQ \subseteq Objs
  /\ sweepNow \in Time
  /\ crashed \in BOOLEAN

-----------------------------------------------------------------------------
(* Helpers *)

PeerEvents == {"guest-joined", "peer-rejoined", "peer-reset"}

\* The responses that report the other side's epoch.
Responses == {"join-response", "rejoin-response"}

Tell(v, ev) ==
  [news    |-> IF ev.type \in PeerEvents THEN ev.epoch ELSE v.news,
   last    |-> IF ev.type \in PeerEvents \union Responses THEN ev.epoch
               ELSE v.last,
   signals |-> IF ev.type = "peer-reset" THEN << >>
               ELSE IF ev.type = "signal" THEN Append(v.signals, ev)
               ELSE v.signals]

\* conn.Send: a closed connection drops the message.
Send(to, c, ev) ==
  IF c \in Conns /\ sock[c] = "open"
  THEN [to EXCEPT ![c] = Tell(@, ev)] ELSE to

\* Mutant: Close without closeOnce, so a second Close releases again.
Close_Repeated(S) ==
  [c \in Conns |-> IF c \in S /\ sock[c] # "new" THEN "closing" ELSE sock[c]]

\* conn.Close runs once and leaves the rest to the release goroutine.
Close(S) ==
  [c \in Conns |-> IF c \in S /\ sock[c] = "open" THEN "closing" ELSE sock[c]]

\* tomb.Has
TombHas(id) == tomb[id] # NoTime /\ now - tomb[id] <= TombstoneTtl

\* token.Expired
Expired(tok) == now - tok.createdAt > RejoinTokenTtl

acquireRoomSlot(ip) ==
  /\ roomsPerIP[ip] < MaxRoomsPerIp
  /\ roomsGlobal < MaxRoomsGlobal
  /\ roomsPerIP' = [roomsPerIP EXCEPT ![ip] = @ + 1]
  /\ roomsGlobal' = roomsGlobal + 1

releaseRoomSlot(ip) ==
  /\ roomsPerIP' = [roomsPerIP EXCEPT ![ip] = IF @ > 0 THEN @ - 1 ELSE 0]
  /\ roomsGlobal' = roomsGlobal - 1

\* Mutant: the counters are released whether or not the room is in the map.
removeRoomLocked_Always(o) ==
  /\ rooms' = [rooms EXCEPT ![obj[o].id] = NoObj]
  /\ releaseRoomSlot(obj[o].ownerIP)

\* removeRoomLocked looks the room up by its id, whichever object is there.
removeRoomLocked(o) ==
  IF rooms[obj[o].id] # NoObj
  THEN /\ rooms' = [rooms EXCEPT ![obj[o].id] = NoObj]
       /\ releaseRoomSlot(obj[o].ownerIP)
  ELSE UNCHANGED <<rooms, countVars>>

\* The common part of closeRoomLocked, expireRoomLocked and releaseRoomLocked:
\* close and empty both slots, unregister the room.  The notice each slot is
\* sent first names no epoch.  rm is the object's record so far.
endRoom(o, rm) ==
  /\ sock' = Close(Occupants(rm))
  /\ obj' = [obj EXCEPT ![o] = Emptied(rm)]
  /\ removeRoomLocked(o)

closeRoomLocked(o, rm) ==
  /\ tomb' = [tomb EXCEPT ![rm.id] = now]
  /\ endRoom(o, rm)

Busy == {c \in Conns : h[c].at # "idle"}

\* Mutant: the reader dispatches one frame more than it has read.
ReadFrame_OneMore(c) ==
  /\ h[c].at = "idle"
  /\ Cardinality(Busy) < MaxBusy
  /\ sock[c] # "new"
  /\ chunk' = [chunk EXCEPT ![c] = @ - 1]

\* The reader takes the next frame: from what it has read already, closed or
\* not, else from the socket.
ReadFrame(c) ==
  /\ h[c].at = "idle"
  /\ Cardinality(Busy) < MaxBusy
  /\ \/ /\ chunk[c] > 0
        /\ chunk' = [chunk EXCEPT ![c] = @ - 1]
     \/ /\ chunk[c] = 0
        /\ sock[c] = "open"
        /\ \E k \in 0..(MaxPipelined - 1) : chunk' = [chunk EXCEPT ![c] = k]

Goto(c, frame) == h' = [h EXCEPT ![c] = frame]

Creating == {c \in Conns : h[c].at = "creating"}

\* The bound on objects.  A create that meets it fails as if for want of an id.
CanBuild == nObj < MaxObjs

-----------------------------------------------------------------------------
(* Connections *)

\* A connection is admitted under the global cap.
IncConnections ==
  /\ connectionsGlobal < MaxConnectionsGlobal
  /\ connectionsGlobal' = connectionsGlobal + 1

\* handleSignal, up to the upgrade; when that fails, DecConnections is left.
Accept(c) ==
  /\ sock[c] = "new"
  /\ IncConnections
  /\ \E s \in {"open", "detaching"} : sock' = [sock EXCEPT ![c] = s]
  /\ UNCHANGED <<now, rooms, obj, nObj, tomb, tokens, countVars, sess, det,
                 chunk, h, told, sweepVars, crashed>>

\* The client goes away, stops reading, misses its pongs or its handshake
\* deadline: Close from outside the registry.
SocketCloses(c) ==
  /\ sock[c] = "open"
  /\ sock' = Close({c})
  /\ UNCHANGED <<now, rooms, obj, nObj, tomb, tokens, countVars, sess, det,
                 connectionsGlobal, chunk, h, told, sweepVars, crashed>>

\* Detach, under s.mu.
DetachSession(c) ==
  /\ sock[c] = "closing"
  /\ sock' = [sock EXCEPT ![c] = "detaching"]
  /\ det' = [det EXCEPT ![c] = sess[c]]
  /\ sess' = [sess EXCEPT ![c] = NoSession]
  /\ told' = [told EXCEPT ![c] = NothingTold]
  /\ UNCHANGED <<now, rooms, obj, nObj, tomb, tokens, countVars,
                 connectionsGlobal, chunk, h, sweepVars, crashed>>

\* Neither slot ever recorded an epoch: Detach drops such a room.
NeverOccupied(rm) == \A r \in Role : rm.slots[r].epoch = NoEpoch

\* Detach, under room.mu, then DecConnections.  The peer-disconnected sent to
\* the other slot names no epoch.
DetachRoom(c) ==
  /\ sock[c] = "detaching"
  /\ sock' = [sock EXCEPT ![c] = "gone"]
  /\ det' = [det EXCEPT ![c] = NoSession]
  /\ connectionsGlobal' = connectionsGlobal - 1
  /\ LET o    == det[c].room
         role == det[c].role
     IN  IF o = NoObj
         THEN UNCHANGED <<obj, rooms, countVars>>
         ELSE IF ~Occupied(obj[o], Other(role)) /\ NeverOccupied(obj[o])
         THEN /\ obj' = [obj EXCEPT ![o] = Vacated(@, role, c)]
              /\ removeRoomLocked(o)
         ELSE /\ obj' = [obj EXCEPT ![o] = Detached(@, role, c, now)]
              /\ UNCHANGED <<rooms, countVars>>
  /\ UNCHANGED <<now, nObj, tomb, tokens, sess, chunk, h, told, sweepVars,
                 crashed>>

-----------------------------------------------------------------------------
(* create-room *)

\* Counters first, then an id that no live room and no tombstone has.
CreateRoom(c) ==
  /\ ReadFrame(c)
  /\ sess[c].room = NoObj
  /\ CanBuild
  /\ acquireRoomSlot(IpOf[c])
  /\ \E id \in RoomIds :
       /\ rooms[id] = NoObj
       /\ ~TombHas(id)
       /\ Goto(c, [Idle EXCEPT !.at = "creating", !.id = id])
  /\ UNCHANGED <<now, rooms, obj, nObj, tomb, tokens, connVars, told, sweepVars,
                 crashed>>

\* No id, or no TURN credentials: the counters are rolled back.
CreateFails(c) ==
  /\ h[c].at = "creating"
  /\ releaseRoomSlot(IpOf[c])
  /\ Goto(c, Idle)
  /\ UNCHANGED <<now, rooms, obj, nObj, tomb, tokens, connVars, chunk, told,
                 sweepVars, crashed>>

\* The room, host attached, goes into the map.
PublishRoom(c) ==
  /\ h[c].at = "creating"
  /\ CanBuild
  /\ nObj' = nObj + 1
  /\ \E e \in Epochs, pw \in Passwords :
       /\ obj' = [obj EXCEPT ![nObj + 1] =
                    HostAttached(NewRoom(h[c].id, IpOf[c], now, now, pw), c, e)]
       /\ Goto(c, [h[c] EXCEPT !.at = "created", !.obj = nObj + 1,
                               !.createdAt = now, !.password = pw])
  /\ rooms' = [rooms EXCEPT ![h[c].id] = nObj + 1]
  /\ UNCHANGED <<now, tomb, tokens, countVars, connVars, chunk, told, sweepVars,
                 crashed>>

\* The session learns its room only after the room is public.
AttachCreator(c) ==
  /\ h[c].at = "created"
  /\ sess' = [sess EXCEPT ![c] = [room |-> h[c].obj, role |-> "host"]]
  /\ Goto(c, [h[c] EXCEPT !.at = "replying",
                          !.ev = Ev("create-response", NoEpoch)])
  /\ UNCHANGED <<now, rooms, obj, nObj, tomb, tokens, countVars, sock, det,
                 connectionsGlobal, chunk, told, sweepVars, crashed>>

\* dispatchMessage sends the response once the handler has returned; the
\* client now holds the rejoin token the response carries.
Reply(c) ==
  /\ h[c].at = "replying"
  /\ h[c].ev.type # "locked-out"
  /\ told' = Send(told, c, h[c].ev)
  /\ tokens' = IF /\ h[c].ev.type \in {"create-response", "join-response"}
                  /\ sock[c] = "open"
               THEN tokens \union {[id |-> h[c].id, role |-> h[c].role,
                                    createdAt |-> h[c].createdAt,
                                    password |-> h[c].password]}
               ELSE tokens
  /\ Goto(c, Idle)
  /\ UNCHANGED <<now, rooms, obj, nObj, tomb, countVars, connVars, chunk,
                 sweepVars, crashed>>

\* A result with a close code: the frames behind it are not dispatched.
ReplyFatal(c) ==
  /\ h[c].at = "replying"
  /\ h[c].ev.type = "locked-out"
  /\ sock' = Close({c})
  /\ chunk' = [chunk EXCEPT ![c] = 0]
  /\ Goto(c, Idle)
  /\ UNCHANGED <<now, rooms, obj, nObj, tomb, tokens, countVars, sess, det,
                 connectionsGlobal, told, sweepVars, crashed>>

-----------------------------------------------------------------------------
(* join-room *)

JoinRoom(c) ==
  /\ ReadFrame(c)
  /\ sess[c].room = NoObj
  /\ \E id \in RoomIds :
       /\ ~TombHas(id)
       /\ Goto(c, [Idle EXCEPT !.at = "joining", !.id = id])
  /\ UNCHANGED <<now, rooms, obj, nObj, tomb, tokens, countVars, connVars, told,
                 sweepVars, crashed>>

\* Under r.mu; ROOM_NOT_FOUND ends the handler.
JoinLookup(c) ==
  /\ h[c].at = "joining"
  /\ Goto(c, IF rooms[h[c].id] = NoObj THEN Idle
             ELSE [h[c] EXCEPT !.at = "joinLock", !.obj = rooms[h[c].id]])
  /\ UNCHANGED <<now, rooms, obj, nObj, tomb, tokens, countVars, connVars,
                 chunk, told, sweepVars, crashed>>

\* Mutant: one guess too many.
LockedOut_OffByOne(rm) == rm.passwordAttempts > MaxPasswordAttempts

LockedOut(rm) == rm.passwordAttempts >= MaxPasswordAttempts

\* A wrong guess counts; the last one allowed closes the room, and the reply
\* to it closes the guesser.
JoinWrongPassword(c) ==
  LET o  == h[c].obj
      rm == GuessedWrong(obj[o])
  IN  /\ h[c].at = "joinLock"
      /\ obj[o].password
      /\ IF LockedOut(rm)
         THEN /\ closeRoomLocked(o, rm)
              /\ Goto(c, [h[c] EXCEPT !.at = "replying",
                                      !.ev = Ev("locked-out", NoEpoch)])
         ELSE /\ obj' = [obj EXCEPT ![o] = rm]
              /\ Goto(c, Idle)
              /\ UNCHANGED <<tomb, sock, rooms, countVars>>
      /\ UNCHANGED <<now, nObj, tokens, sess, det, connectionsGlobal, chunk,
                     told, sweepVars, crashed>>

\* Mutant: no ROOM_FULL.
GuestSlotFree_Always(rm) == TRUE

GuestSlotFree(rm) == ~Occupied(rm, "guest")

\* ROOM_FULL, or no TURN credentials.
JoinRefused(c) ==
  /\ h[c].at = "joinLock"
  /\ Goto(c, Idle)
  /\ UNCHANGED <<now, rooms, obj, nObj, tomb, tokens, countVars, connVars,
                 chunk, told, sweepVars, crashed>>

JoinAttach(c) ==
  LET o    == h[c].obj
      host == obj[o].slots["host"]
  IN  /\ h[c].at = "joinLock"
      /\ GuestSlotFree(obj[o])
      /\ \E e \in Epochs :
           /\ obj' = [obj EXCEPT ![o] = GuestAttached(@, c, e)]
           /\ told' = Send(told, host.conn, Ev("guest-joined", e))
      /\ sess' = [sess EXCEPT ![c] = [room |-> o, role |-> "guest"]]
      /\ Goto(c, [h[c] EXCEPT !.at = "replying", !.role = "guest",
                              !.createdAt = obj[o].createdAt,
                              !.password = obj[o].password,
                              !.ev = Ev("join-response", host.epoch)])
      /\ UNCHANGED <<now, rooms, nObj, tomb, tokens, countVars, sock, det,
                     connectionsGlobal, chunk, sweepVars, crashed>>

-----------------------------------------------------------------------------
(* rejoin-room *)

\* Token, TTL and tombstone; the instant read here also dates the deadlines
\* set at the end of the handler.
RejoinRoom(c) ==
  /\ ReadFrame(c)
  /\ sess[c].room = NoObj
  /\ \E tok \in tokens :
       /\ ~Expired(tok)
       /\ ~TombHas(tok.id)
       /\ Goto(c, [Idle EXCEPT !.at = "rejoining", !.id = tok.id,
                               !.role = tok.role, !.createdAt = tok.createdAt,
                               !.password = tok.password, !.t = now])
  /\ UNCHANGED <<now, rooms, obj, nObj, tomb, tokens, countVars, connVars, told,
                 sweepVars, crashed>>

\* Under r.mu.
RejoinLookup(c) ==
  /\ h[c].at = "rejoining"
  /\ Goto(c, IF rooms[h[c].id] = NoObj
             THEN [h[c] EXCEPT !.at = "recreating"]
             ELSE [h[c] EXCEPT !.at = "rejoinLock", !.obj = rooms[h[c].id]])
  /\ UNCHANGED <<now, rooms, obj, nObj, tomb, tokens, countVars, connVars,
                 chunk, told, sweepVars, crashed>>

\* No TURN credentials, or a recreate over one of the room limits.
RejoinRefused(c) ==
  /\ h[c].at \in {"recreating", "rejoinLock"}
  /\ ~h[c].recreated
  /\ Goto(c, Idle)
  /\ UNCHANGED <<now, rooms, obj, nObj, tomb, tokens, countVars, connVars,
                 chunk, told, sweepVars, crashed>>

\* A fresh room under the token's id goes into the map, whatever the map holds
\* by now.
Recreate(c) ==
  /\ h[c].at = "recreating"
  /\ CanBuild
  /\ acquireRoomSlot(IpOf[c])
  /\ nObj' = nObj + 1
  /\ obj' = [obj EXCEPT ![nObj + 1] =
               NewRoom(h[c].id, IpOf[c], h[c].createdAt, h[c].t, h[c].password)]
  /\ rooms' = [rooms EXCEPT ![h[c].id] = nObj + 1]
  /\ Goto(c, [h[c] EXCEPT !.at = "rejoinLock", !.obj = nObj + 1,
                          !.recreated = TRUE])
  /\ UNCHANGED <<now, tomb, tokens, connVars, chunk, told, sweepVars, crashed>>

\* The signals a slot's buffer holds, as the messages that replay them.
Replay(s) ==
  [i \in 1..Len(s.buffer) |-> SignalEv(s.buffer[i].fromEpoch, s.buffer[i].seq)]

\* Evict, attach, notify the other slot, replay to this one.
RejoinAttach(c) ==
  LET o     == h[c].obj
      role  == h[c].role
      rm    == obj[o]
      old   == rm.slots[role].conn
      other == rm.slots[Other(role)]
  IN  /\ h[c].at = "rejoinLock"
      /\ sock' = Close({old})
      /\ \E e \in Epochs :
           LET changed == EpochChanged(rm, role, e, h[c].recreated)
               next    == Send(told, other.conn,
                               Ev(IF changed THEN "peer-reset"
                                  ELSE "peer-rejoined", e))
           IN  /\ obj' = [obj EXCEPT ![o] =
                            Rejoined(@, role, c, e, h[c].recreated, h[c].t)]
               /\ told' = IF changed \/ sock[c] # "open" THEN next
                         ELSE [next EXCEPT ![c].signals = @ \o Replay(rm.slots[role])]
      /\ sess' = [sess EXCEPT ![c] = [room |-> o, role |-> role]]
      /\ Goto(c, [h[c] EXCEPT !.at = "replying",
                              !.ev = Ev("rejoin-response", other.epoch)])
      /\ UNCHANGED <<now, rooms, nObj, tomb, tokens, countVars, det,
                     connectionsGlobal, chunk, sweepVars, crashed>>

-----------------------------------------------------------------------------
(* signal, peer-connected and close-room share their first two steps *)

\* s.attached, read without s.mu.
CheckAttached(c) ==
  /\ ReadFrame(c)
  /\ sess[c].room # NoObj
  /\ Goto(c, [Idle EXCEPT !.at = "checked"])
  /\ UNCHANGED <<now, rooms, obj, nObj, tomb, tokens, countVars, connVars, told,
                 sweepVars, crashed>>

\* s.room and s.role under s.mu.  A nil s.room is dereferenced next.
LoadRoom(c) ==
  /\ h[c].at = "checked"
  /\ IF sess[c].room = NoObj
     THEN crashed' = TRUE /\ UNCHANGED h
     ELSE /\ Goto(c, [h[c] EXCEPT !.at = "loaded", !.obj = sess[c].room,
                                  !.role = sess[c].role])
          /\ UNCHANGED crashed
  /\ UNCHANGED <<now, rooms, obj, nObj, tomb, tokens, countVars, connVars,
                 chunk, told, sweepVars>>

\* Mutant: the last sequence number is not a duplicate of itself.
IsDuplicate_OffByOne(s, seq) == seq < s.lastSeq

\* Dropped: the sequence number was seen already.
IsDuplicate(s, seq) == seq <= s.lastSeq

Signal(c) ==
  LET o     == h[c].obj
      role  == h[c].role
      mine  == obj[o].slots[role]
      other == obj[o].slots[Other(role)]
  IN  /\ h[c].at = "loaded"
      /\ \E seq \in 1..MaxSeq, size \in Sizes :
           \/ /\ IsDuplicate(mine, seq)
              /\ Goto(c, Idle)
              /\ UNCHANGED <<obj, told>>
           \/ /\ ~IsDuplicate(mine, seq)
              /\ other.conn # NoConn
              /\ obj' = [obj EXCEPT ![o] = Accepted(@, role, seq)]
              /\ told' = Send(told, other.conn, SignalEv(mine.epoch, seq))
              /\ Goto(c, Idle)
           \/ /\ ~IsDuplicate(mine, seq)
              /\ other.conn = NoConn
              /\ BufferFull(other, size)
              /\ obj' = [obj EXCEPT ![o] = Overflowed(@, role, seq)]
              /\ Goto(c, [Idle EXCEPT !.at = "replying",
                                      !.ev = Ev("overflow", NoEpoch)])
              /\ UNCHANGED told
           \/ /\ ~IsDuplicate(mine, seq)
              /\ other.conn = NoConn
              /\ ~BufferFull(other, size)
              /\ obj' = [obj EXCEPT ![o] = Buffered(@, role, seq, size)]
              /\ Goto(c, Idle)
              /\ UNCHANGED told
      /\ UNCHANGED <<now, rooms, nObj, tomb, tokens, countVars, connVars, chunk,
                     sweepVars, crashed>>

\* A second report from the same slot changes nothing.
PeerConnected(c) ==
  LET o    == h[c].obj
      role == h[c].role
  IN  /\ h[c].at = "loaded"
      /\ Goto(c, Idle)
      /\ obj' = IF obj[o].slots[role].reportedConnected THEN obj
                ELSE [obj EXCEPT ![o] = Reported(@, role, now)]
      /\ UNCHANGED <<now, rooms, nObj, tomb, tokens, countVars, connVars, chunk,
                     told, sweepVars, crashed>>

CloseRoom(c) ==
  /\ h[c].at = "loaded"
  /\ closeRoomLocked(h[c].obj, obj[h[c].obj])
  /\ Goto(c, Idle)
  /\ UNCHANGED <<now, nObj, tokens, sess, det, connectionsGlobal, chunk, told,
                 sweepVars, crashed>>

-----------------------------------------------------------------------------
(* The sweep *)

\* Mutant: the sweep looks at the peer deadline only.
SweepVerdict_NoLifetime(rm, t) ==
  IF Reached(rm.releaseAt, t) THEN "room-idle-close"
  ELSE IF Reached(rm.peerDeadlineAt, t) THEN "room-expired" ELSE "none"

\* What sweepRoom does to a room at instant t, in the order it looks.
SweepVerdict(rm, t) ==
  IF Reached(rm.releaseAt, t) THEN "room-idle-close"
  ELSE IF Reached(rm.expiresAt, t) \/ Reached(rm.peerDeadlineAt, t)
       THEN "room-expired" ELSE "none"

Due == {id \in RoomIds : rooms[id] # NoObj /\ SweepVerdict(obj[rooms[id]], now) # "none"}

\* One tick: read the clock, sweep the tombstones, list the rooms.  Bound: a
\* second pass in the same instant only when it has a room to end.
SweepStart ==
  /\ sweepQ = {}
  /\ sweepNow < now \/ Due # {}
  /\ tomb' = [id \in RoomIds |-> IF TombHas(id) THEN tomb[id] ELSE NoTime]
  /\ sweepQ' = {rooms[id] : id \in RoomIds} \ {NoObj}
  /\ sweepNow' = now
  /\ UNCHANGED <<now, rooms, obj, nObj, tokens, countVars, connVars, chunk, h,
                 told, crashed>>

SweepRoom(o) ==
  LET verdict == SweepVerdict(obj[o], sweepNow)
  IN  /\ o \in sweepQ
      /\ sweepQ' = sweepQ \ {o}
      /\ IF verdict = "none"
         THEN UNCHANGED <<obj, sock, rooms, countVars>>
         ELSE endRoom(o, obj[o])
      /\ UNCHANGED <<now, sweepNow, nObj, tomb, tokens, sess, det, connectionsGlobal,
                     chunk, h, told, crashed>>

Tick ==
  /\ now < MaxTime
  /\ now' = now + 1
  /\ UNCHANGED <<rooms, obj, nObj, tomb, tokens, countVars, connVars, chunk, h,
                 told, sweepVars, crashed>>

-----------------------------------------------------------------------------
Init ==
  /\ now = 0
  /\ rooms = [id \in RoomIds |-> NoObj]
  /\ obj = [o \in Objs |-> Unbuilt]
  /\ nObj = 0
  /\ tomb = [id \in RoomIds |-> NoTime]
  /\ tokens = {}
  /\ roomsGlobal = 0
  /\ roomsPerIP = [ip \in IPs |-> 0]
  /\ connectionsGlobal = 0
  /\ sock = [c \in Conns |-> "new"]
  /\ sess = [c \in Conns |-> NoSession]
  /\ det = [c \in Conns |-> NoSession]
  /\ chunk = [c \in Conns |-> 0]
  /\ h = [c \in Conns |-> Idle]
  /\ told = [c \in Conns |-> NothingTold]
  /\ sweepQ = {}
  /\ sweepNow = 0
  /\ crashed = FALSE

\* A message arrives and its handler starts.
Request(c) == CreateRoom(c) \/ JoinRoom(c) \/ RejoinRoom(c) \/ CheckAttached(c)

\* A handler under way goes on.
Continue(c) ==
  \/ CreateFails(c) \/ PublishRoom(c) \/ AttachCreator(c) \/ Reply(c) \/ ReplyFatal(c)
  \/ JoinLookup(c) \/ JoinWrongPassword(c) \/ JoinRefused(c) \/ JoinAttach(c)
  \/ RejoinLookup(c) \/ RejoinRefused(c) \/ Recreate(c) \/ RejoinAttach(c)
  \/ LoadRoom(c) \/ Signal(c) \/ PeerConnected(c) \/ CloseRoom(c)

Release(c) == DetachSession(c) \/ DetachRoom(c)

Sweep == SweepStart \/ \E o \in Objs : SweepRoom(o)

Next ==
  /\ ~crashed
  /\ \/ \E c \in Conns : Accept(c) \/ SocketCloses(c) \/ Request(c)
                         \/ Continue(c) \/ Release(c)
     \/ Sweep
     \/ Tick

Spec == Init /\ [][Next]_vars

\* A handler that has started runs on, a closed connection's release goroutine
\* runs, the sweep ticker fires and the clock advances.  Nothing obliges a
\* client to send, to stay or to leave.
Fairness ==
  /\ \A c \in Conns : WF_vars(~crashed /\ Continue(c))
                     /\ WF_vars(~crashed /\ Release(c))
  /\ WF_vars(~crashed /\ Sweep)
  /\ WF_vars(~crashed /\ Tick)

FairSpec == Spec /\ Fairness

\* The client in the slot opposite to role has no signal of epoch e, neither
\* sent to it nor kept for it.
Unheard(o, role, e) ==
  LET s == obj[o].slots[Other(role)]
  IN  /\ \A i \in DOMAIN s.buffer : s.buffer[i].fromEpoch # e
      /\ \A p \in Conns : s.conn = p =>
           \A i \in DOMAIN told[p].signals : told[p].signals[i].epoch # e

\* Clients draw a random epoch for every peer they build: one that attaches
\* either carries on under the epoch its slot has, or brings an epoch the other
\* side has not heard.  The server does not enforce it.
FreshEpochs ==
  \A c \in Conns :
    LET o == sess'[c].room
        r == sess'[c].role
    IN  sess[c].room = NoObj /\ o # NoObj =>
          \/ obj'[o].slots[r].epoch = obj[o].slots[r].epoch /\ ~h[c].recreated
          \/ Unheard(o, r, obj'[o].slots[r].epoch)

\* The registry with such clients.
RelaySpec == Init /\ [][Next /\ FreshEpochs]_vars
-----------------------------------------------------------------------------
(* Invariants *)

Registered == {id \in RoomIds : rooms[id] # NoObj}

Built == 1..nObj

\* c has put o into the map as its host and not yet recorded it in its session.
Publishing(c, o, role) ==
  h[c].at = "created" /\ h[c].obj = o /\ role = "host"

\* An open connection is in exactly the slot its session names, and in no slot
\* when its session names none: "A connection is only ever attached to one slot
\* of one room, and a slot only ever holds one connection" (DESIGN.md:256).
\* Attaching, eviction, close, expiry and Detach each write one of the two
\* sides under different locks.
SessionSlotAgree ==
  \A c \in Conns : sock[c] = "open" =>
    \A o \in Objs, role \in Role :
      obj[o].slots[role].conn = c <=>
        \/ sess[c] = [room |-> o, role |-> role]
        \/ Publishing(c, o, role)

\* Every room in the map and every create under way holds one unit of the
\* global counter, so the map never grows beyond MaxRoomsGlobal whatever
\* handlers overlap (acquireGlobalRoomSlot, removeRoomLocked).
RoomsWithinCap ==
  /\ Cardinality(Registered) + Cardinality(Creating) <= roomsGlobal
  /\ roomsGlobal <= MaxRoomsGlobal

\* The global connection counter is the number of admitted connections whose
\* release has not finished: Close may come from five places and release runs
\* once.
ConnectionsCounted ==
  connectionsGlobal =
    Cardinality({c \in Conns : sock[c] \in {"open", "closing", "detaching"}})

\* A room that took its last allowed wrong password is out of the map for
\* good, with joins and rejoins of it still under way.
LockedOutRoomGone ==
  \A o \in Built :
    obj[o].passwordAttempts >= MaxPasswordAttempts => rooms[obj[o].id] # o

\* An open guest leaves its slot to another connection only when that
\* connection presents a guest's rejoin token, and it is closed as it does: "A
\* third party cannot displace an active guest; only a valid rejoinToken can"
\* (DESIGN.md:349), with two joins past the lookup at once.
GuestNotDisplaced ==
  [][\A o \in Objs, c \in Conns :
       /\ sock[c] = "open"
       /\ obj[o].slots["guest"].conn = c
       /\ obj'[o].slots["guest"].conn \notin {c, NoConn}
       => /\ sock'[c] = "closing"
          /\ \E d \in Conns : /\ h[d].at = "rejoinLock" /\ h[d].role = "guest"
                              /\ obj'[o].slots["guest"].conn = d]_vars

\* A room in the map leaves it: each has a lifetime that no join, rejoin or
\* report extends, and the sweep sees every room of the map (unless the process
\* dies and the map with it).
RoomsEnd ==
  \A o \in Objs :
    (\E id \in RoomIds : rooms[id] = o /\ obj[o].expiresAt <= MaxTime)
      ~> (crashed \/ \A id \in RoomIds : rooms[id] # o)

\* The buffer an absent peer's slot keeps stays within both limits.
BufferBounded ==
  \A o \in Objs, role \in Role :
    /\ Len(obj[o].slots[role].buffer) <= MaxBufferedSignals
    /\ obj[o].slots[role].bufferBytes <= MaxBufferedSignalBytes

\* The signals one connection receives between two peer-resets are in
\* increasing sequence within each sender epoch: forwarding, buffering and
\* replay neither reorder nor repeat one.  It is promised to clients that draw
\* fresh epochs (RelaySpec): a slot that returns to an epoch it has left is
\* numbered from one again, behind what the absent peer's buffer still holds.
RelayOrder ==
  \A c \in Conns :
    LET sig == told[c].signals
    IN  \A i, j \in DOMAIN sig :
          i < j /\ sig[i].epoch = sig[j].epoch => sig[i].seq < sig[j].seq

\* Two open connections face each other in a room.
Facing(c, p, o, role) ==
  /\ sock[c] = "open" /\ obj[o].slots[role].conn = c
  /\ sock[p] = "open" /\ obj[o].slots[Other(role)].conn = p

\* While two connections face each other, the epoch the latest peer event told
\* one of them is the epoch the other attached with; if there was no such
\* event, the handshake response (sent or about to be) named it.  Whoever
\* arrives second, by whichever handler, tells the one already there.
EpochNews ==
  \A c, p \in Conns, o \in Objs, role \in Role :
    Facing(c, p, o, role) =>
      LET epoch == obj[o].slots[Other(role)].epoch
      IN  IF told[c].news # NoEpoch THEN told[c].news = epoch
          ELSE epoch = IF h[c].at = "replying" THEN h[c].ev.epoch
                       ELSE told[c].last
=============================================================================
