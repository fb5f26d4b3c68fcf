------------------------- MODULE RoomRegistryProofs -------------------------
(***************************************************************************)
(* RoomRegistry, for every set of connections, every set of rooms, every   *)
(* configuration and every bound: type correctness and the bound on the    *)
(* signal buffers; who is in which slot, and that sessions and slots agree;*)
(* the global counters against what they count, and the fate of a room     *)
(* that was locked out.  The sets are not assumed to be finite: that only  *)
(* finitely many connections have been admitted, and rooms registered, is  *)
(* part of what is proved.                                                 *)
(***************************************************************************)
EXTENDS RoomRegistry, RoomStateProofs, FiniteSetTheorems

-----------------------------------------------------------------------------
(* Type correctness *)

\* What a handler at each point holds: a room id once its frame named one, a
\* pointer once it looked the room up.
FrameOK(f) ==
  /\ f.at \in {"creating", "created", "joining", "joinLock", "rejoining",
               "recreating", "rejoinLock"} => f.id \in RoomIds
  /\ f.ev.type \in {"create-response", "join-response"} => f.id \in RoomIds
  /\ f.at \in {"created", "joinLock", "rejoinLock", "loaded"} => f.obj \in Objs

TypeInv == TypeOK /\ \A c \in Conns : FrameOK(h[c])

\* The records the actions build have their types.
LEMMA EventTypes ==
  /\ NoEvent \in Event
  /\ \A t \in EventType, e \in OptEpoch : Ev(t, e) \in Event /\ Ev(t, e).type = t
  /\ \A e \in OptEpoch, n \in 1..MaxSeq : SignalEv(e, n) \in Event
BY RoomStateAssumption DEF NoEvent, Ev, SignalEv, Event, EventType, OptEpoch

\* Between two frames a reader holds nothing.
LEMMA IdleType == Idle \in Handler /\ FrameOK(Idle)
BY EventTypes DEF Idle, Handler, At, Role, Time, FrameOK, NoEvent, Ev

\* No session is a session.
LEMMA NoSessionType == NoSession \in Session
BY DEF NoSession, Session, Role

\* What a client has been told stays well formed.
LEMMA TellType == \A v \in Told, ev \in Event : Tell(v, ev) \in Told
<1> SUFFICES ASSUME NEW v \in Told, NEW ev \in Event PROVE Tell(v, ev) \in Told
  OBVIOUS
<1>1. /\ v.news \in OptEpoch /\ v.last \in OptEpoch /\ v.signals \in Seq(Event)
      /\ ev.epoch \in OptEpoch
  BY DEF Told, Event
<1>2. << >> \in Seq(Event) /\ Append(v.signals, ev) \in Seq(Event)
  BY <1>1
<1> QED
  BY <1>1, <1>2 DEF Tell, Told

\* A message to anybody keeps every client's history well formed.
LEMMA SendType ==
  ASSUME NEW to \in [Conns -> Told], NEW c, NEW ev \in Event
  PROVE  Send(to, c, ev) \in [Conns -> Told]
BY TellType DEF Send

\* Close takes open connections to closing and no other anywhere.
LEMMA CloseFacts ==
  ASSUME sock \in [Conns -> SockState], NEW S
  PROVE  /\ Close(S) \in [Conns -> SockState]
         /\ \A c \in Conns : Close(S)[c] =
              IF c \in S /\ sock[c] = "open" THEN "closing" ELSE sock[c]
BY DEF Close, SockState

\* Replaying a buffer sends signal messages.
LEMMA ReplayType == \A s \in Slot : Replay(s) \in Seq(Event)
<1> SUFFICES ASSUME NEW s \in Slot PROVE Replay(s) \in Seq(Event)
  OBVIOUS
<1>1. s.buffer \in Seq(BufferedSignal)
  BY DEF Slot
<1>2. \A i \in 1..Len(s.buffer) : s.buffer[i] \in BufferedSignal
  BY <1>1
<1>3. \A i \in 1..Len(s.buffer) :
        SignalEv(s.buffer[i].fromEpoch, s.buffer[i].seq) \in Event
  BY <1>2, EventTypes DEF BufferedSignal
<1>4. Len(s.buffer) \in Nat
  BY <1>1
<1> QED
  BY <1>3, <1>4 DEF Replay

\* A new handler frame with its type is all a change of h needs.
LEMMA GotoType ==
  ASSUME TypeInv, NEW c \in Conns, NEW f \in Handler, FrameOK(f), Goto(c, f)
  PROVE  h' \in [Conns -> Handler] /\ \A d \in Conns : FrameOK(h'[d])
BY DEF TypeInv, TypeOK, Goto

\* A reader never has a negative number of frames left.
LEMMA ReadFrameType ==
  ASSUME TypeInv, NEW c \in Conns, ReadFrame(c)
  PROVE  chunk' \in [Conns -> Nat]
BY RoomRegistryAssumption DEF TypeInv, TypeOK, ReadFrame

\* A per-address counter never goes below zero.
LEMMA CountTypes ==
  ASSUME TypeInv, NEW ip \in IPs
  PROVE  /\ acquireRoomSlot(ip) => roomsGlobal' \in Int /\ roomsPerIP' \in [IPs -> Nat]
         /\ releaseRoomSlot(ip) => roomsGlobal' \in Int /\ roomsPerIP' \in [IPs -> Nat]
BY DEF TypeInv, TypeOK, acquireRoomSlot, releaseRoomSlot

\* Unregistering a room, whichever object the map holds.
LEMMA RemoveTypes ==
  ASSUME TypeInv, NEW o \in Objs, removeRoomLocked(o)
  PROVE  /\ rooms' \in [RoomIds -> Objs \union {NoObj}]
         /\ roomsGlobal' \in Int
         /\ roomsPerIP' \in [IPs -> Nat]
<1>1. obj[o].id \in RoomIds /\ obj[o].ownerIP \in IPs
  BY DEF TypeInv, TypeOK, Room
<1> QED
  BY <1>1, CountTypes DEF removeRoomLocked, TypeInv, TypeOK, countVars

\* What close, expiry and release share.
LEMMA EndRoomTypes ==
  ASSUME TypeInv, NEW o \in Objs, NEW rm \in Room, endRoom(o, rm)
  PROVE  /\ sock' \in [Conns -> SockState]
         /\ obj' \in [Objs -> Room]
         /\ rooms' \in [RoomIds -> Objs \union {NoObj}]
         /\ roomsGlobal' \in Int
         /\ roomsPerIP' \in [IPs -> Nat]
BY CloseFacts, EmptiedFacts, RemoveTypes DEF endRoom, TypeInv, TypeOK

\* The server starts well typed.
LEMMA InitType == Init => TypeInv
<1> SUFFICES ASSUME Init PROVE TypeInv
  OBVIOUS
<1>1. (CHOOSE id \in RoomIds : TRUE) \in RoomIds /\ (CHOOSE ip \in IPs : TRUE) \in IPs
  BY RoomStateAssumption
<1>2. Unbuilt \in Room
  BY <1>1, NewRoomFacts DEF Unbuilt, Time
<1>3. NothingTold \in Told
  BY DEF NothingTold, Told, OptEpoch
<1>4. /\ now \in Time /\ sweepNow \in Time
      /\ roomsGlobal \in Int /\ connectionsGlobal \in Int
  BY DEF Init, Time
<1>8. nObj \in 0..MaxObjs
  BY RoomRegistryAssumption DEF Init
<1>9. crashed \in BOOLEAN
  BY DEF Init
<1>5. /\ rooms \in [RoomIds -> Objs \union {NoObj}]
      /\ obj \in [Objs -> Room]
      /\ tomb \in [RoomIds -> OptTime]
      /\ tokens \subseteq Token /\ sweepQ \subseteq Objs
  BY <1>2 DEF Init, OptTime
<1>6. /\ roomsPerIP \in [IPs -> Nat]
      /\ sock \in [Conns -> SockState]
      /\ sess \in [Conns -> Session]
      /\ det \in [Conns -> Session]
      /\ chunk \in [Conns -> Nat]
      /\ told \in [Conns -> Told]
  BY <1>3, NoSessionType DEF Init, SockState
<1>7. h \in [Conns -> Handler] /\ \A c \in Conns : FrameOK(h[c])
  BY IdleType DEF Init
<1> QED
  BY <1>4, <1>5, <1>6, <1>7, <1>8, <1>9 DEF TypeInv, TypeOK

\* Connections come and go.
LEMMA ConnectionTypes ==
  ASSUME TypeInv, NEW c \in Conns,
         Accept(c) \/ SocketCloses(c) \/ DetachSession(c)
  PROVE  TypeInv'
<1>1. CASE Accept(c)
  BY <1>1 DEF Accept, IncConnections, TypeInv, TypeOK, SockState, countVars, sweepVars
<1>2. CASE SocketCloses(c)
  BY <1>2, CloseFacts DEF SocketCloses, TypeInv, TypeOK, countVars, sweepVars
<1>3. CASE DetachSession(c)
  <2>1. NothingTold \in Told
    BY DEF NothingTold, Told, OptEpoch
  <2> QED
    BY <1>3, <2>1, NoSessionType
    DEF DetachSession, TypeInv, TypeOK, SockState, countVars, sweepVars
<1> QED
  BY <1>1, <1>2, <1>3

\* Detach's room.mu section.
LEMMA DetachRoomType ==
  ASSUME TypeInv, NEW c \in Conns, DetachRoom(c)
  PROVE  TypeInv'
<1> DEFINE o    == det[c].room
           role == det[c].role
<1>1. o \in Objs \union {NoObj} /\ role \in Role
  BY DEF TypeInv, TypeOK, Session
<1>2. CASE o = NoObj
  BY <1>2, NoSessionType
  DEF DetachRoom, TypeInv, TypeOK, SockState, countVars, sweepVars
<1>3. CASE o # NoObj
  <2>1. o \in Objs /\ obj[o] \in Room /\ now \in Time
    BY <1>1, <1>3 DEF TypeInv, TypeOK
  <2>2. /\ Vacated(obj[o], role, c) \in Room
        /\ Detached(obj[o], role, c, now) \in Room
    BY <1>1, <2>1, VacatedFacts, DetachedFacts
  <2>3. /\ obj' \in [Objs -> Room]
        /\ rooms' \in [RoomIds -> Objs \union {NoObj}]
        /\ roomsGlobal' \in Int
        /\ roomsPerIP' \in [IPs -> Nat]
    BY <1>3, <2>1, <2>2, RemoveTypes DEF DetachRoom, TypeInv, TypeOK, countVars
  <2> QED
    BY <2>3, NoSessionType DEF DetachRoom, TypeInv, TypeOK, SockState, sweepVars
<1> QED
  BY <1>2, <1>3

\* create-room.
LEMMA CreateTypes ==
  ASSUME TypeInv, NEW c \in Conns, CreateRoom(c) \/ CreateFails(c)
  PROVE  TypeInv'
<1>0. IpOf[c] \in IPs
  BY RoomRegistryAssumption
<1>1. CASE CreateRoom(c)
  <2>1. PICK id \in RoomIds : Goto(c, [Idle EXCEPT !.at = "creating", !.id = id])
    BY <1>1 DEF CreateRoom
  <2>2. /\ [Idle EXCEPT !.at = "creating", !.id = id] \in Handler
        /\ FrameOK([Idle EXCEPT !.at = "creating", !.id = id])
    BY IdleType DEF Handler, At, FrameOK, Idle, NoEvent, Ev
  <2>3. h' \in [Conns -> Handler] /\ \A d \in Conns : FrameOK(h'[d])
    BY <2>1, <2>2, GotoType
  <2>4. chunk' \in [Conns -> Nat]
    BY <1>1, ReadFrameType DEF CreateRoom
  <2>5. roomsGlobal' \in Int /\ roomsPerIP' \in [IPs -> Nat]
    BY <1>0, <1>1, CountTypes DEF CreateRoom
  <2> QED
    BY <1>1, <2>3, <2>4, <2>5 DEF CreateRoom, TypeInv, TypeOK, connVars, sweepVars
<1>2. CASE CreateFails(c)
  <2>1. h' \in [Conns -> Handler] /\ \A d \in Conns : FrameOK(h'[d])
    BY <1>2, IdleType, GotoType DEF CreateFails
  <2>2. roomsGlobal' \in Int /\ roomsPerIP' \in [IPs -> Nat]
    BY <1>0, <1>2, CountTypes DEF CreateFails
  <2> QED
    BY <1>2, <2>1, <2>2 DEF CreateFails, TypeInv, TypeOK, connVars, sweepVars
<1> QED
  BY <1>1, <1>2

\* The new room and its host go into the map.
LEMMA PublishType ==
  ASSUME TypeInv, NEW c \in Conns, PublishRoom(c)
  PROVE  TypeInv'
<1>0. /\ h[c] \in Handler /\ FrameOK(h[c]) /\ h[c].id \in RoomIds
      /\ nObj \in Nat /\ nObj + 1 \in Objs /\ now \in Time /\ IpOf[c] \in IPs
  BY RoomRegistryAssumption
  DEF PublishRoom, CanBuild, TypeInv, TypeOK, Objs, FrameOK
<1>1. PICK e \in Epochs, pw \in Passwords :
        /\ obj' = [obj EXCEPT ![nObj + 1] =
                     HostAttached(NewRoom(h[c].id, IpOf[c], now, now, pw), c, e)]
        /\ Goto(c, [h[c] EXCEPT !.at = "created", !.obj = nObj + 1,
                                !.createdAt = now, !.password = pw])
  BY DEF PublishRoom
<1>2. pw \in BOOLEAN
  BY RoomRegistryAssumption
<1>3. HostAttached(NewRoom(h[c].id, IpOf[c], now, now, pw), c, e) \in Room
  BY <1>0, <1>2, NewRoomFacts, HostAttachedFacts
<1> DEFINE f == [h[c] EXCEPT !.at = "created", !.obj = nObj + 1,
                             !.createdAt = now, !.password = pw]
<1>4. f \in Handler /\ FrameOK(f)
  BY <1>0, <1>2 DEF Handler, At, FrameOK
<1> HIDE DEF f
<1>5. h' \in [Conns -> Handler] /\ \A d \in Conns : FrameOK(h'[d])
  BY <1>1, <1>4, GotoType DEF f
<1>6. nObj' \in 0..MaxObjs
  BY <1>0 DEF PublishRoom, Objs
<1>7. rooms' \in [RoomIds -> Objs \union {NoObj}] /\ obj' \in [Objs -> Room]
  BY <1>0, <1>1, <1>3 DEF PublishRoom, TypeInv, TypeOK
<1> QED
  BY <1>5, <1>6, <1>7
  DEF PublishRoom, TypeInv, TypeOK, countVars, connVars, sweepVars

\* The creator's session.
LEMMA AttachCreatorType ==
  ASSUME TypeInv, NEW c \in Conns, AttachCreator(c)
  PROVE  TypeInv'
<1> DEFINE ev == Ev("create-response", NoEpoch)
           f  == [h[c] EXCEPT !.at = "replying", !.ev = ev]
<1>0. h[c] \in Handler /\ h[c].id \in RoomIds /\ h[c].obj \in Objs
  BY DEF AttachCreator, TypeInv, TypeOK, FrameOK
<1>1. ev \in Event
  BY EventTypes DEF EventType, OptEpoch
<1> HIDE DEF ev
<1>2. f \in Handler /\ FrameOK(f)
  BY <1>0, <1>1 DEF Handler, At, FrameOK
<1> HIDE DEF f
<1>3. h' \in [Conns -> Handler] /\ \A d \in Conns : FrameOK(h'[d])
  BY <1>2, GotoType DEF AttachCreator, f, ev
<1>4. sess' \in [Conns -> Session]
  BY <1>0 DEF AttachCreator, TypeInv, TypeOK, Session, Role
<1> QED
  BY <1>3, <1>4 DEF AttachCreator, TypeInv, TypeOK, countVars, sweepVars

\* The response, and the token a client takes from it.
LEMMA ReplyTypes ==
  ASSUME TypeInv, NEW c \in Conns, Reply(c) \/ ReplyFatal(c)
  PROVE  TypeInv'
<1>0. h[c] \in Handler /\ FrameOK(h[c]) /\ h[c].ev \in Event
  BY DEF TypeInv, TypeOK, Handler
<1>1. h' \in [Conns -> Handler] /\ \A d \in Conns : FrameOK(h'[d])
  BY IdleType, GotoType DEF Reply, ReplyFatal
<1>2. CASE Reply(c)
  <2>1. told' \in [Conns -> Told]
    BY <1>0, <1>2, SendType DEF Reply, TypeInv, TypeOK
  <2>2. tokens' \subseteq Token
    BY <1>0, <1>2 DEF Reply, TypeInv, TypeOK, Token, Handler, FrameOK
  <2> QED
    BY <1>1, <1>2, <2>1, <2>2
    DEF Reply, TypeInv, TypeOK, countVars, connVars, sweepVars
<1>3. CASE ReplyFatal(c)
  BY <1>1, <1>3, CloseFacts DEF ReplyFatal, TypeInv, TypeOK, countVars, sweepVars
<1> QED
  BY <1>2, <1>3

\* join-room.
LEMMA JoinLookupTypes ==
  ASSUME TypeInv, NEW c \in Conns, JoinRoom(c) \/ JoinLookup(c) \/ JoinRefused(c)
  PROVE  TypeInv'
<1>1. CASE JoinRoom(c)
  <2>1. PICK id \in RoomIds : Goto(c, [Idle EXCEPT !.at = "joining", !.id = id])
    BY <1>1 DEF JoinRoom
  <2>2. /\ [Idle EXCEPT !.at = "joining", !.id = id] \in Handler
        /\ FrameOK([Idle EXCEPT !.at = "joining", !.id = id])
    BY IdleType DEF Handler, At, FrameOK, Idle, NoEvent, Ev
  <2>3. h' \in [Conns -> Handler] /\ \A d \in Conns : FrameOK(h'[d])
    BY <2>1, <2>2, GotoType
  <2>4. chunk' \in [Conns -> Nat]
    BY <1>1, ReadFrameType DEF JoinRoom
  <2> QED
    BY <1>1, <2>3, <2>4
    DEF JoinRoom, TypeInv, TypeOK, countVars, connVars, sweepVars
<1>2. CASE JoinLookup(c)
  <2> DEFINE f == IF rooms[h[c].id] = NoObj THEN Idle
                  ELSE [h[c] EXCEPT !.at = "joinLock", !.obj = rooms[h[c].id]]
  <2>1. h[c] \in Handler /\ FrameOK(h[c]) /\ h[c].id \in RoomIds
        /\ rooms[h[c].id] \in Objs \union {NoObj}
    BY <1>2 DEF JoinLookup, TypeInv, TypeOK, FrameOK
  <2>2. f \in Handler /\ FrameOK(f)
    BY <2>1, IdleType DEF Handler, At, FrameOK
  <2> HIDE DEF f
  <2>3. h' \in [Conns -> Handler] /\ \A d \in Conns : FrameOK(h'[d])
    BY <1>2, <2>2, GotoType DEF JoinLookup, f
  <2> QED
    BY <1>2, <2>3 DEF JoinLookup, TypeInv, TypeOK, countVars, connVars, sweepVars
<1>3. CASE JoinRefused(c)
  <2>1. h' \in [Conns -> Handler] /\ \A d \in Conns : FrameOK(h'[d])
    BY <1>3, IdleType, GotoType DEF JoinRefused
  <2> QED
    BY <1>3, <2>1 DEF JoinRefused, TypeInv, TypeOK, countVars, connVars, sweepVars
<1> QED
  BY <1>1, <1>2, <1>3

\* A close and its tombstone.
LEMMA CloseRoomLockedTypes ==
  ASSUME TypeInv, NEW o \in Objs, NEW rm \in Room, closeRoomLocked(o, rm)
  PROVE  /\ tomb' \in [RoomIds -> OptTime]
         /\ sock' \in [Conns -> SockState]
         /\ obj' \in [Objs -> Room]
         /\ rooms' \in [RoomIds -> Objs \union {NoObj}]
         /\ roomsGlobal' \in Int
         /\ roomsPerIP' \in [IPs -> Nat]
<1>1. tomb' \in [RoomIds -> OptTime]
  BY DEF closeRoomLocked, TypeInv, TypeOK, OptTime
<1> QED
  BY <1>1, EndRoomTypes DEF closeRoomLocked

\* A wrong password, the last one included.
LEMMA JoinWrongPasswordType ==
  ASSUME TypeInv, NEW c \in Conns, JoinWrongPassword(c)
  PROVE  TypeInv'
<1> DEFINE o  == h[c].obj
           rm == GuessedWrong(obj[o])
           ev == Ev("locked-out", NoEpoch)
           f  == [h[c] EXCEPT !.at = "replying", !.ev = ev]
<1>0. h[c] \in Handler /\ o \in Objs /\ obj[o] \in Room
  BY DEF JoinWrongPassword, TypeInv, TypeOK, FrameOK
<1>1. rm \in Room
  BY <1>0, GuessedWrongFacts
<1>2. ev \in Event /\ ev.type = "locked-out"
  BY EventTypes DEF EventType, OptEpoch
<1> HIDE DEF ev
<1>3. f \in Handler /\ FrameOK(f)
  BY <1>0, <1>2 DEF Handler, At, FrameOK
<1> HIDE DEF f
<1>4. Goto(c, f) \/ Goto(c, Idle)
  BY DEF JoinWrongPassword, f, ev
<1>5. h' \in [Conns -> Handler] /\ \A d \in Conns : FrameOK(h'[d])
  BY <1>3, <1>4, IdleType, GotoType
<1>6. /\ tomb' \in [RoomIds -> OptTime]
      /\ sock' \in [Conns -> SockState]
      /\ obj' \in [Objs -> Room]
      /\ rooms' \in [RoomIds -> Objs \union {NoObj}]
      /\ roomsGlobal' \in Int
      /\ roomsPerIP' \in [IPs -> Nat]
  <2>1. CASE LockedOut(rm)
    BY <1>0, <1>1, <2>1, CloseRoomLockedTypes DEF JoinWrongPassword
  <2>2. CASE ~LockedOut(rm)
    BY <1>0, <1>1, <2>2 DEF JoinWrongPassword, TypeInv, TypeOK, countVars
  <2> QED
    BY <2>1, <2>2
<1> QED
  BY <1>5, <1>6 DEF JoinWrongPassword, TypeInv, TypeOK, sweepVars

\* A guest attaches.
LEMMA JoinAttachType ==
  ASSUME TypeInv, NEW c \in Conns, JoinAttach(c)
  PROVE  TypeInv'
<1> DEFINE o    == h[c].obj
           host == obj[o].slots["host"]
           ev   == Ev("join-response", host.epoch)
           f    == [h[c] EXCEPT !.at = "replying", !.role = "guest",
                                !.createdAt = obj[o].createdAt,
                                !.password = obj[o].password, !.ev = ev]
<1>0. h[c] \in Handler /\ o \in Objs /\ obj[o] \in Room /\ h[c].id \in RoomIds
  BY DEF JoinAttach, TypeInv, TypeOK, FrameOK
<1>1. host \in Slot /\ host.epoch \in OptEpoch
  BY <1>0, SlotOf DEF Role, Slot
<1>2. ev \in Event
  BY <1>1, EventTypes DEF EventType
<1>3. obj[o].createdAt \in Time /\ obj[o].password \in BOOLEAN
  BY <1>0 DEF Room
<1> HIDE DEF ev
<1>4. f \in Handler /\ FrameOK(f)
  BY <1>0, <1>2, <1>3 DEF Handler, At, Role, FrameOK
<1> HIDE DEF f
<1>5. h' \in [Conns -> Handler] /\ \A d \in Conns : FrameOK(h'[d])
  BY <1>4, GotoType DEF JoinAttach, f, ev
<1>6. PICK e \in Epochs :
        /\ obj' = [obj EXCEPT ![o] = GuestAttached(obj[o], c, e)]
        /\ told' = Send(told, host.conn, Ev("guest-joined", e))
  BY <1>0 DEF JoinAttach
<1>7. obj' \in [Objs -> Room]
  BY <1>0, <1>6, GuestAttachedFacts DEF TypeInv, TypeOK
<1>8. Ev("guest-joined", e) \in Event
  BY EventTypes DEF EventType, OptEpoch
<1>9. told' \in [Conns -> Told]
  BY <1>6, <1>8, SendType DEF TypeInv, TypeOK
<1>10. sess' \in [Conns -> Session]
  BY <1>0 DEF JoinAttach, TypeInv, TypeOK, Session, Role
<1> QED
  BY <1>5, <1>7, <1>9, <1>10 DEF JoinAttach, TypeInv, TypeOK, countVars, sweepVars

\* rejoin-room.
LEMMA RejoinRoomType ==
  ASSUME TypeInv, NEW c \in Conns, RejoinRoom(c)
  PROVE  TypeInv'
<1>1. PICK tok \in tokens :
        Goto(c, [Idle EXCEPT !.at = "rejoining", !.id = tok.id,
                             !.role = tok.role, !.createdAt = tok.createdAt,
                             !.password = tok.password, !.t = now])
  BY DEF RejoinRoom
<1> DEFINE f == [Idle EXCEPT !.at = "rejoining", !.id = tok.id,
                             !.role = tok.role, !.createdAt = tok.createdAt,
                             !.password = tok.password, !.t = now]
<1>2. /\ tok.id \in RoomIds /\ tok.role \in Role /\ tok.createdAt \in Time
      /\ tok.password \in BOOLEAN /\ now \in Time
  BY DEF TypeInv, TypeOK, Token
<1>3. f \in Handler /\ f.at = "rejoining" /\ f.id = tok.id /\ f.ev = NoEvent
  BY <1>2, IdleType DEF Handler, At, Idle
<1>4. FrameOK(f)
  BY <1>2, <1>3 DEF FrameOK, NoEvent, Ev
<1> HIDE DEF f
<1>5. h' \in [Conns -> Handler] /\ \A d \in Conns : FrameOK(h'[d])
  BY <1>1, <1>3, <1>4, GotoType DEF f
<1>6. chunk' \in [Conns -> Nat]
  BY ReadFrameType DEF RejoinRoom
<1> QED
  BY <1>5, <1>6 DEF RejoinRoom, TypeInv, TypeOK, countVars, connVars, sweepVars

\* The lookup of a rejoin and its refusals.
LEMMA RejoinLookupTypes ==
  ASSUME TypeInv, NEW c \in Conns, RejoinLookup(c) \/ RejoinRefused(c)
  PROVE  TypeInv'
<1>1. CASE RejoinLookup(c)
  <2> DEFINE f == IF rooms[h[c].id] = NoObj
                  THEN [h[c] EXCEPT !.at = "recreating"]
                  ELSE [h[c] EXCEPT !.at = "rejoinLock", !.obj = rooms[h[c].id]]
  <2>1. h[c] \in Handler /\ FrameOK(h[c]) /\ h[c].id \in RoomIds
        /\ rooms[h[c].id] \in Objs \union {NoObj}
    BY <1>1 DEF RejoinLookup, TypeInv, TypeOK, FrameOK
  <2>2. f \in Handler /\ FrameOK(f)
    BY <2>1 DEF Handler, At, FrameOK
  <2> HIDE DEF f
  <2>3. h' \in [Conns -> Handler] /\ \A d \in Conns : FrameOK(h'[d])
    BY <1>1, <2>2, GotoType DEF RejoinLookup, f
  <2> QED
    BY <1>1, <2>3 DEF RejoinLookup, TypeInv, TypeOK, countVars, connVars, sweepVars
<1>2. CASE RejoinRefused(c)
  <2>1. h' \in [Conns -> Handler] /\ \A d \in Conns : FrameOK(h'[d])
    BY <1>2, IdleType, GotoType DEF RejoinRefused
  <2> QED
    BY <1>2, <2>1 DEF RejoinRefused, TypeInv, TypeOK, countVars, connVars, sweepVars
<1> QED
  BY <1>1, <1>2

\* The room is built again from the token.
LEMMA RecreateType ==
  ASSUME TypeInv, NEW c \in Conns, Recreate(c)
  PROVE  TypeInv'
<1> DEFINE rm == NewRoom(h[c].id, IpOf[c], h[c].createdAt, h[c].t, h[c].password)
           f  == [h[c] EXCEPT !.at = "rejoinLock", !.obj = nObj + 1,
                              !.recreated = TRUE]
<1>0. /\ h[c] \in Handler /\ FrameOK(h[c]) /\ h[c].id \in RoomIds
      /\ nObj \in Nat /\ nObj + 1 \in Objs /\ IpOf[c] \in IPs
  BY RoomRegistryAssumption
  DEF Recreate, CanBuild, TypeInv, TypeOK, Objs, FrameOK
<1>1. rm \in Room
  BY <1>0, NewRoomFacts DEF Handler
<1>2. f \in Handler /\ FrameOK(f)
  BY <1>0 DEF Handler, At, FrameOK
<1> HIDE DEF f, rm
<1>3. h' \in [Conns -> Handler] /\ \A d \in Conns : FrameOK(h'[d])
  BY <1>2, GotoType DEF Recreate, f
<1>4. obj' = [obj EXCEPT ![nObj + 1] = rm]
  BY DEF Recreate, rm
<1>5. rooms' \in [RoomIds -> Objs \union {NoObj}] /\ obj' \in [Objs -> Room]
  BY <1>0, <1>1, <1>4 DEF Recreate, TypeInv, TypeOK
<1>6. nObj' \in 0..MaxObjs
  BY <1>0 DEF Recreate, Objs
<1>7. roomsGlobal' \in Int /\ roomsPerIP' \in [IPs -> Nat]
  BY <1>0, CountTypes DEF Recreate
<1> QED
  BY <1>3, <1>5, <1>6, <1>7 DEF Recreate, TypeInv, TypeOK, connVars, sweepVars

\* A token holder attaches.
LEMMA RejoinAttachType ==
  ASSUME TypeInv, NEW c \in Conns, RejoinAttach(c)
  PROVE  TypeInv'
<1> DEFINE o     == h[c].obj
           role  == h[c].role
           rm    == obj[o]
           other == rm.slots[Other(role)]
           ev    == Ev("rejoin-response", other.epoch)
           f     == [h[c] EXCEPT !.at = "replying", !.ev = ev]
<1>0. /\ h[c] \in Handler /\ o \in Objs /\ rm \in Room /\ h[c].id \in RoomIds
      /\ role \in Role /\ h[c].recreated \in BOOLEAN /\ h[c].t \in Time
  BY DEF RejoinAttach, TypeInv, TypeOK, FrameOK, Handler
<1>1. /\ other \in Slot /\ other.epoch \in OptEpoch
      /\ rm.slots[role] \in Slot
  BY <1>0, SlotOf, OtherRole DEF Slot
<1>2. ev \in Event /\ ev.type = "rejoin-response"
  BY <1>1, EventTypes DEF EventType
<1> HIDE DEF ev
<1>3. f \in Handler /\ FrameOK(f)
  BY <1>0, <1>2 DEF Handler, At, FrameOK
<1> HIDE DEF f
<1>4. h' \in [Conns -> Handler] /\ \A d \in Conns : FrameOK(h'[d])
  BY <1>3, GotoType DEF RejoinAttach, f, ev
<1>5. PICK e \in Epochs :
        LET changed == EpochChanged(rm, role, e, h[c].recreated)
            next    == Send(told, other.conn,
                            Ev(IF changed THEN "peer-reset"
                               ELSE "peer-rejoined", e))
        IN  /\ obj' = [obj EXCEPT ![o] =
                         Rejoined(rm, role, c, e, h[c].recreated, h[c].t)]
            /\ told' = IF changed \/ sock[c] # "open" THEN next
                      ELSE [next EXCEPT ![c].signals = @ \o Replay(rm.slots[role])]
  BY <1>0 DEF RejoinAttach
<1>6. obj' \in [Objs -> Room]
  BY <1>0, <1>5, RejoinedFacts DEF TypeInv, TypeOK
<1>7. told' \in [Conns -> Told]
  <2> DEFINE changed == EpochChanged(rm, role, e, h[c].recreated)
             type    == IF changed THEN "peer-reset" ELSE "peer-rejoined"
             next    == Send(told, other.conn, Ev(type, e))
             v       == next[c]
             rep     == Replay(rm.slots[role])
  <2>1. Ev(type, e) \in Event
    BY EventTypes DEF EventType, OptEpoch
  <2>2. next \in [Conns -> Told]
    BY <2>1, SendType DEF TypeInv, TypeOK
  <2>3. rep \in Seq(Event)
    BY <1>1, ReplayType
  <2>4. told' = next \/ told' = [next EXCEPT ![c].signals = @ \o rep]
    BY <1>5
  <2> HIDE DEF next, rep
  <2>5. v \in Told /\ v.signals \in Seq(Event)
    BY <2>2 DEF Told
  <2>6. v.signals \o rep \in Seq(Event)
    BY <2>3, <2>5
  <2>7. [v EXCEPT !.signals = @ \o rep] \in Told
    BY <2>5, <2>6 DEF Told
  <2> QED
    BY <2>2, <2>4, <2>7
<1>8. sess' \in [Conns -> Session]
  BY <1>0 DEF RejoinAttach, TypeInv, TypeOK, Session
<1>9. sock' \in [Conns -> SockState]
  BY CloseFacts DEF RejoinAttach, TypeInv, TypeOK
<1> QED
  BY <1>4, <1>6, <1>7, <1>8, <1>9
  DEF RejoinAttach, TypeInv, TypeOK, countVars, sweepVars

\* signal, peer-connected and close-room.
LEMMA LoadTypes ==
  ASSUME TypeInv, NEW c \in Conns, CheckAttached(c) \/ LoadRoom(c)
  PROVE  TypeInv'
<1>1. CASE CheckAttached(c)
  <2>1. /\ [Idle EXCEPT !.at = "checked"] \in Handler
        /\ FrameOK([Idle EXCEPT !.at = "checked"])
    BY IdleType DEF Handler, At, FrameOK, Idle, NoEvent, Ev
  <2>2. h' \in [Conns -> Handler] /\ \A d \in Conns : FrameOK(h'[d])
    BY <1>1, <2>1, GotoType DEF CheckAttached
  <2>3. chunk' \in [Conns -> Nat]
    BY <1>1, ReadFrameType DEF CheckAttached
  <2> QED
    BY <1>1, <2>2, <2>3
    DEF CheckAttached, TypeInv, TypeOK, countVars, connVars, sweepVars
<1>2. CASE LoadRoom(c)
  <2> DEFINE f == [h[c] EXCEPT !.at = "loaded", !.obj = sess[c].room,
                               !.role = sess[c].role]
  <2>1. /\ h[c] \in Handler /\ FrameOK(h[c])
        /\ sess[c].room \in Objs \union {NoObj} /\ sess[c].role \in Role
    BY DEF TypeInv, TypeOK, Session
  <2>2. sess[c].room # NoObj => f \in Handler /\ FrameOK(f)
    BY <2>1 DEF Handler, At, FrameOK
  <2> HIDE DEF f
  <2>3. \/ sess[c].room # NoObj /\ Goto(c, f)
        \/ h' = h
    BY <1>2 DEF LoadRoom, f
  <2>4. h' \in [Conns -> Handler] /\ \A d \in Conns : FrameOK(h'[d])
    <3>1. CASE sess[c].room # NoObj /\ Goto(c, f)
      BY <2>2, <3>1, GotoType
    <3>2. CASE h' = h
      BY <3>2 DEF TypeInv, TypeOK
    <3> QED
      BY <2>3, <3>1, <3>2
  <2>5. crashed \in BOOLEAN
    BY DEF TypeInv, TypeOK
  <2>6. crashed' \in BOOLEAN
    <3>1. CASE sess[c].room = NoObj
      <4>1. crashed' = TRUE
        BY <1>2, <3>1 DEF LoadRoom
      <4> QED
        BY <4>1, Zenon
    <3>2. CASE sess[c].room # NoObj
      <4>1. crashed' = crashed
        BY <1>2, <3>2, Zenon DEF LoadRoom
      <4> QED
        BY <2>5, <4>1, Zenon
    <3> QED
      BY <3>1, <3>2
  <2> QED
    BY <1>2, <2>4, <2>6
    DEF LoadRoom, TypeInv, TypeOK, countVars, connVars, sweepVars
<1> QED
  BY <1>1, <1>2

\* A signal is dropped, forwarded, buffered, or overflows the buffer.
LEMMA SignalType ==
  ASSUME TypeInv, NEW c \in Conns, Signal(c)
  PROVE  TypeInv'
<1> DEFINE o     == h[c].obj
           role  == h[c].role
           rm    == obj[o]
           mine  == rm.slots[role]
           other == rm.slots[Other(role)]
           ev    == Ev("overflow", NoEpoch)
           f     == [Idle EXCEPT !.at = "replying", !.ev = ev]
<1>0. h[c] \in Handler /\ o \in Objs /\ rm \in Room /\ role \in Role
  BY DEF Signal, TypeInv, TypeOK, FrameOK, Handler
<1>1. mine.epoch \in OptEpoch
  BY <1>0, SlotOf DEF Slot
<1>2. ev \in Event /\ ev.type = "overflow"
  BY EventTypes DEF EventType, OptEpoch
<1> HIDE DEF ev
<1>3. f \in Handler /\ FrameOK(f)
  <2>1. f \in Handler /\ f.at = "replying" /\ f.ev = ev
    BY <1>2, IdleType DEF Handler, At
  <2> QED
    BY <1>2, <2>1 DEF FrameOK
<1> HIDE DEF f
<1>4. PICK seq \in 1..MaxSeq, size \in Sizes :
        /\ \/ obj' = obj
           \/ obj' = [obj EXCEPT ![o] = Accepted(rm, role, seq)]
           \/ obj' = [obj EXCEPT ![o] = Overflowed(rm, role, seq)]
           \/ obj' = [obj EXCEPT ![o] = Buffered(rm, role, seq, size)]
        /\ \/ told' = told
           \/ told' = Send(told, other.conn, SignalEv(mine.epoch, seq))
        /\ Goto(c, Idle) \/ Goto(c, f)
  BY <1>0 DEF Signal, f, ev
<1>5. /\ Accepted(rm, role, seq) \in Room
      /\ Overflowed(rm, role, seq) \in Room
      /\ Buffered(rm, role, seq, size) \in Room
  BY <1>0, AcceptedFacts, OverflowedFacts, BufferedFacts
<1>6. obj' \in [Objs -> Room]
  BY <1>0, <1>4, <1>5 DEF TypeInv, TypeOK
<1>7. SignalEv(mine.epoch, seq) \in Event
  BY <1>1, EventTypes
<1>8. told' \in [Conns -> Told]
  BY <1>4, <1>7, SendType DEF TypeInv, TypeOK
<1>9. h' \in [Conns -> Handler] /\ \A d \in Conns : FrameOK(h'[d])
  BY <1>3, <1>4, IdleType, GotoType
<1> QED
  BY <1>6, <1>8, <1>9 DEF Signal, TypeInv, TypeOK, countVars, connVars, sweepVars

\* A report and a close.
LEMMA ReportTypes ==
  ASSUME TypeInv, NEW c \in Conns, PeerConnected(c) \/ CloseRoom(c)
  PROVE  TypeInv'
<1>0. /\ h[c].obj \in Objs /\ obj[h[c].obj] \in Room /\ h[c].role \in Role
      /\ now \in Time
  BY DEF PeerConnected, CloseRoom, TypeInv, TypeOK, FrameOK, Handler
<1>1. h' \in [Conns -> Handler] /\ \A d \in Conns : FrameOK(h'[d])
  BY IdleType, GotoType DEF PeerConnected, CloseRoom
<1>2. CASE PeerConnected(c)
  <2>1. obj' \in [Objs -> Room]
    BY <1>0, <1>2, ReportedFacts DEF PeerConnected, TypeInv, TypeOK
  <2> QED
    BY <1>1, <1>2, <2>1
    DEF PeerConnected, TypeInv, TypeOK, countVars, connVars, sweepVars
<1>3. CASE CloseRoom(c)
  <2>1. /\ tomb' \in [RoomIds -> OptTime]
        /\ sock' \in [Conns -> SockState]
        /\ obj' \in [Objs -> Room]
        /\ rooms' \in [RoomIds -> Objs \union {NoObj}]
        /\ roomsGlobal' \in Int
        /\ roomsPerIP' \in [IPs -> Nat]
    BY <1>0, <1>3, CloseRoomLockedTypes DEF CloseRoom
  <2> QED
    BY <1>1, <1>3, <2>1 DEF CloseRoom, TypeInv, TypeOK, sweepVars
<1> QED
  BY <1>2, <1>3

\* The sweep and the clock.
LEMMA SweepTypes ==
  ASSUME TypeInv, Sweep \/ Tick
  PROVE  TypeInv'
<1>1. CASE SweepStart
  <2>1. tomb' \in [RoomIds -> OptTime]
    BY <1>1 DEF SweepStart, TypeInv, TypeOK, OptTime
  <2>2. sweepQ' \subseteq Objs
    BY <1>1 DEF SweepStart, TypeInv, TypeOK
  <2> QED
    BY <1>1, <2>1, <2>2
    DEF SweepStart, TypeInv, TypeOK, countVars, connVars
<1>2. ASSUME NEW o \in Objs, SweepRoom(o) PROVE TypeInv'
  <2>1. obj[o] \in Room
    BY DEF TypeInv, TypeOK
  <2>2. /\ sock' \in [Conns -> SockState]
        /\ obj' \in [Objs -> Room]
        /\ rooms' \in [RoomIds -> Objs \union {NoObj}]
        /\ roomsGlobal' \in Int
        /\ roomsPerIP' \in [IPs -> Nat]
    BY <1>2, <2>1, EndRoomTypes DEF SweepRoom, TypeInv, TypeOK, countVars
  <2> QED
    BY <1>2, <2>2 DEF SweepRoom, TypeInv, TypeOK
<1>3. CASE Tick
  BY <1>3 DEF Tick, TypeInv, TypeOK, Time, countVars, connVars, sweepVars
<1> QED
  BY <1>1, <1>2, <1>3 DEF Sweep

\* Every step keeps the types.
LEMMA NextType == TypeInv /\ [Next]_vars => TypeInv'
<1> SUFFICES ASSUME TypeInv, [Next]_vars PROVE TypeInv'
  OBVIOUS
<1>1. CASE UNCHANGED vars
  BY <1>1 DEF vars, countVars, connVars, sweepVars, TypeInv, TypeOK
<1>2. ASSUME NEW c \in Conns, Accept(c) \/ SocketCloses(c) \/ Release(c)
      PROVE  TypeInv'
  BY <1>2, ConnectionTypes, DetachRoomType DEF Release
<1>3. ASSUME NEW c \in Conns, Request(c) PROVE TypeInv'
  BY <1>3, CreateTypes, JoinLookupTypes, RejoinRoomType, LoadTypes DEF Request
<1>4. ASSUME NEW c \in Conns, Continue(c) PROVE TypeInv'
  BY <1>4, CreateTypes, PublishType, AttachCreatorType, ReplyTypes,
     JoinLookupTypes, JoinWrongPasswordType, JoinAttachType, RejoinLookupTypes,
     RecreateType, RejoinAttachType, LoadTypes, SignalType, ReportTypes
  DEF Continue
<1> QED
  BY <1>1, <1>2, <1>3, <1>4, SweepTypes DEF Next

\* The registry's state is well typed whatever goroutines interleave: no
\* handler holds a room pointer it did not look up, no counter of an address
\* goes below zero, and a reader never dispatches more frames than it read.
THEOREM TypeCorrect == Spec => []TypeOK
<1>1. TypeInv => TypeOK
  BY DEF TypeInv
<1> QED
  BY InitType, NextType, <1>1, PTL DEF Spec

-----------------------------------------------------------------------------
(* The signal buffers *)

\* Writing a room whose buffers are within the limits.
LEMMA BoundedWrite ==
  ASSUME TypeInv, BufferBounded, NEW o \in Objs, NEW rm,
         BuffersBounded(obj[o]) => BuffersBounded(rm),
         obj' = [obj EXCEPT ![o] = rm]
  PROVE  BufferBounded'
<1>1. \A q \in Objs : BuffersBounded(obj[q])
  BY DEF BufferBounded, BuffersBounded
<1>2. \A q \in Objs : BuffersBounded(obj'[q])
  BY <1>1 DEF TypeInv, TypeOK
<1> QED
  BY <1>2 DEF BufferBounded, BuffersBounded

\* A room that ends keeps its buffers.
LEMMA BoundedEnd ==
  ASSUME TypeInv, BufferBounded, NEW o \in Objs, NEW rm \in Room,
         rm.slots = obj[o].slots, endRoom(o, rm)
  PROVE  BufferBounded'
<1>1. BuffersBounded(obj[o]) => BuffersBounded(rm)
  BY DEF BuffersBounded
<1>2. BuffersBounded(rm) => BuffersBounded(Emptied(rm))
  BY EmptiedFacts
<1> QED
  BY <1>1, <1>2, BoundedWrite DEF endRoom

\* Building, attaching, rejoining and leaving never grow a buffer.
LEMMA BoundedMoves ==
  ASSUME TypeInv, BufferBounded, NEW c \in Conns,
         \/ PublishRoom(c) \/ Recreate(c) \/ JoinAttach(c) \/ RejoinAttach(c)
         \/ DetachRoom(c)
  PROVE  BufferBounded'
<1>0. /\ h[c] \in Handler /\ FrameOK(h[c]) /\ obj \in [Objs -> Room] /\ now \in Time
      /\ IpOf[c] \in IPs /\ h[c].t \in Time /\ h[c].createdAt \in Time
      /\ h[c].password \in BOOLEAN /\ h[c].recreated \in BOOLEAN /\ h[c].role \in Role
  BY RoomRegistryAssumption DEF TypeInv, TypeOK, Handler
<1>1. CASE PublishRoom(c)
  <2>0. nObj \in 0..MaxObjs /\ nObj < MaxObjs
    BY <1>1 DEF PublishRoom, CanBuild, TypeInv, TypeOK
  <2>1. nObj + 1 \in Objs
    BY <2>0, RoomRegistryAssumption DEF Objs
  <2>id. h[c].id \in RoomIds
    BY <1>0, <1>1 DEF PublishRoom, FrameOK
  <2>2. PICK e \in Epochs, pw \in Passwords :
          obj' = [obj EXCEPT ![nObj + 1] =
                    HostAttached(NewRoom(h[c].id, IpOf[c], now, now, pw), c, e)]
    BY <1>1 DEF PublishRoom
  <2>3. pw \in BOOLEAN
    BY RoomRegistryAssumption
  <2>4. BuffersBounded(HostAttached(NewRoom(h[c].id, IpOf[c], now, now, pw), c, e))
    BY <1>0, <2>id, <2>3, NewRoomFacts, HostAttachedFacts
  <2> QED
    BY <2>1, <2>2, <2>4, BoundedWrite
<1>2. CASE Recreate(c)
  <2>0. nObj \in 0..MaxObjs /\ nObj < MaxObjs
    BY <1>2 DEF Recreate, CanBuild, TypeInv, TypeOK
  <2>1. nObj + 1 \in Objs
    BY <2>0, RoomRegistryAssumption DEF Objs
  <2>id. h[c].id \in RoomIds
    BY <1>0, <1>2 DEF Recreate, FrameOK
  <2>2. BuffersBounded(NewRoom(h[c].id, IpOf[c], h[c].createdAt, h[c].t, h[c].password))
    BY <1>0, <2>id, NewRoomFacts
  <2> QED
    BY <1>2, <2>1, <2>2, BoundedWrite DEF Recreate
<1>3. CASE JoinAttach(c)
  <2>1. h[c].obj \in Objs /\ obj[h[c].obj] \in Room
    BY <1>0, <1>3 DEF JoinAttach, FrameOK
  <2>2. PICK e \in Epochs :
          obj' = [obj EXCEPT ![h[c].obj] = GuestAttached(obj[h[c].obj], c, e)]
    BY <1>3 DEF JoinAttach
  <2>3. BuffersBounded(obj[h[c].obj]) => BuffersBounded(GuestAttached(obj[h[c].obj], c, e))
    BY <2>1, GuestAttachedFacts
  <2> QED
    BY <2>1, <2>2, <2>3, BoundedWrite
<1>4. CASE RejoinAttach(c)
  <2>1. h[c].obj \in Objs /\ obj[h[c].obj] \in Room
    BY <1>0, <1>4 DEF RejoinAttach, FrameOK
  <2>2. PICK e \in Epochs :
          obj' = [obj EXCEPT ![h[c].obj] =
                    Rejoined(obj[h[c].obj], h[c].role, c, e, h[c].recreated, h[c].t)]
    BY <1>4 DEF RejoinAttach
  <2>3. BuffersBounded(obj[h[c].obj]) =>
          BuffersBounded(Rejoined(obj[h[c].obj], h[c].role, c, e, h[c].recreated, h[c].t))
    BY <1>0, <2>1, RejoinedFacts
  <2> QED
    BY <2>1, <2>2, <2>3, BoundedWrite
<1>5. CASE DetachRoom(c)
  <2> DEFINE o    == det[c].room
             role == det[c].role
  <2>1. o \in Objs \union {NoObj} /\ role \in Role
    BY DEF TypeInv, TypeOK, Session
  <2>2. CASE o = NoObj
    BY <1>5, <2>2 DEF DetachRoom, BufferBounded
  <2>3. CASE o # NoObj
    <3>1. o \in Objs /\ obj[o] \in Room
      BY <1>0, <2>1, <2>3
    <3>2. \/ obj' = [obj EXCEPT ![o] = Vacated(obj[o], role, c)]
          \/ obj' = [obj EXCEPT ![o] = Detached(obj[o], role, c, now)]
      BY <1>5, <2>3, <3>1 DEF DetachRoom
    <3>3. BuffersBounded(obj[o]) => BuffersBounded(Vacated(obj[o], role, c))
      BY <2>1, <3>1, VacatedFacts
    <3>4. BuffersBounded(obj[o]) => BuffersBounded(Detached(obj[o], role, c, now))
      BY <1>0, <2>1, <3>1, DetachedFacts
    <3> QED
      BY <3>1, <3>2, <3>3, <3>4, BoundedWrite
  <2> QED
    BY <2>2, <2>3
<1> QED
  BY <1>1, <1>2, <1>3, <1>4, <1>5

\* Signal looks at both limits before it appends.
LEMMA BoundedSignal ==
  ASSUME TypeInv, BufferBounded, NEW c \in Conns, Signal(c)
  PROVE  BufferBounded'
<1> DEFINE o    == h[c].obj
           role == h[c].role
           rm   == obj[o]
<1>0. o \in Objs /\ rm \in Room /\ role \in Role
  BY DEF Signal, TypeInv, TypeOK, FrameOK, Handler
<1>1. BuffersBounded(rm)
  BY <1>0 DEF BufferBounded, BuffersBounded
<1>2. PICK seq \in 1..MaxSeq, size \in Sizes :
        \/ obj' = obj
        \/ obj' = [obj EXCEPT ![o] = Accepted(rm, role, seq)]
        \/ obj' = [obj EXCEPT ![o] = Overflowed(rm, role, seq)]
        \/ /\ obj' = [obj EXCEPT ![o] = Buffered(rm, role, seq, size)]
           /\ ~BufferFull(rm.slots[Other(role)], size)
  BY DEF Signal
<1> HIDE DEF o, role, rm
<1>3. BuffersBounded(Accepted(rm, role, seq))
  BY <1>0, <1>1, AcceptedFacts DEF BuffersBounded
<1>4. BuffersBounded(Overflowed(rm, role, seq))
  BY <1>0, <1>1, OverflowedFacts
<1>5. ~BufferFull(rm.slots[Other(role)], size) => BuffersBounded(Buffered(rm, role, seq, size))
  BY <1>0, <1>1, BufferedFacts
<1>6. CASE obj' = obj
  BY <1>6 DEF BufferBounded
<1>7. CASE obj' # obj
  BY <1>0, <1>2, <1>3, <1>4, <1>5, <1>7, BoundedWrite
<1> QED
  BY <1>6, <1>7

\* The other steps that write a room.
LEMMA BoundedOthers ==
  ASSUME TypeInv, BufferBounded, NEW c \in Conns,
         JoinWrongPassword(c) \/ PeerConnected(c) \/ CloseRoom(c)
  PROVE  BufferBounded'
<1> DEFINE o == h[c].obj
<1>0. o \in Objs /\ obj[o] \in Room /\ h[c].role \in Role /\ now \in Time
  BY DEF JoinWrongPassword, PeerConnected, CloseRoom, TypeInv, TypeOK, FrameOK,
         Handler
<1>1. CASE JoinWrongPassword(c)
  <2> DEFINE rm == GuessedWrong(obj[o])
  <2>1. rm \in Room /\ rm.slots = obj[o].slots
    BY <1>0, GuessedWrongFacts
  <2>2. closeRoomLocked(o, rm) \/ obj' = [obj EXCEPT ![o] = rm]
    BY <1>1 DEF JoinWrongPassword
  <2> HIDE DEF rm
  <2>3. BuffersBounded(obj[o]) => BuffersBounded(rm)
    BY <2>1 DEF BuffersBounded
  <2> QED
    BY <1>0, <2>1, <2>2, <2>3, BoundedEnd, BoundedWrite DEF closeRoomLocked
<1>2. CASE PeerConnected(c)
  <2>1. obj' = obj \/ obj' = [obj EXCEPT ![o] = Reported(obj[o], h[c].role, now)]
    BY <1>2 DEF PeerConnected
  <2>2. BuffersBounded(obj[o]) => BuffersBounded(Reported(obj[o], h[c].role, now))
    BY <1>0, ReportedFacts
  <2>3. CASE obj' = obj
    BY <2>3 DEF BufferBounded
  <2>4. CASE obj' # obj
    BY <1>0, <2>1, <2>2, <2>4, BoundedWrite
  <2> QED
    BY <2>3, <2>4
<1>3. CASE CloseRoom(c)
  BY <1>0, <1>3, BoundedEnd DEF CloseRoom, closeRoomLocked
<1> QED
  BY <1>1, <1>2, <1>3

\* Every step keeps the buffers within their limits.
LEMMA NextBounded == TypeInv /\ BufferBounded /\ [Next]_vars => BufferBounded'
<1> SUFFICES ASSUME TypeInv, BufferBounded, [Next]_vars PROVE BufferBounded'
  OBVIOUS
<1>0. obj' = obj => BufferBounded'
  BY DEF BufferBounded
<1>1. CASE UNCHANGED vars
  BY <1>0, <1>1 DEF vars
<1>2. ASSUME NEW c \in Conns, Accept(c) \/ SocketCloses(c) \/ Release(c)
      PROVE  BufferBounded'
  BY <1>0, <1>2, BoundedMoves DEF Accept, SocketCloses, Release, DetachSession
<1>3. ASSUME NEW c \in Conns, Request(c) PROVE BufferBounded'
  BY <1>0, <1>3 DEF Request, CreateRoom, JoinRoom, RejoinRoom, CheckAttached
<1>4. ASSUME NEW c \in Conns, Continue(c) PROVE BufferBounded'
  <2>1. CASE \/ CreateFails(c) \/ AttachCreator(c) \/ Reply(c) \/ ReplyFatal(c)
             \/ JoinLookup(c) \/ JoinRefused(c) \/ RejoinLookup(c)
             \/ RejoinRefused(c) \/ LoadRoom(c)
    BY <1>0, <2>1 DEF CreateFails, AttachCreator, Reply, ReplyFatal, JoinLookup,
         JoinRefused, RejoinLookup, RejoinRefused, LoadRoom
  <2> QED
    BY <1>4, <2>1, BoundedMoves, BoundedSignal, BoundedOthers DEF Continue
<1>5. CASE Sweep
  <2>1. CASE SweepStart
    BY <1>0, <2>1 DEF SweepStart
  <2>2. ASSUME NEW o \in Objs, SweepRoom(o) PROVE BufferBounded'
    <3>1. obj[o] \in Room
      BY DEF TypeInv, TypeOK
    <3> QED
      BY <1>0, <2>2, <3>1, BoundedEnd DEF SweepRoom
  <2> QED
    BY <1>5, <2>1, <2>2 DEF Sweep
<1>6. CASE Tick
  BY <1>0, <1>6 DEF Tick
<1> QED
  BY <1>1, <1>2, <1>3, <1>4, <1>5, <1>6 DEF Next

\* The server never keeps more for an absent peer than cfg.MaxBufferedSignals
\* signals and cfg.MaxBufferedSignalBytes bytes, whatever the limits are (zero
\* included) and whatever else happens to the room.
THEOREM BuffersStayBounded == Spec => []BufferBounded
<1>1. Init => BufferBounded
  <2> SUFFICES ASSUME Init PROVE BufferBounded
    OBVIOUS
  <2>1. (CHOOSE id \in RoomIds : TRUE) \in RoomIds /\ (CHOOSE ip \in IPs : TRUE) \in IPs
    BY RoomStateAssumption
  <2>2. BuffersBounded(Unbuilt)
    BY <2>1, NewRoomFacts DEF Unbuilt, Time
  <2> QED
    BY <2>2 DEF Init, BufferBounded, BuffersBounded
<1>2. TypeInv /\ BufferBounded /\ [Next]_vars => (TypeInv /\ BufferBounded)'
  BY NextType, NextBounded
<1> QED
  BY <1>1, <1>2, InitType, PTL DEF Spec

-----------------------------------------------------------------------------
(* Sessions and slots *)

\* Who is in a slot.
Seat(o, r) == obj[o].slots[r].conn

\* The points of the attaching handlers before the session is written.
Attaching == {"creating", "created", "joining", "joinLock", "rejoining",
              "recreating", "rejoinLock"}

\* SessionSlotAgree for one open connection, one part per direction and per
\* side that holds the claim.
SeatsOf(c) ==
  \A o \in Objs, r \in Role :
    Seat(o, r) = c => sess[c] = [room |-> o, role |-> r] \/ Publishing(c, o, r)

SessionSeated(c) ==
  sess[c].room # NoObj => Seat(sess[c].room, sess[c].role) = c

CreatorSeated(c) == h[c].at = "created" => Seat(h[c].obj, "host") = c

\* A handler that is about to attach belongs to a session without a room (one
\* handler per connection at a time, and only such a session starts one).
NotYet(c) == h[c].at \in Attaching => sess[c].room = NoObj

\* A pointer a handler will write through is to an object that exists.
Pointer(c) == h[c].at \in {"joinLock", "rejoinLock"} => h[c].obj \in Built

\* A connection not yet admitted has left no trace.
Untouched(c) ==
  sock[c] = "new" =>
    /\ sess[c].room = NoObj
    /\ h[c].at = "idle"
    /\ chunk[c] = 0
    /\ \A o \in Objs, r \in Role : Seat(o, r) # c

\* The map names objects that exist, and the others are empty.
MapInv ==
  /\ \A id \in RoomIds : rooms[id] \in Built \union {NoObj}
  /\ \A o \in Objs \ Built, r \in Role : Seat(o, r) = NoConn

ConnInv(c) ==
  /\ sock[c] = "open" => SeatsOf(c) /\ SessionSeated(c) /\ CreatorSeated(c)
  /\ NotYet(c)
  /\ Pointer(c)
  /\ Untouched(c)

\* The inductive invariant behind SessionSlotAgree.
AttachInv == MapInv /\ \A c \in Conns : ConnInv(c)

\* The agreement of sessions and slots follows from the invariant.
LEMMA AttachInvAgrees == TypeInv /\ AttachInv => SessionSlotAgree
<1> SUFFICES ASSUME TypeInv, AttachInv, NEW c \in Conns, sock[c] = "open",
                    NEW o \in Objs, NEW r \in Role
             PROVE  Seat(o, r) = c <=> \/ sess[c] = [room |-> o, role |-> r]
                                       \/ Publishing(c, o, r)
  BY DEF SessionSlotAgree, Seat
<1>1. SeatsOf(c) /\ SessionSeated(c) /\ CreatorSeated(c)
  BY DEF AttachInv, ConnInv
<1>2. o # NoObj
  BY DEF Objs, NoObj
<1> QED
  BY <1>1, <1>2 DEF SeatsOf, SessionSeated, CreatorSeated, Publishing

\* Nobody has arrived.
LEMMA InitAttach == Init => AttachInv
<1> SUFFICES ASSUME Init PROVE AttachInv
  OBVIOUS
<1>1. (CHOOSE id \in RoomIds : TRUE) \in RoomIds /\ (CHOOSE ip \in IPs : TRUE) \in IPs
  BY RoomStateAssumption
<1>2. \A r \in Role : Unbuilt.slots[r].conn = NoConn
  BY <1>1, NewRoomFacts DEF Unbuilt, Time
<1>3. \A o \in Objs, r \in Role : Seat(o, r) = NoConn
  BY <1>2 DEF Init, Seat
<1>4. MapInv
  BY <1>3 DEF MapInv, Init
<1>5. ASSUME NEW c \in Conns PROVE ConnInv(c)
  <2>1. h[c].at = "idle" /\ sess[c].room = NoObj /\ chunk[c] = 0 /\ sock[c] = "new"
    BY DEF Init, Idle, NoSession
  <2> QED
    BY <1>3, <2>1, RoomStateAssumption
    DEF ConnInv, NotYet, Attaching, Pointer, Untouched
<1> QED
  BY <1>4, <1>5 DEF AttachInv

-----------------------------------------------------------------------------
(* Steps that seat nobody and write no session *)

\* The handler of d stays where it is, or goes on without passing through the
\* gap between publishing a room and recording it.
HandlerMoves(d) ==
  \/ h'[d] = h[d] /\ chunk'[d] = chunk[d]
  \/ /\ sock[d] # "new"
     /\ h[d].at # "created" /\ h'[d].at # "created"
     /\ h'[d].at \in Attaching => sess[d].room = NoObj
     /\ h'[d].at \in {"joinLock", "rejoinLock"} => h'[d].obj \in Built

\* Connections only close, a slot is only emptied, of a connection that is
\* not open, and rooms only leave the map.
OnlyLeaving ==
  /\ \A d \in Conns : \/ sock'[d] = sock[d]
                      \/ sock[d] # "new" /\ sock'[d] \notin {"new", "open"}
  /\ \A o \in Objs, r \in Role :
       \/ Seat(o, r)' = Seat(o, r)
       \/ /\ Seat(o, r)' = NoConn
          /\ \A d \in Conns : Seat(o, r) = d => sock'[d] # "open"
  /\ \A id \in RoomIds : rooms'[id] \in {rooms[id], NoObj}
  /\ nObj' = nObj
  /\ sess' = sess
  /\ \A d \in Conns : HandlerMoves(d)

\* Such a step keeps the invariant.
LEMMA LeavingKeeps ==
  ASSUME TypeInv, AttachInv, OnlyLeaving
  PROVE  AttachInv'
<1>1. MapInv'
  BY DEF MapInv, OnlyLeaving, AttachInv, Built
<1>2. ASSUME NEW c \in Conns PROVE ConnInv(c)'
  <2>0. ConnInv(c) /\ HandlerMoves(c) /\ sess'[c] = sess[c]
    BY DEF AttachInv, OnlyLeaving
  <2>1. ASSUME sock'[c] = "open"
        PROVE  SeatsOf(c)' /\ SessionSeated(c)' /\ CreatorSeated(c)'
    <3>1. sock[c] = "open"
      BY <2>1 DEF OnlyLeaving
    <3>2. SeatsOf(c) /\ SessionSeated(c) /\ CreatorSeated(c)
      BY <2>0, <3>1 DEF ConnInv
    <3>3. \A o \in Objs, r \in Role : Seat(o, r)' = c <=> Seat(o, r) = c
      BY <2>1, RoomStateAssumption DEF OnlyLeaving
    <3>4. \A o \in Objs, r \in Role : Publishing(c, o, r)' <=> Publishing(c, o, r)
      BY <2>0 DEF HandlerMoves, Publishing
    <3>5. SeatsOf(c)'
      BY <2>0, <3>2, <3>3, <3>4 DEF SeatsOf
    <3>6. SessionSeated(c)'
      <4>1. sess[c] \in Session
        BY DEF TypeInv, TypeOK
      <4> QED
        BY <2>0, <3>2, <3>3, <4>1 DEF SessionSeated, Session
    <3>7. CreatorSeated(c)'
      <4>1. h[c].at = "created" => h[c].obj \in Objs
        BY DEF TypeInv, FrameOK
      <4> QED
        BY <2>0, <3>2, <3>3, <4>1 DEF CreatorSeated, HandlerMoves, Role
    <3> QED
      BY <3>5, <3>6, <3>7
  <2>2. NotYet(c)'
    BY <2>0 DEF ConnInv, NotYet, HandlerMoves
  <2>3. Pointer(c)'
    BY <2>0 DEF ConnInv, Pointer, HandlerMoves, OnlyLeaving, Built
  <2>4. Untouched(c)'
    <3>1. SUFFICES ASSUME sock'[c] = "new" PROVE Untouched(c)'
      BY DEF Untouched
    <3>2. sock[c] = "new" /\ Untouched(c)
      BY <2>0, <3>1 DEF OnlyLeaving, ConnInv
    <3>3. h'[c] = h[c] /\ chunk'[c] = chunk[c]
      BY <2>0, <3>2 DEF HandlerMoves
    <3>4. \A o \in Objs, r \in Role : Seat(o, r)' # c
      BY <3>2, RoomStateAssumption DEF Untouched, OnlyLeaving
    <3> QED
      BY <2>0, <3>2, <3>3, <3>4 DEF Untouched
  <2> QED
    BY <2>1, <2>2, <2>3, <2>4 DEF ConnInv
<1> QED
  BY <1>1, <1>2 DEF AttachInv

\* Only an admitted connection has a reader, and only a reader's handler moves.
LEMMA Started ==
  ASSUME AttachInv, NEW c \in Conns, h[c].at # "idle" \/ ReadFrame(c)
  PROVE  sock[c] # "new"
BY DEF AttachInv, ConnInv, Untouched, ReadFrame

\* One handler going from a point other than the gap to another.
LEMMA OneMoves ==
  ASSUME TypeInv, NEW c \in Conns, NEW f, Goto(c, f),
         \A d \in Conns \ {c} : chunk'[d] = chunk[d],
         sock[c] # "new", h[c].at # "created", f.at # "created",
         f.at \in Attaching => sess[c].room = NoObj,
         f.at \in {"joinLock", "rejoinLock"} => f.obj \in Built
  PROVE  \A d \in Conns : HandlerMoves(d)
BY DEF TypeInv, TypeOK, Goto, HandlerMoves

\* Reading a frame touches one reader's buffer.
LEMMA OneReads ==
  ASSUME TypeInv, NEW c \in Conns, ReadFrame(c)
  PROVE  h[c].at = "idle" /\ \A d \in Conns \ {c} : chunk'[d] = chunk[d]
BY DEF TypeInv, TypeOK, ReadFrame

\* A room leaves the map and no other change is made to it.
LEMMA RemoveLeaves ==
  ASSUME TypeInv, NEW o \in Objs, removeRoomLocked(o)
  PROVE  \A id \in RoomIds : rooms'[id] \in {rooms[id], NoObj}
BY DEF TypeInv, TypeOK, removeRoomLocked

\* Whoever ends a room closes those in it before it empties the slots.
LEMMA EndRoomLeaves ==
  ASSUME TypeInv, NEW o \in Objs, NEW rm \in Room, rm.slots = obj[o].slots,
         endRoom(o, rm)
  PROVE  /\ \A d \in Conns : \/ sock'[d] = sock[d]
                             \/ sock[d] # "new" /\ sock'[d] \notin {"new", "open"}
         /\ \A q \in Objs, r \in Role :
              \/ Seat(q, r)' = Seat(q, r)
              \/ /\ Seat(q, r)' = NoConn
                 /\ \A d \in Conns : Seat(q, r) = d => sock'[d] # "open"
         /\ \A id \in RoomIds : rooms'[id] \in {rooms[id], NoObj}
<1>0. sock \in [Conns -> SockState] /\ obj \in [Objs -> Room]
  BY DEF TypeInv, TypeOK
<1>1. \A d \in Conns : sock'[d] = IF d \in Occupants(rm) /\ sock[d] = "open"
                                  THEN "closing" ELSE sock[d]
  BY <1>0, CloseFacts DEF endRoom
<1>2. obj' = [obj EXCEPT ![o] = Emptied(rm)]
  BY DEF endRoom
<1>3. \A r \in Role : Emptied(rm).slots[r].conn = NoConn
  BY EmptiedFacts
<1>4. ASSUME NEW q \in Objs, NEW r \in Role
      PROVE  \/ Seat(q, r)' = Seat(q, r)
             \/ /\ Seat(q, r)' = NoConn
                /\ \A d \in Conns : Seat(q, r) = d => sock'[d] # "open"
  <2>1. CASE q # o
    BY <1>0, <1>2, <2>1 DEF Seat
  <2>2. CASE q = o
    <3>1. Seat(q, r)' = NoConn
      BY <1>0, <1>2, <1>3, <2>2 DEF Seat
    <3>2. ASSUME NEW d \in Conns, Seat(q, r) = d PROVE sock'[d] # "open"
      <4>1. d \in Occupants(rm)
        BY <2>2, <3>2, RoomStateAssumption DEF Occupants, Seat
      <4> QED
        BY <1>1, <4>1
    <3> QED
      BY <3>1, <3>2
  <2> QED
    BY <2>1, <2>2
<1> QED
  BY <1>1, <1>4, RemoveLeaves DEF endRoom

\* Writing a room without moving anybody.
LEMMA SameSeats ==
  ASSUME TypeInv, NEW o \in Objs, NEW rm,
         \A r \in Role : rm.slots[r].conn = obj[o].slots[r].conn,
         obj' = [obj EXCEPT ![o] = rm]
  PROVE  \A q \in Objs, r \in Role : Seat(q, r)' = Seat(q, r)
BY DEF TypeInv, TypeOK, Seat

\* Close from outside the registry, and a fatal reply.
LEMMA ClosingLeaves ==
  ASSUME TypeInv, AttachInv, NEW c \in Conns, SocketCloses(c) \/ ReplyFatal(c)
  PROVE  OnlyLeaving
<1>1. \A d \in Conns : \/ sock'[d] = sock[d]
                       \/ sock[d] # "new" /\ sock'[d] \notin {"new", "open"}
  BY CloseFacts DEF SocketCloses, ReplyFatal, TypeInv, TypeOK
<1>2. \A o \in Objs, r \in Role : Seat(o, r)' = Seat(o, r)
  BY DEF SocketCloses, ReplyFatal, Seat
<1>3. \A d \in Conns : HandlerMoves(d)
  <2>1. CASE SocketCloses(c)
    BY <2>1 DEF SocketCloses, HandlerMoves
  <2>2. CASE ReplyFatal(c)
    <3>1. /\ h[c].at = "replying" /\ Goto(c, Idle)
          /\ \A d \in Conns \ {c} : chunk'[d] = chunk[d]
      BY <2>2 DEF ReplyFatal, TypeInv, TypeOK
    <3>2. Idle.at = "idle"
      BY DEF Idle
    <3> QED
      BY <3>1, <3>2, Started, OneMoves DEF Attaching
  <2> QED
    BY <2>1, <2>2
<1> QED
  BY <1>1, <1>2, <1>3 DEF SocketCloses, ReplyFatal, OnlyLeaving

\* Detach takes the connection it runs for out of its slot and no other.
LEMMA DetachRoomLeaves ==
  ASSUME TypeInv, AttachInv, NEW c \in Conns, DetachRoom(c)
  PROVE  OnlyLeaving
<1> DEFINE o    == det[c].room
           role == det[c].role
<1>0. /\ o \in Objs \union {NoObj} /\ role \in Role /\ now \in Time
      /\ obj \in [Objs -> Room] /\ sock \in [Conns -> SockState]
  BY DEF TypeInv, TypeOK, Session
<1>1. \A d \in Conns : sock'[d] = IF d = c THEN "gone" ELSE sock[d]
  BY <1>0 DEF DetachRoom
<1>2. sock[c] = "detaching"
  BY DEF DetachRoom
<1>3. \A id \in RoomIds : rooms'[id] \in {rooms[id], NoObj}
  BY <1>0, RemoveLeaves DEF DetachRoom
<1>4. \A q \in Objs, r \in Role :
        Seat(q, r)' = Seat(q, r) \/ (Seat(q, r) = c /\ Seat(q, r)' = NoConn)
  <2>1. CASE o = NoObj
    BY <2>1 DEF DetachRoom, Seat
  <2>2. CASE o # NoObj
    <3>1. o \in Objs /\ obj[o] \in Room
      BY <1>0, <2>2
    <3>2. PICK rm : /\ rm \in {Vacated(obj[o], role, c), Detached(obj[o], role, c, now)}
                    /\ obj' = [obj EXCEPT ![o] = rm]
      BY <2>2, <3>1 DEF DetachRoom
    <3>3. \A r \in Role : \/ rm.slots[r].conn = obj[o].slots[r].conn
                          \/ obj[o].slots[r].conn = c /\ rm.slots[r].conn = NoConn
      <4> DEFINE before == obj[o]
      <4>1. before \in Room
        BY <3>1
      <4> HIDE DEF before, o, role
      <4>2. \A r \in Role :
              /\ Vacated(before, role, c).slots[r].conn =
                   IF r = role /\ before.slots[r].conn = c THEN NoConn
                   ELSE before.slots[r].conn
              /\ Detached(before, role, c, now).slots[r].conn =
                   IF r = role /\ before.slots[r].conn = c THEN NoConn
                   ELSE before.slots[r].conn
        BY <1>0, <4>1, VacatedFacts, DetachedFacts
      <4> QED
        BY <3>2, <4>2 DEF before
    <3> QED
      BY <1>0, <3>1, <3>2, <3>3 DEF Seat
  <2> QED
    BY <2>1, <2>2
<1>5. \A q \in Objs, r \in Role :
        \/ Seat(q, r)' = Seat(q, r)
        \/ /\ Seat(q, r)' = NoConn
           /\ \A d \in Conns : Seat(q, r) = d => sock'[d] # "open"
  BY <1>1, <1>4
<1>6. \A d \in Conns : HandlerMoves(d)
  BY DEF DetachRoom, HandlerMoves
<1>7. nObj' = nObj /\ sess' = sess
  BY DEF DetachRoom
<1>8. \A d \in Conns : \/ sock'[d] = sock[d]
                       \/ sock[d] # "new" /\ sock'[d] \notin {"new", "open"}
  BY <1>1, <1>2
<1> QED
  BY <1>3, <1>5, <1>6, <1>7, <1>8 DEF OnlyLeaving

\* The first step of every handler.
LEMMA RequestLeaves ==
  ASSUME TypeInv, AttachInv, NEW c \in Conns, Request(c)
  PROVE  OnlyLeaving
<1>1. ReadFrame(c)
  BY DEF Request, CreateRoom, JoinRoom, RejoinRoom, CheckAttached
<1>2. PICK f : /\ Goto(c, f) /\ f.at \in {"creating", "joining", "rejoining", "checked"}
               /\ f.at \in Attaching => sess[c].room = NoObj
  <2>1. CASE CreateRoom(c)
    BY <2>1 DEF CreateRoom, Idle
  <2>2. CASE JoinRoom(c)
    BY <2>2 DEF JoinRoom, Idle
  <2>3. CASE RejoinRoom(c)
    BY <2>3 DEF RejoinRoom, Idle
  <2>4. CASE CheckAttached(c)
    BY <2>4 DEF CheckAttached, Idle, Attaching
  <2> QED
    BY <2>1, <2>2, <2>3, <2>4 DEF Request
<1>3. \A d \in Conns : HandlerMoves(d)
  BY <1>1, <1>2, Started, OneReads, OneMoves
<1>4. rooms' = rooms /\ obj' = obj /\ nObj' = nObj /\ sess' = sess /\ sock' = sock
  BY DEF Request, CreateRoom, JoinRoom, RejoinRoom, CheckAttached, connVars
<1> QED
  BY <1>3, <1>4 DEF OnlyLeaving, Seat

\* Lookups, refusals and replies: the handler goes on and nothing else changes.
LEMMA LookupLeaves ==
  ASSUME TypeInv, AttachInv, NEW c \in Conns,
         \/ CreateFails(c) \/ Reply(c) \/ JoinLookup(c) \/ JoinRefused(c)
         \/ RejoinLookup(c) \/ RejoinRefused(c) \/ LoadRoom(c)
  PROVE  OnlyLeaving
<1>0. Idle.at = "idle" /\ h[c] \in Handler /\ FrameOK(h[c])
  BY DEF Idle, TypeInv, TypeOK
<1>1. /\ rooms' = rooms /\ obj' = obj /\ nObj' = nObj /\ sess' = sess /\ sock' = sock
      /\ chunk' = chunk
  BY DEF CreateFails, Reply, JoinLookup, JoinRefused, RejoinLookup,
         RejoinRefused, LoadRoom, connVars
<1>2. h[c].at \notin {"idle", "created"}
  BY DEF CreateFails, Reply, JoinLookup, JoinRefused, RejoinLookup,
         RejoinRefused, LoadRoom
<1>3. NotYet(c) /\ MapInv
  BY DEF AttachInv, ConnInv
<1>4. \/ h' = h
      \/ \E f : /\ Goto(c, f) /\ f.at # "created"
                /\ f.at \in Attaching => sess[c].room = NoObj
                /\ f.at \in {"joinLock", "rejoinLock"} => f.obj \in Built
  <2>1. CASE CreateFails(c) \/ Reply(c) \/ JoinRefused(c) \/ RejoinRefused(c)
    BY <1>0, <2>1 DEF CreateFails, Reply, JoinRefused, RejoinRefused, Attaching
  <2>2. CASE JoinLookup(c)
    <3>1. h[c].id \in RoomIds /\ sess[c].room = NoObj
      BY <1>0, <1>3, <2>2 DEF JoinLookup, FrameOK, NotYet, Attaching
    <3>2. CASE rooms[h[c].id] = NoObj
      BY <1>0, <2>2, <3>2 DEF JoinLookup, Attaching
    <3>3. CASE rooms[h[c].id] # NoObj
      <4> DEFINE f == [h[c] EXCEPT !.at = "joinLock", !.obj = rooms[h[c].id]]
      <4>1. f.at = "joinLock" /\ f.obj = rooms[h[c].id]
        BY <1>0 DEF Handler
      <4>2. rooms[h[c].id] \in Built
        BY <1>3, <3>1, <3>3 DEF MapInv
      <4>3. Goto(c, f)
        BY <2>2, <3>3 DEF JoinLookup
      <4> HIDE DEF f
      <4> QED
        BY <3>1, <4>1, <4>2, <4>3
    <3> QED
      BY <3>2, <3>3
  <2>3. CASE RejoinLookup(c)
    <3>1. h[c].id \in RoomIds /\ sess[c].room = NoObj
      BY <1>0, <1>3, <2>3 DEF RejoinLookup, FrameOK, NotYet, Attaching
    <3>2. CASE rooms[h[c].id] = NoObj
      <4>1. [h[c] EXCEPT !.at = "recreating"].at = "recreating"
        BY <1>0 DEF Handler
      <4>2. Goto(c, [h[c] EXCEPT !.at = "recreating"])
        BY <2>3, <3>2 DEF RejoinLookup
      <4> QED
        BY <3>1, <4>1, <4>2
    <3>3. CASE rooms[h[c].id] # NoObj
      <4> DEFINE f == [h[c] EXCEPT !.at = "rejoinLock", !.obj = rooms[h[c].id]]
      <4>1. f.at = "rejoinLock" /\ f.obj = rooms[h[c].id]
        BY <1>0 DEF Handler
      <4>2. rooms[h[c].id] \in Built
        BY <1>3, <3>1, <3>3 DEF MapInv
      <4>3. Goto(c, f)
        BY <2>3, <3>3 DEF RejoinLookup
      <4> HIDE DEF f
      <4> QED
        BY <3>1, <4>1, <4>2, <4>3
    <3> QED
      BY <3>2, <3>3
  <2>4. CASE LoadRoom(c)
    <3> DEFINE f == [h[c] EXCEPT !.at = "loaded", !.obj = sess[c].room,
                                 !.role = sess[c].role]
    <3>1. f.at = "loaded"
      BY <1>0 DEF Handler
    <3>2. h' = h \/ Goto(c, f)
      BY <2>4 DEF LoadRoom
    <3> HIDE DEF f
    <3> QED
      BY <3>1, <3>2 DEF Attaching
  <2> QED
    BY <2>1, <2>2, <2>3, <2>4
<1>5. sock[c] # "new"
  BY <1>2, Started
<1>6. \A d \in Conns : HandlerMoves(d)
  <2>1. CASE h' = h
    BY <1>1, <2>1 DEF HandlerMoves
  <2>2. CASE h' # h
    BY <1>1, <1>2, <1>4, <1>5, <2>2, OneMoves
  <2> QED
    BY <2>1, <2>2
<1> QED
  BY <1>1, <1>6 DEF OnlyLeaving, Seat

\* The room.mu sections that move nobody or end the room.
LEMMA RoomStepLeaves ==
  ASSUME TypeInv, AttachInv, NEW c \in Conns,
         JoinWrongPassword(c) \/ Signal(c) \/ PeerConnected(c) \/ CloseRoom(c)
  PROVE  OnlyLeaving
<1> DEFINE o == h[c].obj
<1>0. /\ h[c] \in Handler /\ o \in Objs /\ obj[o] \in Room
      /\ h[c].role \in Role /\ now \in Time
  BY DEF JoinWrongPassword, Signal, PeerConnected, CloseRoom, TypeInv, TypeOK,
         FrameOK, Handler
<1>1. h[c].at \notin {"idle", "created"} /\ chunk' = chunk
      /\ nObj' = nObj /\ sess' = sess
  BY DEF JoinWrongPassword, Signal, PeerConnected, CloseRoom, connVars
<1>2. PICK f : Goto(c, f) /\ f.at \in {"idle", "replying"}
  <2>1. Idle.at = "idle" /\ \A ev : [Idle EXCEPT !.at = "replying", !.ev = ev].at = "replying"
    BY DEF Idle
  <2>2. \A ev : [h[c] EXCEPT !.at = "replying", !.ev = ev].at = "replying"
    BY <1>0 DEF Handler
  <2> QED
    BY <2>1, <2>2 DEF JoinWrongPassword, Signal, PeerConnected, CloseRoom
<1>3. \A d \in Conns : HandlerMoves(d)
  BY <1>1, <1>2, Started, OneMoves DEF Attaching
<1>4. \/ /\ sock' = sock /\ rooms' = rooms
         /\ \A q \in Objs, r \in Role : Seat(q, r)' = Seat(q, r)
      \/ \E rm \in Room : rm.slots = obj[o].slots /\ endRoom(o, rm)
  <2>1. CASE JoinWrongPassword(c)
    <3> DEFINE rm == GuessedWrong(obj[o])
    <3>1. rm \in Room /\ rm.slots = obj[o].slots
      BY <1>0, GuessedWrongFacts
    <3>2. \/ closeRoomLocked(o, rm)
          \/ obj' = [obj EXCEPT ![o] = rm] /\ sock' = sock /\ rooms' = rooms
      BY <2>1 DEF JoinWrongPassword
    <3> HIDE DEF rm
    <3>3. CASE closeRoomLocked(o, rm)
      BY <3>1, <3>3 DEF closeRoomLocked
    <3>4. CASE obj' = [obj EXCEPT ![o] = rm] /\ sock' = sock /\ rooms' = rooms
      BY <1>0, <3>1, <3>4, SameSeats
    <3> QED
      BY <3>2, <3>3, <3>4
  <2>2. CASE Signal(c)
    <3>1. PICK seq \in 1..MaxSeq, size \in Sizes :
            \/ obj' = obj
            \/ obj' = [obj EXCEPT ![o] = Accepted(obj[o], h[c].role, seq)]
            \/ obj' = [obj EXCEPT ![o] = Overflowed(obj[o], h[c].role, seq)]
            \/ obj' = [obj EXCEPT ![o] = Buffered(obj[o], h[c].role, seq, size)]
      BY <1>0, <2>2 DEF Signal
    <3>2. \A r \in Role :
            /\ Accepted(obj[o], h[c].role, seq).slots[r].conn = obj[o].slots[r].conn
            /\ Overflowed(obj[o], h[c].role, seq).slots[r].conn = obj[o].slots[r].conn
            /\ Buffered(obj[o], h[c].role, seq, size).slots[r].conn = obj[o].slots[r].conn
      <4> DEFINE before == obj[o]
                 role   == h[c].role
      <4>1. before \in Room /\ role \in Role
        BY <1>0
      <4> HIDE DEF before, o, role
      <4>2. \A r \in Role : Accepted(before, role, seq).slots[r].conn = before.slots[r].conn
        BY <4>1, AcceptedFacts
      <4>3. \A r \in Role : Overflowed(before, role, seq).slots[r].conn = before.slots[r].conn
        BY <4>1, OverflowedFacts
      <4>4. \A r \in Role : Buffered(before, role, seq, size).slots[r].conn = before.slots[r].conn
        BY <4>1, BufferedFacts
      <4> QED
        BY <4>2, <4>3, <4>4 DEF before, role
    <3>3. \A q \in Objs, r \in Role : Seat(q, r)' = Seat(q, r)
      <4>1. CASE obj' = obj
        BY <4>1 DEF Seat
      <4>2. CASE obj' # obj
        BY <1>0, <3>1, <3>2, <4>2, SameSeats, SMTT(30)
      <4> QED
        BY <4>1, <4>2
    <3> QED
      BY <2>2, <3>3 DEF Signal, connVars
  <2>3. CASE PeerConnected(c)
    <3>1. \A r \in Role :
            Reported(obj[o], h[c].role, now).slots[r].conn = obj[o].slots[r].conn
      BY <1>0, ReportedFacts
    <3>2. \/ obj' = obj
          \/ obj' = [obj EXCEPT ![o] = Reported(obj[o], h[c].role, now)]
      BY <1>0, <2>3 DEF PeerConnected
    <3>3. \A q \in Objs, r \in Role : Seat(q, r)' = Seat(q, r)
      <4>1. CASE obj' = obj
        BY <4>1 DEF Seat
      <4>2. CASE obj' # obj
        BY <1>0, <3>1, <3>2, <4>2, SameSeats
      <4> QED
        BY <4>1, <4>2
    <3> QED
      BY <2>3, <3>3 DEF PeerConnected, connVars
  <2>4. CASE CloseRoom(c)
    BY <1>0, <2>4 DEF CloseRoom, closeRoomLocked
  <2> QED
    BY <2>1, <2>2, <2>3, <2>4
<1>5. CASE /\ sock' = sock /\ rooms' = rooms
           /\ \A q \in Objs, r \in Role : Seat(q, r)' = Seat(q, r)
  BY <1>1, <1>3, <1>5 DEF OnlyLeaving
<1>6. CASE \E rm \in Room : rm.slots = obj[o].slots /\ endRoom(o, rm)
  <2>1. PICK rm \in Room : rm.slots = obj[o].slots /\ endRoom(o, rm)
    BY <1>6
  <2> QED
    BY <1>0, <1>1, <1>3, <2>1, EndRoomLeaves DEF OnlyLeaving
<1> QED
  BY <1>4, <1>5, <1>6

\* The sweep and the clock.
LEMMA SweepLeaves ==
  ASSUME TypeInv, Sweep \/ Tick
  PROVE  OnlyLeaving
<1>1. nObj' = nObj /\ sess' = sess /\ \A d \in Conns : HandlerMoves(d)
  BY DEF Sweep, SweepStart, SweepRoom, Tick, connVars, HandlerMoves
<1>2. CASE SweepStart \/ Tick
  <2>1. sock' = sock /\ rooms' = rooms /\ obj' = obj
    BY <1>2 DEF SweepStart, Tick, connVars
  <2> QED
    BY <1>1, <2>1 DEF OnlyLeaving, Seat
<1>3. ASSUME NEW o \in Objs, SweepRoom(o) PROVE OnlyLeaving
  <2>1. obj[o] \in Room
    BY DEF TypeInv, TypeOK
  <2>2. CASE endRoom(o, obj[o])
    BY <1>1, <2>1, <2>2, EndRoomLeaves DEF OnlyLeaving
  <2>3. CASE sock' = sock /\ rooms' = rooms /\ obj' = obj
    BY <1>1, <2>3 DEF OnlyLeaving, Seat
  <2> QED
    BY <1>3, <2>2, <2>3 DEF SweepRoom
<1> QED
  BY <1>2, <1>3 DEF Sweep

-----------------------------------------------------------------------------
(* Steps that admit, seat or forget a connection *)

\* A connection is admitted.
LEMMA AcceptKeeps ==
  ASSUME TypeInv, AttachInv, NEW c \in Conns, Accept(c)
  PROVE  AttachInv'
<1>0. /\ rooms' = rooms /\ obj' = obj /\ nObj' = nObj /\ sess' = sess /\ h' = h
      /\ chunk' = chunk
  BY DEF Accept
<1>1. MapInv'
  BY <1>0 DEF AttachInv, MapInv, Built, Seat
<1>2. ASSUME NEW d \in Conns PROVE ConnInv(d)'
  <2>0. PICK s \in {"open", "detaching"} : sock' = [sock EXCEPT ![c] = s]
    BY DEF Accept
  <2>1. ConnInv(d) /\ sock' = [sock EXCEPT ![c] = s] /\ sock[c] = "new"
        /\ sock \in [Conns -> SockState]
    BY <2>0 DEF AttachInv, Accept, TypeInv, TypeOK
  <2>2. CASE d = c
    <3>1. /\ sess[c].room = NoObj /\ h[c].at = "idle"
          /\ \A o \in Objs, r \in Role : Seat(o, r) # c
      BY <2>1, <2>2 DEF ConnInv, Untouched
    <3>2. sock'[c] \in {"open", "detaching"}
      BY <2>1
    <3> QED
      BY <1>0, <2>2, <3>1, <3>2
      DEF ConnInv, SeatsOf, SessionSeated, CreatorSeated, NotYet, Attaching,
          Pointer, Untouched, Seat
  <2>3. CASE d # c
    BY <1>0, <2>1, <2>3
    DEF ConnInv, SeatsOf, SessionSeated, CreatorSeated, Publishing, NotYet, Pointer,
        Untouched, Seat, Built
  <2> QED
    BY <2>2, <2>3
<1> QED
  BY <1>1, <1>2 DEF AttachInv

\* Detach forgets the room of a session whose connection is closed.
LEMMA DetachSessionKeeps ==
  ASSUME TypeInv, AttachInv, NEW c \in Conns, DetachSession(c)
  PROVE  AttachInv'
<1>0. /\ rooms' = rooms /\ obj' = obj /\ nObj' = nObj /\ h' = h /\ chunk' = chunk
      /\ sess' = [sess EXCEPT ![c] = NoSession] /\ sess \in [Conns -> Session]
      /\ sock' = [sock EXCEPT ![c] = "detaching"] /\ sock \in [Conns -> SockState]
  BY DEF DetachSession, TypeInv, TypeOK
<1>1. MapInv'
  BY <1>0 DEF AttachInv, MapInv, Built, Seat
<1>2. ASSUME NEW d \in Conns PROVE ConnInv(d)'
  <2>1. ConnInv(d)
    BY DEF AttachInv
  <2>2. CASE d = c
    <3>1. sock'[c] = "detaching" /\ sess'[c].room = NoObj
      BY <1>0 DEF NoSession
    <3> QED
      BY <1>0, <2>1, <2>2, <3>1 DEF ConnInv, NotYet, Pointer, Untouched, Built
  <2>3. CASE d # c
    <3>1. sock'[d] = sock[d] /\ sess'[d] = sess[d]
      BY <1>0, <2>3
    <3> QED
      BY <1>0, <2>1, <3>1
      DEF ConnInv, SeatsOf, SessionSeated, CreatorSeated, Publishing, NotYet, Pointer,
          Untouched, Seat, Built
  <2> QED
    BY <2>2, <2>3
<1> QED
  BY <1>1, <1>2 DEF AttachInv

\* An open connection whose handler has yet to attach it is in no slot.
LEMMA NotSeated ==
  ASSUME TypeInv, AttachInv, NEW c \in Conns, sock[c] = "open",
         h[c].at \in Attaching, h[c].at # "created"
  PROVE  \A o \in Objs, r \in Role : Seat(o, r) # c
<1>1. ConnInv(c)
  BY DEF AttachInv
<1>2. SeatsOf(c) /\ sess[c].room = NoObj
  BY <1>1 DEF ConnInv, NotYet, Attaching
<1>3. \A o \in Objs : o # NoObj
  BY DEF Objs, NoObj
<1>4. ASSUME NEW o \in Objs, NEW r \in Role, Seat(o, r) = c PROVE FALSE
  <2>1. sess[c] = [room |-> o, role |-> r]
    BY <1>2, <1>4 DEF SeatsOf, Publishing
  <2>2. sess[c].room = o
    BY <2>1
  <2> QED
    BY <1>2, <1>3, <2>2
<1> QED
  BY <1>4

\* A create publishes its room with its host in it.
LEMMA PublishKeeps ==
  ASSUME TypeInv, AttachInv, NEW c \in Conns, PublishRoom(c)
  PROVE  AttachInv'
<1>n. PICK n : n = nObj + 1
  OBVIOUS
<1>0. /\ h[c] \in Handler /\ h[c].id \in RoomIds /\ h[c].at = "creating"
      /\ nObj \in Nat /\ n \in Objs /\ now \in Time /\ IpOf[c] \in IPs
      /\ n \notin Built /\ n # NoObj
  BY <1>n, RoomRegistryAssumption
  DEF PublishRoom, CanBuild, TypeInv, TypeOK, Objs, FrameOK, Built, NoObj
<1>1. PICK e \in Epochs, pw \in Passwords :
        /\ obj' = [obj EXCEPT ![n] =
                     HostAttached(NewRoom(h[c].id, IpOf[c], now, now, pw), c, e)]
        /\ Goto(c, [h[c] EXCEPT !.at = "created", !.obj = n,
                                !.createdAt = now, !.password = pw])
  BY <1>n DEF PublishRoom
<1> DEFINE rm == HostAttached(NewRoom(h[c].id, IpOf[c], now, now, pw), c, e)
           f  == [h[c] EXCEPT !.at = "created", !.obj = n,
                              !.createdAt = now, !.password = pw]
<1>2. rm.slots["host"].conn = c /\ rm.slots["guest"].conn = NoConn
  <2>1. pw \in BOOLEAN
    BY RoomRegistryAssumption
  <2> QED
    BY <1>0, <2>1, NewRoomFacts, HostAttachedFacts DEF Role
<1>3. f.at = "created" /\ f.obj = n
  BY <1>0 DEF Handler
<1>4. h' = [h EXCEPT ![c] = f] /\ obj' = [obj EXCEPT ![n] = rm]
  BY <1>1 DEF Goto
<1> HIDE DEF rm, f
<1>5. /\ \A q \in Objs, r \in Role :
           Seat(q, r)' = IF q # n THEN Seat(q, r) ELSE rm.slots[r].conn
      /\ \A d \in Conns : h'[d] = IF d = c THEN f ELSE h[d]
  BY <1>0, <1>4 DEF TypeInv, TypeOK, Seat
<1>6. /\ sock' = sock /\ sess' = sess /\ chunk' = chunk
      /\ nObj' = n /\ rooms' = [rooms EXCEPT ![h[c].id] = n]
  BY <1>n DEF PublishRoom, connVars
<1>7. Built \subseteq Built' /\ n \in Built' /\ Built' \subseteq Built \union {n}
  BY <1>n, <1>0, <1>6 DEF Built
<1>8. \A r \in Role : Seat(n, r) = NoConn
  BY <1>0 DEF AttachInv, MapInv
<1>9. MapInv'
  <2>1. \A id \in RoomIds : rooms'[id] \in Built' \union {NoObj}
    BY <1>6, <1>7 DEF AttachInv, MapInv, TypeInv, TypeOK
  <2>2. \A o \in Objs \ Built', r \in Role : Seat(o, r)' = NoConn
    BY <1>5, <1>7 DEF AttachInv, MapInv
  <2> QED
    BY <2>1, <2>2 DEF MapInv
<1>10. sock[c] # "new"
  BY <1>0, Started
<1>11. ASSUME NEW d \in Conns PROVE ConnInv(d)'
  <2>1. ConnInv(d) /\ sess[d] \in Session /\ FrameOK(h[d])
    BY DEF AttachInv, TypeInv, TypeOK
  <2>2. CASE d = c
    <3>1. sess[c].room = NoObj
      BY <1>0, <2>1, <2>2 DEF ConnInv, NotYet, Attaching
    <3>2. ASSUME sock[c] = "open" PROVE SeatsOf(c)' /\ CreatorSeated(c)'
      <4>1. \A o \in Objs, r \in Role : Seat(o, r) # c
        BY <1>0, <3>2, NotSeated DEF Attaching
      <4>2. \A o \in Objs, r \in Role : Seat(o, r)' = c => o = n /\ r = "host"
        BY <1>2, <1>5, <4>1, RoomStateAssumption DEF Role
      <4>3. Seat(n, "host")' = c
        BY <1>0, <1>2, <1>5 DEF Role
      <4> QED
        BY <1>3, <1>5, <4>2, <4>3 DEF SeatsOf, CreatorSeated, Publishing
    <3>3. SessionSeated(c)' /\ NotYet(c)'
      BY <1>6, <3>1 DEF SessionSeated, NotYet
    <3>4. Pointer(c)' /\ Untouched(c)'
      BY <1>3, <1>5, <1>6, <1>10 DEF Pointer, Untouched
    <3> QED
      BY <1>6, <2>2, <3>2, <3>3, <3>4 DEF ConnInv
  <2>3. CASE d # c
    <3>1. h'[d] = h[d] /\ sess'[d] = sess[d] /\ sock'[d] = sock[d]
          /\ chunk'[d] = chunk[d]
      BY <1>5, <1>6, <2>3
    <3>2. \A o \in Objs, r \in Role : Seat(o, r)' = d <=> Seat(o, r) = d
      BY <1>2, <1>5, <1>8, <2>3, RoomStateAssumption DEF Role
    <3>3. SeatsOf(d) => SeatsOf(d)'
      BY <3>1, <3>2 DEF SeatsOf, Publishing
    <3>4. SessionSeated(d) => SessionSeated(d)'
      BY <2>1, <3>1, <3>2 DEF SessionSeated, Session
    <3>5. CreatorSeated(d) => CreatorSeated(d)'
      BY <2>1, <3>1, <3>2 DEF CreatorSeated, FrameOK, Role
    <3>6. NotYet(d)' /\ Pointer(d)' /\ Untouched(d)'
      BY <1>7, <2>1, <3>1, <3>2 DEF ConnInv, NotYet, Pointer, Untouched
    <3> QED
      BY <2>1, <3>1, <3>3, <3>4, <3>5, <3>6 DEF ConnInv
  <2> QED
    BY <2>2, <2>3
<1> QED
  BY <1>9, <1>11 DEF AttachInv

\* The creator's session learns the room it was put in.
LEMMA AttachCreatorKeeps ==
  ASSUME TypeInv, AttachInv, NEW c \in Conns, AttachCreator(c)
  PROVE  AttachInv'
<1>0. /\ rooms' = rooms /\ obj' = obj /\ nObj' = nObj /\ sock' = sock /\ chunk' = chunk
      /\ h[c] \in Handler /\ h[c].at = "created" /\ h[c].obj \in Objs
  BY DEF AttachCreator, TypeInv, TypeOK, FrameOK
<1>1. PICK o, f : /\ o = h[c].obj /\ Goto(c, f) /\ f.at = "replying"
                  /\ sess' = [sess EXCEPT ![c] = [room |-> o, role |-> "host"]]
  <2>1. \A ev : [h[c] EXCEPT !.at = "replying", !.ev = ev].at = "replying"
    BY <1>0 DEF Handler
  <2> QED
    BY <2>1 DEF AttachCreator
<1>2. \A d \in Conns :
        /\ h'[d] = IF d = c THEN f ELSE h[d]
        /\ sess'[d] = IF d = c THEN [room |-> o, role |-> "host"] ELSE sess[d]
  BY <1>1 DEF Goto, TypeInv, TypeOK
<1>3. MapInv'
  BY <1>0 DEF AttachInv, MapInv, Built, Seat
<1>4. \A q, r : Seat(q, r)' = Seat(q, r)
  BY <1>0 DEF Seat
<1>5. ASSUME NEW d \in Conns PROVE ConnInv(d)'
  <2>1. ConnInv(d)
    BY DEF AttachInv
  <2>2. CASE d = c
    <3>1. sess[c].room = NoObj /\ sock[c] # "new"
      BY <1>0, <2>1, <2>2, Started DEF ConnInv, NotYet, Attaching
    <3>2. sess'[c].room = o /\ sess'[c].role = "host" /\ h'[c].at = "replying"
          /\ sess'[c] = [room |-> o, role |-> "host"]
      BY <1>1, <1>2
    <3>3. ASSUME sock[c] = "open" PROVE SeatsOf(c)' /\ SessionSeated(c)'
      <4>1. Seat(o, "host") = c
        BY <1>0, <1>1, <2>1, <2>2, <3>3 DEF ConnInv, CreatorSeated
      <4>2. ASSUME NEW q \in Objs, NEW r \in Role, Seat(q, r) = c
            PROVE  q = o /\ r = "host"
        <5>1. sess[c] = [room |-> q, role |-> r] \/ Publishing(c, q, r)
          BY <2>1, <2>2, <3>3, <4>2 DEF ConnInv, SeatsOf
        <5>2. q # NoObj
          BY DEF Objs, NoObj
        <5>3. sess[c] # [room |-> q, role |-> r]
          BY <3>1, <5>2
        <5> QED
          BY <1>1, <5>1, <5>3 DEF Publishing
      <4>3. SeatsOf(c)'
        BY <1>4, <3>2, <4>2 DEF SeatsOf
      <4>4. SessionSeated(c)'
        BY <1>4, <3>2, <4>1 DEF SessionSeated
      <4> QED
        BY <4>3, <4>4
    <3> QED
      BY <1>0, <2>2, <3>1, <3>2, <3>3
      DEF ConnInv, CreatorSeated, NotYet, Attaching, Pointer, Untouched
  <2>3. CASE d # c
    <3>1. h'[d] = h[d] /\ sess'[d] = sess[d]
      BY <1>2, <2>3
    <3> QED
      BY <1>0, <2>1, <3>1
      DEF ConnInv, SeatsOf, SessionSeated, CreatorSeated, Publishing, NotYet, Pointer,
          Untouched, Seat, Built
  <2> QED
    BY <2>2, <2>3
<1> QED
  BY <1>3, <1>5 DEF AttachInv

\* A recreate builds an empty room.
LEMMA RecreateKeeps ==
  ASSUME TypeInv, AttachInv, NEW c \in Conns, Recreate(c)
  PROVE  AttachInv'
<1>n. PICK n : n = nObj + 1
  OBVIOUS
<1>0. /\ h[c] \in Handler /\ h[c].id \in RoomIds /\ h[c].at = "recreating"
      /\ nObj \in Nat /\ n \in Objs /\ IpOf[c] \in IPs
      /\ n \notin Built /\ n # NoObj
  BY <1>n, RoomRegistryAssumption
  DEF Recreate, CanBuild, TypeInv, TypeOK, Objs, FrameOK, Built, NoObj
<1> DEFINE rm == NewRoom(h[c].id, IpOf[c], h[c].createdAt, h[c].t, h[c].password)
           f  == [h[c] EXCEPT !.at = "rejoinLock", !.obj = n, !.recreated = TRUE]
<1>1. \A r \in Role : rm.slots[r].conn = NoConn
  BY <1>0, NewRoomFacts DEF Handler
<1>2. f.at = "rejoinLock" /\ f.obj = n
  BY <1>0 DEF Handler
<1>3. h' = [h EXCEPT ![c] = f] /\ obj' = [obj EXCEPT ![n] = rm]
  BY <1>n DEF Recreate, Goto
<1> HIDE DEF rm, f
<1>4. /\ sock' = sock /\ sess' = sess /\ chunk' = chunk
      /\ nObj' = n /\ rooms' = [rooms EXCEPT ![h[c].id] = n]
  BY <1>n DEF Recreate, connVars
<1>5. \A r \in Role : Seat(n, r) = NoConn
  BY <1>0 DEF AttachInv, MapInv
<1>6. \A q \in Objs, r \in Role : Seat(q, r)' = Seat(q, r)
  BY <1>0, <1>1, <1>3, <1>5 DEF TypeInv, TypeOK, Seat
<1>7. \A d \in Conns : h'[d] = IF d = c THEN f ELSE h[d]
  BY <1>3 DEF TypeInv, TypeOK
<1>8. Built \subseteq Built' /\ n \in Built'
  BY <1>n, <1>0, <1>4 DEF Built
<1>9. MapInv'
  BY <1>4, <1>6, <1>8 DEF AttachInv, MapInv, TypeInv, TypeOK
<1>10. sock[c] # "new"
  BY <1>0, Started
<1>11. ASSUME NEW d \in Conns PROVE ConnInv(d)'
  <2>1. ConnInv(d) /\ sess[d] \in Session /\ FrameOK(h[d])
    BY DEF AttachInv, TypeInv, TypeOK
  <2>2. /\ sess'[d] = sess[d] /\ sock'[d] = sock[d] /\ chunk'[d] = chunk[d]
        /\ h[d].at = "created" <=> h'[d].at = "created"
        /\ h[d].at = "created" => h'[d] = h[d]
        /\ sock[d] = "new" => h'[d] = h[d]
    BY <1>0, <1>2, <1>4, <1>7, <1>10
  <2>3. NotYet(d)'
    BY <1>0, <1>2, <1>7, <2>1, <2>2 DEF ConnInv, NotYet, Attaching
  <2>4. Pointer(d)'
    BY <1>2, <1>7, <1>8, <2>1 DEF ConnInv, Pointer
  <2>5. Untouched(d)'
    BY <1>6, <2>1, <2>2 DEF ConnInv, Untouched
  <2>6. SeatsOf(d) => SeatsOf(d)'
    BY <1>6, <2>2 DEF SeatsOf, Publishing
  <2>7. SessionSeated(d) => SessionSeated(d)'
    BY <1>6, <2>1, <2>2 DEF SessionSeated, Session
  <2>8. CreatorSeated(d) => CreatorSeated(d)'
    BY <1>6, <2>1, <2>2 DEF CreatorSeated, FrameOK, Role
  <2> QED
    BY <2>1, <2>2, <2>3, <2>4, <2>5, <2>6, <2>7, <2>8 DEF ConnInv
<1> QED
  BY <1>9, <1>11 DEF AttachInv

\* A connection takes a seat, its session with it, and whoever was there is
\* not open any more.
LEMMA SeatTaken ==
  ASSUME TypeInv, AttachInv, NEW c \in Conns, NEW o \in Objs, NEW role \in Role, NEW f,
         o \in Built,
         h[c].at \in {"joinLock", "rejoinLock"}, Goto(c, f), f.at = "replying",
         sess' = [sess EXCEPT ![c] = [room |-> o, role |-> role]],
         \A q \in Objs, r \in Role :
           Seat(q, r)' = IF q = o /\ r = role THEN c ELSE Seat(q, r),
         \A d \in Conns : sock'[d] = sock[d] \/ (sock[d] = "open" /\ sock'[d] = "closing"),
         \A d \in Conns : Seat(o, role) = d => sock'[d] # "open",
         nObj' = nObj, rooms' = rooms, chunk' = chunk
  PROVE  AttachInv'
<1>1. \A d \in Conns :
        /\ h'[d] = IF d = c THEN f ELSE h[d]
        /\ sess'[d] = IF d = c THEN [room |-> o, role |-> role] ELSE sess[d]
  BY DEF Goto, TypeInv, TypeOK
<1>2. MapInv'
  BY DEF AttachInv, MapInv, Built
<1>3. ASSUME NEW d \in Conns PROVE ConnInv(d)'
  <2>1. ConnInv(d) /\ sess[d] \in Session /\ FrameOK(h[d])
    BY DEF AttachInv, TypeInv, TypeOK
  <2>2. CASE d = c
    <3>1. sock[c] # "new" /\ h[c].at \in Attaching /\ h[c].at # "created"
      BY Started DEF Attaching
    <3>2. /\ h'[c].at = "replying" /\ sess'[c] = [room |-> o, role |-> role]
          /\ sess'[c].room = o /\ sess'[c].role = role
      BY <1>1
    <3>3. ASSUME sock'[c] = "open" PROVE SeatsOf(c)'
      <4>1. \A q \in Objs, r \in Role : Seat(q, r) # c
        BY <3>1, <3>3, NotSeated
      <4> QED
        BY <3>2, <4>1 DEF SeatsOf
    <3>4. SessionSeated(c)' /\ CreatorSeated(c)'
      BY <3>2 DEF SessionSeated, CreatorSeated
    <3>5. NotYet(c)' /\ Pointer(c)' /\ Untouched(c)'
      BY <3>1, <3>2 DEF NotYet, Attaching, Pointer, Untouched
    <3> QED
      BY <2>2, <3>3, <3>4, <3>5 DEF ConnInv
  <2>3. CASE d # c
    <3>1. h'[d] = h[d] /\ sess'[d] = sess[d] /\ chunk'[d] = chunk[d]
      BY <1>1, <2>3
    <3>2. NotYet(d)' /\ Pointer(d)'
      BY <2>1, <3>1 DEF ConnInv, NotYet, Pointer, Built
    <3>3. Untouched(d)'
      BY <2>1, <2>3, <3>1 DEF ConnInv, Untouched
    <3>4. ASSUME sock'[d] = "open"
          PROVE  SeatsOf(d)' /\ SessionSeated(d)' /\ CreatorSeated(d)'
      <4>1. SeatsOf(d) /\ SessionSeated(d) /\ CreatorSeated(d)
        BY <2>1, <3>4 DEF ConnInv
      <4>2. \A q \in Objs, r \in Role : Seat(q, r)' = d <=> Seat(q, r) = d
        BY <2>3, <3>4
      <4>3. SeatsOf(d)'
        BY <3>1, <4>1, <4>2 DEF SeatsOf, Publishing
      <4>4. SessionSeated(d)'
        BY <2>1, <3>1, <4>1, <4>2 DEF SessionSeated, Session
      <4>5. CreatorSeated(d)'
        BY <2>1, <3>1, <4>1, <4>2 DEF CreatorSeated, FrameOK, Role
      <4> QED
        BY <4>3, <4>4, <4>5
    <3> QED
      BY <3>2, <3>3, <3>4 DEF ConnInv
  <2> QED
    BY <2>2, <2>3
<1> QED
  BY <1>2, <1>3 DEF AttachInv

\* A guest joins: the slot was free.
LEMMA JoinAttachKeeps ==
  ASSUME TypeInv, AttachInv, NEW c \in Conns, JoinAttach(c)
  PROVE  AttachInv'
<1>0. /\ h[c] \in Handler /\ h[c].at = "joinLock" /\ h[c].obj \in Objs
      /\ obj \in [Objs -> Room]
  BY DEF JoinAttach, TypeInv, TypeOK, FrameOK
<1>1. PICK o \in Objs : o = h[c].obj
  BY <1>0
<1>2. o \in Built /\ obj[o] \in Room
  BY <1>0, <1>1 DEF AttachInv, ConnInv, Pointer
<1>3. PICK e \in Epochs : obj' = [obj EXCEPT ![o] = GuestAttached(obj[o], c, e)]
  BY <1>1 DEF JoinAttach
<1>4. PICK f : Goto(c, f) /\ f.at = "replying"
  <2> DEFINE f0 == [h[c] EXCEPT !.at = "replying", !.role = "guest",
                                !.createdAt = obj[h[c].obj].createdAt,
                                !.password = obj[h[c].obj].password,
                                !.ev = Ev("join-response",
                                          obj[h[c].obj].slots["host"].epoch)]
  <2>1. f0.at = "replying"
    BY <1>0 DEF Handler
  <2>2. Goto(c, f0)
    BY DEF JoinAttach
  <2> HIDE DEF f0
  <2> QED
    BY <2>1, <2>2
<1>5. /\ GuestAttached(obj[o], c, e).slots["guest"].conn = c
      /\ GuestAttached(obj[o], c, e).slots["host"].conn = obj[o].slots["host"].conn
  BY <1>2, GuestAttachedFacts
<1>6. \A q \in Objs, r \in Role :
        Seat(q, r)' = IF q = o /\ r = "guest" THEN c ELSE Seat(q, r)
  BY <1>0, <1>3, <1>5 DEF Seat, Role
<1>7. Seat(o, "guest") = NoConn
  BY <1>1 DEF JoinAttach, GuestSlotFree, Occupied, Seat
<1>8. /\ sess' = [sess EXCEPT ![c] = [room |-> o, role |-> "guest"]]
      /\ sock' = sock /\ nObj' = nObj /\ rooms' = rooms /\ chunk' = chunk
  BY <1>1 DEF JoinAttach
<1>9. \A d \in Conns : Seat(o, "guest") = d => sock'[d] # "open"
  BY <1>7, RoomStateAssumption
<1> QED
  BY <1>0, <1>2, <1>4, <1>6, <1>8, <1>9, SeatTaken DEF Role

\* A token holder rejoins: whoever was in the slot is closed first.
LEMMA RejoinAttachKeeps ==
  ASSUME TypeInv, AttachInv, NEW c \in Conns, RejoinAttach(c)
  PROVE  AttachInv'
<1>0. /\ h[c] \in Handler /\ h[c].at = "rejoinLock" /\ h[c].obj \in Objs
      /\ h[c].role \in Role /\ h[c].recreated \in BOOLEAN /\ h[c].t \in Time
      /\ obj \in [Objs -> Room] /\ sock \in [Conns -> SockState]
  BY DEF RejoinAttach, TypeInv, TypeOK, FrameOK, Handler
<1>1. PICK o \in Objs, role \in Role : o = h[c].obj /\ role = h[c].role
  BY <1>0
<1>2. o \in Built /\ obj[o] \in Room
  BY <1>0, <1>1 DEF AttachInv, ConnInv, Pointer
<1>3. PICK e \in Epochs :
        obj' = [obj EXCEPT ![o] =
                  Rejoined(obj[o], role, c, e, h[c].recreated, h[c].t)]
  BY <1>1 DEF RejoinAttach
<1>4. PICK f : Goto(c, f) /\ f.at = "replying"
  <2>1. \A ev : [h[c] EXCEPT !.at = "replying", !.ev = ev].at = "replying"
    BY <1>0 DEF Handler
  <2> QED
    BY <2>1 DEF RejoinAttach
<1> DEFINE rm == Rejoined(obj[o], role, c, e, h[c].recreated, h[c].t)
<1>5. /\ rm.slots[role].conn = c
      /\ rm.slots[Other(role)].conn = obj[o].slots[Other(role)].conn
  BY <1>0, <1>2, RejoinedFacts
<1>6. obj' = [obj EXCEPT ![o] = rm]
  BY <1>3
<1> HIDE DEF rm
<1>7. \A r \in Role : r = role \/ r = Other(role)
  BY DEF Role, Other
<1>8. \A q \in Objs, r \in Role :
        Seat(q, r)' = IF q = o /\ r = role THEN c ELSE Seat(q, r)
  BY <1>0, <1>5, <1>6, <1>7 DEF Seat
<1>9. /\ sess' = [sess EXCEPT ![c] = [room |-> o, role |-> role]]
      /\ nObj' = nObj /\ rooms' = rooms /\ chunk' = chunk
      /\ sock' = Close({Seat(o, role)})
  BY <1>1 DEF RejoinAttach, Seat
<1>10. \A d \in Conns :
         sock'[d] = IF d \in {Seat(o, role)} /\ sock[d] = "open"
                    THEN "closing" ELSE sock[d]
  BY <1>0, <1>9, CloseFacts
<1>11. /\ \A d \in Conns : sock'[d] = sock[d] \/ (sock[d] = "open" /\ sock'[d] = "closing")
       /\ \A d \in Conns : Seat(o, role) = d => sock'[d] # "open"
  BY <1>10
<1> QED
  BY <1>0, <1>2, <1>4, <1>8, <1>9, <1>11, SeatTaken

\* Every step keeps the invariant.
LEMMA NextAttach == TypeInv /\ AttachInv /\ [Next]_vars => AttachInv'
<1> SUFFICES ASSUME TypeInv, AttachInv, [Next]_vars PROVE AttachInv'
  OBVIOUS
<1>1. CASE UNCHANGED vars
  BY <1>1, LeavingKeeps
  DEF vars, countVars, connVars, sweepVars, OnlyLeaving, HandlerMoves, Seat
<1>2. ASSUME NEW c \in Conns, Accept(c) \/ SocketCloses(c) \/ Release(c)
      PROVE  AttachInv'
  BY <1>2, AcceptKeeps, ClosingLeaves, DetachSessionKeeps, DetachRoomLeaves,
     LeavingKeeps DEF Release
<1>3. ASSUME NEW c \in Conns, Request(c) PROVE AttachInv'
  BY <1>3, RequestLeaves, LeavingKeeps
<1>4. ASSUME NEW c \in Conns, Continue(c) PROVE AttachInv'
  BY <1>4, PublishKeeps, AttachCreatorKeeps, ClosingLeaves, LookupLeaves,
     RoomStepLeaves, JoinAttachKeeps, RecreateKeeps, RejoinAttachKeeps, LeavingKeeps
  DEF Continue
<1>5. CASE Sweep \/ Tick
  BY <1>5, SweepLeaves, LeavingKeeps
<1> QED
  BY <1>1, <1>2, <1>3, <1>4, <1>5 DEF Next

\* An open connection is in exactly the slot its session names, however joins,
\* rejoins, evictions, closes, the sweep and Detach interleave: the two sides
\* are written under different locks and never seen to disagree.
THEOREM SessionsAgree == Spec => []SessionSlotAgree
<1>1. Init => TypeInv /\ AttachInv
  BY InitType, InitAttach
<1>2. TypeInv /\ AttachInv /\ [Next]_vars => (TypeInv /\ AttachInv)'
  BY NextType, NextAttach
<1> QED
  BY <1>1, <1>2, AttachInvAgrees, PTL DEF Spec

-----------------------------------------------------------------------------
(* What a slot's occupant may lose it to *)

\* A step that builds a room writes over an empty object.
LEMMA BuildDisplacesNobody ==
  ASSUME TypeInv, AttachInv, NEW c \in Conns, PublishRoom(c) \/ Recreate(c),
         NEW o \in Objs, NEW r \in Role
  PROVE  Seat(o, r)' = Seat(o, r) \/ Seat(o, r) = NoConn
<1>n. PICK n : n = nObj + 1
  OBVIOUS
<1>1. nObj \in 0..MaxObjs /\ nObj < MaxObjs
  BY DEF PublishRoom, Recreate, CanBuild, TypeInv, TypeOK
<1>2. n \notin Built
  BY <1>n, <1>1, RoomRegistryAssumption DEF Built
<1>3. o # n => obj'[o] = obj[o]
  BY <1>n DEF PublishRoom, Recreate, TypeInv, TypeOK
<1>4. CASE o = n
  BY <1>2, <1>4 DEF AttachInv, MapInv
<1>5. CASE o # n
  BY <1>3, <1>5 DEF Seat
<1> QED
  BY <1>4, <1>5

\* A join finds the slot free.
LEMMA JoinDisplacesNobody ==
  ASSUME TypeInv, NEW c \in Conns, JoinAttach(c), NEW o \in Objs, NEW r \in Role
  PROVE  Seat(o, r)' = Seat(o, r) \/ Seat(o, r) = NoConn
<1>0. /\ h[c].obj \in Objs /\ obj \in [Objs -> Room]
  BY DEF JoinAttach, TypeInv, TypeOK, FrameOK
<1>1. PICK p \in Objs : p = h[c].obj
  BY <1>0
<1>2. PICK e \in Epochs : obj' = [obj EXCEPT ![p] = GuestAttached(obj[p], c, e)]
  BY <1>1 DEF JoinAttach
<1>3. GuestAttached(obj[p], c, e).slots["host"].conn = obj[p].slots["host"].conn
  BY <1>0, GuestAttachedFacts
<1>4. Seat(p, "guest") = NoConn
  BY <1>1 DEF JoinAttach, GuestSlotFree, Occupied, Seat
<1> QED
  BY <1>0, <1>2, <1>3, <1>4 DEF Seat, Role

\* A rejoin takes the slot its token names, and closes whoever is in it.
LEMMA RejoinDisplaces ==
  ASSUME TypeInv, NEW c \in Conns, RejoinAttach(c), NEW o \in Objs, NEW r \in Role,
         NEW d \in Conns, Seat(o, r) = d, sock[d] = "open"
  PROVE  \/ Seat(o, r)' = d
         \/ /\ sock'[d] = "closing" /\ Seat(o, r)' = c
            /\ h[c].at = "rejoinLock" /\ h[c].role = r
<1>0. /\ h[c] \in Handler /\ h[c].at = "rejoinLock" /\ h[c].obj \in Objs
      /\ h[c].role \in Role /\ h[c].recreated \in BOOLEAN /\ h[c].t \in Time
      /\ obj \in [Objs -> Room] /\ sock \in [Conns -> SockState]
  BY DEF RejoinAttach, TypeInv, TypeOK, FrameOK, Handler
<1>1. PICK p \in Objs, role \in Role : p = h[c].obj /\ role = h[c].role
  BY <1>0
<1>2. PICK e \in Epochs :
        obj' = [obj EXCEPT ![p] =
                  Rejoined(obj[p], role, c, e, h[c].recreated, h[c].t)]
  BY <1>1 DEF RejoinAttach
<1> DEFINE rm == Rejoined(obj[p], role, c, e, h[c].recreated, h[c].t)
<1>3. /\ rm.slots[role].conn = c
      /\ rm.slots[Other(role)].conn = obj[p].slots[Other(role)].conn
  BY <1>0, RejoinedFacts
<1>4. obj' = [obj EXCEPT ![p] = rm]
  BY <1>2
<1> HIDE DEF rm
<1>5. r = role \/ r = Other(role)
  BY DEF Role, Other
<1>6. sock' = Close({Seat(p, role)})
  BY <1>1 DEF RejoinAttach, Seat
<1>7. CASE o = p /\ r = role
  <2>1. Seat(o, r)' = c
    BY <1>0, <1>3, <1>4, <1>7 DEF Seat
  <2>2. sock'[d] = "closing"
    BY <1>0, <1>6, <1>7, CloseFacts
  <2> QED
    BY <1>0, <1>1, <1>7, <2>1, <2>2
<1>8. CASE ~(o = p /\ r = role)
  BY <1>0, <1>3, <1>4, <1>5, <1>8 DEF Seat
<1> QED
  BY <1>7, <1>8

\* An open guest loses its slot to another connection only to a guest's rejoin
\* token, and is closed by the step that takes it: no join, however late it
\* gets room.mu, displaces a guest.
THEOREM GuestsNotDisplaced == Spec => GuestNotDisplaced
<1>1. Init => TypeInv /\ AttachInv
  BY InitType, InitAttach
<1>2. TypeInv /\ AttachInv /\ [Next]_vars => (TypeInv /\ AttachInv)'
  BY NextType, NextAttach
<1> DEFINE Displaced(o, c) ==
             /\ sock[c] = "open"
             /\ obj[o].slots["guest"].conn = c
             /\ obj'[o].slots["guest"].conn \notin {c, NoConn}
           ByToken(o, c) ==
             /\ sock'[c] = "closing"
             /\ \E d \in Conns : /\ h[d].at = "rejoinLock" /\ h[d].role = "guest"
                                 /\ obj'[o].slots["guest"].conn = d
<1>3. ASSUME TypeInv, AttachInv, [Next]_vars, NEW o \in Objs, NEW c \in Conns,
             Displaced(o, c)
      PROVE  ByToken(o, c)
  <2>0. /\ sock[c] = "open" /\ Seat(o, "guest") = c /\ c # NoConn
        /\ Seat(o, "guest")' \notin {c, NoConn}
    BY <1>3, RoomStateAssumption DEF Seat
  <2>1. ~OnlyLeaving
    BY <2>0 DEF OnlyLeaving, Role
  <2>2. obj' # obj
    BY <2>0 DEF Seat
  <2>3. PICK d \in Conns : PublishRoom(d) \/ Recreate(d) \/ JoinAttach(d) \/ RejoinAttach(d)
    <3>1. ~UNCHANGED vars
      BY <2>2 DEF vars
    <3>2. ~(Sweep \/ Tick)
      BY <1>3, <2>1, SweepLeaves
    <3>3. PICK d \in Conns : \/ Accept(d) \/ SocketCloses(d) \/ Request(d)
                             \/ Continue(d) \/ Release(d)
      BY <1>3, <3>1, <3>2 DEF Next
    <3>4. ~(Accept(d) \/ DetachSession(d) \/ AttachCreator(d))
      BY <2>2 DEF Accept, DetachSession, AttachCreator
    <3>5. ~(SocketCloses(d) \/ ReplyFatal(d) \/ DetachRoom(d) \/ Request(d))
      BY <1>3, <2>1, ClosingLeaves, DetachRoomLeaves, RequestLeaves
    <3>6. /\ ~(\/ CreateFails(d) \/ Reply(d) \/ JoinLookup(d) \/ JoinRefused(d)
               \/ RejoinLookup(d) \/ RejoinRefused(d) \/ LoadRoom(d))
          /\ ~(JoinWrongPassword(d) \/ Signal(d) \/ PeerConnected(d) \/ CloseRoom(d))
      BY <1>3, <2>1, LookupLeaves, RoomStepLeaves
    <3> QED
      BY <3>3, <3>4, <3>5, <3>6 DEF Continue, Release
  <2>4. RejoinAttach(d)
    BY <1>3, <2>0, <2>3, BuildDisplacesNobody, JoinDisplacesNobody DEF Role
  <2>5. /\ sock'[c] = "closing" /\ Seat(o, "guest")' = d
        /\ h[d].at = "rejoinLock" /\ h[d].role = "guest"
    BY <1>3, <2>0, <2>4, RejoinDisplaces DEF Role
  <2> QED
    BY <2>5 DEF Seat
<1>4. TypeInv /\ AttachInv /\ [Next]_vars
        => [\A o \in Objs, c \in Conns : Displaced(o, c) => ByToken(o, c)]_vars
  BY <1>3
<1> QED
  BY <1>1, <1>2, <1>4, PTL DEF Spec, GuestNotDisplaced

-----------------------------------------------------------------------------
(* Counting *)

\* A number given up or taken with an element of a set.
LEMMA CountAdd ==
  ASSUME NEW S, IsFiniteSet(S), NEW x, x \notin S
  PROVE  /\ IsFiniteSet(S \union {x})
         /\ Cardinality(S \union {x}) = Cardinality(S) + 1
         /\ Cardinality(S) \in Nat
BY FS_AddElement, FS_CardinalityType

\* The same the other way.
LEMMA CountDrop ==
  ASSUME NEW S, IsFiniteSet(S), NEW x \in S
  PROVE  /\ IsFiniteSet(S \ {x})
         /\ Cardinality(S \ {x}) = Cardinality(S) - 1
         /\ Cardinality(S) \in Nat
BY FS_RemoveElement, FS_CardinalityType

-----------------------------------------------------------------------------
(* Connections *)

\* Admitted, and its release not finished.
Live == {c \in Conns : sock[c] \in {"open", "closing", "detaching"}}

ConnectionInv == IsFiniteSet(Live) /\ connectionsGlobal = Cardinality(Live)

\* A step that takes nobody in or out of Live leaves the count as it was.
LEMMA SameLive ==
  ASSUME ConnectionInv, connectionsGlobal' = connectionsGlobal,
         \A c \in Conns : sock'[c] \in {"open", "closing", "detaching"}
                            <=> sock[c] \in {"open", "closing", "detaching"}
  PROVE  ConnectionInv'
<1>1. Live' = Live
  BY DEF Live
<1> QED
  BY <1>1 DEF ConnectionInv

\* Close, by whomever and of however many: the counter waits for the release.
LEMMA ClosedStillCounted ==
  ASSUME TypeInv, ConnectionInv, connectionsGlobal' = connectionsGlobal,
         NEW S, sock' = Close(S)
  PROVE  ConnectionInv'
<1>1. \A c \in Conns : sock'[c] = IF c \in S /\ sock[c] = "open" THEN "closing"
                                  ELSE sock[c]
  BY CloseFacts DEF TypeInv, TypeOK
<1> QED
  BY <1>1, SameLive

\* Admission and release, the two ends of a connection, and what is between.
LEMMA ConnectionsKept ==
  ASSUME TypeInv, ConnectionInv, NEW c \in Conns,
         Accept(c) \/ SocketCloses(c) \/ Release(c)
  PROVE  ConnectionInv'
<1>0. sock \in [Conns -> SockState]
  BY DEF TypeInv, TypeOK
<1>1. CASE Accept(c)
  <2>1. c \notin Live
    BY <1>1 DEF Accept, Live
  <2>2. Live' = Live \union {c}
    BY <1>0, <1>1 DEF Accept, Live
  <2>3. connectionsGlobal' = connectionsGlobal + 1
    BY <1>1 DEF Accept, IncConnections
  <2> QED
    BY <2>1, <2>2, <2>3, CountAdd DEF ConnectionInv
<1>2. CASE SocketCloses(c)
  BY <1>2, ClosedStillCounted DEF SocketCloses
<1>3. CASE DetachSession(c)
  <2>1. \A d \in Conns : sock'[d] = IF d = c THEN "detaching" ELSE sock[d]
    BY <1>0, <1>3 DEF DetachSession
  <2> QED
    BY <1>3, <2>1, SameLive DEF DetachSession
<1>4. CASE DetachRoom(c)
  <2>1. c \in Live
    BY <1>4 DEF DetachRoom, Live
  <2>2. Live' = Live \ {c}
    BY <1>0, <1>4 DEF DetachRoom, Live
  <2>3. connectionsGlobal' = connectionsGlobal - 1
    BY <1>4 DEF DetachRoom
  <2> QED
    BY <2>1, <2>2, <2>3, CountDrop DEF ConnectionInv
<1> QED
  BY <1>1, <1>2, <1>3, <1>4 DEF Release

\* Every step keeps the count: the other steps close connections, or none.
LEMMA NextConnections == TypeInv /\ ConnectionInv /\ [Next]_vars => ConnectionInv'
<1> SUFFICES ASSUME TypeInv, ConnectionInv, [Next]_vars PROVE ConnectionInv'
  OBVIOUS
<1>0. ASSUME sock' = sock, connectionsGlobal' = connectionsGlobal PROVE ConnectionInv'
  BY <1>0, SameLive
<1>1. CASE UNCHANGED vars
  BY <1>0, <1>1 DEF vars, connVars
<1>2. ASSUME NEW c \in Conns, Request(c) PROVE ConnectionInv'
  BY <1>0, <1>2 DEF Request, CreateRoom, JoinRoom, RejoinRoom, CheckAttached, connVars
<1>3. ASSUME NEW c \in Conns, Continue(c) PROVE ConnectionInv'
  <2>1. CASE \/ CreateFails(c) \/ PublishRoom(c) \/ AttachCreator(c) \/ Reply(c)
             \/ JoinLookup(c) \/ JoinRefused(c) \/ JoinAttach(c) \/ RejoinLookup(c)
             \/ RejoinRefused(c) \/ Recreate(c) \/ LoadRoom(c) \/ Signal(c)
             \/ PeerConnected(c)
    BY <1>0, <2>1 DEF CreateFails, PublishRoom, AttachCreator, Reply, JoinLookup,
         JoinRefused, JoinAttach, RejoinLookup, RejoinRefused, Recreate, LoadRoom,
         Signal, PeerConnected, connVars
  <2>2. CASE ReplyFatal(c) \/ RejoinAttach(c) \/ CloseRoom(c)
    BY <2>2, ClosedStillCounted
    DEF ReplyFatal, RejoinAttach, CloseRoom, closeRoomLocked, endRoom
  <2>3. CASE JoinWrongPassword(c)
    BY <1>0, <2>3, ClosedStillCounted DEF JoinWrongPassword, closeRoomLocked, endRoom
  <2> QED
    BY <1>3, <2>1, <2>2, <2>3 DEF Continue
<1>4. CASE Sweep
  BY <1>0, <1>4, ClosedStillCounted DEF Sweep, SweepStart, SweepRoom, endRoom, connVars
<1>5. CASE Tick
  BY <1>0, <1>5 DEF Tick, connVars
<1> QED
  BY <1>1, <1>2, <1>3, <1>4, <1>5, ConnectionsKept DEF Next

\* connectionsGlobal is exactly the number of admitted connections whose release
\* has not finished, however Close is called from the reader, the registry, the
\* sweep and the timer, and whatever the cap: no admission is lost or leaked.
THEOREM ConnectionsExact == Spec => []ConnectionsCounted
<1>1. Init => ConnectionInv
  <2> SUFFICES ASSUME Init PROVE ConnectionInv
    OBVIOUS
  <2>1. Live = {}
    BY DEF Init, Live
  <2> QED
    BY <2>1, FS_EmptySet DEF Init, ConnectionInv
<1>2. ConnectionInv => ConnectionsCounted
  BY DEF ConnectionInv, ConnectionsCounted, Live
<1> QED
  BY <1>1, <1>2, NextConnections, InitType, NextType, PTL DEF Spec

-----------------------------------------------------------------------------
(* Rooms *)

RoomInv == IsFiniteSet(Registered) /\ IsFiniteSet(Creating) /\ RoomsWithinCap

\* Every step but three leaves the set of creates under way alone.
LEMMA SameCreating ==
  ASSUME NEW c \in Conns, \A d \in Conns \ {c} : h'[d] = h[d],
         h[c].at # "creating", h'[c].at # "creating"
  PROVE  Creating' = Creating
BY DEF Creating

\* What a handler's step writes.
LEMMA GotoFacts ==
  ASSUME TypeInv, NEW c \in Conns, NEW f, Goto(c, f)
  PROVE  h'[c] = f /\ \A d \in Conns \ {c} : h'[d] = h[d]
BY DEF TypeInv, TypeOK, Goto

\* A step that touches neither the map nor the global counter.
LEMMA SameRooms ==
  ASSUME RoomInv, rooms' = rooms, roomsGlobal' = roomsGlobal, Creating' = Creating
  PROVE  RoomInv'
<1>1. Registered' = Registered
  BY DEF Registered
<1> QED
  BY <1>1 DEF RoomInv, RoomsWithinCap

\* The map gives up an id together with one unit, or neither, although the
\* object removed may not be the one registered.
LEMMA RemoveCounted ==
  ASSUME TypeInv, RoomInv, NEW o \in Objs, removeRoomLocked(o), Creating' = Creating
  PROVE  RoomInv'
<1> DEFINE id == obj[o].id
<1>0. /\ id \in RoomIds /\ rooms \in [RoomIds -> Objs \union {NoObj}]
      /\ roomsGlobal \in Int
  BY DEF TypeInv, TypeOK, Room
<1>1. CASE rooms[id] = NoObj
  BY <1>1, SameRooms DEF removeRoomLocked, countVars
<1>2. CASE rooms[id] # NoObj
  <2>1. id \in Registered
    BY <1>0, <1>2 DEF Registered
  <2>2. rooms' = [rooms EXCEPT ![id] = NoObj] /\ roomsGlobal' = roomsGlobal - 1
    BY <1>2 DEF removeRoomLocked, releaseRoomSlot
  <2>3. Registered' = Registered \ {id}
    BY <1>0, <2>2 DEF Registered
  <2>4. /\ IsFiniteSet(Registered')
        /\ Cardinality(Registered') = Cardinality(Registered) - 1
        /\ Cardinality(Registered) \in Nat
    BY <2>1, <2>3, CountDrop DEF RoomInv
  <2>5. Cardinality(Creating) \in Nat
    BY FS_CardinalityType DEF RoomInv
  <2> QED
    BY <1>0, <2>2, <2>4, <2>5, RoomRegistryAssumption DEF RoomInv, RoomsWithinCap
<1> QED
  BY <1>1, <1>2

\* An object goes into the map under an id, in place of another or of none:
\* the map grows by one at most.
LEMMA RegisterGrows ==
  ASSUME TypeInv, IsFiniteSet(Registered), NEW id \in RoomIds, NEW o \in Objs,
         rooms' = [rooms EXCEPT ![id] = o]
  PROVE  /\ IsFiniteSet(Registered')
         /\ Cardinality(Registered) \in Nat /\ Cardinality(Registered') \in Nat
         /\ Cardinality(Registered') <= Cardinality(Registered) + 1
<1>1. Registered' = Registered \union {id}
  BY DEF TypeInv, TypeOK, Registered, Objs, NoObj
<1>2. CASE id \in Registered
  <2>1. Registered' = Registered
    BY <1>1, <1>2
  <2> QED
    BY <2>1, FS_CardinalityType
<1>3. CASE id \notin Registered
  BY <1>1, <1>3, CountAdd, FS_CardinalityType
<1> QED
  BY <1>2, <1>3

\* There is an object to build.
LEMMA NextObj ==
  ASSUME TypeInv, CanBuild
  PROVE  nObj + 1 \in Objs /\ nObj \in Nat
<1>1. nObj \in 0..MaxObjs /\ nObj < MaxObjs
  BY DEF TypeInv, TypeOK, CanBuild
<1> QED
  BY <1>1, RoomRegistryAssumption DEF Objs

\* create-room from its counters to its room, and the recreate of rejoin-room.
LEMMA CreatesCounted ==
  ASSUME TypeInv, RoomInv, NEW c \in Conns,
         CreateRoom(c) \/ CreateFails(c) \/ PublishRoom(c) \/ Recreate(c)
  PROVE  RoomInv'
<1>0. /\ h \in [Conns -> Handler] /\ roomsGlobal \in Int /\ FrameOK(h[c])
      /\ nObj \in 0..MaxObjs
  BY DEF TypeInv, TypeOK
<1>1. /\ Cardinality(Creating) \in Nat /\ Cardinality(Registered) \in Nat
      /\ Cardinality(Registered) + Cardinality(Creating) <= roomsGlobal
      /\ roomsGlobal <= MaxRoomsGlobal /\ MaxRoomsGlobal \in Nat
  BY FS_CardinalityType, RoomRegistryAssumption DEF RoomInv, RoomsWithinCap
<1>2. CASE CreateRoom(c)
  <2>1. c \notin Creating
    BY <1>2 DEF CreateRoom, ReadFrame, Creating
  <2>id. PICK id \in RoomIds : Goto(c, [Idle EXCEPT !.at = "creating", !.id = id])
    BY <1>2 DEF CreateRoom
  <2>2. h'[c].at = "creating" /\ \A d \in Conns \ {c} : h'[d] = h[d]
    BY <2>id, IdleType, GotoFacts DEF Handler
  <2>3. Creating' = Creating \union {c}
    BY <2>2 DEF Creating
  <2>4. IsFiniteSet(Creating') /\ Cardinality(Creating') = Cardinality(Creating) + 1
    BY <2>1, <2>3, CountAdd DEF RoomInv
  <2>5. rooms' = rooms /\ roomsGlobal' = roomsGlobal + 1 /\ roomsGlobal < MaxRoomsGlobal
    BY <1>2 DEF CreateRoom, acquireRoomSlot
  <2>6. Registered' = Registered
    BY <2>5 DEF Registered
  <2> QED
    BY <1>0, <1>1, <2>4, <2>5, <2>6 DEF RoomInv, RoomsWithinCap
<1>3. CASE CreateFails(c) \/ PublishRoom(c)
  <2>1. c \in Creating
    BY <1>3 DEF CreateFails, PublishRoom, Creating
  <2>2. PICK f : Goto(c, f) /\ f.at # "creating"
    <3>1. CASE CreateFails(c)
      BY <3>1 DEF CreateFails, Idle
    <3>2. CASE PublishRoom(c)
      <4>1. PICK pw : Goto(c, [h[c] EXCEPT !.at = "created", !.obj = nObj + 1,
                                           !.createdAt = now, !.password = pw])
        BY <3>2 DEF PublishRoom
      <4>2. [h[c] EXCEPT !.at = "created", !.obj = nObj + 1,
                         !.createdAt = now, !.password = pw].at = "created"
        BY <1>0 DEF Handler
      <4> QED
        BY <4>1, <4>2
    <3> QED
      BY <1>3, <3>1, <3>2
  <2>3. Creating' = Creating \ {c}
    BY <1>0, <2>2 DEF Goto, Creating
  <2>4. IsFiniteSet(Creating') /\ Cardinality(Creating') = Cardinality(Creating) - 1
    BY <2>1, <2>3, CountDrop DEF RoomInv
  <2>5. CASE CreateFails(c)
    <3>1. rooms' = rooms /\ roomsGlobal' = roomsGlobal - 1
      BY <2>5 DEF CreateFails, releaseRoomSlot
    <3>2. Registered' = Registered
      BY <3>1 DEF Registered
    <3> QED
      BY <1>0, <1>1, <2>4, <3>1, <3>2 DEF RoomInv, RoomsWithinCap
  <2>6. CASE PublishRoom(c)
    <3>1. /\ h[c].id \in RoomIds /\ nObj + 1 \in Objs
          /\ rooms' = [rooms EXCEPT ![h[c].id] = nObj + 1]
          /\ roomsGlobal' = roomsGlobal
      <4>1. h[c].id \in RoomIds
        BY <1>0, <2>6 DEF PublishRoom, FrameOK
      <4>2. nObj + 1 \in Objs
        BY <1>0, <2>6, NextObj DEF PublishRoom
      <4> QED
        BY <2>6, <4>1, <4>2 DEF PublishRoom, countVars
    <3>2. /\ IsFiniteSet(Registered') /\ Cardinality(Registered') \in Nat
          /\ Cardinality(Registered') <= Cardinality(Registered) + 1
      BY <3>1, RegisterGrows DEF RoomInv
    <3> QED
      BY <1>0, <1>1, <2>4, <3>1, <3>2 DEF RoomInv, RoomsWithinCap
  <2> QED
    BY <1>3, <2>5, <2>6
<1>4. CASE Recreate(c)
  <2>1. /\ h[c].id \in RoomIds /\ nObj + 1 \in Objs
        /\ rooms' = [rooms EXCEPT ![h[c].id] = nObj + 1]
        /\ roomsGlobal' = roomsGlobal + 1 /\ roomsGlobal < MaxRoomsGlobal
    BY <1>0, <1>4, NextObj DEF Recreate, FrameOK, acquireRoomSlot
  <2>2. /\ IsFiniteSet(Registered') /\ Cardinality(Registered') \in Nat
        /\ Cardinality(Registered') <= Cardinality(Registered) + 1
    BY <2>1, RegisterGrows DEF RoomInv
  <2>3. Creating' = Creating
    <3>1. [h[c] EXCEPT !.at = "rejoinLock", !.obj = nObj + 1, !.recreated = TRUE].at
            = "rejoinLock"
      BY <1>0 DEF Handler
    <3> QED
      BY <1>4, <3>1, GotoFacts, SameCreating DEF Recreate
  <2> QED
    BY <1>0, <1>1, <2>1, <2>2, <2>3 DEF RoomInv, RoomsWithinCap
<1> QED
  BY <1>2, <1>3, <1>4

\* The steps of the other handlers: none of them is a create.
LEMMA HandlersKeepCreating ==
  ASSUME TypeInv, NEW c \in Conns,
         \/ JoinRoom(c) \/ RejoinRoom(c) \/ CheckAttached(c)
         \/ AttachCreator(c) \/ Reply(c) \/ ReplyFatal(c)
         \/ JoinLookup(c) \/ JoinWrongPassword(c) \/ JoinRefused(c) \/ JoinAttach(c)
         \/ RejoinLookup(c) \/ RejoinRefused(c) \/ RejoinAttach(c)
         \/ LoadRoom(c) \/ Signal(c) \/ PeerConnected(c) \/ CloseRoom(c)
  PROVE  Creating' = Creating
<1>0. h[c] \in Handler /\ Idle.at = "idle" /\ Idle \in Handler
  BY IdleType DEF TypeInv, TypeOK, Idle
<1>1. h[c].at # "creating"
  BY DEF JoinRoom, RejoinRoom, CheckAttached, ReadFrame, AttachCreator, Reply,
     ReplyFatal, JoinLookup, JoinWrongPassword, JoinRefused, JoinAttach, RejoinLookup,
     RejoinRefused, RejoinAttach, LoadRoom, Signal, PeerConnected, CloseRoom
<1>2. PICK f : (Goto(c, f) \/ (f = h[c] /\ h' = h)) /\ f.at # "creating"
  <2>1. CASE JoinRoom(c)
    <3>1. PICK id \in RoomIds : Goto(c, [Idle EXCEPT !.at = "joining", !.id = id])
      BY <2>1 DEF JoinRoom
    <3>2. [Idle EXCEPT !.at = "joining", !.id = id].at = "joining"
      BY <1>0 DEF Handler
    <3> QED
      BY <3>1, <3>2
  <2>2. CASE RejoinRoom(c)
    <3>1. PICK tok \in tokens :
            Goto(c, [Idle EXCEPT !.at = "rejoining", !.id = tok.id,
                                 !.role = tok.role, !.createdAt = tok.createdAt,
                                 !.password = tok.password, !.t = now])
      BY <2>2 DEF RejoinRoom
    <3>2. [Idle EXCEPT !.at = "rejoining", !.id = tok.id,
                       !.role = tok.role, !.createdAt = tok.createdAt,
                       !.password = tok.password, !.t = now].at = "rejoining"
      BY <1>0 DEF Handler
    <3> QED
      BY <3>1, <3>2
  <2>3. CASE CheckAttached(c)
    <3>1. [Idle EXCEPT !.at = "checked"].at = "checked"
      BY <1>0 DEF Handler
    <3> QED
      BY <2>3, <3>1 DEF CheckAttached
  <2>4. CASE AttachCreator(c)
    <3>1. [h[c] EXCEPT !.at = "replying", !.ev = Ev("create-response", NoEpoch)].at
            = "replying"
      BY <1>0 DEF Handler
    <3> QED
      BY <2>4, <3>1 DEF AttachCreator
  <2>5. CASE Reply(c) \/ ReplyFatal(c) \/ JoinRefused(c) \/ RejoinRefused(c)
             \/ PeerConnected(c) \/ CloseRoom(c)
    <3>1. Goto(c, Idle)
      BY <2>5 DEF Reply, ReplyFatal, JoinRefused, RejoinRefused, PeerConnected, CloseRoom
    <3> QED
      BY <1>0, <3>1
  <2>6. CASE JoinLookup(c) \/ RejoinLookup(c)
    <3>1. \/ Goto(c, Idle)
          \/ Goto(c, [h[c] EXCEPT !.at = "recreating"])
          \/ Goto(c, [h[c] EXCEPT !.at = "joinLock", !.obj = rooms[h[c].id]])
          \/ Goto(c, [h[c] EXCEPT !.at = "rejoinLock", !.obj = rooms[h[c].id]])
      BY <2>6 DEF JoinLookup, RejoinLookup
    <3>2. /\ [h[c] EXCEPT !.at = "recreating"].at = "recreating"
          /\ [h[c] EXCEPT !.at = "joinLock", !.obj = rooms[h[c].id]].at = "joinLock"
          /\ [h[c] EXCEPT !.at = "rejoinLock", !.obj = rooms[h[c].id]].at = "rejoinLock"
      BY <1>0 DEF Handler
    <3> QED
      BY <1>0, <3>1, <3>2
  <2>7. CASE JoinWrongPassword(c)
    <3>1. Goto(c, Idle) \/ Goto(c, [h[c] EXCEPT !.at = "replying",
                                                !.ev = Ev("locked-out", NoEpoch)])
      BY <2>7 DEF JoinWrongPassword
    <3>2. [h[c] EXCEPT !.at = "replying", !.ev = Ev("locked-out", NoEpoch)].at
            = "replying"
      BY <1>0 DEF Handler
    <3> QED
      BY <1>0, <3>1, <3>2
  <2>8. CASE JoinAttach(c)
    <3> DEFINE rm == obj[h[c].obj]
    <3> DEFINE f == [h[c] EXCEPT !.at = "replying", !.role = "guest",
                        !.createdAt = rm.createdAt, !.password = rm.password,
                        !.ev = Ev("join-response", rm.slots["host"].epoch)]
    <3>1. f.at = "replying"
      BY <1>0 DEF Handler
    <3>2. Goto(c, f)
      BY <2>8 DEF JoinAttach
    <3> QED
      BY <3>1, <3>2
  <2>9. CASE RejoinAttach(c)
    <3> DEFINE other == obj[h[c].obj].slots[Other(h[c].role)]
    <3> DEFINE f == [h[c] EXCEPT !.at = "replying",
                                 !.ev = Ev("rejoin-response", other.epoch)]
    <3>1. f.at = "replying"
      BY <1>0 DEF Handler
    <3>2. Goto(c, f)
      BY <2>9 DEF RejoinAttach
    <3> QED
      BY <3>1, <3>2
  <2>10. CASE LoadRoom(c)
    <3>1. h' = h \/ Goto(c, [h[c] EXCEPT !.at = "loaded", !.obj = sess[c].room,
                                         !.role = sess[c].role])
      BY <2>10 DEF LoadRoom
    <3>2. [h[c] EXCEPT !.at = "loaded", !.obj = sess[c].room,
                       !.role = sess[c].role].at = "loaded"
      BY <1>0 DEF Handler
    <3> QED
      BY <1>1, <3>1, <3>2
  <2>11. CASE Signal(c)
    <3>1. Goto(c, Idle) \/ Goto(c, [Idle EXCEPT !.at = "replying",
                                                !.ev = Ev("overflow", NoEpoch)])
      BY <2>11 DEF Signal
    <3>2. [Idle EXCEPT !.at = "replying", !.ev = Ev("overflow", NoEpoch)].at = "replying"
      BY <1>0 DEF Handler
    <3> QED
      BY <1>0, <3>1, <3>2
  <2> QED
    BY <2>1, <2>2, <2>3, <2>4, <2>5, <2>6, <2>7, <2>8, <2>9, <2>10, <2>11
<1>3. h'[c].at # "creating" /\ \A d \in Conns \ {c} : h'[d] = h[d]
  BY <1>2, GotoFacts
<1> QED
  BY <1>1, <1>3, SameCreating

\* Every step keeps what the map and the creates under way hold covered.
LEMMA NextRooms == TypeInv /\ RoomInv /\ [Next]_vars => RoomInv'
<1> SUFFICES ASSUME TypeInv, RoomInv, [Next]_vars PROVE RoomInv'
  OBVIOUS
<1>0. ASSUME UNCHANGED <<rooms, roomsGlobal, h>> PROVE RoomInv'
  BY <1>0, SameRooms DEF Creating
<1>1. CASE UNCHANGED vars \/ Tick
  BY <1>0, <1>1 DEF vars, countVars, Tick
<1>2. ASSUME NEW c \in Conns, Accept(c) \/ SocketCloses(c) \/ DetachSession(c)
      PROVE  RoomInv'
  BY <1>0, <1>2 DEF Accept, SocketCloses, DetachSession, countVars
<1>3. ASSUME NEW c \in Conns, DetachRoom(c) PROVE RoomInv'
  <2>1. h' = h /\ Creating' = Creating
    BY <1>3 DEF DetachRoom, Creating
  <2>2. \/ UNCHANGED <<rooms, countVars>>
        \/ det[c].room # NoObj /\ removeRoomLocked(det[c].room)
    BY <1>3 DEF DetachRoom
  <2>3. det[c].room # NoObj => det[c].room \in Objs
    BY DEF TypeInv, TypeOK, Session
  <2> QED
    BY <2>1, <2>2, <2>3, SameRooms, RemoveCounted DEF countVars
<1>4. ASSUME NEW c \in Conns, Request(c) PROVE RoomInv'
  BY <1>4, CreatesCounted, HandlersKeepCreating, SameRooms
  DEF Request, JoinRoom, RejoinRoom, CheckAttached, countVars
<1>5. ASSUME NEW c \in Conns, Continue(c) PROVE RoomInv'
  <2>1. CASE \/ AttachCreator(c) \/ Reply(c) \/ ReplyFatal(c) \/ JoinLookup(c)
             \/ JoinRefused(c) \/ JoinAttach(c) \/ RejoinLookup(c) \/ RejoinRefused(c)
             \/ RejoinAttach(c) \/ LoadRoom(c) \/ Signal(c) \/ PeerConnected(c)
    <3>1. UNCHANGED <<rooms, roomsGlobal>>
      BY <2>1 DEF AttachCreator, Reply, ReplyFatal, JoinLookup, JoinRefused, JoinAttach,
           RejoinLookup, RejoinRefused, RejoinAttach, LoadRoom, Signal, PeerConnected,
           countVars
    <3> QED
      BY <2>1, <3>1, HandlersKeepCreating, SameRooms
  <2>2. CASE JoinWrongPassword(c) \/ CloseRoom(c)
    <3>1. h[c].obj \in Objs
      BY <2>2 DEF JoinWrongPassword, CloseRoom, TypeInv, TypeOK, FrameOK
    <3>2. removeRoomLocked(h[c].obj) \/ UNCHANGED <<rooms, roomsGlobal>>
      BY <2>2 DEF JoinWrongPassword, CloseRoom, closeRoomLocked, endRoom, countVars
    <3> QED
      BY <2>2, <3>1, <3>2, HandlersKeepCreating, SameRooms, RemoveCounted
  <2> QED
    BY <1>5, <2>1, <2>2, CreatesCounted DEF Continue
<1>6. CASE Sweep
  <2>1. h' = h /\ Creating' = Creating
    BY <1>6 DEF Sweep, SweepStart, SweepRoom, Creating
  <2> QED
    BY <1>6, <2>1, SameRooms, RemoveCounted
    DEF Sweep, SweepStart, SweepRoom, endRoom, countVars
<1> QED
  BY <1>1, <1>2, <1>3, <1>4, <1>5, <1>6 DEF Next, Release

\* The map never holds more rooms than cfg.MaxRoomsGlobal, with the creates that
\* have their unit and no room yet counted in, however handlers, Detach and the
\* sweep overlap: no order of acquire, publish, recreate over a live id, roll
\* back and removal by id gives a unit back twice.
THEOREM RoomsCapped == Spec => []RoomsWithinCap
<1>1. Init => RoomInv
  <2> SUFFICES ASSUME Init PROVE RoomInv
    OBVIOUS
  <2>1. Registered = {} /\ Creating = {} /\ roomsGlobal = 0
    BY DEF Init, Registered, Creating, Idle
  <2> QED
    BY <2>1, FS_EmptySet, RoomRegistryAssumption DEF RoomInv, RoomsWithinCap
<1>2. RoomInv => RoomsWithinCap
  BY DEF RoomInv
<1> QED
  BY <1>1, <1>2, NextRooms, InitType, NextType, PTL DEF Spec

-----------------------------------------------------------------------------
(* Locked-out rooms *)

\* The same room as far as its id and its wrong guesses are concerned.
Same(rm, new) == new.id = rm.id /\ new.passwordAttempts = rm.passwordAttempts

\* What the map names is a built object of that id.
EntryInv == \A id \in RoomIds : rooms[id] # NoObj =>
            rooms[id] \in Built /\ obj[rooms[id]].id = id

LockInv == EntryInv /\ LockedOutRoomGone

\* Writing a slot or a deadline.
LEMMA SameParts ==
  ASSUME NEW rm \in Room
  PROVE  /\ \A r, s : Same(rm, WithSlot(rm, r, s))
         /\ \A d : Same(rm, WithDeadline(rm, d))
         /\ Same(rm, Emptied(rm))
BY DEF Same, WithSlot, WithDeadline, Emptied, Room

\* Only a wrong guess changes the count, and nothing changes the id.
LEMMA SameRoom ==
  ASSUME NEW rm \in Room, NEW r \in Role, NEW c \in Conns, NEW t \in Time
  PROVE  /\ \A e \in Epochs : Same(rm, HostAttached(rm, c, e))
         /\ \A e \in Epochs : Same(rm, GuestAttached(rm, c, e))
         /\ \A e \in Epochs, b \in BOOLEAN : Same(rm, Rejoined(rm, r, c, e, b, t))
         /\ \A n \in 1..MaxSeq : Same(rm, Accepted(rm, r, n))
         /\ \A n \in 1..MaxSeq : Same(rm, Overflowed(rm, r, n))
         /\ \A n \in 1..MaxSeq, z \in Sizes : Same(rm, Buffered(rm, r, n, z))
         /\ Same(rm, Reported(rm, r, t))
         /\ Same(rm, Vacated(rm, r, c)) /\ Same(rm, Detached(rm, r, c, t))
<1>0. Other(r) \in Role /\ "host" \in Role /\ "guest" \in Role
  BY OtherRole DEF Role
<1> USE <1>0
<1>1. \A e \in Epochs : Same(rm, HostAttached(rm, c, e))
  BY SameParts DEF HostAttached
<1>2. ASSUME NEW e \in Epochs PROVE Same(rm, GuestAttached(rm, c, e))
  BY DEF GuestAttached, Same, WithSlot, WithDeadline, Room
<1>3. ASSUME NEW e \in Epochs, NEW b \in BOOLEAN PROVE Same(rm, Rejoined(rm, r, c, e, b, t))
  BY DEF Rejoined, Same, WithSlot, WithDeadline, Room
<1>4. \A n \in 1..MaxSeq : Same(rm, Accepted(rm, r, n))
  BY SameParts DEF Accepted
<1>5. ASSUME NEW n \in 1..MaxSeq PROVE Same(rm, Overflowed(rm, r, n))
  BY DEF Overflowed, Accepted, Same, WithSlot, Room
<1>6. ASSUME NEW n \in 1..MaxSeq, NEW z \in Sizes PROVE Same(rm, Buffered(rm, r, n, z))
  BY DEF Buffered, Accepted, Same, WithSlot, Room
<1>7. Same(rm, Reported(rm, r, t))
  BY DEF Reported, Same, WithSlot, Room
<1>8. Same(rm, Vacated(rm, r, c)) /\ Vacated(rm, r, c) \in Room
  BY SameParts, VacatedFacts DEF Vacated, Same
<1>9. Same(rm, Detached(rm, r, c, t))
  BY <1>8, SameParts DEF Detached, Same
<1> QED
  BY <1>1, <1>2, <1>3, <1>4, <1>5, <1>6, <1>7, <1>8, <1>9

\* A room is written, and an id may leave the map.
LEMMA LockWrite ==
  ASSUME TypeInv, LockInv, NEW o \in Objs, NEW rm, Same(obj[o], rm),
         obj' = [obj EXCEPT ![o] = rm], nObj' = nObj,
         \A id \in RoomIds : rooms'[id] \in {rooms[id], NoObj}
  PROVE  LockInv'
<1>0. \A q \in Objs : obj'[q] = IF q = o THEN rm ELSE obj[q]
  BY DEF TypeInv, TypeOK
<1>1. \A q \in Objs : Same(obj[q], obj'[q]) /\ obj[q].id \in RoomIds
  BY <1>0 DEF Same, TypeInv, TypeOK, Room
<1>2. Built \subseteq Objs /\ Built' = Built
  BY RoomRegistryAssumption DEF Built, Objs, TypeInv, TypeOK
<1>3. EntryInv'
  BY <1>1, <1>2 DEF LockInv, EntryInv, Same
<1>4. LockedOutRoomGone'
  <2> SUFFICES ASSUME NEW q \in Built,
                      obj'[q].passwordAttempts >= MaxPasswordAttempts
               PROVE  rooms'[obj'[q].id] # q
    BY <1>2 DEF LockedOutRoomGone
  <2>1. obj[q].passwordAttempts >= MaxPasswordAttempts /\ obj'[q].id = obj[q].id
    BY <1>1, <1>2 DEF Same
  <2>2. rooms[obj[q].id] # q
    BY <2>1 DEF LockInv, LockedOutRoomGone
  <2>3. q # NoObj
    BY DEF Built, NoObj
  <2> QED
    BY <1>1, <1>2, <2>1, <2>2, <2>3
<1> QED
  BY <1>3, <1>4 DEF LockInv

\* Nothing is written.
LEMMA LockSame ==
  ASSUME TypeInv, LockInv, obj' = obj, nObj' = nObj, rooms' = rooms
  PROVE  LockInv'
BY DEF LockInv, EntryInv, LockedOutRoomGone, Built

\* A room without a wrong guess goes into the map.
LEMMA LockBuild ==
  ASSUME TypeInv, LockInv, CanBuild, NEW id \in RoomIds, NEW rm \in Room,
         rm.id = id, rm.passwordAttempts = 0, nObj' = nObj + 1,
         obj' = [obj EXCEPT ![nObj + 1] = rm],
         rooms' = [rooms EXCEPT ![id] = nObj + 1]
  PROVE  LockInv'
<1> DEFINE n == nObj + 1
<1>0. n \in Objs /\ nObj \in Nat
  BY NextObj
<1>1. Built \subseteq Objs /\ n \notin Built /\ Built' = Built \union {n}
  <2>1. MaxObjs \in Nat /\ n <= MaxObjs
    BY <1>0, RoomRegistryAssumption DEF Objs
  <2>2. Built = 1..nObj /\ Built' = 1..n
    BY DEF Built
  <2> QED
    BY <1>0, <2>1, <2>2 DEF Objs
<1>2. /\ \A q \in Objs : obj'[q] = IF q = n THEN rm ELSE obj[q]
      /\ \A i \in RoomIds : rooms'[i] = IF i = id THEN n ELSE rooms[i]
      /\ \A q \in Objs : obj[q].id \in RoomIds
  BY <1>0 DEF TypeInv, TypeOK, Room
<1>3. EntryInv'
  BY <1>0, <1>1, <1>2 DEF LockInv, EntryInv
<1>4. LockedOutRoomGone'
  <2> SUFFICES ASSUME NEW q \in Built \union {n},
                      obj'[q].passwordAttempts >= MaxPasswordAttempts
               PROVE  rooms'[obj'[q].id] # q
    BY <1>1 DEF LockedOutRoomGone
  <2>1. q # n
    BY <1>0, <1>2, RoomRegistryAssumption
  <2>2. q \in Built /\ obj'[q] = obj[q] /\ rooms[obj[q].id] # q
    BY <1>1, <1>2, <2>1 DEF LockInv, LockedOutRoomGone
  <2> QED
    BY <1>1, <1>2, <2>1, <2>2
<1> QED
  BY <1>3, <1>4 DEF LockInv

\* By which id a room leaves the map.
LEMMA RemoveFacts ==
  ASSUME TypeInv, NEW o \in Objs, removeRoomLocked(o)
  PROVE  /\ rooms'[obj[o].id] = NoObj
         /\ \A id \in RoomIds : rooms'[id] \in {rooms[id], NoObj}
<1>1. obj[o].id \in RoomIds /\ rooms \in [RoomIds -> Objs \union {NoObj}]
  BY DEF TypeInv, TypeOK, Room
<1> QED
  BY <1>1 DEF removeRoomLocked

\* close-room, expiry and release.
LEMMA LockEnd ==
  ASSUME TypeInv, LockInv, NEW o \in Objs, endRoom(o, obj[o]), nObj' = nObj
  PROVE  LockInv'
<1>1. obj[o] \in Room
  BY DEF TypeInv, TypeOK
<1>2. Same(obj[o], Emptied(obj[o]))
  BY <1>1, SameParts
<1> QED
  BY <1>2, RemoveFacts, LockWrite DEF endRoom

\* The wrong guess that is one too many unregisters the room it was made at.
LEMMA LockGuess ==
  ASSUME TypeInv, LockInv, NEW c \in Conns, JoinWrongPassword(c)
  PROVE  LockInv'
<1> DEFINE o  == h[c].obj
           rm == GuessedWrong(obj[o])
<1>0. o \in Objs /\ obj \in [Objs -> Room] /\ rm \in Room /\ rm.id = obj[o].id
  BY GuessedWrongFacts DEF JoinWrongPassword, TypeInv, TypeOK, FrameOK
<1>1. Emptied(rm).id = rm.id
  BY <1>0, SameParts DEF Same
<1>2. nObj' = nObj
  BY DEF JoinWrongPassword
<1>3. Built' = Built /\ Built \subseteq Objs
  BY <1>2, RoomRegistryAssumption DEF Built, Objs, TypeInv, TypeOK
<1>4. PICK new : /\ obj' = [obj EXCEPT ![o] = new] /\ new.id = obj[o].id
                 /\ \A id \in RoomIds : rooms'[id] \in {rooms[id], NoObj}
                 /\ \/ rooms'[obj[o].id] = NoObj
                    \/ new.passwordAttempts < MaxPasswordAttempts
  <2>1. CASE LockedOut(rm)
    <3>1. endRoom(o, rm)
      BY <2>1 DEF JoinWrongPassword, closeRoomLocked
    <3>2. /\ obj' = [obj EXCEPT ![o] = Emptied(rm)]
          /\ rooms'[obj[o].id] = NoObj
          /\ \A id \in RoomIds : rooms'[id] \in {rooms[id], NoObj}
      BY <1>0, <3>1, RemoveFacts DEF endRoom
    <3> QED
      BY <1>0, <1>1, <3>2
  <2>2. CASE ~LockedOut(rm)
    <3>1. obj' = [obj EXCEPT ![o] = rm] /\ rooms' = rooms
      BY <2>2 DEF JoinWrongPassword
    <3>2. rm.passwordAttempts \in Nat
      BY <1>0 DEF Room
    <3>3. rm.passwordAttempts < MaxPasswordAttempts
      BY <2>2, <3>2, RoomRegistryAssumption DEF LockedOut
    <3> QED
      BY <1>0, <3>1, <3>3
  <2> QED
    BY <2>1, <2>2
<1>5. \A q \in Objs : /\ obj'[q] = IF q = o THEN new ELSE obj[q]
                      /\ obj'[q].id = obj[q].id /\ obj[q].id \in RoomIds
  BY <1>0, <1>4 DEF Room
<1> HIDE DEF o, rm
<1>6. EntryInv'
  BY <1>3, <1>4, <1>5 DEF LockInv, EntryInv
<1>7. LockedOutRoomGone'
  <2> SUFFICES ASSUME NEW q \in Built,
                      obj'[q].passwordAttempts >= MaxPasswordAttempts
               PROVE  rooms'[obj'[q].id] # q
    BY <1>3 DEF LockedOutRoomGone
  <2>1. q \in Objs /\ q # NoObj /\ rooms'[obj[q].id] \in {rooms[obj[q].id], NoObj}
    BY <1>3, <1>4, <1>5 DEF Built, NoObj
  <2>2. CASE q = o
    <3>1. rooms'[obj[o].id] = NoObj
      <4>1. obj'[q] = new
        BY <1>5, <2>1, <2>2
      <4>2. ~(new.passwordAttempts < MaxPasswordAttempts)
        <5>1. obj' \in [Objs -> Room]
          BY JoinWrongPasswordType DEF TypeInv, TypeOK
        <5> QED
          BY <2>1, <4>1, <5>1, RoomRegistryAssumption DEF Room
      <4> QED
        BY <1>4, <4>2
    <3> QED
      BY <1>5, <2>1, <2>2, <3>1
  <2>3. CASE q # o
    BY <1>5, <2>1, <2>3 DEF LockInv, LockedOutRoomGone
  <2> QED
    BY <2>2, <2>3
<1> QED
  BY <1>6, <1>7 DEF LockInv

\* The steps of handlers and of Detach that write a room.
LEMMA LockHandlers ==
  ASSUME TypeInv, LockInv, NEW c \in Conns,
         \/ DetachRoom(c) \/ PublishRoom(c) \/ Recreate(c) \/ JoinAttach(c)
         \/ RejoinAttach(c) \/ Signal(c) \/ PeerConnected(c) \/ CloseRoom(c)
  PROVE  LockInv'
<1>0. /\ h[c] \in Handler /\ FrameOK(h[c]) /\ obj \in [Objs -> Room] /\ now \in Time
      /\ IpOf[c] \in IPs /\ h[c].t \in Time /\ h[c].createdAt \in Time
      /\ h[c].password \in BOOLEAN /\ h[c].recreated \in BOOLEAN /\ h[c].role \in Role
  BY RoomRegistryAssumption DEF TypeInv, TypeOK, Handler
<1>n. ASSUME NEW id \in RoomIds, NEW u \in Time, NEW t \in Time, NEW pw \in BOOLEAN
      PROVE  LET rm == NewRoom(id, IpOf[c], u, t, pw)
             IN  rm \in Room /\ rm.id = id /\ rm.passwordAttempts = 0
  BY <1>0, NewRoomFacts DEF NewRoom
<1>1. CASE DetachRoom(c)
  <2> DEFINE o    == det[c].room
             role == det[c].role
  <2>1. o \in Objs \union {NoObj} /\ role \in Role
    BY DEF TypeInv, TypeOK, Session
  <2>2. nObj' = nObj
    BY <1>1 DEF DetachRoom
  <2>3. CASE o = NoObj
    BY <1>1, <2>2, <2>3, LockSame DEF DetachRoom
  <2>4. CASE o # NoObj
    <3>1. o \in Objs /\ obj[o] \in Room
      BY <1>0, <2>1, <2>4
    <3>2. /\ Same(obj[o], Vacated(obj[o], role, c))
          /\ Same(obj[o], Detached(obj[o], role, c, now))
      BY <1>0, <2>1, <3>1, SameRoom
    <3>3. \/ /\ obj' = [obj EXCEPT ![o] = Vacated(obj[o], role, c)]
             /\ removeRoomLocked(o)
          \/ /\ obj' = [obj EXCEPT ![o] = Detached(obj[o], role, c, now)]
             /\ rooms' = rooms
      BY <1>1, <2>4 DEF DetachRoom
    <3> HIDE DEF o, role
    <3> QED
      BY <2>2, <3>1, <3>2, <3>3, RemoveFacts, LockWrite
  <2> QED
    BY <2>3, <2>4
<1>2. CASE PublishRoom(c)
  <2>1. PICK e \in Epochs, pw \in Passwords :
          obj' = [obj EXCEPT ![nObj + 1] =
                    HostAttached(NewRoom(h[c].id, IpOf[c], now, now, pw), c, e)]
    BY <1>2 DEF PublishRoom
  <2> DEFINE new == NewRoom(h[c].id, IpOf[c], now, now, pw)
             rm  == HostAttached(new, c, e)
  <2>2. pw \in BOOLEAN /\ h[c].id \in RoomIds
    BY <1>0, <1>2, RoomRegistryAssumption DEF PublishRoom, FrameOK
  <2>3. new \in Room /\ new.id = h[c].id /\ new.passwordAttempts = 0
    BY <1>0, <1>n, <2>2
  <2> HIDE DEF new
  <2>4. rm \in Room /\ Same(new, rm)
    BY <1>0, <2>3, HostAttachedFacts, SameRoom
  <2>5. /\ CanBuild /\ nObj' = nObj + 1
        /\ rooms' = [rooms EXCEPT ![h[c].id] = nObj + 1]
        /\ obj' = [obj EXCEPT ![nObj + 1] = rm]
    BY <1>2, <2>1 DEF PublishRoom, new
  <2> HIDE DEF rm
  <2> QED
    BY <2>2, <2>3, <2>4, <2>5, LockBuild DEF Same
<1>3. CASE Recreate(c)
  <2> DEFINE rm == NewRoom(h[c].id, IpOf[c], h[c].createdAt, h[c].t, h[c].password)
  <2>1. h[c].id \in RoomIds
    BY <1>0, <1>3 DEF Recreate, FrameOK
  <2>2. rm \in Room /\ rm.id = h[c].id /\ rm.passwordAttempts = 0
    BY <1>0, <1>n, <2>1
  <2>3. /\ CanBuild /\ nObj' = nObj + 1
        /\ rooms' = [rooms EXCEPT ![h[c].id] = nObj + 1]
        /\ obj' = [obj EXCEPT ![nObj + 1] = rm]
    BY <1>3 DEF Recreate
  <2> HIDE DEF rm
  <2> QED
    BY <2>1, <2>2, <2>3, LockBuild
<1>4. CASE JoinAttach(c) \/ RejoinAttach(c) \/ PeerConnected(c) \/ Signal(c)
  <2> DEFINE o  == h[c].obj
             rm == obj[o]
  <2>1. o \in Objs /\ rm \in Room
    BY <1>0, <1>4 DEF JoinAttach, RejoinAttach, PeerConnected, Signal, FrameOK
  <2>2. nObj' = nObj /\ rooms' = rooms
    BY <1>4 DEF JoinAttach, RejoinAttach, PeerConnected, Signal
  <2>3. \/ obj' = obj
        \/ \E e \in Epochs : obj' = [obj EXCEPT ![o] = GuestAttached(rm, c, e)]
        \/ \E e \in Epochs : obj' = [obj EXCEPT ![o] =
             Rejoined(rm, h[c].role, c, e, h[c].recreated, h[c].t)]
        \/ obj' = [obj EXCEPT ![o] = Reported(rm, h[c].role, now)]
        \/ \E n \in 1..MaxSeq, z \in Sizes :
             \/ obj' = [obj EXCEPT ![o] = Accepted(rm, h[c].role, n)]
             \/ obj' = [obj EXCEPT ![o] = Overflowed(rm, h[c].role, n)]
             \/ obj' = [obj EXCEPT ![o] = Buffered(rm, h[c].role, n, z)]
    <3>1. CASE JoinAttach(c)
      BY <3>1 DEF JoinAttach
    <3>2. CASE RejoinAttach(c)
      BY <3>2 DEF RejoinAttach
    <3>3. CASE PeerConnected(c)
      BY <3>3 DEF PeerConnected
    <3>4. CASE Signal(c)
      <4>1. PICK n \in 1..MaxSeq, z \in Sizes :
              \/ obj' = obj
              \/ obj' = [obj EXCEPT ![o] = Accepted(rm, h[c].role, n)]
              \/ obj' = [obj EXCEPT ![o] = Overflowed(rm, h[c].role, n)]
              \/ obj' = [obj EXCEPT ![o] = Buffered(rm, h[c].role, n, z)]
        BY <3>4 DEF Signal
      <4> QED
        BY <4>1
    <3> QED
      BY <1>4, <3>1, <3>2, <3>3, <3>4
  <2> DEFINE role == h[c].role
             b    == h[c].recreated
             t    == h[c].t
  <2>4. /\ \A e \in Epochs : Same(rm, GuestAttached(rm, c, e))
        /\ \A e \in Epochs : Same(rm, Rejoined(rm, role, c, e, b, t))
        /\ \A n \in 1..MaxSeq : Same(rm, Accepted(rm, role, n))
        /\ \A n \in 1..MaxSeq : Same(rm, Overflowed(rm, role, n))
        /\ \A n \in 1..MaxSeq, z \in Sizes : Same(rm, Buffered(rm, role, n, z))
        /\ Same(rm, Reported(rm, role, now))
    <3>1. role \in Role /\ b \in BOOLEAN /\ t \in Time /\ rm \in Room /\ now \in Time
      BY <1>0, <2>1
    <3> HIDE DEF rm, role, b, t
    <3> QED
      BY <3>1, SameRoom
  <2>5. obj' = obj \/ \E new : Same(rm, new) /\ obj' = [obj EXCEPT ![o] = new]
    BY <2>3, <2>4
  <2> QED
    BY <2>1, <2>2, <2>5, LockSame, LockWrite
<1>5. CASE CloseRoom(c)
  <2>1. h[c].obj \in Objs
    BY <1>0, <1>5 DEF CloseRoom, FrameOK
  <2> QED
    BY <1>5, <2>1, LockEnd DEF CloseRoom, closeRoomLocked
<1> QED
  BY <1>1, <1>2, <1>3, <1>4, <1>5

\* Every step keeps locked-out rooms out of the map.
LEMMA NextLocked == TypeInv /\ LockInv /\ [Next]_vars => LockInv'
<1> SUFFICES ASSUME TypeInv, LockInv, [Next]_vars PROVE LockInv'
  OBVIOUS
<1>1. CASE UNCHANGED vars \/ Tick \/ SweepStart
  BY <1>1, LockSame DEF vars, Tick, SweepStart
<1>2. ASSUME NEW c \in Conns, Accept(c) \/ SocketCloses(c) \/ DetachSession(c) \/ Request(c)
      PROVE  LockInv'
  BY <1>2, LockSame DEF Accept, SocketCloses, DetachSession, Request, CreateRoom,
     JoinRoom, RejoinRoom, CheckAttached
<1>3. ASSUME NEW c \in Conns, Continue(c) PROVE LockInv'
  <2>1. CASE \/ CreateFails(c) \/ AttachCreator(c) \/ Reply(c) \/ ReplyFatal(c)
             \/ JoinLookup(c) \/ JoinRefused(c) \/ RejoinLookup(c)
             \/ RejoinRefused(c) \/ LoadRoom(c)
    BY <2>1, LockSame DEF CreateFails, AttachCreator, Reply, ReplyFatal, JoinLookup,
       JoinRefused, RejoinLookup, RejoinRefused, LoadRoom
  <2> QED
    BY <1>3, <2>1, LockHandlers, LockGuess DEF Continue
<1>4. ASSUME NEW o \in Objs, SweepRoom(o) PROVE LockInv'
  BY <1>4, LockSame, LockEnd DEF SweepRoom
<1> QED
  BY <1>1, <1>2, <1>3, <1>4, LockHandlers DEF Next, Release, Sweep

\* A room that took its last allowed wrong password is in the map no longer and
\* does not come back to it, with any number of guesses, joins, rejoins and
\* recreates of its id under way when it is closed.
THEOREM LockedOutStaysOut == Spec => []LockedOutRoomGone
<1>1. Init => LockInv
  BY DEF Init, LockInv, EntryInv, LockedOutRoomGone, Built
<1>2. LockInv => LockedOutRoomGone
  BY DEF LockInv
<1> QED
  BY <1>1, <1>2, NextLocked, InitType, NextType, PTL DEF Spec
=============================================================================
