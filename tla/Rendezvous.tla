----------------------------- MODULE Rendezvous -----------------------------
(***************************************************************************)
(* The two clients of a room (client/src/peer-connection.ts) and the room  *)
(* they meet in: handshakes, the signals of their WebRTC peers, peer-reset *)
(* and rebuilding, release, expiry and lockout of the room, reload of a    *)
(* page, restart of the server and the client's reconnect.  It asks        *)
(* whether what one side has built and what the other side has built end   *)
(* up belonging together.                                                  *)
(*                                                                         *)
(* A client runs one callback at a time, a step.  A server handler is two: *)
(* what it does under room.mu, taken from RoomState, and its answer, which *)
(* dispatchMessage sends when the lock is gone; the interleavings inside   *)
(* the first are RoomRegistry's subject.  Deadlines are the server's       *)
(* choice; tokens outlive the run; the application does not close the room *)
(* and does not repeat a call that failed.                                 *)
(*                                                                         *)
(* The browser's RTCPeerConnection is external: two peers connect when     *)
(* each holds the description the other one made for it.                   *)
(***************************************************************************)
EXTENDS RoomState

CONSTANTS
  MaxDials,   \* bound: sockets one client opens
  MaxAsks,    \* bound: handshakes one client begins
  MaxGens,    \* bound: peers one client builds
  MaxCands,   \* bound: candidates one peer sends
  Trickling,  \* bound: the peers that send any, each a role and a generation
  MaxFaults,  \* bound: faults
  Faults,     \* those that happen, of FaultKinds
  Solo        \* bound: those that happen only alone

FaultKinds == {"reload", "restart", "drop", "death", "expiry", "lockout"}

ASSUME RendezvousAssumption ==
  /\ Conns = Role \X (1..MaxDials)
  /\ Epochs = Role \X (1..MaxAsks)
  /\ MaxDials \in Nat /\ MaxAsks \in Nat
  /\ MaxGens \in Nat /\ MaxCands \in Nat /\ MaxFaults \in Nat
  /\ MaxSeq = MaxCands + 1 /\ 1 \in Sizes
  /\ Trickling \subseteq Role \X Nat
  /\ Faults \subseteq FaultKinds /\ Solo \subseteq Faults

VARIABLES
  room, live,      \* the room, and whether it is in the registry
  tomb,            \* whether it has a tombstone
  answer,          \* of each socket: what its handler has returned and not yet sent
  sock, up, down,  \* state of each socket, and the messages on their way on it
  wait,            \* of each socket: the handshake that awaits its opening
  cl,              \* the PeerConnection of each role
  pc,              \* its RtcPeer
  faults,          \* faults so far
  odd              \* history: what happened that can leave the peers apart

serverVars == <<room, live, tomb, answer>>
netVars    == <<sock, up, down, wait>>
vars == <<serverVars, netVars, cl, pc, faults, odd>>

-----------------------------------------------------------------------------
(* Types *)

Gen == 0..MaxGens    \* peerGenerationField; 0: no peer

\* What a peer emits: the peer that made it and, in an answer, the peer whose
\* offer it answers.
Data == [kind : {"offer", "answer", "candidate", "none"}, gen : Gen, to : Gen]

NoData == [kind |-> "none", gen |-> 0, to |-> 0]

\* A handshake: its epoch, which stands for its requestId too, and the other
\* role's epoch as it was known when it began (prevOtherEpoch).
Ask == [type : {"none", "create", "join", "rejoin"}, epoch : OptEpoch, prev : OptEpoch]

NoAsk == [type |-> "none", epoch |-> NoEpoch, prev |-> NoEpoch]

UpMsg == [type : {"create", "join", "rejoin", "signal", "connected"},
          epoch : OptEpoch, seq : 0..MaxSeq, data : Data]

Responses == {"created", "joined", "rejoined", "recreated"}

\* code: of an error-response to a handshake, or of a close frame.
DownMsg == [type : Responses \union
                   {"none", "refused", "overflow", "guest-joined", "peer-reset", "signal",
                    "idle", "expired", "room-closed", "closed"},
            epoch : OptEpoch, data : Data,
            code : {0, 1004, 1006, 1101, 1103, 1104, 4001, 4013, 4014, 4200, 4300, 4400}]

Note(type, epoch) == [type |-> type, epoch |-> epoch, data |-> NoData, code |-> 0]

NoAnswer == Note("none", NoEpoch)

Refused(epoch, code) == [Note("refused", epoch) EXCEPT !.code = code]

Closed(code) == [Note("closed", NoEpoch) EXCEPT !.code = code]

\* conn: transport.socket; ask: pendingHandshake; joined: state is set; other:
\* the other role's epoch, in it or in the stored session; over: terminal.
Client == [conn : Conns \union {NoConn}, dials : 0..MaxDials, asks : 0..MaxAsks,
           ask : Ask, joined : BOOLEAN, saved : BOOLEAN, other : OptEpoch, timer : BOOLEAN,
           released : BOOLEAN, over : BOOLEAN, seq : 0..MaxSeq]

NewClient == [conn |-> NoConn, dials |-> 0, asks |-> 0, ask |-> NoAsk, joined |-> FALSE,
              saved |-> FALSE, other |-> NoEpoch, timer |-> FALSE,
              released |-> FALSE, over |-> FALSE, seq |-> 0]

\* count: peers built so far; init: it is the initiator; made: the offer or
\* answer is made; remote: whose description is applied; broken: one that does
\* not fit was applied.
Peer == [gen : Gen, count : Gen, init : BOOLEAN, made : BOOLEAN, remote : Gen,
         broken : BOOLEAN, up : BOOLEAN, cands : 0..MaxCands]

NoPeer == [gen |-> 0, count |-> 0, init |-> FALSE, made |-> FALSE, remote |-> 0,
           broken |-> FALSE, up |-> FALSE, cands |-> 0]

SockStates == {"new", "dialing", "open", "left", "closed"}

\* The type of the state.
TypeOK ==
  /\ room \in Room /\ live \in BOOLEAN /\ tomb \in BOOLEAN
  /\ answer \in [Conns -> DownMsg]
  /\ sock \in [Conns -> SockStates] /\ wait \in [Conns -> Ask]
  /\ up \in [Conns -> Seq(UpMsg)] /\ down \in [Conns -> Seq(DownMsg)]
  /\ cl \in [Role -> Client] /\ pc \in [Role -> Peer]
  /\ faults \in 0..MaxFaults
  /\ odd \subseteq {"behind", "swallowed", "refused", "overtaken"}

-----------------------------------------------------------------------------
(* The network *)

\* The messages of a client that is still there to read them.
Posted(dn, c, m) == IF c # NoConn /\ sock[c] = "open" THEN [dn EXCEPT ![c] = Append(@, m)] ELSE dn

\* The server closes the sockets of S; each hears last[c] if its client is
\* there.  What their handlers would still answer is not sent.
CloseAll(S, last) ==
  /\ sock' = [c \in Conns |-> IF c \in S THEN "closed" ELSE sock[c]]
  /\ down' = [c \in Conns |-> IF c \in S /\ sock[c] = "open" THEN down[c] \o last[c] ELSE down[c]]
  /\ up' = [c \in Conns |-> IF c \in S THEN << >> ELSE up[c]]
  /\ answer' = [c \in Conns |-> IF c \in S THEN NoAnswer ELSE answer[c]]
  /\ UNCHANGED wait

Fault(kind) ==
  /\ kind \in Faults
  /\ faults' = faults + (IF kind \in Solo THEN MaxFaults ELSE 1)
  /\ faults' <= MaxFaults

-----------------------------------------------------------------------------
(* The client *)

Built(p, initiator) ==
  [NoPeer EXCEPT !.gen = p.count + 1, !.count = p.count + 1, !.init = initiator]

Destroyed(p) == [NoPeer EXCEPT !.count = p.count]

\* Mutant: the sequence counter goes on.
BuildPeer_KeepsSeq(r, k, initiator, always) ==
  IF pc[r].gen = 0 \/ always
  THEN /\ pc[r].count < MaxGens
       /\ pc' = [pc EXCEPT ![r] = Built(@, initiator)]
       /\ cl' = [cl EXCEPT ![r] = k]
  ELSE cl' = [cl EXCEPT ![r] = k] /\ UNCHANGED pc

\* The client becomes k and builds a peer when there is none (maybeBuildPeer)
\* or in any case; a new peer, a new counter.
BuildPeer(r, k, initiator, always) ==
  IF pc[r].gen = 0 \/ always
  THEN /\ pc[r].count < MaxGens
       /\ pc' = [pc EXCEPT ![r] = Built(@, initiator)]
       /\ cl' = [cl EXCEPT ![r] = [k EXCEPT !.seq = 0]]
  ELSE cl' = [cl EXCEPT ![r] = k] /\ UNCHANGED pc

\* Who initiates is read from the state: without one, nobody.
rebuildPeerWithNewEpoch(r, k) == BuildPeer(r, k, k.joined /\ r = "host", TRUE)

\* transportOpen: the browser has not heard of a close that is on its way.
transportOpen(k) == k.conn # NoConn /\ sock[k.conn] # "dialing"

\* Client k sends m over its socket.
Send(k, m) ==
  up' = IF k.conn # NoConn /\ sock[k.conn] = "open"
        THEN [up EXCEPT ![k.conn] = Append(@, m)] ELSE up

HandshakeMsg(a) == [type |-> a.type, epoch |-> a.epoch, seq |-> 0, data |-> NoData]

\* handshake by client k with a fresh epoch: over its open socket at once, else
\* it awaits a new one.  The sockets of gone are left behind.
Handshake(r, k, type, gone) ==
  LET a == [type |-> type, epoch |-> <<r, k.asks + 1>>, prev |-> k.other]
      c == <<r, k.dials + 1>>
  IN  /\ a.epoch \in Epochs
      /\ IF transportOpen(k)
         THEN /\ cl' = [cl EXCEPT ![r] = [k EXCEPT !.ask = a, !.asks = @ + 1]]
              /\ Send(k, HandshakeMsg(a))
              /\ UNCHANGED <<sock, down, wait>>
         ELSE /\ c \in Conns
              /\ cl' = [cl EXCEPT ![r] = [k EXCEPT !.conn = c, !.dials = @ + 1, !.asks = @ + 1]]
              /\ sock' = [x \in Conns |-> IF x = c THEN "dialing"
                                          ELSE IF x \in gone /\ sock[x] = "open" THEN "left"
                                          ELSE IF x \in gone /\ sock[x] = "dialing" THEN "closed"
                                          ELSE sock[x]]
              /\ down' = [x \in Conns |-> IF x \in gone THEN << >> ELSE down[x]]
              /\ wait' = [x \in Conns |-> IF x = c THEN a ELSE IF x \in gone THEN NoAsk ELSE wait[x]]
              /\ UNCHANGED up
      /\ UNCHANGED <<serverVars, odd>>

createRoom ==
  /\ cl["host"] = NewClient
  /\ Handshake("host", cl["host"], "create", {})
  /\ UNCHANGED <<pc, faults>>

\* The application hands the guest the room id once the room exists.
joinRoom ==
  /\ cl["guest"] = NewClient /\ cl["host"].joined
  /\ Handshake("guest", cl["guest"], "join", {})
  /\ UNCHANGED <<pc, faults>>

\* The page is loaded again: a new PeerConnection calls rejoin with the stored
\* session.  The browser closes the old page's sockets.
rejoin(r) ==
  /\ Fault("reload")
  /\ cl[r].saved
  /\ Handshake(r, [NewClient EXCEPT !.saved = TRUE, !.other = cl[r].other,
                                    !.dials = cl[r].dials, !.asks = cl[r].asks],
               "rejoin", {c \in Conns : c[1] = r})
  /\ pc' = [pc EXCEPT ![r] = Destroyed(@)]

\* failTerminal, of the client; its socket stays.
Ended(k) == [k EXCEPT !.over = TRUE, !.timer = FALSE]

failTerminal(r, k) ==
  /\ cl' = [cl EXCEPT ![r] = Ended(k)]
  /\ pc' = [pc EXCEPT ![r] = Destroyed(@)]

\* triggerReconnect with a retryable error
Reconnecting(k) == IF k.over THEN k ELSE [k EXCEPT !.timer = TRUE]

\* The timer fires.
doRejoin(r) ==
  LET k == [cl[r] EXCEPT !.timer = FALSE]
  IN  /\ cl[r].timer
      /\ IF k.over \/ ~k.joined
         THEN cl' = [cl EXCEPT ![r] = k] /\ UNCHANGED <<serverVars, netVars, odd>>
         ELSE Handshake(r, k, "rejoin", {})
      /\ UNCHANGED <<pc, faults>>

\* Socket c opens and the handshake that awaited it goes on, over whichever
\* socket is the transport's by now.  When that one is not open, a reconnect
\* tries again and a call of the application fails.
Opened(c) ==
  LET r == c[1]
      k == cl[r]
      a == wait[c]
      m == HandshakeMsg(a)
  IN  /\ sock[c] = "dialing"
      /\ sock' = [sock EXCEPT ![c] = "open"]
      /\ wait' = [wait EXCEPT ![c] = NoAsk]
      /\ \/ /\ k.conn = c
            /\ cl' = [cl EXCEPT ![r].ask = a]
            /\ up' = [up EXCEPT ![c] = Append(@, m)]
         \/ /\ k.conn # c /\ transportOpen(k)
            /\ cl' = [cl EXCEPT ![r].ask = a]
            /\ Send(k, m)
         \/ /\ k.conn # c /\ ~transportOpen(k)
            /\ cl' = [cl EXCEPT ![r] = LET l == [k EXCEPT !.ask = NoAsk]
                                       IN  IF k.joined THEN Reconnecting(l) ELSE l]
            /\ UNCHANGED up
      /\ UNCHANGED <<serverVars, down, pc, faults, odd>>

Forgotten(k) == IF k.joined THEN [k EXCEPT !.saved = FALSE] ELSE k

\* 4200: released; 4400: replaced; 4013: closed.  Else a client with a state
\* reconnects after 4014 and 4300, and gives up after any other code; a pending
\* handshake stays pending.  The event of any socket empties the transport.
handleTransportClose(r, code) ==
  LET k == [cl[r] EXCEPT !.conn = NoConn]
      retryable == code \in {4014, 4300}
  IN  \/ code = 4200 /\ cl' = [cl EXCEPT ![r] = [k EXCEPT !.released = TRUE]] /\ UNCHANGED pc
      \/ code = 4400 /\ failTerminal(r, k)
      \/ code = 4013 /\ failTerminal(r, Forgotten(k))
      \/ /\ code \notin {4200, 4400, 4013}
         /\ IF k.joined /\ (k.over \/ retryable)
            THEN cl' = [cl EXCEPT ![r] = Reconnecting(k)] /\ UNCHANGED pc
            ELSE failTerminal(r, k)

\* A connection breaks (close code 1006), or cannot be made: then the handshake
\* that awaits it fails too, not retryable.  What was on its way back is lost,
\* and so may be the last of what the client sent.
ConnectionLost(c) ==
  /\ Fault("drop")
  /\ \/ /\ sock[c] = "open"
        /\ handleTransportClose(c[1], 1006)
        /\ sock' = [sock EXCEPT ![c] = "left"]
        /\ UNCHANGED wait
     \/ /\ sock[c] = "dialing"
        /\ failTerminal(c[1], [cl[c[1]] EXCEPT !.conn = NoConn])
        /\ sock' = [sock EXCEPT ![c] = "closed"]
        /\ wait' = [wait EXCEPT ![c] = NoAsk]
  /\ down' = [down EXCEPT ![c] = << >>]
  /\ \E n \in 0..Len(up[c]) : up' = [up EXCEPT ![c] = SubSeq(@, 1, n)]
  /\ UNCHANGED <<serverVars, odd>>

-----------------------------------------------------------------------------
(* handleServerMessage *)

Incoming(c, types) == down[c] # << >> /\ Head(down[c]).type \in types

\* One message is taken; the server, the other messages and the faults stay.
Take(c) ==
  /\ down' = [down EXCEPT ![c] = Tail(@)]
  /\ UNCHANGED <<serverVars, sock, up, wait, faults>>

\* applyHandshakeResponse: the epoch of the other role in the response.
Applied(k, m) == [k EXCEPT !.ask = NoAsk, !.joined = TRUE, !.saved = TRUE, !.other = m.epoch]

\* The other side's epoch is the first one a client hears of, and its peer was
\* built before: it stays, and with it an offer nobody was there to take.
Behind(r, prev, e) ==
  IF pc[r].gen # 0 /\ prev = NoEpoch /\ e # NoEpoch THEN odd \union {"behind"} ELSE odd

\* A response resolves whatever handshake is pending.  The guest builds its
\* peer on joining; on a rejoin a peer is built when there is none, and built
\* anew when the room is the same and the other side's epoch is not.
resolveHandshake(c) ==
  LET r == c[1]
      m == Head(down[c])
      prev == cl[r].ask.prev
      k == Applied(cl[r], m)
      changed == m.type = "rejoined" /\ prev # NoEpoch /\ prev # m.epoch
  IN  /\ Incoming(c, Responses) /\ Take(c)
      /\ \/ cl[r].ask = NoAsk /\ UNCHANGED <<cl, pc, odd>>
         \/ /\ cl[r].ask # NoAsk
            /\ odd' = Behind(r, prev, m.epoch)
            /\ IF m.type = "created" THEN cl' = [cl EXCEPT ![r] = k] /\ UNCHANGED pc
               ELSE BuildPeer(r, k, m.type # "joined" /\ r = "host", changed)

\* A refusal of the pending handshake: a call of the application fails; a
\* reconnect ends when the room is closed (1104) and does nothing when the
\* connection was attached all along (1004).
handleRefusal(c) ==
  LET r == c[1]
      m == Head(down[c])
      k == [cl[r] EXCEPT !.ask = NoAsk]
  IN  /\ Incoming(c, {"refused"}) /\ Take(c) /\ UNCHANGED odd
      /\ IF cl[r].ask = NoAsk \/ cl[r].ask.epoch # m.epoch THEN UNCHANGED <<cl, pc>>
         ELSE IF k.joined /\ m.code = 1104 THEN failTerminal(r, Forgotten(k))
         ELSE cl' = [cl EXCEPT ![r] = k] /\ UNCHANGED pc

\* 1303: the peer is rebuilt, the epoch is not changed.
handleOverflow(c) ==
  /\ Incoming(c, {"overflow"}) /\ Take(c)
  /\ rebuildPeerWithNewEpoch(c[1], cl[c[1]])
  /\ UNCHANGED odd

handleGuestJoined(c) ==
  LET r == c[1]
      e == Head(down[c]).epoch
      prev == cl[r].other
      k == [cl[r] EXCEPT !.other = e]
  IN  /\ Incoming(c, {"guest-joined"}) /\ Take(c)
      /\ \/ ~cl[r].joined /\ UNCHANGED <<cl, pc, odd>>
         \/ /\ cl[r].joined
            /\ odd' = Behind(r, prev, e)
            /\ BuildPeer(r, k, TRUE, prev # NoEpoch /\ prev # e)

\* Mutant: a peer that is there is kept.
handlePeerReset_Keeps(c) ==
  LET r == c[1]
      e == Head(down[c]).epoch
      k == IF cl[r].joined THEN [cl[r] EXCEPT !.other = e] ELSE cl[r]
  IN  /\ Incoming(c, {"peer-reset"}) /\ Take(c) /\ UNCHANGED odd
      /\ BuildPeer(r, k, k.joined /\ r = "host", FALSE)

handlePeerReset(c) ==
  LET r == c[1]
      e == Head(down[c]).epoch
      k == IF cl[r].joined THEN [cl[r] EXCEPT !.other = e] ELSE cl[r]
  IN  /\ Incoming(c, {"peer-reset"}) /\ Take(c) /\ UNCHANGED odd
      /\ rebuildPeerWithNewEpoch(r, k)

handleRoomIdleClose(c) ==
  /\ Incoming(c, {"idle"}) /\ Take(c)
  /\ cl' = [cl EXCEPT ![c[1]].released = TRUE]
  /\ UNCHANGED <<pc, odd>>

\* room-expired and room-closed end the client; the peer stays.
handleRoomEnd(c) ==
  /\ Incoming(c, {"expired", "room-closed"}) /\ Take(c)
  /\ cl' = [cl EXCEPT ![c[1]] = [Forgotten(@) EXCEPT !.over = TRUE]]
  /\ UNCHANGED <<pc, odd>>

\* A description goes to the RTCPeerConnection: a responder takes one offer, an
\* initiator one answer to the offer it made.  One that does not fit fails to
\* apply, which destroys the peer.
WithSignal(p, d) ==
  LET fits == /\ p.remote = 0 /\ p.init = (d.kind = "answer")
              /\ p.init => p.made /\ d.to = p.gen
  IN  IF d.kind = "candidate" \/ p.gen = 0 THEN p
      ELSE IF fits THEN [p EXCEPT !.remote = d.gen] ELSE [p EXCEPT !.broken = TRUE]

handleSignalResponse(c) ==
  /\ Incoming(c, {"signal"}) /\ Take(c)
  /\ pc' = [pc EXCEPT ![c[1]] = WithSignal(@, Head(down[c]).data)]
  /\ UNCHANGED <<cl, odd>>

SocketCloses(c) ==
  /\ Incoming(c, {"closed"}) /\ Take(c)
  /\ handleTransportClose(c[1], Head(down[c]).code)
  /\ UNCHANGED odd

-----------------------------------------------------------------------------
(* The peers *)

\* Over the engine's own channel once released and connected, dropped while
\* there is no open socket, else over the socket with the next number.
sendSignal(r, d) ==
  LET k == [cl[r] EXCEPT !.seq = @ + 1]
      m == [type |-> "signal", epoch |-> NoEpoch, seq |-> k.seq, data |-> d]
  IN  IF ~transportOpen(k) \/ (k.released /\ pc[r].up)
      THEN UNCHANGED <<cl, up>>
      ELSE cl' = [cl EXCEPT ![r] = k] /\ Send(k, m)

Emit(r, p, kind) ==
  /\ sendSignal(r, [kind |-> kind, gen |-> p.gen,
                    to |-> IF kind = "answer" THEN p.remote ELSE 0])
  /\ pc' = [pc EXCEPT ![r] = p]
  /\ UNCHANGED <<serverVars, sock, down, wait, faults, odd>>

\* The initiator offers by itself; a responder's own first request is
\* discarded, and it answers when it holds an offer.
Describes(p) == p.gen # 0 /\ ~p.made /\ ~p.broken /\ (p.init \/ p.remote # 0)

Describe(r) ==
  /\ Describes(pc[r])
  /\ Emit(r, [pc[r] EXCEPT !.made = TRUE], IF pc[r].init THEN "offer" ELSE "answer")

Trickle(r) ==
  /\ <<r, pc[r].gen>> \in Trickling /\ pc[r].made /\ pc[r].cands < MaxCands
  /\ Emit(r, [pc[r] EXCEPT !.cands = @ + 1], "candidate")

\* Each holds the description the other one made for it.
Matched ==
  LET h == pc["host"]
      g == pc["guest"]
  IN  /\ h.gen # 0 /\ g.gen # 0 /\ h.remote = g.gen /\ g.remote = h.gen
      /\ ~h.broken /\ ~g.broken

\* The peer's connect event and sendPeerConnected.
Connect(r) ==
  /\ Matched /\ ~pc[r].up
  /\ pc' = [pc EXCEPT ![r].up = TRUE]
  /\ IF cl[r].released THEN UNCHANGED up
     ELSE Send(cl[r], [type |-> "connected", epoch |-> NoEpoch, seq |-> 0, data |-> NoData])
  /\ UNCHANGED <<serverVars, sock, down, wait, cl, faults, odd>>

\* Nothing is on its way, in either direction.
Silent == \A c \in Conns : up[c] = << >> /\ down[c] = << >> /\ answer[c] = NoAnswer

\* The peer is destroyed: what it was given does not fit; or its connection
\* fails, connected or not, as the one it holds a description of is gone or
\* has not answered when all is delivered.
Dead(r) ==
  LET p == pc[r]
  IN  /\ p.gen # 0
      /\ \/ p.broken
         \/ /\ p.made /\ p.remote # 0 /\ ~Matched
            /\ pc[Other(r)].gen # p.remote \/ Silent

PeerClosed(r) ==
  /\ pc' = [pc EXCEPT ![r] = Destroyed(@)]
  /\ cl' = [cl EXCEPT ![r] = Reconnecting(@)]
  /\ UNCHANGED <<serverVars, netVars, odd>>

PeerFails(r) == Dead(r) /\ PeerClosed(r) /\ UNCHANGED faults

\* A peer that has both descriptions dies: the path between the two is lost,
\* or none was found in time.
PathLost(r) == Fault("death") /\ pc[r].made /\ pc[r].remote # 0 /\ PeerClosed(r)

-----------------------------------------------------------------------------
(* The server *)

\* The reader of c takes the next message when the last one is answered.
Arriving(c, type) ==
  /\ sock[c] \in {"open", "left"} /\ answer[c] = NoAnswer
  /\ up[c] # << >> /\ Head(up[c]).type = type

Attached(c) == live /\ room.slots[c[1]].conn = c

Read(c) == up' = [up EXCEPT ![c] = Tail(@)]

Answer(c, m) == answer' = [answer EXCEPT ![c] = m]

rId == CHOOSE id \in RoomIds : TRUE
rIp == CHOOSE ip \in IPs : TRUE
NoRoom == NewRoom(rId, rIp, 0, 0, FALSE)

CreateRoom(c) ==
  /\ Arriving(c, "create") /\ Read(c)
  /\ room' = HostAttached(NoRoom, c, Head(up[c]).epoch)
  /\ live' = TRUE
  /\ Answer(c, Note("created", NoEpoch))
  /\ UNCHANGED <<tomb, sock, down, wait, cl, pc, faults, odd>>

JoinRoom(c) ==
  LET e == Head(up[c]).epoch
      h == room.slots["host"]
      code == IF tomb THEN 1104 ELSE IF ~live THEN 1101 ELSE 1103
  IN  /\ Arriving(c, "join") /\ Read(c)
      /\ IF live /\ ~tomb /\ ~Occupied(room, "guest")
         THEN /\ room' = GuestAttached(room, c, e)
              /\ down' = Posted(down, h.conn, Note("guest-joined", e))
              /\ Answer(c, Note("joined", h.epoch))
         ELSE Answer(c, Refused(e, code)) /\ UNCHANGED <<room, down>>
      /\ UNCHANGED <<live, tomb, sock, wait, cl, pc, faults, odd>>

\* A connection that has its slot is refused (1004), and so is every one when
\* the room is closed for good (1104).
RejoinRefused(c) ==
  /\ Arriving(c, "rejoin") /\ (Attached(c) \/ tomb)
  /\ Read(c)
  /\ Answer(c, Refused(Head(up[c]).epoch, IF Attached(c) THEN 1004 ELSE 1104))
  /\ odd' = odd \union {"refused"}
  /\ UNCHANGED <<room, live, tomb, sock, down, wait, cl, pc, faults>>

\* The room is made again if it is gone, the slot's connection is evicted
\* (4400), and the other slot is told: the epoch is always a new one.
RejoinRoom(c) ==
  LET e == Head(up[c]).epoch
      r == c[1]
      base == IF live THEN room ELSE NoRoom
      old == base.slots[r].conn
      other == base.slots[Other(r)]
      evicted == [x \in Conns |-> IF x = old /\ sock[x] = "open"
                                  THEN Append(down[x], Closed(4400)) ELSE down[x]]
  IN  /\ Arriving(c, "rejoin") /\ ~Attached(c) /\ ~tomb
      /\ room' = Rejoined(base, r, c, e, ~live, 0)
      /\ live' = TRUE
      /\ down' = Posted(evicted, other.conn, Note("peer-reset", e))
      /\ sock' = [x \in Conns |-> IF x = old THEN "closed" ELSE sock[x]]
      /\ up' = [x \in Conns |-> IF x = c THEN Tail(up[x])
                                ELSE IF x = old THEN << >> ELSE up[x]]
      /\ answer' = [x \in Conns |->
                      IF x = c THEN Note(IF live THEN "rejoined" ELSE "recreated", other.epoch)
                      ELSE IF x = old THEN NoAnswer ELSE answer[x]]
      /\ UNCHANGED <<tomb, wait, cl, pc, faults, odd>>

\* A signal of a connection that is not attached is refused.  One that is
\* forwarded may overtake the response its receiver's handler has returned.
Signal(c) ==
  LET m == Head(up[c])
      r == c[1]
      there == room.slots[Other(r)]
      fresh == Attached(c) /\ m.seq > room.slots[r].lastSeq
      full == BufferFull(there, 1)
      note == [Note("signal", room.slots[r].epoch) EXCEPT !.data = m.data]
  IN  /\ Arriving(c, "signal") /\ Read(c)
      /\ \/ /\ ~fresh
            /\ odd' = IF Attached(c) /\ m.data.gen = pc[r].gen
                      THEN odd \union {"swallowed"} ELSE odd
            /\ UNCHANGED <<room, down, answer>>
         \/ /\ fresh /\ there.conn # NoConn
            /\ room' = Accepted(room, r, m.seq)
            /\ down' = Posted(down, there.conn, note)
            /\ odd' = IF answer[there.conn].type \in Responses
                      THEN odd \union {"overtaken"} ELSE odd
            /\ UNCHANGED answer
         \/ /\ fresh /\ there.conn = NoConn /\ full
            /\ room' = Overflowed(room, r, m.seq)
            /\ Answer(c, Note("overflow", NoEpoch))
            /\ UNCHANGED <<down, odd>>
         \/ /\ fresh /\ there.conn = NoConn /\ ~full
            /\ room' = Buffered(room, r, m.seq, 1)
            /\ UNCHANGED <<down, answer, odd>>
      /\ UNCHANGED <<live, tomb, sock, wait, cl, pc, faults>>

PeerConnected(c) ==
  /\ Arriving(c, "connected") /\ Read(c)
  /\ room' = IF Attached(c) /\ ~room.slots[c[1]].reportedConnected THEN Reported(room, c[1], 0) ELSE room
  /\ UNCHANGED <<live, tomb, answer, sock, down, wait, cl, pc, faults, odd>>

\* dispatchMessage sends what the handler returned, when room.mu is released.
Reply(c) ==
  /\ answer[c] # NoAnswer
  /\ down' = Posted(down, c, answer[c])
  /\ Answer(c, NoAnswer)
  /\ UNCHANGED <<room, live, tomb, sock, up, wait, cl, pc, faults, odd>>

Without(c) == IF Attached(c) THEN Detached(room, c[1], c, 0) ELSE room

\* The server has read all a client sent before it left.
Detach(c) ==
  /\ sock[c] = "left" /\ up[c] = << >> /\ answer[c] = NoAnswer
  /\ sock' = [sock EXCEPT ![c] = "closed"]
  /\ room' = Without(c)
  /\ UNCHANGED <<live, tomb, answer, up, down, wait, cl, pc, faults, odd>>

\* The server gives a connection up (4001): no handshake in time, no pong.
ServerDrops(c) ==
  /\ Fault("drop") /\ sock[c] = "open"
  /\ CloseAll({c}, [x \in Conns |-> <<Closed(4001)>>])
  /\ room' = Without(c)
  /\ UNCHANGED <<live, tomb, cl, pc, odd>>

\* The room leaves the registry, and its occupants hear ms.
RoomEnds(ms) ==
  /\ live
  /\ CloseAll(Occupants(room), [x \in Conns |-> ms])
  /\ room' = NoRoom /\ live' = FALSE
  /\ UNCHANGED <<cl, pc, odd>>

\* The sweep, after the grace.
release ==
  /\ room.releaseAt # NoTime
  /\ RoomEnds(<<Note("idle", NoEpoch), Closed(4200)>>)
  /\ UNCHANGED <<tomb, faults>>

\* The sweep, after a deadline; no tombstone.
expire ==
  /\ Fault("expiry")
  /\ RoomEnds(<<Note("expired", NoEpoch), Closed(4014)>>)
  /\ UNCHANGED tomb

\* A stranger's wrong guesses at the guest password.
closeRoom ==
  /\ Fault("lockout")
  /\ RoomEnds(<<Note("room-closed", NoEpoch), Closed(4013)>>)
  /\ tomb' = TRUE

\* The server stops: it closes the occupants' sockets, and the others break
\* when it is gone.  It starts again with its room, from the file, or without.
Restart ==
  LET restored == [Emptied(room) EXCEPT !.releaseAt = NoTime]
  IN  /\ Fault("restart") /\ live
      /\ CloseAll({c \in Conns : sock[c] \in {"open", "left"}},
                  [c \in Conns |-> <<Closed(IF c \in Occupants(room) THEN 4300 ELSE 1006)>>])
      /\ live' \in BOOLEAN
      /\ room' = IF live' THEN restored ELSE NoRoom
      /\ UNCHANGED <<tomb, cl, pc, odd>>

-----------------------------------------------------------------------------

Init ==
  /\ room = NoRoom /\ live = FALSE /\ tomb = FALSE
  /\ answer = [c \in Conns |-> NoAnswer]
  /\ sock = [c \in Conns |-> "new"] /\ wait = [c \in Conns |-> NoAsk]
  /\ up = [c \in Conns |-> << >>] /\ down = [c \in Conns |-> << >>]
  /\ cl = [r \in Role |-> NewClient] /\ pc = [r \in Role |-> NoPeer]
  /\ faults = 0 /\ odd = {}

ClientStep(c) ==
  \/ Opened(c) \/ ConnectionLost(c)
  \/ resolveHandshake(c) \/ handleRefusal(c) \/ handleOverflow(c) \/ handleGuestJoined(c)
  \/ handlePeerReset(c) \/ handleRoomIdleClose(c) \/ handleRoomEnd(c)
  \/ handleSignalResponse(c) \/ SocketCloses(c)

PeerStep(r) == Describe(r) \/ Trickle(r) \/ Connect(r) \/ PeerFails(r) \/ PathLost(r)

ServerStep(c) ==
  \/ CreateRoom(c) \/ JoinRoom(c) \/ RejoinRefused(c) \/ RejoinRoom(c) \/ Signal(c)
  \/ PeerConnected(c) \/ Reply(c) \/ Detach(c) \/ ServerDrops(c)

Next ==
  \/ createRoom \/ joinRoom \/ release \/ expire \/ closeRoom \/ Restart
  \/ \E r \in Role : rejoin(r) \/ doRejoin(r) \/ PeerStep(r)
  \/ \E c \in Conns : ClientStep(c) \/ ServerStep(c)

Spec == Init /\ [][Next]_vars

-----------------------------------------------------------------------------
(* Properties *)

\* Nothing is on its way and nobody is about to do anything.
Quiet ==
  /\ Silent
  /\ \A c \in Conns : sock[c] \notin {"dialing", "left"}
  /\ \A r \in Role : ~cl[r].timer /\ ~Dead(r) /\ ~Describes(pc[r])

BothAttached == \A r \in Role : cl[r].conn # NoConn /\ Attached(cl[r].conn)

\* When both clients sit in the room and everything sent has been dealt with,
\* the peer each one has built holds the description the other's peer made for
\* it: whatever reloads, restarts and lost peers came before, the peer-reset
\* and guest-joined handling of peer-connection.ts leaves no side with a peer
\* the other side does not know.  Five cases apart: a peer was built before
\* there was anybody to signal to; a signal was swallowed as a duplicate; a
\* signal overtook the response that makes its receiver build the peer for it;
\* a host that heard peer-reset before its response built a peer that does not
\* offer; and a client that lost its peer was refused the rejoin, as it had
\* never left the room, and has none.
QuietMatched ==
  Quiet /\ BothAttached =>
    \/ Matched
    \/ {"behind", "swallowed", "overtaken"} \intersect odd # {}
    \/ pc["host"].gen # 0 /\ ~pc["host"].init
    \/ "refused" \in odd /\ \E r \in Role : pc[r].gen = 0

\* docs/DESIGN.md, "lastSeq is tracked per slot per epoch": the reset of both
\* counters on peer-reset keeps a fresh peer's first signals from being dropped
\* as duplicates.  No signal of the peer its sender has now is dropped so.
FreshSignalsPass == "swallowed" \notin odd

\* client/src/rtc/negotiation.ts: "both peers agree permanently on who offers",
\* as the roles never change.  Of two peers exactly one is the initiator.
OneOfferer ==
  pc["host"].gen # 0 /\ pc["guest"].gen # 0 => pc["host"].init # pc["guest"].init
=============================================================================
