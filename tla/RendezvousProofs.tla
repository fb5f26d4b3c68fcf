-------------------------- MODULE RendezvousProofs --------------------------
(***************************************************************************)
(* The two clients and their room stay well typed.  What takes an argument *)
(* is the sequence number: it is bounded by what one peer sends, because a *)
(* client starts to count anew with each peer it builds; and that a socket *)
(* that opens has a handshake to send, kept for it while it is dialed.     *)
(***************************************************************************)
EXTENDS Rendezvous, RoomStateProofs, SequenceTheorems, TLAPS

-----------------------------------------------------------------------------
(* The inductive invariant *)

\* A handshake names its epoch.
SentUp == {m \in UpMsg : m.type \in {"create", "join", "rejoin"} => m.epoch \in Epochs}

\* A handshake that has begun.
Begun == {a \in Ask : a.type # "none" /\ a.epoch \in Epochs}

OddKinds == {"behind", "swallowed", "refused", "overtaken"}

\* Client k has numbered no more signals than its peer p has sent; without a
\* peer the old count may stand, but nothing is sent.
Numbered(k, p) ==
  /\ p.made => p.gen # 0
  /\ p.gen # 0 => k.seq <= (IF p.made THEN 1 + p.cands ELSE 0)

ServerInv ==
  /\ room \in Room /\ live \in BOOLEAN /\ tomb \in BOOLEAN
  /\ answer \in [Conns -> DownMsg]

NetInv ==
  /\ sock \in [Conns -> SockStates] /\ wait \in [Conns -> Ask]
  /\ \A c \in Conns : sock[c] = "dialing" => wait[c] \in Begun
  /\ up \in [Conns -> Seq(SentUp)] /\ down \in [Conns -> Seq(DownMsg)]

ClientInv ==
  /\ cl \in [Role -> Client] /\ pc \in [Role -> Peer]
  /\ \A r \in Role : Numbered(cl[r], pc[r])

OddInv == faults \in 0..MaxFaults /\ odd \subseteq OddKinds

TypeInv == ServerInv /\ NetInv /\ ClientInv /\ OddInv

LEMMA TypeInvImplies == TypeInv => TypeOK
<1> SUFFICES ASSUME TypeInv PROVE TypeOK
  OBVIOUS
<1>1. SentUp \subseteq UpMsg
  BY DEF SentUp
<1>2. Seq(SentUp) \subseteq Seq(UpMsg)
  BY <1>1, SeqMonotonic
<1>3. up \in [Conns -> Seq(UpMsg)]
  BY <1>2 DEF TypeInv, NetInv
<1> QED
  BY <1>3 DEF TypeInv, ServerInv, NetInv, ClientInv, OddInv, OddKinds, TypeOK

-----------------------------------------------------------------------------
(* Constants and records *)

LEMMA Bounds ==
  /\ MaxDials \in Nat /\ MaxAsks \in Nat /\ MaxGens \in Nat /\ MaxCands \in Nat
  /\ MaxFaults \in Nat /\ MaxSeq = MaxCands + 1 /\ MaxSeq \in Nat /\ 1 \in Sizes
BY RendezvousAssumption, RoomStateAssumption

LEMMA Names ==
  /\ \A c \in Conns : c[1] \in Role
  /\ \A r \in Role, n \in Nat : <<r, n + 1>> \in Conns => n + 1 \in 0..MaxDials
  /\ \A r \in Role, n \in Nat : <<r, n + 1>> \in Epochs => n + 1 \in 0..MaxAsks
  /\ NoConn \notin Conns
BY RendezvousAssumption, RoomStateAssumption

LEMMA NoDataType == NoData \in Data
BY Bounds DEF NoData, Data, Gen

LEMMA NoteTypes ==
  ASSUME NEW t \in Responses \union
                {"none", "refused", "overflow", "guest-joined", "peer-reset", "signal",
                 "idle", "expired", "room-closed", "closed"},
         NEW e \in OptEpoch
  PROVE  /\ Note(t, e) \in DownMsg
         /\ \A d \in Data : [Note(t, e) EXCEPT !.data = d] \in DownMsg
BY NoDataType DEF Note, DownMsg

LEMMA NoEpochType == NoEpoch \in OptEpoch /\ \A e \in Epochs : e \in OptEpoch
BY DEF OptEpoch

LEMMA NoAnswerType == NoAnswer \in DownMsg
BY NoteTypes, NoEpochType DEF NoAnswer

LEMMA RefusedTypes ==
  ASSUME NEW e \in OptEpoch, NEW n \in {1004, 1101, 1103, 1104}
  PROVE  Refused(e, n) \in DownMsg
<1>1. Note("refused", e) \in DownMsg
  BY NoteTypes
<1> QED
  BY <1>1 DEF Refused, DownMsg

LEMMA ClosedTypes ==
  ASSUME NEW n \in {1006, 4001, 4013, 4014, 4200, 4300, 4400}
  PROVE  Closed(n) \in DownMsg
<1>1. Note("closed", NoEpoch) \in DownMsg
  BY NoEpochType, NoDataType DEF Note, DownMsg
<1> QED
  BY <1>1 DEF Closed, DownMsg

LEMMA DownMsgTypes ==
  ASSUME NEW m \in DownMsg
  PROVE  m.epoch \in OptEpoch /\ m.data \in Data
BY DEF DownMsg

LEMMA NoAskType == NoAsk \in Ask
BY DEF NoAsk, Ask, OptEpoch

\* The message of a handshake that has begun.
LEMMA HandshakeMsgTypes ==
  ASSUME NEW a \in Begun
  PROVE  HandshakeMsg(a) \in SentUp
<1>1. a.type \in {"create", "join", "rejoin"} /\ a.epoch \in Epochs /\ a.epoch \in OptEpoch
  BY DEF Begun, Ask
<1>2. 0 \in 0..MaxSeq
  BY Bounds
<1> QED
  BY <1>1, <1>2, NoDataType DEF HandshakeMsg, SentUp, UpMsg

LEMMA NewTypes ==
  /\ NewClient \in Client /\ NoPeer \in Peer /\ Numbered(NewClient, NoPeer)
  /\ NewClient.seq = 0
<1>1. 0 \in 0..MaxDials /\ 0 \in 0..MaxAsks /\ 0 \in 0..MaxSeq /\ 0 \in Gen /\ 0 \in 0..MaxCands
  BY Bounds DEF Gen
<1>2. NewClient \in Client
  BY <1>1, NoAskType DEF NewClient, Client, OptEpoch
<1>3. NoPeer \in Peer
  BY <1>1 DEF NoPeer, Peer
<1> QED
  BY <1>2, <1>3 DEF Numbered, NewClient, NoPeer

LEMMA ClientTypes ==
  ASSUME NEW k \in Client
  PROVE  /\ k.conn \in Conns \union {NoConn} /\ k.dials \in 0..MaxDials /\ k.asks \in 0..MaxAsks
         /\ k.other \in OptEpoch /\ k.ask \in Ask /\ k.seq \in 0..MaxSeq
         /\ k.timer \in BOOLEAN /\ k.over \in BOOLEAN /\ k.joined \in BOOLEAN
BY DEF Client

LEMMA PeerTypes ==
  ASSUME NEW p \in Peer
  PROVE  /\ p.gen \in Gen /\ p.count \in Gen /\ p.made \in BOOLEAN /\ p.remote \in Gen
         /\ p.cands \in 0..MaxCands /\ p.up \in BOOLEAN /\ p.init \in BOOLEAN
BY DEF Peer

LEMMA NoPeerIs ==
  /\ NoPeer \in Peer /\ NoPeer.made = FALSE /\ NoPeer.gen = 0 /\ NoPeer.cands = 0
BY NewTypes DEF NoPeer

LEMMA BuiltTypes ==
  ASSUME NEW p \in Peer, p.count < MaxGens, NEW i \in BOOLEAN
  PROVE  Built(p, i) \in Peer /\ \A k : k.seq = 0 => Numbered(k, Built(p, i))
<1>1. p.count + 1 \in Gen /\ p.count + 1 # 0
  BY PeerTypes, Bounds DEF Gen
<1>2. Built(p, i) \in Peer /\ Built(p, i).gen = p.count + 1 /\ Built(p, i).made = FALSE
  BY <1>1, NoPeerIs DEF Built, Peer
<1> QED
  BY <1>1, <1>2 DEF Numbered

LEMMA DestroyedTypes ==
  ASSUME NEW p \in Peer
  PROVE  Destroyed(p) \in Peer /\ \A k : Numbered(k, Destroyed(p))
<1>1. p.count \in Gen
  BY PeerTypes
<1>2. Destroyed(p) \in Peer /\ Destroyed(p).gen = 0 /\ Destroyed(p).made = FALSE
  BY <1>1, NoPeerIs DEF Destroyed, Peer
<1> QED
  BY <1>2 DEF Numbered

-----------------------------------------------------------------------------
(* Updates *)

\* One client and its peer change.
LEMMA ClientUpdate ==
  ASSUME ClientInv, NEW r \in Role, NEW k \in Client, NEW p \in Peer, Numbered(k, p),
         cl' = [cl EXCEPT ![r] = k], pc' = [pc EXCEPT ![r] = p]
  PROVE  ClientInv'
<1>1. cl' \in [Role -> Client] /\ \A q \in Role : cl'[q] = IF q = r THEN k ELSE cl[q]
  BY DEF ClientInv
<1>2. pc' \in [Role -> Peer] /\ \A q \in Role : pc'[q] = IF q = r THEN p ELSE pc[q]
  BY DEF ClientInv
<1> QED
  BY <1>1, <1>2 DEF ClientInv

\* One client changes and goes on counting.
LEMMA ClientOnly ==
  ASSUME ClientInv, NEW r \in Role, NEW k \in Client, k.seq = cl[r].seq,
         cl' = [cl EXCEPT ![r] = k], UNCHANGED pc
  PROVE  ClientInv'
<1>1. /\ cl' \in [Role -> Client] /\ pc' \in [Role -> Peer]
      /\ \A q \in Role : cl'[q] = IF q = r THEN k ELSE cl[q]
  BY DEF ClientInv
<1>2. Numbered(k, pc[r])
  BY DEF ClientInv, Numbered
<1> QED
  BY <1>1, <1>2 DEF ClientInv

LEMMA NothingOfClients ==
  ASSUME ClientInv, UNCHANGED <<cl, pc>>
  PROVE  ClientInv'
BY DEF ClientInv

LEMMA BuildPeerTypes ==
  ASSUME ClientInv, NEW r \in Role, NEW k \in Client, k.seq = cl[r].seq,
         NEW i \in BOOLEAN, NEW always, BuildPeer(r, k, i, always)
  PROVE  ClientInv'
<1>1. CASE pc[r].gen = 0 \/ always
  <2> DEFINE l == [k EXCEPT !.seq = 0]
             p == Built(pc[r], i)
  <2>1. pc[r] \in Peer /\ pc[r].count < MaxGens
    BY <1>1 DEF BuildPeer, ClientInv
  <2>2. p \in Peer /\ \A j : j.seq = 0 => Numbered(j, p)
    BY <2>1, BuiltTypes
  <2>3. 0 \in 0..MaxSeq
    BY Bounds
  <2>4. l \in Client /\ l.seq = 0
    BY <2>3 DEF Client
  <2>5. cl' = [cl EXCEPT ![r] = l] /\ pc' = [pc EXCEPT ![r] = p]
    BY <1>1 DEF BuildPeer
  <2> HIDE DEF l, p
  <2> QED
    BY <2>2, <2>4, <2>5, ClientUpdate
<1>2. CASE ~(pc[r].gen = 0 \/ always)
  BY <1>2, ClientOnly DEF BuildPeer
<1> QED
  BY <1>1, <1>2

LEMMA RebuildTypes ==
  ASSUME ClientInv, NEW r \in Role, NEW k \in Client, k.seq = cl[r].seq,
         rebuildPeerWithNewEpoch(r, k)
  PROVE  ClientInv'
<1> DEFINE i == k.joined /\ r = "host"
<1>1. i \in BOOLEAN /\ BuildPeer(r, k, i, TRUE)
  BY ClientTypes DEF rebuildPeerWithNewEpoch
<1> HIDE DEF i
<1> QED
  BY <1>1, BuildPeerTypes

LEMMA failTerminalTypes ==
  ASSUME ClientInv, NEW r \in Role, NEW k \in Client, failTerminal(r, k)
  PROVE  ClientInv'
<1>1. Ended(k) \in Client
  BY DEF Ended, Client
<1>2. Destroyed(pc[r]) \in Peer /\ Numbered(Ended(k), Destroyed(pc[r]))
  BY DestroyedTypes DEF ClientInv
<1> QED
  BY <1>1, <1>2, ClientUpdate DEF failTerminal

LEMMA ReconnectingTypes ==
  ASSUME NEW k \in Client
  PROVE  Reconnecting(k) \in Client /\ Reconnecting(k).seq = k.seq
<1>1. [k EXCEPT !.timer = TRUE] \in Client /\ [k EXCEPT !.timer = TRUE].seq = k.seq
  BY DEF Client
<1> QED
  BY <1>1 DEF Reconnecting

LEMMA PostedTypes ==
  ASSUME NEW dn \in [Conns -> Seq(DownMsg)], NEW c, NEW m \in DownMsg, c \in Conns \union {NoConn}
  PROVE  Posted(dn, c, m) \in [Conns -> Seq(DownMsg)]
<1>1. CASE c \in Conns
  <2>1. Append(dn[c], m) \in Seq(DownMsg)
    BY <1>1
  <2> QED
    BY <2>1 DEF Posted
<1>2. CASE c = NoConn
  BY <1>2 DEF Posted
<1> QED
  BY <1>1, <1>2

LEMMA ForgottenTypes ==
  ASSUME NEW k \in Client
  PROVE  Forgotten(k) \in Client /\ Forgotten(k).seq = k.seq
<1>1. [k EXCEPT !.saved = FALSE] \in Client /\ [k EXCEPT !.saved = FALSE].seq = k.seq
  BY DEF Client
<1> QED
  BY <1>1 DEF Forgotten

\* Sockets change, and no new one is dialed.
LEMMA NoDialTypes ==
  ASSUME NetInv, sock' \in [Conns -> SockStates], UNCHANGED wait,
         \A c \in Conns : sock'[c] = "dialing" => sock[c] = "dialing",
         up' \in [Conns -> Seq(SentUp)], down' \in [Conns -> Seq(DownMsg)]
  PROVE  NetInv'
BY DEF NetInv

LEMMA CloseAllTypes ==
  ASSUME NetInv, answer \in [Conns -> DownMsg],
         NEW S, NEW last \in [Conns -> Seq(DownMsg)], CloseAll(S, last)
  PROVE  NetInv' /\ answer' \in [Conns -> DownMsg]
<1>1. \A c \in Conns : down[c] \o last[c] \in Seq(DownMsg)
  BY ConcatProperties DEF NetInv
<1>2. << >> \in Seq(SentUp)
  OBVIOUS
<1>3. /\ sock' \in [Conns -> SockStates]
      /\ \A c \in Conns : sock'[c] = "dialing" => sock[c] = "dialing"
  BY DEF NetInv, CloseAll, SockStates
<1>4. up' \in [Conns -> Seq(SentUp)]
  BY <1>2 DEF NetInv, CloseAll
<1>5. down' \in [Conns -> Seq(DownMsg)]
  BY <1>1 DEF NetInv, CloseAll
<1>6. answer' \in [Conns -> DownMsg] /\ UNCHANGED wait
  BY NoAnswerType DEF CloseAll
<1> QED
  BY <1>3, <1>4, <1>5, <1>6, NoDialTypes

LEMMA FaultTypes ==
  ASSUME OddInv, NEW kind, Fault(kind)
  PROVE  faults' \in 0..MaxFaults
BY Bounds DEF OddInv, Fault

LEMMA TailTypes ==
  ASSUME NEW S, NEW f \in [Conns -> Seq(S)], NEW c \in Conns, f[c] # << >>
  PROVE  /\ [f EXCEPT ![c] = Tail(@)] \in [Conns -> Seq(S)]
         /\ Head(f[c]) \in S /\ Tail(f[c]) \in Seq(S)
<1>1. f[c] \in Seq(S)
  OBVIOUS
<1>2. Head(f[c]) \in S /\ Tail(f[c]) \in Seq(S)
  BY <1>1, HeadTailProperties
<1> QED
  BY <1>2

LEMMA AppendTypes ==
  ASSUME NEW S, NEW f \in [Conns -> Seq(S)], NEW c \in Conns, NEW m \in S
  PROVE  [f EXCEPT ![c] = Append(@, m)] \in [Conns -> Seq(S)]
<1>1. Append(f[c], m) \in Seq(S)
  OBVIOUS
<1> QED
  BY <1>1

\* What a client sends over its socket.
LEMMA SendTypes ==
  ASSUME NetInv, NEW k, k.conn \in Conns \union {NoConn}, NEW m \in SentUp, Send(k, m)
  PROVE  up' \in [Conns -> Seq(SentUp)]
<1>1. up \in [Conns -> Seq(SentUp)]
  BY DEF NetInv
<1>2. k.conn # NoConn => [up EXCEPT ![k.conn] = Append(@, m)] \in [Conns -> Seq(SentUp)]
  BY <1>1, AppendTypes
<1> QED
  BY <1>1, <1>2 DEF Send

-----------------------------------------------------------------------------
(* The clients *)

LEMMA HandshakeTypes ==
  ASSUME NetInv, cl \in [Role -> Client], NEW r \in Role, NEW k \in Client, NEW gone,
         NEW type \in {"create", "join", "rejoin"}, Handshake(r, k, type, gone)
  PROVE  /\ NetInv' /\ UNCHANGED <<serverVars, odd>>
         /\ \E l \in Client : l.seq = k.seq /\ cl' = [cl EXCEPT ![r] = l]
<1> DEFINE e == <<r, k.asks + 1>>
           a == [type |-> type, epoch |-> e, prev |-> k.other]
           c == <<r, k.dials + 1>>
<1>1. e \in Epochs /\ UNCHANGED <<serverVars, odd>>
  BY DEF Handshake
<1>2. k.asks + 1 \in 0..MaxAsks /\ k.conn \in Conns \union {NoConn}
  <2>1. k.asks \in Nat
    BY ClientTypes, Bounds
  <2> QED
    BY <1>1, <2>1, ClientTypes, Names
<1>3. a \in Begun /\ a \in Ask
  <2> HIDE DEF e
  <2>1. k.other \in OptEpoch /\ e \in OptEpoch
    BY <1>1, ClientTypes, NoEpochType
  <2> QED
    BY <1>1, <2>1 DEF Begun, Ask
<1>4. CASE transportOpen(k)
  <2> DEFINE l == [k EXCEPT !.ask = a, !.asks = @ + 1]
             m == HandshakeMsg(a)
  <2>1. cl' = [cl EXCEPT ![r] = l] /\ Send(k, m) /\ UNCHANGED <<sock, down, wait>>
    BY <1>4 DEF Handshake
  <2>2. m \in SentUp
    <3> HIDE DEF a
    <3> QED
      BY <1>3, HandshakeMsgTypes
  <2> HIDE DEF a, m
  <2>3. l \in Client /\ l.seq = k.seq
    BY <1>2, <1>3 DEF Client
  <2> HIDE DEF l
  <2>4. up' \in [Conns -> Seq(SentUp)]
    BY <1>2, <2>1, <2>2, SendTypes
  <2>5. NetInv'
    BY <2>1, <2>4 DEF NetInv
  <2> QED
    BY <1>1, <2>1, <2>3, <2>5
<1>5. CASE ~transportOpen(k)
  <2> DEFINE l == [k EXCEPT !.conn = c, !.dials = @ + 1, !.asks = @ + 1]
  <2>1. /\ c \in Conns /\ cl' = [cl EXCEPT ![r] = l] /\ UNCHANGED up
        /\ sock' = [x \in Conns |-> IF x = c THEN "dialing"
                                    ELSE IF x \in gone /\ sock[x] = "open" THEN "left"
                                    ELSE IF x \in gone /\ sock[x] = "dialing" THEN "closed"
                                    ELSE sock[x]]
        /\ down' = [x \in Conns |-> IF x \in gone THEN << >> ELSE down[x]]
        /\ wait' = [x \in Conns |-> IF x = c THEN a ELSE IF x \in gone THEN NoAsk ELSE wait[x]]
    BY <1>5 DEF Handshake
  <2>2. k.dials + 1 \in 0..MaxDials
    <3>1. k.dials \in Nat
      BY ClientTypes, Bounds
    <3> QED
      BY <2>1, <3>1, Names
  <2> HIDE DEF a, c
  <2>3. l \in Client /\ l.seq = k.seq
    BY <1>2, <2>1, <2>2 DEF Client
  <2> HIDE DEF l
  <2>4. sock' \in [Conns -> SockStates] /\ down' \in [Conns -> Seq(DownMsg)]
    BY <2>1 DEF NetInv, SockStates
  <2>5. wait' \in [Conns -> Ask]
    BY <1>3, <2>1, NoAskType DEF NetInv
  <2>6. ASSUME NEW x \in Conns, sock'[x] = "dialing" PROVE wait'[x] \in Begun
    <3>1. CASE x = c
      BY <1>3, <2>1, <3>1
    <3>2. CASE x # c
      BY <2>1, <2>6, <3>2 DEF NetInv
    <3> QED
      BY <3>1, <3>2
  <2>7. NetInv'
    BY <2>1, <2>4, <2>5, <2>6 DEF NetInv
  <2> QED
    BY <1>1, <2>1, <2>3, <2>7
<1> QED
  BY <1>4, <1>5

LEMMA AskTypes ==
  ASSUME TypeInv, createRoom \/ joinRoom
  PROVE  TypeInv'
<1>0. /\ NetInv /\ ClientInv /\ cl \in [Role -> Client] /\ "host" \in Role /\ "guest" \in Role
      /\ cl["host"] \in Client /\ cl["guest"] \in Client
  BY DEF TypeInv, ClientInv, Role
<1>1. PICK r \in Role, type \in {"create", "join"} : Handshake(r, cl[r], type, {})
  BY <1>0 DEF createRoom, joinRoom
<1>2. UNCHANGED <<pc, faults>>
  BY DEF createRoom, joinRoom
<1>3. cl[r] \in Client
  BY <1>0
<1>4. /\ NetInv' /\ UNCHANGED <<serverVars, odd>>
      /\ \E l \in Client : l.seq = cl[r].seq /\ cl' = [cl EXCEPT ![r] = l]
  BY <1>0, <1>1, <1>3, HandshakeTypes
<1>5. ClientInv'
  BY <1>0, <1>2, <1>4, ClientOnly
<1> QED
  BY <1>2, <1>4, <1>5 DEF TypeInv, ServerInv, OddInv, serverVars

LEMMA rejoinTypes ==
  ASSUME TypeInv, NEW r \in Role, rejoin(r)
  PROVE  TypeInv'
<1> DEFINE k == [NewClient EXCEPT !.saved = TRUE, !.other = cl[r].other,
                                  !.dials = cl[r].dials, !.asks = cl[r].asks]
           gone == {c \in Conns : c[1] = r}
<1>0. NetInv /\ ClientInv /\ OddInv /\ cl \in [Role -> Client] /\ cl[r] \in Client /\ pc[r] \in Peer
  BY DEF TypeInv, ClientInv
<1>1. k \in Client
  BY <1>0, NewTypes, ClientTypes DEF Client
<1>2. Handshake(r, k, "rejoin", gone) /\ pc' = [pc EXCEPT ![r] = Destroyed(@)]
  BY DEF rejoin
<1> HIDE DEF k, gone
<1>3. /\ NetInv' /\ UNCHANGED <<serverVars, odd>>
      /\ \E l \in Client : l.seq = k.seq /\ cl' = [cl EXCEPT ![r] = l]
  BY <1>0, <1>1, <1>2, HandshakeTypes
<1>4. Destroyed(pc[r]) \in Peer /\ \A l : Numbered(l, Destroyed(pc[r]))
  BY <1>0, DestroyedTypes
<1>5. ClientInv'
  BY <1>0, <1>2, <1>3, <1>4, ClientUpdate
<1>6. faults' \in 0..MaxFaults
  BY <1>0, FaultTypes DEF rejoin
<1> QED
  BY <1>3, <1>5, <1>6 DEF TypeInv, ServerInv, OddInv, serverVars

LEMMA doRejoinTypes ==
  ASSUME TypeInv, NEW r \in Role, doRejoin(r)
  PROVE  TypeInv'
<1> DEFINE k == [cl[r] EXCEPT !.timer = FALSE]
<1>0. NetInv /\ ClientInv /\ cl \in [Role -> Client] /\ cl[r] \in Client
  BY DEF TypeInv, ClientInv
<1>1. k \in Client /\ k.seq = cl[r].seq
  BY <1>0 DEF Client
<1>2. /\ UNCHANGED <<pc, faults>>
      /\ \/ cl' = [cl EXCEPT ![r] = k] /\ UNCHANGED <<serverVars, netVars, odd>>
         \/ Handshake(r, k, "rejoin", {})
  BY DEF doRejoin
<1> HIDE DEF k
<1>3. /\ NetInv' /\ UNCHANGED <<serverVars, odd>>
      /\ \E l \in Client : l.seq = k.seq /\ cl' = [cl EXCEPT ![r] = l]
  <2>1. CASE Handshake(r, k, "rejoin", {})
    BY <1>0, <1>1, <2>1, HandshakeTypes
  <2>2. CASE cl' = [cl EXCEPT ![r] = k] /\ UNCHANGED <<serverVars, netVars, odd>>
    BY <1>0, <1>1, <2>2 DEF NetInv, netVars
  <2> QED
    BY <1>2, <2>1, <2>2
<1>4. ClientInv'
  BY <1>0, <1>1, <1>2, <1>3, ClientOnly
<1> QED
  BY <1>2, <1>3, <1>4 DEF TypeInv, ServerInv, OddInv, serverVars

LEMMA OpenedTypes ==
  ASSUME TypeInv, NEW c \in Conns, Opened(c)
  PROVE  TypeInv'
<1> DEFINE r == c[1]
           k == cl[r]
           a == wait[c]
           m == HandshakeMsg(a)
           l == [k EXCEPT !.ask = a]
           j == [k EXCEPT !.ask = NoAsk]
<1>0. /\ NetInv /\ ClientInv /\ r \in Role /\ cl \in [Role -> Client] /\ k \in Client
      /\ k.conn \in Conns \union {NoConn}
  BY Names, ClientTypes DEF TypeInv, ClientInv
<1>1. /\ sock[c] = "dialing" /\ sock' = [sock EXCEPT ![c] = "open"]
      /\ wait' = [wait EXCEPT ![c] = NoAsk] /\ UNCHANGED <<serverVars, down, pc, faults, odd>>
      /\ \/ /\ cl' = [cl EXCEPT ![r].ask = a]
            /\ up' = [up EXCEPT ![c] = Append(@, m)] \/ Send(k, m)
         \/ /\ UNCHANGED up
            /\ cl' = [cl EXCEPT ![r] = IF k.joined THEN Reconnecting(j) ELSE j]
  BY DEF Opened
<1>2. a \in Begun /\ a \in Ask
  BY <1>0, <1>1 DEF NetInv, Begun
<1>3. m \in SentUp
  BY <1>2, HandshakeMsgTypes
<1>4. l \in Client /\ l.seq = k.seq /\ j \in Client /\ j.seq = k.seq
  <2> HIDE DEF a
  <2> QED
    BY <1>0, <1>2, NoAskType DEF Client
<1>5. cl' = [cl EXCEPT ![r] = l] \/ cl' = [cl EXCEPT ![r] = j] \/ cl' = [cl EXCEPT ![r] = Reconnecting(j)]
  BY <1>0, <1>1
<1> HIDE DEF r, k, a, m, l, j
<1>6. ClientInv'
  <2>1. Reconnecting(j) \in Client /\ Reconnecting(j).seq = k.seq
    BY <1>4, ReconnectingTypes
  <2>2. k.seq = cl[r].seq
    BY DEF k
  <2> QED
    BY <1>0, <1>1, <1>4, <1>5, <2>1, <2>2, ClientOnly
<1>7. up' \in [Conns -> Seq(SentUp)]
  <2>1. up \in [Conns -> Seq(SentUp)]
    BY <1>0 DEF NetInv
  <2>2. [up EXCEPT ![c] = Append(@, m)] \in [Conns -> Seq(SentUp)]
    BY <1>3, <2>1, AppendTypes
  <2>3. Send(k, m) => up' \in [Conns -> Seq(SentUp)]
    BY <1>0, <1>3, SendTypes
  <2> QED
    BY <1>1, <2>1, <2>2, <2>3
<1>8. NetInv'
  <2>1. sock' \in [Conns -> SockStates] /\ wait' \in [Conns -> Ask]
    BY <1>0, <1>1, NoAskType DEF NetInv, SockStates
  <2>2. \A x \in Conns : sock'[x] = "dialing" => sock[x] = "dialing" /\ wait'[x] = wait[x]
    BY <1>0, <1>1 DEF NetInv
  <2> QED
    BY <1>0, <1>1, <1>7, <2>1, <2>2 DEF NetInv
<1> QED
  BY <1>1, <1>6, <1>8 DEF TypeInv, ServerInv, OddInv, serverVars

LEMMA TransportCloseTypes ==
  ASSUME ClientInv, NEW r \in Role, NEW code, handleTransportClose(r, code)
  PROVE  ClientInv'
<1> DEFINE k == [cl[r] EXCEPT !.conn = NoConn]
           l == [k EXCEPT !.released = TRUE]
<1>0. cl[r] \in Client
  BY DEF ClientInv
<1>1. \/ cl' = [cl EXCEPT ![r] = l] /\ UNCHANGED pc
      \/ failTerminal(r, k) \/ failTerminal(r, Forgotten(k))
      \/ cl' = [cl EXCEPT ![r] = Reconnecting(k)] /\ UNCHANGED pc
  BY DEF handleTransportClose
<1>2. k \in Client /\ k.seq = cl[r].seq
  BY <1>0 DEF Client
<1> HIDE DEF k
<1>3. l \in Client /\ l.seq = cl[r].seq
  BY <1>2 DEF Client
<1> HIDE DEF l
<1>4. Reconnecting(k) \in Client /\ Reconnecting(k).seq = cl[r].seq /\ Forgotten(k) \in Client
  BY <1>2, ReconnectingTypes, ForgottenTypes
<1> QED
  BY <1>1, <1>2, <1>3, <1>4, ClientOnly, failTerminalTypes

LEMMA LossTypes ==
  ASSUME TypeInv, NEW c \in Conns, ConnectionLost(c)
  PROVE  TypeInv'
<1> DEFINE r == c[1]
<1>0. NetInv /\ ClientInv /\ OddInv /\ r \in Role /\ cl[r] \in Client
  BY Names DEF TypeInv, ClientInv
<1>1. faults' \in 0..MaxFaults /\ UNCHANGED <<serverVars, odd>>
  BY <1>0, FaultTypes DEF ConnectionLost
<1>2. /\ down' = [down EXCEPT ![c] = << >>]
      /\ \E n \in 0..Len(up[c]) : up' = [up EXCEPT ![c] = SubSeq(@, 1, n)]
      /\ \/ /\ handleTransportClose(r, 1006)
            /\ sock' = [sock EXCEPT ![c] = "left"] /\ UNCHANGED wait
         \/ /\ failTerminal(r, [cl[r] EXCEPT !.conn = NoConn])
            /\ sock' = [sock EXCEPT ![c] = "closed"] /\ wait' = [wait EXCEPT ![c] = NoAsk]
  BY DEF ConnectionLost
<1>3. ClientInv'
  <2>1. [cl[r] EXCEPT !.conn = NoConn] \in Client
    BY <1>0 DEF Client
  <2> QED
    BY <1>0, <1>2, <2>1, TransportCloseTypes, failTerminalTypes
<1>4. PICK n \in 0..Len(up[c]) : up' = [up EXCEPT ![c] = SubSeq(@, 1, n)]
  BY <1>2
<1>5. SubSeq(up[c], 1, n) \in Seq(SentUp)
  <2>1. up[c] \in Seq(SentUp)
    BY <1>0 DEF NetInv
  <2>2. n \in Int /\ 1 \in Int /\ \A i \in 1..n : up[c][i] \in SentUp
    BY <1>4, <2>1, ElementOfSeq
  <2> QED
    BY <2>2, SubSeqProperties
<1>6. NetInv'
  <2>1. up' \in [Conns -> Seq(SentUp)]
    BY <1>0, <1>4, <1>5 DEF NetInv
  <2>2. /\ down' \in [Conns -> Seq(DownMsg)]
        /\ sock' \in [Conns -> SockStates]
    <3>1. << >> \in Seq(DownMsg)
      OBVIOUS
    <3> QED
      BY <1>0, <1>2, <3>1 DEF NetInv, SockStates
  <2>3. wait' \in [Conns -> Ask]
    BY <1>0, <1>2, NoAskType DEF NetInv
  <2>4. \A x \in Conns : sock'[x] = "dialing" => sock[x] = "dialing" /\ wait'[x] = wait[x]
    BY <1>0, <1>2 DEF NetInv
  <2> QED
    BY <1>0, <2>1, <2>2, <2>3, <2>4 DEF NetInv
<1> QED
  BY <1>1, <1>3, <1>6 DEF TypeInv, ServerInv, OddInv, serverVars

-----------------------------------------------------------------------------
(* Messages taken by a client *)

LEMMA TakeTypes ==
  ASSUME TypeInv, NEW c \in Conns, NEW types, Incoming(c, types)
  PROVE  /\ Head(down[c]) \in DownMsg
         /\ Head(down[c]).epoch \in OptEpoch /\ Head(down[c]).data \in Data
         /\ Take(c) => NetInv' /\ ServerInv' /\ UNCHANGED faults
<1>1. down[c] # << >> /\ down \in [Conns -> Seq(DownMsg)]
  BY DEF TypeInv, NetInv, Incoming
<1>2. [down EXCEPT ![c] = Tail(@)] \in [Conns -> Seq(DownMsg)] /\ Head(down[c]) \in DownMsg
  BY <1>1, TailTypes
<1>3. Take(c) => NetInv' /\ ServerInv' /\ UNCHANGED faults
  BY <1>2 DEF Take, TypeInv, NetInv, ServerInv, serverVars
<1> QED
  BY <1>2, <1>3, DownMsgTypes

LEMMA BehindTypes ==
  ASSUME OddInv, NEW r, NEW prev, NEW e
  PROVE  Behind(r, prev, e) \subseteq OddKinds
BY DEF Behind, OddInv, OddKinds

\* Steps that take one message.
LEMMA TakenTypes ==
  ASSUME TypeInv, NEW c \in Conns, NEW types, Incoming(c, types), Take(c), ClientInv',
         odd' \subseteq OddKinds
  PROVE  TypeInv'
BY TakeTypes DEF TypeInv, OddInv

LEMMA ResponseTypes ==
  ASSUME TypeInv, NEW c \in Conns,
         resolveHandshake(c) \/ handleRefusal(c) \/ handleGuestJoined(c)
  PROVE  TypeInv'
<1> DEFINE r == c[1]
           m == Head(down[c])
<1>0. /\ ClientInv /\ OddInv /\ odd \subseteq OddKinds
      /\ r \in Role /\ cl[r] \in Client /\ pc[r] \in Peer
  BY Names DEF TypeInv, ClientInv, OddInv
<1>1. CASE resolveHandshake(c)
  <2> DEFINE prev == cl[r].ask.prev
             k == Applied(cl[r], m)
             changed == m.type = "rejoined" /\ prev # NoEpoch /\ prev # m.epoch
             i == m.type # "joined" /\ r = "host"
  <2>1. Incoming(c, Responses) /\ Take(c) /\ (odd' = Behind(r, prev, m.epoch) \/ odd' = odd)
    BY <1>1 DEF resolveHandshake
  <2>2. m.epoch \in OptEpoch
    BY <2>1, TakeTypes
  <2>3. k \in Client /\ k.seq = cl[r].seq
    <3> HIDE DEF m
    <3> QED
      BY <1>0, <2>2, NoAskType DEF Applied, Client
  <2>4. \/ UNCHANGED <<cl, pc>>
        \/ cl' = [cl EXCEPT ![r] = k] /\ UNCHANGED pc
        \/ BuildPeer(r, k, i, changed)
    BY <1>1 DEF resolveHandshake
  <2>5. i \in BOOLEAN
    OBVIOUS
  <2> HIDE DEF k, changed, i, r
  <2>6. ClientInv'
    BY <1>0, <2>3, <2>4, <2>5, NothingOfClients, ClientOnly, BuildPeerTypes
  <2>7. odd' \subseteq OddKinds
    BY <1>0, <2>1, BehindTypes
  <2> QED
    BY <2>1, <2>6, <2>7, TakenTypes
<1>2. CASE handleRefusal(c)
  <2> DEFINE k == [cl[r] EXCEPT !.ask = NoAsk]
  <2>1. /\ Incoming(c, {"refused"}) /\ Take(c) /\ UNCHANGED odd
        /\ \/ UNCHANGED <<cl, pc>>
           \/ failTerminal(r, Forgotten(k))
           \/ cl' = [cl EXCEPT ![r] = k] /\ UNCHANGED pc
    BY <1>2 DEF handleRefusal
  <2>2. k \in Client /\ k.seq = cl[r].seq
    BY <1>0, NoAskType DEF Client
  <2> HIDE DEF k, r
  <2>3. Forgotten(k) \in Client
    BY <2>2, ForgottenTypes
  <2>4. ClientInv'
    BY <1>0, <2>1, <2>2, <2>3, NothingOfClients, ClientOnly, failTerminalTypes
  <2> QED
    BY <1>0, <2>1, <2>4, TakenTypes
<1>3. CASE handleGuestJoined(c)
  <2> DEFINE prev == cl[r].other
             k == [cl[r] EXCEPT !.other = m.epoch]
             rebuild == prev # NoEpoch /\ prev # m.epoch
  <2>1. /\ Incoming(c, {"guest-joined"}) /\ Take(c)
        /\ odd' = Behind(r, prev, m.epoch) \/ odd' = odd
        /\ UNCHANGED <<cl, pc>> \/ BuildPeer(r, k, TRUE, rebuild)
    BY <1>3 DEF handleGuestJoined
  <2>2. m.epoch \in OptEpoch
    BY <2>1, TakeTypes
  <2>3. k \in Client /\ k.seq = cl[r].seq
    <3> HIDE DEF m
    <3> QED
      BY <1>0, <2>2 DEF Client
  <2> HIDE DEF k, rebuild, r
  <2>4. ClientInv'
    BY <1>0, <2>1, <2>3, NothingOfClients, BuildPeerTypes
  <2>5. odd' \subseteq OddKinds
    BY <1>0, <2>1, BehindTypes
  <2> QED
    BY <2>1, <2>4, <2>5, TakenTypes
<1> QED
  BY <1>1, <1>2, <1>3

LEMMA MessageTypes ==
  ASSUME TypeInv, NEW c \in Conns,
         handleOverflow(c) \/ handlePeerReset(c) \/ handleRoomIdleClose(c) \/ handleRoomEnd(c)
           \/ handleSignalResponse(c) \/ SocketCloses(c)
  PROVE  TypeInv'
<1> DEFINE r == c[1]
           m == Head(down[c])
<1>0. /\ ClientInv /\ odd \subseteq OddKinds /\ r \in Role /\ cl[r] \in Client /\ pc[r] \in Peer
  BY Names DEF TypeInv, ClientInv, OddInv
<1>1. CASE handleOverflow(c)
  <2>1. Incoming(c, {"overflow"}) /\ Take(c) /\ UNCHANGED odd /\ rebuildPeerWithNewEpoch(r, cl[r])
    BY <1>1 DEF handleOverflow
  <2> HIDE DEF r
  <2>2. ClientInv'
    BY <1>0, <2>1, RebuildTypes
  <2> QED
    BY <1>0, <2>1, <2>2, TakenTypes
<1>2. CASE handlePeerReset(c)
  <2> DEFINE j == [cl[r] EXCEPT !.other = m.epoch]
             k == IF cl[r].joined THEN j ELSE cl[r]
  <2>1. Incoming(c, {"peer-reset"}) /\ Take(c) /\ UNCHANGED odd /\ rebuildPeerWithNewEpoch(r, k)
    BY <1>2 DEF handlePeerReset
  <2>2. m.epoch \in OptEpoch
    BY <2>1, TakeTypes
  <2> HIDE DEF r, m
  <2>3. j \in Client /\ j.seq = cl[r].seq
    BY <1>0, <2>2 DEF Client
  <2>4. k \in Client /\ k.seq = cl[r].seq
    BY <1>0, <2>3
  <2> HIDE DEF k
  <2>5. ClientInv'
    BY <1>0, <2>1, <2>4, RebuildTypes
  <2> QED
    BY <1>0, <2>1, <2>5, TakenTypes
<1>3. CASE handleRoomIdleClose(c)
  <2> DEFINE k == [cl[r] EXCEPT !.released = TRUE]
  <2>1. Incoming(c, {"idle"}) /\ Take(c) /\ UNCHANGED <<pc, odd>> /\ cl' = [cl EXCEPT ![r] = k]
    BY <1>0, <1>3 DEF handleRoomIdleClose, ClientInv
  <2>2. k \in Client /\ k.seq = cl[r].seq
    BY <1>0 DEF Client
  <2> HIDE DEF k, r
  <2> QED
    BY <1>0, <2>1, <2>2, ClientOnly, TakenTypes
<1>4. CASE handleRoomEnd(c)
  <2> DEFINE k == [Forgotten(cl[r]) EXCEPT !.over = TRUE]
  <2>1. /\ Incoming(c, {"expired", "room-closed"}) /\ Take(c) /\ UNCHANGED <<pc, odd>>
        /\ cl' = [cl EXCEPT ![r] = k]
    BY <1>4 DEF handleRoomEnd
  <2>2. Forgotten(cl[r]) \in Client /\ Forgotten(cl[r]).seq = cl[r].seq
    BY <1>0, ForgottenTypes
  <2>3. k \in Client /\ k.seq = cl[r].seq
    BY <2>2 DEF Client
  <2> HIDE DEF k, r
  <2> QED
    BY <1>0, <2>1, <2>3, ClientOnly, TakenTypes
<1>5. CASE handleSignalResponse(c)
  <2> DEFINE d == m.data
             p == WithSignal(pc[r], d)
  <2>1. Incoming(c, {"signal"}) /\ Take(c) /\ UNCHANGED <<cl, odd>> /\ pc' = [pc EXCEPT ![r] = p]
    BY <1>5 DEF handleSignalResponse
  <2>2. d.gen \in Gen
    BY <2>1, TakeTypes DEF Data
  <2> HIDE DEF d, r
  <2>3. p \in Peer /\ p.made = pc[r].made /\ p.gen = pc[r].gen /\ p.cands = pc[r].cands
    <3>1. \/ p = pc[r] \/ p = [pc[r] EXCEPT !.remote = d.gen] \/ p = [pc[r] EXCEPT !.broken = TRUE]
      BY DEF WithSignal
    <3> HIDE DEF p
    <3> QED
      BY <1>0, <2>2, <3>1 DEF Peer
  <2> HIDE DEF p
  <2>4. Numbered(cl[r], p)
    BY <1>0, <2>3 DEF ClientInv, Numbered
  <2>5. cl' = [cl EXCEPT ![r] = cl[r]]
    BY <1>0, <2>1 DEF ClientInv
  <2>6. ClientInv'
    BY <1>0, <2>1, <2>3, <2>4, <2>5, ClientUpdate
  <2> QED
    BY <1>0, <2>1, <2>6, TakenTypes
<1>6. CASE SocketCloses(c)
  <2>1. /\ Incoming(c, {"closed"}) /\ Take(c) /\ UNCHANGED odd
        /\ handleTransportClose(r, m.code)
    BY <1>6 DEF SocketCloses
  <2> HIDE DEF r
  <2>2. ClientInv'
    BY <1>0, <2>1, TransportCloseTypes
  <2> QED
    BY <1>0, <2>1, <2>2, TakenTypes
<1> QED
  BY <1>1, <1>2, <1>3, <1>4, <1>5, <1>6

-----------------------------------------------------------------------------
(* The peers *)

\* The next signal of a peer has the next number, within the bound.
LEMMA EmitTypes ==
  ASSUME TypeInv, NEW r \in Role, NEW p \in Peer, NEW kind \in {"offer", "answer", "candidate"},
         Emit(r, p, kind), p.made, p.gen # 0, cl[r].seq + 1 <= 1 + p.cands
  PROVE  TypeInv'
<1> DEFINE d == [kind |-> kind, gen |-> p.gen, to |-> IF kind = "answer" THEN p.remote ELSE 0]
           n == cl[r].seq + 1
           k == [cl[r] EXCEPT !.seq = @ + 1]
           m == [type |-> "signal", epoch |-> NoEpoch, seq |-> k.seq, data |-> d]
<1>0. /\ NetInv /\ ClientInv /\ cl \in [Role -> Client] /\ pc \in [Role -> Peer]
      /\ cl[r] \in Client /\ cl[r].seq \in 0..MaxSeq
  BY ClientTypes DEF TypeInv, ClientInv
<1>1. d \in Data
  BY PeerTypes, Bounds DEF Data, Gen
<1>2. n \in 0..MaxSeq
  BY <1>0, PeerTypes, Bounds
<1>3. k \in Client /\ k.seq = n /\ k.conn \in Conns \union {NoConn}
  BY <1>0, <1>2 DEF Client
<1>4. /\ UNCHANGED <<cl, up>> \/ (cl' = [cl EXCEPT ![r] = k] /\ Send(k, m))
      /\ pc' = [pc EXCEPT ![r] = p] /\ UNCHANGED <<serverVars, sock, down, wait, faults, odd>>
  BY DEF Emit, sendSignal
<1>5. cl[r].seq <= 1 + p.cands /\ n <= 1 + p.cands
  BY <1>0, PeerTypes
<1> HIDE DEF d, n, k
<1>6. Numbered(k, p) /\ Numbered(cl[r], p)
  BY <1>3, <1>5 DEF Numbered
<1>7. ClientInv'
  <2>1. CASE cl' = [cl EXCEPT ![r] = k]
    BY <1>0, <1>3, <1>4, <1>6, <2>1, ClientUpdate
  <2>2. CASE cl' = cl
    <3>1. cl' = [cl EXCEPT ![r] = cl[r]]
      BY <1>0, <2>2
    <3> QED
      BY <1>0, <1>4, <1>6, <3>1, ClientUpdate
  <2> QED
    BY <1>4, <2>1, <2>2
<1>8. m \in SentUp
  BY <1>1, <1>2, <1>3, NoEpochType DEF SentUp, UpMsg
<1> HIDE DEF m
<1>9. up' \in [Conns -> Seq(SentUp)]
  BY <1>0, <1>3, <1>4, <1>8, SendTypes DEF NetInv
<1> QED
  BY <1>4, <1>7, <1>9 DEF TypeInv, ServerInv, NetInv, OddInv, serverVars

LEMMA PeerStepTypes ==
  ASSUME TypeInv, NEW r \in Role, PeerStep(r)
  PROVE  TypeInv'
<1>0. /\ NetInv /\ ClientInv /\ OddInv /\ cl \in [Role -> Client] /\ pc \in [Role -> Peer]
      /\ cl[r] \in Client /\ pc[r] \in Peer /\ cl[r].seq \in 0..MaxSeq
      /\ cl[r].conn \in Conns \union {NoConn}
      /\ pc[r].cands \in 0..MaxCands /\ Numbered(cl[r], pc[r])
  BY ClientTypes, PeerTypes DEF TypeInv, ClientInv
<1>1. CASE Describe(r)
  <2> DEFINE p == [pc[r] EXCEPT !.made = TRUE]
  <2>1. /\ pc[r].gen # 0 /\ ~pc[r].made
        /\ Emit(r, p, IF pc[r].init THEN "offer" ELSE "answer")
    BY <1>1 DEF Describe, Describes
  <2>2. p \in Peer /\ p.made /\ p.gen # 0 /\ p.cands = pc[r].cands
    BY <1>0, <2>1 DEF Peer
  <2>3. cl[r].seq + 1 <= 1 + pc[r].cands
    BY <1>0, <2>1, Bounds DEF Numbered
  <2> HIDE DEF p
  <2> QED
    BY <2>1, <2>2, <2>3, EmitTypes
<1>2. CASE Trickle(r)
  <2> DEFINE p == [pc[r] EXCEPT !.cands = @ + 1]
  <2>1. pc[r].made /\ pc[r].cands < MaxCands /\ Emit(r, p, "candidate")
    BY <1>2 DEF Trickle
  <2>2. pc[r].cands + 1 \in 0..MaxCands
    BY <1>0, <2>1, Bounds
  <2>3. p \in Peer /\ p.made = pc[r].made /\ p.gen = pc[r].gen /\ p.cands = pc[r].cands + 1
    BY <1>0, <2>2 DEF Peer
  <2>4. pc[r].gen # 0 /\ cl[r].seq + 1 <= 1 + (pc[r].cands + 1)
    BY <1>0, <2>1, Bounds DEF Numbered
  <2> HIDE DEF p
  <2> QED
    BY <2>1, <2>3, <2>4, EmitTypes
<1>3. CASE Connect(r)
  <2> DEFINE p == [pc[r] EXCEPT !.up = TRUE]
             m == [type |-> "connected", epoch |-> NoEpoch, seq |-> 0, data |-> NoData]
  <2>1. /\ pc' = [pc EXCEPT ![r] = p] /\ (UNCHANGED up \/ Send(cl[r], m))
        /\ UNCHANGED <<serverVars, sock, down, wait, cl, faults, odd>>
    BY <1>0, <1>3 DEF Connect
  <2>2. p \in Peer /\ p.made = pc[r].made /\ p.gen = pc[r].gen /\ p.cands = pc[r].cands
    BY <1>0 DEF Peer
  <2> HIDE DEF p
  <2>3. Numbered(cl[r], p)
    BY <1>0, <2>2 DEF Numbered
  <2>4. cl' = [cl EXCEPT ![r] = cl[r]]
    BY <1>0, <2>1
  <2>5. ClientInv'
    BY <1>0, <2>1, <2>2, <2>3, <2>4, ClientUpdate
  <2>6. m \in SentUp
    <3>1. 0 \in 0..MaxSeq
      BY Bounds
    <3> QED
      BY <3>1, NoEpochType, NoDataType DEF SentUp, UpMsg
  <2> HIDE DEF m
  <2>7. up' \in [Conns -> Seq(SentUp)]
    BY <1>0, <2>1, <2>6, SendTypes DEF NetInv
  <2> QED
    BY <2>1, <2>5, <2>7 DEF TypeInv, ServerInv, NetInv, OddInv, serverVars
<1>4. CASE PeerFails(r) \/ PathLost(r)
  <2>1. /\ pc' = [pc EXCEPT ![r] = Destroyed(@)] /\ cl' = [cl EXCEPT ![r] = Reconnecting(@)]
        /\ UNCHANGED <<serverVars, netVars, odd>>
    BY <1>4 DEF PeerFails, PathLost, PeerClosed
  <2>2. faults' \in 0..MaxFaults
    BY <1>0, <1>4, FaultTypes DEF PeerFails, PathLost, OddInv
  <2>3. /\ Reconnecting(cl[r]) \in Client /\ Destroyed(pc[r]) \in Peer
        /\ Numbered(Reconnecting(cl[r]), Destroyed(pc[r]))
    BY <1>0, ReconnectingTypes, DestroyedTypes
  <2>4. ClientInv'
    BY <1>0, <2>1, <2>3, ClientUpdate
  <2> QED
    BY <2>1, <2>2, <2>4 DEF TypeInv, ServerInv, NetInv, OddInv, serverVars, netVars
<1> QED
  BY <1>1, <1>2, <1>3, <1>4 DEF PeerStep

-----------------------------------------------------------------------------
(* The server *)

LEMMA NoRoomType == NoRoom \in Room
<1>1. rId \in RoomIds /\ rIp \in IPs
  BY RoomStateAssumption DEF rId, rIp
<1>2. 0 \in Time /\ FALSE \in BOOLEAN
  BY DEF Time
<1> QED
  BY <1>1, <1>2, NewRoomFacts DEF NoRoom

\* What arrives on a socket.
LEMMA ArrivingTypes ==
  ASSUME TypeInv, NEW c \in Conns, NEW type, Arriving(c, type)
  PROVE  /\ Head(up[c]) \in SentUp /\ Tail(up[c]) \in Seq(SentUp)
         /\ Head(up[c]).data \in Data /\ Head(up[c]).seq \in 0..MaxSeq
         /\ type \in {"create", "join", "rejoin"} => Head(up[c]).epoch \in Epochs
         /\ Read(c) => up' \in [Conns -> Seq(SentUp)]
<1>1. up \in [Conns -> Seq(SentUp)] /\ up[c] # << >> /\ Head(up[c]).type = type
  BY DEF TypeInv, NetInv, Arriving
<1>2. /\ [up EXCEPT ![c] = Tail(@)] \in [Conns -> Seq(SentUp)]
      /\ Head(up[c]) \in SentUp /\ Tail(up[c]) \in Seq(SentUp)
  BY <1>1, TailTypes
<1> QED
  BY <1>1, <1>2 DEF Read, SentUp, UpMsg

\* What a handler returns.
LEMMA AnswerTypes ==
  ASSUME answer \in [Conns -> DownMsg], NEW c \in Conns, NEW m \in DownMsg, Answer(c, m)
  PROVE  answer' \in [Conns -> DownMsg]
BY DEF Answer

\* Steps of the server that close no socket leave the clients alone.
LEMMA ServerOnly ==
  ASSUME TypeInv, UNCHANGED <<tomb, sock, wait, cl, pc, faults>>,
         room' \in Room, live' \in BOOLEAN, answer' \in [Conns -> DownMsg],
         up' \in [Conns -> Seq(SentUp)], down' \in [Conns -> Seq(DownMsg)],
         odd' \subseteq OddKinds
  PROVE  TypeInv'
BY DEF TypeInv, ServerInv, NetInv, ClientInv, OddInv

LEMMA SlotTypes ==
  ASSUME NEW rm \in Room, NEW r \in Role
  PROVE  /\ rm.slots[r] \in Slot /\ rm.slots[r].conn \in Conns \union {NoConn}
         /\ rm.slots[r].epoch \in OptEpoch /\ rm.slots[r].lastSeq \in 0..MaxSeq
BY DEF Room, Slot

LEMMA CreateRoomTypes ==
  ASSUME TypeInv, NEW c \in Conns, CreateRoom(c)
  PROVE  TypeInv'
<1> DEFINE e == Head(up[c]).epoch
<1>0. /\ down \in [Conns -> Seq(DownMsg)] /\ answer \in [Conns -> DownMsg] /\ odd \subseteq OddKinds
  BY DEF TypeInv, ServerInv, NetInv, OddInv
<1>1. /\ Arriving(c, "create") /\ Read(c) /\ room' = HostAttached(NoRoom, c, e) /\ live' = TRUE
      /\ Answer(c, Note("created", NoEpoch))
      /\ UNCHANGED <<tomb, sock, down, wait, cl, pc, faults, odd>>
  BY DEF CreateRoom
<1>2. e \in Epochs /\ up' \in [Conns -> Seq(SentUp)]
  BY <1>1, ArrivingTypes
<1> HIDE DEF e
<1>3. room' \in Room
  BY <1>1, <1>2, NoRoomType, HostAttachedFacts
<1>4. Note("created", NoEpoch) \in DownMsg
  BY NoteTypes, NoEpochType DEF Responses
<1>5. answer' \in [Conns -> DownMsg]
  BY <1>0, <1>1, <1>4, AnswerTypes
<1> QED
  BY <1>0, <1>1, <1>2, <1>3, <1>5, ServerOnly

LEMMA JoinRoomTypes ==
  ASSUME TypeInv, NEW c \in Conns, JoinRoom(c)
  PROVE  TypeInv'
<1> DEFINE e == Head(up[c]).epoch
           h == room.slots["host"]
           code == IF tomb THEN 1104 ELSE IF ~live THEN 1101 ELSE 1103
<1>0. /\ room \in Room /\ live \in BOOLEAN /\ down \in [Conns -> Seq(DownMsg)]
      /\ answer \in [Conns -> DownMsg] /\ odd \subseteq OddKinds
  BY DEF TypeInv, ServerInv, NetInv, OddInv
<1>1. /\ Arriving(c, "join") /\ Read(c) /\ UNCHANGED <<live, tomb, sock, wait, cl, pc, faults, odd>>
      /\ \/ /\ room' = GuestAttached(room, c, e)
            /\ down' = Posted(down, h.conn, Note("guest-joined", e))
            /\ Answer(c, Note("joined", h.epoch))
         \/ Answer(c, Refused(e, code)) /\ UNCHANGED <<room, down>>
  BY DEF JoinRoom
<1>2. e \in Epochs /\ e \in OptEpoch /\ up' \in [Conns -> Seq(SentUp)]
  BY <1>1, ArrivingTypes, NoEpochType
<1>3. h.conn \in Conns \union {NoConn} /\ h.epoch \in OptEpoch
  BY <1>0, SlotTypes DEF Role
<1>4. code \in {1004, 1101, 1103, 1104}
  OBVIOUS
<1> HIDE DEF e, h, code
<1>5. /\ Note("guest-joined", e) \in DownMsg /\ Note("joined", h.epoch) \in DownMsg
      /\ Refused(e, code) \in DownMsg
  BY <1>2, <1>3, <1>4, NoteTypes, RefusedTypes DEF Responses
<1>6. room' \in Room
  BY <1>0, <1>1, <1>2, GuestAttachedFacts
<1>7. down' \in [Conns -> Seq(DownMsg)]
  BY <1>0, <1>1, <1>3, <1>5, PostedTypes
<1>8. answer' \in [Conns -> DownMsg]
  BY <1>0, <1>1, <1>5, AnswerTypes
<1> QED
  BY <1>0, <1>1, <1>2, <1>6, <1>7, <1>8, ServerOnly

LEMMA RejoinRefusedTypes ==
  ASSUME TypeInv, NEW c \in Conns, RejoinRefused(c)
  PROVE  TypeInv'
<1> DEFINE e == Head(up[c]).epoch
           code == IF Attached(c) THEN 1004 ELSE 1104
<1>0. /\ room \in Room /\ live \in BOOLEAN /\ down \in [Conns -> Seq(DownMsg)]
      /\ answer \in [Conns -> DownMsg] /\ odd \subseteq OddKinds
  BY DEF TypeInv, ServerInv, NetInv, OddInv
<1>1. /\ Arriving(c, "rejoin") /\ Read(c) /\ Answer(c, Refused(e, code))
      /\ odd' = odd \union {"refused"}
      /\ UNCHANGED <<room, live, tomb, sock, down, wait, cl, pc, faults>>
  BY DEF RejoinRefused
<1>2. e \in OptEpoch /\ up' \in [Conns -> Seq(SentUp)] /\ code \in {1004, 1101, 1103, 1104}
  BY <1>1, ArrivingTypes, NoEpochType
<1> HIDE DEF e, code
<1>3. answer' \in [Conns -> DownMsg]
  BY <1>0, <1>1, <1>2, RefusedTypes, AnswerTypes
<1>4. odd' \subseteq OddKinds
  BY <1>0, <1>1 DEF OddKinds
<1> QED
  BY <1>0, <1>1, <1>2, <1>3, <1>4, ServerOnly

LEMMA RejoinRoomTypes ==
  ASSUME TypeInv, NEW c \in Conns, RejoinRoom(c)
  PROVE  TypeInv'
<1> DEFINE e == Head(up[c]).epoch
           r == c[1]
           base == IF live THEN room ELSE NoRoom
           old == base.slots[r].conn
           other == base.slots[Other(r)]
           response == Note(IF live THEN "rejoined" ELSE "recreated", other.epoch)
           evicted == [x \in Conns |-> IF x = old /\ sock[x] = "open"
                                       THEN Append(down[x], Closed(4400)) ELSE down[x]]
<1>0. /\ room \in Room /\ live \in BOOLEAN /\ down \in [Conns -> Seq(DownMsg)]
      /\ answer \in [Conns -> DownMsg] /\ NetInv /\ r \in Role /\ Other(r) \in Role
  BY Names, OtherRole DEF TypeInv, ServerInv, NetInv
<1>1. /\ Arriving(c, "rejoin") /\ UNCHANGED <<tomb, wait, cl, pc, faults, odd>>
      /\ room' = Rejoined(base, r, c, e, ~live, 0) /\ live' = TRUE
      /\ down' = Posted(evicted, other.conn, Note("peer-reset", e))
      /\ sock' = [x \in Conns |-> IF x = old THEN "closed" ELSE sock[x]]
      /\ up' = [x \in Conns |-> IF x = c THEN Tail(up[x]) ELSE IF x = old THEN << >> ELSE up[x]]
      /\ answer' = [x \in Conns |-> IF x = c THEN response
                                    ELSE IF x = old THEN NoAnswer ELSE answer[x]]
  BY DEF RejoinRoom
<1>2. e \in Epochs /\ e \in OptEpoch /\ Tail(up[c]) \in Seq(SentUp)
  BY <1>1, ArrivingTypes, NoEpochType
<1>3. base \in Room
  BY <1>0, NoRoomType
<1>4. other.conn \in Conns \union {NoConn} /\ other.epoch \in OptEpoch
  <2> HIDE DEF base
  <2> QED
    BY <1>0, <1>3, SlotTypes
<1>5. room' \in Room
  <2>1. 0 \in Time /\ (~live) \in BOOLEAN
    BY <1>0 DEF Time
  <2> HIDE DEF base, e, r
  <2> QED
    BY <1>0, <1>1, <1>2, <1>3, <2>1, RejoinedFacts
<1>6. response \in DownMsg /\ Note("peer-reset", e) \in DownMsg /\ Closed(4400) \in DownMsg
  <2> HIDE DEF other, e
  <2> QED
    BY <1>2, <1>4, NoteTypes, ClosedTypes DEF Responses
<1> HIDE DEF old, response
<1>7. evicted \in [Conns -> Seq(DownMsg)]
  <2>1. \A x \in Conns : Append(down[x], Closed(4400)) \in Seq(DownMsg)
    BY <1>0, <1>6
  <2> QED
    BY <1>0, <2>1
<1>8. /\ sock' \in [Conns -> SockStates]
      /\ \A x \in Conns : sock'[x] = "dialing" => sock[x] = "dialing"
  BY <1>0, <1>1 DEF NetInv, SockStates
<1>9. up' \in [Conns -> Seq(SentUp)]
  <2>1. << >> \in Seq(SentUp) /\ up \in [Conns -> Seq(SentUp)]
    BY <1>0 DEF NetInv
  <2> QED
    BY <1>1, <1>2, <2>1
<1>10. answer' \in [Conns -> DownMsg]
  BY <1>0, <1>1, <1>6, NoAnswerType
<1>10a. down' = Posted(evicted, other.conn, Note("peer-reset", e))
  BY <1>1
<1> HIDE DEF evicted, other, e, base, r
<1>11. down' \in [Conns -> Seq(DownMsg)]
  BY <1>4, <1>6, <1>7, <1>10a, PostedTypes
<1>12. NetInv'
  BY <1>0, <1>1, <1>8, <1>9, <1>11, NoDialTypes
<1> QED
  BY <1>1, <1>5, <1>10, <1>12 DEF TypeInv, ServerInv, ClientInv, OddInv

LEMMA SignalTypes ==
  ASSUME TypeInv, NEW c \in Conns, Signal(c)
  PROVE  TypeInv'
<1> DEFINE m == Head(up[c])
           r == c[1]
           there == room.slots[Other(r)]
           fresh == Attached(c) /\ m.seq > room.slots[r].lastSeq
           note == [Note("signal", room.slots[r].epoch) EXCEPT !.data = m.data]
<1>0. /\ room \in Room /\ live \in BOOLEAN /\ down \in [Conns -> Seq(DownMsg)]
      /\ answer \in [Conns -> DownMsg] /\ odd \subseteq OddKinds /\ r \in Role /\ Other(r) \in Role
  BY Names, OtherRole DEF TypeInv, ServerInv, NetInv, OddInv
<1>1. /\ Arriving(c, "signal") /\ Read(c) /\ UNCHANGED <<live, tomb, sock, wait, cl, pc, faults>>
      /\ \/ room' = room
         \/ fresh /\ \/ room' = Accepted(room, r, m.seq)
                     \/ room' = Overflowed(room, r, m.seq)
                     \/ room' = Buffered(room, r, m.seq, 1)
      /\ down' = down \/ down' = Posted(down, there.conn, note)
      /\ answer' = answer \/ Answer(c, Note("overflow", NoEpoch))
      /\ odd' = odd \/ odd' = odd \union {"swallowed"} \/ odd' = odd \union {"overtaken"}
  BY DEF Signal
<1>2. m.data \in Data /\ m.seq \in 0..MaxSeq /\ up' \in [Conns -> Seq(SentUp)]
  BY <1>1, ArrivingTypes
<1>3. /\ there.conn \in Conns \union {NoConn} /\ room.slots[r].epoch \in OptEpoch
      /\ room.slots[r].lastSeq \in 0..MaxSeq
  BY <1>0, SlotTypes
<1>4. fresh => m.seq \in 1..MaxSeq
  BY <1>2, <1>3, Bounds
<1>5. note \in DownMsg /\ Note("overflow", NoEpoch) \in DownMsg
  BY <1>2, <1>3, NoEpochType, NoteTypes
<1> HIDE DEF m, r, there, fresh, note
<1>6. room' \in Room
  <2>1. CASE room' = room
    BY <1>0, <2>1
  <2>2. CASE fresh /\ room' # room
    <3>1. /\ Accepted(room, r, m.seq) \in Room /\ Overflowed(room, r, m.seq) \in Room
          /\ Buffered(room, r, m.seq, 1) \in Room
      BY <1>0, <1>4, <2>2, Bounds, AcceptedFacts, OverflowedFacts, BufferedFacts
    <3> QED
      BY <1>1, <2>2, <3>1
  <2> QED
    BY <1>1, <2>1, <2>2
<1>7. down' \in [Conns -> Seq(DownMsg)]
  BY <1>0, <1>1, <1>3, <1>5, PostedTypes
<1>8. answer' \in [Conns -> DownMsg]
  BY <1>0, <1>1, <1>5, AnswerTypes
<1>9. odd' \subseteq OddKinds
  BY <1>0, <1>1 DEF OddKinds
<1> QED
  BY <1>0, <1>1, <1>2, <1>6, <1>7, <1>8, <1>9, ServerOnly

LEMMA ReplyTypes ==
  ASSUME TypeInv, NEW c \in Conns, PeerConnected(c) \/ Reply(c)
  PROVE  TypeInv'
<1>0. /\ room \in Room /\ live \in BOOLEAN /\ c[1] \in Role /\ 0 \in Time /\ odd \subseteq OddKinds
      /\ answer \in [Conns -> DownMsg] /\ down \in [Conns -> Seq(DownMsg)]
      /\ up \in [Conns -> Seq(SentUp)]
  BY Names DEF TypeInv, ServerInv, NetInv, OddInv, Time
<1>1. CASE PeerConnected(c)
  <2>1. /\ Arriving(c, "connected") /\ Read(c)
        /\ UNCHANGED <<live, tomb, answer, sock, down, wait, cl, pc, faults, odd>>
        /\ room' = Reported(room, c[1], 0) \/ room' = room
    BY <1>1 DEF PeerConnected
  <2>2. room' \in Room /\ up' \in [Conns -> Seq(SentUp)]
    BY <1>0, <2>1, ReportedFacts, ArrivingTypes
  <2> QED
    BY <1>0, <2>1, <2>2, ServerOnly
<1>2. CASE Reply(c)
  <2>1. /\ down' = Posted(down, c, answer[c]) /\ Answer(c, NoAnswer)
        /\ UNCHANGED <<room, live, tomb, sock, up, wait, cl, pc, faults, odd>>
    BY <1>2 DEF Reply
  <2>2. answer[c] \in DownMsg
    BY <1>0
  <2>3. down' \in [Conns -> Seq(DownMsg)]
    BY <1>0, <2>1, <2>2, PostedTypes
  <2>4. answer' \in [Conns -> DownMsg]
    BY <1>0, <2>1, NoAnswerType, AnswerTypes
  <2> QED
    BY <1>0, <2>1, <2>3, <2>4, ServerOnly
<1> QED
  BY <1>1, <1>2

LEMMA LeaveTypes ==
  ASSUME TypeInv, NEW c \in Conns, Detach(c) \/ ServerDrops(c)
  PROVE  TypeInv'
<1>0. /\ room \in Room /\ NetInv /\ ClientInv /\ OddInv /\ c[1] \in Role /\ 0 \in Time
      /\ answer \in [Conns -> DownMsg]
  BY Names DEF TypeInv, ServerInv, Time
<1>1. room' = Without(c) /\ UNCHANGED <<live, tomb, cl, pc, odd>>
  BY DEF Detach, ServerDrops
<1>2. room' \in Room
  BY <1>0, <1>1, DetachedFacts DEF Without
<1>3. CASE Detach(c)
  <2>1. sock' = [sock EXCEPT ![c] = "closed"] /\ UNCHANGED <<answer, up, down, wait, faults>>
    BY <1>3 DEF Detach
  <2>2. /\ sock' \in [Conns -> SockStates]
        /\ \A x \in Conns : sock'[x] = "dialing" => sock[x] = "dialing"
    BY <1>0, <2>1 DEF NetInv, SockStates
  <2>3. NetInv'
    BY <1>0, <2>1, <2>2 DEF NetInv
  <2> QED
    BY <1>1, <1>2, <2>1, <2>3 DEF TypeInv, ServerInv, ClientInv, OddInv
<1>4. CASE ServerDrops(c)
  <2> DEFINE last == [x \in Conns |-> <<Closed(4001)>>]
             S == {c}
  <2>1. Fault("drop") /\ CloseAll(S, last)
    BY <1>4 DEF ServerDrops
  <2>2. last \in [Conns -> Seq(DownMsg)]
    BY ClosedTypes
  <2> HIDE DEF last, S
  <2>3. NetInv' /\ answer' \in [Conns -> DownMsg]
    BY <1>0, <2>1, <2>2, CloseAllTypes
  <2>4. faults' \in 0..MaxFaults
    BY <1>0, <2>1, FaultTypes
  <2> QED
    BY <1>1, <1>2, <2>3, <2>4 DEF TypeInv, ServerInv, ClientInv, OddInv
<1> QED
  BY <1>3, <1>4

LEMMA RoomEndsTypes ==
  ASSUME TypeInv, NEW ms \in Seq(DownMsg), RoomEnds(ms), faults' \in 0..MaxFaults, tomb' \in BOOLEAN
  PROVE  TypeInv'
<1> DEFINE last == [x \in Conns |-> ms]
           S == Occupants(room)
<1>1. CloseAll(S, last) /\ room' = NoRoom /\ live' = FALSE /\ UNCHANGED <<cl, pc, odd>>
  BY DEF RoomEnds
<1>2. last \in [Conns -> Seq(DownMsg)]
  OBVIOUS
<1> HIDE DEF last, S
<1>3. NetInv' /\ answer' \in [Conns -> DownMsg]
  BY <1>1, <1>2, CloseAllTypes DEF TypeInv, ServerInv
<1> QED
  BY <1>1, <1>3, NoRoomType DEF TypeInv, ServerInv, ClientInv, OddInv

LEMMA LastWordsTypes ==
  ASSUME NEW t \in {"idle", "expired", "room-closed"}, NEW n \in {4013, 4014, 4200}
  PROVE  <<Note(t, NoEpoch), Closed(n)>> \in Seq(DownMsg)
<1>1. Note(t, NoEpoch) \in DownMsg
  BY NoEpochType, NoDataType DEF Note, DownMsg
<1>2. Closed(n) \in DownMsg
  BY ClosedTypes
<1> QED
  BY <1>1, <1>2

LEMMA EndTypes ==
  ASSUME TypeInv, release \/ expire \/ closeRoom
  PROVE  TypeInv'
<1>0. OddInv /\ faults \in 0..MaxFaults /\ tomb \in BOOLEAN
  BY DEF TypeInv, ServerInv, OddInv
<1>1. CASE release
  <2> DEFINE ms == <<Note("idle", NoEpoch), Closed(4200)>>
  <2>0. ms \in Seq(DownMsg)
    BY LastWordsTypes
  <2>1. RoomEnds(ms) /\ UNCHANGED <<tomb, faults>>
    BY <1>1 DEF release
  <2> HIDE DEF ms
  <2> QED
    BY <1>0, <2>0, <2>1, RoomEndsTypes
<1>2. CASE expire
  <2> DEFINE ms == <<Note("expired", NoEpoch), Closed(4014)>>
  <2>0. ms \in Seq(DownMsg)
    BY LastWordsTypes
  <2>1. RoomEnds(ms) /\ UNCHANGED tomb /\ Fault("expiry")
    BY <1>2 DEF expire
  <2>2. faults' \in 0..MaxFaults
    BY <1>0, <2>1, FaultTypes
  <2> HIDE DEF ms
  <2> QED
    BY <1>0, <2>0, <2>1, <2>2, RoomEndsTypes
<1>3. CASE closeRoom
  <2> DEFINE ms == <<Note("room-closed", NoEpoch), Closed(4013)>>
  <2>0. ms \in Seq(DownMsg)
    BY LastWordsTypes
  <2>1. RoomEnds(ms) /\ tomb' = TRUE /\ Fault("lockout")
    BY <1>3 DEF closeRoom
  <2>2. faults' \in 0..MaxFaults
    BY <1>0, <2>1, FaultTypes
  <2> HIDE DEF ms
  <2> QED
    BY <1>0, <2>0, <2>1, <2>2, RoomEndsTypes
<1> QED
  BY <1>1, <1>2, <1>3

LEMMA RestartTypes ==
  ASSUME TypeInv, Restart
  PROVE  TypeInv'
<1> DEFINE restored == [Emptied(room) EXCEPT !.releaseAt = NoTime]
           S == {c \in Conns : sock[c] \in {"open", "left"}}
           code(c) == IF c \in Occupants(room) THEN 4300 ELSE 1006
           last == [c \in Conns |-> <<Closed(code(c))>>]
<1>0. room \in Room /\ NetInv /\ OddInv /\ answer \in [Conns -> DownMsg]
  BY DEF TypeInv, ServerInv
<1>1. /\ Fault("restart") /\ CloseAll(S, last) /\ live' \in BOOLEAN
      /\ room' = (IF live' THEN restored ELSE NoRoom) /\ UNCHANGED <<tomb, cl, pc, odd>>
  BY DEF Restart
<1>2. last \in [Conns -> Seq(DownMsg)]
  <2>1. \A c \in Conns : Closed(code(c)) \in DownMsg
    BY ClosedTypes
  <2> HIDE DEF code
  <2> QED
    BY <2>1
<1>3. restored \in Room
  <2>1. Emptied(room) \in Room
    BY <1>0, EmptiedFacts
  <2> QED
    BY <2>1 DEF Room, OptTime
<1> HIDE DEF last, S, restored
<1>4. NetInv' /\ answer' \in [Conns -> DownMsg]
  BY <1>0, <1>1, <1>2, CloseAllTypes
<1>5. faults' \in 0..MaxFaults /\ room' \in Room
  BY <1>0, <1>1, <1>3, FaultTypes, NoRoomType
<1> QED
  BY <1>1, <1>4, <1>5 DEF TypeInv, ServerInv, ClientInv, OddInv

-----------------------------------------------------------------------------

LEMMA TypeInit == Init => TypeInv
<1> SUFFICES ASSUME Init PROVE TypeInv
  OBVIOUS
<1>1. ServerInv
  BY NoRoomType, NoAnswerType DEF Init, ServerInv
<1>2. << >> \in Seq(SentUp) /\ << >> \in Seq(DownMsg)
  OBVIOUS
<1>3. NetInv
  BY <1>2, NoAskType DEF Init, NetInv, SockStates
<1>4. ClientInv
  BY NewTypes DEF Init, ClientInv
<1>5. OddInv
  BY Bounds DEF Init, OddInv
<1> QED
  BY <1>1, <1>3, <1>4, <1>5 DEF TypeInv

LEMMA TypeStep == TypeInv /\ [Next]_vars => TypeInv'
<1> SUFFICES ASSUME TypeInv, [Next]_vars PROVE TypeInv'
  OBVIOUS
<1>1. CASE UNCHANGED vars
  BY <1>1 DEF vars, serverVars, netVars, TypeInv, ServerInv, NetInv, ClientInv, OddInv
<1>2. CASE createRoom \/ joinRoom \/ release \/ expire \/ closeRoom \/ Restart
  BY <1>2, AskTypes, EndTypes, RestartTypes
<1>3. ASSUME NEW r \in Role, rejoin(r) \/ doRejoin(r) \/ PeerStep(r) PROVE TypeInv'
  BY <1>3, rejoinTypes, doRejoinTypes, PeerStepTypes
<1>4. ASSUME NEW c \in Conns, ClientStep(c) PROVE TypeInv'
  BY <1>4, OpenedTypes, LossTypes, ResponseTypes, MessageTypes DEF ClientStep
<1>5. ASSUME NEW c \in Conns, ServerStep(c) PROVE TypeInv'
  BY <1>5, CreateRoomTypes, JoinRoomTypes, RejoinRefusedTypes, RejoinRoomTypes, SignalTypes,
     ReplyTypes, LeaveTypes DEF ServerStep
<1> QED
  BY <1>1, <1>2, <1>3, <1>4, <1>5 DEF Next

\* The two clients, the messages between them and the server, and the room stay
\* well typed; in particular no client numbers a signal past what one peer of
\* it can send, since BuildPeer starts to count anew, and a socket that opens
\* has a handshake to send.
THEOREM RendezvousTypes == Spec => []TypeOK
BY TypeInit, TypeStep, TypeInvImplies, PTL DEF Spec
=============================================================================
