------------------------------ MODULE WsReader ------------------------------
(***************************************************************************)
(* The read path of one connection: the poller of poller_linux.go (one     *)
(* epoll registration, armed one-shot, level-triggered), the event         *)
(* goroutines it starts, the fallback read loop, and onReadable, consume   *)
(* and handleFrame of wsconn.go, which turn bytes into messages.           *)
(*                                                                         *)
(* A frame is a header and len units of payload; a unit is named by its    *)
(* frame and its place in it.  The socket delivers units in any grouping.  *)
(* What a handler does with a message is RoomRegistry's subject: here a    *)
(* message is dispatched, and its answer may close the connection (kind    *)
(* "fatal").  A goroutine that parses what another has already parsed      *)
(* unmasks it a second time, so events says nothing of the content of a    *)
(* message after the first stop.                                           *)
(***************************************************************************)
EXTENDS Integers, SequencesExt

CONSTANTS
  Frames,      \* frames a client sends: [kind, fin, len]
  MaxFrameLen, \* cfg.MaxFrameBytes, in units
  ReadChunk,   \* size of the read buffer, in units
  MaxSent,     \* bound: frames the client sends
  Pipelined    \* units read with the HTTP handshake: 0 and more

ASSUME WsReaderAssumption ==
  /\ Frames \subseteq
       [kind : {"text", "fatal", "binary", "cont", "ping", "pong", "close", "bad"},
        fin : BOOLEAN, len : Nat]
  /\ MaxFrameLen \in Nat /\ ReadChunk \in Nat \ {0}
  /\ MaxSent \in Nat \ {0} /\ Pipelined \subseteq Nat

VARIABLES
  sent,     \* the frames the client has sent
  kernel,   \* units received and not yet read
  eof,      \* the client has closed its end
  polled,   \* wsConn.polled
  pending,  \* watch's pending: rbuf held bytes of the handshake
  watched,  \* how far watch has come
  armed,    \* the epoll registration is armed
  reader,   \* the goroutines in serve or readLoop
  rbuf,     \* wsConn.rbuf
  cur,      \* the unparsed rest of consume's b
  full,     \* the last read filled its buffer
  frag,     \* wsConn.fragged, msgOp and msg
  events,   \* history: what the reader did, message by message
  closing   \* how far Close has come

readVars == <<rbuf, cur, full, frag, events>>
pollVars == <<polled, pending, watched, armed>>
vars == <<sent, kernel, eof, pollVars, reader, readVars, closing>>

-----------------------------------------------------------------------------
(* Types *)

\* Two goroutines, so that a second one would be seen.
Readers == 1..2

\* idle, waiting for rmu, parsing, about to read, inside Close, back from
\* onReadable, past the isClosed check.
ReaderAt == {"none", "lock", "parse", "read", "close", "checked", "rearm"}

HoldsRmu(k) == reader[k] \in {"parse", "read", "close"}

Unit == [frame : 1..MaxSent, i : Nat]

NoFrag == [on |-> FALSE, kind |-> "none", start |-> 0, len |-> 0]

\* A message is named by its first and last frame; stop means that the reader
\* closed the connection on this frame.
Event == [first : 0..MaxSent, last : 1..MaxSent, stop : BOOLEAN]

\* The type of the state; a message being put together never grows past
\* maxFrame.
TypeOK ==
  /\ sent \in Seq(Frames) /\ Len(sent) <= MaxSent
  /\ kernel \in Seq(Unit) /\ rbuf \in Seq(Unit) /\ cur \in Seq(Unit)
  /\ eof \in BOOLEAN /\ polled \in BOOLEAN /\ armed \in BOOLEAN
  /\ full \in BOOLEAN /\ pending \in BOOLEAN
  /\ watched \in {"no", "added", "yes"}
  /\ reader \in [Readers -> ReaderAt]
  /\ frag \in [on : BOOLEAN, kind : {"none", "text", "fatal", "binary"},
               start : 0..MaxSent, len : 0..MaxFrameLen]
  /\ events \in Seq(Event)
  /\ closing \in {"no", "marked", "unwatched", "shut"}

FrameUnits(n, f) == [i \in 1..(1 + f.len) |-> [frame |-> n, i |-> i]]

-----------------------------------------------------------------------------
(* The client *)

\* The client sends a frame; so far as the bytes are concerned, it may arrive
\* in pieces, because a read takes at most ReadChunk units at a time.
ClientSends(f) ==
  /\ Len(sent) < MaxSent /\ ~eof /\ closing # "shut" /\ watched # "no"
  /\ sent' = Append(sent, f)
  /\ kernel' = kernel \o FrameUnits(Len(sent) + 1, f)
  /\ UNCHANGED <<eof, pollVars, reader, readVars, closing>>

ClientCloses ==
  /\ ~eof /\ watched # "no"
  /\ eof' = TRUE
  /\ UNCHANGED <<sent, kernel, pollVars, reader, readVars, closing>>

-----------------------------------------------------------------------------
(* watch, the event loop, re-arming *)

\* A goroutine starts; the first free name is taken.
Start(k) ==
  /\ reader[k] = "none" /\ \A l \in 1..(k - 1) : reader[l] # "none"
  /\ reader' = [reader EXCEPT ![k] = "lock"]

\* The socket is registered, armed.  Without a usable fd, or when the ADD
\* fails, the connection gets a read loop of its own.
Watch ==
  /\ watched = "no"
  /\ \/ /\ polled' = TRUE /\ armed' = TRUE
        /\ watched' = "added"
        /\ pending' = (rbuf # << >>)
        /\ UNCHANGED reader
     \/ /\ Start(1)
        /\ watched' = "yes"
        /\ UNCHANGED <<polled, armed, pending>>
  /\ UNCHANGED <<sent, kernel, eof, readVars, closing>>

\* Bytes that came with the handshake are served at once.
ServePending ==
  /\ watched = "added"
  /\ watched' = "yes"
  /\ IF pending THEN \E k \in Readers : Start(k) ELSE UNCHANGED reader
  /\ UNCHANGED <<sent, kernel, eof, polled, pending, armed, readVars, closing>>

\* epoll_wait reports the socket, once, and run finds the connection.
Deliver ==
  /\ armed /\ (kernel # << >> \/ eof)
  /\ armed' = FALSE
  /\ \E k \in Readers : Start(k)
  /\ UNCHANGED <<sent, kernel, eof, polled, pending, watched, readVars, closing>>

\* serve and readLoop after onReadable: closed connections are left alone.
CheckClosed(k) ==
  /\ reader[k] = "checked"
  /\ reader' = [reader EXCEPT ![k] = IF closing # "no" THEN "none"
                                     ELSE IF polled THEN "rearm" ELSE "lock"]
  /\ UNCHANGED <<sent, kernel, eof, pollVars, readVars, closing>>

\* Mutant: a connection in the middle of a frame is not re-armed.
Rearms_OnlyWhole == rbuf = << >>

\* MOD succeeds while the registration is there.
Rearms == closing \in {"no", "marked"}

Rearm(k) ==
  /\ reader[k] = "rearm"
  /\ armed' = (Rearms \/ armed)
  /\ reader' = [reader EXCEPT ![k] = "none"]
  /\ UNCHANGED <<sent, kernel, eof, polled, pending, watched, readVars, closing>>

\* MOD fails on a connection nobody is closing: the goroutine reads no more
\* and runs Close, without rmu.
RearmFails(k) ==
  /\ reader[k] = "rearm" /\ closing = "no"
  /\ closing' = "marked"
  /\ reader' = [reader EXCEPT ![k] = "none"]
  /\ UNCHANGED <<sent, kernel, eof, pollVars, readVars>>

-----------------------------------------------------------------------------
(* onReadable *)

\* rmu; bytes left from before may already complete a message.
Lock(k) ==
  /\ reader[k] = "lock"
  /\ \A l \in Readers : ~HoldsRmu(l)
  /\ reader' = [reader EXCEPT ![k] = IF rbuf # << >> THEN "parse" ELSE "read"]
  /\ cur' = rbuf
  /\ full' = TRUE     \* consume(nil) is followed by a read
  /\ UNCHANGED <<sent, kernel, eof, pollVars, rbuf, frag, events, closing>>

\* readOnce returned bytes, any number of them: what is left in kernel may
\* have arrived since.  consume puts them behind rbuf, if there is one.
ReadSome(k) ==
  \E n \in 1..ReadChunk :
      /\ reader[k] = "read" /\ closing # "shut"
      /\ n <= Len(kernel)
      /\ kernel' = SubSeq(kernel, n + 1, Len(kernel))
      /\ cur' = rbuf \o SubSeq(kernel, 1, n)
      /\ rbuf' = IF rbuf = << >> THEN rbuf ELSE rbuf \o SubSeq(kernel, 1, n)
      /\ full' = (n = ReadChunk)
      /\ reader' = [reader EXCEPT ![k] = "parse"]
      /\ UNCHANGED <<sent, eof, pollVars, frag, events, closing>>

\* Mutant: a zero-length read is taken for an empty socket.
EndOfFile_Ignored == FALSE

EndOfFile == eof

\* EAGAIN, on a polled socket only; the fallback blocks instead.
ReadNothing(k) ==
  /\ reader[k] = "read" /\ closing # "shut" /\ polled
  /\ kernel = << >> /\ ~EndOfFile
  /\ reader' = [reader EXCEPT ![k] = "checked"]
  /\ UNCHANGED <<sent, kernel, eof, pollVars, readVars, closing>>

\* Close, from a reader: it returns when the Close that is the first to come
\* has returned, and the reader keeps rmu until then.
EnterClose(k) ==
  /\ closing' = IF closing = "no" THEN "marked" ELSE closing
  /\ reader' = [reader EXCEPT ![k] = "close"]

LeaveClose(k) ==
  /\ reader[k] = "close" /\ closing = "shut"
  /\ reader' = [reader EXCEPT ![k] = "none"]
  /\ UNCHANGED <<sent, kernel, eof, pollVars, readVars, closing>>

\* End of file, or the socket was closed under the reader: closeRead.
ReadFails(k) ==
  /\ reader[k] = "read"
  /\ closing = "shut" \/ (kernel = << >> /\ EndOfFile)
  /\ EnterClose(k)
  /\ UNCHANGED <<sent, kernel, eof, pollVars, readVars>>

-----------------------------------------------------------------------------
(* consume and handleFrame *)

HeadFrame == sent[Head(cur).frame]

HeadNo == Head(cur).frame

\* The whole frame is there.
Complete == Len(cur) > HeadFrame.len

IsData(f) == f.kind \in {"text", "fatal", "binary"}

\* A header that parseHeader refuses: an RSV bit or no mask ("bad"), a length
\* past maxFrame, a control frame in pieces.  It is refused before its payload
\* is there.
EarlyRefusal(f) ==
  \/ f.kind = "bad" \/ f.len > MaxFrameLen
  \/ f.kind \in {"ping", "pong", "close"} /\ ~f.fin

\* Mutant: each continuation is measured by itself.
TooLong_FrameOnly(f) == f.len > MaxFrameLen

\* The message so far and this continuation exceed maxFrame.
TooLong(f) == frag.len + f.len > MaxFrameLen

\* parseHeader and handleFrame close the connection on this frame, before any
\* dispatch.  An unknown opcode meets the fate of "close".
Refused(f) ==
  \/ EarlyRefusal(f) \/ f.kind = "close"
  \/ f.kind = "cont" /\ (~frag.on \/ TooLong(f))
  \/ IsData(f) /\ frag.on

Stop(k, evs) ==
  /\ events' = events \o evs
  /\ EnterClose(k)
  /\ UNCHANGED <<cur, full, rbuf>>

\* The connection is closed and onReadable returns false; rbuf stays.  A ping
\* ends the same way when its pong cannot be written: after Close, or because
\* the write fails.
RefuseFrame(k) ==
  /\ reader[k] = "parse" /\ cur # << >>
  /\ \/ Complete /\ (Refused(HeadFrame) \/ HeadFrame.kind = "ping")
     \/ EarlyRefusal(HeadFrame)
  /\ Stop(k, <<[first |-> 0, last |-> HeadNo, stop |-> TRUE]>>)
  /\ UNCHANGED <<sent, kernel, eof, pollVars, frag>>

\* Mutant: the flag of a fragmented message outlives it.
Unfragged_Never == frag

Unfragged == NoFrag

\* A frame that neither ends a message nor the connection.
TakeFrame(k) ==
  LET f == HeadFrame
  IN  /\ reader[k] = "parse" /\ cur # << >> /\ Complete /\ ~Refused(f)
      /\ \/ /\ f.kind = "pong" \/ (f.kind = "ping" /\ closing = "no")
            /\ UNCHANGED frag
         \/ /\ IsData(f) /\ ~f.fin
            /\ frag' = [on |-> TRUE, kind |-> f.kind, start |-> HeadNo, len |-> f.len]
         \/ /\ f.kind = "cont" /\ ~f.fin
            /\ frag' = [frag EXCEPT !.len = @ + f.len]
      /\ cur' = SubSeq(cur, f.len + 2, Len(cur))
      /\ UNCHANGED <<sent, kernel, eof, pollVars, reader, rbuf, full, events, closing>>

\* The last frame of a message: dispatchMessage.  A binary message and one
\* with a fatal answer close the connection.
Dispatch(k) ==
  LET f     == HeadFrame
      first == IF f.kind = "cont" THEN frag.start ELSE HeadNo
      kind  == IF f.kind = "cont" THEN frag.kind ELSE f.kind
      msg   == [first |-> first, last |-> HeadNo, stop |-> FALSE]
      stop  == [first |-> 0, last |-> HeadNo, stop |-> TRUE]
  IN  /\ reader[k] = "parse" /\ cur # << >> /\ Complete /\ ~Refused(f)
      /\ f.fin /\ (IsData(f) \/ f.kind = "cont")
      /\ frag' = IF f.kind = "cont" THEN Unfragged ELSE frag
      /\ CASE kind = "text" ->
                /\ events' = Append(events, msg)
                /\ cur' = SubSeq(cur, f.len + 2, Len(cur))
                /\ UNCHANGED <<rbuf, full, reader, closing>>
           [] kind = "fatal"  -> Stop(k, <<msg, stop>>)
           [] kind = "binary" -> Stop(k, <<stop>>)
      /\ UNCHANGED <<sent, kernel, eof, pollVars>>

\* No complete frame is left: keep the rest and read again, or return.
EndConsume(k) ==
  /\ reader[k] = "parse"
  /\ ~(cur # << >> /\ (Complete \/ EarlyRefusal(HeadFrame)))
  /\ rbuf' = cur
  /\ cur' = << >>
  /\ reader' = [reader EXCEPT ![k] = IF full THEN "read" ELSE "checked"]
  /\ UNCHANGED <<sent, kernel, eof, pollVars, full, frag, events, closing>>

-----------------------------------------------------------------------------
(* Close, by anybody *)

CallClose ==
  /\ closing = "no" /\ watched # "no"
  /\ closing' = "marked"
  /\ UNCHANGED <<sent, kernel, eof, pollVars, reader, readVars>>

\* unwatch removes the registration; then the socket is closed.
CloseRest ==
  /\ closing \in {"marked", "unwatched"}
  /\ closing' = IF closing = "marked" THEN "unwatched" ELSE "shut"
  /\ armed' = FALSE
  /\ UNCHANGED <<sent, kernel, eof, polled, pending, watched, reader, readVars>>

-----------------------------------------------------------------------------

\* newWSConn: what the client sent behind the handshake is in rbuf.
Init ==
  /\ polled = FALSE /\ pending = FALSE
  /\ \E n \in Pipelined, f \in Frames :
       /\ n <= 1 + f.len
       /\ sent = IF n = 0 THEN << >> ELSE <<f>>
       /\ rbuf = SubSeq(FrameUnits(1, f), 1, n)
       /\ kernel = IF n = 0 THEN << >> ELSE SubSeq(FrameUnits(1, f), n + 1, 1 + f.len)
  /\ eof = FALSE
  /\ watched = "no" /\ armed = FALSE
  /\ reader = [k \in Readers |-> "none"]
  /\ cur = << >> /\ full = FALSE
  /\ frag = NoFrag
  /\ events = << >>
  /\ closing = "no"

Serve(k) ==
  \/ Lock(k) \/ ReadSome(k) \/ ReadNothing(k) \/ ReadFails(k) \/ LeaveClose(k)
  \/ RefuseFrame(k) \/ TakeFrame(k) \/ Dispatch(k) \/ EndConsume(k)
  \/ CheckClosed(k) \/ Rearm(k) \/ RearmFails(k)

Transport == Watch \/ ServePending \/ Deliver

Next == \/ \E f \in Frames : ClientSends(f)
        \/ ClientCloses
        \/ Transport
        \/ \E k \in Readers : Serve(k)
        \/ CallClose \/ CloseRest

Spec == Init /\ [][Next]_vars

\* The event loop, the goroutines and Close run when they can.
FairSpec == /\ Spec /\ WF_vars(Transport) /\ WF_vars(CloseRest)
            /\ \A k \in Readers : WF_vars(Serve(k))

-----------------------------------------------------------------------------
(* Properties *)

\* The frames of s as messages, said without reading it byte by byte.

\* Frame i comes in the middle of a message.
InMessage(s, i) ==
  \E j \in 1..(i - 1) : /\ IsData(s[j]) /\ ~s[j].fin
                        /\ \A m \in (j + 1)..(i - 1) : ~(s[m].kind = "cont" /\ s[m].fin)

\* The frame that begins the message of frame i: the last one with data.
FirstOf(s, i) == Max({j \in 1..i : IsData(s[j])})

\* The payload units of the message of frame i, up to and with frame i.
Payload(s, i) ==
  UNION {{m} \X (1..s[m].len) :
           m \in {m \in FirstOf(s, i)..i : IsData(s[m]) \/ s[m].kind = "cont"}}

EndsMessage(s, i) == s[i].fin /\ (IsData(s[i]) \/ s[i].kind = "cont")

\* Nothing behind frame i is to be read.
Breaks(s, i) ==
  \/ s[i].kind \in {"close", "bad"} \/ s[i].len > MaxFrameLen
  \/ s[i].kind \in {"ping", "pong"} /\ ~s[i].fin
  \/ IsData(s[i]) /\ InMessage(s, i)
  \/ s[i].kind = "cont" /\ (~InMessage(s, i) \/ Cardinality(Payload(s, i)) > MaxFrameLen)

\* What a reader should do with frame i.
EventsOf(s, i) ==
  LET stop == [first |-> 0, last |-> i, stop |-> TRUE]
      msg  == [first |-> FirstOf(s, i), last |-> i, stop |-> FALSE]
      kind == s[FirstOf(s, i)].kind
  IN  IF Breaks(s, i) THEN {stop}
      ELSE IF ~EndsMessage(s, i) THEN {}
      ELSE CASE kind = "text" -> {msg} [] kind = "fatal" -> {msg, stop} [] kind = "binary" -> {stop}

\* What it should do with the frames s, up to the first that ends the
\* connection.  Each event carries its place in the order.
Reference(s) ==
  UNION {EventsOf(s, i) : i \in {i \in DOMAIN s : \A j \in 1..(i - 1) :
                                   \A e \in EventsOf(s, j) : ~e.stop}}

Precedes(d, e) == d.last < e.last \/ (d.last = e.last /\ ~d.stop /\ e.stop)

UpToStop(evs) ==
  LET stops == {i \in DOMAIN evs : evs[i].stop}
  IN  IF stops = {} THEN evs ELSE SubSeq(evs, 1, Min(stops))

\* However the bytes are cut into reads, and whichever goroutine reads them,
\* up to the first frame that ends the connection consume and handleFrame
\* dispatch exactly the messages the client sent, in order, each once and none
\* left out, control frames between fragments included; and they end it at
\* exactly the frame that calls for it, or at a ping they cannot answer.
DispatchExact ==
  LET evs  == UpToStop(events)
      Pong(e) == e.stop /\ sent[e.last].kind = "ping"
  IN  /\ \A i, j \in DOMAIN evs : i < j => Precedes(evs[i], evs[j])
      /\ \A i \in DOMAIN evs : evs[i] \in Reference(sent) \/ Pong(evs[i])
      /\ \A i \in DOMAIN evs, e \in Reference(sent) : Precedes(e, evs[i]) => e \in Range(evs)

\* A message whose bytes have all been received is dispatched, or the
\* connection is closed: no order of registration, event, re-arm and arrival
\* leaves bytes waiting for an event that nobody will deliver.
AllServed == []<>(closing # "no" \/ Reference(sent) \subseteq Range(events))

\* A client that goes away is noticed: its connection is closed and no
\* goroutine is left reading it.
GoneNoticed == eof ~> (closing = "shut" /\ \A k \in Readers : reader[k] = "none")
=============================================================================
