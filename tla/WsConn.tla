------------------------------- MODULE WsConn -------------------------------
(***************************************************************************)
(* One connection of server/internal/server/wsconn.go, from the side that  *)
(* writes: Send and the control frames (writeBytes under wmu, straight to  *)
(* the socket or behind a backlog), the flush goroutine that drains the    *)
(* backlog, the timer that enforces the handshake and pings, and Close,    *)
(* whose parts run one after another while the others go on.  What the     *)
(* reader parses is WsReader's subject; here it reads, or fails.           *)
(*                                                                         *)
(* A frame is a sequence of bytes that all carry its number.  The socket   *)
(* takes any number of bytes of a write, and may fail: the client reads as *)
(* it likes.  accepted and wire are histories, kept until a write fails;   *)
(* what is written to the socket after that is no stream of frames.        *)
(***************************************************************************)
EXTENDS Integers, SequencesExt

CONSTANTS
  Sizes,            \* sizes of a text frame
  MaxPendingBytes,  \* maxPendingBytes
  MissedPongs,      \* ping intervals without a read that are tolerated: 3
  MaxFrames         \* bound: frames handed to writeBytes

ASSUME WsConnAssumption ==
  /\ Sizes \subseteq Nat \ {0}
  /\ MaxPendingBytes \in Nat \ {0}
  /\ \A n \in Sizes : n <= MaxPendingBytes
  /\ MissedPongs \in Nat
  /\ MaxFrames \in Nat

VARIABLES
  accepted,   \* history: the bytes of the frames writeBytes took
  wire,       \* history: the bytes written to the socket
  broken,     \* history: a write failed
  nFrames,    \* frames handed to writeBytes
  out,        \* wsConn.out
  flushing,   \* wsConn.flushing
  closed,     \* wsConn.closed
  flusher,    \* the flush goroutines: where they are and what they write
  closing,    \* how far Close has come
  timer,      \* wsConn.timer
  ticking,    \* tick is about to reschedule
  due,        \* handshakeDeadline has passed, and no message came
  shook,      \* wsConn.shook
  silent,     \* ping intervals since lastRead
  releases    \* times release has run

streamVars == <<accepted, wire, broken>>
writeVars  == <<streamVars, nFrames, out, flushing, flusher>>
timerVars  == <<timer, ticking, due, shook, silent>>
vars == <<writeVars, closed, closing, timerVars, releases>>

-----------------------------------------------------------------------------
(* Types *)

Bytes == 1..MaxFrames

\* Two, so that a second flush while one is running would be seen.
Flushers == 1..2

NotFlushing == [at |-> "none", buf |-> << >>]

Flusher == [at : {"none", "loop", "writing"}, buf : Seq(Bytes)]

CloseStep == {"no", "called", "framed", "marked", "unwatched", "shut", "released"}

\* Mutant: the backlog is measured before the frame is added.
BacklogFull_Before(size) == Len(out) > MaxPendingBytes

BacklogFull(size) == Len(out) + size > MaxPendingBytes

\* The type of the state, and its bounds: neither the queue nor what flush has
\* taken from it grows past maxPendingBytes.
TypeOK ==
  /\ accepted \in Seq(Bytes) /\ wire \in Seq(Bytes)
  /\ broken \in BOOLEAN
  /\ nFrames \in 0..MaxFrames
  /\ out \in Seq(Bytes) /\ Len(out) <= MaxPendingBytes
  /\ flushing \in BOOLEAN /\ closed \in BOOLEAN
  /\ flusher \in [Flushers -> Flusher]
  /\ \A k \in Flushers : Len(flusher[k].buf) <= MaxPendingBytes
  /\ closing \in CloseStep
  /\ timer \in {"none", "armed", "fired", "stopped"}
  /\ ticking \in BOOLEAN /\ due \in BOOLEAN
  /\ shook \in BOOLEAN
  /\ silent \in 0..(MissedPongs + 1)
  /\ releases \in 0..1

-----------------------------------------------------------------------------
(* writeBytes *)

FrameOf(size) == [i \in 1..size |-> nFrames + 1]

\* The first caller of Close runs it; the others wait for it and return.
Called == IF closing = "no" THEN "called" ELSE closing

\* The histories stop at the first failed write.
Record(acc, w) ==
  IF broken THEN UNCHANGED <<accepted, wire>>
  ELSE accepted' = accepted \o acc /\ wire' = wire \o w

\* Mutant: a frame goes straight to the socket whenever nothing is queued, even
\* if flush is still writing.
MustQueue_OutOnly == out # << >>

\* A drain is in progress, or bytes are queued behind one.
MustQueue == flushing \/ out # << >>

Enqueue(f) ==
  /\ MustQueue /\ ~BacklogFull(Len(f))
  /\ out' = out \o f
  /\ Record(f, << >>)
  /\ UNCHANGED <<flushing, flusher>>

WriteAll(f) ==
  /\ ~MustQueue
  /\ Record(f, f)
  /\ UNCHANGED <<out, flushing, flusher>>

\* Mutant: nobody is started to drain the rest.
WriteShort_NoFlush(f, n) ==
  /\ ~MustQueue
  /\ Record(f, SubSeq(f, 1, n))
  /\ out' = out \o SubSeq(f, n + 1, Len(f))
  /\ UNCHANGED <<flushing, flusher>>

\* The socket takes n bytes and is full: a goroutine drains the rest.  n is 0
\* for a connection without a raw fd.
WriteShort(f, n) ==
  /\ ~MustQueue
  /\ Record(f, SubSeq(f, 1, n))
  /\ out' = out \o SubSeq(f, n + 1, Len(f))
  /\ flushing' = TRUE
  /\ \E k \in Flushers : /\ flusher[k] = NotFlushing
                         /\ flusher' = [flusher EXCEPT ![k].at = "loop"]

NextFrame == ~closed /\ nFrames < MaxFrames /\ nFrames' = nFrames + 1

\* writeBytes takes one frame of the given size ...
writeBytes(size) ==
  LET f == FrameOf(size)
  IN  /\ NextFrame
      /\ Enqueue(f) \/ WriteAll(f) \/ \E n \in 0..(size - 1) : WriteShort(f, n)
      /\ UNCHANGED broken

\* ... or returns an error: errSendBufferFull, or the socket's.
writeBytesErr(size) ==
  /\ NextFrame
  /\ \/ MustQueue /\ BacklogFull(size) /\ UNCHANGED broken
     \/ ~MustQueue /\ broken' = TRUE
  /\ UNCHANGED <<accepted, wire, out, flushing, flusher>>

\* Send, from whichever goroutine; also a pong and an error response.  After an
\* error the caller closes the connection.
Send(size) ==
  /\ \/ writeBytes(size) /\ UNCHANGED closing
     \/ writeBytesErr(size) /\ closing' = Called
  /\ UNCHANGED <<closed, timerVars, releases>>

-----------------------------------------------------------------------------
(* The flush goroutine *)

SocketOpen == closing \notin {"shut", "released"}

FlushLoop(k) ==
  /\ flusher[k].at = "loop"
  /\ IF closed \/ out = << >>
     THEN /\ flushing' = FALSE
          /\ flusher' = [flusher EXCEPT ![k] = NotFlushing]
          /\ UNCHANGED out
     ELSE /\ flusher' = [flusher EXCEPT ![k] = [at |-> "writing", buf |-> out]]
          /\ out' = << >>
          /\ UNCHANGED flushing
  /\ UNCHANGED <<streamVars, nFrames, closed, closing, timerVars, releases>>

\* The blocking write, a byte at a time.
FlushWrite(k) ==
  LET buf == flusher[k].buf
  IN  /\ flusher[k].at = "writing" /\ SocketOpen
      /\ Record(<< >>, <<Head(buf)>>)
      /\ flusher' = [flusher EXCEPT
                       ![k] = [at  |-> IF Len(buf) = 1 THEN "loop" ELSE "writing",
                               buf |-> Tail(buf)]]
      /\ UNCHANGED <<broken, nFrames, out, flushing, closed, closing, timerVars,
                     releases>>

\* The write times out, fails, or is interrupted by the close of the socket.
FlushFails(k) ==
  /\ flusher[k].at = "writing"
  /\ flusher' = [flusher EXCEPT ![k] = NotFlushing]
  /\ flushing' = FALSE
  /\ out' = << >>
  /\ broken' = TRUE
  /\ closing' = Called
  /\ UNCHANGED <<accepted, wire, nFrames, closed, timerVars, releases>>

Flush == \E k \in Flushers : FlushLoop(k) \/ FlushWrite(k) \/ FlushFails(k)

-----------------------------------------------------------------------------
(* The timer *)

rest == <<writeVars, closed, closing, releases>>

\* start, once the transport has the connection.
Start ==
  /\ timer = "none" /\ ~closed
  /\ timer' = "armed"
  /\ UNCHANGED <<rest, ticking, due, shook, silent>>

\* The timer fires and its goroutine begins tick.
Fire ==
  /\ timer = "armed" /\ ~ticking
  /\ timer' = "fired"
  /\ silent' = IF silent > MissedPongs THEN silent ELSE silent + 1
  /\ UNCHANGED <<rest, ticking, due, shook>>

\* No frame can be written any more: closed, or out of the bound.
NoFrame == (closed \/ nFrames = MaxFrames) /\ UNCHANGED writeVars

\* The clock reaches handshakeDeadline.
DeadlinePasses ==
  /\ timer # "none" /\ ~due /\ ~shook
  /\ due' = TRUE
  /\ UNCHANGED <<rest, timer, ticking, shook, silent>>

\* tick before the first message and before the deadline: fired too early.
FiredEarly ==
  /\ timer = "fired" /\ ~ticking /\ ~shook /\ ~due
  /\ ticking' = TRUE
  /\ UNCHANGED <<rest, timer, due, shook, silent>>

\* tick before the first message, later: an error response, then Close.
HandshakeTimeout ==
  /\ timer = "fired" /\ ~ticking /\ ~shook /\ due
  /\ writeBytes(1) \/ writeBytesErr(1) \/ NoFrame
  /\ closing' = Called
  /\ timer' = "stopped"
  /\ UNCHANGED <<closed, ticking, due, shook, silent, releases>>

\* Mutant: nobody counts the missed pongs.
KeepaliveExpired_Never == FALSE

KeepaliveExpired == silent > MissedPongs

KeepaliveTimeout ==
  /\ timer = "fired" /\ ~ticking /\ shook /\ KeepaliveExpired
  /\ closing' = Called
  /\ timer' = "stopped"
  /\ UNCHANGED <<writeVars, closed, ticking, due, shook, silent, releases>>

Ping ==
  /\ timer = "fired" /\ ~ticking /\ shook /\ ~KeepaliveExpired
  /\ \/ /\ writeBytes(1) \/ NoFrame
        /\ ticking' = TRUE
        /\ UNCHANGED <<closing, timer>>
     \/ /\ writeBytesErr(1)
        /\ closing' = Called
        /\ timer' = "stopped"
        /\ UNCHANGED ticking
  /\ UNCHANGED <<closed, due, shook, silent, releases>>

\* reschedule, unless the connection was closed since.
Reschedule ==
  /\ ticking
  /\ ticking' = FALSE
  /\ timer' = IF closed THEN "stopped" ELSE "armed"
  /\ UNCHANGED <<rest, due, shook, silent>>

Timer == Fire \/ FiredEarly \/ HandshakeTimeout \/ KeepaliveTimeout \/ Ping \/ Reschedule

-----------------------------------------------------------------------------
(* The reader, as the timer and Close see it *)

\* Bytes arrive; a complete message ends the handshake window.
Read ==
  /\ SocketOpen
  /\ silent' = 0
  /\ shook' \in {shook, TRUE}
  /\ due' = (due /\ ~shook')
  /\ UNCHANGED <<rest, timer, ticking>>

\* A read error, a close frame, a fatal response, the registry or the sweep.
CallClose ==
  /\ closing = "no"
  /\ closing' = "called"
  /\ UNCHANGED <<writeVars, closed, timerVars, releases>>

-----------------------------------------------------------------------------
(* Close *)

\* Mutant: Close insists on its close frame.
CloseFrame_MustWrite ==
  /\ closing = "called"
  /\ writeBytes(1)
  /\ closing' = "framed"
  /\ UNCHANGED <<closed, timerVars, releases>>

\* The close frame, best effort.
CloseFrame ==
  /\ closing = "called"
  /\ writeBytes(1) \/ writeBytesErr(1) \/ NoFrame
  /\ closing' = "framed"
  /\ UNCHANGED <<closed, timerVars, releases>>

CloseMark ==
  /\ closing = "framed"
  /\ closed' = TRUE
  /\ out' = << >>
  /\ closing' = "marked"
  /\ timer' = IF timer = "armed" THEN "stopped" ELSE timer
  /\ UNCHANGED <<streamVars, nFrames, flushing, flusher, ticking, due, shook, silent,
                 releases>>

\* unwatch, then the socket is closed, then release runs on its own goroutine.
CloseRest ==
  /\ closing \in {"marked", "unwatched", "shut"}
  /\ closing' = CASE closing = "marked"    -> "unwatched"
                  [] closing = "unwatched" -> "shut"
                  [] closing = "shut"      -> "released"
  /\ releases' = IF closing = "shut" THEN releases + 1 ELSE releases
  /\ UNCHANGED <<writeVars, closed, timerVars>>

Close == CloseFrame \/ CloseMark \/ CloseRest

-----------------------------------------------------------------------------

Init ==
  /\ accepted = << >> /\ wire = << >> /\ broken = FALSE
  /\ nFrames = 0
  /\ out = << >> /\ flushing = FALSE /\ closed = FALSE
  /\ flusher = [k \in Flushers |-> NotFlushing]
  /\ closing = "no"
  /\ timer = "none" /\ ticking = FALSE /\ due = FALSE
  /\ shook = FALSE /\ silent = 0
  /\ releases = 0

Next == \/ \E size \in Sizes : Send(size)
        \/ Flush \/ Start \/ DeadlinePasses \/ Timer \/ Read \/ CallClose \/ Close

Spec == Init /\ [][Next]_vars

\* Goroutines that are runnable run, a timer that is armed fires, and the clock
\* reaches the deadline.
FairSpec == Spec /\ WF_vars(Flush) /\ WF_vars(Start) /\ WF_vars(Timer)
                 /\ WF_vars(DeadlinePasses) /\ WF_vars(Close)

-----------------------------------------------------------------------------
(* Properties *)

\* The connection as a stream of frames.
Stream == INSTANCE FrameStream
            WITH Bytes <- Bytes,
                 state <- IF broken THEN "broken"
                          ELSE IF closed THEN "closed" ELSE "open"

\* writeBytes and flush implement the stream: whatever mix of direct writes,
\* partial writes and backlog a frame meets, bytes reach the socket in the
\* order they were accepted, none twice, none missing in between.
IsStream == Stream!StreamSpec

\* Nothing accepted stays behind on an open connection: a backlog is drained,
\* or the connection is closed, without waiting for another Send.
BacklogDrains == Len(wire) < Len(accepted) ~> (wire = accepted \/ broken \/ closed)

\* A connection does not outlive its client: one that never completes the
\* handshake, or stops answering pings, is closed.
SilentConnEnds ==
  /\ (timer # "none") ~> (shook \/ closed)
  /\ (silent > 0) ~> (silent = 0 \/ closed)

\* However it was called, and by however many, Close comes to its end and the
\* registry gets the connection back.
CloseReleases == closing = "called" ~> releases = 1
=============================================================================
