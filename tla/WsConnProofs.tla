---------------------------- MODULE WsConnProofs ----------------------------
(***************************************************************************)
(* The write path of WsConn implements FrameStream, and its state stays    *)
(* well typed and bounded, for every set of frame sizes, every             *)
(* maxPendingBytes and every number of frames.                             *)
(*                                                                         *)
(* The argument: one flush goroutine runs at a time, flushing says whether *)
(* one does, and nothing is queued without one.  So the bytes accepted are *)
(* those on the wire, then those the goroutine holds, then those queued,   *)
(* then those Close dropped from the queue.                                *)
(***************************************************************************)
EXTENDS WsConn, SequenceTheorems, TLAPS

-----------------------------------------------------------------------------
(* Sequences of bytes *)

\* Concatenation stays in the type and groups either way.
LEMMA Assoc ==
  ASSUME NEW S, NEW s \in Seq(S), NEW t \in Seq(S), NEW u \in Seq(S)
  PROVE  /\ s \o t \in Seq(S) /\ Len(s \o t) = Len(s) + Len(t)
         /\ (s \o t) \o u = s \o (t \o u)
BY ConcatProperties, ConcatAssociative

\* The empty sequence is its unit.
LEMMA Unit ==
  ASSUME NEW S, NEW s \in Seq(S)
  PROVE  s \o << >> = s /\ << >> \o s = s /\ << >> \in Seq(S)
BY ConcatEmptySeq

\* What is appended leaves the front alone.
LEMMA ConcatPrefix ==
  ASSUME NEW S, NEW s \in Seq(S), NEW t \in Seq(S)
  PROVE  /\ s \o t \in Seq(S)
         /\ IsPrefix(s, s \o t)
         /\ t # << >> => IsStrictPrefix(s, s \o t)
<1>1. s \o t \in Seq(S) /\ Len(s \o t) = Len(s) + Len(t)
  BY ConcatProperties
<1>2. IsPrefix(s, s \o t)
  BY <1>1 DEF IsPrefix
<1>3. t # << >> => s # s \o t
  BY ConcatEqualIffEmpty
<1> QED
  BY <1>1, <1>2, <1>3 DEF IsStrictPrefix

\* A short write splits a frame without loss.
LEMMA Split ==
  ASSUME NEW S, NEW s \in Seq(S), NEW n \in 0..Len(s)
  PROVE  /\ SubSeq(s, 1, n) \in Seq(S) /\ SubSeq(s, n + 1, Len(s)) \in Seq(S)
         /\ s = SubSeq(s, 1, n) \o SubSeq(s, n + 1, Len(s))
         /\ Len(SubSeq(s, n + 1, Len(s))) = Len(s) - n
<1>1. 1 \in 1..(Len(s) + 1) /\ n \in (1 - 1)..Len(s) /\ Len(s) \in n..Len(s)
  OBVIOUS
<1>2. SubSeq(s, 1, n) \o SubSeq(s, n + 1, Len(s)) = SubSeq(s, 1, Len(s))
  BY <1>1, ConcatAdjacentSubSeq
<1>3. SubSeq(s, 1, Len(s)) = s
  BY SubSeqFull
<1>4. \A i \in 1..Len(s) : s[i] \in S
  BY ElementOfSeq
<1>5. SubSeq(s, 1, n) \in Seq(S)
  BY <1>4, SubSeqProperties
<1>6. /\ SubSeq(s, n + 1, Len(s)) \in Seq(S)
      /\ Len(SubSeq(s, n + 1, Len(s))) = IF n + 1 <= Len(s) THEN Len(s) - (n + 1) + 1 ELSE 0
  BY <1>4, SubSeqProperties
<1>7. Len(SubSeq(s, n + 1, Len(s))) = Len(s) - n
  <2>1. Len(s) \in Nat /\ n \in Nat /\ n <= Len(s)
    OBVIOUS
  <2> QED
    BY <1>6, <2>1
<1> QED
  BY <1>2, <1>3, <1>5, <1>6, <1>7

\* One byte leaves a buffer at its front.
LEMMA FirstByte ==
  ASSUME NEW S, NEW s \in Seq(S), s # << >>
  PROVE  /\ <<Head(s)>> \in Seq(S) /\ Tail(s) \in Seq(S)
         /\ s = <<Head(s)>> \o Tail(s)
         /\ Len(Tail(s)) = Len(s) - 1
<1>1. Head(s) \in S /\ Tail(s) \in Seq(S) /\ Len(Tail(s)) = Len(s) - 1
  BY HeadTailProperties
<1>2. Len(s) \in Nat \ {0}
  BY EmptySeq
<1>3. <<Head(s)>> \o Tail(s) = s
  <2>1. 1 \in 1..Len(s) /\ Len(s) \in 1..Len(s)
    BY <1>2
  <2>2. SubSeq(s, 1, Len(s)) = <<s[1]>> \o SubSeq(s, 1 + 1, Len(s))
    BY <2>1, SubSeqRecursiveFirst
  <2>3. Tail(s) = SubSeq(s, 2, Len(s)) /\ SubSeq(s, 1, Len(s)) = s
    BY TailIsSubSeq, SubSeqFull
  <2>4. Head(s) = s[1]
    OBVIOUS
  <2> QED
    BY <2>2, <2>3, <2>4
<1> QED
  BY <1>1, <1>3
-----------------------------------------------------------------------------
(* The inductive invariant *)

WriteTypes ==
  /\ accepted \in Seq(Bytes) /\ wire \in Seq(Bytes) /\ out \in Seq(Bytes)
  /\ broken \in BOOLEAN /\ flushing \in BOOLEAN /\ closed \in BOOLEAN
  /\ nFrames \in 0..MaxFrames
  /\ flusher \in [Flushers -> Flusher]
  /\ Len(out) <= MaxPendingBytes
  /\ \A k \in Flushers : Len(flusher[k].buf) <= MaxPendingBytes

\* One goroutine drains, and only it may leave something in the queue.
OneFlusher ==
  /\ \A k \in Flushers : flusher[k].at = "writing" <=> flusher[k].buf # << >>
  /\ flushing <=> \E k \in Flushers : flusher[k].at # "none"
  /\ \A k, l \in Flushers : k # l => flusher[k].at = "none" \/ flusher[l].at = "none"
  /\ out # << >> => flushing
  /\ closed => out = << >>

\* What the flush goroutine, whichever it is, has taken and not yet written.
InFlight == flusher[1].buf \o flusher[2].buf

\* Until a write fails, nothing is missing between the wire and the queue.
NothingMissing ==
  ~broken => \E dropped \in Seq(Bytes) :
               /\ accepted = wire \o (InFlight \o (out \o dropped))
               /\ ~closed => dropped = << >>

WriteInv == WriteTypes /\ OneFlusher /\ NothingMissing

ControlInv ==
  /\ closing \in CloseStep
  /\ timer \in {"none", "armed", "fired", "stopped"}
  /\ ticking \in BOOLEAN /\ due \in BOOLEAN /\ shook \in BOOLEAN
  /\ silent \in 0..(MissedPongs + 1)
  /\ releases = IF closing = "released" THEN 1 ELSE 0

StreamStep == [Stream!StreamNext]_(Stream!streamVars)

\* The invariant is what the type invariant says, and more.
LEMMA InvTypes == WriteInv /\ ControlInv => TypeOK
BY DEF WriteInv, WriteTypes, ControlInv, TypeOK

\* Nobody flushes: nothing is on its way.
LEMMA Quiet ==
  ASSUME WriteInv, ~MustQueue
  PROVE  /\ out = << >> /\ InFlight = << >> /\ \A k \in Flushers : flusher[k] = NotFlushing
         /\ ~broken /\ ~closed => accepted = wire
<1>1. out = << >> /\ ~flushing
  BY DEF MustQueue
<1>2. \A k \in Flushers : /\ flusher[k].at = "none" /\ flusher[k].buf = << >>
                          /\ flusher[k] \in Flusher
  BY <1>1 DEF WriteInv, OneFlusher, WriteTypes
<1>3. \A k \in Flushers : flusher[k] = NotFlushing
  BY <1>2 DEF Flusher, NotFlushing
<1>4. InFlight = << >>
  BY <1>2 DEF InFlight, Flushers
<1>5. ASSUME ~broken, ~closed PROVE accepted = wire
  <2>1. accepted = wire \o (<< >> \o (<< >> \o << >>))
    BY <1>1, <1>4, <1>5 DEF WriteInv, NothingMissing
  <2>2. wire \in Seq(Bytes)
    BY DEF WriteInv, WriteTypes
  <2> QED
    BY <2>1, <2>2
<1> QED
  BY <1>1, <1>3, <1>4, <1>5

\* A frame is a nonempty sequence of bytes.
LEMMA FrameFacts ==
  ASSUME WriteTypes, NEW size \in Nat \ {0}, nFrames < MaxFrames
  PROVE  /\ FrameOf(size) \in Seq(Bytes) /\ FrameOf(size) # << >>
         /\ Len(FrameOf(size)) = size
<1>1. nFrames + 1 \in Bytes
  BY WsConnAssumption DEF WriteTypes, Bytes
<1>2. FrameOf(size) \in [1..size -> Bytes]
  BY <1>1 DEF FrameOf
<1>3. FrameOf(size) \in Seq(Bytes) /\ Len(FrameOf(size)) = size
  BY <1>2
<1> QED
  BY <1>3

\* While one goroutine drains, the bytes it holds are InFlight.
LEMMA FlightOf ==
  ASSUME WriteInv, NEW k \in Flushers, flusher[k].at # "none"
  PROVE  /\ InFlight = flusher[k].buf /\ flusher[k].buf \in Seq(Bytes)
         /\ flusher[k] \in Flusher /\ flushing
         /\ \A l \in Flushers \ {k} : flusher[l].at = "none" /\ flusher[l].buf = << >>
<1>1. \A l \in Flushers : flusher[l] \in Flusher /\ flusher[l].buf \in Seq(Bytes)
  BY DEF WriteInv, WriteTypes, Flusher
<1>2. \A l \in Flushers \ {k} : flusher[l].at = "none" /\ flusher[l].buf = << >>
  BY DEF WriteInv, OneFlusher
<1>3. InFlight = flusher[k].buf
  <2>0. flusher[k].buf \o << >> = flusher[k].buf /\ << >> \o flusher[k].buf = flusher[k].buf
    BY <1>1, Unit
  <2>1. CASE k = 1
    <3>1. flusher[2].buf = << >>
      BY <1>2, <2>1 DEF Flushers
    <3> QED
      BY <2>0, <2>1, <3>1 DEF InFlight
  <2>2. CASE k = 2
    <3>1. flusher[1].buf = << >>
      BY <1>2, <2>2 DEF Flushers
    <3> QED
      BY <2>0, <2>2, <3>1 DEF InFlight
  <2> QED
    BY <2>1, <2>2 DEF Flushers
<1> QED
  BY <1>1, <1>2, <1>3 DEF WriteInv, OneFlusher

\* The prefix order of the stream is the one of this module.
LEMMA SamePrefix ==
  \A s, t : /\ IsPrefix(s, t) <=> Stream!IsPrefix(s, t)
            /\ IsStrictPrefix(s, t) <=> Stream!IsStrictPrefix(s, t)
BY DEF IsPrefix, IsStrictPrefix, Stream!IsPrefix, Stream!IsStrictPrefix

\* In the stream's terms: a frame is accepted while the connection is open, and
\* what is on the wire stays a prefix of what was accepted.
LEMMA AcceptStep ==
  ASSUME WriteTypes, ~broken, ~closed, broken' = broken, closed' = closed,
         NEW f \in Seq(Bytes), f # << >>, accepted' = accepted \o f,
         NEW w \in Seq(Bytes), wire' = wire \o w,
         NEW r \in Seq(Bytes), accepted' = wire' \o r
  PROVE  StreamStep
<1>1. accepted' \in Seq(Bytes) /\ IsStrictPrefix(accepted, accepted')
  BY ConcatPrefix DEF WriteTypes
<1>2. wire' \in Seq(Bytes) /\ IsPrefix(wire, wire')
  BY ConcatPrefix DEF WriteTypes
<1>3. IsPrefix(wire', accepted')
  BY <1>2, ConcatPrefix
<1>4. Stream!Accept
  BY <1>1, <1>2, <1>3, SamePrefix DEF Stream!Accept
<1> QED
  BY <1>4 DEF StreamStep, Stream!StreamNext

\* Steps the stream does not see.
LEMMA StutterStep ==
  ASSUME UNCHANGED <<accepted, wire, broken>>, broken \/ closed' = closed
  PROVE  StreamStep
BY DEF StreamStep, Stream!streamVars

\* A failed write ends the stream.
LEMMA BreakStep ==
  ASSUME WriteTypes, UNCHANGED <<accepted, wire>>, broken' = TRUE, closed' = closed
  PROVE  StreamStep
BY DEF StreamStep, Stream!StreamNext, Stream!EndStream, Stream!streamVars, WriteTypes

\* writeBytes takes a frame: behind the queue, or straight to the socket when
\* nobody is writing.
LEMMA WriteTakes ==
  ASSUME WriteInv, NEW size \in Nat \ {0}, size <= MaxPendingBytes,
         writeBytes(size), closed' = closed
  PROVE  WriteInv' /\ StreamStep
<1> DEFINE f == FrameOf(size)
<1>0. /\ ~closed /\ nFrames < MaxFrames /\ nFrames' = nFrames + 1 /\ broken' = broken
      /\ Enqueue(f) \/ WriteAll(f) \/ \E n \in 0..(size - 1) : WriteShort(f, n)
  BY DEF writeBytes, NextFrame
<1>1. f \in Seq(Bytes) /\ f # << >> /\ Len(f) = size /\ WriteTypes
  BY <1>0, FrameFacts DEF WriteInv
<1>2. nFrames' \in 0..MaxFrames /\ MaxPendingBytes \in Nat
  BY <1>0, <1>1, WsConnAssumption DEF WriteTypes
<1> HIDE DEF f
<1>3. CASE Enqueue(f)
  <2>1. /\ out' = out \o f /\ UNCHANGED <<flushing, flusher>>
        /\ Record(f, << >>) /\ Len(out) + Len(f) <= MaxPendingBytes /\ MustQueue
    BY <1>1, <1>2, <1>3 DEF Enqueue, BacklogFull, WriteTypes
  <2>2. out' \in Seq(Bytes) /\ Len(out') <= MaxPendingBytes /\ out' # << >>
    <3>1. out \in Seq(Bytes)
      BY <1>1 DEF WriteTypes
    <3>2. out \o f \in Seq(Bytes) /\ Len(out \o f) = Len(out) + Len(f)
      BY <1>1, <3>1, Assoc
    <3>3. Len(out \o f) > 0
      BY <1>1, <3>1, <3>2
    <3> QED
      BY <2>1, <3>2, <3>3
  <2>3. flushing
    BY <2>1 DEF MustQueue, WriteInv, OneFlusher
  <2>4. CASE broken
    <3>1. UNCHANGED <<accepted, wire>>
      BY <2>1, <2>4 DEF Record
    <3>2. WriteTypes' /\ OneFlusher'
      BY <1>0, <1>1, <1>2, <2>1, <2>2, <2>3, <3>1 DEF WriteInv, WriteTypes, OneFlusher
    <3> QED
      BY <1>0, <2>4, <3>1, <3>2, StutterStep DEF WriteInv, NothingMissing
  <2>5. CASE ~broken
    <3>1. accepted' = accepted \o f /\ wire' = wire \o << >>
      BY <2>1, <2>5 DEF Record
    <3>2. /\ wire \in Seq(Bytes) /\ InFlight \in Seq(Bytes) /\ out \in Seq(Bytes)
          /\ accepted \in Seq(Bytes)
      BY <1>1, ConcatProperties DEF WriteTypes, InFlight, Flusher, Flushers
    <3>3. accepted = wire \o (InFlight \o (out \o << >>))
      BY <1>0, <2>5 DEF WriteInv, NothingMissing
    <3>4. accepted' = wire \o (InFlight \o (out' \o << >>))
      <4>1. out \o << >> = out /\ out' \o << >> = out'
        BY <2>2, <3>2, Unit
      <4>2. ASSUME NEW x \in Seq(Bytes)
            PROVE  (wire \o (x \o out)) \o f = wire \o (x \o (out \o f))
        <5>1. f \in Seq(Bytes) /\ wire \in Seq(Bytes) /\ out \in Seq(Bytes)
          BY <1>1, <3>2
        <5>2. x \o out \in Seq(Bytes)
          BY <5>1, Assoc
        <5>3. (wire \o (x \o out)) \o f = wire \o ((x \o out) \o f)
          <6> DEFINE y == x \o out
          <6>1. wire \in Seq(Bytes) /\ y \in Seq(Bytes) /\ f \in Seq(Bytes)
            BY <5>1, <5>2
          <6> HIDE DEF y
          <6>2. (wire \o y) \o f = wire \o (y \o f)
            BY <6>1, Assoc
          <6> QED
            BY <6>2 DEF y
        <5>4. (x \o out) \o f = x \o (out \o f)
          BY <5>1, Assoc
        <5> QED
          BY <5>3, <5>4
      <4> QED
        BY <2>1, <3>1, <3>2, <3>3, <4>1, <4>2
    <3>5. InFlight' = InFlight /\ wire' = wire /\ accepted' \in Seq(Bytes)
      BY <1>1, <2>1, <3>1, <3>2, ConcatEmptySeq, ConcatProperties DEF InFlight
    <3>6. NothingMissing'
      BY <3>2, <3>4, <3>5, Unit DEF NothingMissing
    <3>7. WriteTypes' /\ OneFlusher'
      BY <1>0, <1>1, <1>2, <2>1, <2>2, <2>3, <3>5 DEF WriteInv, WriteTypes, OneFlusher
    <3>8. StreamStep
      <4>1. InFlight \o out' \in Seq(Bytes) /\ << >> \in Seq(Bytes) /\ out' \o << >> = out'
        BY <2>2, <3>2, Assoc, Unit
      <4>2. accepted' = wire' \o (InFlight \o out')
        BY <3>4, <3>5, <4>1
      <4> QED
        BY <1>0, <1>1, <2>5, <3>1, <4>1, <4>2, AcceptStep
    <3> QED
      BY <3>6, <3>7, <3>8 DEF WriteInv
  <2> QED
    BY <2>4, <2>5
<1>4. CASE WriteAll(f)
  <2>1. Record(f, f) /\ UNCHANGED <<out, flushing, flusher>> /\ ~MustQueue
    BY <1>4 DEF WriteAll
  <2>2. CASE broken
    <3>1. UNCHANGED <<accepted, wire>>
      BY <2>1, <2>2 DEF Record
    <3>2. WriteTypes' /\ OneFlusher'
      BY <1>0, <1>1, <1>2, <2>1, <3>1 DEF WriteInv, WriteTypes, OneFlusher
    <3> QED
      BY <1>0, <2>2, <3>1, <3>2, StutterStep DEF WriteInv, NothingMissing
  <2>3. CASE ~broken
    <3>1. accepted' = accepted \o f /\ wire' = wire \o f /\ accepted = wire
      BY <1>0, <2>1, <2>3, Quiet DEF Record
    <3>2. accepted' \in Seq(Bytes) /\ wire' = accepted' /\ << >> \in Seq(Bytes)
      BY <1>1, <3>1, ConcatProperties DEF WriteTypes
    <3>3. accepted' = wire' \o << >>
      BY <3>2, ConcatEmptySeq
    <3>4. InFlight' = << >> /\ out' = << >>
      BY <2>1, Quiet DEF InFlight
    <3>5. NothingMissing'
      <4>1. InFlight' \o (out' \o << >>) = << >>
        BY <3>2, <3>4, Unit
      <4> QED
        BY <3>2, <3>3, <4>1 DEF NothingMissing
    <3>6. WriteTypes' /\ OneFlusher'
      BY <1>0, <1>1, <1>2, <2>1, <3>2 DEF WriteInv, WriteTypes, OneFlusher
    <3> QED
      BY <1>0, <1>1, <2>3, <3>1, <3>2, <3>3, <3>5, <3>6, AcceptStep DEF WriteInv
  <2> QED
    BY <2>2, <2>3
<1>5. ASSUME NEW n \in 0..(size - 1), WriteShort(f, n) PROVE WriteInv' /\ StreamStep
  <2> DEFINE w == SubSeq(f, 1, n)
             r == SubSeq(f, n + 1, Len(f))
  <2>0. n \in 0..Len(f)
    BY <1>1
  <2>1. /\ w \in Seq(Bytes) /\ r \in Seq(Bytes) /\ f = w \o r /\ Len(r) = size - n
    BY <1>1, <2>0, Split
  <2>2. /\ Record(f, w) /\ out' = out \o r /\ flushing' = TRUE /\ ~MustQueue
        /\ \E k \in Flushers : flusher' = [flusher EXCEPT ![k].at = "loop"]
    BY <1>5 DEF WriteShort
  <2>3. PICK k \in Flushers : flusher' = [flusher EXCEPT ![k].at = "loop"]
    BY <2>2
  <2> HIDE DEF w, r
  <2>4. out' = r /\ Len(r) <= MaxPendingBytes /\ out = << >>
    BY <1>1, <1>2, <2>1, <2>2, Quiet, ConcatEmptySeq
  <2>5. \A l \in Flushers : /\ flusher'[l].buf = << >>
                            /\ flusher'[l].at = IF l = k THEN "loop" ELSE "none"
                            /\ flusher'[l] \in Flusher
    <3>1. \A l \in Flushers : /\ flusher[l] = NotFlushing /\ NotFlushing \in Flusher
                              /\ flusher'[l] = IF l = k THEN [NotFlushing EXCEPT !.at = "loop"]
                                                        ELSE NotFlushing
      BY <1>1, <2>2, <2>3, Quiet DEF WriteTypes
    <3>2. [NotFlushing EXCEPT !.at = "loop"] = [at |-> "loop", buf |-> << >>]
      BY DEF NotFlushing
    <3>3. [at |-> "loop", buf |-> << >>] \in Flusher /\ NotFlushing \in Flusher
      BY DEF Flusher, NotFlushing
    <3> QED
      BY <3>1, <3>2, <3>3 DEF NotFlushing
  <2>6. flusher' \in [Flushers -> Flusher]
    BY <1>1, <2>3, <2>5 DEF WriteTypes
  <2>7. OneFlusher'
    BY <1>0, <2>2, <2>5 DEF OneFlusher
  <2>8. InFlight' = << >>
    BY <2>5 DEF InFlight, Flushers
  <2>9. CASE broken
    <3>1. UNCHANGED <<accepted, wire>>
      BY <2>2, <2>9 DEF Record
    <3>2. WriteTypes'
      BY <1>0, <1>1, <1>2, <2>1, <2>2, <2>4, <2>5, <2>6, <3>1 DEF WriteTypes
    <3> QED
      BY <1>0, <2>7, <2>9, <3>1, <3>2, StutterStep DEF WriteInv, NothingMissing
  <2>10. CASE ~broken
    <3>1. accepted' = accepted \o f /\ wire' = wire \o w /\ accepted = wire
      BY <1>0, <2>2, <2>10, Quiet DEF Record
    <3>2. accepted' \in Seq(Bytes) /\ wire' \in Seq(Bytes)
      BY <1>1, <2>1, <3>1, ConcatProperties DEF WriteTypes
    <3>3. accepted' = wire' \o r
      <4>1. wire \in Seq(Bytes)
        BY <1>1 DEF WriteTypes
      <4>2. (wire \o w) \o r = wire \o (w \o r)
        BY <2>1, <4>1, Assoc
      <4> QED
        BY <2>1, <3>1, <4>2
    <3>4. WriteTypes'
      BY <1>0, <1>1, <1>2, <2>1, <2>2, <2>4, <2>5, <2>6, <3>2 DEF WriteTypes
    <3>5. NothingMissing'
      <4>1. InFlight' \o (out' \o << >>) = r /\ << >> \in Seq(Bytes)
        BY <2>1, <2>4, <2>8, ConcatEmptySeq
      <4> QED
        BY <3>3, <4>1 DEF NothingMissing
    <3>6. StreamStep
      BY <1>0, <1>1, <2>1, <2>10, <3>1, <3>3, AcceptStep
    <3> QED
      BY <2>7, <3>4, <3>5, <3>6 DEF WriteInv
  <2> QED
    BY <2>9, <2>10
<1> QED
  BY <1>0, <1>3, <1>4, <1>5

\* writeBytes fails: the queue is full, or the socket is.
LEMMA WriteErrs ==
  ASSUME WriteInv, NEW size, writeBytesErr(size), closed' = closed
  PROVE  WriteInv' /\ StreamStep
<1>1. /\ nFrames < MaxFrames /\ nFrames' = nFrames + 1
      /\ UNCHANGED <<accepted, wire, out, flushing, flusher>>
      /\ broken' = broken \/ broken' = TRUE
  BY DEF writeBytesErr, NextFrame
<1>2. WriteTypes'
  <2>1. nFrames' \in 0..MaxFrames
    BY <1>1, WsConnAssumption DEF WriteInv, WriteTypes
  <2>2. broken' \in BOOLEAN
    BY <1>1 DEF WriteInv, WriteTypes
  <2> QED
    BY <1>1, <2>1, <2>2 DEF WriteInv, WriteTypes
<1>3. OneFlusher'
  BY <1>1 DEF WriteInv, OneFlusher
<1>4. NothingMissing'
  <2>1. InFlight' = InFlight
    BY <1>1 DEF InFlight
  <2>2. CASE broken' = TRUE
    BY <2>2 DEF NothingMissing
  <2>3. CASE broken' = broken
    BY <1>1, <2>1, <2>3 DEF WriteInv, NothingMissing
  <2> QED
    BY <1>1, <2>2, <2>3
<1>5. StreamStep
  BY <1>1, StutterStep, BreakStep DEF WriteInv
<1> QED
  BY <1>2, <1>3, <1>4, <1>5 DEF WriteInv

\* Nothing of the write path changes.
LEMMA WriteIdle ==
  ASSUME WriteInv, UNCHANGED <<writeVars, closed>>
  PROVE  WriteInv' /\ StreamStep
<1>1. UNCHANGED <<accepted, wire, broken, nFrames, out, flushing, flusher, closed>>
  BY DEF writeVars, streamVars
<1>2. WriteTypes' /\ OneFlusher'
  BY <1>1 DEF WriteInv, WriteTypes, OneFlusher
<1>3. NothingMissing'
  <2>1. InFlight' = InFlight
    BY <1>1 DEF InFlight
  <2>2. CASE broken
    BY <1>1, <2>2 DEF NothingMissing
  <2>3. CASE ~broken
    <3>1. PICK d \in Seq(Bytes) : /\ accepted = wire \o (InFlight \o (out \o d))
                                  /\ ~closed => d = << >>
      BY <2>3 DEF WriteInv, NothingMissing
    <3>2. /\ accepted' = wire' \o (InFlight' \o (out' \o d))
          /\ ~closed' => d = << >>
      BY <1>1, <2>1, <3>1
    <3> QED
      BY <3>2 DEF NothingMissing
  <2> QED
    BY <2>2, <2>3
<1> QED
  BY <1>1, <1>2, <1>3, StutterStep DEF WriteInv

\* The goroutine that drains changes what it holds.
LEMMA NewFlight ==
  ASSUME WriteInv, NEW k \in Flushers, flusher[k].at # "none",
         NEW v \in Flusher, flusher' = [flusher EXCEPT ![k] = v]
  PROVE  /\ InFlight' = v.buf /\ flusher' \in [Flushers -> Flusher]
         /\ flusher'[k] = v
         /\ \A l \in Flushers \ {k} : flusher'[l].at = "none" /\ flusher'[l].buf = << >>
<1>1. \A l \in Flushers \ {k} : flusher[l].at = "none" /\ flusher[l].buf = << >>
  BY FlightOf
<1>2. /\ flusher' \in [Flushers -> Flusher] /\ flusher'[k] = v
      /\ \A l \in Flushers \ {k} : flusher'[l].at = "none" /\ flusher'[l].buf = << >>
  BY <1>1 DEF WriteInv, WriteTypes
<1>3. v.buf \o << >> = v.buf /\ << >> \o v.buf = v.buf
  <2>1. v.buf \in Seq(Bytes)
    BY DEF Flusher
  <2> QED
    BY <2>1, Unit
<1>4. InFlight' = v.buf
  <2>1. CASE k = 1
    <3>1. flusher'[2].buf = << >>
      BY <1>2, <2>1 DEF Flushers
    <3> QED
      BY <1>2, <1>3, <2>1, <3>1 DEF InFlight
  <2>2. CASE k = 2
    <3>1. flusher'[1].buf = << >>
      BY <1>2, <2>2 DEF Flushers
    <3> QED
      BY <1>2, <1>3, <2>2, <3>1 DEF InFlight
  <2> QED
    BY <2>1, <2>2 DEF Flushers
<1> QED
  BY <1>2, <1>4

\* The goroutine takes the queue, or ends because there is none.
LEMMA FlushLoopStep ==
  ASSUME WriteInv, NEW k \in Flushers, FlushLoop(k)
  PROVE  WriteInv' /\ StreamStep
<1>1. /\ flusher[k].at = "loop" /\ flusher[k].buf = << >> /\ InFlight = << >>
      /\ UNCHANGED <<accepted, wire, broken, nFrames, closed>>
  BY FlightOf DEF FlushLoop, streamVars, WriteInv, OneFlusher
<1>2. StreamStep
  BY <1>1, StutterStep
<1>3. CASE closed \/ out = << >>
  <2>1. /\ flushing' = FALSE /\ out' = out
        /\ flusher' = [flusher EXCEPT ![k] = NotFlushing]
    BY <1>3 DEF FlushLoop
  <2>2. out = << >>
    BY <1>3 DEF WriteInv, OneFlusher
  <2>3. NotFlushing \in Flusher /\ NotFlushing.at = "none" /\ NotFlushing.buf = << >>
    BY DEF NotFlushing, Flusher
  <2>4. /\ InFlight' = InFlight /\ flusher' \in [Flushers -> Flusher]
        /\ \A l \in Flushers : flusher'[l].at = "none" /\ flusher'[l].buf = << >>
    BY <1>1, <2>1, <2>3, NewFlight
  <2>5. WriteTypes'
    BY <1>1, <2>1, <2>4, WsConnAssumption DEF WriteInv, WriteTypes
  <2>6. OneFlusher'
    BY <2>1, <2>2, <2>4 DEF OneFlusher
  <2>7. NothingMissing'
    BY <1>1, <2>1, <2>4 DEF WriteInv, NothingMissing
  <2> QED
    BY <1>2, <2>5, <2>6, <2>7 DEF WriteInv
<1>4. CASE ~(closed \/ out = << >>)
  <2> DEFINE v == [at |-> "writing", buf |-> out]
  <2>1. /\ flushing' = flushing /\ out' = << >>
        /\ flusher' = [flusher EXCEPT ![k] = v]
    BY <1>4 DEF FlushLoop
  <2>2. v \in Flusher /\ v.at = "writing" /\ v.buf = out /\ out \in Seq(Bytes)
    BY DEF WriteInv, WriteTypes, Flusher
  <2> HIDE DEF v
  <2>3. /\ InFlight' = out /\ flusher' \in [Flushers -> Flusher] /\ flusher'[k] = v
        /\ \A l \in Flushers \ {k} : flusher'[l].at = "none" /\ flusher'[l].buf = << >>
    BY <1>1, <2>1, <2>2, NewFlight
  <2>4. flushing
    BY <1>1, FlightOf
  <2>5. WriteTypes'
    <3>1. \A l \in Flushers : Len(flusher'[l].buf) <= MaxPendingBytes
      BY <2>2, <2>3, WsConnAssumption DEF WriteInv, WriteTypes
    <3> QED
      BY <1>1, <2>1, <2>3, <3>1, WsConnAssumption DEF WriteInv, WriteTypes
  <2>6. OneFlusher'
    BY <1>4, <2>1, <2>2, <2>3, <2>4 DEF OneFlusher
  <2>7. NothingMissing'
    <3> SUFFICES ASSUME ~broken
                 PROVE  accepted' = wire' \o (InFlight' \o (out' \o << >>))
      <4>1. << >> \in Seq(Bytes)
        OBVIOUS
      <4> QED
        BY <1>1, <4>1 DEF NothingMissing
    <3>1. accepted = wire \o (<< >> \o (out \o << >>))
      BY <1>1, <1>4 DEF WriteInv, NothingMissing
    <3>2. out \o << >> = out /\ << >> \o out = out
      BY <2>2, Unit
    <3> QED
      BY <1>1, <2>1, <2>3, <3>1, <3>2
  <2> QED
    BY <1>2, <2>5, <2>6, <2>7 DEF WriteInv
<1> QED
  BY <1>3, <1>4

\* A byte leaves: it is the next one due.
LEMMA FlushWriteStep ==
  ASSUME WriteInv, NEW k \in Flushers, FlushWrite(k)
  PROVE  WriteInv' /\ StreamStep
<1> DEFINE buf == flusher[k].buf
           h   == <<Head(buf)>>
           t   == Tail(buf)
           v   == [at |-> IF Len(buf) = 1 THEN "loop" ELSE "writing", buf |-> t]
<1>1. /\ flusher[k].at = "writing" /\ Record(<< >>, h)
      /\ flusher' = [flusher EXCEPT ![k] = v]
      /\ UNCHANGED <<broken, nFrames, out, flushing, closed>>
  BY DEF FlushWrite
<1>2. /\ buf \in Seq(Bytes) /\ buf # << >> /\ InFlight = buf /\ flushing
      /\ Len(buf) <= MaxPendingBytes
  BY <1>1, FlightOf DEF WriteInv, WriteTypes, OneFlusher
<1>3. h \in Seq(Bytes) /\ t \in Seq(Bytes) /\ buf = h \o t /\ Len(t) = Len(buf) - 1
  BY <1>2, FirstByte
<1>4. h # << >>
  OBVIOUS
<1>5. v \in Flusher /\ v.buf = t /\ v.at # "none" /\ (v.at = "writing" <=> t # << >>)
  <2>1. Len(buf) = 1 <=> t = << >>
    <3>1. t = << >> <=> Len(t) = 0
      BY <1>3, EmptySeq
    <3>2. Len(buf) \in Nat
      BY <1>2
    <3> HIDE DEF t, buf
    <3> QED
      BY <1>3, <3>1, <3>2
  <2> QED
    BY <1>3, <2>1 DEF Flusher
<1> HIDE DEF v, h, t, buf
<1>6. /\ InFlight' = t /\ flusher' \in [Flushers -> Flusher] /\ flusher'[k] = v
      /\ \A l \in Flushers \ {k} : flusher'[l].at = "none" /\ flusher'[l].buf = << >>
  BY <1>1, <1>5, NewFlight
<1>7. OneFlusher'
  BY <1>1, <1>2, <1>5, <1>6 DEF WriteInv, OneFlusher
<1>8. \A l \in Flushers : Len(flusher'[l].buf) <= MaxPendingBytes
  BY <1>2, <1>3, <1>5, <1>6, WsConnAssumption
<1>9. CASE broken
  <2>1. UNCHANGED <<accepted, wire>>
    BY <1>1, <1>9 DEF Record
  <2>2. WriteTypes'
    BY <1>1, <1>6, <1>8, <2>1 DEF WriteInv, WriteTypes
  <2> QED
    BY <1>1, <1>7, <1>9, <2>1, <2>2, StutterStep DEF WriteInv, NothingMissing
<1>10. CASE ~broken
  <2>1. accepted' = accepted \o << >> /\ wire' = wire \o h
    BY <1>1, <1>10 DEF Record
  <2>2. accepted \in Seq(Bytes) /\ wire \in Seq(Bytes) /\ out \in Seq(Bytes)
    BY DEF WriteInv, WriteTypes
  <2>3. accepted' = accepted /\ wire' \in Seq(Bytes)
    BY <1>3, <2>1, <2>2, Unit, Assoc
  <2>4. PICK d \in Seq(Bytes) : /\ accepted = wire \o (buf \o (out \o d))
                                /\ ~closed => d = << >>
    BY <1>2, <1>10 DEF WriteInv, NothingMissing
  <2>5. out \o d \in Seq(Bytes)
    BY <2>2, <2>4, Assoc
  <2>6. accepted' = wire' \o (t \o (out' \o d)) /\ t \o (out \o d) \in Seq(Bytes)
    <3>1. (h \o t) \o (out \o d) = h \o (t \o (out \o d)) /\ t \o (out \o d) \in Seq(Bytes)
      BY <1>3, <2>5, Assoc, SMTT(30)
    <3>2. (wire \o h) \o (t \o (out \o d)) = wire \o (h \o (t \o (out \o d)))
      <4> DEFINE z == t \o (out \o d)
      <4>1. wire \in Seq(Bytes) /\ h \in Seq(Bytes) /\ z \in Seq(Bytes)
        BY <1>3, <2>2, <3>1
      <4> HIDE DEF z
      <4>2. (wire \o h) \o z = wire \o (h \o z)
        BY <4>1, Assoc
      <4> QED
        BY <4>2 DEF z
    <3> QED
      BY <1>1, <1>3, <2>1, <2>3, <2>4, <3>1, <3>2
  <2>7. NothingMissing'
    BY <1>1, <1>6, <2>4, <2>6 DEF NothingMissing
  <2>8. WriteTypes'
    BY <1>1, <1>6, <1>8, <2>2, <2>3 DEF WriteInv, WriteTypes
  <2>9. Stream!Transmit
    <3>1. IsStrictPrefix(wire, wire')
      BY <1>3, <1>4, <2>1, <2>2, ConcatPrefix
    <3>2. IsPrefix(wire', accepted)
      <4>1. accepted = wire' \o (t \o (out \o d))
        BY <1>1, <2>3, <2>6
      <4> QED
        BY <2>3, <2>6, <4>1, ConcatPrefix
    <3> QED
      BY <1>1, <1>10, <2>3, <3>1, <3>2, SamePrefix DEF Stream!Transmit
  <2> QED
    BY <1>7, <2>7, <2>8, <2>9 DEF WriteInv, StreamStep, Stream!StreamNext
<1> QED
  BY <1>9, <1>10

\* A failed write drops what was queued.
LEMMA FlushFailsStep ==
  ASSUME WriteInv, NEW k \in Flushers, FlushFails(k)
  PROVE  WriteInv' /\ StreamStep
<1>1. /\ flusher[k].at = "writing" /\ flushing' = FALSE /\ out' = << >> /\ broken' = TRUE
      /\ flusher' = [flusher EXCEPT ![k] = NotFlushing]
      /\ UNCHANGED <<accepted, wire, nFrames, closed>>
  BY DEF FlushFails
<1>2. NotFlushing \in Flusher /\ NotFlushing.at = "none" /\ NotFlushing.buf = << >>
  BY DEF NotFlushing, Flusher
<1>3. /\ flusher' \in [Flushers -> Flusher]
      /\ \A l \in Flushers : flusher'[l].at = "none" /\ flusher'[l].buf = << >>
  BY <1>1, <1>2, NewFlight
<1>4. WriteTypes'
  <2>1. Len(<< >>) <= MaxPendingBytes /\ << >> \in Seq(Bytes)
    BY WsConnAssumption
  <2>2. \A l \in Flushers : Len(flusher'[l].buf) <= MaxPendingBytes
    BY <1>3, <2>1
  <2> QED
    BY <1>1, <1>3, <2>1, <2>2 DEF WriteInv, WriteTypes
<1>5. OneFlusher' /\ NothingMissing'
  BY <1>1, <1>3 DEF OneFlusher, NothingMissing
<1> QED
  BY <1>1, <1>4, <1>5, BreakStep DEF WriteInv

\* Close drops the queue, and ends acceptance.
LEMMA CloseMarkStep ==
  ASSUME WriteInv, CloseMark
  PROVE  WriteInv' /\ StreamStep
<1>1. /\ closed' = TRUE /\ out' = << >>
      /\ UNCHANGED <<accepted, wire, broken, nFrames, flushing, flusher>>
  BY DEF CloseMark, streamVars
<1>2. WriteTypes' /\ OneFlusher' /\ InFlight' = InFlight
  BY <1>1, WsConnAssumption DEF WriteInv, WriteTypes, OneFlusher, InFlight
<1>3. NothingMissing'
  <2> SUFFICES ASSUME ~broken
               PROVE  \E d \in Seq(Bytes) : accepted = wire \o (InFlight \o (<< >> \o d))
    BY <1>1, <1>2 DEF NothingMissing
  <2>1. PICK d \in Seq(Bytes) : accepted = wire \o (InFlight \o (out \o d))
    BY DEF WriteInv, NothingMissing
  <2>2. out \o d \in Seq(Bytes)
    BY <2>1, Assoc DEF WriteInv, WriteTypes
  <2>3. << >> \o (out \o d) = out \o d
    BY <2>2, Unit
  <2> QED
    BY <2>1, <2>2, <2>3
<1>4. StreamStep
  <2>1. CASE broken
    BY <1>1, <2>1, StutterStep
  <2>2. CASE ~broken
    BY <1>1, <2>2 DEF StreamStep, Stream!StreamNext, Stream!EndStream, WriteInv, WriteTypes
  <2> QED
    BY <2>1, <2>2
<1> QED
  BY <1>2, <1>3, <1>4 DEF WriteInv

-----------------------------------------------------------------------------
(* Every step *)

\* writeBytes in any of its callers.
LEMMA WriteStep ==
  ASSUME WriteInv, NEW size \in Nat \ {0}, size <= MaxPendingBytes, closed' = closed,
         writeBytes(size) \/ writeBytesErr(size) \/ UNCHANGED writeVars
  PROVE  WriteInv' /\ StreamStep
<1>1. CASE writeBytes(size)
  BY <1>1, WriteTakes
<1>2. CASE writeBytesErr(size)
  BY <1>2, WriteErrs
<1>3. CASE UNCHANGED writeVars
  BY <1>3, WriteIdle
<1> QED
  BY <1>1, <1>2, <1>3

\* A ping, a pong, an error response and a close frame are one byte here.
LEMMA SmallFrame == 1 \in Nat \ {0} /\ 1 <= MaxPendingBytes
BY WsConnAssumption

\* Every step of the connection is a step of the stream or leaves it alone, and
\* keeps the write path in order.
LEMMA WritePreserved ==
  ASSUME WriteInv, [Next]_vars
  PROVE  WriteInv' /\ StreamStep
<1>1. ASSUME NEW size \in Sizes, Send(size) PROVE WriteInv' /\ StreamStep
  <2>1. size \in Nat \ {0} /\ size <= MaxPendingBytes
    BY WsConnAssumption
  <2> QED
    BY <1>1, <2>1, WriteStep DEF Send
<1>2. CASE Flush
  BY <1>2, FlushLoopStep, FlushWriteStep, FlushFailsStep DEF Flush
<1>3. CASE Start
  BY <1>3, WriteIdle DEF Start, rest
<1>4. CASE Fire \/ FiredEarly \/ DeadlinePasses \/ Reschedule
  BY <1>4, WriteIdle DEF Fire, FiredEarly, DeadlinePasses, Reschedule, rest
<1>5. CASE HandshakeTimeout
  BY <1>5, SmallFrame, WriteStep DEF HandshakeTimeout, NoFrame
<1>6. CASE KeepaliveTimeout
  BY <1>6, WriteIdle DEF KeepaliveTimeout
<1>7. CASE Ping
  BY <1>7, SmallFrame, WriteStep DEF Ping, NoFrame
<1>8. CASE Read
  BY <1>8, WriteIdle DEF Read, rest
<1>9. CASE CallClose
  BY <1>9, WriteIdle DEF CallClose
<1>10. CASE CloseFrame
  BY <1>10, SmallFrame, WriteStep DEF CloseFrame, NoFrame
<1>11. CASE CloseMark
  BY <1>11, CloseMarkStep
<1>12. CASE CloseRest
  BY <1>12, WriteIdle DEF CloseRest
<1>13. CASE UNCHANGED vars
  BY <1>13, WriteIdle DEF vars
<1> QED
  BY <1>1, <1>2, <1>3, <1>4, <1>5, <1>6, <1>7, <1>8, <1>9, <1>10, <1>11, <1>12, <1>13
     DEF Next, Timer, Close

\* Close starts once.
LEMMA CalledFacts ==
  ASSUME ControlInv
  PROVE  Called \in CloseStep /\ (Called = "released" <=> closing = "released")
BY DEF ControlInv, Called, CloseStep

\* The timer, the reader and Close keep their types; release runs once.
LEMMA ControlPreserved ==
  ASSUME ControlInv, [Next]_vars
  PROVE  ControlInv'
<1>1. ASSUME NEW size \in Sizes, Send(size) PROVE ControlInv'
  BY <1>1, CalledFacts DEF Send, ControlInv, timerVars
<1>2. ASSUME NEW k \in Flushers, FlushLoop(k) \/ FlushWrite(k) PROVE ControlInv'
  BY <1>2 DEF FlushLoop, FlushWrite, ControlInv, timerVars
<1>3. ASSUME NEW k \in Flushers, FlushFails(k) PROVE ControlInv'
  BY <1>3, CalledFacts DEF FlushFails, ControlInv, timerVars
<1>4. CASE Start
  BY <1>4 DEF Start, rest, ControlInv
<1>5. CASE Fire
  BY <1>5, WsConnAssumption DEF Fire, rest, ControlInv
<1>5a. CASE FiredEarly \/ DeadlinePasses
  BY <1>5a DEF FiredEarly, DeadlinePasses, rest, ControlInv
<1>6. CASE HandshakeTimeout
  BY <1>6, CalledFacts DEF HandshakeTimeout, ControlInv
<1>7. CASE KeepaliveTimeout
  BY <1>7, CalledFacts DEF KeepaliveTimeout, ControlInv
<1>8. CASE Ping
  BY <1>8, CalledFacts DEF Ping, ControlInv
<1>9. CASE Reschedule
  BY <1>9 DEF Reschedule, rest, ControlInv
<1>10. CASE Read
  <2>1. /\ silent' = 0 /\ shook' \in {shook, TRUE} /\ due' = (due /\ ~shook')
        /\ UNCHANGED <<closing, releases, timer, ticking>>
    BY <1>10 DEF Read, rest
  <2>2. shook' \in BOOLEAN /\ due' \in BOOLEAN
    BY <2>1 DEF ControlInv
  <2>3. 0 \in 0..(MissedPongs + 1)
    BY WsConnAssumption
  <2> QED
    BY <2>1, <2>2, <2>3 DEF ControlInv
<1>11. CASE CallClose
  BY <1>11 DEF CallClose, ControlInv, timerVars, CloseStep
<1>12. CASE CloseFrame
  BY <1>12 DEF CloseFrame, ControlInv, timerVars, CloseStep
<1>13. CASE CloseMark
  <2>1. /\ closing = "framed" /\ closing' = "marked"
        /\ timer' \in {timer, "stopped"} /\ UNCHANGED <<ticking, due, shook, silent, releases>>
    BY <1>13 DEF CloseMark
  <2> QED
    BY <2>1 DEF ControlInv, CloseStep
<1>14. CASE CloseRest
  <2>1. UNCHANGED <<timer, ticking, due, shook, silent>>
    BY <1>14 DEF CloseRest, timerVars
  <2>2. closing' \in CloseStep /\ releases' = IF closing' = "released" THEN 1 ELSE 0
    <3>1. CASE closing = "marked"
      BY <1>14, <3>1 DEF CloseRest, CloseStep, ControlInv
    <3>2. CASE closing = "unwatched"
      BY <1>14, <3>2 DEF CloseRest, CloseStep, ControlInv
    <3>3. CASE closing = "shut"
      BY <1>14, <3>3 DEF CloseRest, CloseStep, ControlInv
    <3> QED
      BY <1>14, <3>1, <3>2, <3>3 DEF CloseRest
  <2> QED
    BY <2>1, <2>2 DEF ControlInv
<1>15. CASE UNCHANGED vars
  BY <1>15 DEF vars, timerVars, ControlInv
<1> QED
  BY <1>1, <1>2, <1>3, <1>4, <1>5, <1>5a, <1>6, <1>7, <1>8, <1>9, <1>10, <1>11, <1>12,
     <1>13, <1>14, <1>15 DEF Next, Timer, Close, Flush

\* A new connection: nothing accepted, nobody flushing.
LEMMA InitInv == Init => WriteInv /\ ControlInv /\ Stream!StreamInit
<1> SUFFICES ASSUME Init PROVE WriteInv /\ ControlInv /\ Stream!StreamInit
  OBVIOUS
<1>1. \A k \in Flushers : flusher[k].at = "none" /\ flusher[k].buf = << >>
  BY DEF Init, NotFlushing
<1>2. WriteTypes
  <2>1. flusher \in [Flushers -> Flusher]
    BY DEF Init, NotFlushing, Flusher
  <2> QED
    <3>1. Len(<< >>) <= MaxPendingBytes /\ << >> \in Seq(Bytes) /\ 0 \in 0..MaxFrames
      BY WsConnAssumption
    <3>2. \A k \in Flushers : Len(flusher[k].buf) <= MaxPendingBytes
      BY <1>1, <3>1
    <3> QED
      BY <2>1, <3>1, <3>2 DEF Init, WriteTypes
<1>3. OneFlusher
  BY <1>1 DEF Init, OneFlusher
<1>4. InFlight = << >>
  BY <1>1 DEF InFlight, Flushers
<1>5. NothingMissing
  <2>1. accepted = wire \o (InFlight \o (out \o << >>)) /\ << >> \in Seq(Bytes)
    BY <1>4 DEF Init
  <2> QED
    BY <2>1 DEF NothingMissing
<1>6. ControlInv
  <2>1. 0 \in 0..(MissedPongs + 1)
    BY WsConnAssumption
  <2> QED
    BY <2>1 DEF Init, ControlInv, CloseStep
<1>7. Stream!StreamInit
  BY DEF Init, Stream!StreamInit
<1> QED
  BY <1>2, <1>3, <1>5, <1>6, <1>7 DEF WriteInv

\* The state of a connection stays well typed and within its bounds: neither
\* the queue nor what flush holds grows past maxPendingBytes, and release runs
\* at most once, whoever calls Close.
THEOREM ConnTypes == Spec => []TypeOK
<1>1. WriteInv /\ ControlInv /\ [Next]_vars => (WriteInv /\ ControlInv)'
  BY WritePreserved, ControlPreserved
<1> QED
  BY <1>1, InitInv, InvTypes, PTL DEF Spec

\* Send, flush and Close implement the stream of frames: bytes reach the socket
\* in the order writeBytes accepted them, none twice and none missing.
THEOREM ConnIsStream == Spec => IsStream
<1>1. WriteInv /\ [Next]_vars => WriteInv' /\ [Stream!StreamNext]_(Stream!streamVars)
  BY WritePreserved DEF StreamStep
<1> QED
  BY <1>1, InitInv, PTL DEF Spec, IsStream, Stream!StreamSpec
=============================================================================
