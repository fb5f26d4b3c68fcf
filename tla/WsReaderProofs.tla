--------------------------- MODULE WsReaderProofs ---------------------------
(***************************************************************************)
(* The read path dispatches exactly what was sent, for any frames, any cut *)
(* of their bytes into reads and any limit: first that what is still to be *)
(* parsed is always the frames behind those that were, then that the state *)
(* of a fragmented message is the one the reference definition gives.      *)
(***************************************************************************)
EXTENDS WsReader, SequenceTheorems, FiniteSetTheorems, WellFoundedInduction, TLAPS

-----------------------------------------------------------------------------
(* The inductive invariant *)

SentUnit == [frame : 1..Len(sent), i : Nat]

SentEvent == [first : 0..MaxSent, last : 1..Len(sent), stop : BOOLEAN]

Frag == [on : BOOLEAN, kind : {"none", "text", "fatal", "binary"},
         start : 0..MaxSent, len : 0..MaxFrameLen]

\* What is read and parsed was sent, and a message being put together has a
\* kind.
TypeInv ==
  /\ sent \in Seq(Frames) /\ Len(sent) <= MaxSent
  /\ kernel \in Seq(SentUnit) /\ rbuf \in Seq(SentUnit) /\ cur \in Seq(SentUnit)
  /\ eof \in BOOLEAN /\ polled \in BOOLEAN /\ armed \in BOOLEAN
  /\ full \in BOOLEAN /\ pending \in BOOLEAN
  /\ watched \in {"no", "added", "yes"}
  /\ reader \in [Readers -> ReaderAt]
  /\ frag \in Frag /\ (frag.on => frag.kind # "none")
  /\ events \in Seq(SentEvent)
  /\ closing \in {"no", "marked", "unwatched", "shut"}

\* rmu is held by one goroutine at a time.
OneHolder == \A k, l \in Readers : HoldsRmu(k) /\ HoldsRmu(l) => k = l

\* What the goroutine that parses, or the next one to do so, has before it.
Rest == (IF \E k \in Readers : reader[k] = "parse" THEN cur ELSE rbuf) \o kernel

\* Unit v comes behind unit u.
Follows(s, u, v) ==
  v = IF u.i <= s[u.frame].len THEN [frame |-> u.frame, i |-> u.i + 1]
      ELSE [frame |-> u.frame + 1, i |-> 1]

\* q is the units of the frames of s behind the first n.
Aligned(s, q, n) ==
  /\ q = << >> <=> n = Len(s)
  /\ q # << >> => /\ q[1] = [frame |-> n + 1, i |-> 1]
                  /\ q[Len(q)] = [frame |-> Len(s), i |-> 1 + s[Len(s)].len]
  /\ \A j \in 1..(Len(q) - 1) : Follows(s, q[j], q[j + 1])

\* g is fragged, msgOp and msg after the first n frames.
FragOK(s, n, g) ==
  IF InMessage(s, n + 1)
  THEN /\ g.on /\ g.kind = s[FirstOf(s, n)].kind /\ g.start = FirstOf(s, n)
       /\ IsFiniteSet(Payload(s, n)) /\ g.len = Cardinality(Payload(s, n))
  ELSE g = NoFrag

\* The events of the first n frames.
Done(s, n) == UNION {EventsOf(s, i) : i \in 1..n}

InOrder(evs) == \A i, j \in DOMAIN evs : i < j => Precedes(evs[i], evs[j])

\* n frames are parsed.
Parsed(n) ==
  /\ Aligned(sent, Rest, n)
  /\ FragOK(sent, n, frag)
  /\ Range(events) = Done(sent, n)
  /\ InOrder(events)

Stopped(evs) == \E i \in DOMAIN evs : evs[i].stop

ReadInv == OneHolder /\ (~Stopped(events) => \E n \in 0..Len(sent) : Parsed(n))

-----------------------------------------------------------------------------
(* Types *)

LEMMA FrameTypes ==
  ASSUME NEW f \in Frames
  PROVE  /\ f.kind \in {"text", "fatal", "binary", "cont", "ping", "pong", "close", "bad"}
         /\ f.fin \in BOOLEAN /\ f.len \in Nat
BY WsReaderAssumption

LEMMA TypeInvImplies == TypeInv => TypeOK
<1> SUFFICES ASSUME TypeInv PROVE TypeOK
  OBVIOUS
<1>1. Len(sent) \in 0..MaxSent /\ 1..Len(sent) \subseteq 1..MaxSent
  BY WsReaderAssumption DEF TypeInv
<1>2. SentUnit \subseteq Unit /\ SentEvent \subseteq Event
  BY <1>1 DEF SentUnit, Unit, SentEvent, Event
<1>3. kernel \in Seq(Unit) /\ rbuf \in Seq(Unit) /\ cur \in Seq(Unit) /\ events \in Seq(Event)
  BY <1>2, SeqMonotonic DEF TypeInv
<1> QED
  BY <1>3 DEF TypeInv, TypeOK, Frag

\* The units of a frame.
LEMMA FrameUnitsAre ==
  ASSUME NEW f \in Frames, NEW n \in Nat
  PROVE  /\ FrameUnits(n, f) \in Seq([frame : {n}, i : Nat])
         /\ Len(FrameUnits(n, f)) = 1 + f.len
         /\ \A i \in 1..(1 + f.len) : FrameUnits(n, f)[i] = [frame |-> n, i |-> i]
<1> DEFINE m == 1 + f.len
           S == [frame : {n}, i : Nat]
<1>1. m \in Nat
  BY FrameTypes
<1>2. \A i \in 1..m : [frame |-> n, i |-> i] \in S
  BY <1>1
<1>3. FrameUnits(n, f) = [i \in 1..m |-> [frame |-> n, i |-> i]]
  BY DEF FrameUnits
<1> HIDE DEF m, S
<1>4. FrameUnits(n, f) \in [1..m -> S]
  BY <1>2, <1>3
<1>5. FrameUnits(n, f) \in Seq(S) /\ Len(FrameUnits(n, f)) = m
  BY <1>1, <1>4
<1> QED
  BY <1>3, <1>5 DEF m, S

LEMMA TypeInit == Init => TypeInv
<1> SUFFICES ASSUME Init PROVE TypeInv
  OBVIOUS
<1>1. PICK n \in Pipelined, f \in Frames :
        /\ n <= 1 + f.len
        /\ sent = IF n = 0 THEN << >> ELSE <<f>>
        /\ rbuf = SubSeq(FrameUnits(1, f), 1, n)
        /\ kernel = IF n = 0 THEN << >> ELSE SubSeq(FrameUnits(1, f), n + 1, 1 + f.len)
  BY DEF Init
<1>2. n \in Nat /\ f.len \in Nat /\ MaxSent \in Nat \ {0} /\ MaxFrameLen \in Nat
  BY <1>1, FrameTypes, WsReaderAssumption
<1>3. sent \in Seq(Frames) /\ Len(sent) <= MaxSent /\ Len(sent) = IF n = 0 THEN 0 ELSE 1
  BY <1>1, <1>2
<1>4. rbuf \in Seq(SentUnit) /\ kernel \in Seq(SentUnit)
  <2>1. CASE n = 0
    <3>1. rbuf = << >> /\ kernel = << >>
      BY <1>1, <1>2, <2>1, SubSeqEmpty
    <3> QED
      BY <3>1
  <2>2. CASE n # 0
    <3>1. Len(sent) = 1
      BY <1>3, <2>2
    <3>2. \A i \in 1..(1 + f.len) : FrameUnits(1, f)[i] \in SentUnit
      <4>1. \A i \in 1..(1 + f.len) : FrameUnits(1, f)[i] = [frame |-> 1, i |-> i]
        <5>1. 1 \in Nat
          OBVIOUS
        <5> QED
          BY <5>1, FrameUnitsAre
      <4>2. \A i \in 1..(1 + f.len) : [frame |-> 1, i |-> i] \in SentUnit
        BY <1>2, <3>1 DEF SentUnit
      <4> QED
        BY <4>1, <4>2
    <3>3. \A i \in 1..n : FrameUnits(1, f)[i] \in SentUnit
      BY <1>1, <1>2, <3>2
    <3>4. \A i \in (n + 1)..(1 + f.len) : FrameUnits(1, f)[i] \in SentUnit
      BY <1>1, <1>2, <3>2
    <3> QED
      BY <1>1, <1>2, <2>2, <3>3, <3>4, SubSeqProperties
  <2> QED
    BY <2>1, <2>2
<1> QED
  <2>1. frag \in Frag /\ ~frag.on
    BY <1>2 DEF Init, NoFrag, Frag
  <2>2. reader \in [Readers -> ReaderAt]
    BY DEF Init, ReaderAt
  <2>3. events \in Seq(SentEvent) /\ cur \in Seq(SentUnit)
    BY DEF Init
  <2> QED
    BY <1>3, <1>4, <2>1, <2>2, <2>3 DEF Init, TypeInv

\* Steps that move no unit and parse nothing.
LEMMA TypeControl ==
  ASSUME TypeInv, UNCHANGED <<sent, kernel, rbuf, cur, frag, events>>,
         eof' \in BOOLEAN, polled' \in BOOLEAN, armed' \in BOOLEAN,
         full' \in BOOLEAN, pending' \in BOOLEAN, watched' \in {"no", "added", "yes"},
         reader' \in [Readers -> ReaderAt], closing' \in {"no", "marked", "unwatched", "shut"}
  PROVE  TypeInv'
BY DEF TypeInv, SentUnit, SentEvent

LEMMA StartTypes ==
  ASSUME reader \in [Readers -> ReaderAt], NEW k \in Readers, Start(k)
  PROVE  reader' \in [Readers -> ReaderAt]
BY DEF Start, ReaderAt

LEMMA ClientSendsTypes ==
  ASSUME TypeInv, NEW f \in Frames, ClientSends(f)
  PROVE  TypeInv'
<1>1. /\ sent' = Append(sent, f) /\ Len(sent) \in Nat /\ Len(sent') = Len(sent) + 1
      /\ sent' \in Seq(Frames) /\ Len(sent) < MaxSent /\ MaxSent \in Nat
  BY WsReaderAssumption DEF TypeInv, ClientSends
<1>2. SentUnit \subseteq SentUnit' /\ SentEvent \subseteq SentEvent'
  BY <1>1 DEF SentUnit, SentEvent
<1>3. /\ kernel \in Seq(SentUnit') /\ rbuf' \in Seq(SentUnit') /\ cur' \in Seq(SentUnit')
      /\ events' \in Seq(SentEvent')
  BY <1>2, SeqMonotonic DEF TypeInv, ClientSends, readVars
<1>4. FrameUnits(Len(sent) + 1, f) \in Seq(SentUnit')
  <2> DEFINE S == [frame : {Len(sent) + 1}, i : Nat]
  <2>1. S \subseteq SentUnit'
    BY <1>1 DEF SentUnit
  <2>2. FrameUnits(Len(sent) + 1, f) \in Seq(S)
    BY <1>1, FrameUnitsAre
  <2> HIDE DEF S
  <2> QED
    BY <2>1, <2>2, SeqMonotonic
<1>5. kernel' \in Seq(SentUnit')
  BY <1>3, <1>4 DEF ClientSends
<1> QED
  BY <1>1, <1>3, <1>5 DEF TypeInv, ClientSends, readVars, pollVars

LEMMA PollTypes ==
  ASSUME TypeInv, ClientCloses \/ Watch \/ ServePending \/ Deliver \/ CallClose \/ CloseRest
  PROVE  TypeInv'
<1> USE DEF readVars, pollVars
<1>1. CASE ClientCloses
  BY <1>1, TypeControl DEF ClientCloses, TypeInv
<1>2. CASE Watch
  <2>1. 1 \in Readers
    BY DEF Readers
  <2>2. CASE Start(1) /\ watched' = "yes" /\ UNCHANGED <<polled, armed, pending>>
    BY <1>2, <2>1, <2>2, TypeControl, StartTypes DEF Watch, TypeInv
  <2>3. CASE /\ polled' = TRUE /\ armed' = TRUE /\ watched' = "added"
             /\ pending' = (rbuf # << >>) /\ UNCHANGED reader
    <3>1. pending' \in BOOLEAN
      BY <2>3
    <3> QED
      BY <1>2, <2>3, <3>1, TypeControl DEF Watch, TypeInv
  <2> QED
    BY <1>2, <2>2, <2>3 DEF Watch
<1>3. CASE ServePending
  BY <1>3, TypeControl, StartTypes DEF ServePending, TypeInv
<1>4. CASE Deliver
  BY <1>4, TypeControl, StartTypes DEF Deliver, TypeInv
<1>5. CASE CallClose
  BY <1>5, TypeControl DEF CallClose, TypeInv
<1>6. CASE CloseRest
  BY <1>6, TypeControl DEF CloseRest, TypeInv
<1> QED
  BY <1>1, <1>2, <1>3, <1>4, <1>5, <1>6

LEMMA EnterCloseTypes ==
  ASSUME TypeInv, NEW k \in Readers, EnterClose(k)
  PROVE  /\ reader' \in [Readers -> ReaderAt]
         /\ closing' \in {"no", "marked", "unwatched", "shut"}
BY DEF EnterClose, TypeInv, ReaderAt

LEMMA ReadTypes ==
  ASSUME TypeInv, NEW k \in Readers,
         Lock(k) \/ ReadSome(k) \/ ReadNothing(k) \/ ReadFails(k) \/ LeaveClose(k)
           \/ CheckClosed(k) \/ Rearm(k) \/ RearmFails(k)
  PROVE  TypeInv'
<1> USE DEF readVars, pollVars
<1>1. CASE Lock(k)
  <2>1. reader' \in [Readers -> ReaderAt] /\ cur' = rbuf
    BY <1>1 DEF Lock, TypeInv, ReaderAt
  <2> QED
    BY <1>1, <2>1 DEF Lock, TypeInv, SentUnit, SentEvent
<1>2. CASE ReadSome(k)
  <2>1. PICK n \in 1..ReadChunk :
          /\ n <= Len(kernel)
          /\ kernel' = SubSeq(kernel, n + 1, Len(kernel))
          /\ cur' = rbuf \o SubSeq(kernel, 1, n)
          /\ rbuf' = IF rbuf = << >> THEN rbuf ELSE rbuf \o SubSeq(kernel, 1, n)
          /\ full' = (n = ReadChunk)
          /\ reader' = [reader EXCEPT ![k] = "parse"]
          /\ UNCHANGED <<sent, eof, pollVars, frag, events, closing>>
    BY <1>2 DEF ReadSome
  <2>2. n \in Nat /\ Len(kernel) \in Nat /\ \A i \in 1..Len(kernel) : kernel[i] \in SentUnit
    BY <2>1, WsReaderAssumption, ElementOfSeq DEF TypeInv
  <2>3. SubSeq(kernel, 1, n) \in Seq(SentUnit) /\ kernel' \in Seq(SentUnit)
    BY <2>1, <2>2, SubSeqProperties
  <2>4. cur' \in Seq(SentUnit) /\ rbuf' \in Seq(SentUnit)
    <3> DEFINE a == SubSeq(kernel, 1, n)
    <3>1. a \in Seq(SentUnit) /\ rbuf \in Seq(SentUnit)
      BY <2>3 DEF TypeInv
    <3>2. cur' = rbuf \o a /\ (rbuf' = rbuf \/ rbuf' = rbuf \o a)
      BY <2>1
    <3> HIDE DEF a
    <3>3. rbuf \o a \in Seq(SentUnit)
      BY <3>1, ConcatProperties
    <3> QED
      BY <3>1, <3>2, <3>3
  <2>5. reader' \in [Readers -> ReaderAt] /\ full' \in BOOLEAN /\ SentUnit' = SentUnit
        /\ SentEvent' = SentEvent
    BY <2>1 DEF TypeInv, ReaderAt, SentUnit, SentEvent
  <2> QED
    BY <2>1, <2>3, <2>4, <2>5 DEF TypeInv
<1>3. CASE ReadNothing(k)
  BY <1>3, TypeControl DEF ReadNothing, TypeInv, ReaderAt
<1>4. CASE ReadFails(k)
  BY <1>4, TypeControl, EnterCloseTypes DEF ReadFails, TypeInv
<1>5. CASE LeaveClose(k)
  BY <1>5, TypeControl DEF LeaveClose, TypeInv, ReaderAt
<1>6. CASE CheckClosed(k)
  BY <1>6, TypeControl DEF CheckClosed, TypeInv, ReaderAt
<1>7. CASE Rearm(k)
  BY <1>7, TypeControl DEF Rearm, TypeInv, ReaderAt, Rearms
<1>8. CASE RearmFails(k)
  BY <1>8, TypeControl DEF RearmFails, TypeInv, ReaderAt
<1> QED
  BY <1>1, <1>2, <1>3, <1>4, <1>5, <1>6, <1>7, <1>8

\* The frame at the head of what is parsed was sent.
LEMMA HeadSent ==
  ASSUME TypeInv, cur # << >>
  PROVE  /\ HeadNo \in 1..Len(sent) /\ HeadFrame \in Frames /\ HeadFrame = sent[HeadNo]
         /\ Len(cur) \in Nat \ {0} /\ HeadNo = cur[1].frame
<1>1. Head(cur) \in SentUnit /\ Head(cur) = cur[1] /\ Len(cur) \in Nat \ {0}
  BY DEF TypeInv
<1>2. Head(cur).frame \in 1..Len(sent)
  BY <1>1 DEF SentUnit
<1> QED
  BY <1>1, <1>2 DEF HeadNo, HeadFrame, TypeInv

\* What is left behind a frame.
LEMMA RestTypes ==
  ASSUME TypeInv, NEW m \in Nat
  PROVE  SubSeq(cur, m + 2, Len(cur)) \in Seq(SentUnit)
<1>1. Len(cur) \in Nat /\ \A i \in (m + 2)..Len(cur) : cur[i] \in SentUnit
  BY ElementOfSeq DEF TypeInv
<1> QED
  BY <1>1, SubSeqProperties

LEMMA ParseTypes ==
  ASSUME TypeInv, NEW k \in Readers,
         RefuseFrame(k) \/ TakeFrame(k) \/ Dispatch(k) \/ EndConsume(k)
  PROVE  TypeInv'
<1> USE DEF readVars, pollVars
<1>0. MaxSent \in Nat \ {0} /\ MaxFrameLen \in Nat /\ Len(sent) \in 0..MaxSent
  BY WsReaderAssumption DEF TypeInv
<1>1. CASE RefuseFrame(k)
  <2>1. /\ cur # << >> /\ EnterClose(k)
        /\ events' = events \o <<[first |-> 0, last |-> HeadNo, stop |-> TRUE]>>
        /\ UNCHANGED <<sent, kernel, eof, pollVars, frag, cur, full, rbuf>>
    BY <1>1 DEF RefuseFrame, Stop
  <2>2. [first |-> 0, last |-> HeadNo, stop |-> TRUE] \in SentEvent
    BY <1>0, <2>1, HeadSent DEF SentEvent
  <2>3. events' \in Seq(SentEvent) /\ SentEvent' = SentEvent /\ SentUnit' = SentUnit
    BY <2>1, <2>2 DEF TypeInv, SentEvent, SentUnit
  <2> QED
    BY <2>1, <2>3, EnterCloseTypes DEF TypeInv
<1>2. CASE TakeFrame(k)
  <2> DEFINE f == HeadFrame
  <2>1. cur # << >> /\ ~Refused(f) /\ cur' = SubSeq(cur, f.len + 2, Len(cur))
        /\ UNCHANGED <<sent, kernel, eof, pollVars, reader, rbuf, full, events, closing>>
    BY <1>2 DEF TakeFrame
  <2>2. f \in Frames /\ f.len \in Nat /\ HeadNo \in 1..MaxSent
    BY <1>0, <2>1, HeadSent, FrameTypes
  <2>3. frag' \in Frag /\ (frag'.on => frag'.kind # "none")
    <3>1. CASE UNCHANGED frag
      BY <3>1 DEF TypeInv
    <3>2. CASE IsData(f) /\ frag' = [on |-> TRUE, kind |-> f.kind, start |-> HeadNo, len |-> f.len]
      BY <1>0, <2>1, <2>2, <3>2 DEF Refused, EarlyRefusal, IsData, Frag
    <3>3. CASE f.kind = "cont" /\ frag' = [frag EXCEPT !.len = @ + f.len]
      <4>1. frag.len + f.len <= MaxFrameLen
        BY <1>0, <2>1, <2>2, <3>3 DEF Refused, TooLong, TypeInv, Frag
      <4>2. frag.len + f.len \in 0..MaxFrameLen
        BY <1>0, <2>2, <4>1 DEF TypeInv, Frag
      <4> QED
        BY <3>3, <4>2 DEF TypeInv, Frag
    <3> QED
      BY <1>2, <3>1, <3>2, <3>3 DEF TakeFrame
  <2>4. cur' \in Seq(SentUnit) /\ SentEvent' = SentEvent /\ SentUnit' = SentUnit
    BY <2>1, <2>2, RestTypes DEF SentEvent, SentUnit
  <2> QED
    BY <2>1, <2>3, <2>4 DEF TypeInv
<1>3. CASE Dispatch(k)
  <2> DEFINE f     == HeadFrame
             first == IF f.kind = "cont" THEN frag.start ELSE HeadNo
             kind  == IF f.kind = "cont" THEN frag.kind ELSE f.kind
             msg   == [first |-> first, last |-> HeadNo, stop |-> FALSE]
             stop  == [first |-> 0, last |-> HeadNo, stop |-> TRUE]
  <2>1. /\ cur # << >> /\ ~Refused(f) /\ (IsData(f) \/ f.kind = "cont")
        /\ frag' = IF f.kind = "cont" THEN NoFrag ELSE frag
        /\ UNCHANGED <<sent, kernel, eof, pollVars>>
    BY <1>3 DEF Dispatch, Unfragged
  <2>2. f \in Frames /\ f.len \in Nat /\ HeadNo \in 1..Len(sent)
    BY <1>0, <2>1, HeadSent, FrameTypes
  <2>3. kind \in {"text", "fatal", "binary"}
    BY <2>1 DEF Refused, IsData, TypeInv, Frag
  <2>4. msg \in SentEvent /\ stop \in SentEvent
    BY <1>0, <2>2 DEF SentEvent, TypeInv, Frag
  <2>5. frag' \in Frag /\ (frag'.on => frag'.kind # "none")
    BY <1>0, <2>1 DEF NoFrag, TypeInv, Frag
  <2>6. SentEvent' = SentEvent /\ SentUnit' = SentUnit
    BY <2>1 DEF SentEvent, SentUnit
  <2>7. CASE kind = "text"
    <3>1. /\ events' = Append(events, msg)
          /\ cur' = SubSeq(cur, f.len + 2, Len(cur))
          /\ UNCHANGED <<rbuf, full, reader, closing>>
      BY <1>3, <2>7 DEF Dispatch
    <3>2. events' \in Seq(SentEvent) /\ cur' \in Seq(SentUnit)
      BY <2>2, <2>4, <3>1, RestTypes DEF TypeInv
    <3> QED
      BY <2>1, <2>5, <2>6, <3>1, <3>2 DEF TypeInv
  <2>8. CASE kind # "text"
    <3>1. /\ events' = events \o <<msg, stop>> \/ events' = events \o <<stop>>
          /\ EnterClose(k) /\ UNCHANGED <<cur, full, rbuf>>
      BY <1>3, <2>3, <2>8 DEF Dispatch, Stop
    <3>2. events' \in Seq(SentEvent)
      <4>1. <<msg, stop>> \in Seq(SentEvent) /\ <<stop>> \in Seq(SentEvent)
        BY <2>4
      <4> QED
        <5>1. \A t \in Seq(SentEvent) : events \o t \in Seq(SentEvent)
          BY DEF TypeInv
        <5> QED
          BY <3>1, <4>1, <5>1
    <3> QED
      BY <2>1, <2>5, <2>6, <3>1, <3>2, EnterCloseTypes DEF TypeInv
  <2> QED
    BY <2>7, <2>8
<1>4. CASE EndConsume(k)
  <2>1. /\ rbuf' = cur /\ cur' = << >> /\ reader' \in [Readers -> ReaderAt]
        /\ UNCHANGED <<sent, kernel, eof, pollVars, full, frag, events, closing>>
    BY <1>4 DEF EndConsume, TypeInv, ReaderAt
  <2> QED
    BY <2>1 DEF TypeInv, SentEvent, SentUnit
<1> QED
  BY <1>1, <1>2, <1>3, <1>4

LEMMA TypeStep == TypeInv /\ [Next]_vars => TypeInv'
<1> SUFFICES ASSUME TypeInv, [Next]_vars PROVE TypeInv'
  OBVIOUS
<1>1. CASE UNCHANGED vars
  BY <1>1, TypeControl DEF vars, readVars, pollVars, TypeInv
<1>2. CASE Next
  BY <1>2, ClientSendsTypes, PollTypes, ReadTypes, ParseTypes DEF Next, Transport, Serve
<1> QED
  BY <1>1, <1>2

\* The state of a connection's reader stays well typed, however its bytes are
\* cut and however many goroutines serve it; a message that is put together
\* from fragments never grows past maxFrame.
THEOREM ReaderTypes == Spec => []TypeOK
BY TypeInit, TypeStep, TypeInvImplies, PTL DEF Spec

-----------------------------------------------------------------------------
(* The reference definition, frame by frame *)

LEMMA MaxIs ==
  ASSUME NEW S, NEW m \in S, S \subseteq Int, \A y \in S : m >= y
  PROVE  Max(S) = m
<1>1. \E x \in S : \A y \in S : x >= y
  OBVIOUS
<1>2. Max(S) \in S /\ \A y \in S : Max(S) >= y
  BY <1>1 DEF Max
<1>3. Max(S) \in Int /\ m \in Int /\ Max(S) >= m /\ m >= Max(S)
  BY <1>2
<1> QED
  BY <1>3

StopAt(i) == [first |-> 0, last |-> i, stop |-> TRUE]

MessageOf(a, i) == [first |-> a, last |-> i, stop |-> FALSE]

\* What a message of frames a to i calls for.
Ending(a, kind, i) ==
  CASE kind = "text" -> {MessageOf(a, i)}
    [] kind = "fatal" -> {MessageOf(a, i), StopAt(i)}
    [] kind = "binary" -> {StopAt(i)}

LEMMA EventsAre ==
  ASSUME NEW s, NEW i
  PROVE  EventsOf(s, i) = IF Breaks(s, i) THEN {StopAt(i)}
                          ELSE IF ~EndsMessage(s, i) THEN {}
                          ELSE Ending(FirstOf(s, i), s[FirstOf(s, i)].kind, i)
BY Zenon DEF EventsOf, Ending, StopAt, MessageOf

\* The frames of a message so far, and what they carry.
Pieces(s, a, b) == {m \in a..b : IsData(s[m]) \/ s[m].kind = "cont"}

Carried(s, M) == UNION {{m} \X (1..s[m].len) : m \in M}

LEMMA PayloadIs ==
  ASSUME NEW s, NEW i
  PROVE  Payload(s, i) = Carried(s, Pieces(s, FirstOf(s, i), i))
BY DEF Payload, Carried, Pieces

LEMMA CarriedAdd ==
  ASSUME NEW s, NEW M, NEW i
  PROVE  /\ Carried(s, M \cup {i}) = Carried(s, M) \cup ({i} \X (1..s[i].len))
         /\ i \notin M => Carried(s, M) \cap ({i} \X (1..s[i].len)) = {}
<1>1. Carried(s, M \cup {i}) = Carried(s, M) \cup ({i} \X (1..s[i].len))
  BY DEF Carried
<1>2. ASSUME i \notin M, NEW x \in Carried(s, M), x \in {i} \X (1..s[i].len) PROVE FALSE
  <2>1. PICK m \in M : x \in {m} \X (1..s[m].len)
    BY <1>2 DEF Carried
  <2>2. x[1] = m /\ x[1] = i
    BY <1>2, <2>1
  <2> QED
    BY <1>2, <2>2
<1> QED
  BY <1>1, <1>2

LEMMA PairsCount ==
  ASSUME NEW i, NEW n \in Nat
  PROVE  IsFiniteSet({i} \X (1..n)) /\ Cardinality({i} \X (1..n)) = n
<1>1. IsFiniteSet({i}) /\ Cardinality({i}) = 1
  BY FS_Singleton
<1>2. IsFiniteSet(1..n) /\ Cardinality(1..n) = n
  BY FS_Interval
<1>3. /\ IsFiniteSet({i} \X (1..n))
      /\ Cardinality({i} \X (1..n)) = Cardinality({i}) * Cardinality(1..n)
  BY <1>1, <1>2, FS_Product
<1> QED
  BY <1>1, <1>2, <1>3

LEMMA FirstOfIs ==
  ASSUME NEW s \in Seq(Frames), NEW i \in 1..Len(s)
  PROVE  /\ IsData(s[i]) => FirstOf(s, i) = i
         /\ ~IsData(s[i]) => FirstOf(s, i) = FirstOf(s, i - 1)
<1>0. i \in Nat /\ 1 <= i
  OBVIOUS
<1>1. ASSUME IsData(s[i]) PROVE FirstOf(s, i) = i
  <2>1. i \in {j \in 1..i : IsData(s[j])} /\ {j \in 1..i : IsData(s[j])} \subseteq Int
    BY <1>0, <1>1
  <2>2. \A y \in {j \in 1..i : IsData(s[j])} : i >= y
    BY <1>0
  <2> QED
    BY <2>1, <2>2, MaxIs DEF FirstOf
<1>2. ASSUME ~IsData(s[i]) PROVE FirstOf(s, i) = FirstOf(s, i - 1)
  <2>1. {j \in 1..i : IsData(s[j])} = {j \in 1..(i - 1) : IsData(s[j])}
    BY <1>0, <1>2
  <2> QED
    BY <2>1 DEF FirstOf
<1> QED
  BY <1>1, <1>2

\* A message goes on from frame to frame.
LEMMA InMessageStep ==
  ASSUME NEW s \in Seq(Frames), NEW i \in 1..Len(s)
  PROVE  InMessage(s, i + 1) <=>
           \/ IsData(s[i]) /\ ~s[i].fin
           \/ InMessage(s, i) /\ ~(s[i].kind = "cont" /\ s[i].fin)
<1>0. i \in Nat /\ 1 <= i /\ (i + 1) - 1 = i /\ i - 1 \in Nat /\ 1..i = (1..(i - 1)) \cup {i}
  OBVIOUS
<1>1. ASSUME InMessage(s, i + 1), ~(IsData(s[i]) /\ ~s[i].fin)
      PROVE  InMessage(s, i) /\ ~(s[i].kind = "cont" /\ s[i].fin)
  <2>1. PICK j \in 1..i : /\ IsData(s[j]) /\ ~s[j].fin
                          /\ \A m \in (j + 1)..i : ~(s[m].kind = "cont" /\ s[m].fin)
    BY <1>0, <1>1 DEF InMessage
  <2>2. j \in 1..(i - 1)
    BY <1>0, <1>1, <2>1
  <2>3. i \in (j + 1)..i /\ \A m \in (j + 1)..(i - 1) : m \in (j + 1)..i
    BY <1>0, <2>2
  <2> QED
    BY <2>1, <2>2, <2>3 DEF InMessage
<1>2. ASSUME IsData(s[i]), ~s[i].fin PROVE InMessage(s, i + 1)
  <2>1. \A m \in (i + 1)..((i + 1) - 1) : FALSE
    BY <1>0
  <2> QED
    BY <1>0, <1>2, <2>1 DEF InMessage
<1>3. ASSUME InMessage(s, i), ~(s[i].kind = "cont" /\ s[i].fin) PROVE InMessage(s, i + 1)
  <2>1. PICK j \in 1..(i - 1) : /\ IsData(s[j]) /\ ~s[j].fin
                          /\ \A m \in (j + 1)..(i - 1) : ~(s[m].kind = "cont" /\ s[m].fin)
    BY <1>3 DEF InMessage
  <2>2. \A m \in (j + 1)..i : m \in (j + 1)..(i - 1) \/ m = i
    BY <1>0
  <2> QED
    BY <1>0, <1>3, <2>1, <2>2 DEF InMessage
<1> QED
  BY <1>1, <1>2, <1>3

\* A set of naturals with a bound has a greatest element.
LEMMA MaxExists ==
  ASSUME NEW n \in Nat, NEW S \in SUBSET (1..n), S # {}
  PROVE  \E m \in S : \A y \in S : m >= y
<1> DEFINE D == {d \in Nat : n - d \in S}
           R == OpToRel(<, Nat)
<1>1. IsWellFoundedOn(R, Nat)
  BY NatLessThanWellFounded
<1>2. D \subseteq Nat /\ D # {}
  <2>1. PICK x \in S : TRUE
    OBVIOUS
  <2>2. n - x \in Nat /\ n - (n - x) = x
    BY <2>1
  <2> QED
    BY <2>1, <2>2
<1>3. \E d \in D : \A y \in D : ~(<<y, d>> \in R)
  <2> HIDE DEF R, D
  <2> QED
    BY <1>1, <1>2, WFMin
<1>4. PICK d \in D : \A y \in D : ~(y < d)
  BY <1>3 DEF OpToRel
<1>5. ASSUME NEW y \in S PROVE n - d >= y
  <2>1. y \in Nat /\ n - y \in Nat /\ n - (n - y) = y
    BY <1>5
  <2>2. n - y \in D
    BY <1>5, <2>1
  <2>3. d \in Nat /\ ~(n - y < d)
    BY <1>4, <2>2
  <2> QED
    BY <2>1, <2>3
<1> QED
  BY <1>4, <1>5

\* Where there is data, there is a last frame with data.
LEMMA FirstOfFound ==
  ASSUME NEW s, NEW n \in Nat, NEW j \in 1..n, IsData(s[j])
  PROVE  FirstOf(s, n) \in 1..n /\ IsData(s[FirstOf(s, n)])
<1> DEFINE S == {m \in 1..n : IsData(s[m])}
<1>1. S \in SUBSET (1..n) /\ S # {} /\ S \subseteq Int
  OBVIOUS
<1>2. PICK m \in S : \A y \in S : m >= y
  <2> HIDE DEF S
  <2> QED
    BY <1>1, MaxExists
<1>3. Max(S) = m
  <2> HIDE DEF S
  <2> QED
    BY <1>1, <1>2, MaxIs
<1> QED
  BY <1>2, <1>3 DEF FirstOf

LEMMA MessageBegins ==
  ASSUME NEW s, NEW n \in Nat, InMessage(s, n + 1)
  PROVE  FirstOf(s, n) \in 1..n /\ IsData(s[FirstOf(s, n)])
<1>1. (n + 1) - 1 = n
  OBVIOUS
<1> QED
  BY <1>1, FirstOfFound DEF InMessage

\* The size of a message grows by each of its frames.
LEMMA PayloadStep ==
  ASSUME NEW s \in Seq(Frames), NEW i \in 1..Len(s)
  PROVE  /\ IsData(s[i]) =>
              IsFiniteSet(Payload(s, i)) /\ Cardinality(Payload(s, i)) = s[i].len
         /\ ~IsData(s[i]) /\ s[i].kind # "cont" /\ FirstOf(s, i - 1) \in 1..(i - 1) =>
              Payload(s, i) = Payload(s, i - 1)
         /\ s[i].kind = "cont" /\ FirstOf(s, i - 1) \in 1..(i - 1)
              /\ IsFiniteSet(Payload(s, i - 1)) =>
              /\ IsFiniteSet(Payload(s, i))
              /\ Cardinality(Payload(s, i)) = Cardinality(Payload(s, i - 1)) + s[i].len
<1>0. i \in Nat /\ 1 <= i /\ s[i] \in Frames /\ s[i].len \in Nat
  BY FrameTypes
<1>1. ASSUME IsData(s[i])
      PROVE  IsFiniteSet(Payload(s, i)) /\ Cardinality(Payload(s, i)) = s[i].len
  <2>1. Pieces(s, i, i) = {i}
    BY <1>0, <1>1 DEF Pieces
  <2>2. Carried(s, {i}) = {i} \X (1..s[i].len)
    BY DEF Carried
  <2>3. FirstOf(s, i) = i
    BY <1>1, FirstOfIs
  <2>4. Payload(s, i) = {i} \X (1..s[i].len)
    BY <2>1, <2>2, <2>3, PayloadIs
  <2> DEFINE Q == {i} \X (1..s[i].len)
  <2>5. IsFiniteSet(Q) /\ Cardinality(Q) = s[i].len
    BY <1>0, PairsCount
  <2>6. Payload(s, i) = Q
    BY <2>4
  <2> HIDE DEF Q
  <2> QED
    BY <2>5, <2>6
<1>2. ASSUME ~IsData(s[i]), FirstOf(s, i - 1) \in 1..(i - 1)
      PROVE  /\ s[i].kind # "cont" => Payload(s, i) = Payload(s, i - 1)
             /\ s[i].kind = "cont" /\ IsFiniteSet(Payload(s, i - 1)) =>
                  /\ IsFiniteSet(Payload(s, i))
                  /\ Cardinality(Payload(s, i)) = Cardinality(Payload(s, i - 1)) + s[i].len
  <2> DEFINE a == FirstOf(s, i - 1)
             M == Pieces(s, a, i - 1)
             Q == {i} \X (1..s[i].len)
  <2>1. FirstOf(s, i) = a
    BY <1>2, FirstOfIs
  <2>2. a..i = (a..(i - 1)) \cup {i} /\ i \notin a..(i - 1)
    BY <1>0, <1>2
  <2>3. /\ s[i].kind # "cont" => Pieces(s, a, i) = M
        /\ s[i].kind = "cont" => Pieces(s, a, i) = M \cup {i}
        /\ i \notin M
    BY <1>2, <2>2 DEF Pieces
  <2>4. Payload(s, i) = Carried(s, Pieces(s, a, i)) /\ Payload(s, i - 1) = Carried(s, M)
    BY <2>1, PayloadIs
  <2>5. ASSUME s[i].kind = "cont", IsFiniteSet(Payload(s, i - 1))
        PROVE  /\ IsFiniteSet(Payload(s, i))
               /\ Cardinality(Payload(s, i)) = Cardinality(Payload(s, i - 1)) + s[i].len
    <3>1. Payload(s, i) = Payload(s, i - 1) \cup Q /\ Payload(s, i - 1) \cap Q = {}
      BY <2>3, <2>4, <2>5, CarriedAdd
    <3>2. IsFiniteSet(Q) /\ Cardinality(Q) = s[i].len
      BY <1>0, PairsCount
    <3>3. Cardinality(Payload(s, i - 1)) \in Nat
      BY <2>5, FS_CardinalityType
    <3> HIDE DEF Q
    <3>4. Cardinality({}) = 0
      BY FS_EmptySet
    <3>5. /\ IsFiniteSet(Payload(s, i - 1) \cup Q)
          /\ Cardinality(Payload(s, i - 1) \cup Q) =
               Cardinality(Payload(s, i - 1)) + Cardinality(Q)
                 - Cardinality(Payload(s, i - 1) \cap Q)
      BY <2>5, <3>2, FS_Union
    <3>6. Cardinality(Payload(s, i)) =
            Cardinality(Payload(s, i - 1)) + Cardinality(Q) - Cardinality({})
      BY <3>1, <3>5
    <3>7. IsFiniteSet(Payload(s, i))
      BY <3>1, <3>5
    <3> QED
      BY <1>0, <3>2, <3>3, <3>4, <3>6, <3>7
  <2> QED
    BY <2>3, <2>4, <2>5
<1>3. s[i].kind = "cont" => ~IsData(s[i])
  BY DEF IsData
<1> QED
  BY <1>1, <1>2, <1>3

\* Lists that begin alike are in the middle of a message alike.
LEMMA InMessageAgrees ==
  ASSUME NEW i \in Nat, NEW s, NEW t, \A m \in 1..i : t[m] = s[m], InMessage(s, i + 1)
  PROVE  InMessage(t, i + 1)
<1>1. (i + 1) - 1 = i
  OBVIOUS
<1>2. PICK j \in 1..i : /\ IsData(s[j]) /\ ~s[j].fin
                       /\ \A m \in (j + 1)..i : ~(s[m].kind = "cont" /\ s[m].fin)
  BY <1>1 DEF InMessage
<1>3. \A m \in (j + 1)..i : m \in 1..i
  OBVIOUS
<1>4. t[j] = s[j] /\ \A m \in (j + 1)..i : t[m] = s[m]
  BY <1>2, <1>3
<1> QED
  BY <1>1, <1>2, <1>4 DEF InMessage

\* What the definition says of a frame does not depend on later ones.
LEMMA LaterFrames ==
  ASSUME NEW s \in Seq(Frames), NEW f \in Frames, NEW i \in 0..Len(s)
  PROVE  LET t == Append(s, f)
         IN  /\ InMessage(t, i + 1) <=> InMessage(s, i + 1)
             /\ FirstOf(t, i) = FirstOf(s, i)
             /\ FirstOf(s, i) \in 1..i => Payload(t, i) = Payload(s, i)
             /\ i # 0 => EventsOf(t, i) = EventsOf(s, i)
<1> DEFINE t == Append(s, f)
<1>1. Len(s) \in Nat /\ i \in Nat /\ i <= Len(s) /\ \A m \in 1..i : t[m] = s[m]
  OBVIOUS
<1> HIDE DEF t
<1>2. InMessage(t, i + 1) <=> InMessage(s, i + 1)
  <2>1. InMessage(s, i + 1) => InMessage(t, i + 1)
    BY <1>1, InMessageAgrees
  <2>2. InMessage(t, i + 1) => InMessage(s, i + 1)
    BY <1>1, InMessageAgrees
  <2> QED
    BY <2>1, <2>2
<1>3. FirstOf(t, i) = FirstOf(s, i)
  <2>1. {j \in 1..i : IsData(t[j])} = {j \in 1..i : IsData(s[j])}
    BY <1>1
  <2> QED
    BY <2>1 DEF FirstOf
<1>4. FirstOf(s, i) \in 1..i => Payload(t, i) = Payload(s, i)
  <2>1. SUFFICES ASSUME FirstOf(s, i) \in 1..i PROVE Payload(t, i) = Payload(s, i)
    OBVIOUS
  <2> DEFINE M == Pieces(s, FirstOf(s, i), i)
  <2>2. \A m \in FirstOf(s, i)..i : t[m] = s[m]
    BY <1>1, <2>1
  <2>3. Pieces(t, FirstOf(s, i), i) = M
    BY <2>2 DEF Pieces
  <2>4. \A m \in M : t[m] = s[m]
    BY <2>2 DEF Pieces
  <2>5. Carried(t, M) = Carried(s, M)
    <3> HIDE DEF M
    <3> QED
      BY <2>4 DEF Carried
  <2> QED
    BY <1>3, <2>3, <2>5, PayloadIs
<1>5. ASSUME i # 0 PROVE EventsOf(t, i) = EventsOf(s, i)
  <2>1. i - 1 \in 0..Len(s) /\ (i - 1) + 1 = i /\ i \in 1..Len(s) /\ i - 1 \in Nat
    BY <1>1, <1>5
  <2>2. \A m \in 1..(i - 1) : t[m] = s[m]
    BY <1>1, <2>1
  <2>3. InMessage(t, i) <=> InMessage(s, i)
    BY <1>1, <2>1, <2>2 DEF InMessage, IsData
  <2>4. t[i] = s[i]
    BY <1>1, <2>1
  <2>5. InMessage(s, i) \/ IsData(s[i]) => FirstOf(s, i) \in 1..i
    <3>1. ASSUME InMessage(s, i) PROVE FirstOf(s, i) \in 1..i
      <4>1. PICK j \in 1..(i - 1) : IsData(s[j])
        BY <3>1 DEF InMessage
      <4>2. j \in 1..i
        BY <1>1, <4>1
      <4> QED
        BY <1>1, <4>1, <4>2, FirstOfFound
    <3>2. ASSUME IsData(s[i]) PROVE FirstOf(s, i) \in 1..i
      BY <2>1, <3>2, FirstOfIs
    <3> QED
      BY <3>1, <3>2
  <2>6. Breaks(t, i) <=> Breaks(s, i)
    BY <1>4, <2>3, <2>4, <2>5 DEF Breaks
  <2>7. EndsMessage(t, i) <=> EndsMessage(s, i)
    BY <2>4 DEF EndsMessage
  <2>8. ~Breaks(s, i) /\ EndsMessage(s, i) => FirstOf(s, i) \in 1..i
    BY <2>5 DEF Breaks, EndsMessage
  <2>9. ~Breaks(s, i) /\ EndsMessage(s, i) => t[FirstOf(s, i)] = s[FirstOf(s, i)]
    BY <1>1, <2>8
  <2> QED
    BY <1>3, <2>6, <2>7, <2>9, EventsAre
<1> QED
  BY <1>2, <1>3, <1>4, <1>5 DEF t

\* handleFrame refuses a frame exactly when the definition says that it breaks
\* the connection, and else keeps fragged, msgOp and msg as the definition has
\* them.
LEMMA FragStep ==
  ASSUME NEW s \in Seq(Frames), NEW n \in Nat, n < Len(s), FragOK(s, n, frag),
         frag \in Frag
  PROVE  LET f == s[n + 1]
         IN  /\ Breaks(s, n + 1) <=> Refused(f)
             /\ ~Refused(f) =>
                  /\ f.kind \in {"ping", "pong"} => FragOK(s, n + 1, frag)
                  /\ IsData(f) /\ f.fin => FragOK(s, n + 1, frag)
                  /\ IsData(f) /\ ~f.fin =>
                       FragOK(s, n + 1, [on |-> TRUE, kind |-> f.kind, start |-> n + 1,
                                         len |-> f.len])
                  /\ f.kind = "cont" /\ ~f.fin =>
                       FragOK(s, n + 1, [frag EXCEPT !.len = @ + f.len])
                  /\ f.kind = "cont" /\ f.fin => FragOK(s, n + 1, NoFrag)
                  /\ f.kind = "cont" =>
                       FirstOf(s, n + 1) = frag.start /\ s[frag.start].kind = frag.kind
<1> DEFINE f == s[n + 1]
           i == n + 1
<1>0. /\ i \in 1..Len(s) /\ i - 1 = n /\ f \in Frames /\ f.len \in Nat /\ f.fin \in BOOLEAN
      /\ f.kind \in {"text", "fatal", "binary", "cont", "ping", "pong", "close", "bad"}
      /\ MaxFrameLen \in Nat
  BY FrameTypes, WsReaderAssumption
<1>1. frag.on <=> InMessage(s, i)
  BY DEF FragOK, NoFrag
<1>2. ASSUME InMessage(s, i)
      PROVE  /\ FirstOf(s, n) \in 1..n /\ IsData(s[FirstOf(s, n)])
             /\ frag.on /\ frag.kind = s[FirstOf(s, n)].kind /\ frag.start = FirstOf(s, n)
             /\ frag.len = Cardinality(Payload(s, n))
             /\ IsFiniteSet(Payload(s, n)) /\ Cardinality(Payload(s, n)) \in Nat
  BY <1>2, MessageBegins, FS_CardinalityType DEF FragOK
<1>3. ASSUME InMessage(s, i), f.kind = "cont"
      PROVE  /\ IsFiniteSet(Payload(s, i)) /\ FirstOf(s, i) = frag.start
             /\ s[frag.start].kind = frag.kind
             /\ Cardinality(Payload(s, i)) = frag.len + f.len
             /\ frag.start = FirstOf(s, n)
  <2>1. /\ IsFiniteSet(Payload(s, i))
        /\ Cardinality(Payload(s, i)) = Cardinality(Payload(s, n)) + f.len
    BY <1>0, <1>2, <1>3, PayloadStep
  <2>2. FirstOf(s, i) = FirstOf(s, n)
    BY <1>0, <1>3, FirstOfIs DEF IsData
  <2> QED
    BY <1>2, <1>3, <2>1, <2>2
<1>4. Breaks(s, i) <=> Refused(f)
  <2>1. f.kind = "cont" /\ InMessage(s, i)
          => (Cardinality(Payload(s, i)) > MaxFrameLen <=> TooLong(f))
    BY <1>0, <1>3 DEF TooLong
  <2> QED
    BY <1>0, <1>1, <2>1 DEF Breaks, Refused, EarlyRefusal, IsData
<1>5. InMessage(s, i + 1) <=> \/ IsData(f) /\ ~f.fin
                              \/ InMessage(s, i) /\ ~(f.kind = "cont" /\ f.fin)
  BY <1>0, InMessageStep
<1>6. ASSUME f.kind \in {"ping", "pong"} PROVE FragOK(s, i, frag)
  <2>1. InMessage(s, i + 1) <=> InMessage(s, i)
    BY <1>5, <1>6 DEF IsData
  <2>2. FirstOf(s, i) = FirstOf(s, n)
    BY <1>0, <1>6, FirstOfIs DEF IsData
  <2>3. InMessage(s, i) => Payload(s, i) = Payload(s, n)
    BY <1>0, <1>2, <1>6, PayloadStep DEF IsData
  <2> QED
    BY <2>1, <2>2, <2>3 DEF FragOK
<1>7. ASSUME IsData(f), ~Refused(f) PROVE ~InMessage(s, i) /\ frag = NoFrag
  BY <1>1, <1>7 DEF Refused, FragOK
<1>8. ASSUME IsData(f), f.fin, ~Refused(f) PROVE FragOK(s, i, frag)
  BY <1>5, <1>7, <1>8 DEF FragOK
<1>9. ASSUME IsData(f), ~f.fin
      PROVE  FragOK(s, i, [on |-> TRUE, kind |-> f.kind, start |-> i, len |-> f.len])
  <2>1. FirstOf(s, i) = i /\ InMessage(s, i + 1)
    BY <1>0, <1>5, <1>9, FirstOfIs
  <2>2. IsFiniteSet(Payload(s, i)) /\ Cardinality(Payload(s, i)) = f.len
    BY <1>0, <1>9, PayloadStep
  <2> QED
    BY <2>1, <2>2 DEF FragOK
<1>10. ASSUME f.kind = "cont", ~Refused(f) PROVE InMessage(s, i)
  BY <1>1, <1>10 DEF Refused
<1>11. ASSUME f.kind = "cont", ~f.fin, ~Refused(f)
       PROVE  FragOK(s, i, [frag EXCEPT !.len = @ + f.len])
  <2>1. InMessage(s, i) /\ InMessage(s, i + 1)
    BY <1>5, <1>10, <1>11
  <2> DEFINE g == [frag EXCEPT !.len = @ + f.len]
  <2>2. g.on = frag.on /\ g.kind = frag.kind /\ g.start = frag.start /\ g.len = frag.len + f.len
    BY DEF Frag
  <2>3. frag.on
    BY <1>2, <2>1
  <2> HIDE DEF g
  <2>4. FragOK(s, i, g)
    BY <1>3, <1>11, <2>1, <2>2, <2>3 DEF FragOK
  <2> QED
    BY <2>4 DEF g
<1>12. ASSUME f.kind = "cont", f.fin PROVE FragOK(s, i, NoFrag)
  BY <1>5, <1>12 DEF FragOK, IsData
<1> HIDE DEF f, i
<1>13. f.kind = "cont" /\ ~Refused(f) => FirstOf(s, i) = frag.start /\ s[frag.start].kind = frag.kind
  BY <1>3, <1>10
<1> QED
  BY <1>4, <1>6, <1>8, <1>9, <1>11, <1>12, <1>13 DEF f, i

-----------------------------------------------------------------------------
(* The units that are left *)

LEMMA NatSetInduction ==
  ASSUME NEW S \in SUBSET Nat, 0 \in S, \A n \in S : n + 1 \in S
  PROVE  S = Nat
<1> SUFFICES ASSUME S # Nat PROVE FALSE
  OBVIOUS
<1> DEFINE R == OpToRel(<, Nat)
<1>1. IsWellFoundedOn(R, Nat)
  BY NatLessThanWellFounded
<1>2. Nat \ S # {} /\ Nat \ S \subseteq Nat
  OBVIOUS
<1>3. \E m \in Nat \ S : \A y \in Nat \ S : ~(<<y, m>> \in R)
  <2> HIDE DEF R
  <2> QED
    BY <1>1, <1>2, WFMin
<1>4. PICK m \in Nat \ S : \A y \in Nat \ S : ~(y < m)
  BY <1>3 DEF OpToRel
<1>5. m # 0 /\ m - 1 \in S
  BY <1>4
<1> QED
  BY <1>4, <1>5

\* The first units are those of the next frame.
LEMMA AlignedFrame ==
  ASSUME NEW s \in Seq(Frames), NEW U, NEW q \in Seq(U), NEW n \in Nat, n < Len(s),
         Aligned(s, q, n)
  PROVE  /\ q # << >>
         /\ \A j \in 1..(1 + s[n + 1].len) :
              j <= Len(q) => q[j] = [frame |-> n + 1, i |-> j]
<1> DEFINE l == s[n + 1].len
           S == {m \in Nat : m + 1 <= 1 + l /\ m + 1 <= Len(q)
                               => q[m + 1] = [frame |-> n + 1, i |-> m + 1]}
<1>0. q # << >> /\ Len(q) \in Nat \ {0} /\ l \in Nat
  <2>1. n + 1 \in 1..Len(s)
    OBVIOUS
  <2> QED
    BY <2>1, FrameTypes DEF Aligned
<1>1. 0 \in S
  BY <1>0 DEF Aligned
<1>2. ASSUME NEW m \in S PROVE m + 1 \in S
  <2>1. SUFFICES ASSUME (m + 1) + 1 <= 1 + l, (m + 1) + 1 <= Len(q)
                 PROVE  q[(m + 1) + 1] = [frame |-> n + 1, i |-> (m + 1) + 1]
    BY <1>2
  <2>2. m \in Nat /\ m + 1 <= l /\ m + 1 \in 1..(Len(q) - 1)
    BY <1>0, <1>2, <2>1
  <2>3. q[m + 1] = [frame |-> n + 1, i |-> m + 1]
    BY <1>0, <1>2, <2>1, <2>2
  <2>4. Follows(s, q[m + 1], q[(m + 1) + 1])
    BY <2>2 DEF Aligned
  <2>5. q[m + 1].frame = n + 1 /\ q[m + 1].i = m + 1
    BY <2>3
  <2> QED
    BY <2>2, <2>4, <2>5 DEF Follows
<1>3. S = Nat
  <2>1. S \in SUBSET Nat
    OBVIOUS
  <2> HIDE DEF S
  <2> QED
    BY <1>1, <1>2, <2>1, NatSetInduction
<1>4. ASSUME NEW j \in 1..(1 + l), j <= Len(q) PROVE q[j] = [frame |-> n + 1, i |-> j]
  <2>1. j - 1 \in Nat /\ (j - 1) + 1 = j
    BY <1>0, <1>4
  <2>2. j - 1 \in S
    <3> HIDE DEF S
    <3> QED
      BY <1>3, <2>1
  <2> QED
    BY <1>0, <1>4, <2>1, <2>2
<1> QED
  BY <1>0, <1>4

\* Behind a whole frame the next one begins.
LEMMA AlignedNext ==
  ASSUME NEW s \in Seq(Frames), NEW U, NEW q \in Seq(U), NEW n \in Nat, n < Len(s),
         Aligned(s, q, n), Len(q) > s[n + 1].len,
         \A j \in 1..Len(q) : q[j].frame <= Len(s)
  PROVE  Aligned(s, SubSeq(q, s[n + 1].len + 2, Len(q)), n + 1)
<1> DEFINE l == s[n + 1].len
           r == SubSeq(q, l + 2, Len(q))
<1>0. l \in Nat /\ Len(q) \in Nat /\ Len(s) \in Nat /\ q # << >> /\ Len(q) > l
  <2>1. n + 1 \in 1..Len(s)
    OBVIOUS
  <2> QED
    BY <2>1, FrameTypes, AlignedFrame
<1>1. r \in Seq(U) /\ Len(r) = Len(q) - (l + 1)
  <2>1. \A i \in (l + 2)..Len(q) : q[i] \in U
    BY <1>0, ElementOfSeq
  <2>2. r \in Seq(U) /\ Len(r) = IF l + 2 <= Len(q) THEN Len(q) - (l + 2) + 1 ELSE 0
    <3> HIDE DEF l
    <3> QED
      BY <1>0, <2>1, SubSeqProperties
  <2> HIDE DEF l, r
  <2> QED
    BY <1>0, <2>2
<1>1a. ASSUME NEW j \in 1..Len(r) PROVE r[j] = q[j + (l + 1)]
  <2>1. \A i \in 1..(Len(q) - (l + 2) + 1) : r[i] = q[(l + 2) + i - 1]
    <3> HIDE DEF l
    <3> QED
      BY <1>0, ElementOfSeq, SubSeqProperties
  <2> HIDE DEF l, r
  <2>2. j \in 1..(Len(q) - (l + 2) + 1) /\ (l + 2) + j - 1 = j + (l + 1)
    BY <1>0, <1>1, <1>1a
  <2>3. r[j] = q[(l + 2) + j - 1]
    BY <2>1, <2>2
  <2> QED
    BY <2>2, <2>3
<1>2. q[l + 1] = [frame |-> n + 1, i |-> l + 1]
  <2>1. l + 1 \in 1..(1 + l) /\ l + 1 <= Len(q)
    BY <1>0
  <2>2. \A j \in 1..(1 + l) : j <= Len(q) => q[j] = [frame |-> n + 1, i |-> j]
    BY AlignedFrame
  <2> HIDE DEF l
  <2> QED
    BY <2>1, <2>2
<1>3. q[Len(q)] = [frame |-> Len(s), i |-> 1 + s[Len(s)].len]
  BY <1>0 DEF Aligned
<1>4. q[l + 1].frame = n + 1 /\ q[l + 1].i = l + 1
  BY <1>2
<1>5. \A j \in 1..(Len(q) - 1) : Follows(s, q[j], q[j + 1])
  BY DEF Aligned
<1> SUFFICES Aligned(s, r, n + 1)
  OBVIOUS
<1>l. s[n + 1].len = l
  OBVIOUS
<1> HIDE DEF l, r
<1>6. CASE Len(q) = l + 1
  <2>1. Len(r) = 0 /\ r = << >>
    BY <1>0, <1>1, <1>6, EmptySeq
  <2>2. n + 1 = Len(s)
    BY <1>3, <1>4, <1>6
  <2>3. \A j \in 1..(Len(r) - 1) : FALSE
    BY <2>1
  <2> QED
    BY <2>1, <2>2, <2>3 DEF Aligned
<1>7. CASE Len(q) # l + 1
  <2>0. Len(r) \in Nat \ {0}
    BY <1>0, <1>1, <1>7
  <2>1. r # << >>
    BY <2>0
  <2>2. q[l + 2] = [frame |-> (n + 1) + 1, i |-> 1]
    <3>1. l + 1 \in 1..(Len(q) - 1) /\ (l + 1) + 1 = l + 2
      BY <1>0, <1>7
    <3>2. Follows(s, q[l + 1], q[l + 2])
      BY <1>5, <3>1
    <3>3. ~(l + 1 <= l)
      BY <1>0
    <3> QED
      BY <1>4, <1>l, <3>2, <3>3 DEF Follows
  <2>3. r[1] = [frame |-> (n + 1) + 1, i |-> 1]
    <3>1. 1 \in 1..Len(r) /\ 1 + (l + 1) = l + 2
      BY <1>0, <2>0
    <3>2. r[1] = q[1 + (l + 1)]
      BY <1>1a, <3>1
    <3> QED
      BY <2>2, <3>1, <3>2
  <2>4. r[Len(r)] = q[Len(q)]
    <3>1. Len(r) \in 1..Len(r) /\ Len(r) + (l + 1) = Len(q)
      BY <1>0, <1>1, <2>0
    <3>2. r[Len(r)] = q[Len(r) + (l + 1)]
      BY <1>1a, <3>1
    <3> QED
      BY <3>1, <3>2
  <2>5. ASSUME NEW j \in 1..(Len(r) - 1) PROVE Follows(s, r[j], r[j + 1])
    <3>1. /\ j \in 1..Len(r) /\ j + 1 \in 1..Len(r) /\ j + (l + 1) \in 1..(Len(q) - 1)
          /\ (j + 1) + (l + 1) = (j + (l + 1)) + 1
      BY <1>0, <1>1, <2>0, <2>5
    <3>2. Follows(s, q[j + (l + 1)], q[(j + (l + 1)) + 1])
      BY <1>5, <3>1
    <3>3. r[j] = q[j + (l + 1)] /\ r[j + 1] = q[(j + 1) + (l + 1)]
      BY <1>1a, <3>1
    <3> QED
      BY <3>1, <3>2, <3>3
  <2>6. n + 1 # Len(s)
    <3>1. l + 2 \in 1..Len(q)
      BY <1>0, <1>7
    <3>2. q[l + 2].frame <= Len(s) /\ q[l + 2].frame = (n + 1) + 1
      BY <2>2, <3>1
    <3> QED
      BY <1>0, <3>2
  <2> QED
    BY <1>3, <2>1, <2>3, <2>4, <2>5, <2>6 DEF Aligned
<1> QED
  BY <1>6, <1>7

\* Where two neighbours are in a sequence of a units followed by 1 + b more.
LEMMA IndexSplit ==
  ASSUME NEW a \in Nat, NEW b \in Nat, NEW j \in 1..((a + (1 + b)) - 1)
  PROVE  /\ j \in Nat /\ 1 <= j /\ j \in 1..(a + (1 + b)) /\ j + 1 \in 1..(a + (1 + b))
         /\ j < a => j \in 1..(a - 1) /\ j \in 1..a /\ j <= a /\ j + 1 <= a
         /\ j = a => /\ j \in 1..a /\ j <= a /\ ~(j + 1 <= a) /\ (j + 1) - a = 1
                     /\ 1 \in 1..(1 + b)
         /\ j > a => /\ ~(j <= a) /\ ~(j + 1 <= a) /\ (j + 1) - a = (j - a) + 1
                     /\ j - a \in 1..(1 + b) /\ (j - a) + 1 \in 1..(1 + b) /\ j - a <= b
OBVIOUS

\* A frame that is sent comes behind what is left.
LEMMA AlignedSend ==
  ASSUME NEW s \in Seq(Frames), NEW f \in Frames, NEW q \in Seq([frame : Nat, i : Nat]),
         NEW n \in 0..Len(s), Aligned(s, q, n),
         \A j \in 1..Len(q) : q[j].frame \in 1..Len(s)
  PROVE  Aligned(Append(s, f), q \o FrameUnits(Len(s) + 1, f), n)
<1> DEFINE U == [frame : Nat, i : Nat]
           t == Append(s, f)
           m == Len(s) + 1
           w == FrameUnits(m, f)
           r == q \o w
<1>0. /\ m \in Nat /\ Len(s) \in Nat /\ m = Len(s) + 1 /\ Len(t) = m /\ Len(q) \in Nat
      /\ n \in Nat /\ n <= Len(s) /\ f.len \in Nat
  BY FrameTypes
<1>1. t[m] = f /\ \A i \in 1..Len(s) : t[i] = s[i]
  BY <1>0
<1>2. /\ w \in Seq(U) /\ Len(w) = 1 + f.len
      /\ \A i \in 1..(1 + f.len) : w[i] = [frame |-> m, i |-> i]
  <2> HIDE DEF m
  <2>1. /\ w \in Seq([frame : {m}, i : Nat]) /\ Len(w) = 1 + f.len
        /\ \A i \in 1..(1 + f.len) : w[i] = [frame |-> m, i |-> i]
    BY <1>0, FrameUnitsAre
  <2>2. [frame : {m}, i : Nat] \subseteq U
    BY <1>0
  <2> HIDE DEF w, U
  <2> QED
    BY <2>1, <2>2, SeqMonotonic
<1> SUFFICES Aligned(t, r, n)
  OBVIOUS
<1>3. /\ r \in Seq(U) /\ Len(r) = Len(q) + (1 + f.len)
      /\ \A i \in 1..(Len(q) + (1 + f.len)) :
           r[i] = IF i <= Len(q) THEN q[i] ELSE w[i - Len(q)]
  <2>1. q \in Seq(U)
    OBVIOUS
  <2>2. w \in Seq(U)
    BY <1>2
  <2>3. Len(w) = 1 + f.len
    BY <1>2
  <2> HIDE DEF w, U
  <2>4. /\ r \in Seq(U) /\ Len(r) = Len(q) + Len(w)
        /\ \A i \in 1..(Len(q) + Len(w)) :
             r[i] = IF i <= Len(q) THEN q[i] ELSE w[i - Len(q)]
    BY <2>1, <2>2, ConcatProperties
  <2> HIDE DEF r
  <2> QED
    BY <2>3, <2>4
<1>4. /\ q = << >> <=> n = Len(s)
      /\ q # << >> => /\ q[1] = [frame |-> n + 1, i |-> 1]
                      /\ q[Len(q)] = [frame |-> Len(s), i |-> 1 + s[Len(s)].len]
      /\ \A j \in 1..(Len(q) - 1) : Follows(s, q[j], q[j + 1])
  BY DEF Aligned
<1>5. q = << >> <=> Len(q) = 0
  OBVIOUS
<1>6. s # << >> => Len(s) \in 1..Len(s) /\ s[Len(s)].len \in Nat
  BY <1>0, FrameTypes
<1>7. \A j \in 1..Len(q) : q[j].frame \in 1..Len(s) /\ t[q[j].frame] = s[q[j].frame]
  BY <1>1
<1> HIDE DEF w, r, t, m, U
<1>8. r # << >> /\ n # Len(t) /\ Len(r) \in Nat \ {0}
  BY <1>0, <1>3
<1>9. r[1] = [frame |-> n + 1, i |-> 1]
  <2>1. 1 \in 1..(Len(q) + (1 + f.len)) /\ 1 \in 1..(1 + f.len)
    BY <1>0
  <2>2. CASE Len(q) = 0
    <3>1. n + 1 = m /\ ~(1 <= Len(q)) /\ 1 - Len(q) = 1
      BY <1>0, <1>4, <1>5, <2>2
    <3>2. r[1] = w[1]
      BY <1>3, <2>1, <3>1
    <3> QED
      BY <1>2, <2>1, <3>1, <3>2
  <2>3. CASE Len(q) # 0
    <3>1. 1 <= Len(q)
      BY <1>0, <2>3
    <3> QED
      BY <1>3, <1>4, <1>5, <2>1, <2>3, <3>1
  <2> QED
    BY <2>2, <2>3
<1>10. r[Len(r)] = [frame |-> Len(t), i |-> 1 + t[Len(t)].len]
  <2>1. /\ Len(r) \in 1..(Len(q) + (1 + f.len)) /\ ~(Len(r) <= Len(q))
        /\ Len(r) - Len(q) = 1 + f.len /\ 1 + f.len \in 1..(1 + f.len)
    BY <1>0, <1>3
  <2>2. r[Len(r)] = w[1 + f.len]
    BY <1>3, <2>1
  <2>3. w[1 + f.len] = [frame |-> m, i |-> 1 + f.len]
    BY <1>2, <2>1
  <2> QED
    BY <1>0, <1>1, <2>2, <2>3
<1>11. ASSUME NEW j \in 1..(Len(r) - 1) PROVE Follows(t, r[j], r[j + 1])
  <2> j \in 1..((Len(q) + (1 + f.len)) - 1)
    BY <1>3, <1>11
  <2>0. /\ j \in Nat /\ 1 <= j /\ j \in 1..(Len(q) + (1 + f.len))
        /\ j + 1 \in 1..(Len(q) + (1 + f.len))
    BY <1>0, IndexSplit
  <2>1. CASE j < Len(q)
    <3>1. j \in 1..(Len(q) - 1) /\ j \in 1..Len(q) /\ j <= Len(q) /\ j + 1 <= Len(q)
      BY <1>0, <2>1, IndexSplit
    <3>2. r[j] = q[j] /\ r[j + 1] = q[j + 1]
      BY <1>3, <2>0, <3>1
    <3> QED
      BY <1>4, <1>7, <3>1, <3>2 DEF Follows
  <2>2. CASE j = Len(q)
    <3>1. j \in 1..Len(q) /\ j <= Len(q) /\ ~(j + 1 <= Len(q)) /\ (j + 1) - Len(q) = 1 /\ 1 \in 1..(1 + f.len)
      BY <1>0, <2>2, IndexSplit
    <3>2. r[j] = q[j] /\ r[j + 1] = w[1]
      BY <1>3, <2>0, <3>1
    <3>3. q[j] = [frame |-> Len(s), i |-> 1 + s[Len(s)].len] /\ w[1] = [frame |-> m, i |-> 1]
      BY <1>2, <1>4, <1>5, <2>0, <2>2, <3>1
    <3>4. q[j].frame = Len(s) /\ q[j].i = 1 + s[Len(s)].len
      BY <3>3
    <3>5. Len(s) \in 1..Len(s) /\ t[Len(s)] = s[Len(s)] /\ s[Len(s)].len \in Nat
      <4>0. q[j].frame \in 1..Len(s)
        BY <1>7, <3>1
      <4>1. Len(s) # 0
        BY <4>0
      <4>2. s # << >>
        BY <4>1
      <4> QED
        BY <1>1, <1>6, <4>2
    <3>6. ~(q[j].i <= t[q[j].frame].len)
      BY <3>4, <3>5
    <3> QED
      BY <1>0, <3>2, <3>3, <3>4, <3>6 DEF Follows
  <2>3. CASE j > Len(q)
    <3> DEFINE i == j - Len(q)
    <3>1. /\ ~(j <= Len(q)) /\ ~(j + 1 <= Len(q)) /\ (j + 1) - Len(q) = i + 1
          /\ i \in 1..(1 + f.len) /\ i + 1 \in 1..(1 + f.len) /\ i <= f.len
      BY <1>0, <2>3, IndexSplit
    <3>2. r[j] = w[i] /\ r[j + 1] = w[i + 1]
      <4>1. r[j] = w[j - Len(q)]
        BY <1>3, <2>0, <3>1
      <4>2. r[j + 1] = w[(j + 1) - Len(q)]
        BY <1>3, <2>0, <3>1
      <4> QED
        BY <3>1, <4>1, <4>2
    <3> HIDE DEF i
    <3>3. r[j] = [frame |-> m, i |-> i] /\ r[j + 1] = [frame |-> m, i |-> i + 1]
      BY <1>2, <3>1, <3>2
    <3>4. r[j].frame = m /\ r[j].i = i
      BY <3>3
    <3> QED
      BY <1>1, <3>1, <3>3, <3>4 DEF Follows
  <2> QED
    BY <1>0, <2>0, <2>1, <2>2, <2>3
<1> QED
  BY <1>8, <1>9, <1>10, <1>11 DEF Aligned

\* What is left behind a frame of a, before b.
LEMMA CutBehind ==
  ASSUME NEW U, NEW a \in Seq(U), NEW b \in Seq(U), NEW l \in Nat, Len(a) > l
  PROVE  SubSeq(a, l + 2, Len(a)) \o b = SubSeq(a \o b, l + 2, Len(a \o b))
<1> DEFINE c == SubSeq(a, l + 2, Len(a))
           d == a \o b
           e == SubSeq(d, l + 2, Len(d))
<1>0. Len(a) \in Nat /\ Len(b) \in Nat
  OBVIOUS
<1>1. d \in Seq(U) /\ Len(d) = Len(a) + Len(b)
      /\ \A i \in 1..(Len(a) + Len(b)) : d[i] = IF i <= Len(a) THEN a[i] ELSE b[i - Len(a)]
  BY ConcatProperties
<1>2. /\ c \in Seq(U) /\ Len(c) = Len(a) - (l + 1)
      /\ \A i \in 1..(Len(a) - (l + 2) + 1) : c[i] = a[(l + 2) + i - 1]
  <2>1. \A i \in (l + 2)..Len(a) : a[i] \in U
    BY ElementOfSeq
  <2>2. /\ c \in Seq(U) /\ Len(c) = IF l + 2 <= Len(a) THEN Len(a) - (l + 2) + 1 ELSE 0
        /\ \A i \in 1..(Len(a) - (l + 2) + 1) : c[i] = a[(l + 2) + i - 1]
    BY <1>0, <2>1, SubSeqProperties
  <2> HIDE DEF c
  <2> QED
    BY <1>0, <2>2
<1> HIDE DEF c, d
<1>3. /\ e \in Seq(U) /\ Len(e) = Len(a) + Len(b) - (l + 1)
      /\ \A i \in 1..(Len(d) - (l + 2) + 1) : e[i] = d[(l + 2) + i - 1]
  <2>1. \A i \in (l + 2)..Len(d) : d[i] \in U
    BY <1>1, ElementOfSeq
  <2>2. /\ e \in Seq(U) /\ Len(e) = IF l + 2 <= Len(d) THEN Len(d) - (l + 2) + 1 ELSE 0
        /\ \A i \in 1..(Len(d) - (l + 2) + 1) : e[i] = d[(l + 2) + i - 1]
    BY <1>0, <1>1, <2>1, SubSeqProperties
  <2> HIDE DEF e
  <2> QED
    BY <1>0, <1>1, <2>2
<1>4. /\ c \o b \in Seq(U) /\ Len(c \o b) = Len(c) + Len(b)
      /\ \A i \in 1..(Len(c) + Len(b)) : (c \o b)[i] = IF i <= Len(c) THEN c[i] ELSE b[i - Len(c)]
  BY <1>2, ConcatProperties
<1> HIDE DEF e
<1>5. Len(c \o b) = Len(e)
  BY <1>0, <1>2, <1>3, <1>4
<1>6. ASSUME NEW i \in 1..Len(e) PROVE (c \o b)[i] = e[i]
  <2>0. /\ i \in 1..(Len(c) + Len(b)) /\ i \in 1..(Len(d) - (l + 2) + 1)
        /\ (l + 2) + i - 1 \in 1..(Len(a) + Len(b)) /\ i \in Nat /\ 1 <= i
    BY <1>0, <1>1, <1>2, <1>3, <1>6
  <2>1. e[i] = d[(l + 2) + i - 1]
    BY <1>3, <2>0
  <2>2. CASE i <= Len(c)
    <3>1. i \in 1..(Len(a) - (l + 2) + 1) /\ (l + 2) + i - 1 <= Len(a)
      BY <1>0, <1>2, <2>0, <2>2
    <3>2. (c \o b)[i] = c[i]
      BY <1>4, <2>0, <2>2
    <3>3. c[i] = a[(l + 2) + i - 1]
      BY <1>2, <3>1
    <3>4. d[(l + 2) + i - 1] = a[(l + 2) + i - 1]
      BY <1>1, <2>0, <3>1
    <3> QED
      BY <2>1, <3>2, <3>3, <3>4
  <2>3. CASE ~(i <= Len(c))
    <3>1. ~((l + 2) + i - 1 <= Len(a)) /\ ((l + 2) + i - 1) - Len(a) = i - Len(c)
      BY <1>0, <1>2, <2>0, <2>3
    <3>2. (c \o b)[i] = b[i - Len(c)]
      BY <1>4, <2>0, <2>3
    <3>3. d[(l + 2) + i - 1] = b[((l + 2) + i - 1) - Len(a)]
      BY <1>1, <2>0, <3>1
    <3> QED
      BY <2>1, <3>1, <3>2, <3>3
  <2> QED
    BY <2>2, <2>3
<1>7. c \o b = e
  <2>1. \A i \in 1..Len(e) : (c \o b)[i] = e[i]
    BY <1>6
  <2> DEFINE g == c \o b
  <2>2. g \in Seq(U) /\ Len(g) = Len(e) /\ \A i \in 1..Len(g) : g[i] = e[i]
    BY <1>4, <1>5, <2>1
  <2> HIDE DEF g
  <2>3. g = e
    BY <1>3, <2>2, SeqEqual
  <2> QED
    BY <2>3 DEF g
<1> QED
  BY <1>7 DEF c, d, e

-----------------------------------------------------------------------------
(* What is dispatched, against the definition *)

\* A message ends with a frame behind, or with, the one that begins it.
LEMMA EndsKind ==
  ASSUME NEW s \in Seq(Frames), NEW i \in 1..Len(s), ~Breaks(s, i), EndsMessage(s, i)
  PROVE  FirstOf(s, i) \in 1..i /\ IsData(s[FirstOf(s, i)])
<1>1. i \in Nat /\ 1 <= i /\ i \in 1..i
  OBVIOUS
<1>2. CASE IsData(s[i])
  BY <1>1, <1>2, FirstOfFound
<1>3. CASE InMessage(s, i)
  <2>1. PICK j \in 1..(i - 1) : IsData(s[j])
    BY <1>3 DEF InMessage
  <2>2. j \in 1..i
    BY <1>1, <2>1
  <2> QED
    BY <1>1, <2>1, <2>2, FirstOfFound
<1> QED
  BY <1>2, <1>3 DEF Breaks, EndsMessage

\* Every event of a frame names it.
LEMMA EventsAt ==
  ASSUME NEW s \in Seq(Frames), NEW i \in 1..Len(s), NEW e \in EventsOf(s, i)
  PROVE  e.last = i
<1>1. StopAt(i).last = i /\ MessageOf(FirstOf(s, i), i).last = i
  BY DEF StopAt, MessageOf
<1>2. CASE Breaks(s, i) \/ ~EndsMessage(s, i)
  BY <1>1, <1>2, EventsAre
<1>3. CASE ~Breaks(s, i) /\ EndsMessage(s, i)
  <2> DEFINE k == s[FirstOf(s, i)].kind
             a == FirstOf(s, i)
  <2>1. k \in {"text", "fatal", "binary"}
    BY <1>3, EndsKind DEF IsData
  <2>2. EventsOf(s, i) = Ending(a, k, i)
    BY <1>3, EventsAre
  <2> HIDE DEF k, a
  <2>3. Ending(a, k, i) \subseteq {MessageOf(a, i), StopAt(i)}
    BY <2>1 DEF Ending
  <2> QED
    BY <1>1, <2>2, <2>3 DEF a
<1> QED
  BY <1>2, <1>3

\* DispatchExact of the frames s and the events evs.
InReference(s, e) == e \in Reference(s) \/ (e.stop /\ s[e.last].kind = "ping")

Accounted(s, u) ==
  /\ InOrder(u)
  /\ \A i \in DOMAIN u : InReference(s, u[i])
  /\ \A i \in DOMAIN u, e \in Reference(s) : Precedes(e, u[i]) => e \in Range(u)

LEMMA ExactIs == DispatchExact <=> Accounted(sent, UpToStop(events))
BY DEF DispatchExact, Accounted, InOrder, InReference

LEMMA RangeIs ==
  ASSUME NEW S, NEW u \in Seq(S)
  PROVE  /\ DOMAIN u = 1..Len(u)
         /\ \A i \in DOMAIN u : u[i] \in Range(u)
         /\ \A e \in Range(u) : \E i \in DOMAIN u : u[i] = e
         /\ \A i \in DOMAIN u : u[i] \in S
BY DEF Range

\* The events of the first n frames, and those of the frame behind them.
LEMMA AccountedStep ==
  ASSUME NEW s \in Seq(Frames), NEW n \in 0..Len(s), NEW E, NEW evs \in Seq(E),
         ~Stopped(evs), Range(evs) = Done(s, n), InOrder(evs),
         NEW new \in Seq(E), InOrder(new),
         new # << >> => n + 1 \in 1..Len(s) /\ EventsOf(s, n + 1) \subseteq Range(new),
         \A i \in DOMAIN new :
           /\ new[i].last = n + 1
           /\ \/ new[i] \in EventsOf(s, n + 1)
              \/ new[i].stop /\ s[n + 1].kind = "ping"
  PROVE  Accounted(s, evs \o new)
<1> DEFINE u == evs \o new
           m == Len(evs)
<1>0. /\ u \in Seq(E) /\ Len(u) = m + Len(new) /\ m \in Nat /\ Len(new) \in Nat
      /\ \A i \in 1..(m + Len(new)) : u[i] = IF i <= m THEN evs[i] ELSE new[i - m]
  BY ConcatProperties
<1>1. Range(u) = Range(evs) \cup Range(new)
  BY RangeConcatenation
<1>2. /\ DOMAIN evs = 1..m /\ DOMAIN new = 1..Len(new) /\ DOMAIN u = 1..Len(u)
      /\ \A i \in DOMAIN evs : evs[i] \in Range(evs)
      /\ \A e \in Range(evs) : \E i \in DOMAIN evs : evs[i] = e
  <2> HIDE DEF u
  <2> QED
    BY <1>0, RangeIs
<1>3. n \in Nat /\ n <= Len(s) /\ Len(s) \in Nat
  OBVIOUS
<1> HIDE DEF u
<1>4. \A j \in 1..n : j \in 1..Len(s) /\ \A e \in EventsOf(s, j) : ~e.stop /\ e \in Range(u)
  <2> SUFFICES ASSUME NEW j \in 1..n, NEW e \in EventsOf(s, j)
               PROVE  ~e.stop /\ e \in Range(u)
    BY <1>3
  <2>1. e \in Range(evs)
    BY DEF Done
  <2> QED
    BY <1>1, <1>2, <2>1 DEF Stopped
<1>5. ASSUME NEW i \in 1..m
      PROVE  evs[i] \in Reference(s) /\ evs[i].last \in 1..n
  <2>1. PICK j \in 1..n : evs[i] \in EventsOf(s, j)
    BY <1>2, <1>5 DEF Done
  <2>2. j \in DOMAIN s /\ j \in 1..Len(s) /\ \A l \in 1..(j - 1) : l \in 1..n
    BY <1>3, <2>1
  <2>3. \A l \in 1..(j - 1) : \A e \in EventsOf(s, l) : ~e.stop
    BY <1>4, <2>2
  <2>4. evs[i] \in Reference(s)
    BY <2>1, <2>2, <2>3 DEF Reference
  <2> QED
    BY <2>1, <2>2, <2>4, EventsAt
<1>6. ASSUME NEW i \in 1..Len(new)
      PROVE  n + 1 \in 1..Len(s) /\ EventsOf(s, n + 1) \subseteq Range(new)
  BY <1>6
<1>7. ASSUME NEW i \in 1..Len(new)
      PROVE  InReference(s, new[i])
  <2>1. CASE new[i] \in EventsOf(s, n + 1)
    <3>1. n + 1 \in DOMAIN s /\ (n + 1) - 1 = n
      BY <1>3, <1>6, <1>7
    <3> QED
      BY <1>4, <2>1, <3>1 DEF Reference, InReference
  <2>2. CASE new[i].stop /\ s[n + 1].kind = "ping"
    BY <1>2, <1>7, <2>2 DEF InReference
  <2> QED
    BY <1>2, <1>7, <2>1, <2>2
<1>8. ASSUME NEW i \in DOMAIN u
      PROVE  \/ i \in 1..m /\ u[i] = evs[i]
             \/ i - m \in 1..Len(new) /\ i > m /\ u[i] = new[i - m]
  BY <1>0, <1>2, <1>8
<1>9. InOrder(u)
  <2> SUFFICES ASSUME NEW i \in DOMAIN u, NEW j \in DOMAIN u, i < j
               PROVE  Precedes(u[i], u[j])
    BY DEF InOrder
  <2>0. i \in Nat /\ j \in Nat
    BY <1>0, <1>2
  <2>1. CASE j \in 1..m /\ u[j] = evs[j]
    <3>1. i \in 1..m /\ u[i] = evs[i]
      BY <1>0, <1>8, <2>0, <2>1
    <3> QED
      BY <1>2, <2>1, <3>1 DEF InOrder
  <2>2. CASE /\ j - m \in 1..Len(new) /\ j > m /\ u[j] = new[j - m]
             /\ i \in 1..m /\ u[i] = evs[i]
    <3>1. u[i].last \in 1..n /\ u[j].last = n + 1
      BY <1>2, <1>5, <2>2
    <3> QED
      BY <1>3, <3>1 DEF Precedes
  <2>3. CASE /\ j - m \in 1..Len(new) /\ j > m /\ u[j] = new[j - m]
             /\ i - m \in 1..Len(new) /\ i > m /\ u[i] = new[i - m]
    <3>1. i - m < j - m
      BY <1>0, <2>0
    <3> QED
      BY <1>2, <2>3, <3>1 DEF InOrder
  <2> QED
    BY <1>8, <2>1, <2>2, <2>3
<1>10. ASSUME NEW i \in DOMAIN u PROVE InReference(s, u[i])
  BY <1>5, <1>7, <1>8, <1>10 DEF InReference
<1>11. ASSUME NEW i \in DOMAIN u, NEW e \in Reference(s), Precedes(e, u[i])
       PROVE  e \in Range(u)
  <2>1. PICK j \in DOMAIN s : e \in EventsOf(s, j)
    BY <1>11 DEF Reference
  <2>2. j \in 1..Len(s) /\ j \in Nat /\ e.last = j
    <3>1. j \in 1..Len(s)
      BY <2>1
    <3> QED
      BY <2>1, <3>1, EventsAt
  <2>3. CASE i \in 1..m /\ u[i] = evs[i]
    <3>1. u[i].last \in 1..n
      BY <1>5, <2>3
    <3>2. j \in 1..n
      BY <1>3, <1>11, <2>2, <3>1 DEF Precedes
    <3> QED
      BY <1>4, <2>1, <3>2
  <2>4. CASE i - m \in 1..Len(new) /\ i > m /\ u[i] = new[i - m]
    <3>1. u[i].last = n + 1
      BY <1>2, <2>4
    <3>2. j \in 1..n \/ j = n + 1
      BY <1>3, <1>11, <2>2, <3>1 DEF Precedes
    <3>3. EventsOf(s, n + 1) \subseteq Range(u)
      BY <1>1, <1>6, <2>4
    <3> QED
      BY <1>4, <2>1, <3>2, <3>3
  <2> QED
    BY <1>8, <1>11, <2>3, <2>4
<1> QED
  BY <1>9, <1>10, <1>11 DEF Accounted, u

LEMMA MinExists ==
  ASSUME NEW S \in SUBSET Nat, S # {}
  PROVE  Min(S) \in S /\ \A y \in S : Min(S) <= y
<1> DEFINE R == OpToRel(<, Nat)
<1>1. IsWellFoundedOn(R, Nat)
  BY NatLessThanWellFounded
<1>2. \E m \in S : \A y \in S : ~(<<y, m>> \in R)
  <2> HIDE DEF R
  <2> QED
    BY <1>1, WFMin
<1>3. PICK m \in S : \A y \in S : ~(y < m)
  BY <1>2 DEF OpToRel
<1>4. \E x \in S : \A y \in S : x <= y
  BY <1>3
<1> QED
  BY <1>4 DEF Min

LEMMA MinIs ==
  ASSUME NEW S \in SUBSET Nat, NEW m \in S, \A y \in S : m <= y
  PROVE  Min(S) = m
<1>1. Min(S) \in S /\ Min(S) <= m /\ m <= Min(S)
  BY MinExists
<1>2. Min(S) \in Nat /\ m \in Nat
  BY <1>1
<1> QED
  BY <1>1, <1>2

StopsOf(evs) == {i \in DOMAIN evs : evs[i].stop}

LEMMA UpToStopIs ==
  ASSUME NEW evs
  PROVE  UpToStop(evs) = IF StopsOf(evs) = {} THEN evs ELSE SubSeq(evs, 1, Min(StopsOf(evs)))
BY DEF UpToStop, StopsOf

LEMMA UpToStopOpen ==
  ASSUME NEW evs, ~Stopped(evs)
  PROVE  UpToStop(evs) = evs
<1>1. StopsOf(evs) = {}
  BY DEF Stopped, StopsOf
<1> QED
  BY <1>1, UpToStopIs

\* What is added behind a stop is not looked at.
LEMMA UpToStopStays ==
  ASSUME NEW E, NEW evs \in Seq(E), NEW new \in Seq(E), Stopped(evs)
  PROVE  UpToStop(evs \o new) = UpToStop(evs) /\ Stopped(evs \o new)
<1> DEFINE u == evs \o new
           S == StopsOf(evs)
           T == StopsOf(u)
           m == Min(S)
<1>0. /\ u \in Seq(E) /\ Len(u) = Len(evs) + Len(new) /\ Len(evs) \in Nat /\ Len(new) \in Nat
      /\ \A i \in 1..(Len(evs) + Len(new)) : u[i] = IF i <= Len(evs) THEN evs[i] ELSE new[i - Len(evs)]
  BY ConcatProperties
<1> HIDE DEF u
<1>1. DOMAIN evs = 1..Len(evs) /\ DOMAIN u = 1..Len(u)
  BY <1>0
<1>2. S \in SUBSET Nat /\ S # {} /\ T \in SUBSET Nat
  BY <1>1 DEF Stopped, StopsOf
<1>3. m \in S /\ \A y \in S : m <= y
  <2> HIDE DEF S
  <2> QED
    BY <1>2, MinExists
<1>4. m \in 1..Len(evs) /\ evs[m].stop
  <2> HIDE DEF m
  <2> QED
    BY <1>1, <1>3 DEF StopsOf
<1> HIDE DEF m
<1>5. m \in T
  BY <1>0, <1>1, <1>4 DEF StopsOf
<1>6. ASSUME NEW y \in T PROVE m <= y
  <2>1. y \in 1..(Len(evs) + Len(new)) /\ u[y].stop
    BY <1>0, <1>1, <1>6 DEF StopsOf
  <2>2. CASE y <= Len(evs)
    <3>1. y \in S
      BY <1>0, <1>1, <2>1, <2>2 DEF StopsOf
    <3> QED
      BY <1>3, <3>1
  <2>3. CASE ~(y <= Len(evs))
    BY <1>0, <1>4, <2>1, <2>3
  <2> QED
    BY <2>2, <2>3
<1>7. Min(T) = m
  <2> HIDE DEF T
  <2> QED
    BY <1>2, <1>5, <1>6, MinIs
<1>8. UpToStop(u) = SubSeq(u, 1, m) /\ UpToStop(evs) = SubSeq(evs, 1, m)
  BY <1>2, <1>5, <1>7, UpToStopIs DEF m
<1>9. SubSeq(u, 1, m) = SubSeq(evs, 1, m)
  <2>1. 1 \in 1..Len(evs)
    BY <1>0, <1>4
  <2> QED
    BY <1>4, <2>1, SubSeqOfConcat1 DEF u
<1>10. Stopped(u)
  BY <1>5 DEF Stopped, StopsOf
<1> QED
  BY <1>8, <1>9, <1>10 DEF u

\* The first stop is the last event.
LEMMA UpToStopWhole ==
  ASSUME NEW E, NEW u \in Seq(E), Len(u) # 0, u[Len(u)].stop,
         \A i \in 1..(Len(u) - 1) : ~u[i].stop
  PROVE  UpToStop(u) = u /\ Stopped(u)
<1>0. Len(u) \in Nat \ {0} /\ DOMAIN u = 1..Len(u)
  OBVIOUS
<1>1. Len(u) \in StopsOf(u) /\ StopsOf(u) \in SUBSET Nat
  BY <1>0 DEF StopsOf
<1>2. \A y \in StopsOf(u) : Len(u) <= y
  BY <1>0 DEF StopsOf
<1>3. Min(StopsOf(u)) = Len(u)
  BY <1>1, <1>2, MinIs
<1>4. UpToStop(u) = SubSeq(u, 1, Len(u))
  BY <1>1, <1>3, UpToStopIs
<1>5. SubSeq(u, 1, Len(u)) = u
  BY SubSeqFull
<1> QED
  BY <1>1, <1>4, <1>5 DEF Stopped, StopsOf

\* The end of a connection: the events of the frame that closes it.
LEMMA AccountedEnd ==
  ASSUME NEW s \in Seq(Frames), NEW n \in 0..Len(s), NEW E, NEW evs \in Seq(E),
         ~Stopped(evs), Range(evs) = Done(s, n), InOrder(evs),
         NEW new \in Seq(E), InOrder(new), new # << >>, n + 1 \in 1..Len(s),
         EventsOf(s, n + 1) \subseteq Range(new),
         \A i \in DOMAIN new :
           /\ new[i].last = n + 1
           /\ \/ new[i] \in EventsOf(s, n + 1)
              \/ new[i].stop /\ s[n + 1].kind = "ping",
         new[Len(new)].stop, \A i \in 1..(Len(new) - 1) : ~new[i].stop
  PROVE  Accounted(s, UpToStop(evs \o new)) /\ Stopped(evs \o new)
<1> DEFINE u == evs \o new
           m == Len(evs)
<1>0. /\ u \in Seq(E) /\ Len(u) = m + Len(new) /\ m \in Nat /\ Len(new) \in Nat \ {0}
      /\ \A i \in 1..(m + Len(new)) : u[i] = IF i <= m THEN evs[i] ELSE new[i - m]
  BY ConcatProperties
<1>1. Accounted(s, u)
  BY AccountedStep
<1>2. DOMAIN evs = 1..m
  OBVIOUS
<1> HIDE DEF u, m
<1>3. Len(u) # 0 /\ u[Len(u)].stop
  <2>1. Len(u) \in 1..(m + Len(new)) /\ ~(Len(u) <= m) /\ Len(u) - m = Len(new)
    BY <1>0
  <2> QED
    BY <1>0, <2>1
<1>4. ASSUME NEW i \in 1..(Len(u) - 1) PROVE ~u[i].stop
  <2>0. i \in 1..(m + Len(new))
    BY <1>0, <1>4
  <2>1. CASE i <= m
    <3>1. i \in DOMAIN evs /\ u[i] = evs[i]
      BY <1>0, <1>2, <2>0, <2>1
    <3> QED
      BY <3>1 DEF Stopped
  <2>2. CASE ~(i <= m)
    <3>1. i - m \in 1..(Len(new) - 1)
      BY <1>0, <1>4, <2>2
    <3> QED
      BY <1>0, <2>0, <2>2, <3>1
  <2> QED
    BY <2>1, <2>2
<1>5. UpToStop(u) = u /\ Stopped(u)
  BY <1>0, <1>3, <1>4, UpToStopWhole
<1> QED
  BY <1>1, <1>5 DEF u

\* Frames that come later change nothing.
LEMMA DoneLater ==
  ASSUME NEW s \in Seq(Frames), NEW f \in Frames, NEW n \in 0..Len(s)
  PROVE  Done(Append(s, f), n) = Done(s, n)
<1>1. \A i \in 1..n : i \in 0..Len(s) /\ i # 0
  OBVIOUS
<1>2. \A i \in 1..n : EventsOf(Append(s, f), i) = EventsOf(s, i)
  BY <1>1, LaterFrames
<1> DEFINE t == Append(s, f)
<1> HIDE DEF t
<1>3. \A i \in 1..n : EventsOf(t, i) = EventsOf(s, i)
  BY <1>2 DEF t
<1>4. Done(t, n) = Done(s, n)
  BY <1>3 DEF Done
<1> QED
  BY <1>4 DEF t

LEMMA AccountedLater ==
  ASSUME NEW s \in Seq(Frames), NEW f \in Frames, NEW u,
         \A i \in DOMAIN u : u[i].last \in 1..Len(s), Accounted(s, u)
  PROVE  Accounted(Append(s, f), u)
<1> DEFINE t == Append(s, f)
<1>0. /\ Len(s) \in Nat /\ t \in Seq(Frames) /\ Len(t) = Len(s) + 1 /\ DOMAIN t = 1..(Len(s) + 1)
      /\ DOMAIN s = 1..Len(s) /\ \A i \in 1..Len(s) : t[i] = s[i]
  OBVIOUS
<1>1. \A i \in 1..Len(s) : EventsOf(t, i) = EventsOf(s, i)
  <2>1. \A i \in 1..Len(s) : i \in 0..Len(s) /\ i # 0
    BY <1>0
  <2> QED
    BY <2>1, LaterFrames
<1> HIDE DEF t
<1>2. ASSUME NEW e \in Reference(s) PROVE e \in Reference(t)
  <2>1. PICK i \in DOMAIN s : /\ e \in EventsOf(s, i)
                              /\ \A j \in 1..(i - 1) : \A d \in EventsOf(s, j) : ~d.stop
    BY <1>2 DEF Reference
  <2>2. i \in 1..Len(s) /\ i \in DOMAIN t /\ \A j \in 1..(i - 1) : j \in 1..Len(s)
    BY <1>0, <2>1
  <2>3. e \in EventsOf(t, i) /\ \A j \in 1..(i - 1) : \A d \in EventsOf(t, j) : ~d.stop
    BY <1>1, <2>1, <2>2
  <2> QED
    BY <2>2, <2>3 DEF Reference
<1>3. ASSUME NEW e \in Reference(t), NEW d, d.last \in 1..Len(s), Precedes(e, d)
      PROVE  e \in Reference(s)
  <2>1. PICK i \in DOMAIN t : /\ e \in EventsOf(t, i)
                              /\ \A j \in 1..(i - 1) : \A c \in EventsOf(t, j) : ~c.stop
    BY <1>3 DEF Reference
  <2>2. i \in 1..Len(t)
    BY <1>0, <2>1
  <2>3. e.last = i
    BY <1>0, <2>1, <2>2, EventsAt
  <2>4. i \in 1..Len(s) /\ \A j \in 1..(i - 1) : j \in 1..Len(s)
    BY <1>0, <1>3, <2>2, <2>3 DEF Precedes
  <2>5. e \in EventsOf(s, i) /\ \A j \in 1..(i - 1) : \A c \in EventsOf(s, j) : ~c.stop
    BY <1>1, <2>1, <2>4
  <2> QED
    BY <1>0, <2>4, <2>5 DEF Reference
<1>4. InOrder(u)
  BY DEF Accounted
<1>5. \A i \in DOMAIN u : InReference(t, u[i])
  BY <1>0, <1>2 DEF Accounted, InReference
<1>6. ASSUME NEW i \in DOMAIN u, NEW e \in Reference(t), Precedes(e, u[i]) PROVE e \in Range(u)
  <2>1. e \in Reference(s)
    BY <1>3, <1>6
  <2> QED
    BY <1>6, <2>1 DEF Accounted
<1> QED
  BY <1>4, <1>5, <1>6 DEF Accounted, t

\* The events up to the first stop are events.
LEMMA UpToStopFrom ==
  ASSUME NEW E, NEW evs \in Seq(E)
  PROVE  \A i \in DOMAIN UpToStop(evs) : UpToStop(evs)[i] \in E
<1>1. CASE StopsOf(evs) = {}
  BY <1>1, UpToStopIs, RangeIs
<1>2. CASE StopsOf(evs) # {}
  <2> DEFINE m == Min(StopsOf(evs))
  <2>1. StopsOf(evs) \in SUBSET Nat /\ \A y \in StopsOf(evs) : y \in 1..Len(evs)
    BY DEF StopsOf
  <2>2. m \in StopsOf(evs)
    BY <1>2, <2>1, MinExists
  <2> HIDE DEF m
  <2>3. m \in 1..Len(evs) /\ m \in Int /\ 1 \in Int /\ \A i \in 1..m : evs[i] \in E
    BY <2>1, <2>2
  <2>4. SubSeq(evs, 1, m) \in Seq(E)
    BY <2>3, SubSeqProperties
  <2>5. UpToStop(evs) = SubSeq(evs, 1, m)
    BY <1>2, UpToStopIs DEF m
  <2> QED
    BY <2>4, <2>5, RangeIs
<1> QED
  BY <1>1, <1>2

-----------------------------------------------------------------------------
(* The goroutines *)

Parsing == \E k \in Readers : reader[k] = "parse"

LEMMA RestIs == Rest = (IF Parsing THEN cur ELSE rbuf) \o kernel
BY DEF Rest, Parsing

LEMMA RestSent ==
  ASSUME TypeInv
  PROVE  /\ Rest \in Seq(SentUnit) /\ Len(Rest) \in Nat
         /\ \A j \in 1..Len(Rest) : Rest[j].frame \in 1..Len(sent)
<1>1. Rest \in Seq(SentUnit)
  BY RestIs DEF TypeInv
<1>2. \A j \in 1..Len(Rest) : Rest[j] \in SentUnit
  BY <1>1, ElementOfSeq
<1> QED
  BY <1>1, <1>2 DEF SentUnit

\* A goroutine that does not hold rmu goes on without it.
LEMMA HoldersStay ==
  ASSUME OneHolder, \A k \in Readers : HoldsRmu(k)' => HoldsRmu(k)
  PROVE  OneHolder'
BY DEF OneHolder

\* One goroutine moves from a place where it does, or does not, hold rmu.
LEMMA Moves ==
  ASSUME TypeInv, OneHolder, NEW k \in Readers, NEW p,
         reader' = [reader EXCEPT ![k] = p],
         p \in {"parse", "read", "close"} => HoldsRmu(k)
  PROVE  OneHolder'
<1>1. \A l \in Readers : reader'[l] = IF l = k THEN p ELSE reader[l]
  BY DEF TypeInv
<1>2. \A l \in Readers : HoldsRmu(l)' => HoldsRmu(l)
  BY <1>1 DEF HoldsRmu
<1> QED
  BY <1>2, HoldersStay

\* ... and between places where it does not parse.
LEMMA ParsingStays ==
  ASSUME TypeInv, NEW k \in Readers, NEW p, reader' = [reader EXCEPT ![k] = p],
         p # "parse", reader[k] # "parse"
  PROVE  Parsing' <=> Parsing
<1>1. \A l \in Readers : reader'[l] = IF l = k THEN p ELSE reader[l]
  BY DEF TypeInv
<1> QED
  BY <1>1 DEF Parsing

LEMMA RestStays ==
  ASSUME Parsing' <=> Parsing, UNCHANGED <<cur, rbuf, kernel>>
  PROVE  Rest' = Rest
<1>1. Rest' = (IF Parsing' THEN cur' ELSE rbuf') \o kernel'
  BY DEF Rest, Parsing
<1> QED
  BY <1>1, RestIs

\* Steps that parse nothing.
LEMMA QuietStep ==
  ASSUME TypeInv, ReadInv, DispatchExact, OneHolder', Rest' = Rest,
         UNCHANGED <<sent, frag, events>>
  PROVE  ReadInv' /\ DispatchExact'
<1>1. ASSUME NEW n \in 0..Len(sent), Parsed(n) PROVE Parsed(n)'
  BY <1>1 DEF Parsed
<1>2. Stopped(events)' <=> Stopped(events)
  BY DEF Stopped
<1>3. ReadInv'
  BY <1>1, <1>2 DEF ReadInv
<1> QED
  BY <1>3 DEF DispatchExact

LEMMA QuietMove ==
  ASSUME TypeInv, ReadInv, DispatchExact, NEW k \in Readers, NEW p,
         reader' = [reader EXCEPT ![k] = p],
         p \in {"read", "close"} => HoldsRmu(k), p # "parse", reader[k] # "parse",
         UNCHANGED <<sent, kernel, rbuf, cur, frag, events>>
  PROVE  ReadInv' /\ DispatchExact'
<1>1. OneHolder'
  BY Moves DEF ReadInv
<1>2. Rest' = Rest
  BY ParsingStays, RestStays
<1> QED
  BY <1>1, <1>2, QuietStep

LEMMA StartQuiet ==
  ASSUME TypeInv, ReadInv, DispatchExact, NEW k \in Readers, Start(k),
         UNCHANGED <<sent, kernel, rbuf, cur, frag, events>>
  PROVE  ReadInv' /\ DispatchExact'
BY QuietMove DEF Start

LEMMA StillQuiet ==
  ASSUME TypeInv, ReadInv, DispatchExact,
         UNCHANGED <<sent, kernel, rbuf, cur, frag, events, reader>>
  PROVE  ReadInv' /\ DispatchExact'
<1>1. OneHolder'
  BY DEF OneHolder, HoldsRmu, ReadInv
<1>2. Parsing' <=> Parsing
  BY DEF Parsing
<1> QED
  BY <1>1, <1>2, RestStays, QuietStep

LEMMA PollSteps ==
  ASSUME TypeInv, ReadInv, DispatchExact,
         ClientCloses \/ Watch \/ ServePending \/ Deliver \/ CallClose \/ CloseRest
  PROVE  ReadInv' /\ DispatchExact'
<1> USE DEF readVars, pollVars
<1>0. 1 \in Readers
  BY DEF Readers
<1>1. UNCHANGED <<sent, kernel, rbuf, cur, frag, events>>
  BY DEF ClientCloses, Watch, ServePending, Deliver, CallClose, CloseRest
<1>2. UNCHANGED reader \/ \E k \in Readers : Start(k)
  BY <1>0 DEF ClientCloses, Watch, ServePending, Deliver, CallClose, CloseRest
<1> QED
  BY <1>1, <1>2, StartQuiet, StillQuiet

LEMMA ControlSteps ==
  ASSUME TypeInv, ReadInv, DispatchExact, NEW k \in Readers,
         ReadNothing(k) \/ ReadFails(k) \/ LeaveClose(k) \/ CheckClosed(k)
           \/ Rearm(k) \/ RearmFails(k)
  PROVE  ReadInv' /\ DispatchExact'
<1> USE DEF readVars, pollVars
<1>1. CASE ReadNothing(k)
  BY <1>1, QuietMove DEF ReadNothing
<1>2. CASE ReadFails(k)
  BY <1>2, QuietMove DEF ReadFails, EnterClose, HoldsRmu
<1>3. CASE LeaveClose(k)
  BY <1>3, QuietMove DEF LeaveClose
<1>4. CASE CheckClosed(k)
  <2>1. PICK p \in {"none", "rearm", "lock"} : reader' = [reader EXCEPT ![k] = p]
    BY <1>4 DEF CheckClosed
  <2> QED
    BY <1>4, <2>1, QuietMove DEF CheckClosed
<1>5. CASE Rearm(k)
  BY <1>5, QuietMove DEF Rearm
<1>6. CASE RearmFails(k)
  BY <1>6, QuietMove DEF RearmFails
<1> QED
  BY <1>1, <1>2, <1>3, <1>4, <1>5, <1>6

\* Only the holder of rmu parses.
LEMMA HolderParses ==
  ASSUME OneHolder, NEW k \in Readers, HoldsRmu(k)
  PROVE  Parsing <=> reader[k] = "parse"
BY DEF OneHolder, HoldsRmu, Parsing

LEMMA LockStep ==
  ASSUME TypeInv, ReadInv, DispatchExact, NEW k \in Readers, Lock(k)
  PROVE  ReadInv' /\ DispatchExact'
<1> DEFINE p == IF rbuf # << >> THEN "parse" ELSE "read"
<1>1. /\ \A l \in Readers : ~HoldsRmu(l)
      /\ \A l \in Readers : reader'[l] = IF l = k THEN p ELSE reader[l]
      /\ cur' = rbuf /\ UNCHANGED <<sent, kernel, rbuf, frag, events>>
  BY DEF Lock, TypeInv
<1>2. OneHolder'
  BY <1>1 DEF OneHolder, HoldsRmu
<1>3. ~Parsing
  BY <1>1 DEF Parsing, HoldsRmu
<1>4. Rest' = (IF Parsing' THEN cur' ELSE rbuf') \o kernel'
  BY DEF Rest, Parsing
<1>5. Rest' = Rest
  BY <1>1, <1>3, <1>4, RestIs
<1> QED
  BY <1>1, <1>2, <1>5, QuietStep

LEMMA ReadSomeStep ==
  ASSUME TypeInv, ReadInv, DispatchExact, NEW k \in Readers, ReadSome(k)
  PROVE  ReadInv' /\ DispatchExact'
<1>1. PICK n \in 1..ReadChunk :
        /\ reader[k] = "read" /\ n <= Len(kernel)
        /\ kernel' = SubSeq(kernel, n + 1, Len(kernel))
        /\ cur' = rbuf \o SubSeq(kernel, 1, n)
        /\ reader' = [reader EXCEPT ![k] = "parse"]
        /\ UNCHANGED <<sent, frag, events>>
  BY DEF ReadSome
<1>2. OneHolder' /\ ~Parsing
  BY <1>1, Moves, HolderParses DEF ReadInv, HoldsRmu
<1>3. Parsing'
  BY <1>1 DEF Parsing, TypeInv
<1>4. Rest' = (IF Parsing' THEN cur' ELSE rbuf') \o kernel'
  BY DEF Rest, Parsing
<1>5. n \in Nat /\ Len(kernel) \in Nat /\ 1 <= n /\ kernel \in Seq(SentUnit) /\ rbuf \in Seq(SentUnit)
  BY <1>1, WsReaderAssumption DEF TypeInv
<1> DEFINE a == SubSeq(kernel, 1, n)
           b == SubSeq(kernel, n + 1, Len(kernel))
<1>6. a \in Seq(SentUnit) /\ b \in Seq(SentUnit)
  BY <1>1, <1>5, ElementOfSeq, SubSeqProperties
<1>7. a \o b = kernel
  <2>1. /\ 1 \in 1..(Len(kernel) + 1) /\ n \in (1 - 1)..Len(kernel)
        /\ Len(kernel) \in n..Len(kernel)
    BY <1>1, <1>5
  <2>2. a \o b = SubSeq(kernel, 1, Len(kernel))
    BY <1>5, <2>1, ConcatAdjacentSubSeq
  <2>3. SubSeq(kernel, 1, Len(kernel)) = kernel
    BY <1>5, SubSeqFull
  <2> QED
    BY <2>2, <2>3
<1>8. Rest' = (rbuf \o a) \o b
  BY <1>1, <1>3, <1>4
<1>9. (rbuf \o a) \o b = rbuf \o (a \o b)
  <2> HIDE DEF a, b
  <2>1. \A x, y, z \in Seq(SentUnit) : (x \o y) \o z = x \o (y \o z)
    BY ConcatAssociative
  <2>2. rbuf \in Seq(SentUnit)
    BY <1>5
  <2> QED
    BY <1>6, <2>1, <2>2
<1>10. Rest' = Rest
  BY <1>2, <1>7, <1>8, <1>9, RestIs
<1> QED
  BY <1>1, <1>2, <1>10, QuietStep

LEMMA EndConsumeStep ==
  ASSUME TypeInv, ReadInv, DispatchExact, NEW k \in Readers, EndConsume(k)
  PROVE  ReadInv' /\ DispatchExact'
<1>1. PICK p \in {"read", "checked"} : reader' = [reader EXCEPT ![k] = p]
  BY DEF EndConsume
<1>2. reader[k] = "parse" /\ rbuf' = cur /\ UNCHANGED <<sent, kernel, frag, events>>
  BY DEF EndConsume
<1>3. OneHolder' /\ Parsing
  BY <1>1, <1>2, Moves DEF ReadInv, HoldsRmu, Parsing
<1>4. \A l \in Readers : l # k => reader[l] # "parse"
  BY <1>2 DEF ReadInv, OneHolder, HoldsRmu
<1>5. ~Parsing'
  BY <1>1, <1>4 DEF Parsing, TypeInv
<1>6. Rest' = (IF Parsing' THEN cur' ELSE rbuf') \o kernel'
  BY DEF Rest, Parsing
<1>7. Rest' = Rest
  BY <1>2, <1>3, <1>5, <1>6, RestIs
<1> QED
  BY <1>2, <1>3, <1>7, QuietStep

-----------------------------------------------------------------------------
(* The frames *)

LEMMA SentUnits ==
  ASSUME TypeInv
  PROVE  Rest \in Seq([frame : Nat, i : Nat])
<1> DEFINE U == [frame : Nat, i : Nat]
<1>1. SentUnit \subseteq U
  BY DEF SentUnit, TypeInv
<1> HIDE DEF U
<1>2. Rest \in Seq(U)
  BY <1>1, RestSent, SeqMonotonic
<1> QED
  BY <1>2 DEF U

LEMMA FragLater ==
  ASSUME NEW s \in Seq(Frames), NEW f \in Frames, NEW n \in 0..Len(s), NEW g, FragOK(s, n, g)
  PROVE  FragOK(Append(s, f), n, g)
<1> DEFINE t == Append(s, f)
<1>1. n \in Nat /\ \A i \in 1..n : t[i] = s[i]
  OBVIOUS
<1>2. /\ InMessage(t, n + 1) <=> InMessage(s, n + 1)
      /\ FirstOf(t, n) = FirstOf(s, n)
      /\ FirstOf(s, n) \in 1..n => Payload(t, n) = Payload(s, n)
  BY LaterFrames
<1>3. InMessage(s, n + 1) => FirstOf(s, n) \in 1..n
  BY <1>1, MessageBegins
<1> HIDE DEF t
<1>4. InMessage(s, n + 1) => t[FirstOf(s, n)] = s[FirstOf(s, n)]
  BY <1>1, <1>3
<1>5. FragOK(t, n, g)
  BY <1>2, <1>3, <1>4 DEF FragOK
<1> QED
  BY <1>5 DEF t

LEMMA ClientSendsStep ==
  ASSUME TypeInv, ReadInv, DispatchExact, NEW f \in Frames, ClientSends(f)
  PROVE  ReadInv' /\ DispatchExact'
<1> USE DEF readVars, pollVars
<1> DEFINE w == FrameUnits(Len(sent) + 1, f)
<1>1. sent' = Append(sent, f) /\ kernel' = kernel \o w /\ UNCHANGED <<reader, rbuf, cur, frag, events>>
  BY DEF ClientSends
<1>2. sent \in Seq(Frames) /\ Len(sent) \in Nat /\ Len(sent') = Len(sent) + 1
  BY <1>1 DEF TypeInv
<1>3. OneHolder' /\ (Parsing' <=> Parsing)
  BY <1>1 DEF OneHolder, HoldsRmu, ReadInv, Parsing
<1>4. Rest' = Rest \o w
  <2> DEFINE U == [frame : Nat, i : Nat]
             a == IF Parsing THEN cur ELSE rbuf
  <2>1. SentUnit \subseteq U /\ [frame : {Len(sent) + 1}, i : Nat] \subseteq U
    BY <1>2 DEF SentUnit
  <2>2. w \in Seq([frame : {Len(sent) + 1}, i : Nat])
    BY <1>2, FrameUnitsAre
  <2> HIDE DEF U, w
  <2>3. a \in Seq(U) /\ kernel \in Seq(U)
    BY <2>1, SeqMonotonic DEF TypeInv
  <2>4. w \in Seq(U)
    BY <2>1, <2>2, SeqMonotonic
  <2>5. Rest' = (IF Parsing' THEN cur' ELSE rbuf') \o kernel'
    BY DEF Rest, Parsing
  <2>6. Rest' = a \o (kernel \o w)
    BY <1>1, <1>3, <2>5
  <2>7. Rest = a \o kernel
    BY RestIs
  <2> HIDE DEF a
  <2>8. (a \o kernel) \o w = a \o (kernel \o w)
    BY <2>3, <2>4, ConcatAssociative, SMTT(30)
  <2> QED
    BY <2>6, <2>7, <2>8
<1>5. ASSUME NEW n \in 0..Len(sent), Parsed(n) PROVE Parsed(n)' /\ n \in 0..Len(sent')
  <2>1. Aligned(sent', Rest', n)
    BY <1>1, <1>2, <1>4, <1>5, AlignedSend, SentUnits, RestSent DEF Parsed
  <2>2. FragOK(sent', n, frag')
    BY <1>1, <1>2, <1>5, FragLater DEF Parsed
  <2>3. Range(events') = Done(sent', n)
    BY <1>1, <1>2, <1>5, DoneLater DEF Parsed
  <2>4. n \in 0..Len(sent')
    BY <1>2, <1>5
  <2> QED
    BY <1>1, <1>5, <2>1, <2>2, <2>3, <2>4 DEF Parsed
<1>6. ReadInv'
  BY <1>1, <1>3, <1>5 DEF ReadInv, Stopped
<1>7. DispatchExact'
  <2> DEFINE u == UpToStop(events)
  <2>1. \A i \in DOMAIN u : u[i] \in SentEvent
    BY UpToStopFrom DEF TypeInv
  <2>2. \A i \in DOMAIN u : u[i].last \in 1..Len(sent)
    BY <2>1 DEF SentEvent
  <2>3. Accounted(sent, u)
    BY ExactIs
  <2> HIDE DEF u
  <2>4. Accounted(sent', u)
    BY <1>1, <1>2, <2>2, <2>3, AccountedLater
  <2>5. UpToStop(events') = u
    BY <1>1 DEF u
  <2>6. DispatchExact' <=> Accounted(sent', UpToStop(events'))
    BY DEF DispatchExact, Accounted, InOrder, InReference
  <2> QED
    BY <2>4, <2>5, <2>6
<1> QED
  BY <1>6, <1>7

\* Behind the first stop anything may follow.
LEMMA StoppedStep ==
  ASSUME TypeInv, ReadInv, DispatchExact, Stopped(events), OneHolder',
         NEW new \in Seq(SentEvent), events' = events \o new, UNCHANGED sent
  PROVE  ReadInv' /\ DispatchExact'
<1>1. events \in Seq(SentEvent)
  BY DEF TypeInv
<1>2. UpToStop(events') = UpToStop(events) /\ Stopped(events')
  BY <1>1, UpToStopStays
<1>3. ReadInv'
  BY <1>2 DEF ReadInv, Stopped
<1>4. DispatchExact' <=> Accounted(sent', UpToStop(events'))
  BY DEF DispatchExact, Accounted, InOrder, InReference
<1> QED
  BY <1>2, <1>3, <1>4, ExactIs

\* As long as nothing stopped, the events are those of the frames parsed.
LEMMA AccountedOpen ==
  ASSUME NEW s \in Seq(Frames), NEW n \in 0..Len(s), NEW E, NEW evs \in Seq(E),
         ~Stopped(evs), Range(evs) = Done(s, n), InOrder(evs)
  PROVE  Accounted(s, UpToStop(evs))
<1>1. << >> \in Seq(E) /\ InOrder(<< >>) /\ DOMAIN << >> = {}
  BY DEF InOrder
<1>2. Accounted(s, evs \o << >>)
  <2> DEFINE new == << >>
  <2>1. new \in Seq(E) /\ InOrder(new) /\ new = << >> /\ \A i \in DOMAIN new : FALSE
    BY <1>1
  <2> HIDE DEF new
  <2>2. Accounted(s, evs \o new)
    BY <2>1, AccountedStep
  <2> QED
    BY <2>2 DEF new
<1>3. evs \o << >> = evs
  BY ConcatEmptySeq
<1> QED
  BY <1>2, <1>3, UpToStopOpen

LEMMA ExactNext == DispatchExact' <=> Accounted(sent', UpToStop(events'))
BY DEF DispatchExact, Accounted, InOrder, InReference

\* The frame at the head is the next of the frames sent, and what is left
\* behind it are the frames behind it.
LEMMA HeadIsNext ==
  ASSUME TypeInv, NEW k \in Readers, reader[k] = "parse", cur # << >>,
         NEW n \in 0..Len(sent), Parsed(n)
  PROVE  /\ n < Len(sent) /\ n + 1 \in 1..Len(sent) /\ HeadNo = n + 1 /\ HeadFrame = sent[n + 1]
         /\ sent[n + 1] \in Frames
         /\ Complete => Aligned(sent, SubSeq(cur, HeadFrame.len + 2, Len(cur)) \o kernel, n + 1)
<1>0. /\ sent \in Seq(Frames) /\ cur \in Seq(SentUnit) /\ kernel \in Seq(SentUnit)
      /\ n \in Nat /\ Len(sent) \in Nat /\ n <= Len(sent)
  BY DEF TypeInv
<1>1. Rest = cur \o kernel
  BY RestIs DEF Parsing
<1>2. /\ Rest \in Seq(SentUnit) /\ Len(Rest) = Len(cur) + Len(kernel) /\ Len(cur) \in Nat \ {0}
      /\ Len(kernel) \in Nat /\ Rest[1] = cur[1]
  <2>1. Len(cur) \in Nat \ {0} /\ Len(kernel) \in Nat
    BY <1>0
  <2>2. /\ cur \o kernel \in Seq(SentUnit) /\ Len(cur \o kernel) = Len(cur) + Len(kernel)
        /\ \A i \in 1..(Len(cur) + Len(kernel)) : (cur \o kernel)[i] =
                     IF i <= Len(cur) THEN cur[i] ELSE kernel[i - Len(cur)]
    BY <1>0, ConcatProperties
  <2>3. 1 \in 1..(Len(cur) + Len(kernel)) /\ 1 <= Len(cur)
    BY <2>1
  <2> QED
    BY <1>1, <2>1, <2>2, <2>3
<1>3. Rest # << >>
  BY <1>2
<1>4. n # Len(sent) /\ Rest[1] = [frame |-> n + 1, i |-> 1]
  BY <1>3 DEF Parsed, Aligned
<1>5. n < Len(sent) /\ n + 1 \in 1..Len(sent)
  BY <1>0, <1>4
<1>6. HeadNo = n + 1 /\ HeadFrame = sent[n + 1]
  BY <1>2, <1>4, HeadSent
<1>7. sent[n + 1] \in Frames /\ sent[n + 1].len \in Nat
  BY <1>0, <1>5, FrameTypes
<1>8. ASSUME Complete PROVE Aligned(sent, SubSeq(cur, HeadFrame.len + 2, Len(cur)) \o kernel, n + 1)
  <2>1. Len(cur) > sent[n + 1].len /\ Len(Rest) > sent[n + 1].len
    BY <1>2, <1>6, <1>7, <1>8 DEF Complete
  <2>2. \A j \in 1..Len(Rest) : Rest[j].frame <= Len(sent)
    BY <1>0, RestSent
  <2>3. Aligned(sent, SubSeq(Rest, sent[n + 1].len + 2, Len(Rest)), n + 1)
    BY <1>0, <1>2, <1>5, <2>1, <2>2, AlignedNext DEF Parsed
  <2>4. SubSeq(cur, sent[n + 1].len + 2, Len(cur)) \o kernel
          = SubSeq(cur \o kernel, sent[n + 1].len + 2, Len(cur \o kernel))
    BY <1>0, <1>7, <2>1, CutBehind
  <2> QED
    BY <1>1, <1>6, <2>3, <2>4
<1> QED
  BY <1>5, <1>6, <1>7, <1>8

LEMMA DoneStep ==
  ASSUME NEW s, NEW n \in Nat
  PROVE  Done(s, n + 1) = Done(s, n) \cup EventsOf(s, n + 1)
<1>1. 1..(n + 1) = (1..n) \cup {n + 1}
  OBVIOUS
<1> QED
  BY <1>1 DEF Done

\* A frame is parsed and the connection goes on.
LEMMA Advance ==
  ASSUME TypeInv, TypeInv', ReadInv, NEW k \in Readers, reader[k] = "parse", cur # << >>, Complete,
         NEW n \in 0..Len(sent), Parsed(n), UNCHANGED <<sent, kernel, reader>>,
         cur' = SubSeq(cur, HeadFrame.len + 2, Len(cur)),
         FragOK(sent, n + 1, frag'), ~Stopped(events'),
         Range(events') = Done(sent, n + 1), InOrder(events')
  PROVE  ReadInv' /\ DispatchExact'
<1>1. n + 1 \in 0..Len(sent') /\ Aligned(sent, SubSeq(cur, HeadFrame.len + 2, Len(cur)) \o kernel, n + 1)
  BY HeadIsNext
<1>2. Rest' = cur' \o kernel'
  BY DEF Rest
<1>3. Parsed(n + 1)'
  BY <1>1, <1>2 DEF Parsed
<1>4. ReadInv'
  <2>1. OneHolder'
    BY DEF ReadInv, OneHolder, HoldsRmu
  <2> QED
    BY <1>1, <1>3, <2>1 DEF ReadInv
<1>5. DispatchExact'
  <2>1. sent' \in Seq(Frames) /\ events' \in Seq(SentEvent')
    BY DEF TypeInv
  <2>2. Range(events') = Done(sent', n + 1)
    OBVIOUS
  <2>3. Accounted(sent', UpToStop(events'))
    BY <1>1, <2>1, <2>2, AccountedOpen
  <2> QED
    BY <2>3, ExactNext
<1> QED
  BY <1>4, <1>5

\* The reader closes the connection on the frame at the head.
LEMMA Ends ==
  ASSUME TypeInv, ReadInv, ~Stopped(events), NEW k \in Readers, reader[k] = "parse", cur # << >>,
         NEW n \in 0..Len(sent), Parsed(n), UNCHANGED sent, OneHolder',
         NEW new \in Seq(SentEvent), events' = events \o new,
         EventsOf(sent, n + 1) \subseteq Range(new), InOrder(new), new # << >>,
         \A i \in DOMAIN new :
           /\ new[i].last = n + 1
           /\ \/ new[i] \in EventsOf(sent, n + 1)
              \/ new[i].stop /\ sent[n + 1].kind = "ping",
         new[Len(new)].stop, \A i \in 1..(Len(new) - 1) : ~new[i].stop
  PROVE  ReadInv' /\ DispatchExact'
<1>1. n + 1 \in 1..Len(sent)
  BY HeadIsNext
<1>2. sent \in Seq(Frames) /\ events \in Seq(SentEvent)
  BY DEF TypeInv
<1>3. Accounted(sent, UpToStop(events')) /\ Stopped(events')
  BY <1>1, <1>2, AccountedEnd DEF Parsed
<1>4. ReadInv'
  BY <1>3 DEF ReadInv, Stopped
<1> QED
  BY <1>3, <1>4, ExactNext

LEMMA OneEvent ==
  ASSUME NEW E, NEW e \in E
  PROVE  /\ <<e>> \in Seq(E) /\ <<e>> # << >> /\ Len(<<e>>) = 1 /\ DOMAIN <<e>> = {1} /\ <<e>>[1] = e
         /\ Range(<<e>>) = {e} /\ InOrder(<<e>>) /\ \A i \in 1..(Len(<<e>>) - 1) : FALSE
<1>1. <<e>> \in Seq(E) /\ <<e>> # << >> /\ Len(<<e>>) = 1 /\ DOMAIN <<e>> = {1} /\ <<e>>[1] = e
  OBVIOUS
<1>2. Range(<<e>>) = {e}
  BY <1>1 DEF Range
<1>3. InOrder(<<e>>)
  BY <1>1 DEF InOrder
<1> QED
  BY <1>1, <1>2, <1>3

LEMMA TwoEvents ==
  ASSUME NEW E, NEW d \in E, NEW e \in E, d.last = e.last, ~d.stop, e.stop
  PROVE  /\ <<d, e>> \in Seq(E) /\ <<d, e>> # << >> /\ Len(<<d, e>>) = 2
         /\ DOMAIN <<d, e>> = {1, 2} /\ <<d, e>>[1] = d /\ <<d, e>>[2] = e
         /\ Range(<<d, e>>) = {d, e} /\ InOrder(<<d, e>>)
         /\ \A i \in 1..(Len(<<d, e>>) - 1) : i = 1
<1> DEFINE u == <<d, e>>
<1>1. /\ u \in Seq(E) /\ u # << >> /\ Len(u) = 2 /\ DOMAIN u = {1, 2} /\ u[1] = d /\ u[2] = e
      /\ \A i \in 1..(Len(u) - 1) : i = 1
  OBVIOUS
<1> HIDE DEF u
<1>2. Range(u) = {d, e}
  BY <1>1 DEF Range
<1>3. InOrder(u)
  <2> SUFFICES ASSUME NEW i \in DOMAIN u, NEW j \in DOMAIN u, i < j PROVE Precedes(u[i], u[j])
    BY DEF InOrder
  <2>1. i = 1 /\ j = 2
    BY <1>1
  <2> QED
    BY <1>1, <2>1 DEF Precedes
<1> QED
  BY <1>1, <1>2, <1>3 DEF u

LEMMA StopTypes ==
  ASSUME TypeInv, cur # << >>
  PROVE  /\ StopAt(HeadNo) \in SentEvent /\ StopAt(HeadNo).stop /\ StopAt(HeadNo).last = HeadNo
         /\ \A a \in 0..MaxSent : /\ MessageOf(a, HeadNo) \in SentEvent
                                  /\ ~MessageOf(a, HeadNo).stop
                                  /\ MessageOf(a, HeadNo).last = HeadNo
<1>1. HeadNo \in 1..Len(sent) /\ 0 \in 0..MaxSent
  BY HeadSent, WsReaderAssumption
<1> QED
  BY <1>1 DEF StopAt, MessageOf, SentEvent

LEMMA CloseHolder ==
  ASSUME TypeInv, ReadInv, NEW k \in Readers, reader[k] = "parse", EnterClose(k)
  PROVE  OneHolder'
BY Moves DEF EnterClose, ReadInv, HoldsRmu

LEMMA RefuseFrameStep ==
  ASSUME TypeInv, ReadInv, DispatchExact, NEW k \in Readers, RefuseFrame(k)
  PROVE  ReadInv' /\ DispatchExact'
<1> DEFINE e == StopAt(HeadNo)
           f == HeadFrame
<1>1. /\ reader[k] = "parse" /\ cur # << >> /\ events' = events \o <<e>> /\ UNCHANGED sent
      /\ EnterClose(k) /\ (Refused(f) \/ f.kind = "ping")
  BY DEF RefuseFrame, Stop, StopAt, Refused
<1>2. OneHolder' /\ e \in SentEvent /\ e.stop /\ e.last = HeadNo
  BY <1>1, CloseHolder, StopTypes
<1> HIDE DEF e
<1> DEFINE new == <<e>>
<1>3. /\ new \in Seq(SentEvent) /\ new # << >> /\ Len(new) = 1 /\ DOMAIN new = {1} /\ new[1] = e
      /\ Range(new) = {e} /\ InOrder(new) /\ \A i \in 1..(Len(new) - 1) : FALSE
  BY <1>2, OneEvent
<1> HIDE DEF new
<1>4. CASE Stopped(events)
  BY <1>1, <1>2, <1>3, <1>4, StoppedStep DEF new
<1>5. CASE ~Stopped(events)
  <2>1. PICK n \in 0..Len(sent) : Parsed(n)
    BY <1>5 DEF ReadInv
  <2>2. n < Len(sent) /\ n + 1 \in 1..Len(sent) /\ HeadNo = n + 1 /\ f = sent[n + 1] /\ n \in Nat
    BY <1>1, <2>1, HeadIsNext
  <2>3. Breaks(sent, n + 1) <=> Refused(f)
    BY <2>1, <2>2, FragStep DEF TypeInv, Parsed
  <2>4. /\ EventsOf(sent, n + 1) \subseteq {e}
        /\ e \in EventsOf(sent, n + 1) \/ sent[n + 1].kind = "ping"
    <3>1. CASE Refused(f)
      <4>1. EventsOf(sent, n + 1) = {e}
        BY <2>2, <2>3, <3>1, EventsAre DEF e
      <4> QED
        BY <4>1
    <3>2. CASE ~Refused(f)
      <4>1. f.kind = "ping" /\ ~EndsMessage(sent, n + 1)
        BY <1>1, <2>2, <3>2 DEF EndsMessage, IsData
      <4> QED
        BY <2>2, <2>3, <3>2, <4>1, EventsAre
    <3> QED
      BY <3>1, <3>2
  <2> QED
    BY <1>1, <1>2, <1>3, <1>5, <2>1, <2>2, <2>4, Ends DEF new
<1> QED
  BY <1>4, <1>5

LEMMA TakeFrameStep ==
  ASSUME TypeInv, TypeInv', ReadInv, DispatchExact, NEW k \in Readers, TakeFrame(k)
  PROVE  ReadInv' /\ DispatchExact'
<1> DEFINE f == HeadFrame
<1>1. /\ reader[k] = "parse" /\ cur # << >> /\ Complete /\ ~Refused(f)
      /\ cur' = SubSeq(cur, f.len + 2, Len(cur)) /\ UNCHANGED <<sent, kernel, reader, events>>
      /\ \/ f.kind \in {"ping", "pong"} /\ UNCHANGED frag
         \/ /\ IsData(f) /\ ~f.fin
            /\ frag' = [on |-> TRUE, kind |-> f.kind, start |-> HeadNo, len |-> f.len]
         \/ f.kind = "cont" /\ ~f.fin /\ frag' = [frag EXCEPT !.len = @ + f.len]
  BY DEF TakeFrame
<1>2. CASE Stopped(events)
  <2>1. OneHolder'
    BY <1>1 DEF ReadInv, OneHolder, HoldsRmu
  <2>2. ReadInv'
    BY <1>1, <1>2, <2>1 DEF ReadInv, Stopped
  <2> QED
    BY <1>1, <2>2 DEF DispatchExact
<1>3. CASE ~Stopped(events)
  <2>1. PICK n \in 0..Len(sent) : Parsed(n)
    BY <1>3 DEF ReadInv
  <2>2. n < Len(sent) /\ n + 1 \in 1..Len(sent) /\ HeadNo = n + 1 /\ f = sent[n + 1] /\ n \in Nat
    BY <1>1, <2>1, HeadIsNext
  <2>3. /\ Breaks(sent, n + 1) <=> Refused(f)
        /\ f.kind \in {"ping", "pong"} => FragOK(sent, n + 1, frag)
        /\ IsData(f) /\ ~f.fin =>
             FragOK(sent, n + 1, [on |-> TRUE, kind |-> f.kind, start |-> n + 1, len |-> f.len])
        /\ f.kind = "cont" /\ ~f.fin => FragOK(sent, n + 1, [frag EXCEPT !.len = @ + f.len])
    BY <1>1, <2>1, <2>2, FragStep DEF TypeInv, Parsed
  <2>4. FragOK(sent, n + 1, frag')
    BY <1>1, <2>2, <2>3
  <2>5. ~EndsMessage(sent, n + 1)
    BY <1>1, <2>2 DEF EndsMessage, IsData
  <2>6. EventsOf(sent, n + 1) = {}
    BY <1>1, <2>3, <2>5, EventsAre
  <2>7. Done(sent, n + 1) = Done(sent, n)
    BY <2>2, <2>6, DoneStep
  <2> QED
    BY <1>1, <1>3, <2>1, <2>4, <2>7, Advance DEF Parsed, Stopped
<1> QED
  BY <1>2, <1>3

LEMMA EndingIs ==
  ASSUME NEW a, NEW i
  PROVE  /\ Ending(a, "text", i) = {MessageOf(a, i)}
         /\ Ending(a, "fatal", i) = {MessageOf(a, i), StopAt(i)}
         /\ Ending(a, "binary", i) = {StopAt(i)}
<1>1. "text" # "fatal" /\ "text" # "binary" /\ "fatal" # "binary"
  OBVIOUS
<1> QED
  BY <1>1, Zenon DEF Ending

\* A message is dispatched behind those before it.
LEMMA AppendInOrder ==
  ASSUME NEW s \in Seq(Frames), NEW n \in 0..Len(s), NEW E, NEW evs \in Seq(E),
         Range(evs) = Done(s, n), InOrder(evs), NEW e \in E, e.last = n + 1
  PROVE  InOrder(Append(evs, e)) /\ Range(Append(evs, e)) = Range(evs) \cup {e}
<1> DEFINE u == Append(evs, e)
           m == Len(evs)
<1>1. /\ u \in Seq(E) /\ Len(u) = m + 1 /\ m \in Nat /\ DOMAIN u = 1..(m + 1)
      /\ u[m + 1] = e /\ \A i \in 1..m : u[i] = evs[i]
  OBVIOUS
<1>2. DOMAIN evs = 1..m /\ \A i \in 1..m : evs[i] \in Range(evs)
  BY RangeIs
<1> HIDE DEF u, m
<1>3. ASSUME NEW i \in 1..m PROVE evs[i].last \in 1..n
  <2>1. PICK j \in 1..n : evs[i] \in EventsOf(s, j)
    BY <1>2, <1>3 DEF Done
  <2>2. j \in 1..Len(s)
    BY <2>1
  <2> QED
    BY <2>1, <2>2, EventsAt
<1>4. InOrder(u)
  <2> SUFFICES ASSUME NEW i \in DOMAIN u, NEW j \in DOMAIN u, i < j PROVE Precedes(u[i], u[j])
    BY DEF InOrder
  <2>1. i \in 1..m /\ (j \in 1..m \/ j = m + 1)
    BY <1>1
  <2>2. CASE j \in 1..m
    BY <1>1, <1>2, <2>1, <2>2 DEF InOrder
  <2>3. CASE j = m + 1
    <3>1. u[i].last \in 1..n /\ u[j].last = n + 1
      BY <1>1, <1>3, <2>1, <2>3
    <3> QED
      BY <3>1 DEF Precedes
  <2> QED
    BY <2>1, <2>2, <2>3
<1>5. Range(u) = Range(evs) \cup {e}
  <2>1. 1..(m + 1) = (1..m) \cup {m + 1}
    BY <1>1
  <2>2. Range(u) = {u[i] : i \in 1..(m + 1)} /\ Range(evs) = {evs[i] : i \in 1..m}
    BY <1>1, <1>2 DEF Range
  <2>3. {u[i] : i \in 1..(m + 1)} = {u[i] : i \in 1..m} \cup {u[m + 1]}
    BY <2>1
  <2>4. {u[i] : i \in 1..m} = {evs[i] : i \in 1..m}
    BY <1>1
  <2> QED
    BY <1>1, <2>2, <2>3, <2>4
<1> QED
  BY <1>4, <1>5 DEF u

LEMMA DispatchStep ==
  ASSUME TypeInv, TypeInv', ReadInv, DispatchExact, NEW k \in Readers, Dispatch(k)
  PROVE  ReadInv' /\ DispatchExact'
<1> DEFINE f     == HeadFrame
           first == IF f.kind = "cont" THEN frag.start ELSE HeadNo
           kind  == IF f.kind = "cont" THEN frag.kind ELSE f.kind
           msg   == MessageOf(first, HeadNo)
           stop  == StopAt(HeadNo)
<1>1. /\ reader[k] = "parse" /\ cur # << >> /\ Complete /\ ~Refused(f)
      /\ f.fin /\ (IsData(f) \/ f.kind = "cont")
      /\ frag' = IF f.kind = "cont" THEN NoFrag ELSE frag
      /\ UNCHANGED <<sent, kernel>>
  BY DEF Dispatch, Unfragged
<1>2. kind \in {"text", "fatal", "binary"}
  BY <1>1 DEF Refused, IsData, TypeInv, Frag
<1>3. /\ kind = "text" => /\ events' = Append(events, msg)
                          /\ cur' = SubSeq(cur, f.len + 2, Len(cur)) /\ UNCHANGED reader
      /\ kind = "fatal" => events' = events \o <<msg, stop>> /\ EnterClose(k)
      /\ kind = "binary" => events' = events \o <<stop>> /\ EnterClose(k)
  BY DEF Dispatch, Stop, StopAt, MessageOf
<1>4. /\ first \in 0..MaxSent /\ msg \in SentEvent /\ stop \in SentEvent
      /\ msg.last = HeadNo /\ stop.last = HeadNo /\ ~msg.stop /\ stop.stop
  <2>1. first \in 0..MaxSent
    <3>1. HeadNo \in 1..Len(sent) /\ Len(sent) <= MaxSent /\ MaxSent \in Nat /\ Len(sent) \in Nat
      BY <1>1, HeadSent, WsReaderAssumption DEF TypeInv
    <3> QED
      BY <3>1 DEF TypeInv, Frag
  <2> HIDE DEF first
  <2> QED
    BY <1>1, <2>1, StopTypes
<1>5. ASSUME NEW n \in 0..Len(sent), Parsed(n)
      PROVE  /\ n + 1 \in 1..Len(sent) /\ n \in Nat /\ HeadNo = n + 1
             /\ EventsOf(sent, n + 1) = Ending(first, kind, n + 1)
             /\ FragOK(sent, n + 1, frag')
  <2>1. n < Len(sent) /\ n + 1 \in 1..Len(sent) /\ HeadNo = n + 1 /\ f = sent[n + 1] /\ n \in Nat
    BY <1>1, <1>5, HeadIsNext
  <2>2. /\ Breaks(sent, n + 1) <=> Refused(f)
        /\ IsData(f) /\ f.fin => FragOK(sent, n + 1, frag)
        /\ f.kind = "cont" /\ f.fin => FragOK(sent, n + 1, NoFrag)
        /\ f.kind = "cont" =>
             FirstOf(sent, n + 1) = frag.start /\ sent[frag.start].kind = frag.kind
    BY <1>1, <1>5, <2>1, FragStep DEF TypeInv, Parsed
  <2>3. IsData(f) => FirstOf(sent, n + 1) = n + 1
    BY <2>1, FirstOfIs DEF TypeInv
  <2>4. f.kind = "cont" => ~IsData(f)
    BY DEF IsData
  <2>5. FirstOf(sent, n + 1) = first /\ sent[first].kind = kind
    BY <1>1, <2>1, <2>2, <2>3, <2>4
  <2>6. EndsMessage(sent, n + 1)
    BY <1>1, <2>1 DEF EndsMessage
  <2> HIDE DEF first, kind
  <2>7. EventsOf(sent, n + 1) = Ending(first, kind, n + 1)
    BY <1>1, <2>2, <2>5, <2>6, EventsAre
  <2> QED
    BY <1>1, <2>1, <2>2, <2>4, <2>7
<1> HIDE DEF first, kind, msg, stop
<1>6. CASE kind = "text"
  <2>1. CASE Stopped(events)
    <3>1. OneHolder'
      BY <1>3, <1>6 DEF ReadInv, OneHolder, HoldsRmu
    <3>2. events' = events \o <<msg>> /\ <<msg>> \in Seq(SentEvent)
      <4>1. events \in Seq(SentEvent) /\ msg \in SentEvent
        BY <1>4 DEF TypeInv
      <4>2. Append(events, msg) = events \o <<msg>> /\ <<msg>> \in Seq(SentEvent)
        BY <4>1, AppendIsConcat
      <4> QED
        BY <1>3, <1>6, <4>2
    <3> QED
      BY <1>1, <2>1, <3>1, <3>2, StoppedStep
  <2>2. CASE ~Stopped(events)
    <3>1. PICK n \in 0..Len(sent) : Parsed(n)
      BY <2>2 DEF ReadInv
    <3>2. /\ n + 1 \in 1..Len(sent) /\ n \in Nat /\ HeadNo = n + 1
          /\ EventsOf(sent, n + 1) = {msg} /\ FragOK(sent, n + 1, frag')
      BY <1>5, <1>6, <3>1, EndingIs DEF msg
    <3>3. Done(sent, n + 1) = Done(sent, n) \cup {msg}
      BY <3>2, DoneStep
    <3>4. sent \in Seq(Frames) /\ events \in Seq(SentEvent)
      BY DEF TypeInv
    <3>5. InOrder(events') /\ Range(events') = Range(events) \cup {msg}
      <4>1. Range(events) = Done(sent, n) /\ InOrder(events) /\ msg.last = n + 1 /\ msg \in SentEvent
        BY <1>4, <3>1, <3>2 DEF Parsed
      <4>2. InOrder(Append(events, msg)) /\ Range(Append(events, msg)) = Range(events) \cup {msg}
        BY <3>1, <3>4, <4>1, AppendInOrder
      <4> QED
        BY <1>3, <1>6, <4>2
    <3>6. ~Stopped(events')
      <4>1. Len(events) \in Nat /\ DOMAIN events = 1..Len(events)
            /\ DOMAIN events' = 1..(Len(events) + 1) /\ events'[Len(events) + 1] = msg
            /\ \A i \in 1..Len(events) : events'[i] = events[i]
        BY <1>3, <1>6, <3>4
      <4>2. \A i \in 1..(Len(events) + 1) : i \in 1..Len(events) \/ i = Len(events) + 1
        BY <4>1
      <4> QED
        BY <1>4, <2>2, <4>1, <4>2 DEF Stopped
    <3> QED
      BY <1>1, <1>3, <1>6, <3>1, <3>2, <3>3, <3>5, <3>6, Advance DEF Parsed
  <2> QED
    BY <2>1, <2>2
<1>7. CASE kind = "fatal"
  <2> DEFINE new == <<msg, stop>>
  <2>1. /\ new \in Seq(SentEvent) /\ new # << >> /\ Len(new) = 2
        /\ DOMAIN new = {1, 2} /\ new[1] = msg /\ new[2] = stop
        /\ Range(new) = {msg, stop} /\ InOrder(new)
        /\ \A i \in 1..(Len(new) - 1) : i = 1
    BY <1>4, TwoEvents
  <2>2. OneHolder' /\ events' = events \o new
    BY <1>1, <1>3, <1>7, CloseHolder
  <2> HIDE DEF new
  <2>3. CASE Stopped(events)
    BY <1>1, <2>1, <2>2, <2>3, StoppedStep
  <2>4. CASE ~Stopped(events)
    <3>1. PICK n \in 0..Len(sent) : Parsed(n)
      BY <2>4 DEF ReadInv
    <3>2. HeadNo = n + 1 /\ EventsOf(sent, n + 1) = {msg, stop}
      BY <1>5, <1>7, <3>1, EndingIs DEF msg, stop
    <3>3. \A i \in DOMAIN new : new[i].last = n + 1 /\ new[i] \in EventsOf(sent, n + 1)
      BY <1>4, <2>1, <3>2
    <3>4. new[Len(new)].stop /\ \A i \in 1..(Len(new) - 1) : ~new[i].stop
      BY <1>4, <2>1
    <3> QED
      BY <1>1, <2>1, <2>2, <2>4, <3>1, <3>2, <3>3, <3>4, Ends
  <2> QED
    BY <2>3, <2>4
<1>8. CASE kind = "binary"
  <2> DEFINE new == <<stop>>
  <2>1. /\ new \in Seq(SentEvent) /\ new # << >> /\ Len(new) = 1 /\ DOMAIN new = {1}
        /\ new[1] = stop /\ Range(new) = {stop} /\ InOrder(new)
        /\ \A i \in 1..(Len(new) - 1) : FALSE
    BY <1>4, OneEvent
  <2>2. OneHolder' /\ events' = events \o new
    BY <1>1, <1>3, <1>8, CloseHolder
  <2> HIDE DEF new
  <2>3. CASE Stopped(events)
    BY <1>1, <2>1, <2>2, <2>3, StoppedStep
  <2>4. CASE ~Stopped(events)
    <3>1. PICK n \in 0..Len(sent) : Parsed(n)
      BY <2>4 DEF ReadInv
    <3>2. HeadNo = n + 1 /\ EventsOf(sent, n + 1) = {stop}
      BY <1>5, <1>8, <3>1, EndingIs DEF stop
    <3>3. \A i \in DOMAIN new : new[i].last = n + 1 /\ new[i] \in EventsOf(sent, n + 1)
      BY <1>4, <2>1, <3>2
    <3>4. new[Len(new)].stop /\ \A i \in 1..(Len(new) - 1) : ~new[i].stop
      BY <1>4, <2>1
    <3> QED
      BY <1>1, <2>1, <2>2, <2>4, <3>1, <3>2, <3>3, <3>4, Ends
  <2> QED
    BY <2>3, <2>4
<1> QED
  BY <1>2, <1>6, <1>7, <1>8

-----------------------------------------------------------------------------

LEMMA NothingSent == Aligned(<< >>, << >>, 0)
BY DEF Aligned

LEMMA ReadInit == Init => ReadInv /\ DispatchExact
<1> SUFFICES ASSUME Init PROVE ReadInv /\ DispatchExact
  OBVIOUS
<1>0. TypeInv
  BY TypeInit
<1>1. PICK n \in Pipelined, f \in Frames :
        /\ n <= 1 + f.len
        /\ sent = IF n = 0 THEN << >> ELSE <<f>>
        /\ rbuf = SubSeq(FrameUnits(1, f), 1, n)
        /\ kernel = IF n = 0 THEN << >> ELSE SubSeq(FrameUnits(1, f), n + 1, 1 + f.len)
  BY DEF Init
<1>2. n \in Nat /\ f.len \in Nat
  BY <1>1, FrameTypes, WsReaderAssumption
<1>3. events = << >> /\ frag = NoFrag /\ \A k \in Readers : reader[k] = "none"
  BY DEF Init
<1>4. OneHolder /\ ~Parsing /\ Rest = rbuf \o kernel
  BY <1>3, RestIs DEF OneHolder, HoldsRmu, Parsing
<1>5. Aligned(sent, Rest, 0)
  <2>1. CASE n = 0
    <3>1. rbuf = << >> /\ kernel = << >> /\ sent = << >>
      BY <1>1, <1>2, <2>1, SubSeqEmpty
    <3>2. << >> \o << >> = << >>
      BY ConcatEmptySeq
    <3> QED
      BY <1>4, <3>1, <3>2, NothingSent
  <2>2. CASE n # 0
    <3> DEFINE w == FrameUnits(1, f)
               U == [frame : Nat, i : Nat]
               m == 1 + f.len
    <3>0. m \in Nat /\ n <= m /\ 1 <= n
      BY <1>1, <1>2, <2>2
    <3>1. w \in Seq(U) /\ Len(w) = m
      <4>1. 1 \in Nat
        OBVIOUS
      <4>2. w \in Seq([frame : {1}, i : Nat]) /\ Len(w) = m
        BY <4>1, FrameUnitsAre
      <4>3. [frame : {1}, i : Nat] \subseteq U
        OBVIOUS
      <4> HIDE DEF w, U
      <4> QED
        BY <4>2, <4>3, SeqMonotonic
    <3>2. rbuf = SubSeq(w, 1, n) /\ kernel = SubSeq(w, n + 1, m) /\ sent = <<f>>
      BY <1>1, <2>2
    <3>3. SubSeq(w, 1, n) \o SubSeq(w, n + 1, m) = w
      <4> HIDE DEF w, U, m
      <4>1. 1 \in 1..(Len(w) + 1) /\ n \in (1 - 1)..Len(w) /\ m \in n..Len(w)
        BY <1>2, <3>0, <3>1
      <4>2. SubSeq(w, 1, n) \o SubSeq(w, n + 1, m) = SubSeq(w, 1, m)
        BY <3>1, <4>1, ConcatAdjacentSubSeq
      <4>3. SubSeq(w, 1, m) = w
        BY <3>1, SubSeqFull
      <4> QED
        BY <4>2, <4>3
    <3>4. Aligned(Append(<< >>, f), << >> \o FrameUnits(Len(<< >>) + 1, f), 0)
      <4> DEFINE s == << >>
                 q == << >>
      <4>1. /\ s \in Seq(Frames) /\ Len(s) = 0 /\ q \in Seq([frame : Nat, i : Nat]) /\ Len(q) = 0
            /\ 0 \in 0..Len(s) /\ \A j \in 1..Len(q) : FALSE
        OBVIOUS
      <4>2. Aligned(s, q, 0)
        BY NothingSent
      <4> HIDE DEF s, q
      <4>3. Aligned(Append(s, f), q \o FrameUnits(Len(s) + 1, f), 0)
        BY <4>1, <4>2, AlignedSend
      <4> QED
        BY <4>3 DEF s, q
    <3>5. Append(<< >>, f) = <<f>> /\ << >> \o FrameUnits(Len(<< >>) + 1, f) = w
      <4>1. Len(<< >>) + 1 = 1
        OBVIOUS
      <4>2. << >> \o w = w
        <5> HIDE DEF w, U
        <5> QED
          BY <3>1, ConcatEmptySeq
      <4> QED
        BY <4>1, <4>2
    <3> HIDE DEF w
    <3> QED
      BY <1>4, <3>2, <3>3, <3>4, <3>5
  <2> QED
    BY <2>1, <2>2
<1>6. FragOK(sent, 0, frag)
  <2>1. ~InMessage(sent, 0 + 1)
    BY DEF InMessage
  <2> QED
    BY <1>3, <2>1 DEF FragOK
<1>7. Range(events) = Done(sent, 0) /\ InOrder(events) /\ ~Stopped(events)
  <2>1. 1..0 = {} /\ DOMAIN events = {}
    BY <1>3
  <2> QED
    BY <2>1 DEF Range, Done, InOrder, Stopped
<1>8. 0 \in 0..Len(sent) /\ sent \in Seq(Frames) /\ events \in Seq(SentEvent)
  BY <1>0 DEF TypeInv
<1>9. DispatchExact
  BY <1>7, <1>8, AccountedOpen, ExactIs
<1> QED
  BY <1>4, <1>5, <1>6, <1>7, <1>8, <1>9 DEF ReadInv, Parsed

LEMMA ReadStep == TypeInv /\ ReadInv /\ DispatchExact /\ [Next]_vars => ReadInv' /\ DispatchExact'
<1> SUFFICES ASSUME TypeInv, ReadInv, DispatchExact, [Next]_vars PROVE ReadInv' /\ DispatchExact'
  OBVIOUS
<1>0. TypeInv'
  BY TypeStep
<1>1. CASE UNCHANGED vars
  BY <1>1, StillQuiet DEF vars, readVars
<1>2. ASSUME NEW f \in Frames, ClientSends(f) PROVE ReadInv' /\ DispatchExact'
  BY <1>2, ClientSendsStep
<1>3. CASE ClientCloses \/ Transport \/ CallClose \/ CloseRest
  BY <1>3, PollSteps DEF Transport
<1>4. ASSUME NEW k \in Readers, Serve(k) PROVE ReadInv' /\ DispatchExact'
  BY <1>0, <1>4, LockStep, ReadSomeStep, ControlSteps, RefuseFrameStep, TakeFrameStep, DispatchStep,
     EndConsumeStep DEF Serve
<1> QED
  BY <1>1, <1>2, <1>3, <1>4 DEF Next

\* Whichever of two goroutines parses, and however the bytes are cut into
\* reads, onReadable, consume and handleFrame dispatch exactly the
\* messages that were sent, in order, each once and none left out, up to the
\* frame that ends the connection, and end it at that frame.
THEOREM DispatchesExactly == Spec => []DispatchExact
BY TypeInit, TypeStep, ReadInit, ReadStep, PTL DEF Spec
=============================================================================
