---------------------------- MODULE FrameStream ----------------------------
(***************************************************************************)
(* What the write path of a connection promises its callers: the bytes of  *)
(* the frames it accepts reach the client in the order of acceptance, each *)
(* once, for as long as no write fails.  Closing ends acceptance; a failed *)
(* write ends the stream.                                                  *)
(***************************************************************************)
EXTENDS Naturals, SequencesExt

CONSTANT Bytes    \* what frames are made of

VARIABLES
  accepted,  \* every byte accepted so far
  wire,      \* every byte the client can read so far
  state      \* "open", "closed" or "broken"

streamVars == <<accepted, wire, state>>

StreamInit == accepted = << >> /\ wire = << >> /\ state = "open"

\* A frame is taken, and some of what is due may leave with it.
Accept ==
  /\ state = "open"
  /\ IsStrictPrefix(accepted, accepted') /\ accepted' \in Seq(Bytes)
  /\ IsPrefix(wire, wire') /\ IsPrefix(wire', accepted')
  /\ UNCHANGED state

\* Bytes leave in the order they were taken.
Transmit ==
  /\ state # "broken"
  /\ IsStrictPrefix(wire, wire') /\ IsPrefix(wire', accepted)
  /\ UNCHANGED <<accepted, state>>

EndStream ==
  /\ state # "broken"
  /\ state' \in {"closed", "broken"}
  /\ UNCHANGED <<accepted, wire>>

StreamNext == Accept \/ Transmit \/ EndStream

StreamSpec == StreamInit /\ [][StreamNext]_streamVars
=============================================================================
