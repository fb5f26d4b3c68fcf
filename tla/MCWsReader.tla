----------------------------- MODULE MCWsReader -----------------------------
(* Instances of WsReader for TLC. *)
EXTENDS WsReader

F(kind, fin, len) == [kind |-> kind, fin |-> fin, len |-> len]

\* Whole messages and pieces, and frames that end the connection; a text
\* and the long continuation exceed MaxFrameLen = 2 together.
SmallFrames ==
  {F("text", TRUE, 1), F("text", FALSE, 1), F("cont", TRUE, 1), F("cont", FALSE, 2),
   F("binary", TRUE, 0), F("fatal", FALSE, 0), F("ping", TRUE, 0), F("bad", TRUE, 1)}
=============================================================================
