------------------------- MODULE RoomRegistryClaims -------------------------
(***************************************************************************)
(* What docs/DESIGN.md says of the room registry and the code does not do: *)
(* TLC finds a behaviour of RoomRegistry that breaks the claim.            *)
(***************************************************************************)
EXTENDS RoomRegistry

\* "UNEXPECTED_STATE: e.g. signal before attaching to a room [...] Never closes
\* the connection" (DESIGN.md:968).  Signal, PeerConnected and CloseRoom read
\* s.attached without s.mu and s.room with it; Detach may clear both in
\* between, and the nil room is dereferenced.
NeverPanics == ~crashed
=============================================================================
