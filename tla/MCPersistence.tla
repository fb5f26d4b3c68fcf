--------------------------- MODULE MCPersistence ---------------------------
(* Instances of Persistence for TLC. *)
EXTENDS Persistence, TLC

ConnsAndRooms == Permutations(Conns) \union Permutations(RoomIds)
=============================================================================
