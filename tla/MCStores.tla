------------------------------ MODULE MCStores ------------------------------
(* Instances of Stores for TLC. *)
EXTENDS Stores

CONSTANTS r1, r2, r3, a1, a2

SmallRooms == {r1, r2, r3}
SmallIps == {a1, a2}

RoomsAndIps == Permutations(SmallRooms) \cup Permutations(SmallIps)
=============================================================================
