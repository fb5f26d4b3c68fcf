--------------------------- MODULE MCRoomRegistry ---------------------------
(* Instances of RoomRegistry for TLC. *)
EXTENDS RoomRegistryClaims, TLC

\* Every connection from the same address.
OneIp == [c \in Conns |-> CHOOSE ip \in IPs : TRUE]

ConnsOnly == Permutations(Conns)

ConnsAndEpochs == ConnsOnly \union Permutations(Epochs)
=============================================================================
