---------------------------- MODULE MCRendezvous ----------------------------
(* Instances of Rendezvous for TLC. *)
EXTENDS Rendezvous

RoleConns == Role \X (1..MaxDials)

RoleEpochs == Role \X (1..MaxAsks)

FirstHostPeer == {<<"host", 1>>}
=============================================================================
