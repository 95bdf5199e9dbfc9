---------------------------- MODULE MCRoomThreads ----------------------------
(* Model values for RoomThreads.                                            *)
EXTENDS RoomThreads, TLC

CONSTANTS c1, c2

TwoClients == {c1, c2}

Symmetry == Permutations(Client)
=============================================================================
