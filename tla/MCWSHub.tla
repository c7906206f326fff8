-------------------------------- MODULE MCWSHub --------------------------------
(* Model values for TLC: WSHub on a few connections.                       *)
EXTENDS WSHub, TLC

ClientSymmetry == Permutations(Client)
==============================================================================
