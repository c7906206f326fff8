---------------------------- MODULE MCDeltaEncoder ----------------------------
(* Model values for TLC: DeltaEncoder on two vehicles and one coordinate.  *)
EXTENDS DeltaEncoder, TLC

VehicleSymmetry == Permutations(Vehicle)
==============================================================================
