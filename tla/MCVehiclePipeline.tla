--------------------------- MODULE MCVehiclePipeline ---------------------------
(* Model values for TLC: a few positions, shapes that bend, turn back or have one *)
(* point, and times on both sides of the gap.                               *)
EXTENDS VehiclePipeline

MCGrid == {<<0, 1>>, <<1, 1>>, <<2, 0>>}

MCShapes ==
  {<<<<0, 0>>, <<2, 0>>, <<2, 1>>>>,
   <<<<1, 0>>, <<1, 0>>, <<0, 2>>>>,
   <<<<1, 1>>>>}

MCTimes == {0, 1, 2, 5}
==============================================================================
