----------------------------- MODULE MCVehicleFeed -----------------------------
(* Model values for TLC: the feeds the poller may meet.                    *)
EXTENDS VehicleFeed

CONSTANTS v1, v2, p1, p2

E(e, v, t, p) ==
  [entity |-> e, vehicle |-> v, hasPosition |-> TRUE, time |-> t, payload |-> p]

\* An entity without position, one without descriptor or timestamp, two entities
\* for the same vehicle, an old timestamp and one in the future.
MCFeeds ==
  {<< >>,
   <<E(v1, v1, 0, p1)>>,
   <<E(v1, v2, 0, p1), E(v2, NoId, -1, p2)>>,
   <<E(v1, NoId, NoTime, p2), E(v2, v2, 1, p1)>>,
   <<[E(v1, v1, 0, p1) EXCEPT !.hasPosition = FALSE], E(v2, v2, Stale + 1, p2)>>}
==============================================================================
