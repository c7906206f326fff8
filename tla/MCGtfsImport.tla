----------------------------- MODULE MCGtfsImport -----------------------------
(* Model values for TLC: small archives with the peculiarities that matter. *)
EXTENDS GtfsReads

Base(n) ==
  [agencies |-> <<[agency_id |-> ""]>>,
   routes |-> <<[route_id |-> n, agency_id |-> ""]>>,
   stops |-> <<[stop_id |-> n, parent_station |-> ""]>>,
   trips |-> <<[trip_id |-> n, route_id |-> n, shape_id |-> ""]>>,
   stop_times |-> <<[trip_id |-> n, stop_id |-> n, stop_sequence |-> 1]>>]

Archive(files) == [files |-> files, malformed |-> {}]

With(files, table, rows) ==
  [t \in DOMAIN files \union {table} |-> IF t = table THEN rows ELSE files[t]]

Without(files, table) == [t \in DOMAIN files \ {table} |-> files[t]]

Plain == Archive(Base("a"))

\* Shapes and calendars, one shape of a single point that no trip uses, a station
\* before its platform, two stop times.
Full ==
  Archive(
    With(With(With(With(With(With(Base("b"),
      "shapes", <<[shape_id |-> "s"], [shape_id |-> "t"], [shape_id |-> "s"]>>),
      "stops", <<[stop_id |-> "p", parent_station |-> ""],
                 [stop_id |-> "b", parent_station |-> "p"]>>),
      "trips", <<[trip_id |-> "b", route_id |-> "b", shape_id |-> "s"]>>),
      "stop_times", <<[trip_id |-> "b", stop_id |-> "b", stop_sequence |-> 2],
                      [trip_id |-> "b", stop_id |-> "p", stop_sequence |-> 1]>>),
      "calendar", <<[service_id |-> "w"]>>),
      "calendar_dates", <<[service_id |-> "w", date |-> 1]>>))

\* A trip on a shape of one point.
ShortShape ==
  Archive(
    With(With(Base("b"),
      "shapes", <<[shape_id |-> "s"]>>),
      "trips", <<[trip_id |-> "b", route_id |-> "b", shape_id |-> "s"]>>))

\* A platform listed before its station.
ChildFirst ==
  Archive(
    With(Base("b"), "stops",
      <<[stop_id |-> "b", parent_station |-> "p"],
        [stop_id |-> "p", parent_station |-> ""]>>))

NoTrips == Archive(Without(Base("b"), "trips"))

Torn == [Plain EXCEPT !.malformed = {"stop_times"}]

\* A single agency with an ID, which the routes leave out, as GTFS allows.
OneAgency ==
  Archive(With(Base("b"), "agencies", <<[agency_id |-> "x"]>>))

\* An agency of the archive's own, so that two archives share few keys or none.
Disjoint(n) ==
  Archive(
    With(With(Base(n),
      "agencies", <<[agency_id |-> n]>>),
      "routes", <<[route_id |-> n, agency_id |-> n]>>))

\* The same two shapes as in the other archive of this kind.
Shapes(n) ==
  Archive(
    With(With(Disjoint(n).files,
      "shapes", <<[shape_id |-> "s"], [shape_id |-> "s"],
                  [shape_id |-> "t"], [shape_id |-> "t"]>>),
      "trips", <<[trip_id |-> n, route_id |-> n, shape_id |-> "s"]>>))

\* Stops at a stop of the other archive.
Leaning(n, m) ==
  Archive(With(Disjoint(n).files, "stop_times",
    <<[trip_id |-> n, stop_id |-> m, stop_sequence |-> 1]>>))

MCArchives ==
  {Full, ShortShape, ChildFirst, NoTrips, Torn, OneAgency,
   Disjoint("a"), Leaning("c", "a"), Shapes("d"), Shapes("e")}

DisjointArchives == {Disjoint("a"), Disjoint("b")}

Old ==
  {[table |-> "agencies", key |-> "default", refs |-> {}, src |-> "old"],
   [table |-> "routes", key |-> "a", refs |-> {<<"agencies", "default">>}, src |-> "old"],
   [table |-> "stops", key |-> "a", refs |-> {}, src |-> "old"],
   [table |-> "trips", key |-> "a", refs |-> {<<"routes", "a">>}, src |-> "old"],
   [table |-> "stop_times", key |-> <<"a", 1>>,
    refs |-> {<<"trips", "a">>, <<"stops", "a">>}, src |-> "old"]}

MCInitials == {Old, {}}

OnlyEmpty == {{}}
==============================================================================
