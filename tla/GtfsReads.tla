------------------------------- MODULE GtfsReads -------------------------------
(***************************************************************************)
(* What the REST API answers from the database while Imports run: the      *)
(* queries of internal/store/queries.go and the handlers of                *)
(* internal/api/handlers.go above them.  Each is a single SELECT, so it    *)
(* sees what is committed at one moment, and changes nothing.              *)
(*                                                                         *)
(* Of the columns only keys and references are kept; a geometry is the row *)
(* of its shape.  DISTINCT ON and LIMIT 1 without an order leave the       *)
(* choice to PostgreSQL: the operators give the set it chooses from.       *)
(***************************************************************************)
EXTENDS GtfsImport

Table(t) == {r \in committed : r.table = t}

RefersTo(r, s) == Id(s) \in r.refs

------------------------------------------------------------------------------
(* queries.go                                                              *)

ListRoutes == Table("routes")

GetRoute(routeID) == {r \in Table("routes") : r.key = routeID}

GetRouteShape(routeID) ==
  {s \in Table("shapes") :
     \E t \in Table("trips") : RefersTo(t, s) /\ <<"routes", routeID>> \in t.refs}

\* Mutant: LEFT JOIN shapes.
GetAllRouteShapes_LeftJoin ==
  LET shapesOf(r) == {s \in Table("shapes") :
                        \E t \in Table("trips") : RefersTo(t, r) /\ RefersTo(t, s)}
      routed == {r \in Table("routes") : \E t \in Table("trips") : RefersTo(t, r)}
  IN  [id \in {r.key : r \in routed} |-> UNION {shapesOf(r) : r \in GetRoute(id)}]

\* One feature for each route that the joins leave: the shapes it may show.
GetAllRouteShapes ==
  LET shapesOf(r) == {s \in Table("shapes") :
                        \E t \in Table("trips") : RefersTo(t, r) /\ RefersTo(t, s)}
      drawn == {r \in Table("routes") : shapesOf(r) # {}}
  IN  [id \in {r.key : r \in drawn} |-> UNION {shapesOf(r) : r \in GetRoute(id)}]

\* Mutant: joins the station a stop belongs to.
GetTripStopTimes_Stations(tripID) ==
  LET calls == {st \in Table("stop_times") :
                  /\ <<"trips", tripID>> \in st.refs
                  /\ \E s \in Table("stops") : RefersTo(st, s) /\ s.refs # {}}
  IN  [n \in {st.key[2] : st \in calls} |->
         {s \in Table("stops") : \E st \in calls : st.key[2] = n /\ RefersTo(st, s)}]

\* By stop_sequence, the stop of each call.
GetTripStopTimes(tripID) ==
  LET calls == {st \in Table("stop_times") :
                  /\ <<"trips", tripID>> \in st.refs
                  /\ \E s \in Table("stops") : RefersTo(st, s)}
  IN  [n \in {st.key[2] : st \in calls} |->
         {s \in Table("stops") : \E st \in calls : st.key[2] = n /\ RefersTo(st, s)}]

------------------------------------------------------------------------------
(* handlers.go.  Any error of a query for one row, also that there is none,*)
(* is a 404; an unknown trip has an empty list of stop times.              *)

Status(rows) == IF rows = {} THEN 404 ELSE 200

handleListRoutes == {r.key : r \in ListRoutes}

handleGetRoute(routeID) == Status(GetRoute(routeID))

handleGetRouteShape(routeID) ==
  [status |-> Status(GetRouteShape(routeID)), shapes |-> GetRouteShape(routeID)]

handleGetAllShapes == GetAllRouteShapes

handleGetTripStopTimes(tripID) == GetTripStopTimes(tripID)

------------------------------------------------------------------------------
RoutesOfTrips == {id[2] : id \in {x \in UNION {t.refs : t \in Table("trips")} : x[1] = "routes"}}

(* The map of all shapes and the shape of one route agree, at any moment   *)
(* of any Import: the same routes have one, chosen among the same shapes,  *)
(* and such a route can be listed and fetched, although one query starts   *)
(* from the routes and the other never looks at them.                      *)
ShapesAgree ==
  \A id \in handleListRoutes \union RoutesOfTrips :
    LET one == handleGetRouteShape(id)
    IN  /\ one.status = 200 <=> id \in DOMAIN handleGetAllShapes
        /\ one.status = 200 =>
             /\ handleGetAllShapes[id] = one.shapes
             /\ id \in handleListRoutes
             /\ handleGetRoute(id) = 200

(* The join with the stops loses no call of a trip and repeats none.       *)
StopTimesComplete ==
  \A t \in Table("trips") :
    LET answer == handleGetTripStopTimes(t.key)
    IN  /\ DOMAIN answer = {st.key[2] : st \in {x \in Table("stop_times") : RefersTo(x, t)}}
        /\ \A n \in DOMAIN answer : Cardinality(answer[n]) = 1
==============================================================================
