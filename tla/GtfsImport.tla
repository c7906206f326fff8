------------------------------ MODULE GtfsImport ------------------------------
(***************************************************************************)
(* Importer.Import (internal/gtfs/importer.go) on the schema of            *)
(* internal/store/migrations/001_gtfs_schema.sql: one transaction that     *)
(* empties the eight tables and loads the files of a GTFS archive.         *)
(* Several Imports may run at once, and any may be cut off at any point.   *)
(*                                                                         *)
(* PostgreSQL is external.  At its default level, READ COMMITTED, each     *)
(* statement sees what is committed when it starts plus the transaction's  *)
(* own changes; a DELETE or INSERT that runs into a row another            *)
(* transaction holds waits for that transaction to end.                    *)
(***************************************************************************)
EXTENDS Integers, Sequences, FiniteSets

CONSTANTS
  Importer,  \* concurrent runs of the import command
  Archives,  \* the archives an Import may be given
  Initials   \* what the database may hold at first: sets of rows

\* The SQL tables, in the order Import deletes and in the order it loads them.
\* (Names with an underscore, here and below, are mutants: what a plausible bug
\* would make of the definition that follows.)
DeleteOrder_ForgetsCalendar ==
  <<"stop_times", "trips", "shapes", "stops", "routes", "agencies">>

DeleteOrder ==
  <<"stop_times", "calendar_dates", "calendar", "trips", "shapes", "stops",
    "routes", "agencies">>

LoadOrder ==
  <<"agencies", "routes", "stops", "shapes", "trips", "stop_times", "calendar",
    "calendar_dates">>

Required == {"agencies", "routes", "stops", "trips", "stop_times"}

Tables == Required \union {"shapes", "calendar", "calendar_dates"}

VARIABLES
  initial,    \* the rows in the database at first
  committed,  \* the rows every other session sees
  pc,         \* where each Import stands
  step,       \* the table it is at in DeleteOrder or LoadOrder
  archive,    \* the archive it loads
  seen,       \* the rows its DELETE found when the statement started
  deleted,    \* rows it has deleted and not yet committed
  inserted,   \* rows it has inserted and not yet committed
  todo        \* rows of the current file it has still to insert

inputs == <<initial, archive>>
vars == <<inputs, committed, pc, step, seen, deleted, inserted, todo>>

------------------------------------------------------------------------------
(* What each import function makes of its file.  A row is its table, its   *)
(* primary key and the rows its foreign keys refer to; src tells which     *)
(* Import wrote it, as PostgreSQL tells two versions of a row apart.       *)

Row(i, table, key, refs) == [table |-> table, key |-> key, refs |-> refs, src |-> i]

OrDefault(id) == IF id = "" THEN "default" ELSE id

\* NULLIF(.., ''): no reference.
RefUnlessEmpty(table, id) == IF id = "" THEN {} ELSE {<<table, id>>}

importAgencies(i, r) == Row(i, "agencies", OrDefault(r.agency_id), {})

importRoutes(i, r) ==
  Row(i, "routes", r.route_id, {<<"agencies", OrDefault(r.agency_id)>>})

importStops(i, r) ==
  Row(i, "stops", r.stop_id, RefUnlessEmpty("stops", r.parent_station))

importTrips(i, r) ==
  Row(i, "trips", r.trip_id,
      {<<"routes", r.route_id>>} \union RefUnlessEmpty("shapes", r.shape_id))

importStopTimes(i, r) ==
  Row(i, "stop_times", <<r.trip_id, r.stop_sequence>>,
      {<<"trips", r.trip_id>>, <<"stops", r.stop_id>>})

importCalendar(i, r) == Row(i, "calendar", r.service_id, {})

importCalendarDates(i, r) == Row(i, "calendar_dates", <<r.service_id, r.date>>, {})

\* The points of a shape are gathered over the whole file; a shape of fewer than
\* two points is left out.
importShapes(i) ==
  LET file == archive[i].files["shapes"]
      points(id) == {n \in DOMAIN file : file[n].shape_id = id}
      ids == {file[n].shape_id : n \in DOMAIN file}
  IN  {Row(i, "shapes", id, {}) : id \in {x \in ids : Cardinality(points(x)) >= 2}}

RowOf(i, table, r) ==
  CASE table = "agencies" -> importAgencies(i, r)
    [] table = "routes" -> importRoutes(i, r)
    [] table = "stops" -> importStops(i, r)
    [] table = "trips" -> importTrips(i, r)
    [] table = "stop_times" -> importStopTimes(i, r)
    [] table = "calendar" -> importCalendar(i, r)
    [] table = "calendar_dates" -> importCalendarDates(i, r)

\* A file other than the shapes, record by record.
RowsOf(i, table) ==
  LET file == archive[i].files[table]
  IN  [n \in DOMAIN file |-> RowOf(i, table, file[n])]

RowSet(i, table) ==
  IF table = "shapes" THEN importShapes(i)
  ELSE {RowsOf(i, table)[n] : n \in DOMAIN archive[i].files[table]}

\* The orders in which the rows of a file may be inserted: that of the file, but
\* any order for the shapes, which importShapes takes from a map.
Orders(i, table) ==
  IF table = "shapes"
  THEN LET R == importShapes(i)
       IN  {s \in [1..Cardinality(R) -> R] : \A r \in R : \E n \in DOMAIN s : s[n] = r}
  ELSE {RowsOf(i, table)}

\* The content of the database when the archive of i is loaded and nothing else.
Image(i) == UNION {RowSet(i, t) : t \in DOMAIN archive[i].files}

Id(r) == <<r.table, r.key>>

Ids(R) == {Id(r) : r \in R}

------------------------------------------------------------------------------
\* A stop_times row: its key begins with the trip, and it is at one stop.
IsStopTime(r) ==
  \E stop \in {ref[2] : ref \in r.refs} :
    r.key = <<r.key[1], r.key[2]>> /\ r.refs = {<<"trips", r.key[1]>>, <<"stops", stop>>}

\* What the schema demands of the rows: primary and foreign keys.
MeetsSchema(R) ==
  /\ \A r \in R : r.table \in Tables /\ (r.table = "stop_times" => IsStopTime(r))
  /\ \A r, s \in R : Id(r) = Id(s) => r = s
  /\ \A r \in R : r.refs \subseteq Ids(R)

ASSUME InitialsAssumption == \A R \in Initials : MeetsSchema(R)

\* An archive holds a sequence of records for each file the importer knows.
ASSUME ArchivesAssumption ==
  \A a \in Archives :
    /\ DOMAIN a.files \subseteq Tables
    /\ \A t \in DOMAIN a.files : a.files[t] \in Seq({a.files[t][n] : n \in DOMAIN a.files[t]})

Init ==
  /\ initial \in Initials
  /\ committed = initial
  /\ pc = [i \in Importer |-> "idle"]
  /\ step = [i \in Importer |-> 1]
  /\ archive \in [Importer -> Archives]
  /\ seen = [i \in Importer |-> {}]
  /\ deleted = [i \in Importer |-> {}]
  /\ inserted = [i \in Importer |-> {}]
  /\ todo = [i \in Importer |-> << >>]

InTransaction(i) == pc[i] \in {"delete", "deleting", "load", "inserting", "commit"}

Others(i) == Importer \ {i}

Visible(i) == (committed \ deleted[i]) \union inserted[i]

Goto(i, label) == pc' = [pc EXCEPT ![i] = label]

\* The other transactions that hold up a DELETE: they have deleted one of its rows,
\* or inserted one that refers to such a row.
HoldUpDelete(i) ==
  {j \in Others(i) :
     \/ seen[i] \intersect deleted[j] # {}
     \/ \E r \in inserted[j] : r.refs \intersect Ids(seen[i]) # {}}

\* Those that hold up an INSERT: they have inserted the same key, or deleted the
\* row with that key or one it refers to.
HoldUpInsert(i) ==
  LET r == Head(todo[i])
  IN  {j \in Others(i) :
         \/ Id(r) \in Ids(inserted[j] \union deleted[j])
         \/ r.refs \intersect Ids(deleted[j]) # {}}

WaitsFor(i) ==
  CASE pc[i] = "deleting" -> HoldUpDelete(i)
    [] pc[i] = "inserting" /\ todo[i] # << >> -> HoldUpInsert(i)
    [] OTHER -> {}

\* i waits for itself, through others.
Deadlocked(i) ==
  \E S \in SUBSET Importer :
    /\ i \in S
    /\ \A j \in S : WaitsFor(j) \intersect S # {} /\ \E k \in S : j \in WaitsFor(k)

------------------------------------------------------------------------------
(* Import.                                                                 *)

\* Mutant: without the deferred Rollback the transaction stays open.
Rollback_LeftOut(i) ==
  /\ Goto(i, "failed")
  /\ seen' = [seen EXCEPT ![i] = {}]
  /\ todo' = [todo EXCEPT ![i] = << >>]
  /\ UNCHANGED <<inputs, committed, step, deleted, inserted>>

\* Any error: tx.Rollback, deferred.  The lost connection of a killed process
\* has the same effect.
Rollback(i) ==
  /\ Goto(i, "failed")
  /\ seen' = [seen EXCEPT ![i] = {}]
  /\ deleted' = [deleted EXCEPT ![i] = {}]
  /\ inserted' = [inserted EXCEPT ![i] = {}]
  /\ todo' = [todo EXCEPT ![i] = << >>]
  /\ UNCHANGED <<inputs, committed, step>>

Begin(i) ==
  /\ pc[i] = "idle"
  /\ Goto(i, "delete")
  /\ UNCHANGED <<inputs, committed, step, seen, deleted, inserted, todo>>

\* The statement starts: it will look at the rows committed by now.
DeleteStarts(i) ==
  /\ pc[i] = "delete"
  /\ seen' = [seen EXCEPT ![i] = {r \in Visible(i) : r.table = DeleteOrder[step[i]]}]
  /\ Goto(i, "deleting")
  /\ UNCHANGED <<inputs, committed, step, deleted, inserted, todo>>

NextDelete(i) ==
  LET last == step[i] = Len(DeleteOrder)
  IN  /\ step' = [step EXCEPT ![i] = IF last THEN 1 ELSE @ + 1]
      /\ Goto(i, IF last THEN "load" ELSE "delete")

\* Mutant: the schema has no foreign keys.
DeleteEnds_Unreferenced(i) ==
  /\ pc[i] = "deleting"
  /\ WaitsFor(i) = {}
  /\ deleted' = [deleted EXCEPT ![i] = @ \union (seen[i] \intersect committed)]
  /\ seen' = [seen EXCEPT ![i] = {}]
  /\ NextDelete(i)
  /\ UNCHANGED <<inputs, committed, inserted, todo>>

\* Rows another transaction deleted and committed meanwhile are passed over, rows
\* inserted and committed meanwhile are not seen, but the foreign keys of both
\* are checked.
DeleteEnds(i) ==
  LET gone == seen[i] \intersect committed
      broken == \E r \in Visible(i) \ gone : r.refs \intersect Ids(gone) # {}
  IN  /\ pc[i] = "deleting"
      /\ WaitsFor(i) = {}
      /\ IF broken THEN Rollback(i)
         ELSE /\ deleted' = [deleted EXCEPT ![i] = @ \union gone]
              /\ seen' = [seen EXCEPT ![i] = {}]
              /\ NextDelete(i)
              /\ UNCHANGED <<inputs, committed, inserted, todo>>

Advance(i) ==
  /\ step' = [step EXCEPT ![i] = IF @ = Len(LoadOrder) THEN @ ELSE @ + 1]
  /\ Goto(i, IF step[i] = Len(LoadOrder) THEN "commit" ELSE "load")
  /\ UNCHANGED <<inputs, committed, seen, deleted, inserted, todo>>

\* An optional file that is missing is skipped, a required one is an error.
SkipFile(i) ==
  LET table == LoadOrder[step[i]]
  IN  /\ pc[i] = "load"
      /\ table \notin DOMAIN archive[i].files
      /\ IF table \in Required THEN Rollback(i) ELSE Advance(i)

OpenFile(i) ==
  LET table == LoadOrder[step[i]]
  IN  /\ pc[i] = "load"
      /\ table \in DOMAIN archive[i].files
      /\ \E s \in Orders(i, table) : todo' = [todo EXCEPT ![i] = s]
      /\ Goto(i, "inserting")
      /\ UNCHANGED <<inputs, committed, step, seen, deleted, inserted>>

\* The key is free, and the rows referred to are there, the row itself included.
Fits(r, R) == Id(r) \notin Ids(R) /\ r.refs \subseteq Ids(R \union {r})

\* Mutant: the statements are prepared on the database, not on the transaction.
InsertRow_OutsideTx(i) ==
  LET r == Head(todo[i])
  IN  /\ pc[i] = "inserting"
      /\ todo[i] # << >>
      /\ WaitsFor(i) = {}
      /\ IF ~Fits(r, Visible(i)) THEN Rollback(i)
         ELSE /\ committed' = committed \union {r}
              /\ todo' = [todo EXCEPT ![i] = Tail(@)]
              /\ UNCHANGED <<inputs, pc, step, seen, deleted, inserted>>

\* Mutant: ON CONFLICT DO NOTHING, or an error of Exec that is logged and forgotten.
InsertRow_SkipsUnfit(i) ==
  LET r == Head(todo[i])
  IN  /\ pc[i] = "inserting"
      /\ todo[i] # << >>
      /\ WaitsFor(i) = {}
      /\ inserted' = [inserted EXCEPT ![i] = IF Fits(r, Visible(i)) THEN @ \union {r} ELSE @]
      /\ todo' = [todo EXCEPT ![i] = Tail(@)]
      /\ UNCHANGED <<inputs, committed, pc, step, seen, deleted>>

InsertRow(i) ==
  LET r == Head(todo[i])
  IN  /\ pc[i] = "inserting"
      /\ todo[i] # << >>
      /\ WaitsFor(i) = {}
      /\ IF ~Fits(r, Visible(i)) THEN Rollback(i)
         ELSE /\ inserted' = [inserted EXCEPT ![i] = @ \union {r}]
              /\ todo' = [todo EXCEPT ![i] = Tail(@)]
              /\ UNCHANGED <<inputs, committed, pc, step, seen, deleted>>

\* A malformed file fails at the latest here.
EndFile(i) ==
  /\ pc[i] = "inserting"
  /\ todo[i] = << >>
  /\ IF LoadOrder[step[i]] \in archive[i].malformed THEN Rollback(i) ELSE Advance(i)

Commit(i) ==
  /\ pc[i] = "commit"
  /\ committed' = Visible(i)
  /\ Goto(i, "done")
  /\ deleted' = [deleted EXCEPT ![i] = {}]
  /\ inserted' = [inserted EXCEPT ![i] = {}]
  /\ UNCHANGED <<inputs, step, seen, todo>>

\* PostgreSQL ends one of the transactions of a deadlock with an error.
DeadlockAborts(i) == Deadlocked(i) /\ Rollback(i)

Crash(i) == InTransaction(i) /\ Rollback(i)

ImportStep(i) ==
  \/ DeleteStarts(i) \/ DeleteEnds(i)
  \/ SkipFile(i) \/ OpenFile(i) \/ InsertRow(i) \/ EndFile(i)
  \/ Commit(i) \/ DeadlockAborts(i)

Finished == (\A i \in Importer : pc[i] \in {"done", "failed"}) /\ UNCHANGED vars

Next ==
  \/ \E i \in Importer : Begin(i) \/ ImportStep(i) \/ Crash(i)
  \/ Finished

\* An Import that has begun goes on as soon as no lock holds it up, and a deadlock
\* is found.
Spec == Init /\ [][Next]_vars /\ \A i \in Importer : WF_vars(ImportStep(i))

------------------------------------------------------------------------------
TypeOK ==
  /\ initial \in Initials
  /\ \A r \in committed : r.table \in Tables
  /\ pc \in [Importer ->
       {"idle", "delete", "deleting", "load", "inserting", "commit", "done", "failed"}]
  /\ step \in [Importer -> 1..8]
  /\ archive \in [Importer -> Archives]
  /\ \A i \in Importer : seen[i] # {} => pc[i] = "deleting"
  /\ \A i \in Importer : todo[i] # << >> => pc[i] = "inserting"
  /\ \A i \in Importer : ~InTransaction(i) => deleted[i] = {} /\ inserted[i] = {}

\* The table that Import empties first is not empty: the first of two Imports then
\* holds up the second before it has looked at any other table.
Filled == \E r \in initial : r.table = DeleteOrder[1]

(* On a database that holds data, a successful Import leaves its archive   *)
(* and nothing else, although one other Import may be at it.               *)
ImportReplaces ==
  [][\A i \in Importer :
       Filled /\ pc[i] = "commit" /\ pc'[i] = "done"
         => committed' = Image(i)]_vars

(* What importer.go:48 says, "Clear existing data": so on any database.    *)
ImportClears ==
  [][\A i \in Importer :
       pc[i] = "commit" /\ pc'[i] = "done" => committed' = Image(i)]_vars

(* Readers see the old data or one whole archive, never a mixture, with    *)
(* Imports crashing at any statement.                                      *)
WholeArchive ==
  Filled => committed \in {initial} \union {Image(i) : i \in Importer}

(* What readers see changes only by the commit of an Import that brings in *)
(* every row of its archive and no other, on any database: no crash, no    *)
(* bad row and no other Import leaves a part of an archive behind.         *)
ImportAtomic ==
  [][committed' # committed =>
       \E i \in Importer :
         /\ pc[i] = "commit" /\ pc'[i] = "done"
         /\ Image(i) \subseteq committed'
         /\ committed' \subseteq committed \union Image(i)]_vars

(* Readers never see a dangling reference, on an empty database as well.   *)
NoDangling ==
  \A r \in committed : r.refs \subseteq Ids(committed)

(* No Import waits for ever for a lock another holds, not even when two    *)
(* insert the same rows in different orders.                               *)
EveryImportEnds ==
  \A i \in Importer : InTransaction(i) ~> pc[i] \in {"done", "failed"}
==============================================================================
