--------------------------- MODULE GtfsImport_proofs ---------------------------
(***************************************************************************)
(* For any number of Imports, any archives and any schema-abiding rows at  *)
(* first: the committed rows always meet the schema, the answers of the    *)
(* REST API agree, and a commit adds one whole archive.  For two Imports   *)
(* on a database that holds data: readers see the old or one archive.      *)
(***************************************************************************)
EXTENDS GtfsReads, FiniteSetTheorems, TLAPS

Phases == {"idle", "delete", "deleting", "load", "inserting", "commit", "done", "failed"}

\* The variables indexed by Importer are functions.
Maps ==
  /\ pc \in [Importer -> Phases]
  /\ step \in [Importer -> 1..8]
  /\ archive \in [Importer -> Archives]
  /\ seen = [i \in Importer |-> seen[i]]
  /\ deleted = [i \in Importer |-> deleted[i]]
  /\ inserted = [i \in Importer |-> inserted[i]]
  /\ todo = [i \in Importer |-> todo[i]]

\* What a transaction holds, by where it stands.
Stages ==
  \A i \in Importer :
    /\ pc[i] # "deleting" => seen[i] = {}
    /\ pc[i] # "inserting" => todo[i] = << >>
    /\ pc[i] = "inserting" => /\ LoadOrder[step[i]] \in DOMAIN archive[i].files
                              /\ todo[i] \in Seq(RowSet(i, LoadOrder[step[i]]))
    /\ pc[i] \notin {"load", "inserting", "commit"} => inserted[i] = {}
    /\ pc[i] \in {"idle", "done", "failed"} => deleted[i] = {}
    /\ pc[i] = "idle" => step[i] = 1

WellFormed(r) == r.table \in Tables /\ (r.table = "stop_times" => IsStopTime(r))

RowsWellFormed ==
  /\ \A r \in committed : WellFormed(r)
  /\ \A i \in Importer : \A r \in inserted[i] : WellFormed(r)

KeysUnique == \A r, s \in committed : Id(r) = Id(s) => r = s

\* Nobody has deleted a row that is not there, or that another has deleted.
DeletesHeld ==
  \A i \in Importer :
    /\ deleted[i] \subseteq committed
    /\ \A j \in Others(i) : deleted[i] \intersect deleted[j] = {}

\* The key of an inserted row is used by nobody else.
InsertsHeld ==
  \A i \in Importer : \A r \in inserted[i] :
    /\ \A s \in inserted[i] : Id(r) = Id(s) => r = s
    /\ \A s \in committed \ deleted[i] : Id(r) # Id(s)
    /\ \A j \in Others(i) : \A s \in inserted[j] \union deleted[j] : Id(r) # Id(s)

\* What an inserted row refers to is not being deleted by another.
ReferencesHeld ==
  \A i \in Importer : \A r \in inserted[i] :
    \A j \in Others(i) : \A s \in deleted[j] : Id(s) \notin r.refs

\* Each transaction sees no dangling reference.
Grounded ==
  \A i \in Importer : \A r \in Visible(i) : \A ref \in r.refs :
    \E s \in Visible(i) : Id(s) = ref

CommittedGrounded == \A r \in committed : \A ref \in r.refs : \E s \in committed : Id(s) = ref

Locks == DeletesHeld /\ InsertsHeld /\ ReferencesHeld /\ Grounded

IInv ==
  /\ initial \in Initials
  /\ Maps /\ Stages /\ RowsWellFormed
  /\ KeysUnique /\ CommittedGrounded
  /\ Locks

------------------------------------------------------------------------------
\* At most two Imports.
TwoImporters == \A i, j, k \in Importer : i = j \/ i = k \/ j = k

Done == {i \in Importer : pc[i] = "done"}

First == {r \in initial : r.table = "stop_times"}

Loading(i) == pc[i] \in {"load", "inserting", "commit"}
Deleting(i) == pc[i] \in {"delete", "deleting"}

\* i has emptied the first table.
Past(i) == Loading(i) \/ (Deleting(i) /\ step[i] > 1)

Rows(i) == committed \ deleted[i]

\* A stop time that i did not see holds it up before it comes to the trips.
Stuck(i) == step[i] <= 4 /\ \E r \in Rows(i) : r.table = "stop_times"

Cleared(i) == \A r \in Rows(i) : \A k \in 1..(step[i] - 1) : r.table # DeleteOrder[k]

LoadedUpTo(i, k) ==
  UNION {RowSet(i, LoadOrder[n]) : n \in {m \in 1..k : LoadOrder[m] \in DOMAIN archive[i].files}}

Rest(i) == {todo[i][n] : n \in 1..Len(todo[i])}

\* What a loading Import has inserted so far.
ContentOf(i) ==
  /\ \A k \in 1..8 :
       /\ pc[i] = "load" /\ step[i] = k => inserted[i] = LoadedUpTo(i, k - 1)
       /\ pc[i] = "inserting" /\ step[i] = k => inserted[i] \union Rest(i) = LoadedUpTo(i, k)
  /\ pc[i] = "commit" => inserted[i] = LoadedUpTo(i, 8)

Content == \A i \in Importer : ContentOf(i)

\* The database is the old one, or an Import's own.
Owned ==
  /\ Done = {} => committed = initial
  /\ Done # {} => \E i \in Done : committed = Image(i)

\* How far i has come with emptying the tables.  Before the first commit, whoever
\* is past the first table holds all its rows.
Progress(i) ==
  /\ Done = {} /\ Past(i) => First \subseteq deleted[i]
  /\ pc[i] = "deleting" /\ (step[i] > 1 \/ Done = {}) =>
       seen[i] = {r \in Rows(i) : r.table = DeleteOrder[step[i]]}
  /\ Deleting(i) /\ step[i] = 1 => deleted[i] = {}
  /\ Deleting(i) => Cleared(i) \/ Stuck(i)
  /\ Loading(i) => Rows(i) = {}

Exclusive == Owned /\ \A i \in Importer : Progress(i)

TInv == Content /\ (Filled => Exclusive)

------------------------------------------------------------------------------
(* What the files become.                                                  *)

LEMMA RowOfWellFormed ==
  ASSUME NEW i, NEW t \in Tables \ {"shapes"}, NEW r
  PROVE  WellFormed(RowOf(i, t, r)) /\ RowOf(i, t, r).table = t
<1> USE DEF Row, Tables, Required, WellFormed
<1>1. CASE t = "agencies"
  BY <1>1 DEF RowOf, importAgencies
<1>2. CASE t = "routes"
  BY <1>2 DEF RowOf, importRoutes
<1>3. CASE t = "stops"
  BY <1>3 DEF RowOf, importStops
<1>4. CASE t = "trips"
  BY <1>4 DEF RowOf, importTrips
<1>5. CASE t = "stop_times"
  <2> DEFINE q == importStopTimes(i, r)
  <2>1. RowOf(i, t, r) = q
    BY <1>5 DEF RowOf
  <2>2. /\ q.table = "stop_times" /\ q.key = <<r.trip_id, r.stop_sequence>>
        /\ q.refs = {<<"trips", r.trip_id>>, <<"stops", r.stop_id>>}
    BY DEF importStopTimes
  <2> HIDE DEF q
  <2>3. q.key[1] = r.trip_id /\ q.key[2] = r.stop_sequence
    BY <2>2
  <2>4. r.stop_id \in {ref[2] : ref \in q.refs}
    BY <2>2
  <2>5. IsStopTime(q)
    BY <2>2, <2>3, <2>4 DEF IsStopTime
  <2>6. QED
    BY <1>5, <2>1, <2>2, <2>5
<1>6. CASE t = "calendar"
  BY <1>6 DEF RowOf, importCalendar
<1>7. CASE t = "calendar_dates"
  BY <1>7 DEF RowOf, importCalendarDates
<1>8. QED
  BY <1>1, <1>2, <1>3, <1>4, <1>5, <1>6, <1>7

LEMMA RowSetWellFormed ==
  ASSUME NEW i, NEW t \in Tables, NEW r \in RowSet(i, t)
  PROVE  WellFormed(r) /\ r.table = t
<1>1. CASE t = "shapes"
  <2>1. r \in importShapes(i)
    BY <1>1 DEF RowSet
  <2>2. PICK id : r = Row(i, "shapes", id, {})
    BY <2>1 DEF importShapes
  <2>3. QED
    BY <1>1, <2>2 DEF Row, WellFormed
<1>2. CASE t # "shapes"
  <2>1. r \in {RowsOf(i, t)[n] : n \in DOMAIN archive[i].files[t]}
    BY <1>2 DEF RowSet
  <2>2. PICK n \in DOMAIN archive[i].files[t] : r = RowsOf(i, t)[n]
    BY <2>1
  <2>3. r = RowOf(i, t, archive[i].files[t][n])
    BY <2>2 DEF RowsOf
  <2>4. QED
    BY <1>2, <2>3, RowOfWellFormed
<1>3. QED
  BY <1>1, <1>2

LEMMA ShapesFinite ==
  ASSUME NEW i, archive[i].files["shapes"] \in Seq({archive[i].files["shapes"][n] :
                                                      n \in DOMAIN archive[i].files["shapes"]})
  PROVE  IsFiniteSet(importShapes(i))
<1> DEFINE file == archive[i].files["shapes"]
           D == DOMAIN file
           points(id) == {n \in D : file[n].shape_id = id}
           ids == {file[n].shape_id : n \in D}
           long == {x \in ids : Cardinality(points(x)) >= 2}
<1>1. D = 1..Len(file) /\ Len(file) \in Nat
  OBVIOUS
<1>2. IsFiniteSet(D)
  BY <1>1, FS_Interval
<1>3. IsFiniteSet(ids)
  <2> HIDE DEF D
  <2>1. ids = {[m \in D |-> file[m].shape_id][n] : n \in D}
    OBVIOUS
  <2>2. ASSUME NEW f, f = [n \in D |-> file[n].shape_id]
        PROVE  IsFiniteSet({f[n] : n \in D})
    <3>1. f \in Surjection(D, {f[n] : n \in D})
      BY <2>2 DEF Surjection
    <3>2. QED
      BY <1>2, <3>1, FS_Surjection
  <2>3. QED
    BY <2>1, <2>2
<1> HIDE DEF ids
<1>4. IsFiniteSet(long)
  BY <1>3, FS_Subset
<1> HIDE DEF long
<1> DEFINE g == [x \in long |-> Row(i, "shapes", x, {})]
<1>5. g \in Surjection(long, {g[x] : x \in long})
  BY DEF Surjection
<1>6. IsFiniteSet({g[x] : x \in long})
  BY <1>4, <1>5, FS_Surjection
<1>7. importShapes(i) = {g[x] : x \in long}
  BY DEF importShapes, long, ids
<1>8. QED
  BY <1>6, <1>7

(* Whatever the order, the rows to insert are those of the file.           *)
LEMMA OrdersOfRowSet ==
  ASSUME NEW i, archive[i] \in Archives,
         NEW t \in DOMAIN archive[i].files, NEW s \in Orders(i, t)
  PROVE  /\ s \in Seq(RowSet(i, t))
         /\ {s[n] : n \in 1..Len(s)} = RowSet(i, t)
<1> DEFINE file == archive[i].files[t]
<1>1. file \in Seq({file[n] : n \in DOMAIN file})
  BY ArchivesAssumption
<1>2. CASE t = "shapes"
  <2> DEFINE R == importShapes(i)
  <2>1. IsFiniteSet(R)
    BY <1>1, <1>2, ShapesFinite
  <2>2. Cardinality(R) \in Nat
    BY <2>1, FS_CardinalityType
  <2>3. s \in [1..Cardinality(R) -> R] /\ \A r \in R : \E n \in DOMAIN s : s[n] = r
    BY <1>2 DEF Orders
  <2>4. RowSet(i, t) = R
    BY <1>2 DEF RowSet
  <2> HIDE DEF R
  <2>5. s \in Seq(R) /\ Len(s) = Cardinality(R)
    BY <2>2, <2>3
  <2>6. QED
    BY <2>3, <2>4, <2>5
<1>3. CASE t # "shapes"
  <2>1. s = RowsOf(i, t) /\ RowSet(i, t) = {s[n] : n \in DOMAIN file}
    BY <1>3 DEF Orders, RowSet
  <2>2. DOMAIN file = 1..Len(file) /\ Len(file) \in Nat
    BY <1>1
  <2>3. s = [n \in 1..Len(file) |-> RowOf(i, t, file[n])]
    BY <2>1, <2>2 DEF RowsOf
  <2> HIDE DEF file
  <2>4. s \in [1..Len(file) -> RowSet(i, t)]
    BY <2>1, <2>2, <2>3
  <2>5. s \in Seq(RowSet(i, t)) /\ Len(s) = Len(file)
    BY <2>2, <2>4
  <2>6. QED
    BY <2>1, <2>2, <2>5
<1>4. QED
  BY <1>2, <1>3

------------------------------------------------------------------------------
(* What the rows of the transactions depend on.                            *)
rowVars == <<committed, deleted, inserted>>

LEMMA UntouchedLocks ==
  ASSUME Locks, UNCHANGED rowVars
  PROVE  Locks'
BY DEF Locks, DeletesHeld, InsertsHeld, ReferencesHeld, Grounded, Visible, rowVars

(* A transaction that ends without effect gives up what it held.           *)
LEMMA RollbackLocks ==
  ASSUME Maps, Locks, CommittedGrounded, NEW i \in Importer, Rollback(i)
  PROVE  Locks'
<1>1. /\ committed' = committed
      /\ deleted' = [deleted EXCEPT ![i] = {}]
      /\ inserted' = [inserted EXCEPT ![i] = {}]
  BY DEF Rollback
<1>2. /\ deleted'[i] = {} /\ inserted'[i] = {}
      /\ \A j \in Importer : j # i => deleted'[j] = deleted[j] /\ inserted'[j] = inserted[j]
      /\ \A j \in Importer : deleted'[j] \subseteq deleted[j] /\ inserted'[j] \subseteq inserted[j]
  BY <1>1 DEF Maps
<1>3. DeletesHeld'
  BY <1>1, <1>2 DEF Locks, DeletesHeld, Others
<1>4. InsertsHeld'
  BY <1>1, <1>2 DEF Locks, InsertsHeld, Others
<1>5. ReferencesHeld'
  BY <1>2 DEF Locks, ReferencesHeld, Others
<1>6. Grounded'
  <2>1. ASSUME NEW j \in Importer, j # i
        PROVE  Visible(j)' = Visible(j)
    BY <1>1, <1>2, <2>1 DEF Visible
  <2>2. Visible(i)' = committed
    BY <1>1, <1>2 DEF Visible
  <2>3. QED
    BY <2>1, <2>2 DEF Locks, Grounded, CommittedGrounded
<1>7. QED
  BY <1>3, <1>4, <1>5, <1>6 DEF Locks

(* A DELETE takes rows nobody holds and nobody it sees refers to.          *)
LEMMA DeleteLocks ==
  ASSUME Maps, Locks, NEW i \in Importer, inserted[i] = {}, HoldUpDelete(i) = {},
         NEW gone, gone = seen[i] \intersect committed,
         \A r \in Visible(i) \ gone : r.refs \intersect Ids(gone) = {},
         deleted' = [deleted EXCEPT ![i] = @ \union gone],
         UNCHANGED <<committed, inserted>>
  PROVE  Locks'
<1>1. /\ deleted'[i] = deleted[i] \union gone
      /\ \A j \in Importer : j # i => deleted'[j] = deleted[j]
  BY DEF Maps
<1>2. \A j \in Importer : j # i =>
        /\ gone \intersect deleted[j] = {}
        /\ \A r \in inserted[j] : \A s \in gone : Id(s) \notin r.refs
  BY DEF HoldUpDelete, Others, Ids
<1>3. DeletesHeld'
  BY <1>1, <1>2 DEF Locks, DeletesHeld, Others
<1>4. InsertsHeld'
  BY <1>1, <1>2 DEF Locks, InsertsHeld, Others
<1>5. ReferencesHeld'
  BY <1>1, <1>2 DEF Locks, ReferencesHeld, Others
<1>6. Grounded'
  <2>1. ASSUME NEW j \in Importer, j # i
        PROVE  Visible(j)' = Visible(j)
    BY <1>1, <2>1 DEF Visible
  <2>2. Visible(i)' = Visible(i) \ gone
    BY <1>1 DEF Visible
  <2>3. \A r \in Visible(i) \ gone : \A ref \in r.refs :
          \E s \in Visible(i) \ gone : Id(s) = ref
    BY DEF Locks, Grounded, Ids
  <2>4. QED
    BY <2>1, <2>2, <2>3 DEF Locks, Grounded
<1>7. QED
  BY <1>3, <1>4, <1>5, <1>6 DEF Locks

(* An INSERT takes a key that is free and refers to rows that stay.        *)
LEMMA InsertLocks ==
  ASSUME Maps, Locks, NEW i \in Importer, NEW r, Fits(r, Visible(i)),
         todo[i] # << >>, r = Head(todo[i]), HoldUpInsert(i) = {},
         inserted' = [inserted EXCEPT ![i] = @ \union {r}],
         UNCHANGED <<committed, deleted>>
  PROVE  Locks'
<1>1. /\ inserted'[i] = inserted[i] \union {r}
      /\ \A j \in Importer : j # i => inserted'[j] = inserted[j]
  BY DEF Maps
<1>2. /\ \A s \in Visible(i) : Id(s) # Id(r)
      /\ \A ref \in r.refs : \E s \in Visible(i) \union {r} : Id(s) = ref
  BY DEF Fits, Ids
<1>3. \A j \in Importer : j # i =>
        /\ \A s \in inserted[j] \union deleted[j] : Id(s) # Id(r)
        /\ \A s \in deleted[j] : Id(s) \notin r.refs
  BY DEF HoldUpInsert, Others, Ids
<1>4. DeletesHeld'
  BY DEF Locks, DeletesHeld, Others
<1>5. InsertsHeld'
  BY <1>1, <1>2, <1>3 DEF Locks, InsertsHeld, Others, Visible
<1>6. ReferencesHeld'
  BY <1>1, <1>3 DEF Locks, ReferencesHeld, Others
<1>7. Grounded'
  <2>1. ASSUME NEW j \in Importer, j # i
        PROVE  Visible(j)' = Visible(j)
    BY <1>1, <2>1 DEF Visible
  <2>2. Visible(i)' = Visible(i) \union {r}
    BY <1>1 DEF Visible
  <2>3. QED
    BY <1>2, <2>1, <2>2 DEF Locks, Grounded
<1>8. QED
  BY <1>4, <1>5, <1>6, <1>7 DEF Locks

(* A commit leaves the view of every other transaction without dangling    *)
(* references: what it deleted nobody needs, or it has put back.           *)
LEMMA CommitLocks ==
  ASSUME Maps, Locks, KeysUnique, NEW i \in Importer, Commit(i)
  PROVE  Locks' /\ KeysUnique' /\ CommittedGrounded'
<1>1. /\ committed' = (committed \ deleted[i]) \union inserted[i]
      /\ deleted' = [deleted EXCEPT ![i] = {}]
      /\ inserted' = [inserted EXCEPT ![i] = {}]
  BY DEF Commit, Visible
<1>2. /\ deleted'[i] = {} /\ inserted'[i] = {}
      /\ \A j \in Importer : j # i => deleted'[j] = deleted[j] /\ inserted'[j] = inserted[j]
  BY <1>1 DEF Maps
<1>3. \A j \in Importer : j # i =>
        /\ \A r \in inserted[j] : \A s \in inserted[i] \union deleted[i] : Id(r) # Id(s)
        /\ \A r \in inserted[i] : \A s \in inserted[j] \union deleted[j] : Id(r) # Id(s)
        /\ deleted[i] \intersect deleted[j] = {}
  BY DEF Locks, InsertsHeld, DeletesHeld, Others
<1>4. DeletesHeld'
  BY <1>1, <1>2, <1>3 DEF Locks, DeletesHeld, Others
<1>5. InsertsHeld'
  BY <1>1, <1>2, <1>3 DEF Locks, InsertsHeld, Others
<1>6. ReferencesHeld'
  BY <1>2 DEF Locks, ReferencesHeld, Others
<1>7. KeysUnique'
  BY <1>1 DEF Locks, InsertsHeld, KeysUnique
<1>8. CommittedGrounded'
  BY <1>1 DEF Locks, Grounded, Visible, CommittedGrounded
<1>9. ASSUME NEW j \in Importer, j # i, NEW r \in Visible(j)', NEW ref \in r.refs
      PROVE  \E s \in Visible(j)' : Id(s) = ref
  <2>1. Visible(j)' = (committed' \ deleted[j]) \union inserted[j]
    BY <1>2, <1>9 DEF Visible
  <2>2. CASE r \in inserted[j]
    <3>1. PICK s \in Visible(j) : Id(s) = ref
      BY <2>2 DEF Locks, Grounded, Visible
    <3>2. s \notin deleted[i]
      BY <1>9, <2>2, <3>1 DEF Locks, ReferencesHeld, Others
    <3>3. QED
      BY <1>1, <2>1, <3>1, <3>2 DEF Visible
  <2>3. CASE r \in inserted[i]
    <3>1. PICK s \in Visible(i) : Id(s) = ref
      BY <2>3 DEF Locks, Grounded, Visible
    <3>2. s \notin deleted[j]
      BY <1>9, <2>3, <3>1 DEF Locks, ReferencesHeld, Others
    <3>3. QED
      BY <1>1, <2>1, <3>1, <3>2 DEF Visible
  <2>4. CASE r \in committed /\ r \notin deleted[i] /\ r \notin deleted[j]
    <3>1. PICK s \in Visible(j) : Id(s) = ref
      BY <2>4 DEF Locks, Grounded, Visible
    <3>2. PICK t \in Visible(i) : Id(t) = ref
      BY <2>4 DEF Locks, Grounded, Visible
    <3>3. CASE s \in inserted[j]
      BY <2>1, <3>1, <3>3
    <3>4. CASE s \in committed /\ s \notin deleted[j] /\ s \notin deleted[i]
      BY <1>1, <2>1, <3>1, <3>4
    <3>5. CASE s \in committed /\ s \in deleted[i]
      <4>1. t \in inserted[i]
        BY <3>1, <3>2, <3>5 DEF KeysUnique, Visible
      <4>2. t \notin deleted[j]
        BY <1>3, <1>9, <4>1
      <4>3. QED
        BY <1>1, <2>1, <3>2, <4>1, <4>2
    <3>6. QED
      BY <3>1, <3>3, <3>4, <3>5 DEF Visible
  <2>5. QED
    BY <1>1, <2>1, <2>2, <2>3, <2>4
<1>10. Grounded'
  <2>1. Visible(i)' = committed'
    BY <1>2 DEF Visible
  <2>2. QED
    BY <1>8, <1>9, <2>1 DEF Grounded, CommittedGrounded
<1>11. QED
  BY <1>4, <1>5, <1>6, <1>7, <1>8, <1>10 DEF Locks

------------------------------------------------------------------------------
(* The steps.                                                              *)

LEMMA InitIInv == Init => IInv
<1> SUFFICES ASSUME Init
             PROVE  IInv
  OBVIOUS
<1>1. MeetsSchema(initial) /\ committed = initial
  BY InitialsAssumption DEF Init
<1>2. \A i \in Importer :
        /\ pc[i] = "idle" /\ step[i] = 1 /\ seen[i] = {} /\ deleted[i] = {}
        /\ inserted[i] = {} /\ todo[i] = << >>
  BY DEF Init
<1>3. Maps
  BY DEF Init, Maps, Phases
<1>4. Stages
  BY <1>2 DEF Stages
<1>5. RowsWellFormed /\ KeysUnique
  BY <1>1, <1>2 DEF MeetsSchema, RowsWellFormed, WellFormed, KeysUnique
<1>6. CommittedGrounded
  BY <1>1 DEF MeetsSchema, CommittedGrounded, Ids
<1>7. DeletesHeld /\ InsertsHeld /\ ReferencesHeld
  BY <1>2 DEF DeletesHeld, InsertsHeld, ReferencesHeld
<1>8. Grounded
  <2>1. \A i \in Importer : Visible(i) = committed
    BY <1>2 DEF Visible
  <2>2. QED
    BY <1>6, <2>1 DEF Grounded, CommittedGrounded
<1>9. QED
  BY <1>3, <1>4, <1>5, <1>6, <1>7, <1>8 DEF IInv, Init, Locks

\* The rows of an archive do not change.
LEMMA ArchiveStays ==
  ASSUME UNCHANGED archive, NEW i, NEW t
  PROVE  RowSet(i, t)' = RowSet(i, t)
BY DEF RowSet, importShapes, RowsOf, RowOf, importAgencies, importRoutes, importStops,
       importTrips, importStopTimes, importCalendar, importCalendarDates

LEMMA HeadAndTail ==
  ASSUME NEW S, NEW s \in Seq(S), s # << >>
  PROVE  /\ Head(s) \in S /\ Tail(s) \in Seq(S)
         /\ {s[n] : n \in 1..Len(s)} =
              {Head(s)} \union {Tail(s)[n] : n \in 1..Len(Tail(s))}
<1>1. /\ Len(s) \in Nat \ {0} /\ Head(s) = s[1] /\ Head(s) \in S
      /\ Tail(s) \in Seq(S) /\ Len(Tail(s)) = Len(s) - 1
      /\ \A n \in 1..(Len(s) - 1) : Tail(s)[n] = s[n + 1]
  OBVIOUS
<1>2. {s[n] : n \in 1..Len(s)} \subseteq
        {Head(s)} \union {Tail(s)[n] : n \in 1..Len(Tail(s))}
  <2>1. SUFFICES ASSUME NEW n \in 1..Len(s)
                 PROVE  s[n] \in {Head(s)} \union {Tail(s)[m] : m \in 1..Len(Tail(s))}
    OBVIOUS
  <2>2. n = 1 \/ (n - 1 \in 1..Len(Tail(s)) /\ Tail(s)[n - 1] = s[n])
    BY <1>1
  <2>3. QED
    BY <1>1, <2>2
<1>3. {Head(s)} \union {Tail(s)[n] : n \in 1..Len(Tail(s))} \subseteq {s[n] : n \in 1..Len(s)}
  BY <1>1
<1>4. QED
  BY <1>1, <1>2, <1>3

LEMMA RollbackKeeps ==
  ASSUME IInv, NEW i \in Importer, Rollback(i)
  PROVE  IInv'
<1>1. Maps'
  BY DEF IInv, Maps, Phases, Rollback, Goto, inputs
<1>2. Stages'
  BY ArchiveStays DEF IInv, Maps, Stages, Rollback, Goto, inputs
<1>3. RowsWellFormed' /\ KeysUnique' /\ CommittedGrounded'
  BY DEF IInv, Maps, RowsWellFormed, WellFormed, KeysUnique, CommittedGrounded, Rollback
<1>4. Locks'
  BY RollbackLocks DEF IInv
<1>5. QED
  BY <1>1, <1>2, <1>3, <1>4 DEF IInv, Rollback, inputs

\* A step that leaves the rows alone.
LEMMA QuietKeeps ==
  ASSUME IInv, UNCHANGED <<rowVars, initial>>, Maps', Stages'
  PROVE  IInv'
<1>1. RowsWellFormed' /\ KeysUnique' /\ CommittedGrounded'
  BY DEF IInv, RowsWellFormed, WellFormed, KeysUnique, CommittedGrounded, rowVars
<1>2. Locks'
  BY UntouchedLocks DEF IInv
<1>3. QED
  BY <1>1, <1>2 DEF IInv

LEMMA BeginKeeps ==
  ASSUME IInv, NEW i \in Importer, Begin(i)
  PROVE  IInv'
<1>1. Maps'
  BY DEF IInv, Maps, Phases, Begin, Goto, inputs
<1>2. Stages'
  BY ArchiveStays DEF IInv, Maps, Stages, Begin, Goto, inputs
<1>3. QED
  BY <1>1, <1>2, QuietKeeps DEF Begin, rowVars, inputs

LEMMA DeleteStartsKeeps ==
  ASSUME IInv, NEW i \in Importer, DeleteStarts(i)
  PROVE  IInv'
<1>1. Maps'
  BY DEF IInv, Maps, Phases, DeleteStarts, Goto, inputs
<1>2. Stages'
  BY ArchiveStays DEF IInv, Maps, Stages, DeleteStarts, Goto, inputs
<1>3. QED
  BY <1>1, <1>2, QuietKeeps DEF DeleteStarts, rowVars, inputs

LEMMA AdvanceKeeps ==
  ASSUME IInv, NEW i \in Importer, pc[i] \in {"load", "inserting"}, todo[i] = << >>, Advance(i)
  PROVE  IInv'
<1>1. Maps'
  BY DEF IInv, Maps, Phases, Advance, Goto, inputs, LoadOrder
<1>2. pc'[i] \in {"load", "commit"} /\ \A j \in Importer : j # i => pc'[j] = pc[j] /\ step'[j] = step[j]
  BY DEF IInv, Maps, Advance, Goto
<1>3. UNCHANGED <<inputs, committed, seen, deleted, inserted, todo>>
  BY DEF Advance
<1>4. Stages'
  BY <1>2, <1>3, ArchiveStays DEF IInv, Maps, Stages, inputs
<1>5. QED
  BY <1>1, <1>3, <1>4, QuietKeeps DEF rowVars, inputs

LEMMA OpenFileKeeps ==
  ASSUME IInv, NEW i \in Importer, OpenFile(i)
  PROVE  IInv'
<1> DEFINE table == LoadOrder[step[i]]
<1>1. table \in DOMAIN archive[i].files /\ pc[i] = "load"
  BY DEF OpenFile
<1>2. PICK s \in Orders(i, table) : todo' = [todo EXCEPT ![i] = s]
  BY DEF OpenFile
<1>3. /\ pc' = [pc EXCEPT ![i] = "inserting"]
      /\ UNCHANGED <<inputs, committed, step, seen, deleted, inserted>>
  BY DEF OpenFile, Goto
<1>4. s \in Seq(RowSet(i, table))
  BY <1>1, <1>2, OrdersOfRowSet DEF IInv, Maps
<1> HIDE DEF table
<1>5. Maps'
  BY <1>2, <1>3 DEF IInv, Maps, Phases, inputs
<1>6. Stages'
  <2>1. /\ pc'[i] = "inserting" /\ todo'[i] = s
        /\ \A j \in Importer : j # i => pc'[j] = pc[j] /\ todo'[j] = todo[j]
    BY <1>2, <1>3 DEF IInv, Maps
  <2>2. QED
    BY <1>1, <1>3, <1>4, <2>1, ArchiveStays DEF IInv, Stages, inputs, table
<1>7. QED
  BY <1>3, <1>5, <1>6, QuietKeeps DEF rowVars, inputs

LEMMA WaitsForDelete ==
  ASSUME NEW i, pc[i] = "deleting", WaitsFor(i) = {}
  PROVE  HoldUpDelete(i) = {}
BY DEF WaitsFor

LEMMA WaitsForInsert ==
  ASSUME NEW i, pc[i] = "inserting", todo[i] # << >>, WaitsFor(i) = {}
  PROVE  HoldUpInsert(i) = {}
BY DEF WaitsFor

LEMMA DeleteEndsKeeps ==
  ASSUME IInv, NEW i \in Importer, DeleteEnds(i), ~Rollback(i)
  PROVE  IInv'
<1> DEFINE gone == seen[i] \intersect committed
<1>1. /\ pc[i] = "deleting" /\ WaitsFor(i) = {}
      /\ \A r \in Visible(i) \ gone : r.refs \intersect Ids(gone) = {}
      /\ deleted' = [deleted EXCEPT ![i] = @ \union gone]
      /\ seen' = [seen EXCEPT ![i] = {}]
      /\ NextDelete(i)
      /\ UNCHANGED <<inputs, committed, inserted, todo>>
  BY DEF DeleteEnds
<1> HIDE DEF gone
<1>2. inserted[i] = {}
  BY <1>1 DEF IInv, Stages
<1>3. Maps'
  <2>1. Len(DeleteOrder) = 8
    BY DEF DeleteOrder
  <2>2. step' = [step EXCEPT ![i] = IF step[i] = 8 THEN 1 ELSE @ + 1]
    BY <1>1, <2>1 DEF NextDelete
  <2>3. pc' \in [Importer -> Phases]
    BY <1>1 DEF IInv, Maps, NextDelete, Goto, Phases
  <2>4. step' \in [Importer -> 1..8]
    BY <2>2 DEF IInv, Maps
  <2>5. QED
    BY <1>1, <2>3, <2>4 DEF IInv, Maps, inputs
<1>4. Stages'
  <2>1. /\ pc'[i] \in {"delete", "load"} /\ seen'[i] = {}
        /\ \A j \in Importer : j # i => /\ pc'[j] = pc[j] /\ step'[j] = step[j]
                                        /\ seen'[j] = seen[j] /\ deleted'[j] = deleted[j]
    BY <1>1 DEF IInv, Maps, NextDelete, Goto
  <2>2. QED
    BY <1>1, <2>1, ArchiveStays DEF IInv, Stages, inputs
<1>5. Locks'
  BY <1>1, <1>2, DeleteLocks, WaitsForDelete DEF IInv, gone
<1>6. RowsWellFormed' /\ KeysUnique' /\ CommittedGrounded'
  BY <1>1 DEF IInv, RowsWellFormed, WellFormed, KeysUnique, CommittedGrounded
<1>7. QED
  BY <1>1, <1>3, <1>4, <1>5, <1>6 DEF IInv, inputs

LEMMA InsertRowKeeps ==
  ASSUME IInv, NEW i \in Importer, InsertRow(i), ~Rollback(i)
  PROVE  IInv'
<1> DEFINE r == Head(todo[i])
           table == LoadOrder[step[i]]
<1>1. /\ pc[i] = "inserting" /\ todo[i] # << >> /\ WaitsFor(i) = {}
      /\ Fits(r, Visible(i))
      /\ inserted' = [inserted EXCEPT ![i] = @ \union {r}]
      /\ todo' = [todo EXCEPT ![i] = Tail(@)]
      /\ UNCHANGED <<inputs, committed, pc, step, seen, deleted>>
  BY DEF InsertRow
<1>2. todo[i] \in Seq(RowSet(i, table)) /\ table \in DOMAIN archive[i].files
  BY <1>1 DEF IInv, Stages
<1>3. r \in RowSet(i, table) /\ Tail(todo[i]) \in Seq(RowSet(i, table))
  BY <1>1, <1>2, HeadAndTail
<1>4. table \in Tables
  BY <1>2, ArchivesAssumption DEF IInv, Maps
<1>5. WellFormed(r)
  BY <1>3, <1>4, RowSetWellFormed
<1> HIDE DEF r, table
<1>6. Maps'
  BY <1>1 DEF IInv, Maps, Phases, inputs
<1>7. Stages'
  <2>1. /\ todo'[i] = Tail(todo[i])
        /\ \A j \in Importer : j # i => todo'[j] = todo[j] /\ inserted'[j] = inserted[j]
    BY <1>1 DEF IInv, Maps
  <2>2. QED
    BY <1>1, <1>2, <1>3, <2>1, ArchiveStays DEF IInv, Stages, inputs, table
<1>8. Locks'
  BY <1>1, InsertLocks, WaitsForInsert DEF IInv, r
<1>9. RowsWellFormed' /\ KeysUnique' /\ CommittedGrounded'
  <2>1. /\ inserted'[i] = inserted[i] \union {r}
        /\ \A j \in Importer : j # i => inserted'[j] = inserted[j]
    BY <1>1 DEF IInv, Maps
  <2>2. QED
    BY <1>1, <1>5, <2>1 DEF IInv, RowsWellFormed, WellFormed, KeysUnique, CommittedGrounded
<1>10. QED
  BY <1>1, <1>6, <1>7, <1>8, <1>9 DEF IInv, inputs

LEMMA CommitKeeps ==
  ASSUME IInv, NEW i \in Importer, Commit(i)
  PROVE  IInv'
<1>1. Maps'
  BY DEF IInv, Maps, Phases, Commit, Goto, inputs
<1>2. Stages'
  <2>1. /\ pc'[i] = "done" /\ deleted'[i] = {} /\ inserted'[i] = {} /\ pc[i] = "commit"
        /\ \A j \in Importer : j # i => /\ pc'[j] = pc[j] /\ deleted'[j] = deleted[j]
                                        /\ inserted'[j] = inserted[j]
        /\ UNCHANGED <<inputs, step, seen, todo>>
    BY DEF IInv, Maps, Commit, Goto
  <2>2. QED
    BY <2>1, ArchiveStays DEF IInv, Stages, inputs
<1>3. RowsWellFormed'
  BY DEF IInv, Maps, RowsWellFormed, WellFormed, Commit, Visible
<1>4. Locks' /\ KeysUnique' /\ CommittedGrounded'
  BY CommitLocks DEF IInv
<1>5. QED
  BY <1>1, <1>2, <1>3, <1>4 DEF IInv, Commit, inputs

LEMMA NextIInv ==
  ASSUME IInv, [Next]_vars
  PROVE  IInv'
<1>1. ASSUME NEW i \in Importer, Begin(i) \/ ImportStep(i) \/ Crash(i)
      PROVE  IInv'
  <2>1. CASE Rollback(i)
    BY <2>1, RollbackKeeps
  <2>2. CASE Begin(i)
    BY <2>2, BeginKeeps
  <2>3. CASE DeleteStarts(i)
    BY <2>3, DeleteStartsKeeps
  <2>4. CASE DeleteEnds(i) /\ ~Rollback(i)
    BY <2>4, DeleteEndsKeeps
  <2>5. CASE SkipFile(i) /\ ~Rollback(i)
    <3>1. pc[i] = "load" /\ Advance(i) /\ todo[i] = << >>
      BY <2>5 DEF SkipFile, IInv, Stages
    <3>2. QED
      BY <3>1, AdvanceKeeps
  <2>6. CASE OpenFile(i)
    BY <2>6, OpenFileKeeps
  <2>7. CASE InsertRow(i) /\ ~Rollback(i)
    BY <2>7, InsertRowKeeps
  <2>8. CASE EndFile(i) /\ ~Rollback(i)
    <3>1. pc[i] = "inserting" /\ Advance(i) /\ todo[i] = << >>
      BY <2>8 DEF EndFile
    <3>2. QED
      BY <3>1, AdvanceKeeps
  <2>9. CASE Commit(i)
    BY <2>9, CommitKeeps
  <2>10. QED
    BY <1>1, <2>1, <2>2, <2>3, <2>4, <2>5, <2>6, <2>7, <2>8, <2>9
       DEF ImportStep, DeadlockAborts, Crash
<1>2. CASE UNCHANGED vars
  <2>1. Maps' /\ Stages'
    BY <1>2, ArchiveStays DEF IInv, Maps, Stages, vars, inputs
  <2>2. QED
    BY <1>2, <2>1, QuietKeeps DEF vars, rowVars, inputs
<1>3. QED
  BY <1>1, <1>2 DEF Next, Finished

THEOREM Inductive == Spec => []IInv
<1>1. IInv /\ [Next]_vars => IInv'
  BY NextIInv
<1>2. QED
  BY <1>1, InitIInv, PTL DEF Spec

(* Every variable keeps its type, and outside a transaction nothing is     *)
(* held, whatever error ended it.                                          *)
THEOREM TypeCorrect == Spec => []TypeOK
<1>1. IInv => TypeOK
  BY DEF IInv, Maps, Stages, RowsWellFormed, WellFormed, TypeOK, Phases, InTransaction
<1>2. QED
  BY <1>1, Inductive, PTL

(* What readers see meets the schema: keys are unique, no reference        *)
(* dangles, and every stop time has a trip and one stop; for any number of *)
(* Imports, in any interleaving, crashing at any statement.                *)
THEOREM SchemaKept == Spec => [](NoDangling /\ MeetsSchema(committed))
<1>1. IInv => NoDangling /\ MeetsSchema(committed)
  BY DEF IInv, RowsWellFormed, WellFormed, KeysUnique, CommittedGrounded, NoDangling,
         MeetsSchema, Ids
<1>2. QED
  BY <1>1, Inductive, PTL

------------------------------------------------------------------------------
(* The answers of the REST API.                                            *)

LEMMA TripsReferToRoutes ==
  ASSUME NoDangling, NEW t \in Table("trips"), NEW id, <<"routes", id>> \in t.refs
  PROVE  \E r \in Table("routes") : r.key = id /\ RefersTo(t, r)
<1>1. PICK r \in committed : Id(r) = <<"routes", id>>
  BY DEF NoDangling, Table, Ids
<1>2. r.table = "routes" /\ r.key = id
  BY <1>1 DEF Id
<1>3. QED
  BY <1>1, <1>2 DEF Table, RefersTo

LEMMA ShapesAgreeIn ==
  ASSUME NoDangling
  PROVE  ShapesAgree
<1> DEFINE shapesOf(r) == {s \in Table("shapes") :
                             \E t \in Table("trips") : RefersTo(t, r) /\ RefersTo(t, s)}
           drawn == {r \in Table("routes") : shapesOf(r) # {}}
           all == [id \in {r.key : r \in drawn} |-> UNION {shapesOf(r) : r \in GetRoute(id)}]
<1>1. handleGetAllShapes = all
  BY DEF handleGetAllShapes, GetAllRouteShapes
<1>2. ASSUME NEW r \in Table("routes")
      PROVE  shapesOf(r) = GetRouteShape(r.key)
  BY DEF RefersTo, GetRouteShape, Id, Table
<1>3. ASSUME NEW id, GetRouteShape(id) # {}
      PROVE  \E r \in Table("routes") : r.key = id
  BY <1>3, TripsReferToRoutes DEF GetRouteShape
<1> HIDE DEF shapesOf
<1>4. ASSUME NEW id
      PROVE  /\ id \in {r.key : r \in drawn} <=> GetRouteShape(id) # {}
             /\ id \in {r.key : r \in drawn} => all[id] = GetRouteShape(id)
  <2>1. id \in {r.key : r \in drawn} => GetRouteShape(id) # {}
    BY <1>2
  <2>2. GetRouteShape(id) # {} => id \in {r.key : r \in drawn}
    BY <1>2, <1>3
  <2>3. ASSUME id \in {r.key : r \in drawn}
        PROVE  UNION {shapesOf(r) : r \in GetRoute(id)} = GetRouteShape(id)
    <3>1. PICK r \in drawn : r.key = id
      BY <2>3
    <3>2. r \in GetRoute(id) /\ \A q \in GetRoute(id) : q \in Table("routes") /\ q.key = id
      BY <3>1 DEF GetRoute
    <3>3. \A q \in GetRoute(id) : shapesOf(q) = GetRouteShape(id)
      BY <1>2, <3>2
    <3>4. QED
      BY <3>2, <3>3
  <2>4. QED
    BY <2>1, <2>2, <2>3
<1> HIDE DEF all, drawn
<1>5. DOMAIN all = {r.key : r \in drawn}
  BY DEF all
<1>6. ASSUME NEW id
      PROVE  LET one == handleGetRouteShape(id)
             IN  /\ one.status = 200 <=> id \in DOMAIN all
                 /\ one.status = 200 =>
                      /\ all[id] = one.shapes
                      /\ id \in handleListRoutes
                      /\ handleGetRoute(id) = 200
  <2> DEFINE one == handleGetRouteShape(id)
  <2>1. /\ one.shapes = GetRouteShape(id)
        /\ one.status = 200 <=> GetRouteShape(id) # {}
    BY DEF handleGetRouteShape, Status
  <2>2. GetRouteShape(id) # {} => id \in handleListRoutes /\ handleGetRoute(id) = 200
    BY <1>3 DEF handleListRoutes, ListRoutes, handleGetRoute, GetRoute, Status
  <2>3. QED
    BY <1>4, <1>5, <2>1, <2>2
<1>7. QED
  BY <1>1, <1>6 DEF ShapesAgree

(* The two answers about shapes agree at every moment of every Import.     *)
THEOREM ShapesAlwaysAgree == Spec => []ShapesAgree
BY ShapesAgreeIn, SchemaKept, PTL

LEMMA StopTimesCompleteIn ==
  ASSUME NoDangling, MeetsSchema(committed)
  PROVE  StopTimesComplete
<1> SUFFICES ASSUME NEW t \in Table("trips")
             PROVE  LET answer == handleGetTripStopTimes(t.key)
                    IN  /\ DOMAIN answer = {st.key[2] : st \in {x \in Table("stop_times") :
                                                                 RefersTo(x, t)}}
                        /\ \A n \in DOMAIN answer : Cardinality(answer[n]) = 1
  BY DEF StopTimesComplete
<1> DEFINE calls == {st \in Table("stop_times") :
                       /\ <<"trips", t.key>> \in st.refs
                       /\ \E s \in Table("stops") : RefersTo(st, s)}
           stopsAt(n) == {s \in Table("stops") : \E st \in calls : st.key[2] = n /\ RefersTo(st, s)}
           answer == [n \in {st.key[2] : st \in calls} |-> stopsAt(n)]
<1>1. handleGetTripStopTimes(t.key) = answer
  BY DEF handleGetTripStopTimes, GetTripStopTimes
<1>2. \A st \in Table("stop_times") : \E stop :
        /\ st.key = <<st.key[1], st.key[2]>>
        /\ st.refs = {<<"trips", st.key[1]>>, <<"stops", stop>>}
  BY DEF MeetsSchema, Table, IsStopTime
<1>3. calls = {x \in Table("stop_times") : RefersTo(x, t)}
  <2>1. Id(t) = <<"trips", t.key>>
    BY DEF Id, Table
  <2>2. ASSUME NEW st \in Table("stop_times")
        PROVE  \E s \in Table("stops") : RefersTo(st, s)
    <3>1. PICK stop : <<"stops", stop>> \in st.refs
      BY <1>2
    <3>2. PICK s \in committed : Id(s) = <<"stops", stop>>
      BY <3>1 DEF NoDangling, Table, Ids
    <3>3. QED
      BY <3>1, <3>2 DEF Table, Id, RefersTo
  <2>3. QED
    BY <2>1, <2>2 DEF RefersTo
<1>4. ASSUME NEW st \in calls
      PROVE  \E s : stopsAt(st.key[2]) = {s}
  <2>1. PICK stop : /\ st.key = <<st.key[1], st.key[2]>>
                    /\ st.refs = {<<"trips", st.key[1]>>, <<"stops", stop>>}
    BY <1>2
  <2>2. PICK s \in Table("stops") : RefersTo(st, s)
    OBVIOUS
  <2>3. Id(s) = <<"stops", stop>> /\ Id(s) = <<"stops", s.key>>
    BY <2>1, <2>2 DEF RefersTo, Id, Table
  <2>4. ASSUME NEW x \in calls, x.key[2] = st.key[2]
        PROVE  x = st
    <3>1. x.key = <<x.key[1], x.key[2]>> /\ \E s2 : x.refs = {<<"trips", x.key[1]>>, <<"stops", s2>>}
      BY <1>2
    <3>2. x.key[1] = t.key /\ st.key[1] = t.key
      BY <2>1, <3>1
    <3>3. x.key = st.key
      BY <2>1, <2>4, <3>1, <3>2
    <3>4. QED
      BY <3>3 DEF MeetsSchema, Table, Id
  <2>5. ASSUME NEW q \in Table("stops"), RefersTo(st, q)
        PROVE  q = s
    <3>1. Id(q) = <<"stops", stop>>
      BY <2>1, <2>5 DEF RefersTo, Id, Table
    <3>2. QED
      BY <2>3, <3>1 DEF MeetsSchema, Table
  <2> HIDE DEF calls
  <2>6. stopsAt(st.key[2]) = {s}
    BY <2>2, <2>4, <2>5
  <2>7. QED
    BY <2>6
<1> HIDE DEF calls, stopsAt
<1>5. \A n \in DOMAIN answer : Cardinality(answer[n]) = 1
  <2>1. SUFFICES ASSUME NEW st \in calls
                 PROVE  Cardinality(answer[st.key[2]]) = 1
    OBVIOUS
  <2>2. PICK s : stopsAt(st.key[2]) = {s}
    BY <1>4
  <2>3. answer[st.key[2]] = {s}
    BY <2>2
  <2>4. QED
    BY <2>3, FS_Singleton
<1>6. QED
  BY <1>1, <1>3, <1>5

(* Every call of a trip is answered once, at every moment of every Import. *)
THEOREM StopTimesAlwaysComplete == Spec => []StopTimesComplete
BY StopTimesCompleteIn, SchemaKept, PTL

------------------------------------------------------------------------------
(* What an Import has loaded.                                              *)

LEMMA LoadedStays ==
  ASSUME UNCHANGED archive, NEW i, NEW k
  PROVE  LoadedUpTo(i, k)' = LoadedUpTo(i, k) /\ Image(i)' = Image(i)
<1>1. \A t : RowSet(i, t)' = RowSet(i, t)
  BY ArchiveStays
<1>2. QED
  BY <1>1 DEF LoadedUpTo, Image

LEMMA LoadedNext ==
  ASSUME NEW i, NEW k \in 1..8
  PROVE  /\ LoadOrder[k] \in DOMAIN archive[i].files =>
              LoadedUpTo(i, k) = LoadedUpTo(i, k - 1) \union RowSet(i, LoadOrder[k])
         /\ LoadOrder[k] \notin DOMAIN archive[i].files => LoadedUpTo(i, k) = LoadedUpTo(i, k - 1)
<1> DEFINE N(m) == {n \in 1..m : LoadOrder[n] \in DOMAIN archive[i].files}
<1>1. /\ LoadOrder[k] \in DOMAIN archive[i].files => N(k) = N(k - 1) \union {k}
      /\ LoadOrder[k] \notin DOMAIN archive[i].files => N(k) = N(k - 1)
  OBVIOUS
<1>2. \A m : LoadedUpTo(i, m) = UNION {RowSet(i, LoadOrder[n]) : n \in N(m)}
  BY DEF LoadedUpTo
<1> HIDE DEF N
<1>3. CASE LoadOrder[k] \in DOMAIN archive[i].files
  <2>1. /\ LoadedUpTo(i, k) = UNION {RowSet(i, LoadOrder[n]) : n \in N(k - 1) \union {k}}
        /\ LoadedUpTo(i, k - 1) = UNION {RowSet(i, LoadOrder[n]) : n \in N(k - 1)}
    BY <1>1, <1>2, <1>3
  <2>2. QED
    BY <1>3, <2>1
<1>4. CASE LoadOrder[k] \notin DOMAIN archive[i].files
  BY <1>1, <1>2, <1>4
<1>5. QED
  BY <1>3, <1>4

LEMMA LoadedAll ==
  ASSUME NEW i, archive[i] \in Archives
  PROVE  LoadedUpTo(i, 8) = Image(i)
<1>1. \A t \in Tables : \E n \in 1..8 : LoadOrder[n] = t
  BY DEF Tables, Required, LoadOrder
<1>2. DOMAIN archive[i].files \subseteq Tables
  BY ArchivesAssumption
<1>3. QED
  BY <1>1, <1>2 DEF LoadedUpTo, Image

LEMMA LoadedNone == ASSUME NEW i PROVE LoadedUpTo(i, 0) = {}
BY DEF LoadedUpTo

\* A step of i leaves the content of the others alone.
LEMMA OtherContent ==
  ASSUME Content, NEW i \in Importer, UNCHANGED archive,
         \A j \in Importer : j # i => /\ pc'[j] = pc[j] /\ step'[j] = step[j]
                                      /\ inserted'[j] = inserted[j] /\ todo'[j] = todo[j],
         ContentOf(i)'
  PROVE  Content'
<1>1. ASSUME NEW j \in Importer, j # i
      PROVE  ContentOf(j)'
  <2>1. Rest(j)' = Rest(j)
    BY <1>1 DEF Rest
  <2>2. ContentOf(j)
    BY DEF Content
  <2>3. \A k \in 0..8 : LoadedUpTo(j, k)' = LoadedUpTo(j, k)
    BY LoadedStays
  <2>4. pc'[j] = pc[j] /\ step'[j] = step[j] /\ inserted'[j] = inserted[j]
    BY <1>1
  <2>5. QED
    BY <2>1, <2>2, <2>3, <2>4 DEF ContentOf
<1>2. QED
  BY <1>1 DEF Content

\* A transaction that is not loading has nothing to account for.
LEMMA NotLoadingContent ==
  ASSUME IInv, Content, NEW i \in Importer, UNCHANGED archive,
         \A j \in Importer : j # i => /\ pc'[j] = pc[j] /\ step'[j] = step[j]
                                      /\ inserted'[j] = inserted[j] /\ todo'[j] = todo[j],
         pc'[i] \notin {"load", "inserting", "commit"}
  PROVE  Content'
<1>1. ContentOf(i)'
  BY DEF ContentOf
<1>2. QED
  BY <1>1, OtherContent

LEMMA AdvanceContent ==
  ASSUME IInv, Content, NEW i \in Importer, pc[i] \in {"load", "inserting"}, Advance(i),
         inserted[i] = LoadedUpTo(i, step[i])
  PROVE  Content'
<1>1. /\ pc' = [pc EXCEPT ![i] = IF step[i] = 8 THEN "commit" ELSE "load"]
      /\ step' = [step EXCEPT ![i] = IF @ = 8 THEN @ ELSE @ + 1]
      /\ UNCHANGED <<archive, inserted, todo>>
  BY DEF Advance, Goto, LoadOrder, inputs
<1>2. \A j \in Importer : j # i => pc'[j] = pc[j] /\ step'[j] = step[j]
  BY <1>1 DEF IInv, Maps
<1>3. /\ step[i] = 8 => pc'[i] = "commit"
      /\ step[i] # 8 => pc'[i] = "load" /\ step'[i] - 1 = step[i]
  BY <1>1 DEF IInv, Maps
<1>4. \A k \in 0..8 : LoadedUpTo(i, k)' = LoadedUpTo(i, k)
  BY <1>1, LoadedStays
<1>5. ContentOf(i)'
  BY <1>1, <1>3, <1>4 DEF ContentOf, IInv, Maps
<1>6. QED
  BY <1>1, <1>2, <1>5, OtherContent DEF IInv, Maps

LEMMA NextContent ==
  ASSUME IInv, Content, [Next]_vars
  PROVE  Content'
<1> USE DEF Goto, inputs
<1>1. ASSUME NEW i \in Importer, Begin(i) \/ ImportStep(i) \/ Crash(i)
      PROVE  Content'
  <2>1. CASE Rollback(i)
    <3>1. pc'[i] = "failed"
      BY <2>1 DEF Rollback, IInv, Maps
    <3>2. QED
      BY <2>1, <3>1, NotLoadingContent DEF Rollback, IInv, Maps
  <2>2. CASE Begin(i)
    <3>1. pc'[i] = "delete"
      BY <2>2 DEF Begin, IInv, Maps
    <3>2. QED
      BY <2>2, <3>1, NotLoadingContent DEF Begin, IInv, Maps
  <2>3. CASE DeleteStarts(i)
    <3>1. pc'[i] = "deleting"
      BY <2>3 DEF DeleteStarts, IInv, Maps
    <3>2. QED
      BY <2>3, <3>1, NotLoadingContent DEF DeleteStarts, IInv, Maps
  <2>4. CASE DeleteEnds(i) /\ ~Rollback(i)
    <3>1. /\ pc[i] = "deleting" /\ NextDelete(i)
          /\ UNCHANGED <<archive, inserted, todo>>
      BY <2>4 DEF DeleteEnds
    <3>2. pc'[i] = "delete" \/ (pc'[i] = "load" /\ step'[i] - 1 = 0)
      BY <3>1 DEF NextDelete, IInv, Maps
    <3>3. inserted'[i] = {}
      BY <3>1 DEF IInv, Stages
    <3>4. \A j \in Importer : j # i => pc'[j] = pc[j] /\ step'[j] = step[j]
      BY <3>1 DEF NextDelete, IInv, Maps
    <3>5. LoadedUpTo(i, 0)' = {}
      BY <3>1, LoadedNone, LoadedStays
    <3>6. ContentOf(i)'
      BY <3>2, <3>3, <3>5 DEF ContentOf
    <3>7. QED
      BY <3>1, <3>3, <3>4, <3>6, OtherContent
  <2>5. CASE SkipFile(i) /\ ~Rollback(i)
    <3>1. /\ pc[i] = "load" /\ Advance(i)
          /\ LoadOrder[step[i]] \notin DOMAIN archive[i].files
      BY <2>5 DEF SkipFile
    <3>2. inserted[i] = LoadedUpTo(i, step[i])
      BY <3>1, LoadedNext DEF Content, ContentOf, IInv, Maps
    <3>3. QED
      BY <3>1, <3>2, AdvanceContent
  <2>6. CASE OpenFile(i)
    <3> DEFINE table == LoadOrder[step[i]]
    <3>1. /\ pc[i] = "load" /\ table \in DOMAIN archive[i].files
          /\ UNCHANGED <<archive, step, inserted>>
      BY <2>6 DEF OpenFile
    <3>2. PICK s \in Orders(i, table) : todo' = [todo EXCEPT ![i] = s]
      BY <2>6 DEF OpenFile
    <3>3. {s[n] : n \in 1..Len(s)} = RowSet(i, table)
      BY <3>1, OrdersOfRowSet DEF IInv, Maps
    <3>4. /\ pc'[i] = "inserting" /\ todo'[i] = s
          /\ \A j \in Importer : j # i => pc'[j] = pc[j] /\ todo'[j] = todo[j]
      BY <2>6, <3>2 DEF OpenFile, IInv, Maps
    <3>5. Rest(i)' = RowSet(i, table)
      BY <3>3, <3>4 DEF Rest
    <3>6. inserted[i] \union RowSet(i, table) = LoadedUpTo(i, step[i])
      BY <3>1, LoadedNext DEF Content, ContentOf, IInv, Maps
    <3>7. \A k \in 1..8 : LoadedUpTo(i, k)' = LoadedUpTo(i, k)
      BY <3>1, LoadedStays
    <3> HIDE DEF table
    <3>8. ContentOf(i)'
      BY <3>1, <3>4, <3>5, <3>6, <3>7 DEF ContentOf
    <3>9. QED
      BY <3>1, <3>4, <3>8, OtherContent
  <2>7. CASE InsertRow(i) /\ ~Rollback(i)
    <3> DEFINE r == Head(todo[i])
    <3>1. /\ pc[i] = "inserting" /\ todo[i] # << >>
          /\ inserted' = [inserted EXCEPT ![i] = @ \union {r}]
          /\ todo' = [todo EXCEPT ![i] = Tail(@)]
          /\ UNCHANGED <<archive, pc, step>>
      BY <2>7 DEF InsertRow
    <3>2. Rest(i) = {r} \union {Tail(todo[i])[n] : n \in 1..Len(Tail(todo[i]))}
      <4>1. \E S : todo[i] \in Seq(S)
        BY <3>1 DEF IInv, Stages
      <4>2. QED
        BY <3>1, <4>1, HeadAndTail DEF Rest
    <3> HIDE DEF r
    <3>3. /\ inserted'[i] = inserted[i] \union {r} /\ todo'[i] = Tail(todo[i])
          /\ \A j \in Importer : j # i => inserted'[j] = inserted[j] /\ todo'[j] = todo[j]
      BY <3>1 DEF IInv, Maps
    <3>4. inserted'[i] \union Rest(i)' = inserted[i] \union Rest(i)
      BY <3>2, <3>3 DEF Rest
    <3>5. \A k \in 1..8 : LoadedUpTo(i, k)' = LoadedUpTo(i, k)
      BY <3>1, LoadedStays
    <3>6. ContentOf(i)'
      BY <3>1, <3>4, <3>5 DEF ContentOf, Content
    <3>7. QED
      BY <3>1, <3>3, <3>6, OtherContent
  <2>8. CASE EndFile(i) /\ ~Rollback(i)
    <3>1. pc[i] = "inserting" /\ Advance(i) /\ todo[i] = << >>
      BY <2>8 DEF EndFile
    <3>2. inserted[i] = LoadedUpTo(i, step[i])
      <4>1. Rest(i) = {}
        BY <3>1 DEF Rest
      <4>2. step[i] \in 1..8
        BY DEF IInv, Maps
      <4>3. inserted[i] \union Rest(i) = LoadedUpTo(i, step[i])
        BY <3>1, <4>2 DEF Content, ContentOf
      <4>4. QED
        BY <4>1, <4>3
    <3>3. QED
      BY <3>1, <3>2, AdvanceContent
  <2>9. CASE Commit(i)
    <3>1. pc'[i] = "done"
      BY <2>9 DEF Commit, IInv, Maps
    <3>2. QED
      BY <2>9, <3>1, NotLoadingContent DEF Commit, IInv, Maps
  <2>10. QED
    BY <1>1, <2>1, <2>2, <2>3, <2>4, <2>5, <2>6, <2>7, <2>8, <2>9
       DEF ImportStep, DeadlockAborts, Crash
<1>2. CASE UNCHANGED vars
  <2>1. UNCHANGED <<archive, pc, step, inserted, todo>>
    BY <1>2 DEF vars
  <2>2. \A i \in Importer : \A k \in 0..8 : LoadedUpTo(i, k)' = LoadedUpTo(i, k)
    BY <2>1, LoadedStays
  <2>3. \A i \in Importer : Rest(i)' = Rest(i)
    BY <2>1 DEF Rest
  <2>4. QED
    BY <2>1, <2>2, <2>3 DEF Content, ContentOf
<1>3. QED
  BY <1>1, <1>2 DEF Next, Finished

(* Committing adds the whole archive, for any number of Imports and on any *)
(* database: ImportAtomic of the one transaction of Importer.Import.       *)
THEOREM CommitsWholeArchives == Spec => ImportAtomic
<1>1. Init => Content
  BY DEF Init, Content, ContentOf
<1>2. IInv /\ Content /\ [Next]_vars => Content'
  BY NextContent
<1>3. IInv /\ Content /\ [Next]_vars =>
        [committed' # committed =>
           \E i \in Importer :
             /\ pc[i] = "commit" /\ pc'[i] = "done"
             /\ Image(i) \subseteq committed'
             /\ committed' \subseteq committed \union Image(i)]_vars
  <2>1. SUFFICES ASSUME IInv, Content, Next, committed' # committed
                 PROVE  \E i \in Importer :
                          /\ pc[i] = "commit" /\ pc'[i] = "done"
                          /\ Image(i) \subseteq committed'
                          /\ committed' \subseteq committed \union Image(i)
    OBVIOUS
  <2>2. PICK i \in Importer : Commit(i)
    BY <2>1 DEF Next, Finished, Begin, ImportStep, Crash, DeleteStarts, DeleteEnds, NextDelete, SkipFile,
       OpenFile, InsertRow, EndFile, DeadlockAborts, Rollback, Advance, Goto, vars, inputs
  <2>3. /\ pc[i] = "commit" /\ pc'[i] = "done" /\ committed' = Visible(i) /\ archive[i] \in Archives
    BY <2>1, <2>2 DEF Commit, Goto, IInv, Maps
  <2>4. inserted[i] = Image(i)
    BY <2>1, <2>3, LoadedAll DEF Content, ContentOf
  <2>5. QED
    BY <2>3, <2>4 DEF Visible
<1>4. QED
  BY <1>1, <1>2, <1>3, Inductive, PTL DEF Spec, ImportAtomic

------------------------------------------------------------------------------
(* Two Imports on a database that holds stop times.                        *)

(* Only one of them gets past the first table at a time.                   *)
LEMMA OnePast ==
  ASSUME TwoImporters, Filled, IInv, Exclusive,
         NEW i \in Importer, NEW j \in Importer, i # j, Past(i), Past(j)
  PROVE  FALSE
<1>1. CASE Done = {}
  <2>1. First # {}
    BY DEF Filled, First, DeleteOrder
  <2>2. First \subseteq deleted[i] /\ First \subseteq deleted[j]
    BY <1>1 DEF Exclusive, Progress
  <2>3. deleted[i] \intersect deleted[j] = {}
    BY DEF IInv, Locks, DeletesHeld, Others
  <2>4. QED
    BY <2>1, <2>2, <2>3
<1>2. CASE Done # {}
  <2>1. PICK k \in Importer : pc[k] = "done"
    BY <1>2 DEF Done
  <2>2. k # i /\ k # j
    BY <2>1 DEF Past, Loading, Deleting
  <2>3. QED
    BY <2>2 DEF TwoImporters
<1>3. QED
  BY <1>1, <1>2

\* A step of i that commits nothing: it is enough to look at i.
LEMMA OtherProgress ==
  ASSUME IInv, Exclusive, NEW i \in Importer,
         UNCHANGED <<initial, archive, committed>>,
         \A j \in Importer : j # i => /\ pc'[j] = pc[j] /\ step'[j] = step[j]
                                      /\ seen'[j] = seen[j] /\ deleted'[j] = deleted[j],
         pc[i] # "done", pc'[i] # "done",
         Progress(i)'
  PROVE  Exclusive'
<1>1. Done' = Done
  BY DEF Done
<1>2. Owned'
  <2>1. \A j : Image(j)' = Image(j)
    BY LoadedStays
  <2>2. QED
    BY <1>1, <2>1 DEF Exclusive, Owned
<1>3. ASSUME NEW j \in Importer, j # i
      PROVE  Progress(j)'
  <2>1. /\ First' = First /\ Rows(j)' = Rows(j)
        /\ Past(j)' = Past(j) /\ Deleting(j)' = Deleting(j) /\ Loading(j)' = Loading(j)
        /\ Cleared(j)' = Cleared(j) /\ Stuck(j)' = Stuck(j)
        /\ pc'[j] = pc[j] /\ step'[j] = step[j] /\ seen'[j] = seen[j] /\ deleted'[j] = deleted[j]
    BY <1>3 DEF First, Rows, Past, Deleting, Loading, Cleared, Stuck
  <2>2. Progress(j)
    BY DEF Exclusive
  <2>3. QED
    BY <1>1, <2>1, <2>2 DEF Progress
<1>4. QED
  BY <1>2, <1>3 DEF Exclusive

\* A step that ends the transaction of i without a commit.
LEMMA RollbackProgress ==
  ASSUME IInv, Exclusive, NEW i \in Importer, Rollback(i), pc[i] # "done"
  PROVE  Exclusive'
<1>1. pc'[i] = "failed"
  BY DEF Rollback, Goto, IInv, Maps
<1>2. Progress(i)'
  BY <1>1 DEF Progress, Past, Loading, Deleting
<1>3. QED
  BY <1>1, <1>2, OtherProgress DEF Rollback, Goto, inputs, IInv, Maps

\* A step of i in which it goes on loading.
LEMMA LoadingProgress ==
  ASSUME IInv, Exclusive, NEW i \in Importer, Loading(i), Loading(i)',
         UNCHANGED <<inputs, committed, seen, deleted>>,
         \A j \in Importer : j # i => pc'[j] = pc[j] /\ step'[j] = step[j]
  PROVE  Exclusive'
<1>1. Progress(i)
  BY DEF Exclusive
<1>2. pc[i] # "done" /\ pc'[i] # "done" /\ pc'[i] # "deleting" /\ ~Deleting(i)'
  BY DEF Loading, Deleting
<1>3. Done' = Done /\ First' = First /\ Rows(i)' = Rows(i)
  BY <1>2 DEF Done, First, Rows, inputs
<1>4. Progress(i)'
  BY <1>1, <1>2, <1>3 DEF Progress, Past
<1>5. QED
  BY <1>2, <1>4, OtherProgress DEF inputs

LEMMA DeleteStartsProgress ==
  ASSUME IInv, Exclusive, NEW i \in Importer, DeleteStarts(i)
  PROVE  Exclusive'
<1>1. /\ pc[i] = "delete" /\ pc'[i] = "deleting" /\ inserted[i] = {}
      /\ seen'[i] = {r \in Visible(i) : r.table = DeleteOrder[step[i]]}
      /\ UNCHANGED <<inputs, committed, step, deleted, inserted>>
      /\ \A j \in Importer : j # i => pc'[j] = pc[j] /\ seen'[j] = seen[j]
  BY DEF DeleteStarts, Goto, IInv, Maps, Stages
<1>2. /\ Rows(i)' = Rows(i) /\ Visible(i) = Rows(i) /\ First' = First /\ Done' = Done
      /\ Cleared(i)' = Cleared(i) /\ Stuck(i)' = Stuck(i)
      /\ Deleting(i) /\ Deleting(i)' /\ ~Loading(i)' /\ Past(i)' = Past(i)
  BY <1>1 DEF Rows, Visible, First, Done, Cleared, Stuck, Deleting, Loading, Past, inputs
<1>3. Progress(i)
  BY DEF Exclusive
<1>4. Progress(i)'
  BY <1>1, <1>2, <1>3 DEF Progress
<1>5. QED
  BY <1>1, <1>4, OtherProgress DEF inputs

(* At the latest the DELETE from trips fails for an Import that has not    *)
(* seen the stop times.                                                    *)
LEMMA NotStuckAtTrips ==
  ASSUME IInv, NEW i \in Importer, step[i] = 4, inserted[i] = {},
         NEW gone, gone = {r \in Rows(i) : r.table = DeleteOrder[4]},
         \A r \in Visible(i) \ gone : r.refs \intersect Ids(gone) = {}
  PROVE  ~Stuck(i)
<1> SUFFICES ASSUME NEW r \in Rows(i), r.table = "stop_times"
             PROVE  FALSE
  BY DEF Stuck
<1>1. Visible(i) = Rows(i) /\ DeleteOrder[4] = "trips"
  BY DEF Visible, Rows, DeleteOrder
<1>2. <<"trips", r.key[1]>> \in r.refs
  BY DEF IInv, RowsWellFormed, WellFormed, IsStopTime, Rows
<1>3. PICK x \in Rows(i) : Id(x) = <<"trips", r.key[1]>>
  BY <1>1, <1>2 DEF IInv, Locks, Grounded
<1>4. x \in gone /\ r \notin gone
  BY <1>1, <1>3 DEF Id
<1>5. QED
  BY <1>1, <1>2, <1>3, <1>4 DEF Ids

LEMMA DeleteEndsProgress ==
  ASSUME IInv, Exclusive, NEW i \in Importer, DeleteEnds(i), ~Rollback(i)
  PROVE  Exclusive'
<1> DEFINE gone == seen[i] \intersect committed
           k == step[i]
<1>1. /\ pc[i] = "deleting"
      /\ \A r \in Visible(i) \ gone : r.refs \intersect Ids(gone) = {}
      /\ deleted' = [deleted EXCEPT ![i] = @ \union gone]
      /\ seen' = [seen EXCEPT ![i] = {}]
      /\ NextDelete(i)
      /\ UNCHANGED <<inputs, committed, inserted>>
  BY DEF DeleteEnds
<1>2. /\ inserted[i] = {} /\ k \in 1..8 /\ deleted'[i] = deleted[i] \union gone
      /\ \A j \in Importer : j # i => /\ pc'[j] = pc[j] /\ step'[j] = step[j]
                                      /\ seen'[j] = seen[j] /\ deleted'[j] = deleted[j]
  BY <1>1 DEF IInv, Maps, Stages, NextDelete, Goto
<1>3. /\ k = 8 => pc'[i] = "load"
      /\ k # 8 => pc'[i] = "delete" /\ step'[i] = k + 1
  <2>1. Len(DeleteOrder) = 8
    BY DEF DeleteOrder
  <2>2. QED
    BY <1>1, <2>1 DEF IInv, Maps, NextDelete, Goto
<1>4. Progress(i) /\ Deleting(i)
  BY <1>1 DEF Exclusive, Deleting
<1>5. Rows(i)' = Rows(i) \ gone /\ First' = First /\ Done' = Done
  BY <1>1, <1>2, <1>3 DEF Rows, First, Done, inputs
<1>6. k > 1 => gone = {r \in Rows(i) : r.table = DeleteOrder[k]}
  BY <1>1, <1>4 DEF Progress, Rows
<1>7. Done = {} => First \subseteq deleted'[i]
  <2>1. SUFFICES ASSUME Done = {}
                 PROVE  First \subseteq deleted'[i]
    OBVIOUS
  <2>2. CASE k = 1
    <3>1. committed = initial /\ deleted[i] = {} /\ DeleteOrder[1] = "stop_times"
      BY <1>4, <2>1, <2>2 DEF Exclusive, Owned, Progress, DeleteOrder
    <3>2. gone = First
      BY <1>1, <1>4, <2>1, <2>2, <3>1 DEF Progress, Rows, First
    <3>3. QED
      BY <1>2, <3>2
  <2>3. CASE k > 1
    BY <1>2, <1>4, <2>1, <2>3 DEF Progress, Past
  <2>4. QED
    BY <1>2, <2>2, <2>3
<1>8. k = 4 => ~Stuck(i)
  BY <1>1, <1>2, <1>6, NotStuckAtTrips
<1>9. \/ \A r \in Rows(i)' : \A n \in 1..k : r.table # DeleteOrder[n]
      \/ k <= 3 /\ \E r \in Rows(i)' : r.table = "stop_times"
  <2>1. CASE k = 1
    BY <2>1 DEF DeleteOrder
  <2>2. CASE k > 1 /\ Cleared(i)
    <3>1. \A r \in Rows(i)' : r.table # DeleteOrder[k]
      BY <1>5, <1>6, <2>2
    <3>2. \A r \in Rows(i)' : \A n \in 1..(k - 1) : r.table # DeleteOrder[n]
      BY <1>5, <2>2 DEF Cleared
    <3>3. \A n \in 1..k : n = k \/ n \in 1..(k - 1)
      BY <1>2
    <3>4. QED
      BY <3>1, <3>2, <3>3
  <2>3. CASE k > 1 /\ Stuck(i)
    <3>1. k \in {2, 3}
      BY <1>2, <1>8, <2>3 DEF Stuck
    <3>2. DeleteOrder[k] # "stop_times"
      BY <3>1 DEF DeleteOrder
    <3>3. PICK r \in Rows(i) : r.table = "stop_times"
      BY <2>3 DEF Stuck
    <3>4. r \in Rows(i)'
      BY <1>5, <1>6, <2>3, <3>2, <3>3
    <3>5. QED
      BY <3>1, <3>3, <3>4
  <2>4. QED
    BY <1>2, <1>4, <2>1, <2>2, <2>3 DEF Progress
<1> HIDE DEF gone
<1>10. CASE k = 8
  <2>1. \A r \in Rows(i)' : \A n \in 1..8 : r.table # DeleteOrder[n]
    BY <1>9, <1>10
  <2>2. \A t \in Tables : \E n \in 1..8 : DeleteOrder[n] = t
    BY DEF Tables, Required, DeleteOrder
  <2>3. \A r \in Rows(i)' : r.table \in Tables
    BY <1>5 DEF IInv, RowsWellFormed, WellFormed, Rows
  <2>4. Rows(i)' = {}
    BY <2>1, <2>2, <2>3
  <2>5. Progress(i)'
    BY <1>3, <1>5, <1>7, <1>10, <2>4 DEF Progress, Deleting
  <2>6. QED
    BY <1>1, <1>2, <1>3, <1>10, <2>5, OtherProgress DEF inputs
<1>11. CASE k # 8
  <2>1. pc'[i] = "delete" /\ step'[i] = k + 1 /\ step'[i] - 1 = k
    BY <1>2, <1>3, <1>11
  <2>2. Cleared(i)' \/ Stuck(i)'
    <3>1. CASE \A r \in Rows(i)' : \A n \in 1..k : r.table # DeleteOrder[n]
      BY <2>1, <3>1 DEF Cleared
    <3>2. CASE k <= 3 /\ \E r \in Rows(i)' : r.table = "stop_times"
      BY <1>2, <2>1, <3>2 DEF Stuck
    <3>3. QED
      BY <1>9, <3>1, <3>2
  <2>3. ~Loading(i)' /\ step'[i] # 1
    BY <1>2, <2>1 DEF Loading
  <2>4. Progress(i)'
    BY <1>5, <1>7, <2>1, <2>2, <2>3 DEF Progress
  <2>5. QED
    BY <1>1, <1>2, <2>1, <2>4, OtherProgress DEF inputs
<1>12. QED
  BY <1>10, <1>11

(* What a commit makes visible is the archive of that Import.              *)
LEMMA CommitsImage ==
  ASSUME IInv, Content, Exclusive, NEW i \in Importer, Commit(i)
  PROVE  committed' = Image(i)
<1>1. /\ pc[i] = "commit" /\ committed' = Visible(i) /\ archive[i] \in Archives
  BY DEF Commit, IInv, Maps
<1>2. Rows(i) = {}
  BY <1>1 DEF Exclusive, Progress, Loading
<1>3. inserted[i] = Image(i)
  BY <1>1, LoadedAll DEF Content, ContentOf
<1>4. QED
  BY <1>1, <1>2, <1>3 DEF Visible, Rows

LEMMA CommitExclusive ==
  ASSUME TwoImporters, Filled, IInv, Content, Exclusive, NEW i \in Importer, Commit(i)
  PROVE  Exclusive'
<1>1. /\ pc[i] = "commit" /\ pc'[i] = "done"
      /\ UNCHANGED <<inputs, step, seen>>
      /\ \A j \in Importer : j # i => pc'[j] = pc[j] /\ deleted'[j] = deleted[j]
  BY DEF Commit, Goto, IInv, Maps
<1>2. i \in Done' /\ Done' # {}
  BY <1>1 DEF Done
<1>3. Owned'
  <2>1. Image(i)' = Image(i)
    BY <1>1, LoadedStays DEF inputs
  <2>2. committed' = Image(i)'
    BY <2>1, CommitsImage
  <2>3. QED
    BY <1>2, <2>2 DEF Owned
<1>4. Progress(i)'
  BY <1>1 DEF Progress, Past, Loading, Deleting
<1>5. ASSUME NEW j \in Importer, j # i
      PROVE  Progress(j)'
  <2>1. ~Past(j)
    BY <1>1, <1>5, OnePast DEF Past, Loading
  <2>2. /\ pc'[j] = pc[j] /\ step'[j] = step[j] /\ deleted'[j] = deleted[j]
        /\ step[j] \in 1..8
    BY <1>1, <1>5 DEF IInv, Maps
  <2>3. ~Loading(j)' /\ (Deleting(j)' => step'[j] = 1)
    BY <2>1, <2>2 DEF Past, Loading, Deleting
  <2>4. Deleting(j)' => deleted'[j] = {}
    BY <2>2, <2>3 DEF Exclusive, Progress, Deleting
  <2>5. Deleting(j)' => Cleared(j)'
    BY <2>2, <2>3 DEF Cleared
  <2>6. pc'[j] = "deleting" => Deleting(j)'
    BY DEF Deleting
  <2>7. QED
    BY <1>2, <2>2, <2>3, <2>4, <2>5, <2>6 DEF Progress
<1>6. QED
  BY <1>3, <1>4, <1>5 DEF Exclusive

LEMMA NextExclusive ==
  ASSUME TwoImporters, Filled, IInv, Content, Exclusive, [Next]_vars
  PROVE  Exclusive'
<1>1. ASSUME NEW i \in Importer, Begin(i) \/ ImportStep(i) \/ Crash(i)
      PROVE  Exclusive'
  <2>1. pc[i] # "done"
    BY <1>1 DEF Begin, ImportStep, Crash, InTransaction, DeleteStarts, DeleteEnds, SkipFile,
       OpenFile, InsertRow, EndFile, Commit, DeadlockAborts, Deadlocked, WaitsFor
  <2>2. CASE Rollback(i)
    BY <2>1, <2>2, RollbackProgress
  <2>3. CASE Begin(i)
    <3>1. /\ pc[i] = "idle" /\ pc'[i] = "delete" /\ step[i] = 1 /\ deleted[i] = {}
          /\ UNCHANGED <<inputs, committed, step, seen, deleted>>
          /\ \A j \in Importer : j # i => pc'[j] = pc[j]
      BY <2>3 DEF Begin, Goto, IInv, Maps, Stages
    <3>2. Progress(i)'
      BY <3>1 DEF Progress, Past, Deleting, Loading, Cleared
    <3>3. QED
      BY <3>1, <3>2, OtherProgress DEF inputs
  <2>4. CASE DeleteStarts(i)
    BY <2>4, DeleteStartsProgress
  <2>5. CASE DeleteEnds(i) /\ ~Rollback(i)
    BY <2>5, DeleteEndsProgress
  <2>6. CASE Advance(i) /\ pc[i] \in {"load", "inserting"}
    <3>1. /\ pc'[i] \in {"load", "commit"}
          /\ \A j \in Importer : j # i => pc'[j] = pc[j] /\ step'[j] = step[j]
          /\ UNCHANGED <<inputs, committed, seen, deleted>>
      BY <2>6 DEF Advance, Goto, IInv, Maps
    <3>2. QED
      BY <2>6, <3>1, LoadingProgress DEF Loading
  <2>7. CASE OpenFile(i)
    <3>1. /\ pc[i] = "load" /\ pc'[i] = "inserting"
          /\ \A j \in Importer : j # i => pc'[j] = pc[j] /\ step'[j] = step[j]
          /\ UNCHANGED <<inputs, committed, seen, deleted>>
      BY <2>7 DEF OpenFile, Goto, IInv, Maps
    <3>2. QED
      BY <3>1, LoadingProgress DEF Loading
  <2>8. CASE InsertRow(i) /\ ~Rollback(i)
    <3>1. /\ pc[i] = "inserting" /\ pc'[i] = "inserting"
          /\ UNCHANGED <<pc, step, inputs, committed, seen, deleted>>
      BY <2>8 DEF InsertRow
    <3>2. QED
      BY <3>1, LoadingProgress DEF Loading
  <2>9. CASE Commit(i)
    BY <2>9, CommitExclusive
  <2>10. SkipFile(i) /\ ~Rollback(i) => Advance(i) /\ pc[i] \in {"load", "inserting"}
    BY DEF SkipFile
  <2>11. EndFile(i) /\ ~Rollback(i) => Advance(i) /\ pc[i] \in {"load", "inserting"}
    BY DEF EndFile
  <2>12. QED
    BY <1>1, <2>2, <2>3, <2>4, <2>5, <2>6, <2>7, <2>8, <2>9, <2>10, <2>11
       DEF ImportStep, DeadlockAborts, Crash
<1>2. CASE UNCHANGED vars
  <2>1. UNCHANGED <<initial, archive, committed, pc, step, seen, deleted>>
    BY <1>2 DEF vars, inputs
  <2>2. Done' = Done /\ \A j : Image(j)' = Image(j)
    BY <2>1, LoadedStays DEF Done
  <2>3. Owned'
    BY <2>1, <2>2 DEF Exclusive, Owned
  <2>4. \A j \in Importer : Progress(j)'
    BY <2>1 DEF Exclusive, Progress, Past, Deleting, Loading, Cleared, Stuck, Rows, First, Done
  <2>5. QED
    BY <2>3, <2>4 DEF Exclusive
<1>3. QED
  BY <1>1, <1>2 DEF Next, Finished

LEMMA InitTInv == Init => TInv
<1> SUFFICES ASSUME Init
             PROVE  TInv
  OBVIOUS
<1>1. \A i \in Importer : pc[i] = "idle"
  BY DEF Init
<1>2. Content
  BY <1>1 DEF Content, ContentOf
<1>3. Owned
  BY <1>1 DEF Owned, Done, Init
<1>4. \A i \in Importer : Progress(i)
  BY <1>1 DEF Progress, Past, Loading, Deleting
<1>5. QED
  BY <1>2, <1>3, <1>4 DEF TInv, Exclusive

LEMMA NextTInv ==
  ASSUME TwoImporters, IInv, TInv, [Next]_vars
  PROVE  TInv'
<1>1. Content'
  BY NextContent DEF TInv
<1>2. initial' = initial
  BY DEF Next, Finished, Begin, ImportStep, Crash, DeleteStarts, DeleteEnds, SkipFile, OpenFile,
     InsertRow, EndFile, Commit, DeadlockAborts, Rollback, Advance, vars, inputs
<1>3. Filled' = Filled
  BY <1>2 DEF Filled
<1>4. QED
  BY <1>1, <1>3, NextExclusive DEF TInv

(* On a database with stop times, whichever of two Imports commits and     *)
(* wherever either crashes, readers see the rows of before or those of one *)
(* archive.  That the database holds stop times is what keeps the second   *)
(* Import out until the first is done.                                     *)
THEOREM WholeArchiveForTwo == ASSUME TwoImporters PROVE Spec => []WholeArchive
<1>1. Init => TInv
  BY InitTInv
<1>2. IInv /\ TInv /\ [Next]_vars => TInv'
  BY NextTInv
<1>3. TInv => WholeArchive
  BY DEF TInv, Exclusive, Owned, Done, WholeArchive
<1>4. QED
  BY <1>1, <1>2, <1>3, Inductive, PTL DEF Spec

(* Of at most two Imports, a successful one replaces all there was by its  *)
(* archive.                                                                *)
THEOREM ImportReplacesForTwo == ASSUME TwoImporters PROVE Spec => ImportReplaces
<1>1. Init => TInv
  BY InitTInv
<1>2. IInv /\ TInv /\ [Next]_vars => TInv'
  BY NextTInv
<1>3. ASSUME IInv, TInv, [Next]_vars
      PROVE  [\A i \in Importer : Filled /\ pc[i] = "commit" /\ pc'[i] = "done"
                => committed' = Image(i)]_vars
  <2>1. SUFFICES ASSUME Next, NEW i \in Importer, Filled, pc[i] = "commit", pc'[i] = "done"
                 PROVE  committed' = Image(i)
    BY <1>3
  <2>2. ASSUME NEW j \in Importer, Begin(j) \/ ImportStep(j) \/ Crash(j), ~Commit(i)
        PROVE  FALSE
    BY <1>3, <2>1, <2>2 DEF IInv, Maps, Begin, ImportStep, Crash, DeleteStarts, DeleteEnds,
       NextDelete, SkipFile, OpenFile, InsertRow, EndFile, Commit, DeadlockAborts, Rollback,
       Advance, Goto
  <2>3. Commit(i)
    BY <2>1, <2>2 DEF Next, Finished, vars
  <2>4. QED
    BY <1>3, <2>1, <2>3, CommitsImage DEF TInv
<1>4. QED
  BY <1>1, <1>2, <1>3, Inductive, PTL DEF Spec, ImportReplaces
==============================================================================
