-------------------------------- MODULE Reading --------------------------------
(***************************************************************************)
(* What the requests that read the timetable share: one query after the    *)
(* other reads the lessons and the tables that tell about them, while      *)
(* other requests write the catalogue.  No transaction spans two queries.  *)
(*                                                                         *)
(*   conflicts   CheckConflicts, and the report a plan or change ends with *)
(*   lessons     List and Export                                           *)
(*   lesson      Get                                                       *)
(*   plan        BuildDraftResponses, of lessons that were never stored    *)
(*   rooms, teachers, density   the statistics                             *)
(*                                                                         *)
(* The lessons are read once, so that the timetable may stay as it is.     *)
(***************************************************************************)
EXTENDS Naturals, Sequences, FiniteSets, Functions

CONSTANTS
  Requests,    \* what may be asked: of which lessons, and of what timetable
  Catalogs,    \* what the catalogue may hold
  Failing,     \* queries that may fail: subset of Queries
  PageSize     \* constants.MaxPageSize

Lesson == [id : Nat, week : Nat, day : Nat \ {0}, slot : Nat, room : Nat, teacher : Nat,
           class : Nat, course : Nat]

\* The rows with what tells one state of them from another.
Ids == Nat \ {0}
Catalog ==
  [slot : SUBSET [id : Ids, start : Nat], room : SUBSET [id : Ids, capacity : Nat],
   teacher : SUBSET [id : Ids, unavailable : SUBSET Nat],
   class : SUBSET [id : Ids, students : Nat], course : SUBSET [id : Ids, name : Nat]]
Tables == {"slot", "room", "teacher", "class", "course"}
Queries == {"lessons"} \cup Tables

Enrichment == <<"lessons", "slot", "room", "teacher", "class", "course">>
QueryOrder ==
  [conflicts |-> <<"lessons", "class", "room", "teacher", "slot">>,
   lessons |-> Enrichment, lesson |-> Enrichment, plan |-> Enrichment,
   rooms |-> <<"room", "lessons", "slot">>,
   teachers |-> <<"teacher", "lessons">>, density |-> <<"lessons">>]

\* What the columns of the lessons asked for must be; 0 stands for no condition.
Filter == [id : Nat, week : Nat, room : Nat, teacher : Nat, class : Nat]
Request ==
  [asks : DOMAIN QueryOrder \ {"plan"}, timetable : SUBSET Lesson, filter : Filter]
    \cup [asks : {"plan"}, plan : Seq(Lesson)]

\* The ids of the stored lessons are their keys.
ASSUME RequestsAssumption ==
  /\ Requests \subseteq Request
  /\ \A r \in Requests : r.asks # "plan" =>
       IsFiniteSet(r.timetable) /\ \A l, k \in r.timetable : l.id = k.id => l = k
ASSUME CatalogsAssumption ==
  Catalogs \subseteq Catalog /\ \A c \in Catalogs, t \in Tables : IsFiniteSet(c[t])
ASSUME FailingAssumption == Failing \subseteq Queries
ASSUME PageSizeAssumption == PageSize \in Nat

VARIABLES
  request,
  catalog, was,    \* the tables; history: as they were since the request began
  pc,
  reads,           \* how many queries are done
  items,           \* the lessons read
  known, failed,   \* what was read of each table; history: which were not
  scanned          \* how many lessons were looked at

reading == <<request, catalog, was, reads, items, known, failed>>
common == <<reading, pc, scanned>>

ReadingInit ==
  /\ request \in Requests /\ catalog \in Catalogs /\ was = {catalog}
  /\ pc = "read" /\ reads = 0
  /\ items = <<>> /\ known = [t \in Tables |-> {}] /\ failed = {}
  /\ scanned = 0

Matches(l) ==
  \A col \in {"id", "week", "room", "teacher", "class"} : request.filter[col] \in {0, l[col]}
Matching == {l \in request.timetable : Matches(l)}

\* ORDER BY week, day_of_week, time_slot_id; ties in any order.
Earlier(l, k) ==
  \/ l.week < k.week
  \/ l.week = k.week /\ l.day < k.day
  \/ l.week = k.week /\ l.day = k.day /\ l.slot < k.slot

\* What the query of the lessons may return; a plan is given.
Listings ==
  IF request.asks = "plan" THEN {request.plan}
  ELSE {list \in Bijection(1 .. Cardinality(Matching), Matching) :
          \A m, n \in DOMAIN list : m < n => ~Earlier(list[n], list[m])}

\* The rows a list shows: the first page in the order of a column, ties in any
\* order.
Pages(table, col) ==
  {page \in SUBSET table :
     /\ Cardinality(page) = IF Cardinality(table) < PageSize THEN Cardinality(table) ELSE PageSize
     /\ \A row \in page, other \in table \ page : row[col] <= other[col]}

\* GetByIDs, for the ids in a column of the lessons read; no row has id 0.
RowsOf(table, t) == {row \in table : \E n \in DOMAIN items : items[n][t] = row.id}

\* What the query of a table may return.
Lookup(t, table) ==
  IF t = "slot" THEN Pages(table, "start")
  ELSE IF request.asks \in {"rooms", "teachers"} THEN Pages(table, "id")
  ELSE {RowsOf(table, t)}

Order == QueryOrder[request.asks]
Query == Order[reads + 1]

Querying == pc = "read" /\ reads < Len(Order)

\* detectConflicts ignores the errors of its lookups, and takes the table to be
\* empty; every other error is the answer.
Ignored(q) == request.asks = "conflicts" /\ q # "lessons"

Missing == request.asks = "lesson" /\ Matching = {}

ReadLessons ==
  /\ Querying /\ Query = "lessons" /\ ~Missing
  /\ items' \in Listings /\ reads' = reads + 1
  /\ UNCHANGED <<request, catalog, was, pc, known, failed, scanned>>

ReadTable ==
  /\ Querying /\ Query # "lessons"
  /\ \E rows \in Lookup(Query, catalog[Query]) : known' = [known EXCEPT ![Query] = rows]
  /\ reads' = reads + 1
  /\ UNCHANGED <<request, catalog, was, pc, items, failed, scanned>>

ReadNothing ==
  /\ Querying /\ Query \in Failing /\ Ignored(Query)
  /\ failed' = failed \cup {Query} /\ reads' = reads + 1
  /\ UNCHANGED <<request, catalog, was, pc, items, known, scanned>>

ReadFails ==
  /\ Querying
  /\ \/ Query \in Failing /\ ~Ignored(Query)
     \/ Query = "lessons" /\ Missing
  /\ pc' = "failed"
  /\ UNCHANGED <<reading, scanned>>

\* Other requests write the catalogue.
Change ==
  /\ pc = "read" /\ catalog' \in Catalogs \ {catalog}
  /\ was' = was \cup {catalog'}
  /\ UNCHANGED <<request, pc, reads, items, known, failed, scanned>>

\* What follows looks at one lesson after the other.
AllRead ==
  /\ pc = "read" /\ reads = Len(Order) /\ pc' = "scan"
  /\ UNCHANGED <<reading, scanned>>

Return ==
  /\ pc = "scan" /\ scanned = Len(items) /\ pc' = "done"
  /\ UNCHANGED <<reading, scanned>>

ReadStep == ReadLessons \/ ReadTable \/ ReadNothing \/ ReadFails \/ Change \/ AllRead \/ Return

\* A table as queries may have found it since the request began.
Seen(t) == IF t = "slot" THEN UNION {Pages(c.slot, "start") : c \in was} ELSE {c[t] : c \in was}

===============================================================================
