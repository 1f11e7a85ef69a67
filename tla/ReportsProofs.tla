----------------------------- MODULE ReportsProofs -----------------------------
(***************************************************************************)
(* What the requests that read the timetable answer, for timetables and    *)
(* catalogues of any size and whatever is written in between.              *)
(***************************************************************************)
EXTENDS Reports, FiniteSetTheorems, TLAPS

\* Why: a table is read once, after the lessons if it is read by their ids, and
\* what was read of it is what one of its states would give.
Lost(t) == t \in failed /\ known[t] = {}

KnownRead ==
  \A i \in 1 .. reads : Order[i] \in Tables =>
    Lost(Order[i]) \/ \E c \in was : known[Order[i]] \in Lookup(Order[i], c[Order[i]])

ItemsRead ==
  IF \E i \in 1 .. reads : Order[i] = "lessons" THEN items \in Listings ELSE items = <<>>

Phases ==
  /\ pc \in {"read", "failed"} => scanned = 0
  /\ pc \in {"scan", "done"} => reads = Len(Order)
  /\ pc = "done" => scanned = Len(items)

Unread == \A t \in Tables : (\A i \in 1 .. reads : Order[i] # t) => known[t] = {}

\* The types and what is read: the part every request needs.
ReadInv == TypeOK /\ KnownRead /\ ItemsRead /\ Phases /\ Unread

-------------------------------------------------------------------------------
(* The orders of the queries, and the lessons they find.                   *)

\* Every order reads each table at most once, and begins with the lessons if any
\* table is read by their ids.
LEMMA OrderFacts ==
  ASSUME NEW asks \in DOMAIN QueryOrder
  PROVE  LET order == QueryOrder[asks]
         IN  /\ Len(order) \in Nat /\ Len(order) > 0 /\ DOMAIN order = 1 .. Len(order)
             /\ \A i \in 1 .. Len(order) : order[i] \in Queries
             /\ \A i, j \in 1 .. Len(order) : order[i] = order[j] => i = j
             /\ asks \notin {"rooms", "teachers"} => order[1] = "lessons"
             /\ \E i \in 1 .. Len(order) : order[i] = "lessons"
<1> DEFINE order == QueryOrder[asks]
<1>1. CASE asks = "conflicts"
  <2>1. order = <<"lessons", "class", "room", "teacher", "slot">>
    BY <1>1 DEF QueryOrder
  <2>2. Len(order) = 5 /\ DOMAIN order = 1 .. 5
    BY <2>1
  <2> QED
    BY <1>1, <2>1, <2>2 DEF Queries, Tables
<1>2. CASE asks \in {"lessons", "lesson", "plan"}
  <2>1. order = <<"lessons", "slot", "room", "teacher", "class", "course">>
    BY <1>2 DEF QueryOrder, Enrichment
  <2>2. Len(order) = 6 /\ DOMAIN order = 1 .. 6
    BY <2>1
  <2> QED
    BY <1>2, <2>1, <2>2 DEF Queries, Tables
<1>3. CASE asks = "rooms"
  <2>1. order = <<"room", "lessons", "slot">>
    BY <1>3 DEF QueryOrder
  <2>2. Len(order) = 3 /\ DOMAIN order = 1 .. 3
    BY <2>1
  <2> QED
    BY <1>3, <2>1, <2>2 DEF Queries, Tables
<1>4. CASE asks = "teachers"
  <2>1. order = <<"teacher", "lessons">>
    BY <1>4 DEF QueryOrder
  <2>2. Len(order) = 2 /\ DOMAIN order = 1 .. 2
    BY <2>1
  <2> QED
    BY <1>4, <2>1, <2>2 DEF Queries, Tables
<1>5. CASE asks = "density"
  <2>1. order = <<"lessons">>
    BY <1>5 DEF QueryOrder
  <2>2. Len(order) = 1 /\ DOMAIN order = 1 .. 1
    BY <2>1
  <2> QED
    BY <1>5, <2>1, <2>2 DEF Queries, Tables
<1> QED
  BY <1>1, <1>2, <1>3, <1>4, <1>5 DEF QueryOrder

\* A request asks one of these things.
LEMMA RequestFacts ==
  ASSUME TypeOK
  PROVE  /\ request.asks \in DOMAIN QueryOrder
         /\ request.asks = "plan" => request.plan \in Seq(Lesson)
         /\ request.asks # "plan" =>
              /\ request.timetable \subseteq Lesson /\ IsFiniteSet(request.timetable)
              /\ \A l, k \in request.timetable : l.id = k.id => l = k
<1>1. request \in Requests /\ request \in Request
  BY RequestsAssumption DEF TypeOK
<1>2. CASE request \in [asks : DOMAIN QueryOrder \ {"plan"}, timetable : SUBSET Lesson, filter : Filter]
  BY <1>1, <1>2, RequestsAssumption
<1>3. CASE request \in [asks : {"plan"}, plan : Seq(Lesson)]
  <2>1. request.asks = "plan" /\ request.plan \in Seq(Lesson)
    BY <1>3
  <2>2. "plan" \in DOMAIN QueryOrder
    BY DEF QueryOrder
  <2> QED
    BY <2>1, <2>2
<1> QED
  BY <1>1, <1>2, <1>3 DEF Request

\* A listing has the lessons asked for, each once.
LEMMA ListingFacts ==
  ASSUME TypeOK, NEW list \in Listings
  PROVE  /\ list \in Seq(Lesson)
         /\ request.asks # "plan" =>
              /\ {list[n] : n \in DOMAIN list} = Matching
              /\ \A m, n \in DOMAIN list : m # n => list[m].id # list[n].id
              /\ \A m, n \in DOMAIN list : m < n => ~Earlier(list[n], list[m])
<1>1. CASE request.asks = "plan"
  BY <1>1, RequestFacts DEF Listings
<1>2. CASE request.asks # "plan"
  <2>1. Matching \subseteq request.timetable /\ Matching \subseteq Lesson
    BY <1>2, RequestFacts DEF Matching
  <2>2. IsFiniteSet(Matching) /\ Cardinality(Matching) \in Nat
    BY <1>2, <2>1, RequestFacts, FS_Subset, FS_CardinalityType
  <2>3. /\ list \in Bijection(1 .. Cardinality(Matching), Matching)
        /\ \A m, n \in DOMAIN list : m < n => ~Earlier(list[n], list[m])
    BY <1>2 DEF Listings
  <2>4. /\ list \in [1 .. Cardinality(Matching) -> Matching]
        /\ \A m, n \in 1 .. Cardinality(Matching) : list[m] = list[n] => m = n
        /\ \A l \in Matching : \E n \in 1 .. Cardinality(Matching) : list[n] = l
    BY <2>3 DEF Bijection, Injection, Surjection, IsInjective
  <2>5. list \in Seq(Lesson) /\ DOMAIN list = 1 .. Cardinality(Matching)
    BY <2>1, <2>2, <2>4
  <2>6. {list[n] : n \in DOMAIN list} = Matching
    BY <2>4, <2>5
  <2>7. \A m, n \in DOMAIN list : m # n => list[m].id # list[n].id
    BY <1>2, <2>1, <2>4, <2>5, RequestFacts
  <2> QED
    BY <1>2, <2>3, <2>5, <2>6, <2>7
<1> QED
  BY <1>1, <1>2

\* What a lookup finds of a finite table is finite.
LEMMA LookupFacts ==
  ASSUME NEW t, NEW table, IsFiniteSet(table), NEW rowsRead \in Lookup(t, table)
  PROVE  rowsRead \subseteq table /\ IsFiniteSet(rowsRead)
<1>1. rowsRead \subseteq table
  BY DEF Lookup, Pages, RowsOf
<1> QED
  BY <1>1, FS_Subset

-------------------------------------------------------------------------------
(* Reading.                                                                *)

\* Before the first query nothing is read.
LEMMA InitRead == Init => ReadInv
<1> SUFFICES ASSUME Init
             PROVE  ReadInv
  OBVIOUS
<1> USE DEF Init, ReadingInit, ConflictsInit, StatisticsInit
<1>1. request \in Requests /\ request \in Request
  BY RequestsAssumption
<1>2. request.asks \in DOMAIN QueryOrder
  BY <1>1 DEF Request, QueryOrder
<1>3. Len(Order) \in Nat
  BY <1>2, OrderFacts DEF Order
<1>4. \A t \in Tables : known[t] = {} /\ IsFiniteSet(known[t])
  BY FS_EmptySet
<1>5. items \in Seq(Lesson) /\ Len(items) = 0 /\ 1 .. reads = {}
  OBVIOUS
<1>6. rows \in Seq(Answer) /\ Len(rows) = IF request.asks \in Lists THEN scanned ELSE 0
  OBVIOUS
<1>7. TypeOK
  BY <1>1, <1>3, <1>4, <1>5, <1>6 DEF TypeOK
<1> QED
  BY <1>4, <1>5, <1>7 DEF ReadInv, KnownRead, ItemsRead, Phases, Unread

\* The next query, as a member of its order.
LEMMA QueryFacts ==
  ASSUME TypeOK, Querying
  PROVE  /\ reads \in Nat /\ reads + 1 \in 1 .. Len(Order) /\ Len(Order) \in Nat
         /\ Query = Order[reads + 1] /\ Query \in Queries
         /\ \A i \in 1 .. reads : i \in 1 .. Len(Order) /\ Order[i] # Query
<1>1. request.asks \in DOMAIN QueryOrder
  BY RequestFacts
<1>2. /\ Len(Order) \in Nat
      /\ \A i \in 1 .. Len(Order) : Order[i] \in Queries
      /\ \A i, j \in 1 .. Len(Order) : Order[i] = Order[j] => i = j
  BY <1>1, OrderFacts DEF Order
<1>3. reads \in 0 .. Len(Order) /\ reads < Len(Order)
  BY DEF Querying, TypeOK
<1>4. reads + 1 \in 1 .. Len(Order) /\ \A i \in 1 .. reads : i \in 1 .. Len(Order) /\ i # reads + 1
  BY <1>2, <1>3
<1> QED
  BY <1>2, <1>3, <1>4 DEF Query

\* The lessons are read before any table that is read by their ids.
LEMMA StepLessons ==
  ASSUME ReadInv, ReadLessons, UNCHANGED <<compared, statistics, rows>>
  PROVE  ReadInv'
<1>1. TypeOK /\ Querying /\ Query = "lessons"
  BY DEF ReadInv, ReadLessons
<1> DEFINE here == reads + 1
<1>2. /\ reads \in Nat /\ here \in 1 .. Len(Order) /\ Len(Order) \in Nat
      /\ Order[here] = "lessons"
      /\ \A i \in 1 .. reads : i \in 1 .. Len(Order) /\ Order[i] # "lessons"
  BY <1>1, QueryFacts
<1>3. /\ reads' = reads + 1 /\ items' \in Listings
      /\ UNCHANGED <<request, catalog, was, pc, known, failed, scanned>>
      /\ Order' = Order
  BY DEF ReadLessons, Order
<1>4. items' \in Seq(Lesson) /\ scanned = 0 /\ Len(items') \in Nat
  BY <1>1, <1>3, ListingFacts DEF ReadInv, Phases, Querying
<1>5. TypeOK'
  <2>1. reads' \in 0 .. Len(Order')
    BY <1>2, <1>3
  <2>2. scanned' \in 0 .. Len(items')
    BY <1>3, <1>4
  <2> QED
    BY <1>3, <1>4, <2>1, <2>2 DEF TypeOK, ReadInv, compared, statistics
<1>6. KnownRead'
  <2> SUFFICES ASSUME NEW i \in 1 .. reads', Order[i] \in Tables
               PROVE  \/ Lost(Order[i])
                      \/ \E c \in was : known[Order[i]] \in Lookup(Order[i], c[Order[i]])'
    BY <1>3 DEF KnownRead, Lost
  <2>1. i # here
    BY <1>2 DEF Tables
  <2>2. i \in 1 .. reads
    BY <1>2, <1>3, <2>1
  <2>3. request.asks \in {"rooms", "teachers"}
    <3>1. request.asks \in DOMAIN QueryOrder
      BY <1>1, RequestFacts
    <3>2. here # 1 /\ 1 \in 1 .. Len(Order) /\ 1 \in 1 .. reads
      BY <1>2, <2>2
    <3>3. Order[1] # "lessons"
      BY <1>2, <3>2
    <3> QED
      BY <3>1, <3>3, OrderFacts DEF Order
  <2>4. Lost(Order[i]) \/ \E c \in was : known[Order[i]] \in Lookup(Order[i], c[Order[i]])
    BY <2>2 DEF ReadInv, KnownRead
  <2> QED
    BY <1>3, <2>3, <2>4 DEF Lookup, Pages
<1>7. ItemsRead'
  <2>1. here \in 1 .. reads' /\ Order'[here] = "lessons"
    BY <1>2, <1>3
  <2>2. Listings' = Listings
    BY <1>3 DEF Listings, Matching, Matches
  <2> QED
    BY <1>3, <2>1, <2>2 DEF ItemsRead
<1>8. Phases'
  BY <1>1, <1>3, <1>4 DEF Phases, Querying
<1>9. Unread'
  <2>1. \A i \in 1 .. reads : i \in 1 .. reads'
    BY <1>2, <1>3
  <2> QED
    BY <1>3, <2>1 DEF Unread, ReadInv
<1> QED
  BY <1>5, <1>6, <1>7, <1>8, <1>9 DEF ReadInv

\* A step that leaves the lessons and the tables read before keeps what is known
\* of them, as the states of the catalogue are never forgotten.
LEMMA KeepsKnown ==
  ASSUME ReadInv, UNCHANGED <<request, items>>, was \subseteq was', failed \subseteq failed',
         NEW i \in 1 .. reads, Order[i] \in Tables, known'[Order[i]] = known[Order[i]]
  PROVE  Lost(Order[i])' \/ \E c \in was' : known'[Order[i]] \in Lookup(Order[i], c[Order[i]])'
<1>1. Lost(Order[i]) \/ \E c \in was : known[Order[i]] \in Lookup(Order[i], c[Order[i]])
  BY DEF ReadInv, KnownRead
<1>2. CASE Lost(Order[i])
  BY <1>2 DEF Lost, Order
<1>3. ASSUME NEW c \in was, known[Order[i]] \in Lookup(Order[i], c[Order[i]])
      PROVE  \E d \in was' : known'[Order[i]] \in Lookup(Order[i], d[Order[i]])'
  <2>1. Lookup(Order[i], c[Order[i]])' = Lookup(Order[i], c[Order[i]])
    BY <1>3 DEF Lookup, Pages, RowsOf, Order
  <2> QED
    BY <1>3, <2>1
<1> QED
  BY <1>1, <1>2, <1>3

\* A table is read as it is, or not at all.
LEMMA StepTable ==
  ASSUME ReadInv, ReadTable \/ ReadNothing, UNCHANGED <<compared, statistics, rows>>
  PROVE  ReadInv'
<1>1. TypeOK /\ Querying /\ scanned = 0
  BY DEF ReadInv, ReadTable, ReadNothing, Querying, Phases
<1> DEFINE here == reads + 1
<1>2. /\ reads \in Nat /\ here \in 1 .. Len(Order) /\ Len(Order) \in Nat
      /\ Query = Order[here] /\ Query \in Queries
      /\ \A i \in 1 .. reads : i \in 1 .. Len(Order) /\ Order[i] # Query
  BY <1>1, QueryFacts
<1>3. Query \in Tables
  BY <1>2 DEF ReadTable, ReadNothing, Ignored, Queries
<1>4. UNCHANGED <<request, catalog, was, pc, items, scanned, Order>> /\ reads' = here
  BY DEF ReadTable, ReadNothing, Order
<1>5. /\ failed \subseteq failed' /\ failed' \subseteq Failing \cap Tables
      /\ request.asks # "conflicts" => failed' = {}
      /\ DOMAIN known' = Tables /\ \A t \in Tables : IsFiniteSet(known'[t])
      /\ \A t \in Tables : t # Query => known'[t] = known[t]
      /\ \/ known'[Query] = {} /\ Query \in failed'
         \/ known'[Query] \in Lookup(Query, catalog[Query])
  <2>1. CASE ReadTable
    <3>1. PICK found \in Lookup(Query, catalog[Query]) : known' = [known EXCEPT ![Query] = found]
      BY <2>1 DEF ReadTable
    <3>2. IsFiniteSet(catalog[Query])
      BY <1>1, <1>3, CatalogsAssumption DEF TypeOK
    <3>3. IsFiniteSet(found)
      BY <3>1, <3>2, LookupFacts
    <3>4. failed' = failed /\ DOMAIN known = Tables /\ \A t \in Tables : IsFiniteSet(known[t])
      BY <1>1, <2>1 DEF ReadTable, TypeOK
    <3>5. failed \subseteq Failing \cap Tables /\ (request.asks # "conflicts" => failed = {})
      BY <1>1 DEF TypeOK
    <3> QED
      BY <1>3, <3>1, <3>3, <3>4, <3>5
  <2>2. CASE ReadNothing
    <3>1. /\ failed' = failed \cup {Query} /\ known' = known /\ Query \in Failing
          /\ request.asks = "conflicts"
      BY <2>2 DEF ReadNothing, Ignored
    <3>2. known[Query] = {}
      BY <1>1, <1>2, <1>3 DEF ReadInv, Unread
    <3> QED
      BY <1>1, <1>3, <3>1, <3>2 DEF TypeOK
  <2> QED
    BY <2>1, <2>2
<1>6. TypeOK'
  <2>1. reads' \in 0 .. Len(Order') /\ pc' \in {"read", "scan", "done", "failed"}
    BY <1>1, <1>2, <1>4 DEF TypeOK
  <2> QED
    BY <1>1, <1>4, <1>5, <2>1 DEF TypeOK, compared, statistics
<1>7. KnownRead'
  <2> SUFFICES ASSUME NEW i \in 1 .. reads', Order[i] \in Tables
               PROVE  Lost(Order[i])' \/ \E c \in was' : known'[Order[i]] \in Lookup(Order[i], c[Order[i]])'
    BY <1>4 DEF KnownRead
  <2>1. CASE i \in 1 .. reads
    <3>1. known'[Order[i]] = known[Order[i]]
      BY <1>2, <1>5, <2>1
    <3> QED
      BY <1>4, <1>5, <2>1, <3>1, KeepsKnown
  <2>2. CASE i = here
    <3>1. \/ known'[Order[i]] = {} /\ Order[i] \in failed'
          \/ known'[Order[i]] \in Lookup(Order[i], catalog[Order[i]])
      BY <1>2, <1>5, <2>2
    <3>2. catalog \in was'
      BY <1>1, <1>4 DEF TypeOK
    <3>3. ASSUME known'[Order[i]] \in Lookup(Order[i], catalog[Order[i]])
          PROVE  \E c \in was' : known'[Order[i]] \in Lookup(Order[i], c[Order[i]])'
      <4>1. PICK d \in was' : d = catalog
        BY <3>2
      <4>2. Lookup(Order[i], d[Order[i]])' = Lookup(Order[i], d[Order[i]])
        BY <1>4 DEF Lookup, Pages, RowsOf
      <4> QED
        BY <3>3, <4>1, <4>2
    <3> QED
      BY <1>4, <3>1, <3>3 DEF Lost
  <2> QED
    BY <1>2, <1>4, <2>1, <2>2
<1>8. ItemsRead'
  <2>1. Query # "lessons" /\ here \notin 1 .. reads /\ \A i \in 1 .. reads' : i \in 1 .. reads \/ i = here
    BY <1>2, <1>3, <1>4 DEF Tables
  <2>2. (\E i \in 1 .. reads' : Order[i] = "lessons") <=> (\E i \in 1 .. reads : Order[i] = "lessons")
    BY <1>2, <1>4, <2>1
  <2>3. Listings' = Listings
    BY <1>4 DEF Listings, Matching, Matches
  <2> QED
    BY <1>4, <2>2, <2>3 DEF ItemsRead, ReadInv
<1>9. Phases'
  BY <1>1, <1>4 DEF Phases, Querying
<1>10. Unread'
  <2>1. \A t \in Tables : (\A i \in 1 .. reads' : Order[i] # t) =>
                          (\A i \in 1 .. reads : Order[i] # t) /\ t # Query
    BY <1>2, <1>4
  <2> QED
    BY <1>4, <1>5, <2>1 DEF Unread, ReadInv
<1> QED
  BY <1>6, <1>7, <1>8, <1>9, <1>10 DEF ReadInv

\* Writes of the catalogue, errors and the ends of the two phases.
LEMMA StepOther ==
  ASSUME ReadInv, ReadFails \/ Change \/ AllRead \/ Return,
         UNCHANGED <<compared, statistics, rows>>
  PROVE  ReadInv'
<1>1. /\ UNCHANGED <<request, reads, items, known, failed, scanned, Order>>
      /\ was \subseteq was' /\ was' \subseteq Catalogs /\ catalog' \in was'
      /\ pc' \in {"read", "scan", "done", "failed"}
  BY DEF ReadFails, Change, AllRead, Return, reading, ReadInv, TypeOK, Order
<1>2. TypeOK'
  <2>1. Answer' = Answer
    BY <1>1 DEF Answer
  <2> QED
    BY <1>1, <2>1 DEF TypeOK, ReadInv, compared, statistics
<1>3. KnownRead'
  <2> SUFFICES ASSUME NEW i \in 1 .. reads, Order[i] \in Tables
               PROVE  Lost(Order[i])' \/ \E c \in was' : known'[Order[i]] \in Lookup(Order[i], c[Order[i]])'
    BY <1>1 DEF KnownRead
  <2> QED
    BY <1>1, KeepsKnown
<1>4. ItemsRead'
  BY <1>1 DEF ItemsRead, ReadInv, Listings, Matching, Matches
<1>5. Phases' /\ Unread'
  BY <1>1 DEF Phases, Unread, ReadInv, ReadFails, Change, AllRead, Return, Querying
<1> QED
  BY <1>2, <1>3, <1>4, <1>5 DEF ReadInv

\* Looking at a lesson changes nothing of what was read.
LEMMA StepScan ==
  ASSUME ReadInv, UNCHANGED <<reading, pc>>, pc = "scan", scanned' = scanned + 1,
         scanned < Len(items), TypeOK'
  PROVE  ReadInv'
<1>1. UNCHANGED <<request, catalog, was, reads, items, known, failed, pc, Order>>
  BY DEF reading, Order
<1>2. KnownRead'
  <2> SUFFICES ASSUME NEW i \in 1 .. reads, Order[i] \in Tables
               PROVE  Lost(Order[i])' \/ \E c \in was' : known'[Order[i]] \in Lookup(Order[i], c[Order[i]])'
    BY <1>1 DEF KnownRead
  <2> QED
    BY <1>1, KeepsKnown
<1>3. ItemsRead' /\ Unread'
  BY <1>1 DEF ItemsRead, Unread, ReadInv, Listings, Matching, Matches
<1>4. Phases'
  BY <1>1 DEF Phases, ReadInv
<1> QED
  BY <1>2, <1>3, <1>4 DEF ReadInv

\* The next lesson, and the types after it was looked at.
LEMMA ScanTypes ==
  ASSUME ReadInv, UNCHANGED <<reading, pc>>, pc = "scan", scanned' = scanned + 1,
         scanned < Len(items)
  PROVE  /\ scanned \in Nat /\ scanned' \in 1 .. Len(items) /\ scanned' \in 0 .. Len(items)
         /\ \A n \in 1 .. scanned' : n \in 1 .. scanned \/ n = scanned'
         /\ \A n \in 1 .. scanned : n \in 1 .. scanned' /\ n # scanned'
         /\ items \in Seq(Lesson) /\ items[scanned + 1] \in Lesson
         /\ UNCHANGED <<request, catalog, was, reads, items, known, failed, pc, Order>>
<1>1. items \in Seq(Lesson) /\ scanned \in 0 .. Len(items) /\ Len(items) \in Nat
  BY DEF ReadInv, TypeOK
<1> QED
  BY <1>1 DEF reading, Order

LEMMA StepEnrich ==
  ASSUME ReadInv, Enrich, UNCHANGED <<compared, statistics>>
  PROVE  ReadInv'
<1>1. /\ UNCHANGED <<reading, pc>> /\ pc = "scan" /\ scanned' = scanned + 1
      /\ scanned < Len(items) /\ request.asks \in Lists
      /\ rows' = Append(rows, Row(items[scanned + 1]))
  BY DEF Enrich
<1>2. rows \in Seq(Answer) /\ Len(rows) = scanned /\ DOMAIN known = Tables
  BY <1>1 DEF ReadInv, TypeOK
<1>3. items[scanned + 1] \in Lesson /\ scanned \in Nat
  BY <1>1, ScanTypes
<1> DEFINE row == Row(items[scanned + 1])
<1>4. row \in Answer
  BY <1>2, <1>3 DEF Row, Answer, Of, Lesson
<1>5. Answer' = Answer
  BY <1>1 DEF Answer, reading
<1> HIDE DEF row
<1>6. rows' \in Seq(Answer') /\ Len(rows') = scanned'
  BY <1>1, <1>2, <1>3, <1>4, <1>5 DEF row
<1>7. TypeOK'
  BY <1>1, <1>6, ScanTypes DEF TypeOK, ReadInv, compared, statistics, Lists
<1> QED
  BY <1>1, <1>7, StepScan

LEMMA StepCompare ==
  ASSUME ReadInv, Compare, UNCHANGED <<statistics, rows>>
  PROVE  ReadInv'
<1> DEFINE l == items[scanned + 1]
<1>1. /\ UNCHANGED <<reading, pc>> /\ pc = "scan" /\ scanned' = scanned + 1
      /\ scanned < Len(items) /\ request.asks = "conflicts"
      /\ reports' = reports \cup (Found(l) \X {scanned + 1})
  BY DEF Compare
<1>2. Found(l) \subseteq Kinds \cup {"capacity", "preference"}
  BY DEF Found, Clashes
<1>3. reports' \subseteq (Kinds \cup {"capacity", "preference"}) \X (1 .. scanned')
  BY <1>1, <1>2, ScanTypes DEF ReadInv, TypeOK
<1>4. Answer' = Answer /\ statistics' = statistics /\ rows' = rows
  BY <1>1 DEF Answer, reading
<1>5. TypeOK'
  BY <1>1, <1>3, <1>4, ScanTypes DEF TypeOK, ReadInv, statistics, Lists, Counted
<1> QED
  BY <1>1, <1>5, StepScan

LEMMA StepCount ==
  ASSUME ReadInv, Count, UNCHANGED <<compared, rows>>
  PROVE  ReadInv'
<1>1. /\ UNCHANGED <<reading, pc>> /\ pc = "scan" /\ scanned' = scanned + 1
      /\ scanned < Len(items) /\ request.asks \in Counted
  BY DEF Count
<1>2. Answer' = Answer /\ compared' = compared /\ rows' = rows
  BY <1>1 DEF Answer, reading
<1>3. reports' \subseteq (Kinds \cup {"capacity", "preference"}) \X (1 .. scanned')
  BY <1>1, <1>2, ScanTypes DEF ReadInv, TypeOK, compared
<1>4. TypeOK'
  BY <1>1, <1>2, <1>3, ScanTypes DEF TypeOK, ReadInv, compared, Lists, Counted
<1> QED
  BY <1>1, <1>4, StepScan

\* Every step keeps the types and what is known.
LEMMA NextRead == ReadInv /\ [Next]_vars => ReadInv'
<1> SUFFICES ASSUME ReadInv, [Next]_vars
             PROVE  ReadInv'
  OBVIOUS
<1>1. CASE ReadStep /\ UNCHANGED <<compared, statistics, rows>>
  BY <1>1, StepLessons, StepTable, StepOther DEF ReadStep
<1>2. CASE Compare /\ UNCHANGED <<statistics, rows>>
  BY <1>2, StepCompare
<1>3. CASE Count /\ UNCHANGED <<compared, rows>>
  BY <1>3, StepCount
<1>4. CASE Enrich /\ UNCHANGED <<compared, statistics>>
  BY <1>4, StepEnrich
<1>5. CASE UNCHANGED vars
  <2>1. UNCHANGED <<request, catalog, was, reads, items, known, failed, pc, scanned, rows, reports,
                    last, counts, lastDay>>
    BY <1>5 DEF vars, common, reading, compared, statistics
  <2>2. Order' = Order /\ Answer' = Answer
    BY <2>1 DEF Order, Answer
  <2>3. TypeOK' /\ ItemsRead' /\ Phases' /\ Unread'
    BY <2>1, <2>2 DEF ReadInv, TypeOK, ItemsRead, Phases, Unread, Listings, Matching, Matches
  <2>4. KnownRead'
    <3> SUFFICES ASSUME NEW i \in 1 .. reads, Order[i] \in Tables
                 PROVE  Lost(Order[i])' \/ \E c \in was' : known'[Order[i]] \in Lookup(Order[i], c[Order[i]])'
      BY <2>1, <2>2 DEF KnownRead
    <3> QED
      BY <2>1, KeepsKnown
  <2> QED
    BY <2>3, <2>4 DEF ReadInv
<1> QED
  BY <1>1, <1>2, <1>3, <1>4, <1>5 DEF Next, Finished

\* The types hold of every request and every content of the tables.
THEOREM ReportsTypes == Spec => []TypeOK
<1>1. ReadInv => TypeOK
  BY DEF ReadInv
<1> QED
  BY <1>1, InitRead, NextRead, PTL DEF Spec

-------------------------------------------------------------------------------
(* The report of conflicts.                                                *)

\* A comparison adds the keys of its lesson to the map, with its id.
LEMMA CompareMap ==
  ASSUME ReadInv, MapKnows, Compare
  PROVE  MapKnows'
<1> DEFINE l == items[scanned + 1]
<1>1. /\ UNCHANGED <<reading, pc>> /\ pc = "scan" /\ scanned' = scanned + 1
      /\ scanned < Len(items) /\ request.asks = "conflicts"
  BY DEF Compare
<1>2. /\ DOMAIN last' = DOMAIN last \cup Keys(l)
      /\ \A key \in DOMAIN last' : last'[key] = IF key \in Keys(l) THEN l.id ELSE last[key]
  BY DEF Compare
<1>3. /\ \A n \in 1 .. scanned' : n \in 1 .. scanned \/ n = scanned'
      /\ \A n \in 1 .. scanned : n \in 1 .. scanned'
      /\ scanned' \in 1 .. scanned' /\ items' = items
  BY <1>1, ScanTypes
<1>4. \A n \in 1 .. scanned' : Keys(items[n]) \subseteq DOMAIN last'
  BY <1>1, <1>2, <1>3 DEF MapKnows
<1>5. \A key \in DOMAIN last' :
        \E n \in 1 .. scanned' : key \in Keys(items[n]) /\ last'[key] = items[n].id
  <2> SUFFICES ASSUME NEW key \in DOMAIN last'
               PROVE  \E n \in 1 .. scanned' : key \in Keys(items[n]) /\ last'[key] = items[n].id
    OBVIOUS
  <2>1. CASE key \in Keys(l)
    BY <1>1, <1>2, <1>3, <2>1
  <2>2. CASE key \notin Keys(l)
    <3>1. PICK n \in 1 .. scanned : key \in Keys(items[n]) /\ last[key] = items[n].id
      BY <1>1, <1>2, <2>2 DEF MapKnows
    <3> QED
      BY <1>2, <1>3, <2>2, <3>1
  <2> QED
    BY <2>1, <2>2
<1> QED
  BY <1>3, <1>4, <1>5 DEF MapKnows, Keys, Key

\* A lesson is found to clash exactly if an earlier one has its key.
LEMMA CompareReports ==
  ASSUME ReadInv, MapKnows, ClashesReported, Compare
  PROVE  ClashesReported'
<1> DEFINE l == items[scanned + 1]
<1>1. /\ UNCHANGED <<reading, pc>> /\ pc = "scan" /\ scanned' = scanned + 1
      /\ scanned < Len(items) /\ request.asks = "conflicts"
      /\ reports' = reports \cup (Found(l) \X {scanned + 1})
  BY DEF Compare
<1>2. /\ scanned \in Nat /\ items' = items /\ request' = request
      /\ \A n \in 1 .. scanned' : n \in 1 .. scanned \/ n = scanned + 1
      /\ \A n \in 1 .. scanned : n \in 1 .. scanned' /\ n \in DOMAIN items /\ n # scanned + 1
      /\ scanned + 1 \in DOMAIN items
  BY <1>1, ScanTypes
<1>3. reports \subseteq (Kinds \cup {"capacity", "preference"}) \X (1 .. scanned)
  BY DEF ReadInv, TypeOK
<1>4. \A kind \in Kinds : kind \in Found(l) <=> kind \in Clashes(l)
  BY DEF Found, Kinds
<1>5. \A m \in 1 .. scanned : items[m].id # l.id
  <2>1. items \in Listings
    <3>1. request.asks \in DOMAIN QueryOrder
      BY RequestFacts DEF ReadInv
    <3>2. \E i \in 1 .. reads : Order[i] = "lessons"
      BY <1>1, <3>1, OrderFacts DEF ReadInv, Phases, Order
    <3> QED
      BY <3>2 DEF ReadInv, ItemsRead
  <2>2. \A m, n \in DOMAIN items : m # n => items[m].id # items[n].id
    BY <1>1, <2>1, ListingFacts DEF ReadInv
  <2> QED
    BY <1>2, <2>2
<1>6. ASSUME NEW kind \in Kinds
      PROVE  kind \in Clashes(l) <=> \E m \in 1 .. scanned : Key(kind, items[m]) = Key(kind, l)
  <2>1. ASSUME NEW m \in 1 .. scanned, Key(kind, items[m]) = Key(kind, l)
        PROVE  kind \in Clashes(l)
    <3>1. Key(kind, l) \in DOMAIN last
      BY <1>1, <2>1 DEF MapKnows, Keys
    <3>2. PICK n \in 1 .. scanned : last[Key(kind, l)] = items[n].id
      BY <1>1, <3>1 DEF MapKnows
    <3> QED
      BY <1>5, <3>1, <3>2 DEF Clashes
  <2>2. ASSUME kind \in Clashes(l)
        PROVE  \E m \in 1 .. scanned : Key(kind, items[m]) = Key(kind, l)
    <3>1. PICK n \in 1 .. scanned : Key(kind, l) \in Keys(items[n])
      BY <1>1, <2>2 DEF Clashes, MapKnows
    <3>2. Key(kind, l) = Key(kind, items[n])
      BY <3>1 DEF Keys, Key
    <3> QED
      BY <3>2
  <2> QED
    BY <2>1, <2>2
<1>7. ASSUME NEW n \in 1 .. scanned', NEW kind \in Kinds
      PROVE  <<kind, n>> \in reports' <=>
               \E m \in 1 .. n - 1 : Key(kind, items[m]) = Key(kind, items[n])
  <2>1. CASE n = scanned + 1
    <3>1. <<kind, n>> \notin reports
      BY <1>2, <1>3, <2>1
    <3>2. <<kind, n>> \in reports' <=> kind \in Found(l)
      BY <1>1, <2>1, <3>1
    <3>3. n - 1 = scanned
      BY <1>2, <2>1
    <3> QED
      BY <1>4, <1>6, <2>1, <3>2, <3>3
  <2>2. CASE n # scanned + 1
    <3>1. n \in 1 .. scanned
      BY <1>1, <1>2, <2>2
    <3>2. <<kind, n>> \in reports' <=> <<kind, n>> \in reports
      BY <1>1, <2>2
    <3> QED
      BY <1>1, <3>1, <3>2 DEF ClashesReported
  <2> QED
    BY <2>1, <2>2
<1>8. items' = items
  BY <1>2
<1> HIDE DEF l
<1>9. \A n \in 1 .. scanned', kind \in Kinds :
        <<kind, n>> \in reports' <=>
          \E m \in 1 .. n - 1 : Key(kind, items[m]) = Key(kind, items[n])
  BY <1>7, Zenon
<1>10. \A n \in 1 .. scanned', kind \in Kinds :
        <<kind, n>> \in reports' <=>
          \E m \in 1 .. n - 1 : Key(kind, items'[m]) = Key(kind, items'[n])
  BY <1>8, <1>9, Zenon
<1> QED
  BY <1>10, Zenon DEF ClashesReported

\* The other reports are by the tables that were read.
SuitKnown ==
  request.asks = "conflicts" =>
    \A n \in 1 .. scanned :
      /\ <<"capacity", n>> \in reports <=> TooSmall(items[n], known["class"], known["room"])
      /\ <<"preference", n>> \in reports <=> RuledOut(items[n], known["teacher"], known["slot"])

LEMMA CompareSuits ==
  ASSUME ReadInv, SuitKnown, Compare
  PROVE  SuitKnown'
<1> DEFINE l == items[scanned + 1]
<1>1. /\ UNCHANGED <<reading, pc>> /\ pc = "scan" /\ scanned' = scanned + 1
      /\ scanned < Len(items) /\ request.asks = "conflicts"
      /\ reports' = reports \cup (Found(l) \X {scanned + 1})
  BY DEF Compare
<1>2. /\ items' = items /\ request' = request /\ known' = known
      /\ \A n \in 1 .. scanned' : n \in 1 .. scanned \/ n = scanned + 1
      /\ \A n \in 1 .. scanned : n # scanned + 1
      /\ scanned + 1 \notin 1 .. scanned
  BY <1>1, ScanTypes
<1>3. reports \subseteq (Kinds \cup {"capacity", "preference"}) \X (1 .. scanned)
  BY DEF ReadInv, TypeOK
<1>4. /\ "capacity" \in Found(l) <=> TooSmall(l, known["class"], known["room"])
      /\ "preference" \in Found(l) <=> RuledOut(l, known["teacher"], known["slot"])
  BY DEF Found, Clashes, Kinds
<1>5. ASSUME NEW n \in 1 .. scanned', NEW type
      PROVE  <<type, n>> \in reports' <=> IF n = scanned + 1 THEN type \in Found(l) ELSE <<type, n>> \in reports
  BY <1>1, <1>2, <1>3
<1> HIDE DEF l
<1>6. ASSUME NEW n \in 1 .. scanned'
      PROVE  /\ <<"capacity", n>> \in reports' <=> TooSmall(items[n], known["class"], known["room"])
             /\ <<"preference", n>> \in reports' <=> RuledOut(items[n], known["teacher"], known["slot"])
  <2>1. CASE n = scanned + 1
    BY <1>4, <1>5, <2>1 DEF l
  <2>2. CASE n \in 1 .. scanned
    BY <1>1, <1>2, <1>5, <2>2 DEF SuitKnown
  <2> QED
    BY <1>2, <2>1, <2>2
<1> QED
  BY <1>2, <1>6 DEF SuitKnown, TooSmall, RuledOut

\* When a report is made, each table it needs was read as one of its states would
\* give it, or could not be read.
LEMMA KnownSeen ==
  ASSUME ReadInv, request.asks = "conflicts", pc \in {"scan", "done"},
         NEW t \in {"class", "room", "teacher", "slot"}
  PROVE  \/ known[t] = {} /\ t \in failed
         \/ t = "slot" /\ known[t] \in Seen(t)
         \/ t # "slot" /\ \E table \in Seen(t) : known[t] = RowsOf(table, t)
<1>1. /\ reads = Len(Order) /\ Order = <<"lessons", "class", "room", "teacher", "slot">>
  BY DEF ReadInv, Phases, Order, QueryOrder
<1>2. PICK i \in 1 .. reads : Order[i] = t
  <2>1. Len(Order) = 5 /\ 2 \in 1 .. reads /\ 3 \in 1 .. reads /\ 4 \in 1 .. reads /\ 5 \in 1 .. reads
    BY <1>1
  <2>2. Order[2] = "class" /\ Order[3] = "room" /\ Order[4] = "teacher" /\ Order[5] = "slot"
    BY <1>1
  <2> QED
    BY <2>1, <2>2
<1>3. Lost(t) \/ \E c \in was : known[t] \in Lookup(t, c[t])
  BY <1>2 DEF ReadInv, KnownRead, Tables
<1>4. ASSUME NEW c \in was, known[t] \in Lookup(t, c[t]), t # "slot"
      PROVE  \E table \in Seen(t) : known[t] = RowsOf(table, t)
  <2>1. known[t] = RowsOf(c[t], t) /\ c[t] \in Seen(t)
    BY <1>4 DEF Lookup, Seen
  <2> QED
    BY <2>1
<1>5. ASSUME NEW c \in was, known[t] \in Lookup(t, c[t]), t = "slot"
      PROVE  known[t] \in Seen(t)
  BY <1>5 DEF Lookup, Seen
<1> QED
  BY <1>3, <1>4, <1>5 DEF Lost

\* The rows of the lessons read are all that their reports need.
LEMMA RowsSuffice ==
  ASSUME NEW n \in DOMAIN items, NEW C, NEW R, NEW T, NEW S
  PROVE  /\ TooSmall(items[n], RowsOf(C, "class"), RowsOf(R, "room")) <=> TooSmall(items[n], C, R)
         /\ RuledOut(items[n], RowsOf(T, "teacher"), S) <=> RuledOut(items[n], T, S)
<1> DEFINE l == items[n]
<1>1. l.class = l["class"] /\ l.room = l["room"] /\ l.teacher = l["teacher"]
  OBVIOUS
<1>2. \A row, table : row.id = l.class => (row \in RowsOf(table, "class") <=> row \in table)
  BY <1>1 DEF RowsOf
<1>3. \A row, table : row.id = l.room => (row \in RowsOf(table, "room") <=> row \in table)
  BY <1>1 DEF RowsOf
<1>4. \A row, table : row.id = l.teacher => (row \in RowsOf(table, "teacher") <=> row \in table)
  BY <1>1 DEF RowsOf
<1> QED
  BY <1>2, <1>3, <1>4 DEF TooSmall, RuledOut

LEMMA SuitsAreReported == ReadInv /\ SuitKnown => SuitReported
<1> SUFFICES ASSUME ReadInv, SuitKnown, request.asks = "conflicts", NEW n \in 1 .. scanned
             PROVE  /\ <<"capacity", n>> \in reports =>
                         \E C \in Seen("class"), R \in Seen("room") : TooSmall(items[n], C, R)
                    /\ <<"preference", n>> \in reports =>
                         \E T \in Seen("teacher"), S \in Seen("slot") : RuledOut(items[n], T, S)
                    /\ (\A C \in Seen("class"), R \in Seen("room") : TooSmall(items[n], C, R)) =>
                         <<"capacity", n>> \in reports \/ failed \cap {"class", "room"} # {}
                    /\ (\A T \in Seen("teacher"), S \in Seen("slot") : RuledOut(items[n], T, S)) =>
                         <<"preference", n>> \in reports \/ failed \cap {"teacher", "slot"} # {}
  BY DEF SuitReported
<1>1. pc \in {"scan", "done"} /\ n \in DOMAIN items
  BY DEF ReadInv, Phases, TypeOK
<1>2. /\ <<"capacity", n>> \in reports <=> TooSmall(items[n], known["class"], known["room"])
      /\ <<"preference", n>> \in reports <=> RuledOut(items[n], known["teacher"], known["slot"])
  BY DEF SuitKnown
<1>3. /\ \/ known["class"] = {} /\ "class" \in failed
         \/ \E C \in Seen("class") : known["class"] = RowsOf(C, "class")
      /\ \/ known["room"] = {} /\ "room" \in failed
         \/ \E R \in Seen("room") : known["room"] = RowsOf(R, "room")
      /\ \/ known["teacher"] = {} /\ "teacher" \in failed
         \/ \E T \in Seen("teacher") : known["teacher"] = RowsOf(T, "teacher")
      /\ \/ known["slot"] = {} /\ "slot" \in failed
         \/ known["slot"] \in Seen("slot")
  BY <1>1, KnownSeen
<1>4. \A C, R : ~TooSmall(items[n], {}, R) /\ ~TooSmall(items[n], C, {})
  BY DEF TooSmall
<1>5. \A T, S : ~RuledOut(items[n], {}, S) /\ ~RuledOut(items[n], T, {})
  BY DEF RuledOut
<1>6. \A C, R : TooSmall(items[n], RowsOf(C, "class"), RowsOf(R, "room")) <=> TooSmall(items[n], C, R)
  BY <1>1, RowsSuffice
<1>7. \A T, S : RuledOut(items[n], RowsOf(T, "teacher"), S) <=> RuledOut(items[n], T, S)
  BY <1>1, RowsSuffice
<1>8. /\ <<"capacity", n>> \in reports =>
           \E C \in Seen("class"), R \in Seen("room") : TooSmall(items[n], C, R)
      /\ (\A C \in Seen("class"), R \in Seen("room") : TooSmall(items[n], C, R)) =>
           <<"capacity", n>> \in reports \/ failed \cap {"class", "room"} # {}
  <2>1. CASE \/ known["class"] = {} /\ "class" \in failed
             \/ known["room"] = {} /\ "room" \in failed
    BY <1>2, <1>4, <2>1
  <2>2. CASE /\ \E C \in Seen("class") : known["class"] = RowsOf(C, "class")
             /\ \E R \in Seen("room") : known["room"] = RowsOf(R, "room")
    <3>1. PICK C \in Seen("class") : known["class"] = RowsOf(C, "class")
      BY <2>2
    <3>2. PICK R \in Seen("room") : known["room"] = RowsOf(R, "room")
      BY <2>2
    <3>3. TooSmall(items[n], C, R) <=> <<"capacity", n>> \in reports
      BY <1>2, <1>6, <3>1, <3>2
    <3> QED
      BY <3>3
  <2> QED
    BY <1>3, <2>1, <2>2
<1>9. /\ <<"preference", n>> \in reports =>
           \E T \in Seen("teacher"), S \in Seen("slot") : RuledOut(items[n], T, S)
      /\ (\A T \in Seen("teacher"), S \in Seen("slot") : RuledOut(items[n], T, S)) =>
           <<"preference", n>> \in reports \/ failed \cap {"teacher", "slot"} # {}
  <2>1. CASE \/ known["teacher"] = {} /\ "teacher" \in failed
             \/ known["slot"] = {} /\ "slot" \in failed
    BY <1>2, <1>5, <2>1
  <2>2. CASE /\ \E T \in Seen("teacher") : known["teacher"] = RowsOf(T, "teacher")
             /\ known["slot"] \in Seen("slot")
    <3>1. PICK T \in Seen("teacher") : known["teacher"] = RowsOf(T, "teacher")
      BY <2>2
    <3>2. RuledOut(items[n], T, known["slot"]) <=> <<"preference", n>> \in reports
      BY <1>2, <1>7, <3>1
    <3> QED
      BY <2>2, <3>2
  <2> QED
    BY <1>3, <2>1, <2>2
<1> QED
  BY <1>8, <1>9

-------------------------------------------------------------------------------
(* The statistics.                                                         *)

With(key, upTo) == {n \in 1 .. upTo : CountKey(items[n]) = key}

\* What the loops have counted, and the last day met.
Tallies ==
  request.asks \in Counted =>
    /\ DOMAIN counts = {CountKey(items[n]) : n \in 1 .. scanned}
    /\ \A key \in DOMAIN counts : counts[key] = Cardinality(With(key, scanned))
    /\ lastDay \in Nat /\ \A n \in 1 .. scanned : items[n].day <= lastDay

LEMMA CountTallies ==
  ASSUME ReadInv, Tallies, Count
  PROVE  Tallies'
<1> DEFINE l == items[scanned + 1]
           k == CountKey(l)
<1>1. /\ UNCHANGED <<reading, pc>> /\ pc = "scan" /\ scanned' = scanned + 1
      /\ scanned < Len(items) /\ request.asks \in Counted
      /\ counts' = [key \in DOMAIN counts \cup {k} |-> CountOf(key) + IF key = k THEN 1 ELSE 0]
      /\ lastDay' = IF l.day > lastDay THEN l.day ELSE lastDay
  BY DEF Count
<1>2. /\ scanned \in Nat /\ items' = items /\ request' = request /\ l.day \in Nat
      /\ \A n \in 1 .. scanned' : n \in 1 .. scanned \/ n = scanned + 1
      /\ \A n \in 1 .. scanned : n \in 1 .. scanned' /\ n # scanned + 1 /\ items[n].day \in Nat
      /\ scanned + 1 \in 1 .. scanned' /\ scanned + 1 \notin 1 .. scanned
  <2>1. scanned \in Nat /\ scanned' = scanned + 1 /\ Len(items) \in Nat /\ scanned < Len(items)
    BY <1>1, ScanTypes
  <2>2. \A n \in 1 .. scanned + 1 : items[n] \in Lesson
    BY <1>1, <2>1, ScanTypes
  <2>3. \A n \in 1 .. scanned + 1 : items[n].day \in Nat
    BY <2>2 DEF Lesson
  <2> QED
    BY <1>1, <2>1, <2>3, ScanTypes
<1>3. \A i : CountKey(items[i])' = CountKey(items[i])
  BY <1>2 DEF CountKey
<1>4. \A key, m : With(key, m)' = With(key, m)
  BY <1>2 DEF With, CountKey
<1> HIDE DEF k
<1>5. DOMAIN counts' = {CountKey(items[n]) : n \in 1 .. scanned'}
  <2>1. DOMAIN counts' = {CountKey(items[n]) : n \in 1 .. scanned} \cup {k}
    BY <1>1 DEF Tallies
  <2> QED
    BY <1>2, <2>1 DEF k
<1>6. ASSUME NEW key \in DOMAIN counts'
      PROVE  counts'[key] = Cardinality(With(key, scanned'))
  <2>1. IsFiniteSet(With(key, scanned))
    <3>1. 1 \in Int /\ scanned \in Int
      BY <1>2
    <3>2. IsFiniteSet(1 .. scanned)
      BY <3>1, FS_Interval
    <3>3. With(key, scanned) \in SUBSET (1 .. scanned)
      BY DEF With
    <3> QED
      BY <3>2, <3>3, FS_Subset
  <2>2. With(key, scanned') = IF key = k THEN With(key, scanned) \cup {scanned + 1} ELSE With(key, scanned)
    BY <1>2 DEF With, k
  <2>3. scanned + 1 \notin With(key, scanned)
    BY <1>2 DEF With
  <2>4. CountOf(key) = Cardinality(With(key, scanned)) /\ CountOf(key) \in Nat
    <3>1. CASE key \in DOMAIN counts
      BY <1>1, <2>1, <3>1, FS_CardinalityType DEF Tallies, CountOf
    <3>2. CASE key \notin DOMAIN counts
      <4>1. With(key, scanned) = {}
        BY <1>1, <3>2 DEF Tallies, With
      <4> QED
        BY <3>2, <4>1, FS_EmptySet DEF CountOf
    <3> QED
      BY <3>1, <3>2
  <2>5. Cardinality(With(key, scanned) \cup {scanned + 1}) = Cardinality(With(key, scanned)) + 1
    BY <2>1, <2>3, FS_AddElement
  <2>6. counts'[key] = CountOf(key) + IF key = k THEN 1 ELSE 0
    BY <1>1
  <2> QED
    BY <2>2, <2>4, <2>5, <2>6
<1>7. lastDay' \in Nat /\ \A n \in 1 .. scanned' : items[n].day <= lastDay'
  <2>1. lastDay \in Nat /\ \A n \in 1 .. scanned : items[n].day <= lastDay
    BY <1>1 DEF Tallies
  <2> QED
    BY <1>1, <1>2, <2>1
<1>8. \A key : With(key, scanned)' = With(key, scanned')
  BY <1>4
<1> QED
  BY <1>2, <1>3, <1>5, <1>6, <1>7, <1>8 DEF Tallies

LEMMA TalliesAreExact == ReadInv /\ Tallies => EachCounted
<1> SUFFICES ASSUME ReadInv, Tallies, request.asks \in Counted
             PROVE  /\ DOMAIN counts = {CountKey(items[n]) : n \in 1 .. scanned}
                    /\ \A key \in DOMAIN counts :
                         counts[key] = Cardinality({n \in 1 .. scanned : CountKey(items[n]) = key})
                    /\ request.asks = "teachers" /\ pc = "done" =>
                         \A id \in DOMAIN Workload :
                           Workload[id] = Cardinality({n \in DOMAIN items : items[n].teacher = id})
  BY DEF EachCounted
<1>1. /\ DOMAIN counts = {CountKey(items[n]) : n \in 1 .. scanned}
      /\ \A key \in DOMAIN counts : counts[key] = Cardinality(With(key, scanned))
  BY DEF Tallies
<1>2. ASSUME request.asks = "teachers", pc = "done", NEW id \in DOMAIN Workload
      PROVE  Workload[id] = Cardinality({n \in DOMAIN items : items[n].teacher = id})
  <2>1. DOMAIN items = 1 .. scanned
    BY <1>2 DEF ReadInv, Phases, TypeOK
  <2>2. \A n : CountKey(items[n]) = <<items[n].teacher>>
    BY <1>2 DEF CountKey
  <2>3. {n \in DOMAIN items : items[n].teacher = id} = With(<<id>>, scanned)
    BY <2>1, <2>2 DEF With
  <2>4. Workload[id] = CountOf(<<id>>)
    BY DEF Workload
  <2>5. CASE <<id>> \in DOMAIN counts
    BY <1>1, <2>3, <2>4, <2>5 DEF CountOf
  <2>6. CASE <<id>> \notin DOMAIN counts
    <3>1. With(<<id>>, scanned) = {}
      BY <1>1, <2>6 DEF With
    <3> QED
      BY <2>3, <2>4, <2>6, <3>1, FS_EmptySet DEF CountOf
  <2> QED
    BY <2>5, <2>6
<1> QED
  BY <1>1, <1>2 DEF With

\* The lessons of a room are at different times, each a week in use, a day up to
\* the last, and a listed slot: there are no more of them than such times.
LEMMA UseIsBounded == ReadInv /\ Tallies => UtilizationBounded
<1> SUFFICES ASSUME ReadInv, Tallies, request.asks = "rooms", pc = "done",
                    RoomsApart, SlotsListed, NEW id \in DOMAIN UsedPeriods
             PROVE  UsedPeriods[id] <= TotalPeriods
  BY DEF UtilizationBounded
<1> DEFINE N == With(<<id>>, scanned)
           S == known["slot"]
           Times == (Weeks \X (1 .. lastDay)) \X S
           Time(n) == <<<<items[n].week, items[n].day>>, CHOOSE s \in S : s.id = items[n].slot>>
           f == [n \in N |-> Time(n)]
<1>1. /\ items \in Seq(Lesson) /\ scanned = Len(items) /\ scanned \in Nat /\ DOMAIN items = 1 .. scanned
      /\ IsFiniteSet(S)
  BY DEF ReadInv, TypeOK, Phases, Tables
<1>2. /\ lastDay \in Nat
      /\ \A n \in 1 .. scanned : items[n] \in Lesson /\ items[n].day \in 1 .. lastDay
  <2>1. lastDay \in Nat /\ \A n \in 1 .. scanned : items[n].day <= lastDay
    BY DEF Tallies, Counted
  <2>2. \A n \in 1 .. scanned : items[n] \in Lesson
    BY <1>1
  <2>3. \A n \in 1 .. scanned : items[n].day \in Nat \ {0}
    BY <2>2 DEF Lesson
  <2> QED
    BY <2>1, <2>2, <2>3
<1>3. \A n \in N : n \in DOMAIN items /\ items[n].room = id
  BY <1>1 DEF With, CountKey
<1>4. \A n \in DOMAIN items : \E s \in S : s.id = items[n].slot
  <2>1. reads = Len(Order) /\ Order = <<"room", "lessons", "slot">>
    BY DEF ReadInv, Phases, Order, QueryOrder
  <2>2. 3 \in 1 .. reads /\ Order[3] = "slot" /\ failed = {}
    BY <2>1 DEF ReadInv, TypeOK
  <2>3. \E c \in was : S \in Lookup("slot", c["slot"])
    BY <2>2 DEF ReadInv, KnownRead, Lost, Tables
  <2>4. S \in Seen("slot")
    BY <2>3 DEF Lookup, Seen
  <2> QED
    BY <2>4 DEF SlotsListed
<1>5. f \in Injection(N, Times)
  <2>1. ASSUME NEW n \in N
        PROVE  /\ Time(n) \in Times
               /\ (CHOOSE s \in S : s.id = items[n].slot).id = items[n].slot
    <3>1. items[n].week \in Weeks /\ items[n].day \in 1 .. lastDay
      BY <1>1, <1>2, <1>3 DEF Weeks
    <3>2. /\ (CHOOSE s \in S : s.id = items[n].slot) \in S
          /\ (CHOOSE s \in S : s.id = items[n].slot).id = items[n].slot
      BY <1>3, <1>4
    <3> QED
      BY <3>1, <3>2
  <2>2. ASSUME NEW m \in N, NEW n \in N, f[m] = f[n]
        PROVE  m = n
    <3>1. Time(m) = Time(n)
      BY <2>2
    <3>2. items[m].week = items[n].week /\ items[m].day = items[n].day /\ items[m].slot = items[n].slot
      BY <2>1, <3>1
    <3>3. \A col \in {"room", "week", "day", "slot"} : items[m][col] = items[n][col]
      BY <1>3, <3>2
    <3> QED
      BY <1>3, <3>3 DEF RoomsApart
  <2>3. f \in [N -> Times]
    BY <2>1
  <2> QED
    BY <2>2, <2>3 DEF Injection, IsInjective
<1>6. /\ IsFiniteSet(Times)
      /\ Cardinality(Times) = TotalPeriods
  <2>1. IsFiniteSet(Weeks)
    <3> DEFINE g == [n \in DOMAIN items |-> items[n].week]
    <3>1. g \in Surjection(DOMAIN items, Weeks)
      BY DEF Surjection, Weeks
    <3>2. IsFiniteSet(DOMAIN items)
      BY <1>1, FS_Interval
    <3> QED
      BY <3>1, <3>2, FS_Surjection
  <2>2. IsFiniteSet(1 .. lastDay) /\ Cardinality(1 .. lastDay) = lastDay
    BY <1>2, FS_Interval
  <2>3. /\ IsFiniteSet(Weeks \X (1 .. lastDay))
        /\ Cardinality(Weeks \X (1 .. lastDay)) = Cardinality(Weeks) * lastDay
    BY <2>1, <2>2, FS_Product
  <2> QED
    BY <1>1, <2>3, FS_Product DEF TotalPeriods
<1> HIDE DEF f, Times, N
<1>7. Cardinality(N) <= Cardinality(Times) /\ IsFiniteSet(N)
  BY <1>5, <1>6, FS_Injection
<1>8. UsedPeriods[id] = Cardinality(N)
  <2>1. /\ DOMAIN counts = {CountKey(items[n]) : n \in 1 .. scanned}
        /\ \A key \in DOMAIN counts : counts[key] = Cardinality(With(key, scanned))
    BY DEF Tallies, Counted
  <2>2. UsedPeriods[id] = CountOf(<<id>>)
    BY DEF UsedPeriods
  <2>3. CASE <<id>> \in DOMAIN counts
    BY <2>1, <2>2, <2>3 DEF CountOf, N
  <2>4. CASE <<id>> \notin DOMAIN counts
    <3>1. N = {}
      BY <2>1, <2>4 DEF With, N
    <3> QED
      BY <2>2, <2>4, <3>1, FS_EmptySet DEF CountOf
  <2> QED
    BY <2>3, <2>4
<1> QED
  BY <1>6, <1>7, <1>8

-------------------------------------------------------------------------------
(* The lists.                                                              *)

RowOf(n) ==
  [id |-> IF request.asks = "plan" THEN n ELSE items[n].id,
   lesson |-> items[n],
   of |-> [t \in Tables |-> Of(known[t], items[n][t])]]

RowsKnown == request.asks \in Lists => \A n \in 1 .. scanned : rows[n] = RowOf(n)

LEMMA EnrichRows ==
  ASSUME ReadInv, RowsKnown, Enrich
  PROVE  RowsKnown'
<1>1. /\ UNCHANGED <<reading, pc>> /\ pc = "scan" /\ scanned' = scanned + 1
      /\ scanned < Len(items) /\ request.asks \in Lists
      /\ rows' = Append(rows, Row(items[scanned + 1]))
  BY DEF Enrich
<1>2. rows \in Seq(Answer) /\ Len(rows) = scanned
  BY <1>1 DEF ReadInv, TypeOK
<1>3. Row(items[scanned + 1]) = RowOf(scanned + 1)
  BY DEF Row, RowOf
<1>4. /\ \A n \in 1 .. scanned : rows'[n] = rows[n]
      /\ rows'[scanned + 1] = RowOf(scanned + 1)
  BY <1>1, <1>2, <1>3
<1>5. \A n \in 1 .. scanned' : rows'[n] = RowOf(n)
  BY <1>1, <1>4, ScanTypes DEF RowsKnown
<1>6. \A n : RowOf(n)' = RowOf(n)
  BY <1>1 DEF RowOf, reading
<1> QED
  BY <1>5, <1>6 DEF RowsKnown

\* When a list is made, its lessons are listed and each table was read as one of
\* its states would give it.
LEMMA ListKnown ==
  ASSUME ReadInv, request.asks \in Lists, pc \in {"scan", "done"}
  PROVE  /\ items \in Listings
         /\ \A t \in Tables :
              \/ t = "slot" /\ known[t] \in Seen(t)
              \/ t # "slot" /\ \E table \in Seen(t) : known[t] = RowsOf(table, t)
<1>1. /\ reads = Len(Order) /\ failed = {}
      /\ Order = <<"lessons", "slot", "room", "teacher", "class", "course">>
  BY DEF ReadInv, Phases, Order, QueryOrder, Enrichment, Lists, TypeOK
<1>2. /\ 1 .. reads = 1 .. 6 /\ Order[1] = "lessons" /\ Order[2] = "slot" /\ Order[3] = "room"
      /\ Order[4] = "teacher" /\ Order[5] = "class" /\ Order[6] = "course"
  BY <1>1
<1>3. items \in Listings
  BY <1>2 DEF ReadInv, ItemsRead
<1>4. ASSUME NEW t \in Tables
      PROVE  \/ t = "slot" /\ known[t] \in Seen(t)
             \/ t # "slot" /\ \E table \in Seen(t) : known[t] = RowsOf(table, t)
  <2>1. \E i \in 1 .. reads : Order[i] = t
    BY <1>2 DEF Tables
  <2>2. PICK c \in was : known[t] \in Lookup(t, c[t])
    BY <1>1, <2>1 DEF ReadInv, KnownRead, Lost
  <2>3. CASE t = "slot"
    BY <2>2, <2>3 DEF Lookup, Seen
  <2>4. CASE t # "slot"
    <3>1. known[t] = RowsOf(c[t], t) /\ c[t] \in Seen(t)
      BY <2>2, <2>4 DEF Lookup, Seen, Lists
    <3> QED
      BY <2>4, <3>1
  <2> QED
    BY <2>3, <2>4
<1> QED
  BY <1>3, <1>4

LEMMA ListsTell == ReadInv /\ RowsKnown => RowsTell
<1> SUFFICES ASSUME ReadInv, RowsKnown, pc = "done", request.asks \in Lists
             PROVE  RowsTell
  BY DEF RowsTell
<1>1. /\ rows \in Seq(Answer) /\ Len(rows) = scanned /\ scanned = Len(items) /\ items \in Seq(Lesson)
      /\ items \in Listings
  BY ListKnown DEF ReadInv, TypeOK, Phases
<1>2. DOMAIN rows = 1 .. scanned /\ DOMAIN items = 1 .. scanned /\ scanned \in Nat
  BY <1>1
<1>3. \A n \in DOMAIN rows : rows[n] = RowOf(n) /\ rows[n].lesson = items[n]
  BY <1>2 DEF RowsKnown, RowOf
<1>4. ASSUME request.asks # "plan"
      PROVE  /\ {rows[n].lesson : n \in DOMAIN rows} = Matching
             /\ \A n \in DOMAIN rows : \A m \in 1 .. n - 1 : ~Earlier(rows[n].lesson, rows[m].lesson)
  <2>1. /\ {items[n] : n \in DOMAIN items} = Matching
        /\ \A m, n \in DOMAIN items : m < n => ~Earlier(items[n], items[m])
    BY <1>1, <1>4, ListingFacts DEF ReadInv
  <2>2. \A n \in DOMAIN rows : \A m \in 1 .. n - 1 : m \in DOMAIN rows /\ m < n
    BY <1>2
  <2> QED
    BY <1>2, <1>3, <2>1, <2>2
<1>5. ASSUME NEW n \in DOMAIN rows, NEW t \in Tables
      PROVE  \E table \in Seen(t) : rows[n].of[t] = Of(table, rows[n].lesson[t])
  <2>1. rows[n].of[t] = Of(known[t], items[n][t]) /\ rows[n].lesson[t] = items[n][t]
    BY <1>3, <1>5 DEF RowOf
  <2>2. \A table : Of(RowsOf(table, t), items[n][t]) = Of(table, items[n][t])
    BY <1>2 DEF Of, RowsOf
  <2>3. \E table \in Seen(t) : Of(known[t], items[n][t]) = Of(table, items[n][t])
    BY <2>2, ListKnown
  <2> QED
    BY <2>1, <2>3
<1>6. /\ \A n \in DOMAIN rows : \A t \in Tables :
           \E table \in Seen(t) : rows[n].of[t] = Of(table, rows[n].lesson[t])
      /\ Len(rows) = Len(items)
  BY <1>1, <1>5
<1> QED
  BY <1>4, <1>6, Zenon DEF RowsTell

-------------------------------------------------------------------------------
(* The properties of Reports, of every run of every request.               *)

Inv == ReadInv /\ MapKnows /\ ClashesReported /\ SuitKnown /\ Tallies /\ RowsKnown

LEMMA InitInv == Init => Inv
<1> SUFFICES ASSUME Init
             PROVE  MapKnows /\ ClashesReported /\ SuitKnown /\ Tallies /\ RowsKnown
  BY InitRead DEF Inv
<1> USE DEF Init, ReadingInit, ConflictsInit, StatisticsInit
<1>1. 1 .. scanned = {} /\ DOMAIN last = {} /\ DOMAIN counts = {}
  OBVIOUS
<1> QED
  BY <1>1 DEF MapKnows, ClashesReported, SuitKnown, Tallies, RowsKnown

\* A query reads nothing of what was found, and a request that has looked at no
\* lesson has found nothing.
LEMMA ReadStepInv ==
  ASSUME Inv, ReadStep, UNCHANGED <<compared, statistics, rows>>
  PROVE  MapKnows' /\ ClashesReported' /\ SuitKnown' /\ Tallies' /\ RowsKnown'
<1>1. UNCHANGED <<request, scanned, last, reports, counts, lastDay, rows>>
  BY DEF ReadStep, ReadLessons, ReadTable, ReadNothing, ReadFails, Change, AllRead, Return, reading,
         compared, statistics
<1>2. CASE pc = "read"
  <2>1. scanned = 0 /\ 1 .. scanned = {}
    BY <1>2 DEF Inv, ReadInv, Phases
  <2>2. /\ request.asks = "conflicts" => DOMAIN last = {}
        /\ request.asks \in Counted => DOMAIN counts = {} /\ lastDay \in Nat
    BY <2>1 DEF Inv, MapKnows, Tallies
  <2> QED
    BY <1>1, <2>1, <2>2 DEF MapKnows, ClashesReported, SuitKnown, Tallies, RowsKnown
<1>3. CASE pc # "read"
  <2>1. UNCHANGED <<items, known>>
    BY <1>3 DEF ReadStep, ReadLessons, ReadTable, ReadNothing, ReadFails, Change, AllRead, Return,
                Querying, reading
  <2>2. \A key, m : With(key, m)' = With(key, m)
    BY <1>1, <2>1 DEF With, CountKey
  <2> QED
    BY <1>1, <2>1, <2>2 DEF Inv, MapKnows, ClashesReported, SuitKnown, Tallies, RowsKnown, Keys, Key,
                            TooSmall, RuledOut, CountKey, RowOf
<1> QED
  BY <1>2, <1>3

\* Of the three ways to look at a lesson, each leaves to the others what is theirs.
LEMMA NextInv == Inv /\ [Next]_vars => Inv'
<1> SUFFICES ASSUME Inv, [Next]_vars
             PROVE  MapKnows' /\ ClashesReported' /\ SuitKnown' /\ Tallies' /\ RowsKnown'
  BY NextRead DEF Inv
<1>1. CASE ReadStep /\ UNCHANGED <<compared, statistics, rows>>
  BY <1>1, ReadStepInv
<1>2. CASE Compare /\ UNCHANGED <<statistics, rows>>
  <2>1. request.asks = "conflicts" /\ request' = request
    BY <1>2 DEF Compare, reading
  <2>2. Tallies' /\ RowsKnown'
    BY <2>1 DEF Tallies, RowsKnown, Counted, Lists
  <2> QED
    BY <1>2, <2>2, CompareMap, CompareReports, CompareSuits DEF Inv
<1>3. CASE Count /\ UNCHANGED <<compared, rows>>
  <2>1. request.asks \in Counted /\ request' = request
    BY <1>3 DEF Count, reading
  <2>2. MapKnows' /\ ClashesReported' /\ SuitKnown' /\ RowsKnown'
    BY <2>1 DEF MapKnows, ClashesReported, SuitKnown, RowsKnown, Counted, Lists
  <2> QED
    BY <1>3, <2>2, CountTallies DEF Inv
<1>4. CASE Enrich /\ UNCHANGED <<compared, statistics>>
  <2>1. request.asks \in Lists /\ request' = request
    BY <1>4 DEF Enrich, reading
  <2>2. MapKnows' /\ ClashesReported' /\ SuitKnown' /\ Tallies'
    BY <2>1 DEF MapKnows, ClashesReported, SuitKnown, Tallies, Counted, Lists
  <2> QED
    BY <1>4, <2>2, EnrichRows DEF Inv
<1>5. CASE UNCHANGED vars
  <2>1. UNCHANGED <<request, scanned, items, known, last, reports, counts, lastDay, rows>>
    BY <1>5 DEF vars, common, reading, compared, statistics
  <2>2. \A key, m : With(key, m)' = With(key, m)
    BY <2>1 DEF With, CountKey
  <2> QED
    BY <2>1, <2>2 DEF Inv, MapKnows, ClashesReported, SuitKnown, Tallies, RowsKnown, Keys, Key,
                      TooSmall, RuledOut, CountKey, RowOf
<1> QED
  BY <1>1, <1>2, <1>3, <1>4, <1>5 DEF Next, Finished

LEMMA AlwaysInv == Spec => []Inv
  BY InitInv, NextInv, PTL DEF Spec

\* The map has every key of the lessons compared so far, each with the id of one
\* of them, for every list and catalogue, whatever lookups fail.
THEOREM MapAlwaysKnows == Spec => []MapKnows
  BY AlwaysInv, PTL DEF Inv

\* Of the lessons of a timetable of any size, exactly those are reported whose
\* teacher, class or room an earlier lesson has at the same time.
THEOREM EveryClashReported == Spec => []ClashesReported
  BY AlwaysInv, PTL DEF Inv

\* Whose reports a whole answer has.
Clashing(l, k) == \E kind \in Kinds : Key(kind, l) = Key(kind, k)
AlarmIsTrue ==
  pc = "done" /\ request.asks = "conflicts" =>
    ((\E kind \in Kinds, n \in DOMAIN items : <<kind, n>> \in reports)
       <=> \E l, k \in Matching : l # k /\ Clashing(l, k))

\* The report of a timetable names a teacher, class or room if and only if two of
\* its lessons clash, whatever the order they were read in, whatever lookups fail
\* and whatever is written to the catalogue in between: an empty report is a clean
\* timetable.
THEOREM NoFalseAlarm == Spec => []AlarmIsTrue
<1>1. ASSUME Inv, pc = "done", request.asks = "conflicts"
      PROVE  (\E kind \in Kinds, n \in DOMAIN items : <<kind, n>> \in reports)
               <=> \E l, k \in Matching : l # k /\ Clashing(l, k)
  <2>1. reads = Len(Order) /\ scanned = Len(items) /\ items \in Seq(Lesson)
    BY <1>1 DEF Inv, ReadInv, Phases, TypeOK
  <2>2. items \in Listings
    <3>1. request.asks \in DOMAIN QueryOrder
      BY <1>1 DEF QueryOrder
    <3>2. \E i \in 1 .. Len(Order) : Order[i] = "lessons"
      BY <3>1, OrderFacts DEF Order
    <3> QED
      BY <1>1, <2>1, <3>2 DEF Inv, ReadInv, ItemsRead
  <2>3. /\ {items[n] : n \in DOMAIN items} = Matching
        /\ \A m, n \in DOMAIN items : m # n => items[m].id # items[n].id
    BY <1>1, <2>2, ListingFacts DEF Inv, ReadInv
  <2>4. DOMAIN items = 1 .. scanned /\ scanned \in Nat
    BY <2>1
  <2>5. \A n \in DOMAIN items, kind \in Kinds :
          <<kind, n>> \in reports <=> \E m \in 1 .. n - 1 : Key(kind, items[m]) = Key(kind, items[n])
    BY <1>1, <2>4 DEF Inv, ClashesReported
  <2>6. ASSUME NEW kind \in Kinds, NEW n \in DOMAIN items, <<kind, n>> \in reports
        PROVE  \E l, k \in Matching : l # k /\ Clashing(l, k)
    <3>1. PICK m \in 1 .. n - 1 : Key(kind, items[m]) = Key(kind, items[n])
      BY <2>5, <2>6
    <3>2. m \in DOMAIN items /\ m # n
      BY <2>4, <2>6
    <3>3. items[m] \in Matching /\ items[n] \in Matching /\ items[m] # items[n]
      BY <2>3, <2>6, <3>2
    <3> QED
      BY <3>1, <3>3 DEF Clashing
  <2>7. ASSUME NEW l \in Matching, NEW k \in Matching, l # k, Clashing(l, k)
        PROVE  \E kind \in Kinds, n \in DOMAIN items : <<kind, n>> \in reports
    <3>1. PICK kind \in Kinds : Key(kind, l) = Key(kind, k)
      BY <2>7 DEF Clashing
    <3>2. PICK m \in DOMAIN items, n \in DOMAIN items : items[m] = l /\ items[n] = k
      BY <2>3
    <3>3. m # n
      BY <2>7, <3>2
    <3>4. CASE m < n
      <4>1. m \in 1 .. n - 1
        BY <2>4, <3>4
      <4> QED
        BY <2>5, <3>1, <3>2, <4>1
    <3>5. CASE n < m
      <4>1. n \in 1 .. m - 1
        BY <2>4, <3>5
      <4> QED
        BY <2>5, <3>1, <3>2, <4>1
    <3>6. m < n \/ n < m
      <4>1. m \in 1 .. scanned /\ n \in 1 .. scanned /\ scanned \in Nat
        BY <2>4, <3>2
      <4> QED
        BY <3>3, <4>1
    <3> QED
      BY <3>4, <3>5, <3>6
  <2> QED
    BY <2>6, <2>7
<1>2. Inv => AlarmIsTrue
  BY <1>1 DEF AlarmIsTrue
<1> QED
  BY <1>2, AlwaysInv, PTL

\* Whatever is written between the lookups, small rooms and ruled-out times are
\* reported if they were so all along, and not unless they were so.
THEOREM EverySuitReported == Spec => []SuitReported
<1>1. Inv => SuitReported
  BY SuitsAreReported DEF Inv
<1> QED
  BY <1>1, AlwaysInv, PTL

\* The statistics count each lesson of the timetable once.
THEOREM EveryLessonCounted == Spec => []EachCounted
<1>1. Inv => EachCounted
  BY TalliesAreExact DEF Inv
<1> QED
  BY <1>1, AlwaysInv, PTL

\* No room of a timetable without clashes is used more than it can be, as far as
\* its slots are listed.
THEOREM UtilizationAlwaysBounded == Spec => []UtilizationBounded
<1>1. Inv => UtilizationBounded
  BY UseIsBounded DEF Inv
<1> QED
  BY <1>1, AlwaysInv, PTL

\* A list tells of each of its lessons what the tables held.
THEOREM ListsAlwaysTell == Spec => []RowsTell
<1>1. Inv => RowsTell
  BY ListsTell DEF Inv
<1> QED
  BY <1>1, AlwaysInv, PTL

===============================================================================
