---------------------------- MODULE CatalogSchema ----------------------------
(***************************************************************************)
(* The columns of the five catalogue tables, by kind, with those a create  *)
(* request must fill and the one under a unique index; the requests a      *)
(* client may send; and the order and the pages of a list.  A value is a   *)
(* number; Empty is the empty string or list, Nil an absent number or list.*)
(***************************************************************************)
EXTENDS Naturals, Sequences, FiniteSets, Functions

CONSTANTS
  Empty, Nil,   \* the blanks
  Values,       \* what a column may hold, the blanks among them
  Bodies,       \* the bodies of requests, by table
  MaxId,        \* bound: the largest id asked for
  Pages, Sizes, \* the page and page_size of lists, 0 when absent
  DefaultPageSize, MaxPageSize,
  Wrap          \* one more than the largest int

Classroom == [
  text |-> {"code", "name"}, number |-> {"capacity"}, list |-> {"equipment"},
  required |-> {"code", "name", "capacity"}, unique |-> {"code"}]

Teacher == [
  text |-> {"name", "employee_no", "contact"}, number |-> {},
  list |-> {"subjects", "unavailable_slots"},
  required |-> {"name", "employee_no"}, unique |-> {"employee_no"}]

Class == [
  text |-> {"name", "grade"}, number |-> {"student_count"}, list |-> {},
  required |-> {"name", "student_count"}, unique |-> {}]

Course == [
  text |-> {"name", "code", "room_type"}, number |-> {"duration"}, list |-> {},
  required |-> {"name", "code", "duration"}, unique |-> {"code"}]

TimeSlot == [
  text |-> {"code", "name", "start_time", "end_time"}, number |-> {}, list |-> {},
  required |-> {"code", "name", "start_time", "end_time"}, unique |-> {"code"}]

Schema == [classroom |-> Classroom, teacher |-> Teacher, class |-> Class,
           course |-> Course, timeslot |-> TimeSlot]

Columns(e) == Schema[e].text \cup Schema[e].number \cup Schema[e].list

\* What the body of a request leaves out: JSON decodes an absent text to "",
\* an absent number or list to nil.  An empty list is a value.
Blank(e, col) == IF col \in Schema[e].text THEN Empty ELSE Nil
Named(e, body) == {col \in Columns(e) : body[col] # Blank(e, col)}

Items(e) == [Columns(e) -> Values]
Tables(e) == Seq([item : Items(e), live : BOOLEAN])

ASSUME BlanksAssumption == Empty \in Values /\ Nil \in Values
ASSUME BodiesAssumption == \A e \in DOMAIN Schema : Bodies[e] \subseteq Items(e)
ASSUME IdsAssumption == MaxId \in Nat
ASSUME PagingAssumption ==
  /\ Pages \subseteq Nat /\ Sizes \subseteq Nat
  /\ DefaultPageSize \in 1 .. MaxPageSize /\ MaxPageSize \in Nat /\ Wrap \in Nat \ {0}

\* Ids the router accepts; 0 stands for a path that is no positive number.
Requests(e) ==
  [op : {"create"}, body : Bodies[e]]
    \cup [op : {"update"}, id : 0 .. MaxId, body : Bodies[e]]
    \cup [op : {"get", "delete"}, id : 0 .. MaxId]
    \cup [op : {"list"}, page : Pages, size : Sizes]

Live(table) == {i \in DOMAIN table : table[i].live}

\* Normalize: what stands for an absent parameter.
PageOf(r) == IF r.page = 0 THEN 1 ELSE r.page
SizeOf(r) == IF r.size = 0 THEN DefaultPageSize ELSE r.size

\* ORDER BY: time slots by start_time, ties in any order, the others by id.
Before(e, table, i, j) ==
  IF e = "timeslot" THEN table[i].item["start_time"] < table[j].item["start_time"] ELSE i < j
Orders(e, table) ==
  {order \in Injection(1 .. Cardinality(Live(table)), Live(table)) :
     \A m, n \in DOMAIN order : m < n => ~ Before(e, table, order[n], order[m])}

\* What a list shows of them from an offset on.
Slice(table, order, offset, size) ==
  LET last == IF offset + size < Len(order) THEN offset + size ELSE Len(order)
  IN  [n \in 1 .. (IF last < offset THEN 0 ELSE last - offset) |-> table[order[offset + n]].item]
===============================================================================
