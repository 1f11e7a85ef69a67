-------------------------------- MODULE Reports --------------------------------
(***************************************************************************)
(* The requests that read the timetable, side by side with the requests    *)
(* that write the catalogue: reports of conflicts (Conflicts), statistics  *)
(* (Statistics), and the lists, each lesson of which is given the names of *)
(* its slot, room, teacher, class and course (enrichSchedules).            *)
(***************************************************************************)
EXTENDS Conflicts, Statistics

VARIABLE rows   \* the answer of a list

vars == <<common, compared, statistics, rows>>

Init == ReadingInit /\ ConflictsInit /\ StatisticsInit /\ rows = <<>>

Lists == {"lessons", "lesson", "plan"}

\* The rows an entity's names are taken from; a map gives blanks for none.
Of(table, id) == {row \in table : row.id = id}

\* Mutants: the teacher is looked up by the id of the class; the lessons of a
\* plan keep their ids.
RowOfAnother(l) ==
  [id |-> IF request.asks = "plan" THEN scanned + 1 ELSE l.id,
   lesson |-> l,
   of |-> [t \in Tables |-> Of(known[t], l[IF t = "teacher" THEN "class" ELSE t])]]

\* The lessons of a plan are given their numbers for ids.
Row(l) ==
  [id |-> IF request.asks = "plan" THEN scanned + 1 ELSE l.id,
   lesson |-> l,
   of |-> [t \in Tables |-> Of(known[t], l[t])]]

Enrich ==
  /\ request.asks \in Lists /\ pc = "scan" /\ scanned < Len(items)
  /\ rows' = Append(rows, Row(items[scanned + 1]))
  /\ scanned' = scanned + 1
  /\ UNCHANGED <<reading, pc>>

Finished == pc \in {"done", "failed"} /\ UNCHANGED vars

Next ==
  \/ ReadStep /\ UNCHANGED <<compared, statistics, rows>>
  \/ Compare /\ UNCHANGED <<statistics, rows>>
  \/ Count /\ UNCHANGED <<compared, rows>>
  \/ Enrich /\ UNCHANGED <<compared, statistics>>
  \/ Finished

Spec == Init /\ [][Next]_vars

-------------------------------------------------------------------------------
(* Properties.                                                             *)

Answer == [id : Nat, lesson : Lesson, of : [Tables -> SUBSET UNION {known[t] : t \in Tables}]]

\* Types; what a request does not ask for stays empty.
TypeOK ==
  /\ request \in Requests /\ was \subseteq Catalogs /\ catalog \in was
  /\ pc \in {"read", "scan", "done", "failed"} /\ reads \in 0 .. Len(Order)
  /\ items \in Seq(Lesson)
  /\ failed \subseteq Failing \cap Tables /\ DOMAIN known = Tables
  /\ \A t \in Tables : IsFiniteSet(known[t])
  /\ scanned \in 0 .. Len(items)
  /\ reports \subseteq (Kinds \cup {"capacity", "preference"}) \X (1 .. scanned)
  /\ request.asks # "conflicts" => failed = {} /\ last = <<>> /\ reports = {}
  /\ request.asks \notin Counted => counts = <<>> /\ lastDay = 0
  /\ rows \in Seq(Answer) /\ Len(rows) = IF request.asks \in Lists THEN scanned ELSE 0

\* A finished list has every lesson asked for, once and in the order of time, and
\* tells of each entity what its table held at some moment of the request: never
\* another entity's names, and blanks only where the entity was not there or, for
\* a slot, past the first page.
RowsTell ==
  pc = "done" /\ request.asks \in Lists =>
    /\ Len(rows) = Len(items)
    /\ request.asks # "plan" => {rows[n].lesson : n \in DOMAIN rows} = Matching
    /\ \A n \in DOMAIN rows :
         /\ \A m \in 1 .. n - 1 : request.asks # "plan" => ~Earlier(rows[n].lesson, rows[m].lesson)
         /\ \A t \in Tables :
              \E table \in Seen(t) : rows[n].of[t] = Of(table, rows[n].lesson[t])

===============================================================================
