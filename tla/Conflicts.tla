------------------------------- MODULE Conflicts -------------------------------
(***************************************************************************)
(* detectConflicts: the report on a timetable that CheckConflicts gives to *)
(* users, that ends every adjustment and generation, and that a draft is   *)
(* given as its conflicts.  Its entities were looked up before (Reading);  *)
(* one pass over the lessons compares each with the last one seen of its   *)
(* teacher, class and room at its time.                                    *)
(*                                                                         *)
(* A report is its type and the number of the lesson it was found at,      *)
(* which gives it its entity, its time and its place in the list.          *)
(***************************************************************************)
EXTENDS Reading

VARIABLES
  last,     \* of each key seen, the id of the last lesson with it
  reports   \* what was found

compared == <<last, reports>>

ConflictsInit == last = <<>> /\ reports = {}

\* The keys of teacherSlots, classSlots and classroomSlots, as one map.
Kinds == {"teacher", "class", "room"}
Key(kind, l) == <<kind, l.week, l.day, l.slot, l[kind]>>
Keys(l) == {Key(kind, l) : kind \in Kinds}

\* Mutant: the clash is looked up without the day.
ClashesAnyDay(l) ==
  {kind \in Kinds : \E key \in DOMAIN last :
     /\ key[1] = kind /\ key[2] = l.week /\ key[4] = l.slot /\ key[5] = l[kind]
     /\ last[key] # l.id}

Clashes(l) == {kind \in Kinds : Key(kind, l) \in DOMAIN last /\ last[Key(kind, l)] # l.id}

\* By a table of classes and one of rooms, of teachers and of slots.
TooSmall(l, classes, rooms) ==
  \E c \in classes, r \in rooms : c.id = l.class /\ r.id = l.room /\ c.students > r.capacity
RuledOut(l, teachers, slots) ==
  \E t \in teachers, s \in slots : t.id = l.teacher /\ s.id = l.slot /\ s.id \in t.unavailable

\* Mutant: the capacity must exceed the class.
FoundTight(l) ==
  Clashes(l) \cup {type \in {"capacity"} :
                    \E c \in known["class"], r \in known["room"] :
                      c.id = l.class /\ r.id = l.room /\ c.students >= r.capacity}
             \cup {type \in {"preference"} : RuledOut(l, known["teacher"], known["slot"])}

Found(l) ==
  Clashes(l) \cup {type \in {"capacity"} : TooSmall(l, known["class"], known["room"])}
             \cup {type \in {"preference"} : RuledOut(l, known["teacher"], known["slot"])}

\* Mutant: a key is dropped once it has clashed.
CompareForgetting ==
  /\ request.asks = "conflicts" /\ pc = "scan" /\ scanned < Len(items)
  /\ LET l == items[scanned + 1]
     IN  /\ reports' = reports \cup (Found(l) \X {scanned + 1})
         /\ last' = [key \in (DOMAIN last \cup Keys(l)) \ {Key(kind, l) : kind \in Clashes(l)} |->
                       IF key \in Keys(l) THEN l.id ELSE last[key]]
  /\ scanned' = scanned + 1
  /\ UNCHANGED <<reading, pc>>

\* Mutant: the reports are given the number of the lesson before.
CompareEarly ==
  /\ request.asks = "conflicts" /\ pc = "scan" /\ scanned < Len(items)
  /\ LET l == items[scanned + 1]
     IN  /\ reports' = reports \cup (Found(l) \X {scanned})
         /\ last' = [key \in DOMAIN last \cup Keys(l) |->
                       IF key \in Keys(l) THEN l.id ELSE last[key]]
  /\ scanned' = scanned + 1
  /\ UNCHANGED <<reading, pc>>

Compare ==
  /\ request.asks = "conflicts" /\ pc = "scan" /\ scanned < Len(items)
  /\ LET l == items[scanned + 1]
     IN  /\ reports' = reports \cup (Found(l) \X {scanned + 1})
         /\ last' = [key \in DOMAIN last \cup Keys(l) |->
                       IF key \in Keys(l) THEN l.id ELSE last[key]]
  /\ scanned' = scanned + 1
  /\ UNCHANGED <<reading, pc>>

-------------------------------------------------------------------------------
(* Properties.                                                             *)

\* Why one pass with one lesson per key is enough: the map has every key of the
\* lessons compared so far, each with the id of one of them.
MapKnows ==
  request.asks = "conflicts" =>
    /\ \A n \in 1 .. scanned : Keys(items[n]) \subseteq DOMAIN last
    /\ \A key \in DOMAIN last :
         \E n \in 1 .. scanned : key \in Keys(items[n]) /\ last[key] = items[n].id

\* A lesson is reported for its teacher, class or room exactly if an earlier one
\* has the same at the same time: of n lessons that share a key, n - 1 are
\* reported, each once, and nothing else is (README: conflict detection).
ClashesReported ==
  request.asks = "conflicts" =>
    \A n \in 1 .. scanned, kind \in Kinds :
      <<kind, n>> \in reports <=> \E m \in 1 .. n - 1 : Key(kind, items[m]) = Key(kind, items[n])

\* The other reports tell of tables as they were while the request ran, each at
\* a moment of its own: what is reported was so by some of them, and what was so
\* by all of them is reported, unless a lookup it needs failed.
SuitReported ==
  request.asks = "conflicts" =>
    \A n \in 1 .. scanned :
      /\ <<"capacity", n>> \in reports =>
           \E C \in Seen("class"), R \in Seen("room") : TooSmall(items[n], C, R)
      /\ <<"preference", n>> \in reports =>
           \E T \in Seen("teacher"), S \in Seen("slot") : RuledOut(items[n], T, S)
      /\ (\A C \in Seen("class"), R \in Seen("room") : TooSmall(items[n], C, R)) =>
           <<"capacity", n>> \in reports \/ failed \cap {"class", "room"} # {}
      /\ (\A T \in Seen("teacher"), S \in Seen("slot") : RuledOut(items[n], T, S)) =>
           <<"preference", n>> \in reports \/ failed \cap {"teacher", "slot"} # {}

===============================================================================
