------------------------------ MODULE PlannerInput ------------------------------
(***************************************************************************)
(* What buildPlan is given, and what its request is meant to ask of the    *)
(* catalog.                                                                *)
(*                                                                         *)
(* Ids are numbers as in the code, 0 meaning "not given".  Which teachers  *)
(* teach a course and which rooms have its equipment (comparisons of       *)
(* names) are sets; a slot stands for its id and its code.                 *)
(***************************************************************************)
EXTENDS Naturals, Sequences, FiniteSetsExt

CONSTANTS
  Requests,  \* what may be asked for
  Stores,    \* what the catalog may hold
  PageSize   \* constants.MaxPageSize

Requirement == [course : Nat, class : Nat, teacher : Nat, periods : Nat \ {0},
                consecutive : BOOLEAN]
Request == [weeks : Nat, days : Nat, periods : Nat, courses : Seq(Requirement),
            classes : Seq(Nat), teachers : Seq(Nat), rooms : Seq(Nat)]

Class == [id : Nat, students : Nat]
Teacher == [id : Nat, unavailable : SUBSET Nat, subjects : SUBSET Nat]
Room == [id : Nat, capacity : Nat, kinds : SUBSET Nat]
Course == [id : Nat, kind : Nat]
\* The catalog in the order of its lists: slots by time, the others by id.
Store == [slots : Seq(Nat), classes : Seq(Class), teachers : Seq(Teacher),
          rooms : Seq(Room), courses : Seq(Course)]

Lesson == [week : Nat, day : Nat, slot : Nat, room : Nat, teacher : Nat,
           class : Nat, course : Nat]

ASSUME RequestsAssumption == Requests \subseteq Request
ASSUME StoresAssumption == Stores \subseteq Store
ASSUME PageSizeAssumption == PageSize \in Nat

\* An id is the primary key of its table.
Keyed(table) == \A i, j \in DOMAIN table : table[i].id = table[j].id => i = j

ASSUME KeysAssumption ==
  \A s \in Stores : Keyed(s.classes) /\ Keyed(s.teachers) /\ Keyed(s.rooms) /\ Keyed(s.courses)

VARIABLES request, store  \* buildPlan writes neither

\* The first page of a table.
List(table) == SubSeq(table, 1, IF Len(table) < PageSize THEN Len(table) ELSE PageSize)

\* The ids the requirements name.
NamedClasses == {r.class : r \in Range(request.courses)} \ {0}
NamedTeachers == {r.teacher : r \in Range(request.courses)} \ {0}

KnownCourses == Range(store.courses)
CourseKnown(r) == \E c \in KnownCourses : c.id = r.course

\* Which rows are meant: those listed in the request, else those named by any
\* requirement, else those on the first page of the table.
Meant(asked, named, table) ==
  LET ids == IF asked # <<>> THEN Range(asked)
             ELSE IF named # {} THEN named
             ELSE {row.id : row \in Range(List(table))}
  IN  {row \in Range(table) : row.id \in ids}

MeantTeachers == Meant(request.teachers, NamedTeachers, store.teachers)
MeantRooms == Meant(request.rooms, {}, store.rooms)

\* A requirement is for the class it names or for all that are meant, and can be
\* met only if the teacher it names is meant.
MeantClasses(r) ==
  {c \in Meant(request.classes, NamedClasses, store.classes) : r.class \in {0, c.id}}
HasTeacher(r) == r.teacher # 0 => \E t \in MeantTeachers : t.id = r.teacher

\* A job is what one requirement needs for one class in one week.
Need(j) == request.courses[j.at]

Jobs ==
  {j \in [week : 1 .. request.weeks, at : DOMAIN request.courses, class : Range(store.classes)] :
     j.class \in MeantClasses(Need(j))}

\* In no week, day and slot may two lessons have a teacher, a class or a room in common.
SameTime(l, k) == l.week = k.week /\ l.day = k.day /\ l.slot = k.slot
Apart(l, k) ==
  SameTime(l, k) => l.teacher # k.teacher /\ l.class # k.class /\ l.room # k.room

===============================================================================
