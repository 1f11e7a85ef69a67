------------------------------ MODULE PlannerSpec ------------------------------
(***************************************************************************)
(* What a plan is to those who ask for it: one job for each week, each     *)
(* requirement and each class it is for, taken up in that order.  A job is *)
(* placed as a whole, beside all that is planned, or reported; it is       *)
(* reported as impossible only if there are fewer free times than periods. *)
(* How times, rooms and teachers are chosen among those there are is left  *)
(* open.  There is no plan only if the request cannot be met or its        *)
(* context is canceled.                                                    *)
(***************************************************************************)
EXTENDS PlannerInput

VARIABLES
  left,       \* the jobs still to be taken up
  plan,       \* the lessons that are planned
  conflicts,  \* what is reported, oldest first
  canceled, status

specVars == <<request, store, left, plan, conflicts, canceled, status>>

Days == 1 .. request.days
Slots == Range(SubSeq(List(store.slots), 1, request.periods))

\* The named teacher, else one who teaches the course, else anyone.
TeachersFor(r) ==
  LET able == {t \in MeantTeachers : CourseKnown(r) /\ r.course \in t.subjects}
  IN  IF r.teacher # 0 THEN {t \in MeantTeachers : t.id = r.teacher}
      ELSE IF able # {} THEN able
      ELSE MeantTeachers

Fitting(j) ==
  {room \in MeantRooms :
     /\ j.class.students <= room.capacity
     /\ \A c \in KnownCourses : c.id = Need(j).course => c.kind \in room.kinds \cup {0}}

Unmeetable ==
  \/ request.periods > Len(List(store.slots))
  \/ Meant(request.classes, NamedClasses, store.classes) = {}
  \/ MeantTeachers = {} \/ MeantRooms = {}

Init ==
  /\ request \in Requests /\ store \in Stores
  /\ left = {} /\ plan = {} /\ conflicts = <<>>
  /\ canceled = FALSE /\ status = "reading"

Read ==
  /\ status = "reading" /\ ~canceled /\ ~Unmeetable
  /\ status' = "planning" /\ left' = Jobs
  /\ UNCHANGED <<request, store, plan, conflicts, canceled>>

\* The classes of one requirement may be taken up in any order.
Take(j) ==
  /\ status = "planning" /\ j \in left
  /\ \A k \in left : j.week < k.week \/ (j.week = k.week /\ j.at <= k.at)
  /\ left' = left \ {j}
  /\ UNCHANGED <<request, store, canceled, status>>

\* Where a job of a teacher could still have a lesson.
FreeTimes(j, t) ==
  {x \in Days \X (Slots \ t.unavailable) :
     LET there == {l \in plan : l.week = j.week /\ l.day = x[1] /\ l.slot = x[2]}
     IN  /\ \A l \in there : l.teacher # t.id /\ l.class # j.class.id
         /\ \E room \in Fitting(j) : \A l \in there : l.room # room.id}

LessonOf(l, j, t) ==
  /\ l.week = j.week /\ l.day \in Days /\ l.slot \in Slots \ t.unavailable
  /\ l.course = Need(j).course /\ l.class = j.class.id /\ l.teacher = t.id
  /\ \E room \in Fitting(j) : room.id = l.room

Place(j) ==
  /\ Take(j) /\ CourseKnown(Need(j))
  /\ plan \subseteq plan' /\ Cardinality(plan' \ plan) = Need(j).periods
  /\ \E t \in TeachersFor(Need(j)) : \A l \in plan' \ plan : LessonOf(l, j, t)
  /\ \A l \in plan' \ plan, k \in plan' : l # k => Apart(l, k)
  /\ UNCHANGED conflicts

Report(j, reason, periods) ==
  /\ Take(j)
  /\ conflicts' = Append(conflicts, [reason |-> reason, course |-> Need(j).course,
                                     week |-> j.week, periods |-> periods])
  /\ UNCHANGED plan

Refuse(j) ==
  /\ CourseKnown(Need(j))
  /\ \E t \in TeachersFor(Need(j)) : Cardinality(FreeTimes(j, t)) < Need(j).periods
  /\ Report(j, "unplaced", Need(j).periods)

Reject(j) ==
  /\ ~CourseKnown(Need(j)) /\ HasTeacher(Need(j))
  /\ Report(j, "course not found", 0)

\* The teacher it names is not there: nothing is said of it.
Drop(j) ==
  /\ ~HasTeacher(Need(j))
  /\ Take(j) /\ UNCHANGED <<plan, conflicts>>

Finish ==
  /\ status = "planning" /\ left = {} /\ status' = "done"
  /\ UNCHANGED <<request, store, left, plan, conflicts, canceled>>

Fail ==
  /\ \/ status = "reading" /\ Unmeetable
     \/ status \in {"reading", "planning"} /\ canceled
  /\ status' = "failed" /\ left' = {} /\ plan' = {} /\ conflicts' = <<>>
  /\ UNCHANGED <<request, store, canceled>>

Cancel ==
  /\ status \in {"reading", "planning"} /\ canceled' = TRUE
  /\ UNCHANGED <<request, store, left, plan, conflicts, status>>

Next ==
  \/ Read \/ Finish \/ Fail \/ Cancel
  \/ \E j \in left : Place(j) \/ Refuse(j) \/ Reject(j) \/ Drop(j)

Spec == Init /\ [][Next]_specVars

===============================================================================
