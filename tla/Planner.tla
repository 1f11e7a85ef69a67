-------------------------------- MODULE Planner --------------------------------
(***************************************************************************)
(* buildPlan: the greedy scheduler behind Generate and the draft worker.   *)
(* It reads the catalog once and plans week by week, requirement by        *)
(* requirement, class by class; every period of a job takes the first      *)
(* position where teacher, class and some classroom are free.  Its context *)
(* may be canceled between any two of its steps.                           *)
(*                                                                         *)
(* A query that fails ends the plan as a cancellation does.                *)
(***************************************************************************)
EXTENDS PlannerInput

VARIABLES
  canceled,        \* ctx.Err() # nil
  pc,
  classes, teachers, rooms, slots,  \* what was read of the catalog
  week, next,      \* the current week, and its current requirement
  targets,         \* classes that requirement is still to be planned for
  teacher,         \* the teacher of the current job
  at,              \* the position the current period is tried at
  chosen,          \* lessons found for the current job
  occ,             \* who is taken when, this week
  cursor,          \* teacherCursor
  plan, conflicts, required  \* the result

input == <<request, store>>
loaded == <<classes, teachers, rooms, slots>>
result == <<plan, conflicts, required>>
job == <<teacher, at, chosen>>
vars == <<input, loaded, canceled, pc, week, next, targets, job, occ, cursor, result>>

NoTeacher == [id |-> 0, unavailable |-> {}, subjects |-> {}]
Nobody == [teacher |-> {}, class |-> {}, room |-> {}]

Init ==
  /\ request \in Requests /\ store \in Stores
  /\ canceled = FALSE /\ pc = "load"
  /\ classes = <<>> /\ teachers = <<>> /\ rooms = <<>> /\ slots = <<>>
  /\ week = 0 /\ next = 1 /\ targets = <<>>
  /\ teacher = NoTeacher /\ at = 1 /\ chosen = <<>>
  /\ occ = Nobody /\ cursor = 0
  /\ plan = <<>> /\ conflicts = <<>> /\ required = 0

-------------------------------------------------------------------------------
(* What is read: the first page of a table, or the rows with given ids, in *)
(* any order as that query has no ORDER BY.                                *)

GetByIDs(table, ids) ==
  LET found == {row \in Range(table) : row.id \in ids}
  IN  Injection(1 .. Cardinality(found), found)

\* The results there can be.
Resolve(table, asked, named) ==
  IF asked # <<>> THEN GetByIDs(table, Range(asked))
  ELSE IF named # {} THEN GetByIDs(table, named)
  ELSE {List(table)}

\* Mutant: a requirement for a class that was not read is taken to be for all.
TargetsOfNone(r) ==
  IF \E c \in Range(classes) : c.id = r.class
  THEN <<CHOOSE c \in Range(classes) : c.id = r.class>>
  ELSE classes

TargetClasses(r) ==
  IF r.class = 0 THEN classes
  ELSE IF \E c \in Range(classes) : c.id = r.class
  THEN <<CHOOSE c \in Range(classes) : c.id = r.class>>
  ELSE <<>>

-------------------------------------------------------------------------------
(* pickTeacher: the named one, else the first who teaches the course, else *)
(* the next in turn; none if the named one was not read.                   *)

First(indices) == {i \in indices : \A j \in indices : i <= j}

Able(r) == {i \in DOMAIN teachers : CourseKnown(r) /\ r.course \in teachers[i].subjects}

InTurn(r) == r.teacher = 0 /\ Able(r) = {}

\* Mutant: subjects are not looked at.
PickAnyone(r) ==
  IF r.teacher # 0 THEN {t \in Range(teachers) : t.id = r.teacher}
  ELSE {teachers[(cursor % Len(teachers)) + 1]}

PickTeacher(r) ==
  IF r.teacher # 0 THEN {t \in Range(teachers) : t.id = r.teacher}
  ELSE IF Able(r) # {} THEN {teachers[i] : i \in First(Able(r))}
  ELSE {teachers[(cursor % Len(teachers)) + 1]}

-------------------------------------------------------------------------------
(* buildCandidatePositions: every slot of every day or, for consecutive    *)
(* periods, every run of that length, one after the other; the runs leave  *)
(* no slot out unless there are none, when the day is too short for one.   *)

AllPositions ==
  [n \in 1 .. request.days * Len(slots) |->
     [day |-> ((n - 1) \div Len(slots)) + 1, slot |-> slots[((n - 1) % Len(slots)) + 1]]]

Runs(periods) ==
  LET perDay == (Len(slots) - periods + 1) * periods
  IN  [n \in 1 .. request.days * perDay |->
         LET k == (n - 1) % perDay
         IN  [day |-> ((n - 1) \div perDay) + 1,
              slot |-> slots[(k \div periods) + (k % periods) + 1]]]

Positions(r) ==
  IF r.consecutive /\ r.periods \in 2 .. Len(slots) THEN Runs(r.periods) ELSE AllPositions

-------------------------------------------------------------------------------
(* The current job: requirement, class and teacher.                        *)

Current == request.courses[next]
TheClass == Head(targets)
Kind(r) == (CHOOSE c \in KnownCourses : c.id = r.course).kind

Time(x) == <<week, x.day, x.slot>>
Used(p) == \E l \in Range(chosen) : l.day = p.day /\ l.slot = p.slot

Blocked(p) ==
  \/ Used(p)
  \/ <<Time(p), teacher.id>> \in occ.teacher
  \/ <<Time(p), TheClass.id>> \in occ.class
  \/ p.slot \in teacher.unavailable

\* Mutant: the capacity is not looked at.
FitsByKind(room) == Kind(Current) # 0 => Kind(Current) \in room.kinds

Fits(room) ==
  /\ TheClass.students <= room.capacity
  /\ Kind(Current) # 0 => Kind(Current) \in room.kinds
\* chooseClassroom takes the first of these; its fallback is never reached.
Suitable(p) ==
  {i \in DOMAIN rooms : <<Time(p), rooms[i].id>> \notin occ.room /\ Fits(rooms[i])}

LessonAt(p, room) ==
  [week |-> week, day |-> p.day, slot |-> p.slot, room |-> room.id,
   teacher |-> teacher.id, class |-> TheClass.id, course |-> Current.course]

Unplaceable ==
  [reason |-> "unplaced", course |-> Current.course, week |-> week, periods |-> Current.periods]
UnknownCourse ==
  [reason |-> "course not found", course |-> Current.course, week |-> week, periods |-> 0]

-------------------------------------------------------------------------------
Goto(to) == pc' = to

\* An error is returned in place of the plan.
Fail ==
  /\ Goto("failed")
  /\ UNCHANGED <<input, loaded, canceled, week, next, targets, job, occ, cursor, result>>

Load ==
  /\ pc = "load" /\ ~canceled /\ request.periods <= Len(List(store.slots))
  /\ classes' \in Resolve(store.classes, request.classes, NamedClasses)
  /\ teachers' \in Resolve(store.teachers, request.teachers, NamedTeachers)
  /\ rooms' \in Resolve(store.rooms, request.rooms, {})
  /\ slots' = SubSeq(List(store.slots), 1, request.periods)
  /\ Goto(IF classes' = <<>> \/ teachers' = <<>> \/ rooms' = <<>> THEN "failed" ELSE "week")
  /\ UNCHANGED <<input, canceled, week, next, targets, job, occ, cursor, result>>

\* periods_per_day exceeds the slots there are.
RejectRequest ==
  /\ pc = "load" /\ request.periods > Len(List(store.slots))
  /\ Fail

BeginWeek ==
  /\ pc = "week" /\ week < request.weeks /\ ~canceled
  /\ Goto("requirement")
  /\ week' = week + 1 /\ next' = 1 /\ occ' = Nobody
  /\ UNCHANGED <<input, loaded, canceled, targets, job, cursor, result>>

Return ==
  /\ pc = "week" /\ week = request.weeks
  /\ Goto("done")
  /\ UNCHANGED <<input, loaded, canceled, week, next, targets, job, occ, cursor, result>>

BeginRequirement ==
  /\ pc = "requirement" /\ next <= Len(request.courses) /\ ~canceled
  /\ Goto("class")
  /\ targets' = TargetClasses(Current)
  /\ UNCHANGED <<input, loaded, canceled, week, next, job, occ, cursor, result>>

\* onProgress is called with the lessons placed so far.
EndWeek ==
  /\ pc = "requirement" /\ next > Len(request.courses)
  /\ Goto("week")
  /\ UNCHANGED <<input, loaded, canceled, week, next, targets, job, occ, cursor, result>>

EndRequirement ==
  /\ pc = "class" /\ targets = <<>>
  /\ Goto("requirement")
  /\ next' = next + 1
  /\ UNCHANGED <<input, loaded, canceled, week, targets, job, occ, cursor, result>>

\* The context is looked at for the first of every 16 classes.
CheckDue == (Len(TargetClasses(Current)) - Len(targets)) % 16 = 0

TurnCursor == cursor' = IF InTurn(Current) THEN cursor + 1 ELSE cursor

SkipClass ==
  /\ pc = "class" /\ targets # <<>> /\ ~(canceled /\ CheckDue)
  /\ PickTeacher(Current) = {}
  /\ targets' = Tail(targets)
  /\ UNCHANGED <<input, loaded, canceled, pc, week, next, job, occ, cursor, result>>

RejectCourse ==
  /\ pc = "class" /\ targets # <<>> /\ ~(canceled /\ CheckDue)
  /\ PickTeacher(Current) # {} /\ ~CourseKnown(Current)
  /\ TurnCursor
  /\ conflicts' = Append(conflicts, UnknownCourse)
  /\ targets' = Tail(targets)
  /\ UNCHANGED <<input, loaded, canceled, pc, week, next, job, occ, plan, required>>

BeginJob ==
  /\ pc = "class" /\ targets # <<>> /\ ~(canceled /\ CheckDue)
  /\ CourseKnown(Current)
  /\ TurnCursor
  /\ teacher' \in PickTeacher(Current)
  /\ required' = required + Current.periods
  /\ at' = 1 /\ chosen' = <<>>
  /\ Goto("position")
  /\ UNCHANGED <<input, loaded, canceled, week, next, targets, occ, plan, conflicts>>

-------------------------------------------------------------------------------
(* placeGreedy.                                                            *)

Exhausted == at > Len(Positions(Current))
Position == Positions(Current)[at]

\* Mutant: the scan stays where it is.
SkipNothing ==
  /\ pc = "position" /\ ~Exhausted /\ ~canceled
  /\ Blocked(Position)
  /\ UNCHANGED vars

SkipPosition ==
  /\ pc = "position" /\ ~Exhausted /\ ~canceled
  /\ Blocked(Position)
  /\ at' = at + 1
  /\ UNCHANGED <<input, loaded, canceled, pc, week, next, targets, teacher, chosen, occ, cursor, result>>

TryPosition ==
  /\ pc = "position" /\ ~Exhausted /\ ~canceled
  /\ ~Blocked(Position)
  /\ Goto("room")
  /\ UNCHANGED <<input, loaded, canceled, week, next, targets, job, occ, cursor, result>>

\* Mutant: the scan starts anew.
NoRoomAnew ==
  /\ pc = "room" /\ (canceled \/ Suitable(Position) = {})
  /\ Goto("position")
  /\ at' = 1
  /\ UNCHANGED <<input, loaded, canceled, week, next, targets, teacher, chosen, occ, cursor, result>>

\* No classroom, or chooseClassroom gives up because the context is canceled.
NoRoom ==
  /\ pc = "room" /\ (canceled \/ Suitable(Position) = {})
  /\ Goto("position")
  /\ at' = at + 1
  /\ UNCHANGED <<input, loaded, canceled, week, next, targets, teacher, chosen, occ, cursor, result>>

\* Mutant: one period too many is looked for.
ChooseOneMore ==
  /\ pc = "room" /\ ~canceled
  /\ \E i \in First(Suitable(Position)) : chosen' = Append(chosen, LessonAt(Position, rooms[i]))
  /\ Goto(IF Len(chosen') > Current.periods THEN "commit" ELSE "position")
  /\ at' = 1
  /\ UNCHANGED <<input, loaded, canceled, week, next, targets, teacher, occ, cursor, result>>

ChooseRoom ==
  /\ pc = "room" /\ ~canceled
  /\ \E i \in First(Suitable(Position)) : chosen' = Append(chosen, LessonAt(Position, rooms[i]))
  /\ Goto(IF Len(chosen') = Current.periods THEN "commit" ELSE "position")
  /\ at' = 1
  /\ UNCHANGED <<input, loaded, canceled, week, next, targets, teacher, occ, cursor, result>>

\* Mutants: the context is not looked at after the scan; what was found for
\* the other periods is published.
UnplacedUnlooked ==
  /\ pc = "position" /\ Exhausted
  /\ conflicts' = Append(conflicts, Unplaceable)
  /\ targets' = Tail(targets)
  /\ Goto("class")
  /\ UNCHANGED <<input, loaded, canceled, week, next, job, occ, cursor, plan, required>>

UnplacedInPart ==
  /\ pc = "position" /\ Exhausted /\ ~canceled
  /\ conflicts' = Append(conflicts, Unplaceable)
  /\ plan' = plan \o chosen
  /\ targets' = Tail(targets)
  /\ Goto("class")
  /\ UNCHANGED <<input, loaded, canceled, week, next, job, occ, cursor, required>>

\* A period has no position: nothing of the job is kept.
Unplaced ==
  /\ pc = "position" /\ Exhausted /\ ~canceled
  /\ conflicts' = Append(conflicts, Unplaceable)
  /\ targets' = Tail(targets)
  /\ Goto("class")
  /\ UNCHANGED <<input, loaded, canceled, week, next, job, occ, cursor, plan, required>>

\* Mutant: the class is not marked.
CommitUnmarked ==
  /\ pc = "commit" /\ ~canceled
  /\ occ' = [occ EXCEPT !.teacher = @ \cup {<<Time(l), l.teacher>> : l \in Range(chosen)},
                        !.room = @ \cup {<<Time(l), l.room>> : l \in Range(chosen)}]
  /\ plan' = plan \o chosen
  /\ targets' = Tail(targets)
  /\ Goto("class")
  /\ UNCHANGED <<input, loaded, canceled, week, next, job, cursor, conflicts, required>>

Commit ==
  /\ pc = "commit" /\ ~canceled
  /\ occ' = [teacher |-> occ.teacher \cup {<<Time(l), l.teacher>> : l \in Range(chosen)},
             class |-> occ.class \cup {<<Time(l), l.class>> : l \in Range(chosen)},
             room |-> occ.room \cup {<<Time(l), l.room>> : l \in Range(chosen)}]
  /\ plan' = plan \o chosen
  /\ targets' = Tail(targets)
  /\ Goto("class")
  /\ UNCHANGED <<input, loaded, canceled, week, next, job, cursor, conflicts, required>>

-------------------------------------------------------------------------------
Interrupted ==
  /\ canceled
  /\ \/ pc = "load"
     \/ pc = "week" /\ week < request.weeks
     \/ pc = "requirement" /\ next <= Len(request.courses)
     \/ pc = "class" /\ targets # <<>> /\ CheckDue
     \/ pc \in {"position", "commit"}
  /\ Fail

CancelContext ==
  /\ ~canceled /\ pc \notin {"done", "failed"}
  /\ canceled' = TRUE
  /\ UNCHANGED <<input, loaded, pc, week, next, targets, job, occ, cursor, result>>

Step ==
  \/ Load \/ RejectRequest \/ BeginWeek \/ Return \/ BeginRequirement \/ EndWeek \/ EndRequirement
  \/ SkipClass \/ RejectCourse \/ BeginJob
  \/ SkipPosition \/ TryPosition \/ NoRoom \/ ChooseRoom \/ Unplaced \/ Commit
  \/ Interrupted

Finished == pc \in {"done", "failed"} /\ UNCHANGED vars

Next == Step \/ CancelContext \/ Finished

\* buildPlan runs in a goroutine that waits for nothing.
Fairness == WF_vars(Step)

Spec == Init /\ [][Next]_vars /\ Fairness

-------------------------------------------------------------------------------
(* Properties.                                                             *)

\* Types; a job has fewer lessons than periods until it is committed.
TypeOK ==
  /\ request \in Requests /\ store \in Stores
  /\ canceled \in BOOLEAN
  /\ pc \in {"load", "week", "requirement", "class", "position", "room", "commit",
            "done", "failed"}
  /\ week \in 0 .. request.weeks /\ next \in Nat \ {0}
  /\ classes \in Seq(Class) /\ teachers \in Seq(Teacher) /\ rooms \in Seq(Room)
  /\ slots \in Seq(Nat) /\ (pc \notin {"load", "failed"} => teachers # <<>>)
  /\ targets \in Seq(Class) /\ teacher \in Teacher
  /\ at \in Nat \ {0} /\ cursor \in Nat /\ required \in Nat
  /\ chosen \in Seq(Lesson) /\ plan \in Seq(Lesson)
  /\ pc \in {"class", "position", "room", "commit"} => next \in DOMAIN request.courses
  /\ pc \in {"position", "room", "commit"} => targets # <<>>
  /\ pc \in {"position", "room"} => Len(chosen) < Current.periods
  /\ pc = "commit" => Len(chosen) = Current.periods

\* In no week, day and slot does the plan hold two lessons of one teacher, of
\* one class or in one room: what a job finds for its later periods or another
\* job finds afterwards never overlaps what was found before.
NoDoubleBooking == \A i, j \in DOMAIN plan : i # j => Apart(plan[i], plan[j])

\* Every lesson is in a room large enough for its class that has what its
\* course needs, and at a time its teacher has not ruled out.
Suits(l) ==
  /\ \E room \in Range(rooms), class \in Range(classes), course \in KnownCourses :
       /\ room.id = l.room /\ class.id = l.class /\ course.id = l.course
       /\ class.students <= room.capacity
       /\ course.kind = 0 \/ course.kind \in room.kinds
  /\ \E t \in Range(teachers) : t.id = l.teacher /\ l.slot \notin t.unavailable

LessonsSuit == \A l \in Range(plan) : Suits(l)

\* Between two jobs, every period asked for is a lesson of the plan or part of
\* a reported conflict, and none is both.
Refused(reports) == UNION {{k} \X (1 .. reports[k].periods) : k \in DOMAIN reports}

Accounted ==
  pc \in {"week", "requirement", "class", "done"} =>
    required = Len(plan) + Cardinality(Refused(conflicts))

\* Every period asked for is counted once a week: each requirement for a course
\* that exists, for each class it is for, whatever became of those before it.
\* Nothing is asked for by a requirement whose teacher was not read.
\* A class and the number of a period, for each that requirement k asks for.
AskedBy(k) ==
  LET r == request.courses[k]
  IN  IF CourseKnown(r) /\ HasTeacher(r) THEN MeantClasses(r) \X (1 .. r.periods) ELSE {}

Asked == (1 .. request.weeks) \X UNION {{k} \X AskedBy(k) : k \in DOMAIN request.courses}

RequiredIsAsked == pc = "done" => required = Cardinality(Asked)

\* A job is reported as impossible only if no position was left for it: a
\* cancellation in the middle of the search is never taken for a full timetable.
FreeFor(p, lessons) ==
  LET there == {l \in lessons : Time(l) = Time(p) /\ l.week = week}
  IN  /\ p.slot \notin teacher.unavailable
      /\ \A l \in there : l.teacher # teacher.id /\ l.class # TheClass.id
      /\ \E room \in Range(rooms) : Fits(room) /\ \A l \in there : l.room # room.id

Reported(reason) ==
  Len(conflicts') > Len(conflicts) /\ conflicts'[Len(conflicts')].reason = reason

UnplacedIsReal ==
  [][Reported("unplaced") => \A p \in Range(AllPositions) :
                              ~FreeFor(p, Range(plan) \cup Range(chosen))]_vars

\* The search ends, with a plan or an error, whatever it is asked for.
PlanEnds == <>(pc \in {"done", "failed"})

\* Why: each step leaves less to do, whatever was read and whenever the context
\* is canceled: weeks first, then requirements, classes, periods and positions.
InJob == pc \in {"position", "room", "commit"}

Rank ==
  LET requirements == 2 * (Len(request.courses) + 1 - next)
      positions == 2 * (Len(Positions(Current)) + 1 - at)
  IN  << CASE pc = "load" -> request.weeks + 2
           [] pc \in {"done", "failed"} -> 0
           [] OTHER -> request.weeks + 1 - week,
         CASE pc = "requirement" -> requirements + 2
           [] pc = "class" \/ InJob -> requirements + 1
           [] OTHER -> 0,
         CASE pc = "class" -> 2 * Len(targets)
           [] InJob -> 2 * Len(targets) - 1
           [] OTHER -> 0,
         IF InJob THEN Current.periods - Len(chosen) ELSE 0,
         CASE pc = "position" -> positions
           [] pc = "room" -> positions - 1
           [] OTHER -> 0 >>

Less(a, b) == \E i \in 1 .. 5 : a[i] < b[i] /\ \A j \in 1 .. i - 1 : a[j] = b[j]

StepsRunOut ==
  [][/\ Rank \in [1 .. 5 -> Nat] /\ Rank' \in [1 .. 5 -> Nat]
     /\ IF canceled' = canceled THEN Less(Rank', Rank) ELSE Rank' = Rank]_vars

\* Consecutive periods are put in a run of slots whenever a whole run is free.
RunsOf(n) ==
  {{[day |-> day, slot |-> slots[k + o]] : o \in 0 .. n - 1} :
     day \in 1 .. request.days, k \in 1 .. Len(slots) + 1 - n}

ConsecutiveKept ==
  pc = "commit" /\ Current.consecutive
  /\ (\E run \in RunsOf(Current.periods) : \A p \in run : FreeFor(p, Range(plan))) =>
    {[day |-> l.day, slot |-> l.slot] : l \in Range(chosen)} \in RunsOf(Current.periods)

\* The plan is one that may be promised: every job of PlannerSpec is taken up in
\* its turn and placed as a whole, or reported where fewer times are free than it
\* has periods; there is none only if the request cannot be met or is canceled.
Ahead(j) ==
  \/ j.week > week
  \/ j.week = week /\ pc # "week" /\ j.at > next
  \/ j.week = week /\ j.at = next /\ pc = "requirement"
  \/ j.week = week /\ j.at = next /\ (pc = "class" \/ InJob) /\ j.class \in Range(targets)

JobsLeft == IF pc \in {"load", "done", "failed"} THEN {} ELSE {j \in Jobs : Ahead(j)}

Status ==
  CASE pc = "load" -> "reading"
    [] pc \in {"done", "failed"} -> pc
    [] OTHER -> "planning"

\* What is returned; an error takes the place of both.
Planned == IF pc = "failed" THEN {} ELSE Range(plan)
Reports == IF pc = "failed" THEN <<>> ELSE conflicts

Promised == INSTANCE PlannerSpec
  WITH left <- JobsLeft, plan <- Planned, conflicts <- Reports, status <- Status

ImplementsPlan == Promised!Spec

===============================================================================
