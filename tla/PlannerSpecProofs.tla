---------------------------- MODULE PlannerSpecProofs ----------------------------
(***************************************************************************)
(* Planner implements PlannerSpec, for every request and every catalog.    *)
(***************************************************************************)
EXTENDS PlannerWorkProofs

-------------------------------------------------------------------------------
(* Both modules mean the same by what is asked for.                        *)

LEMMA SameMeaning ==
  /\ \A table : Promised!List(table) = List(table)
  /\ \A asked, named, table : Promised!Meant(asked, named, table) = Meant(asked, named, table)
  /\ Promised!MeantTeachers = MeantTeachers /\ Promised!MeantRooms = MeantRooms
  /\ Promised!NamedClasses = NamedClasses
  /\ \A r : Promised!MeantClasses(r) = MeantClasses(r)
  /\ \A r : Promised!HasTeacher(r) <=> HasTeacher(r)
  /\ Promised!KnownCourses = KnownCourses
  /\ \A r : Promised!CourseKnown(r) <=> CourseKnown(r)
  /\ \A l, k : Promised!Apart(l, k) <=> Apart(l, k)
  /\ \A j : Promised!Need(j) = Need(j)
  /\ Promised!Jobs = Jobs
  /\ \A f : Promised!Range(f) = Range(f)
  /\ \A S : Promised!Cardinality(S) = Cardinality(S)
<1>0. \A f : Promised!Range(f) = Range(f)
  BY DEF Promised!Range, Range
<1>1. \A table : Promised!List(table) = List(table)
  BY DEF Promised!List, List
<1>2. Promised!NamedClasses = NamedClasses /\ Promised!NamedTeachers = NamedTeachers
  BY <1>0 DEF Promised!NamedClasses, NamedClasses, Promised!NamedTeachers, NamedTeachers
<1>3. \A asked, named, table : Promised!Meant(asked, named, table) = Meant(asked, named, table)
  BY <1>0, <1>1 DEF Promised!Meant, Meant
<1>4. Promised!MeantTeachers = MeantTeachers /\ Promised!MeantRooms = MeantRooms
  BY <1>2, <1>3 DEF Promised!MeantTeachers, MeantTeachers, Promised!MeantRooms, MeantRooms
<1>5. \A r : Promised!MeantClasses(r) = MeantClasses(r)
  BY <1>2, <1>3 DEF Promised!MeantClasses, MeantClasses
<1>6. \A r : Promised!HasTeacher(r) <=> HasTeacher(r)
  BY <1>4 DEF Promised!HasTeacher, HasTeacher
<1>7. Promised!KnownCourses = KnownCourses
  BY <1>0 DEF Promised!KnownCourses, KnownCourses
<1>8. \A r : Promised!CourseKnown(r) <=> CourseKnown(r)
  BY <1>7 DEF Promised!CourseKnown, CourseKnown
<1>9. \A l, k : Promised!Apart(l, k) <=> Apart(l, k)
  BY DEF Promised!Apart, Apart, Promised!SameTime, SameTime
<1>10. \A j : Promised!Need(j) = Need(j)
  BY DEF Promised!Need, Need
<1>11. Promised!Jobs = Jobs
  BY <1>0, <1>5, <1>10 DEF Promised!Jobs, Jobs
<1>12. \A S : Promised!Cardinality(S) = Cardinality(S)
  BY DEF Promised!Cardinality, Cardinality
<1> QED
  BY <1>0, <1>1, <1>2, <1>3, <1>4, <1>5, <1>6, <1>7, <1>8, <1>9, <1>10, <1>11, <1>12

-------------------------------------------------------------------------------
(* The search looks at the times there are.                                *)

\* Every position is on a day of the week, at a slot that was read.
LEMMA PositionInGrid ==
  ASSUME request \in Request, slots \in Seq(Nat), NEW r \in Requirement,
         NEW i \in 1 .. Len(Positions(r))
  PROVE  Positions(r)[i].day \in 1 .. request.days /\ Positions(r)[i].slot \in Range(slots)
<1> DEFINE size == Len(slots)
           b == r.periods
           starts == size - b + 1
           perDay == starts * b
           k(n) == (n - 1) % perDay
<1>1. size \in Nat /\ request.days \in Nat /\ b \in Nat \ {0}
  BY DEF Request, Requirement
<1>2. Positions(r) \in Seq(Place)
  BY PositionsType
<1>3. \A s \in 1 .. size : slots[s] \in Range(slots)
  BY DEF Range
<1>4. ASSUME NEW d, NEW days \in Nat, d \in Nat, d < days
      PROVE  d + 1 \in 1 .. days
  BY <1>4
<1>5. CASE Positions(r) = AllPositions
  <2>1. i \in 1 .. request.days * size
        /\ Positions(r)[i] = [day |-> ((i - 1) \div size) + 1, slot |-> slots[((i - 1) % size) + 1]]
    <3>1. DOMAIN AllPositions = 1 .. request.days * size
      BY DEF AllPositions
    <3>2. i \in DOMAIN AllPositions
      BY <1>2, <1>5
    <3> QED
      BY <1>5, <3>1, <3>2 DEF AllPositions
  <2>2. size \in Nat \ {0} /\ i - 1 \in Nat /\ i - 1 < request.days * size
    <3> DEFINE total == request.days * size
    <3>1. total \in Nat /\ (size = 0 => total = 0)
      BY <1>1
    <3>2. i \in 1 .. total
      BY <2>1
    <3> HIDE DEF total, size
    <3>3. i - 1 \in Nat /\ i - 1 < total /\ size # 0
      BY <3>1, <3>2
    <3> QED
      BY <1>1, <3>3 DEF total
  <2>3. (i - 1) \div size \in Nat /\ (i - 1) \div size < request.days
    BY <1>1, <2>2, Quotient
  <2>4. (i - 1) % size \in 0 .. size - 1
    BY <2>2, DivisionType
  <2>5. ((i - 1) % size) + 1 \in 1 .. size
    <3> DEFINE m == (i - 1) % size
    <3> HIDE DEF m
    <3>1. m + 1 \in 1 .. size
      BY <1>1, <2>4 DEF m
    <3> QED
      BY <3>1 DEF m
  <2>6. ((i - 1) \div size) + 1 \in 1 .. request.days
    BY <1>1, <1>4, <2>3
  <2> QED
    BY <1>3, <2>1, <2>5, <2>6
<1>6. CASE b \in 2 .. size /\ Positions(r) = Runs(b)
  <2>1. starts \in Nat \ {0} /\ perDay \in Nat \ {0}
    <3>1. starts \in Nat \ {0}
      BY <1>1, <1>6
    <3> HIDE DEF starts, b
    <3>2. perDay \in Nat \ {0}
      BY <1>1, <3>1, ProductPositive
    <3> QED
      BY <3>1, <3>2
  <2>2. Runs(b) = [n \in 1 .. request.days * perDay |->
                     [day |-> ((n - 1) \div perDay) + 1,
                      slot |-> slots[(k(n) \div b) + (k(n) % b) + 1]]]
    BY Zenon DEF Runs
  <2>3. i \in DOMAIN Positions(r)
    BY <1>2
  <2> HIDE DEF perDay
  <2>4. i \in 1 .. request.days * perDay
        /\ Positions(r)[i] = [day |-> ((i - 1) \div perDay) + 1,
                              slot |-> slots[(k(i) \div b) + (k(i) % b) + 1]]
    <3> HIDE DEF k, b
    <3> QED
      BY <1>6, <2>2, <2>3
  <2>5. i - 1 \in Nat /\ i - 1 < request.days * perDay
    <3> DEFINE total == request.days * perDay
    <3>1. total \in Nat
      BY <1>1, <2>1
    <3> HIDE DEF total
    <3> QED
      BY <2>4, <3>1 DEF total
  <2>6. (i - 1) \div perDay \in Nat /\ (i - 1) \div perDay < request.days
    BY <1>1, <2>1, <2>5, Quotient
  <2>7. ((i - 1) \div perDay) + 1 \in 1 .. request.days
    BY <1>1, <1>4, <2>6
  <2>8. k(i) \in 0 .. perDay - 1
    BY <2>1, <2>5, DivisionType
  <2>9. k(i) \in Nat /\ k(i) < starts * b
    <3> HIDE DEF k
    <3>1. k(i) \in Nat /\ k(i) < perDay
      BY <2>1, <2>8
    <3> QED
      BY <3>1 DEF perDay
  <2>10. (k(i) \div b) + (k(i) % b) + 1 \in 1 .. starts + b - 1
    <3> HIDE DEF k, starts, b
    <3> QED
      BY <1>1, <2>1, <2>9, RunIndex
  <2>11. starts + b - 1 = size
    BY <1>1
  <2>12. slots[(k(i) \div b) + (k(i) % b) + 1] \in Range(slots)
    <3> DEFINE s == (k(i) \div b) + (k(i) % b) + 1
    <3> HIDE DEF s
    <3>1. s \in 1 .. size
      BY <2>10, <2>11 DEF s
    <3> QED
      BY <1>3, <3>1 DEF s
  <2> HIDE DEF k
  <2> QED
    BY <2>4, <2>7, <2>12
<1> QED
  BY <1>5, <1>6 DEF Positions

\* Every slot of every day is a position.
LEMMA GridPosition ==
  ASSUME request \in Request, slots \in Seq(Nat),
         NEW day \in 1 .. request.days, NEW slot \in Range(slots)
  PROVE  [day |-> day, slot |-> slot] \in Range(AllPositions)
<1> DEFINE size == Len(slots)
           p == [day |-> day, slot |-> slot]
<1>1. PICK s \in 1 .. size : slot = slots[s]
  BY DEF Range
<1> DEFINE d == day - 1
           m == s - 1
           n == d * size + m + 1
<1>2. size \in Nat \ {0} /\ request.days \in Nat
  BY <1>1 DEF Request
<1>3. d \in 0 .. request.days - 1 /\ d \in Nat /\ m \in 0 .. size - 1 /\ d + 1 = day /\ m + 1 = s
  BY <1>1, <1>2
<1> HIDE DEF d, m
<1>4. d * size + m \in 0 .. request.days * size - 1
  BY <1>2, <1>3, InGrid
<1>5. (d * size + m) \div size = d /\ (d * size + m) % size = m
  BY <1>2, <1>3, DivisionIs
<1> DEFINE x == d * size + m
           all == request.days * size
<1>6. n = x + 1 /\ x \in 0 .. all - 1 /\ x \div size = d /\ x % size = m
  BY <1>4, <1>5
<1>7. all \in Nat
  BY <1>2
<1>8. AllPositions = [i \in 1 .. all |->
                        [day |-> ((i - 1) \div size) + 1, slot |-> slots[((i - 1) % size) + 1]]]
  BY DEF AllPositions
<1> HIDE DEF x, all, n, size
<1>9. n \in 1 .. all /\ n - 1 = x
  BY <1>6, <1>7
<1>10. AllPositions[n] = p
  BY <1>1, <1>3, <1>6, <1>8, <1>9
<1>11. n \in DOMAIN AllPositions
  BY <1>8, <1>9
<1> QED
  BY <1>10, <1>11 DEF Range

-------------------------------------------------------------------------------
(* The current job.                                                        *)

LessonHere(l) ==
  /\ l.day \in 1 .. request.days /\ l.slot \in Range(slots) \ teacher.unavailable
  /\ l.course = Current.course
  /\ \E room \in Range(rooms) : room.id = l.room /\ Fits(room)

\* Why: its teacher is one it may have, and what was found for it is such lessons.
JobInv ==
  InJob => /\ teacher \in Promised!TeachersFor(Current)
           /\ \A i \in DOMAIN chosen : LessonHere(chosen[i])

\* pickTeacher picks the named teacher, one who teaches the course, or anyone if
\* nobody does.
LEMMA PickedMayTeach ==
  ASSUME Inv, Loaded, pc \notin {"load", "failed"}, NEW r, NEW t \in PickTeacher(r)
  PROVE  t \in Promised!TeachersFor(r)
<1> DEFINE able == {x \in MeantTeachers : CourseKnown(r) /\ r.course \in x.subjects}
<1>1. Range(teachers) = MeantTeachers
  BY DEF Loaded
<1>2. t \in Range(teachers)
  BY TeacherRead DEF Inv, TypeOK
<1>3. Promised!TeachersFor(r) = IF r.teacher # 0 THEN {x \in MeantTeachers : x.id = r.teacher}
                                ELSE IF able # {} THEN able ELSE MeantTeachers
  BY SameMeaning DEF Promised!TeachersFor
<1>4. able # {} => Able(r) # {}
  BY <1>1 DEF Able, Range
<1>5. CASE r.teacher # 0
  BY <1>1, <1>3, <1>5 DEF PickTeacher
<1>6. CASE r.teacher = 0 /\ Able(r) # {}
  <2>1. PICK i \in Able(r) : t = teachers[i]
    BY <1>6 DEF PickTeacher, First
  <2>2. t \in able
    BY <1>1, <1>2, <2>1 DEF Able
  <2> QED
    BY <1>3, <1>6, <2>2
<1>7. CASE r.teacher = 0 /\ Able(r) = {}
  BY <1>1, <1>2, <1>3, <1>4, <1>7
<1> QED
  BY <1>5, <1>6, <1>7

\* A lesson that is found for the job is one it may have.
LEMMA FoundHere ==
  ASSUME Inv, pc = "room", NEW i \in Suitable(Position)
  PROVE  LessonHere(LessonAt(Position, rooms[i]))
<1> DEFINE l == LessonAt(Position, rooms[i])
<1>1. request \in Request /\ slots \in Seq(Nat) /\ Current \in Requirement
  BY InputType, CurrentType DEF Inv, TypeOK
<1>2. at \in 1 .. Len(Positions(Current))
  <2>1. Len(Positions(Current)) \in Nat
    BY <1>1, PositionsType
  <2> QED
    BY <2>1 DEF Inv, TypeOK, ChosenFits, Exhausted
<1>3. Position.day \in 1 .. request.days /\ Position.slot \in Range(slots)
  BY <1>1, <1>2, PositionInGrid DEF Position
<1>4. Position.slot \notin teacher.unavailable
  BY DEF Inv, ChosenFits, Blocked
<1>5. rooms[i] \in Range(rooms) /\ Fits(rooms[i])
  BY DEF Suitable, Range
<1>6. /\ l.day = Position.day /\ l.slot = Position.slot /\ l.course = Current.course
      /\ l.room = rooms[i].id
  BY DEF LessonAt
<1> HIDE DEF l
<1>7. LessonHere(l)
  BY <1>3, <1>4, <1>5, <1>6 DEF LessonHere
<1> QED
  BY <1>7 DEF l

\* The current job stays what it is.
LEMMA NextJob ==
  ASSUME Inv, Loaded, JobInv, [Next]_vars
  PROVE  JobInv'
<1>t. TypeOK
  BY DEF Inv
<1> USE DEF Goto, input, loaded, job, result
<1>1. CASE ~InJob'
  BY <1>1 DEF JobInv
<1> DEFINE Same == UNCHANGED <<request, store, rooms, slots, next, targets>>
<1>s. ASSUME Same
      PROVE  Promised!TeachersFor(Current)' = Promised!TeachersFor(Current)
  BY <1>s DEF Current, Promised!TeachersFor, Promised!MeantTeachers, Promised!Meant, Promised!CourseKnown,
     Promised!KnownCourses, Promised!NamedTeachers, Promised!List
<1>l. ASSUME Same, teacher' = teacher, NEW l
      PROVE  LessonHere(l)' <=> LessonHere(l)
  BY <1>l DEF LessonHere, Fits, Kind, KnownCourses, TheClass, Current
<1>2. CASE Load \/ RejectRequest \/ BeginWeek \/ Return \/ BeginRequirement \/ EndWeek
           \/ EndRequirement \/ SkipClass \/ RejectCourse \/ Unplaced \/ Commit \/ Interrupted
  BY <1>1, <1>2 DEF Load, RejectRequest, BeginWeek, Return, BeginRequirement, EndWeek,
                    EndRequirement, SkipClass, RejectCourse, Unplaced, Commit, Interrupted, Fail, InJob
<1>3. CASE BeginJob
  <2>1. /\ pc = "class" /\ Same /\ chosen' = <<>> /\ teacher' \in PickTeacher(Current)
    BY <1>3 DEF BeginJob
  <2>2. teacher' \in Promised!TeachersFor(Current)
    BY <2>1, PickedMayTeach
  <2> HIDE DEF Same
  <2>3. teacher' \in Promised!TeachersFor(Current)'
    BY <1>s, <2>1, <2>2
  <2> QED
    BY <2>1, <2>3 DEF JobInv
<1>4. CASE ChooseRoom
  <2>1. Same /\ teacher' = teacher /\ pc = "room"
    BY <1>4 DEF ChooseRoom
  <2>2. PICK i \in First(Suitable(Position)) :
          chosen' = Append(chosen, LessonAt(Position, rooms[i]))
    BY <1>4 DEF ChooseRoom
  <2>3. LessonHere(LessonAt(Position, rooms[i]))
    BY <2>1, <2>2, FoundHere DEF First
  <2>4. /\ DOMAIN chosen' = DOMAIN chosen \cup {Len(chosen) + 1}
        /\ \A k \in DOMAIN chosen : chosen'[k] = chosen[k]
        /\ chosen'[Len(chosen) + 1] = LessonAt(Position, rooms[i])
    BY <1>t, <2>2 DEF TypeOK
  <2>5. \A k \in DOMAIN chosen' : LessonHere(chosen'[k])
    BY <2>1, <2>3, <2>4 DEF JobInv, InJob
  <2> HIDE DEF Same
  <2>6. \A k \in DOMAIN chosen' : LessonHere(chosen[k])'
    <3> SUFFICES ASSUME NEW k \in DOMAIN chosen'
                 PROVE  LessonHere(chosen[k])'
      OBVIOUS
    <3>1. LessonHere(chosen'[k])
      BY <2>5
    <3> QED
      BY <2>1, <3>1 DEF LessonHere, Fits, Kind, KnownCourses, TheClass, Current, Same
  <2> QED
    BY <1>s, <2>1, <2>6 DEF JobInv, InJob
<1>5. CASE SkipPosition \/ TryPosition \/ NoRoom \/ CancelContext \/ Finished \/ UNCHANGED vars
  <2>1. Same /\ teacher' = teacher /\ chosen' = chosen /\ (InJob' => InJob)
    BY <1>5 DEF SkipPosition, TryPosition, NoRoom, CancelContext, Finished, vars, InJob
  <2> HIDE DEF Same
  <2> QED
    BY <1>s, <2>1 DEF JobInv, LessonHere, Fits, Kind, KnownCourses, TheClass, Current, Same
<1> QED
  BY <1>2, <1>3, <1>4, <1>5 DEF Next, Step

-------------------------------------------------------------------------------
(* A job is taken up in its turn.                                          *)

TheJob == [week |-> week, at |-> next, class |-> TheClass]

LEMMA SameJobs ==
  ASSUME UNCHANGED <<request, store>>
  PROVE  Jobs' = Jobs
BY DEF Jobs, MeantClasses, Meant, NamedClasses, Need

\* The class whose turn it is has a job for the current requirement.
LEMMA TheJobIs ==
  ASSUME Inv, WorkInv, pc = "class" \/ InJob, targets # <<>>
  PROVE  /\ TheJob \in Jobs /\ Need(TheJob) = Current
         /\ TheJob.week = week /\ TheJob.at = next /\ TheJob.class = TheClass
<1>1. /\ request.weeks \in Nat /\ week \in 1 .. request.weeks
      /\ next \in DOMAIN request.courses /\ targets \in Seq(Class)
  BY InputType DEF Inv, TypeOK, Request, WorkInv, InJob
<1>2. IsInjective(targets) /\ Range(targets) \subseteq MeantClasses(Current)
  BY DEF WorkInv, Awaited
<1>3. TheClass \in MeantClasses(Current) /\ TheClass \in Range(store.classes)
  BY <1>1, <1>2, HeadOnce DEF TheClass, MeantClasses, Meant
<1>4. /\ TheJob.week = week /\ TheJob.at = next /\ TheJob.class = TheClass
      /\ TheJob \in [week : 1 .. request.weeks, at : DOMAIN request.courses, class : Range(store.classes)]
  BY <1>1, <1>3 DEF TheJob
<1>5. Need(TheJob) = Current
  BY <1>4 DEF Need, Current
<1> QED
  BY <1>3, <1>4, <1>5 DEF Jobs

\* With its last step the job leaves those ahead, and none of them was before it.
LEMMA TakesHead ==
  ASSUME Inv, WorkInv, pc = "class" \/ InJob, targets # <<>>, pc' = "class",
         targets' = Tail(targets), UNCHANGED <<request, store, canceled, week, next>>
  PROVE  TheJob \in JobsLeft /\ Promised!Take(TheJob)
<1>1. /\ IsInjective(targets) /\ targets \in Seq(Class)
      /\ week \in Nat /\ next \in Nat
  BY InputType DEF WorkInv, Awaited, Inv, TypeOK, Request
<1>2. /\ TheClass \in Range(targets) /\ TheClass \notin Range(Tail(targets))
      /\ \A c : c \in Range(targets) <=> c = TheClass \/ c \in Range(Tail(targets))
  BY <1>1, HeadOnce DEF TheClass
<1>3. /\ TheJob \in Jobs
      /\ TheJob.week = week /\ TheJob.at = next /\ TheJob.class = TheClass
  BY TheJobIs
<1>4. /\ pc \notin {"load", "week", "requirement", "done", "failed"}
      /\ JobsLeft = {j \in Jobs : Ahead(j)} /\ JobsLeft' = {j \in Jobs : Ahead(j)'}
  BY SameJobs DEF JobsLeft, InJob
<1>5. \A j : Ahead(j) <=> \/ j.week > week
                          \/ j.week = week /\ j.at > next
                          \/ j.week = week /\ j.at = next /\ j.class \in Range(targets)
  BY <1>4 DEF Ahead
<1>6. \A j : Ahead(j)' <=> \/ j.week > week
                           \/ j.week = week /\ j.at > next
                           \/ j.week = week /\ j.at = next /\ j.class \in Range(Tail(targets))
  BY DEF Ahead, InJob
<1>7. ASSUME NEW j \in Jobs
      PROVE  /\ j.week \in Nat /\ j.at \in Nat
             /\ j = TheJob <=> j.week = week /\ j.at = next /\ j.class = TheClass
  <2>1. request.weeks \in Nat /\ request.courses \in Seq(Requirement)
    BY InputType DEF Inv, TypeOK, Request
  <2>2. j \in [week : 1 .. request.weeks, at : DOMAIN request.courses, class : Range(store.classes)]
    BY DEF Jobs
  <2>3. j = [week |-> j.week, at |-> j.at, class |-> j.class]
    BY <2>2
  <2> QED
    BY <2>1, <2>2, <2>3 DEF TheJob
<1>8. TheJob \in JobsLeft
  BY <1>2, <1>3, <1>4, <1>5
<1>9. JobsLeft' = JobsLeft \ {TheJob}
  <2> SUFFICES ASSUME NEW j \in Jobs
               PROVE  Ahead(j)' <=> Ahead(j) /\ j # TheJob
    BY <1>4
  <2>1. j.week \in Nat /\ j.at \in Nat
    BY <1>7
  <2> QED
    BY <1>1, <1>2, <1>5, <1>6, <1>7, <2>1
<1>10. \A k \in JobsLeft : TheJob.week < k.week \/ (TheJob.week = k.week /\ TheJob.at <= k.at)
  <2> SUFFICES ASSUME NEW k \in Jobs, Ahead(k)
               PROVE  week < k.week \/ (week = k.week /\ next <= k.at)
    BY <1>3, <1>4
  <2>1. k.week \in Nat /\ k.at \in Nat
    BY <1>7
  <2> QED
    BY <1>1, <1>5, <2>1
<1>11. Status = "planning" /\ Status' = "planning"
  BY <1>4 DEF Status
<1> QED
  BY <1>8, <1>9, <1>10, <1>11 DEF Promised!Take

-------------------------------------------------------------------------------
(* What becomes of a job.                                                  *)

\* A suitable room fits the job, and only such a one.
LEMMA FitsIsFitting ==
  ASSUME Inv, WorkInv, pc = "class" \/ InJob, targets # <<>>, CourseKnown(Current)
  PROVE  Promised!Fitting(TheJob) = {room \in Range(rooms) : Fits(room)}
<1> DEFINE course == CHOOSE c \in KnownCourses : c.id = Current.course
<1>1. course \in KnownCourses /\ course.id = Current.course
  BY DEF CourseKnown
<1>2. ASSUME NEW c \in KnownCourses, c.id = Current.course
      PROVE  c = course
  <2>1. Keyed(store.courses) /\ store.courses \in Seq(Course)
    BY InputType, KeysAssumption DEF Inv, TypeOK, Store
  <2> HIDE DEF course
  <2>2. PICK i \in DOMAIN store.courses : c = store.courses[i]
    BY DEF KnownCourses, Range
  <2>3. PICK k \in DOMAIN store.courses : course = store.courses[k]
    BY <1>1 DEF KnownCourses, Range
  <2> QED
    BY <1>1, <1>2, <2>1, <2>2, <2>3 DEF Keyed
<1>3. Kind(Current) = course.kind
  BY DEF Kind
<1>4. Range(rooms) = MeantRooms
  BY DEF WorkInv, Loaded, InJob
<1>5. Need(TheJob) = Current /\ TheJob.class = TheClass
  BY TheJobIs
<1> HIDE DEF course
<1>6. Promised!Fitting(TheJob) =
        {room \in MeantRooms :
           /\ TheClass.students <= room.capacity
           /\ \A c \in KnownCourses : c.id = Current.course => c.kind \in room.kinds \cup {0}}
  BY <1>5, SameMeaning DEF Promised!Fitting
<1>7. ASSUME NEW room
      PROVE  (\A c \in KnownCourses : c.id = Current.course => c.kind \in room.kinds \cup {0})
               <=> (Kind(Current) # 0 => Kind(Current) \in room.kinds)
  BY <1>1, <1>2, <1>3
<1> QED
  BY <1>4, <1>6, <1>7 DEF Fits

\* A class without a teacher is dropped.
LEMMA SkipIsDrop ==
  ASSUME Inv, WorkInv, SkipClass
  PROVE  Promised!Next
<1>1. /\ pc = "class" /\ pc' = "class" /\ targets # <<>> /\ targets' = Tail(targets)
      /\ UNCHANGED <<request, store, canceled, week, next, plan, conflicts>>
      /\ PickTeacher(Current) = {}
  BY DEF SkipClass, input, result
<1>2. TheJob \in JobsLeft /\ Promised!Take(TheJob)
  BY <1>1, TakesHead
<1>3. Need(TheJob) = Current
  BY <1>1, TheJobIs
<1>4. ~HasTeacher(Current)
  BY <1>1, PickedIfMeant DEF WorkInv
<1>5. ~Promised!HasTeacher(Promised!Need(TheJob))
  BY <1>3, <1>4, SameMeaning
<1>6. Planned' = Planned /\ Reports' = Reports
  BY <1>1 DEF Planned, Reports
<1>7. Promised!Drop(TheJob)
  BY <1>2, <1>5, <1>6 DEF Promised!Drop
<1> QED
  BY <1>2, <1>7 DEF Promised!Next

\* A class whose course does not exist is reported.
LEMMA RejectIsReject ==
  ASSUME Inv, WorkInv, RejectCourse
  PROVE  Promised!Next
<1>1. /\ pc = "class" /\ pc' = "class" /\ targets # <<>> /\ targets' = Tail(targets)
      /\ UNCHANGED <<request, store, canceled, week, next, plan>>
      /\ PickTeacher(Current) # {} /\ ~CourseKnown(Current)
      /\ conflicts' = Append(conflicts, UnknownCourse)
  BY DEF RejectCourse, input, result
<1>2. TheJob \in JobsLeft /\ Promised!Take(TheJob)
  BY <1>1, TakesHead
<1>3. Need(TheJob) = Current /\ TheJob.week = week
  BY <1>1, TheJobIs
<1>4. HasTeacher(Current)
  BY <1>1, PickedIfMeant DEF WorkInv
<1>5. /\ Promised!HasTeacher(Promised!Need(TheJob)) /\ ~Promised!CourseKnown(Promised!Need(TheJob))
      /\ Promised!Need(TheJob) = Current
  BY <1>1, <1>3, <1>4, SameMeaning
<1>6. Planned' = Planned /\ Reports' = Append(Reports, UnknownCourse)
  BY <1>1 DEF Planned, Reports
<1>7. Promised!Reject(TheJob)
  BY <1>2, <1>3, <1>5, <1>6 DEF Promised!Reject, Promised!Report, UnknownCourse
<1> QED
  BY <1>2, <1>7 DEF Promised!Next

\* A sequence has no more elements than places, and as many if they differ.
LEMMA CountRange ==
  ASSUME NEW S, NEW seq \in Seq(S)
  PROVE  /\ IsFiniteSet(Range(seq)) /\ Cardinality(Range(seq)) <= Len(seq)
         /\ Cardinality(Range(seq)) \in Nat
         /\ IsInjective(seq) => Cardinality(Range(seq)) = Len(seq)
<1> DEFINE n == Len(seq)
<1>1. n \in Nat /\ DOMAIN seq = 1 .. n
  OBVIOUS
<1>2. IsFiniteSet(1 .. n) /\ Cardinality(1 .. n) = n
  BY <1>1, CountPeriods
<1>3. seq \in Surjection(1 .. n, Range(seq))
  BY <1>1 DEF Surjection, Range
<1>4. IsInjective(seq) => seq \in Injection(1 .. n, Range(seq))
  BY <1>1, <1>3 DEF Surjection, Injection
<1> HIDE DEF n
<1>5. /\ IsFiniteSet(Range(seq)) /\ Cardinality(Range(seq)) <= Cardinality(1 .. n)
      /\ Cardinality(Range(seq)) = Cardinality(1 .. n) <=> seq \in Injection(1 .. n, Range(seq))
  BY <1>2, <1>3, FS_Surjection
<1>6. Cardinality(Range(seq)) \in Nat
  BY <1>5, FS_CardinalityType
<1> QED
  BY <1>2, <1>4, <1>5, <1>6 DEF n

\* What is planned, and what is reported, while there is no error.
LEMMA ResultsAre ==
  ASSUME pc # "failed"
  PROVE  Planned = Range(plan) /\ Reports = conflicts
BY DEF Planned, Reports

\* Where a job was given up, the free times are among those already chosen.
LEMMA FreeIsChosen ==
  ASSUME Inv, WorkInv, SearchInv, SuitInv, Unplaced
  PROVE  Promised!FreeTimes(TheJob, teacher) \subseteq {<<l.day, l.slot>> : l \in Range(chosen)}
<1>1. pc = "position" /\ InJob /\ targets # <<>>
  BY DEF Unplaced, InJob, Inv, TypeOK
<1>2. CourseKnown(Current)
  BY <1>1 DEF SuitInv, JobKnown
<1>3. Promised!Fitting(TheJob) = {room \in Range(rooms) : Fits(room)}
  BY <1>1, <1>2, FitsIsFitting
<1>4. TheJob.week = week /\ TheJob.class = TheClass
  BY <1>1, TheJobIs
<1>5. request \in Request /\ slots \in Seq(Nat) /\ Range(slots) = Promised!Slots
  <2>1. slots = SubSeq(List(store.slots), 1, request.periods)
    BY <1>1 DEF WorkInv, Loaded
  <2>2. Range(slots) = Promised!Slots
    BY <2>1, SameMeaning DEF Promised!Slots
  <2> QED
    BY <2>2, InputType DEF Inv, TypeOK
<1>6. Planned = Range(plan)
  BY <1>1, ResultsAre
<1> SUFFICES ASSUME NEW x \in Promised!FreeTimes(TheJob, teacher)
             PROVE  \E l \in Range(chosen) : x = <<l.day, l.slot>>
  OBVIOUS
<1> DEFINE planned == {l \in Range(plan) : l.week = week /\ l.day = x[1] /\ l.slot = x[2]}
           p == [day |-> x[1], slot |-> x[2]]
           there == {l \in Range(plan) \cup Range(chosen) : Time(l) = Time(p) /\ l.week = week}
<1>7. /\ x[1] \in 1 .. request.days /\ x[2] \in Range(slots) /\ x[2] \notin teacher.unavailable
      /\ x = <<x[1], x[2]>>
      /\ \A l \in planned : l.teacher # teacher.id /\ l.class # TheClass.id
      /\ \E room \in Promised!Fitting(TheJob) : \A l \in planned : l.room # room.id
  BY <1>4, <1>5, <1>6 DEF Promised!FreeTimes, Promised!Days
<1>8. p \in Range(AllPositions)
  BY <1>5, <1>7, GridPosition
<1>9. ~FreeFor(p, Range(plan) \cup Range(chosen))
  BY <1>8, UnplacedMeans
<1>10. CASE \E l \in Range(chosen) : l.day = x[1] /\ l.slot = x[2]
  BY <1>7, <1>10
<1>11. CASE ~\E l \in Range(chosen) : l.day = x[1] /\ l.slot = x[2]
  <2>1. there = planned
    BY <1>11 DEF Time
  <2>2. FreeFor(p, Range(plan) \cup Range(chosen))
    BY <1>3, <1>7, <2>1 DEF FreeFor
  <2> QED
    BY <1>9, <2>2
<1> QED
  BY <1>10, <1>11

\* A job that is given up is one that has fewer free times than periods.
LEMMA UnplacedIsRefuse ==
  ASSUME Inv, WorkInv, SearchInv, SuitInv, JobInv, Unplaced
  PROVE  Promised!Next
<1>1. /\ pc = "position" /\ pc' = "class" /\ InJob /\ targets' = Tail(targets)
      /\ UNCHANGED <<request, store, canceled, week, next, plan>>
      /\ conflicts' = Append(conflicts, Unplaceable)
  BY DEF Unplaced, Goto, InJob, input
<1>2. targets # <<>> /\ chosen \in Seq(Lesson) /\ Len(chosen) < Current.periods
  BY <1>1 DEF Inv, TypeOK
<1>3. TheJob \in JobsLeft /\ Promised!Take(TheJob)
  BY <1>1, <1>2, TakesHead
<1>4. Need(TheJob) = Current /\ TheJob.week = week
  BY <1>1, <1>2, TheJobIs
<1>5. CourseKnown(Current)
  BY <1>1 DEF SuitInv, JobKnown
<1>6. Cardinality(Promised!FreeTimes(TheJob, teacher)) < Current.periods
  <2> DEFINE time == [i \in DOMAIN chosen |-> <<chosen[i].day, chosen[i].slot>>]
             free == Promised!FreeTimes(TheJob, teacher)
  <2>1. Len(chosen) \in Nat /\ Current.periods \in Nat
    <3>1. Current \in Requirement
      BY <1>1, InputType, CurrentType DEF Inv, TypeOK
    <3> QED
      BY <1>2, <3>1 DEF Requirement
  <2>2. time \in Seq(Nat \X Nat) /\ Len(time) = Len(chosen)
    <3>1. \A i \in DOMAIN chosen : chosen[i].day \in Nat /\ chosen[i].slot \in Nat
      <4>1. \A i \in DOMAIN chosen : chosen[i] \in Lesson
        BY <1>2
      <4> QED
        BY <4>1 DEF Lesson
    <3>2. DOMAIN chosen = 1 .. Len(chosen)
      BY <1>2
    <3>3. time \in [1 .. Len(chosen) -> Nat \X Nat]
      BY <3>1, <3>2
    <3> QED
      BY <2>1, <3>3
  <2>3. free \subseteq Range(time)
    <3>1. Range(time) = {<<l.day, l.slot>> : l \in Range(chosen)}
      BY DEF Range
    <3> QED
      BY <3>1, FreeIsChosen
  <2> HIDE DEF time, free
  <2>4. IsFiniteSet(Range(time)) /\ Cardinality(Range(time)) <= Len(chosen)
        /\ Cardinality(Range(time)) \in Nat
    BY <2>2, CountRange
  <2>5. Cardinality(free) <= Cardinality(Range(time)) /\ Cardinality(free) \in Nat
    BY <2>3, <2>4, FS_Subset, FS_CardinalityType
  <2>6. Cardinality(free) < Current.periods
    BY <1>2, <2>1, <2>4, <2>5
  <2> QED
    BY <2>6 DEF free
<1>7. teacher \in Promised!TeachersFor(Current)
  BY <1>1 DEF JobInv
<1>8. /\ Promised!Need(TheJob) = Current /\ Promised!CourseKnown(Promised!Need(TheJob))
      /\ Promised!Cardinality(Promised!FreeTimes(TheJob, teacher)) < Current.periods
  BY <1>4, <1>5, <1>6, SameMeaning
<1>9. Planned' = Planned /\ Reports' = Append(Reports, Unplaceable)
  BY <1>1 DEF Planned, Reports
<1>10. Promised!Refuse(TheJob)
  BY <1>3, <1>4, <1>7, <1>8, <1>9 DEF Promised!Refuse, Promised!Report, Unplaceable
<1> QED
  BY <1>3, <1>10 DEF Promised!Next

\* What a job found becomes part of the plan as a whole, beside what is planned.
LEMMA CommitIsPlace ==
  ASSUME Inv, Inv', WorkInv, SuitInv, JobInv, Commit
  PROVE  Promised!Next
<1>1. /\ pc = "commit" /\ pc' = "class" /\ InJob /\ targets' = Tail(targets)
      /\ UNCHANGED <<request, store, canceled, week, next, conflicts>>
      /\ plan' = plan \o chosen
  BY DEF Commit, Goto, InJob, input
<1>2. /\ targets # <<>> /\ plan \in Seq(Lesson) /\ chosen \in Seq(Lesson)
      /\ Len(chosen) = Current.periods
  BY <1>1 DEF Inv, TypeOK
<1>3. TheJob \in JobsLeft /\ Promised!Take(TheJob)
  BY <1>1, <1>2, TakesHead
<1>4. Need(TheJob) = Current /\ TheJob.week = week /\ TheJob.class = TheClass
  BY <1>1, <1>2, TheJobIs
<1>5. CourseKnown(Current)
  BY <1>1 DEF SuitInv, JobKnown
<1>6. Planned = Range(plan) /\ Planned' = Range(plan') /\ Reports' = Reports
  BY <1>1 DEF Planned, Reports
<1>7. /\ \A i \in DOMAIN plan : i \in DOMAIN plan' /\ plan'[i] = plan[i]
      /\ \A i \in DOMAIN chosen : /\ Len(plan) + i \in DOMAIN plan' /\ plan'[Len(plan) + i] = chosen[i]
                                  /\ Len(plan) + i \notin DOMAIN plan
      /\ \A n \in DOMAIN plan' : n \in DOMAIN plan \/ (\E i \in DOMAIN chosen : plan'[n] = chosen[i])
  <2>1. Len(plan) \in Nat /\ Len(chosen) \in Nat
    BY <1>2
  <2>2. /\ DOMAIN plan = 1 .. Len(plan) /\ DOMAIN chosen = 1 .. Len(chosen)
        /\ DOMAIN plan' = 1 .. Len(plan) + Len(chosen)
    BY <1>1, <1>2
  <2>3. \A i \in DOMAIN plan : i \in DOMAIN plan' /\ plan'[i] = plan[i]
    BY <1>1, <1>2
  <2>4. \A i \in DOMAIN chosen : plan'[Len(plan) + i] = chosen[i]
    BY <1>1, <1>2
  <2>5. \A i \in DOMAIN chosen : Len(plan) + i \in DOMAIN plan' /\ Len(plan) + i \notin DOMAIN plan
    BY <2>1, <2>2
  <2>6. \A n \in DOMAIN plan' : n \in DOMAIN plan \/ plan'[n] = chosen[n - Len(plan)]
    BY <1>1, <1>2
  <2>7. \A n \in DOMAIN plan' : n \in DOMAIN plan \/ n - Len(plan) \in DOMAIN chosen
    BY <2>1, <2>2
  <2> QED
    BY <2>3, <2>4, <2>5, <2>6, <2>7
<1>8. \A i, k \in DOMAIN plan' : i # k => Apart(plan'[i], plan'[k])
  BY DEF Inv, NoDoubleBooking, Apart, SameTime
<1>9. \A l : ~Apart(l, l)
  BY DEF Apart, SameTime
<1>10. Range(plan') = Range(plan) \cup Range(chosen)
  <2>1. Range(plan') \subseteq Range(plan) \cup Range(chosen)
    BY <1>7 DEF Range
  <2>2. Range(plan) \subseteq Range(plan')
    BY <1>7 DEF Range
  <2>3. Range(chosen) \subseteq Range(plan')
    BY <1>7 DEF Range
  <2> QED
    BY <2>1, <2>2, <2>3
<1>11. Range(chosen) \cap Range(plan) = {}
  <2> SUFFICES ASSUME NEW i \in DOMAIN chosen, NEW k \in DOMAIN plan, chosen[i] = plan[k]
               PROVE  FALSE
    BY DEF Range
  <2>1. Apart(plan'[Len(plan) + i], plan'[k])
    BY <1>7, <1>8
  <2> QED
    BY <1>7, <1>9, <2>1
<1>12. Planned' \ Planned = Range(chosen) /\ Planned \subseteq Planned'
  BY <1>6, <1>10, <1>11
<1>13. Cardinality(Range(chosen)) = Current.periods
  <2>1. IsInjective(chosen)
    <3>1. \A i, k \in DOMAIN chosen : i # k => ~SameTime(chosen[i], chosen[k])
      BY <1>1 DEF Inv, ChosenFits
    <3> QED
      BY <3>1 DEF IsInjective, SameTime
  <2> QED
    BY <1>2, <2>1, CountRange
<1>14. ASSUME NEW l \in Range(chosen)
       PROVE  Promised!LessonOf(l, TheJob, teacher)
  <2>1. PICK i \in DOMAIN chosen : l = chosen[i]
    BY DEF Range
  <2>2. LessonHere(l)
    BY <1>1, <2>1 DEF JobInv
  <2>3. l.week = week /\ l.teacher = teacher.id /\ l.class = TheClass.id
    BY <1>1, <2>1 DEF Inv, ChosenFits, OfJob
  <2>4. Range(slots) = Promised!Slots
    <3>1. slots = SubSeq(List(store.slots), 1, request.periods)
      BY <1>1 DEF WorkInv, Loaded
    <3> QED
      BY <3>1, SameMeaning DEF Promised!Slots
  <2>5. \E room \in Promised!Fitting(TheJob) : room.id = l.room
    BY <1>1, <1>2, <1>5, <2>2, FitsIsFitting DEF LessonHere
  <2>6. Promised!Need(TheJob) = Current
    BY <1>4, SameMeaning
  <2> QED
    BY <1>4, <2>2, <2>3, <2>4, <2>5, <2>6 DEF Promised!LessonOf, LessonHere, Promised!Days
<1>15. ASSUME NEW l \in Range(chosen), NEW k \in Planned', l # k
       PROVE  Promised!Apart(l, k)
  <2>1. PICK i \in DOMAIN chosen : l = plan'[Len(plan) + i]
    BY <1>7 DEF Range
  <2>2. PICK n \in DOMAIN plan' : k = plan'[n]
    BY <1>6 DEF Range
  <2>3. Apart(l, k)
    BY <1>7, <1>8, <1>15, <2>1, <2>2
  <2> QED
    BY <2>3, SameMeaning
<1>16. teacher \in Promised!TeachersFor(Current)
  BY <1>1 DEF JobInv
<1>17. /\ Promised!Need(TheJob) = Current /\ Promised!CourseKnown(Current)
       /\ Promised!Cardinality(Range(chosen)) = Current.periods
  BY <1>4, <1>5, <1>13, SameMeaning
<1>18. Promised!Place(TheJob)
  BY <1>3, <1>6, <1>12, <1>14, <1>15, <1>16, <1>17 DEF Promised!Place
<1> QED
  BY <1>3, <1>18 DEF Promised!Next

-------------------------------------------------------------------------------
(* Beginning and end.                                                      *)

\* What is read is empty only if nothing is meant.
LEMMA LoadIsRead ==
  ASSUME Inv, WorkInv, Load
  PROVE  Promised!Next
<1>1. /\ pc = "load" /\ ~canceled /\ request.periods <= Len(List(store.slots)) /\ week = 0
      /\ classes' \in Resolve(store.classes, request.classes, NamedClasses)
      /\ teachers' \in Resolve(store.teachers, request.teachers, NamedTeachers)
      /\ rooms' \in Resolve(store.rooms, request.rooms, {})
      /\ pc' = (IF classes' = <<>> \/ teachers' = <<>> \/ rooms' = <<>> THEN "failed" ELSE "week")
      /\ UNCHANGED <<request, store, canceled, week, plan, conflicts>>
  BY DEF Load, Goto, input, result, WorkInv
<1>2. /\ store \in Store /\ request \in Request
      /\ store.classes \in Seq(Class) /\ Keyed(store.classes)
      /\ store.teachers \in Seq(Teacher) /\ Keyed(store.teachers)
      /\ store.rooms \in Seq(Room) /\ Keyed(store.rooms)
  BY InputType, KeysAssumption DEF Inv, TypeOK, Store
<1>3. /\ Range(classes') = Meant(request.classes, NamedClasses, store.classes)
      /\ Range(teachers') = MeantTeachers /\ Range(rooms') = MeantRooms
  BY <1>1, <1>2, ReadIsMeant DEF MeantTeachers, MeantRooms
<1>4. classes' \in Seq(Class) /\ teachers' \in Seq(Teacher) /\ rooms' \in Seq(Room)
  BY <1>1, <1>2, ResolveType
<1>5. /\ Range(classes') = {} <=> classes' = <<>>
      /\ Range(teachers') = {} <=> teachers' = <<>>
      /\ Range(rooms') = {} <=> rooms' = <<>>
  <2>1. ASSUME NEW S, NEW seq \in Seq(S)
        PROVE  Range(seq) = {} <=> seq = <<>>
    BY DEF Range
  <2> QED
    BY <1>4, <2>1
<1>6. request.periods \in Nat /\ Len(List(store.slots)) \in Nat
  BY <1>2, ListType DEF Request, Store
<1>7. Promised!Unmeetable <=> classes' = <<>> \/ teachers' = <<>> \/ rooms' = <<>>
  BY <1>1, <1>3, <1>5, <1>6, SameMeaning DEF Promised!Unmeetable
<1>8. JobsLeft = {} /\ Status = "reading" /\ Planned = Range(plan) /\ Reports = conflicts
  BY <1>1 DEF JobsLeft, Status, Planned, Reports
<1>9. CASE pc' = "failed"
  <2>1. JobsLeft' = {} /\ Status' = "failed" /\ Planned' = {} /\ Reports' = <<>>
    BY <1>9 DEF JobsLeft, Status, Planned, Reports
  <2>2. Promised!Unmeetable
    BY <1>1, <1>7, <1>9
  <2>3. Promised!Fail
    BY <1>1, <1>8, <2>1, <2>2 DEF Promised!Fail
  <2> QED
    BY <2>3 DEF Promised!Next
<1>10. CASE pc' = "week"
  <2>1. Status' = "planning" /\ Planned' = Range(plan) /\ Reports' = conflicts
    BY <1>1, <1>10 DEF Status, Planned, Reports
  <2>2. JobsLeft' = Jobs
    <3>1. \A j \in Jobs : j.week \in Nat /\ j.week > 0
      BY <1>2 DEF Jobs, Request
    <3>2. \A j \in Jobs : Ahead(j)'
      BY <1>1, <3>1 DEF Ahead
    <3> QED
      BY <1>1, <1>10, <3>2, SameJobs DEF JobsLeft
  <2>3. ~Promised!Unmeetable
    BY <1>1, <1>7, <1>10
  <2>4. Promised!Read
    BY <1>1, <1>8, <2>1, <2>2, <2>3, SameMeaning DEF Promised!Read
  <2> QED
    BY <2>4 DEF Promised!Next
<1> QED
  BY <1>1, <1>9, <1>10

\* There is no plan only for a request that cannot be met, or once canceled.
LEMMA NoPlanIsFail ==
  ASSUME Inv, RejectRequest \/ Interrupted
  PROVE  Promised!Next
<1>1. pc' = "failed" /\ UNCHANGED <<request, store, canceled>>
  BY DEF RejectRequest, Interrupted, Fail, Goto, input
<1>2. JobsLeft' = {} /\ Status' = "failed" /\ Planned' = {} /\ Reports' = <<>>
  BY <1>1 DEF JobsLeft, Status, Planned, Reports
<1>3. \/ Status = "reading" /\ Promised!Unmeetable
      \/ Status \in {"reading", "planning"} /\ canceled
  <2>1. CASE RejectRequest
    BY <2>1, SameMeaning DEF RejectRequest, Status, Promised!Unmeetable
  <2>2. CASE Interrupted
    BY <2>2 DEF Interrupted, Status
  <2> QED
    BY <2>1, <2>2
<1>4. Promised!Fail
  BY <1>1, <1>2, <1>3 DEF Promised!Fail
<1> QED
  BY <1>4 DEF Promised!Next

\* The plan is returned when no job is left.
LEMMA ReturnIsFinish ==
  ASSUME Inv, Return
  PROVE  Promised!Next
<1>1. /\ pc = "week" /\ pc' = "done" /\ week = request.weeks
      /\ UNCHANGED <<request, store, canceled, plan, conflicts>>
  BY DEF Return, Goto, input, result
<1>2. JobsLeft = {}
  <2>1. \A j \in Jobs : j.week \in 1 .. request.weeks
    BY DEF Jobs
  <2>2. request.weeks \in Nat
    BY InputType DEF Inv, TypeOK, Request
  <2>3. \A j \in Jobs : ~Ahead(j)
    BY <1>1, <2>1, <2>2 DEF Ahead, InJob
  <2> QED
    BY <1>1, <2>3 DEF JobsLeft
<1>3. /\ Status = "planning" /\ Status' = "done" /\ JobsLeft' = {}
      /\ Planned' = Planned /\ Reports' = Reports
  BY <1>1 DEF Status, JobsLeft, Planned, Reports
<1>4. Promised!Finish
  BY <1>1, <1>2, <1>3 DEF Promised!Finish
<1> QED
  BY <1>4 DEF Promised!Next

LEMMA CancelIsCancel ==
  ASSUME CancelContext
  PROVE  Promised!Next
<1>1. /\ pc \notin {"done", "failed"} /\ canceled' = TRUE
      /\ UNCHANGED <<request, store, pc, week, next, targets, plan, conflicts>>
  BY DEF CancelContext, input, result
<1>2. JobsLeft' = JobsLeft
  BY <1>1, SameJobs DEF JobsLeft, Ahead, InJob
<1>3. Status \in {"reading", "planning"} /\ Status' = Status /\ Planned' = Planned /\ Reports' = Reports
  BY <1>1 DEF Status, Planned, Reports
<1>4. Promised!Cancel
  BY <1>1, <1>2, <1>3 DEF Promised!Cancel
<1> QED
  BY <1>4 DEF Promised!Next

-------------------------------------------------------------------------------
(* The rest of the search goes on unseen.                                  *)

\* A step within the search changes neither the jobs that are left nor what is
\* returned.
LEMMA SearchUnseen ==
  ASSUME Inv, WorkInv,
         \/ BeginWeek \/ EndWeek \/ BeginRequirement \/ EndRequirement \/ BeginJob
         \/ SkipPosition \/ TryPosition \/ NoRoom \/ ChooseRoom
  PROVE  UNCHANGED Promised!specVars
<1> USE DEF Goto, input, job, result
<1>1. /\ UNCHANGED <<request, store, canceled, plan, conflicts>>
      /\ pc \notin {"load", "done", "failed"} /\ pc' \notin {"load", "done", "failed"}
  BY DEF BeginWeek, EndWeek, BeginRequirement, EndRequirement, BeginJob, SkipPosition, TryPosition,
         NoRoom, ChooseRoom
<1>2. Status' = Status /\ Planned' = Planned /\ Reports' = Reports
  BY <1>1 DEF Status, Planned, Reports
<1>3. JobsLeft = {j \in Jobs : Ahead(j)} /\ JobsLeft' = {j \in Jobs : Ahead(j)'}
  BY <1>1, SameJobs DEF JobsLeft
<1>4. /\ request.weeks \in Nat /\ week \in Nat /\ next \in Nat /\ Len(request.courses) \in Nat
      /\ DOMAIN request.courses = 1 .. Len(request.courses)
  BY InputType DEF Inv, TypeOK, Request
<1>5. ASSUME NEW j \in Jobs
      PROVE  /\ j.week \in Nat /\ j.at \in Nat \ {0} /\ j.at <= Len(request.courses)
             /\ j.class \in MeantClasses(Need(j))
  BY <1>4 DEF Jobs
<1>6. ASSUME NEW j \in Jobs
      PROVE  Ahead(j)' <=> Ahead(j)
  <2>1. CASE BeginWeek
    <3>1. pc = "week" /\ pc' = "requirement" /\ week' = week + 1 /\ next' = 1
      BY <2>1 DEF BeginWeek
    <3>2. Ahead(j) <=> j.week > week
      BY <3>1 DEF Ahead, InJob
    <3>3. Ahead(j)' <=> j.week > week + 1 \/ (j.week = week + 1 /\ (j.at > 1 \/ j.at = 1))
      BY <3>1 DEF Ahead, InJob
    <3> QED
      BY <1>4, <1>5, <3>2, <3>3
  <2>2. CASE EndWeek
    <3>1. pc = "requirement" /\ pc' = "week" /\ week' = week /\ next' = next /\ next > Len(request.courses)
      BY <2>2 DEF EndWeek
    <3>2. Ahead(j) <=> j.week > week \/ (j.week = week /\ (j.at > next \/ j.at = next))
      BY <3>1 DEF Ahead, InJob
    <3>3. Ahead(j)' <=> j.week > week
      BY <3>1 DEF Ahead, InJob
    <3> QED
      BY <1>4, <1>5, <3>1, <3>2, <3>3
  <2>3. CASE BeginRequirement
    <3>1. /\ pc = "requirement" /\ pc' = "class" /\ week' = week /\ next' = next
          /\ targets' = TargetClasses(Current)
      BY <2>3 DEF BeginRequirement
    <3>2. Range(targets') = MeantClasses(Current)
      BY <3>1, TargetsExact DEF WorkInv
    <3>3. j.at = next => j.class \in Range(targets')
      BY <1>5, <3>2 DEF Need, Current
    <3> QED
      BY <3>1, <3>3 DEF Ahead, InJob
  <2>4. CASE EndRequirement
    <3>1. /\ pc = "class" /\ pc' = "requirement" /\ week' = week /\ next' = next + 1 /\ targets = <<>>
      BY <2>4 DEF EndRequirement
    <3>2. Range(targets) = {}
      BY <3>1 DEF Range
    <3>3. Ahead(j) <=> j.week > week \/ (j.week = week /\ j.at > next)
      BY <3>1, <3>2 DEF Ahead, InJob
    <3>4. Ahead(j)' <=> j.week > week \/ (j.week = week /\ (j.at > next + 1 \/ j.at = next + 1))
      BY <3>1 DEF Ahead, InJob
    <3> QED
      BY <1>4, <1>5, <3>3, <3>4
  <2>5. CASE BeginJob \/ SkipPosition \/ TryPosition \/ NoRoom \/ ChooseRoom
    <3>1. /\ UNCHANGED <<week, next, targets>>
          /\ pc = "class" \/ InJob
          /\ pc' = "class" \/ InJob'
      BY <2>5 DEF BeginJob, SkipPosition, TryPosition, NoRoom, ChooseRoom, InJob
    <3>2. pc \notin {"week", "requirement"} /\ pc' \notin {"week", "requirement"}
      BY <3>1 DEF InJob
    <3> QED
      BY <3>1, <3>2 DEF Ahead
  <2> QED
    BY <2>1, <2>2, <2>3, <2>4, <2>5
<1> QED
  BY <1>1, <1>2, <1>3, <1>6 DEF Promised!specVars

\* buildPlan takes up every job it was asked for in its turn and places it as a
\* whole, or reports it: as impossible only where fewer times are free than it has
\* periods; and it plans nothing only if the request cannot be met or its context
\* is canceled.
THEOREM PlannerImplementsSpec == Spec => ImplementsPlan
<1>1. Init => JobInv
  BY DEF Init, JobInv, InJob
<1>2. Inv /\ WorkInv /\ JobInv /\ [Next]_vars => JobInv'
  BY NextJob DEF WorkInv
<1>3. Spec => []JobInv
  BY <1>1, <1>2, PlannerInvariant, PlannerWork, PTL DEF Spec
<1>4. Init => Promised!Init
  <2> SUFFICES ASSUME Init
               PROVE  Promised!Init
    OBVIOUS
  <2>1. /\ request \in Requests /\ store \in Stores /\ canceled = FALSE
        /\ pc = "load" /\ plan = <<>> /\ conflicts = <<>>
    BY DEF Init
  <2>2. JobsLeft = {} /\ Status = "reading" /\ Planned = {} /\ Reports = <<>>
    BY <2>1 DEF JobsLeft, Status, Planned, Reports, Range
  <2> QED
    BY <2>1, <2>2 DEF Promised!Init
<1>5. Inv /\ Inv' /\ WorkInv /\ SearchInv /\ SuitInv /\ JobInv /\ [Next]_vars
        => [Promised!Next]_Promised!specVars
  <2> SUFFICES ASSUME Inv, Inv', WorkInv, SearchInv, SuitInv, JobInv, [Next]_vars
               PROVE  Promised!Next \/ UNCHANGED Promised!specVars
    OBVIOUS
  <2>1. CASE Load
    BY <2>1, LoadIsRead
  <2>2. CASE RejectRequest \/ Interrupted
    BY <2>2, NoPlanIsFail
  <2>3. CASE Return
    BY <2>3, ReturnIsFinish
  <2>4. CASE CancelContext
    BY <2>4, CancelIsCancel
  <2>5. CASE SkipClass
    BY <2>5, SkipIsDrop
  <2>6. CASE RejectCourse
    BY <2>6, RejectIsReject
  <2>7. CASE Unplaced
    BY <2>7, UnplacedIsRefuse
  <2>8. CASE Commit
    BY <2>8, CommitIsPlace
  <2>9. CASE \/ BeginWeek \/ EndWeek \/ BeginRequirement \/ EndRequirement \/ BeginJob
             \/ SkipPosition \/ TryPosition \/ NoRoom \/ ChooseRoom
    BY <2>9, SearchUnseen
  <2>10. CASE Finished \/ UNCHANGED vars
    <3>1. UNCHANGED <<request, store, canceled, pc, week, next, targets, plan, conflicts>>
      BY <2>10 DEF Finished, vars, input, result
    <3>2. JobsLeft' = JobsLeft
      BY <3>1, SameJobs DEF JobsLeft, Ahead, InJob
    <3>3. Status' = Status /\ Planned' = Planned /\ Reports' = Reports
      BY <3>1 DEF Status, Planned, Reports
    <3> QED
      BY <3>1, <3>2, <3>3 DEF Promised!specVars
  <2> QED
    BY <2>1, <2>2, <2>3, <2>4, <2>5, <2>6, <2>7, <2>8, <2>9, <2>10 DEF Next, Step
<1>6. Spec => Promised!Spec
  BY <1>3, <1>4, <1>5, PlannerInvariant, PlannerWork, PlannerSearch, PlannerSuits, PTL
     DEF Spec, Promised!Spec
<1> QED
  BY <1>6 DEF ImplementsPlan

===============================================================================
