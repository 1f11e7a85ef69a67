----------------------------- MODULE PlannerProofs -----------------------------
(***************************************************************************)
(* For every request and every catalog, the plans of Planner book nobody   *)
(* twice, every lesson suits its room, its class and its teacher, and a    *)
(* period goes unplaced only where the search had looked everywhere.       *)
(***************************************************************************)
EXTENDS Planner, SequenceTheorems, FiniteSetTheorems, TLAPS

\* Why: what is taken this week is marked in occ, and the lessons of the current
\* job are at different times, all free in occ.
Marked(l) ==
  /\ <<Time(l), l.teacher>> \in occ.teacher
  /\ <<Time(l), l.class>> \in occ.class
  /\ <<Time(l), l.room>> \in occ.room

OccKnowsPlan == \A l \in Range(plan) : l.week <= week /\ (l.week = week => Marked(l))

OfJob(l) ==
  /\ l.week = week /\ l.teacher = teacher.id /\ l.class = TheClass.id
  /\ <<Time(l), l.teacher>> \notin occ.teacher
  /\ <<Time(l), l.class>> \notin occ.class
  /\ <<Time(l), l.room>> \notin occ.room

ChosenFits ==
  pc \in {"position", "room", "commit"} =>
    /\ \A i \in DOMAIN chosen : OfJob(chosen[i])
    /\ \A i, j \in DOMAIN chosen : i # j => ~SameTime(chosen[i], chosen[j])
    /\ pc = "room" => ~Exhausted /\ ~Blocked(Position)

\* The inductive invariant behind NoDoubleBooking.
Inv == TypeOK /\ OccKnowsPlan /\ ChosenFits /\ NoDoubleBooking

-------------------------------------------------------------------------------
(* What the queries return.                                                *)

\* The first page of a table is made of rows of the table.
LEMMA ListType ==
  ASSUME NEW S, NEW table \in Seq(S)
  PROVE  List(table) \in Seq(S) /\ Len(List(table)) \in Nat
<1> DEFINE n == IF Len(table) < PageSize THEN Len(table) ELSE PageSize
<1>1. n \in Nat /\ n <= Len(table)
  BY PageSizeAssumption
<1>2. \A i \in 1 .. n : table[i] \in S
  BY <1>1
<1>3. SubSeq(table, 1, n) \in Seq(S)
  BY <1>1, <1>2, SubSeqProperties
<1> QED
  BY <1>3 DEF List

\* A sequence has finitely many different elements.
LEMMA RangeFinite ==
  ASSUME NEW S, NEW seq \in Seq(S)
  PROVE  IsFiniteSet(Range(seq)) /\ Range(seq) \subseteq S
<1>1. DOMAIN seq = 1 .. Len(seq) /\ Len(seq) \in Nat
  OBVIOUS
<1>2. IsFiniteSet(DOMAIN seq)
  BY <1>1, FS_Interval
<1>3. seq \in Surjection(DOMAIN seq, Range(seq))
  BY <1>1 DEF Surjection, Range
<1>4. IsFiniteSet(Range(seq))
  BY <1>2, <1>3, FS_Surjection
<1> QED
  BY <1>1, <1>4 DEF Range

\* However a query by ids orders its rows, they are rows of the table.
LEMMA GetByIDsType ==
  ASSUME NEW S, NEW table \in Seq(S), NEW ids, NEW read \in GetByIDs(table, ids)
  PROVE  read \in Seq(S)
<1> DEFINE found == {row \in Range(table) : row.id \in ids}
<1>1. IsFiniteSet(found) /\ found \subseteq S
  BY RangeFinite, FS_Subset
<1>2. Cardinality(found) \in Nat
  BY <1>1, FS_CardinalityType
<1>3. read \in [1 .. Cardinality(found) -> found]
  BY DEF GetByIDs, Injection
<1> HIDE DEF found
<1>4. read \in Seq(found)
  BY <1>2, <1>3
<1> QED
  BY <1>1, <1>4, SeqMonotonic

\* Whichever way the rows are chosen, they are rows of the table.
LEMMA ResolveType ==
  ASSUME NEW S, NEW table \in Seq(S), NEW asked, NEW named,
         NEW read \in Resolve(table, asked, named)
  PROVE  read \in Seq(S)
BY ListType, GetByIDsType DEF Resolve

\* A requirement's classes are classes that were read.
LEMMA TargetsType ==
  ASSUME classes \in Seq(Class), NEW r
  PROVE  TargetClasses(r) \in Seq(Class)
<1>1. CASE r.class = 0 \/ ~\E c \in Range(classes) : c.id = r.class
  BY <1>1 DEF TargetClasses
<1>2. CASE r.class # 0 /\ \E c \in Range(classes) : c.id = r.class
  <2> DEFINE class == CHOOSE c \in Range(classes) : c.id = r.class
  <2>1. class \in Range(classes)
    BY <1>2
  <2>2. class \in Class
    BY <2>1, RangeFinite
  <2> QED
    BY <1>2, <2>2 DEF TargetClasses
<1> QED
  BY <1>1, <1>2

\* The teacher of a job is one that was read.
LEMMA TeacherType ==
  ASSUME teachers \in Seq(Teacher), teachers # <<>>, cursor \in Nat,
         NEW r, NEW t \in PickTeacher(r)
  PROVE  t \in Teacher
<1>1. CASE r.teacher # 0
  BY <1>1, RangeFinite DEF PickTeacher
<1>2. CASE r.teacher = 0 /\ Able(r) # {}
  BY <1>2 DEF PickTeacher, First, Able
<1>3. CASE r.teacher = 0 /\ Able(r) = {}
  <2>1. Len(teachers) \in Nat \ {0}
    OBVIOUS
  <2>2. (cursor % Len(teachers)) + 1 \in 1 .. Len(teachers)
    BY <2>1
  <2> QED
    BY <1>3, <2>2 DEF PickTeacher
<1> QED
  BY <1>1, <1>2, <1>3

-------------------------------------------------------------------------------
(* Positions.                                                              *)

\* A number below q * p has a quotient below q.
LEMMA Quotient ==
  ASSUME NEW p \in Nat \ {0}, NEW q \in Nat, NEW k \in Nat, k < q * p
  PROVE  k \div p \in Nat /\ k \div p < q
<1> DEFINE d == k \div p
<1>1. d \in Nat /\ p * d <= k
  OBVIOUS
<1> HIDE DEF d
<1>2. CASE d >= q
  <2>1. p * d >= p * q
    BY <1>1, <1>2
  <2> QED
    BY <1>1, <2>1
<1> QED
  BY <1>1, <1>2 DEF d

\* Quotient and remainder by a positive number are natural numbers.
LEMMA DivisionType ==
  ASSUME NEW n \in Nat, NEW b \in Nat \ {0}
  PROVE  n \div b \in Nat /\ n % b \in 0 .. b - 1
OBVIOUS

\* The n-th position of the runs of p slots lies inside the day.
LEMMA RunIndex ==
  ASSUME NEW p \in Nat \ {0}, NEW q \in Nat, NEW k \in Nat, k < q * p
  PROVE  (k \div p) + (k % p) + 1 \in 1 .. q + p - 1
<1>1. k \div p \in Nat /\ k \div p < q
  BY Quotient
<1>2. k % p \in 0 .. p - 1
  BY DivisionType
<1> DEFINE d == k \div p
           m == k % p
<1> HIDE DEF d, m
<1>3. ASSUME d \in Nat, d < q, m \in 0 .. p - 1
      PROVE  d + m + 1 \in 1 .. q + p - 1
  BY <1>3
<1> QED
  BY <1>1, <1>2, <1>3 DEF d, m

\* The product of positive numbers is positive.
LEMMA ProductPositive ==
  ASSUME NEW a \in Nat \ {0}, NEW b \in Nat \ {0}
  PROVE  a * b \in Nat \ {0}
OBVIOUS

\* A function on an initial segment is a sequence.
LEMMA FunctionIsSeq ==
  ASSUME NEW S, NEW m \in Nat, NEW f \in [1 .. m -> S]
  PROVE  f \in Seq(S)
OBVIOUS

Place == [day : Nat, slot : Nat]

\* Every position is a day and a slot that was read.
LEMMA PositionsType ==
  ASSUME request \in Request, slots \in Seq(Nat), NEW r \in Requirement
  PROVE  Positions(r) \in Seq(Place)
<1>1. Len(slots) \in Nat /\ request.days \in Nat /\ r.periods \in Nat \ {0}
  BY DEF Request, Requirement
<1>2. AllPositions \in Seq(Place)
  <2> DEFINE total == request.days * Len(slots)
             position(n) == [day |-> ((n - 1) \div Len(slots)) + 1,
                             slot |-> slots[((n - 1) % Len(slots)) + 1]]
  <2>1. total \in Nat /\ (Len(slots) = 0 => total = 0)
    BY <1>1
  <2>2. ASSUME NEW n \in 1 .. total
        PROVE  position(n) \in Place
    <3>1. Len(slots) \in Nat \ {0} /\ n - 1 \in Nat
      BY <1>1, <2>1, <2>2
    <3>2. (n - 1) \div Len(slots) \in Nat /\ (n - 1) % Len(slots) \in 0 .. Len(slots) - 1
      BY <3>1
    <3>3. slots[((n - 1) % Len(slots)) + 1] \in Nat
      BY <3>1, <3>2
    <3> QED
      BY <3>2, <3>3 DEF Place
  <2>3. AllPositions \in [1 .. total -> Place]
    BY <2>2 DEF AllPositions
  <2> QED
    BY <2>1, <2>3, FunctionIsSeq
<1>3. ASSUME r.periods \in 2 .. Len(slots)
      PROVE  Runs(r.periods) \in Seq(Place)
  <2> DEFINE p == r.periods
             starts == Len(slots) - p + 1
             perDay == starts * p
             k(n) == (n - 1) % perDay
             position(n) == [day |-> ((n - 1) \div perDay) + 1,
                             slot |-> slots[(k(n) \div p) + (k(n) % p) + 1]]
  <2>1. p \in Nat \ {0} /\ starts \in Nat \ {0} /\ perDay \in Nat \ {0}
        /\ request.days * perDay \in Nat
    <3>1. p \in Nat \ {0} /\ starts \in Nat \ {0}
      BY <1>1, <1>3
    <3>2. perDay \in Nat \ {0}
      BY <3>1, ProductPositive
    <3> HIDE DEF perDay
    <3>3. request.days * perDay \in Nat
      BY <1>1, <3>2
    <3> QED
      BY <3>1, <3>2, <3>3
  <2>2. ASSUME NEW n \in 1 .. request.days * perDay
        PROVE  position(n) \in Place
    <3>1. n - 1 \in Nat
      BY <2>1, <2>2
    <3>2. (n - 1) \div perDay \in Nat /\ k(n) \in 0 .. perDay - 1
      BY <2>1, <3>1, DivisionType
    <3>3. k(n) \in Nat /\ k(n) < starts * p
      BY <2>1, <3>2
    <3>4. (k(n) \div p) + (k(n) % p) + 1 \in 1 .. starts + p - 1
      <4> HIDE DEF k, starts, p
      <4> QED
        BY <2>1, <3>3, RunIndex
    <3>5. starts + p - 1 = Len(slots)
      BY <1>1
    <3>6. slots[(k(n) \div p) + (k(n) % p) + 1] \in Nat
      <4> DEFINE i == (k(n) \div p) + (k(n) % p) + 1
      <4> HIDE DEF i
      <4>1. i \in 1 .. Len(slots)
        BY <3>4, <3>5 DEF i
      <4>2. slots[i] \in Nat
        BY <4>1
      <4> QED
        BY <4>2 DEF i
    <3> QED
      BY <3>2, <3>6 DEF Place
  <2>3. Runs(r.periods) = [n \in 1 .. request.days * perDay |-> position(n)]
    BY Zenon DEF Runs
  <2>4. Runs(r.periods) \in [1 .. request.days * perDay -> Place]
    <3> HIDE DEF position
    <3> QED
      BY <2>2, <2>3
  <2> QED
    BY <2>1, <2>4, FunctionIsSeq
<1> QED
  BY <1>2, <1>3 DEF Positions

-------------------------------------------------------------------------------
(* Types.                                                                  *)

\* The input has the types of its sets.
LEMMA InputType ==
  ASSUME request \in Requests, store \in Stores
  PROVE  request \in Request /\ store \in Store
BY RequestsAssumption, StoresAssumption

\* The current requirement, while there is one.
LEMMA CurrentType ==
  ASSUME request \in Request, next \in DOMAIN request.courses
  PROVE  Current \in Requirement
BY DEF Request, Current

\* A lesson at a position of the current requirement is a lesson.
LEMMA LessonType ==
  ASSUME TypeOK, pc = "room", ~Exhausted, NEW i \in DOMAIN rooms
  PROVE  LessonAt(Position, rooms[i]) \in Lesson
<1>1. request \in Request /\ Current \in Requirement
  BY InputType, CurrentType DEF TypeOK
<1>2. Positions(Current) \in Seq(Place)
  BY <1>1, PositionsType DEF TypeOK
<1>3. Position \in Place
  <2>1. at \in 1 .. Len(Positions(Current))
    BY <1>2 DEF TypeOK, Exhausted
  <2> QED
    BY <1>2, <2>1 DEF Position
<1>4. rooms[i] \in Room /\ teacher \in Teacher
  BY DEF TypeOK
<1>5. TheClass \in Class
  BY DEF TypeOK, TheClass
<1>6. week \in Nat
  BY <1>1 DEF TypeOK, Request
<1> QED
  BY <1>1, <1>3, <1>4, <1>5, <1>6
     DEF LessonAt, Lesson, Place, Room, Teacher, Class, Requirement

\* Types hold before the catalog is read.
LEMMA InitType == Init => TypeOK
<1> SUFFICES ASSUME Init
             PROVE  TypeOK
  OBVIOUS
<1>1. request \in Request
  BY InputType DEF Init
<1>2. NoTeacher \in Teacher
  BY DEF NoTeacher, Teacher
<1>3. request.weeks \in Nat
  BY <1>1 DEF Request
<1>4. <<>> \in Seq(Class) /\ <<>> \in Seq(Teacher) /\ <<>> \in Seq(Room)
      /\ <<>> \in Seq(Nat) /\ <<>> \in Seq(Lesson)
  BY EmptySeq
<1>5. week \in 0 .. request.weeks /\ next \in Nat \ {0} /\ at \in Nat \ {0} /\ pc = "load"
  BY <1>3 DEF Init
<1>6. canceled \in BOOLEAN
  BY DEF Init
<1>7. teacher \in Teacher /\ cursor \in Nat /\ required \in Nat
  BY <1>2 DEF Init
<1> QED
  BY <1>4, <1>5, <1>6, <1>7 DEF Init, TypeOK

\* Every step preserves the types.
LEMMA NextType == TypeOK /\ ChosenFits /\ [Next]_vars => TypeOK'
<1> SUFFICES ASSUME TypeOK, ChosenFits, [Next]_vars
             PROVE  TypeOK'
  OBVIOUS
<1>t. request \in Request /\ store \in Store
  BY InputType DEF TypeOK
<1>w. request.weeks \in Nat /\ request.courses \in Seq(Requirement)
  BY <1>t DEF Request
<1> USE DEF TypeOK, Goto, input, loaded, job, result
<1>1. CASE UNCHANGED vars
  BY <1>1 DEF vars, Current
<1>2. CASE Load
  <2>1. classes' \in Seq(Class) /\ teachers' \in Seq(Teacher) /\ rooms' \in Seq(Room)
    BY <1>2, <1>t, ResolveType DEF Load, Store
  <2>2. slots' \in Seq(Nat)
    <3>1. List(store.slots) \in Seq(Nat)
      BY <1>t, ListType DEF Store
    <3>2. request.periods \in Nat /\ request.periods <= Len(List(store.slots))
      BY <1>2, <1>t DEF Load, Request
    <3>3. \A i \in 1 .. request.periods : List(store.slots)[i] \in Nat
      BY <3>1, <3>2
    <3>4. SubSeq(List(store.slots), 1, request.periods) \in Seq(Nat)
      BY <3>2, <3>3, SubSeqProperties
    <3> QED
      BY <1>2, <3>4 DEF Load
  <2> QED
    BY <1>2, <2>1, <2>2 DEF Load
<1>3. CASE RejectRequest \/ Interrupted
  BY <1>3 DEF RejectRequest, Interrupted, Fail
<1>4. CASE BeginWeek
  BY <1>4, <1>w DEF BeginWeek
<1>5. CASE Return \/ EndWeek \/ EndRequirement
  <2>1. CASE Return
    BY <2>1 DEF Return
  <2>2. CASE EndWeek
    BY <2>2 DEF EndWeek
  <2>3. CASE EndRequirement
    BY <2>3 DEF EndRequirement
  <2> QED
    BY <1>5, <2>1, <2>2, <2>3
<1>6. CASE BeginRequirement
  <2>1. next \in DOMAIN request.courses
    BY <1>6, <1>w DEF BeginRequirement
  <2>2. targets' \in Seq(Class)
    BY <1>6, TargetsType DEF BeginRequirement
  <2> QED
    BY <1>6, <2>1, <2>2 DEF BeginRequirement
<1>7. CASE SkipClass
  BY <1>7, HeadTailProperties DEF SkipClass
<1>8. CASE RejectCourse
  BY <1>8, HeadTailProperties DEF RejectCourse, TurnCursor
<1>9. CASE BeginJob
  <2>1. Current \in Requirement
    BY <1>9, <1>t, CurrentType DEF BeginJob
  <2>2. teacher' \in Teacher
    BY <1>9, TeacherType DEF BeginJob
  <2>3. required' \in Nat /\ Len(chosen') < Current.periods
    BY <1>9, <2>1 DEF BeginJob, Requirement
  <2> QED
    BY <1>9, <2>2, <2>3 DEF BeginJob, TurnCursor, Current
<1>10. CASE SkipPosition
  BY <1>10 DEF SkipPosition, Current
<1>11. CASE TryPosition
  BY <1>11 DEF TryPosition, Current
<1>12. CASE NoRoom
  BY <1>12 DEF NoRoom, Current
<1>13. CASE ChooseRoom
  <2>1. PICK i \in First(Suitable(Position)) :
          chosen' = Append(chosen, LessonAt(Position, rooms[i]))
    BY <1>13 DEF ChooseRoom
  <2>2. i \in DOMAIN rooms
    BY <2>1 DEF First, Suitable
  <2>3. pc = "room" /\ ~Exhausted
    BY <1>13 DEF ChooseRoom, ChosenFits
  <2>4. LessonAt(Position, rooms[i]) \in Lesson
    BY <2>2, <2>3, LessonType
  <2>5. chosen' \in Seq(Lesson) /\ Len(chosen') = Len(chosen) + 1
    BY <2>1, <2>4, AppendProperties
  <2>6. Current \in Requirement
    BY <2>3, <1>t, CurrentType
  <2>7. Current' = Current
    BY <1>13 DEF ChooseRoom, Current
  <2>8. pc' = "position" => Len(chosen') < Current.periods
    BY <1>13, <2>3, <2>5, <2>6 DEF ChooseRoom, Requirement
  <2>9. pc' = "commit" => Len(chosen') = Current.periods
    BY <1>13 DEF ChooseRoom
  <2>10. pc' \in {"position", "commit"}
    BY <1>13 DEF ChooseRoom
  <2> QED
    BY <1>13, <2>3, <2>5, <2>7, <2>8, <2>9, <2>10 DEF ChooseRoom
<1>14. CASE Unplaced
  BY <1>14, HeadTailProperties DEF Unplaced
<1>15. CASE Commit
  <2>1. plan' \in Seq(Lesson)
    BY <1>15, ConcatProperties DEF Commit
  <2>2. targets' \in Seq(Class)
    BY <1>15, HeadTailProperties DEF Commit
  <2> QED
    BY <1>15, <2>1, <2>2 DEF Commit
<1>16. CASE CancelContext
  BY <1>16 DEF CancelContext, Current
<1>17. CASE Finished
  BY <1>17, <1>1 DEF Finished
<1> QED
  BY <1>1, <1>2, <1>3, <1>4, <1>5, <1>6, <1>7, <1>8, <1>9, <1>10, <1>11, <1>12, <1>13,
     <1>14, <1>15, <1>16, <1>17 DEF Next, Step

-------------------------------------------------------------------------------
(* Nobody is booked twice.                                                 *)

\* A step that leaves plan, week and marks alone, outside a job or entering one
\* with nothing chosen, disturbs nothing.
LEMMA Untouched ==
  ASSUME Inv, plan' = plan, occ' = occ, week' = week
  PROVE  /\ OccKnowsPlan' /\ NoDoubleBooking'
         /\ pc' \notin {"position", "room", "commit"} => ChosenFits'
<1>1. OccKnowsPlan'
  BY DEF Inv, OccKnowsPlan, Marked, Time
<1>2. NoDoubleBooking'
  BY DEF Inv, NoDoubleBooking
<1>3. pc' \notin {"position", "room", "commit"} => ChosenFits'
  BY DEF ChosenFits
<1> QED
  BY <1>1, <1>2, <1>3

\* A lesson found at a free position, in a suitable room, is at another time than
\* those found before it and meets no mark.
LEMMA ChooseFits ==
  ASSUME Inv, ChooseRoom
  PROVE  ChosenFits'
<1>1. PICK i \in First(Suitable(Position)) :
        chosen' = Append(chosen, LessonAt(Position, rooms[i]))
  BY DEF ChooseRoom
<1> DEFINE l == LessonAt(Position, rooms[i])
<1>2. pc = "room" /\ ~Blocked(Position)
  BY DEF ChooseRoom, Inv, ChosenFits
<1>3. i \in Suitable(Position)
  BY <1>1 DEF First
<1>4. /\ l.week = week /\ l.day = Position.day /\ l.slot = Position.slot
      /\ l.teacher = teacher.id /\ l.class = TheClass.id /\ l.room = rooms[i].id
  BY DEF LessonAt
<1>5. OfJob(l)
  BY <1>2, <1>3, <1>4 DEF OfJob, Blocked, Suitable, Time
<1>6. \A k \in DOMAIN chosen : ~SameTime(chosen[k], l) /\ ~SameTime(l, chosen[k])
  BY <1>2, <1>4 DEF Blocked, Used, SameTime, Range
<1> HIDE DEF l
<1>7. /\ DOMAIN chosen' = DOMAIN chosen \cup {Len(chosen) + 1}
      /\ \A k \in DOMAIN chosen : chosen'[k] = chosen[k]
      /\ chosen'[Len(chosen) + 1] = l
  BY <1>1 DEF Inv, TypeOK, l
<1>8. \A k \in DOMAIN chosen : OfJob(chosen[k])
  BY <1>2 DEF Inv, ChosenFits
<1>9. \A k, m \in DOMAIN chosen : k # m => ~SameTime(chosen[k], chosen[m])
  BY <1>2 DEF Inv, ChosenFits
<1>10. \A k \in DOMAIN chosen' : OfJob(chosen'[k])
  BY <1>5, <1>7, <1>8
<1>11. \A k, m \in DOMAIN chosen' : k # m => ~SameTime(chosen'[k], chosen'[m])
  BY <1>6, <1>7, <1>9
<1>12. UNCHANGED <<week, teacher, targets, occ>>
  BY DEF ChooseRoom
<1>13. \A k \in DOMAIN chosen' : OfJob(chosen[k])'
  BY <1>10, <1>12 DEF OfJob, Time, TheClass
<1>14. pc' # "room"
  BY DEF ChooseRoom, Goto
<1> QED
  BY <1>11, <1>13, <1>14 DEF ChosenFits, SameTime

\* What is committed was free of the marks of all that was planned this week.
LEMMA CommitKeepsApart ==
  ASSUME Inv, Commit
  PROVE  OccKnowsPlan' /\ NoDoubleBooking'
<1>1. plan \in Seq(Lesson) /\ chosen \in Seq(Lesson)
  BY DEF Inv, TypeOK
<1>2. plan' = plan \o chosen /\ week' = week
  BY DEF Commit
<1>3. /\ \A k \in DOMAIN chosen : OfJob(chosen[k])
      /\ \A k, m \in DOMAIN chosen : k # m => ~SameTime(chosen[k], chosen[m])
  BY DEF Inv, ChosenFits, Commit
<1>4. \A n \in DOMAIN plan' :
         \/ n \in DOMAIN plan /\ plan'[n] = plan[n]
         \/ n - Len(plan) \in DOMAIN chosen /\ plan'[n] = chosen[n - Len(plan)]
  BY <1>1, <1>2
<1>5. OccKnowsPlan'
  <2> SUFFICES ASSUME NEW n \in DOMAIN plan'
               PROVE  plan'[n].week <= week /\ (plan'[n].week = week => Marked(plan[n])')
    BY <1>2 DEF OccKnowsPlan, Range
  <2>1. CASE n \in DOMAIN plan /\ plan'[n] = plan[n]
    <3>1. plan[n] \in Range(plan)
      BY <2>1 DEF Range
    <3>2. plan[n].week <= week /\ (plan[n].week = week => Marked(plan[n]))
      BY <3>1 DEF Inv, OccKnowsPlan
    <3> QED
      BY <1>2, <2>1, <3>2 DEF Marked, Commit, Time
  <2>2. CASE n - Len(plan) \in DOMAIN chosen /\ plan'[n] = chosen[n - Len(plan)]
    <3> DEFINE l == chosen[n - Len(plan)]
    <3>1. l \in Range(chosen) /\ l.week = week
      BY <1>3, <2>2 DEF Range, OfJob
    <3>2. week \in Nat
      BY InputType DEF Inv, TypeOK, Request
    <3> HIDE DEF l
    <3>3. /\ <<Time(l), l.teacher>> \in occ'.teacher
          /\ <<Time(l), l.class>> \in occ'.class
          /\ <<Time(l), l.room>> \in occ'.room
      BY <3>1 DEF Commit
    <3> QED
      BY <1>2, <2>2, <3>1, <3>2, <3>3 DEF Marked, Time, l
  <2> QED
    BY <1>4, <2>1, <2>2
<1>6. \A k \in DOMAIN plan, m \in DOMAIN chosen :
        Apart(plan[k], chosen[m]) /\ Apart(chosen[m], plan[k])
  <2> SUFFICES ASSUME NEW k \in DOMAIN plan, NEW m \in DOMAIN chosen,
                      SameTime(plan[k], chosen[m])
               PROVE  /\ plan[k].teacher # chosen[m].teacher
                      /\ plan[k].class # chosen[m].class
                      /\ plan[k].room # chosen[m].room
    BY DEF Apart, SameTime
  <2>1. OfJob(chosen[m]) /\ plan[k] \in Range(plan)
    BY <1>3 DEF Range
  <2>2. plan[k].week = week /\ Time(plan[k]) = Time(chosen[m])
    BY <2>1 DEF SameTime, OfJob, Time
  <2>3. Marked(plan[k])
    BY <2>1, <2>2 DEF Inv, OccKnowsPlan
  <2> QED
    BY <2>1, <2>2, <2>3 DEF Marked, OfJob
<1>7. \A k, m \in DOMAIN plan : k # m => Apart(plan[k], plan[m])
  BY DEF Inv, NoDoubleBooking
<1>8. NoDoubleBooking'
  <2> SUFFICES ASSUME NEW i \in DOMAIN plan', NEW j \in DOMAIN plan', i # j
               PROVE  Apart(plan'[i], plan'[j])
    BY DEF NoDoubleBooking, Apart, SameTime
  <2>1. i \in Nat /\ j \in Nat /\ Len(plan) \in Nat
    BY <1>1, <1>2
  <2>2. i - Len(plan) # j - Len(plan)
    BY <2>1
  <2> QED
    BY <1>3, <1>4, <1>6, <1>7, <2>2 DEF Apart
<1> QED
  BY <1>5, <1>8

\* Every step keeps the marks in agreement with the plan, and nobody booked twice.
LEMMA NextBooked == Inv /\ [Next]_vars => OccKnowsPlan' /\ ChosenFits' /\ NoDoubleBooking'
<1> SUFFICES ASSUME Inv, [Next]_vars
             PROVE  OccKnowsPlan' /\ ChosenFits' /\ NoDoubleBooking'
  OBVIOUS
<1> USE DEF Goto, input, loaded, job, result
<1>1. CASE Load \/ RejectRequest \/ Interrupted
  BY <1>1, Untouched DEF Load, RejectRequest, Interrupted, Fail
<1>2. CASE Return \/ EndWeek \/ BeginRequirement \/ EndRequirement
  BY <1>2, Untouched DEF Return, EndWeek, BeginRequirement, EndRequirement
<1>3. CASE SkipClass \/ RejectCourse \/ Unplaced
  <2>1. CASE SkipClass
    BY <2>1, Untouched DEF SkipClass
  <2>2. CASE RejectCourse
    BY <2>2, Untouched DEF RejectCourse
  <2>3. CASE Unplaced
    BY <2>3, Untouched DEF Unplaced
  <2> QED
    BY <1>3, <2>1, <2>2, <2>3
<1>4. CASE BeginWeek
  <2>1. plan' = plan /\ week' = week + 1 /\ pc' = "requirement"
    BY <1>4 DEF BeginWeek
  <2>2. week \in Nat
    BY InputType DEF Inv, TypeOK, Request
  <2>3. \A l \in Range(plan) : l.week \in Nat
    <3>1. Range(plan) \subseteq Lesson
      BY RangeFinite DEF Inv, TypeOK
    <3> QED
      BY <3>1 DEF Lesson
  <2>4. \A l \in Range(plan) : l.week <= week' /\ l.week # week'
    BY <2>1, <2>2, <2>3 DEF Inv, OccKnowsPlan
  <2>5. OccKnowsPlan'
    BY <2>1, <2>4 DEF OccKnowsPlan
  <2> QED
    BY <2>1, <2>5 DEF Inv, NoDoubleBooking, ChosenFits
<1>5. CASE BeginJob
  <2>1. chosen' = <<>> /\ pc' = "position"
    BY <1>5 DEF BeginJob
  <2>2. ChosenFits'
    BY <2>1 DEF ChosenFits
  <2> QED
    BY <1>5, <2>2, Untouched DEF BeginJob
<1>6. CASE SkipPosition \/ NoRoom
  <2>1. /\ pc \in {"position", "room"} /\ pc' = "position"
        /\ UNCHANGED <<week, teacher, targets, occ, chosen, plan>>
    BY <1>6 DEF SkipPosition, NoRoom
  <2>2. ChosenFits'
    BY <2>1 DEF Inv, ChosenFits, OfJob, Time, TheClass
  <2> QED
    BY <2>1, <2>2, Untouched
<1>7. CASE TryPosition
  <2>1. /\ pc = "position" /\ pc' = "room" /\ ~Exhausted /\ ~Blocked(Position)
        /\ UNCHANGED <<input, slots, next, at, week, teacher, targets, occ, chosen, plan>>
    BY <1>7 DEF TryPosition
  <2>2. Position' = Position /\ Exhausted' = Exhausted
    BY <2>1 DEF Position, Exhausted, Positions, AllPositions, Runs, Current
  <2>3. Blocked(Position)' = Blocked(Position)
    BY <2>1, <2>2 DEF Blocked, Used, Time, TheClass
  <2>4. ChosenFits'
    BY <2>1, <2>2, <2>3 DEF Inv, ChosenFits, OfJob, Time, TheClass
  <2> QED
    BY <2>1, <2>4, Untouched
<1>8. CASE ChooseRoom
  BY <1>8, ChooseFits, Untouched DEF ChooseRoom
<1>9. CASE Commit
  <2>1. ChosenFits'
    BY <1>9 DEF Commit, ChosenFits
  <2> QED
    BY <1>9, <2>1, CommitKeepsApart
<1>10. CASE CancelContext \/ Finished \/ UNCHANGED vars
  <2>1. /\ UNCHANGED <<request, store, slots, next, at, week, teacher, targets, occ, chosen>>
        /\ pc' = pc /\ plan' = plan
    BY <1>10 DEF CancelContext, Finished, vars
  <2>2. Position' = Position /\ Exhausted' = Exhausted
    BY <2>1 DEF Position, Exhausted, Positions, AllPositions, Runs, Current
  <2>3. Blocked(Position)' = Blocked(Position)
    BY <2>1, <2>2 DEF Blocked, Used, Time, TheClass
  <2>4. ChosenFits'
    BY <2>1, <2>2, <2>3 DEF Inv, ChosenFits, OfJob, Time, TheClass
  <2> QED
    BY <2>1, <2>4, Untouched
<1> QED
  BY <1>1, <1>2, <1>3, <1>4, <1>5, <1>6, <1>7, <1>8, <1>9, <1>10
     DEF Next, Step

\* The marks and the plan always agree, and what the current job found is free in
\* the marks.
THEOREM PlannerInvariant == Spec => []Inv
<1>1. Init => Inv
  BY InitType DEF Init, Inv, OccKnowsPlan, ChosenFits, NoDoubleBooking, Range
<1>2. Inv /\ [Next]_vars => Inv'
  BY NextType, NextBooked DEF Inv
<1> QED
  BY <1>1, <1>2, PTL DEF Spec

\* Types, and how far each control point has got.
THEOREM PlannerTypes == Spec => []TypeOK
<1>1. Inv => TypeOK
  BY DEF Inv
<1> QED
  BY <1>1, PlannerInvariant, PTL

\* buildPlan never plans two lessons of one teacher, of one class or in one room
\* for the same time, whatever is asked for, whatever the catalog holds, in
\* whatever order its rows are read and whenever the context is canceled.
THEOREM NobodyBookedTwice == Spec => []NoDoubleBooking
<1>1. Inv => NoDoubleBooking
  BY DEF Inv
<1> QED
  BY <1>1, PlannerInvariant, PTL

-------------------------------------------------------------------------------
(* Rooms and times suit.                                                   *)

\* Why: a job is for a class and a teacher that were read and for a course that
\* exists, and a lesson was chosen for it only where it suits.
JobKnown ==
  pc \in {"position", "room", "commit"} =>
    CourseKnown(Current) /\ teacher \in Range(teachers) /\ \A i \in DOMAIN chosen : Suits(chosen[i])

\* The inductive invariant behind LessonsSuit: what was read stays as it is once
\* there are lessons.
SuitInv ==
  /\ pc = "load" => plan = <<>>
  /\ pc \in {"class", "position", "room", "commit"} =>
       \A i \in DOMAIN targets : targets[i] \in Range(classes)
  /\ JobKnown /\ LessonsSuit

\* While the plan and what was read stay, so do the lessons' rooms and times.
LEMMA StaySuitable ==
  ASSUME NEW l, UNCHANGED <<store, classes, teachers, rooms>>
  PROVE  Suits(l)' <=> Suits(l)
BY DEF Suits, KnownCourses

\* A requirement is for classes that were read.
LEMMA TargetsRead ==
  ASSUME classes \in Seq(Class), NEW r, NEW i \in DOMAIN TargetClasses(r)
  PROVE  TargetClasses(r)[i] \in Range(classes)
<1>1. CASE r.class = 0
  BY <1>1 DEF TargetClasses, Range
<1>2. CASE r.class # 0 /\ \E c \in Range(classes) : c.id = r.class
  <2> DEFINE class == CHOOSE c \in Range(classes) : c.id = r.class
  <2>1. class \in Range(classes)
    BY <1>2
  <2>2. TargetClasses(r) = <<class>>
    BY <1>2 DEF TargetClasses
  <2> HIDE DEF class
  <2>3. i \in DOMAIN <<class>>
    BY <2>2
  <2>4. <<class>>[i] = class
    BY <2>3
  <2> QED
    BY <2>1, <2>2, <2>4
<1>3. CASE r.class # 0 /\ ~\E c \in Range(classes) : c.id = r.class
  BY <1>3 DEF TargetClasses
<1> QED
  BY <1>1, <1>2, <1>3

\* The teacher of a job is one of those that were read.
LEMMA TeacherRead ==
  ASSUME teachers \in Seq(Teacher), teachers # <<>>, cursor \in Nat,
         NEW r, NEW t \in PickTeacher(r)
  PROVE  t \in Range(teachers)
<1>1. CASE r.teacher # 0
  BY <1>1 DEF PickTeacher
<1>2. CASE r.teacher = 0 /\ Able(r) # {}
  BY <1>2 DEF PickTeacher, First, Able, Range
<1>3. CASE r.teacher = 0 /\ Able(r) = {}
  <2>1. Len(teachers) \in Nat \ {0}
    OBVIOUS
  <2>2. (cursor % Len(teachers)) + 1 \in DOMAIN teachers
    BY <2>1
  <2> QED
    BY <1>3, <2>2 DEF PickTeacher, Range
<1> QED
  BY <1>1, <1>2, <1>3

\* A lesson at a free position of the job, in a suitable room, suits.
LEMMA ChosenSuits ==
  ASSUME Inv, SuitInv, pc = "room", NEW i \in Suitable(Position)
  PROVE  Suits(LessonAt(Position, rooms[i]))
<1> DEFINE l == LessonAt(Position, rooms[i])
           course == CHOOSE c \in KnownCourses : c.id = Current.course
<1>1. /\ l.slot = Position.slot /\ l.teacher = teacher.id /\ l.class = TheClass.id
      /\ l.room = rooms[i].id /\ l.course = Current.course
  BY DEF LessonAt
<1>2. rooms[i] \in Range(rooms) /\ Fits(rooms[i])
  BY DEF Suitable, Range
<1>3. CourseKnown(Current) /\ teacher \in Range(teachers)
  BY DEF SuitInv, JobKnown
<1>4. TheClass \in Range(classes)
  <2>1. targets # <<>> /\ targets \in Seq(Class)
    BY DEF Inv, TypeOK
  <2>2. 1 \in DOMAIN targets /\ TheClass = targets[1]
    BY <2>1 DEF TheClass
  <2> QED
    BY <2>2 DEF SuitInv
<1>5. course \in KnownCourses /\ course.id = Current.course
  BY <1>3 DEF CourseKnown
<1>6. TheClass.students <= rooms[i].capacity
      /\ (course.kind # 0 => course.kind \in rooms[i].kinds)
  BY <1>2 DEF Fits, Kind
<1>7. l.slot \notin teacher.unavailable
  BY <1>1 DEF Inv, ChosenFits, Blocked
<1> HIDE DEF l, course
<1>8. Suits(l)
  BY <1>1, <1>2, <1>3, <1>4, <1>5, <1>6, <1>7 DEF Suits
<1> QED
  BY <1>8 DEF l

\* Every step keeps the lessons suitable.
LEMMA NextSuits == Inv /\ SuitInv /\ [Next]_vars => SuitInv'
<1> SUFFICES ASSUME Inv, SuitInv, [Next]_vars
             PROVE  SuitInv'
  OBVIOUS
<1>t. TypeOK
  BY DEF Inv
<1> USE DEF Goto, input, loaded, job, result
<1>1. CASE Load
  <2>1. plan' = <<>> /\ pc' \in {"week", "failed"}
    BY <1>1 DEF Load, SuitInv
  <2> QED
    BY <2>1 DEF SuitInv, JobKnown, LessonsSuit, Range
<1> DEFINE Kept == UNCHANGED <<request, store, classes, teachers, rooms>>
<1>2. ASSUME Kept, plan' = plan, pc' \in {"week", "requirement", "done", "failed"}
      PROVE  SuitInv'
  BY <1>2, StaySuitable DEF SuitInv, JobKnown, LessonsSuit
<1>3. ASSUME Kept, plan' = plan, pc' = "class", \A i \in DOMAIN targets' : targets'[i] \in Range(classes)
      PROVE  SuitInv'
  BY <1>3, StaySuitable DEF SuitInv, JobKnown, LessonsSuit
<1>4. ASSUME pc = "class" \/ pc \in {"position", "commit"}, targets # <<>>
      PROVE  \A i \in DOMAIN Tail(targets) : Tail(targets)[i] \in Range(classes)
  <2>1. targets \in Seq(Class)
    BY <1>t DEF TypeOK
  <2>2. \A i \in DOMAIN Tail(targets) : i + 1 \in DOMAIN targets /\ Tail(targets)[i] = targets[i + 1]
    BY <1>4, <2>1
  <2> QED
    BY <1>4, <2>2 DEF SuitInv
<1>5. CASE RejectRequest \/ Interrupted
  BY <1>2, <1>5 DEF RejectRequest, Interrupted, Fail
<1>6. CASE BeginWeek \/ Return \/ EndWeek \/ EndRequirement
  BY <1>2, <1>6 DEF BeginWeek, Return, EndWeek, EndRequirement
<1>7. CASE BeginRequirement
  <2>1. Kept /\ plan' = plan /\ pc' = "class" /\ targets' = TargetClasses(Current)
    BY <1>7 DEF BeginRequirement
  <2> QED
    BY <1>3, <1>t, <2>1, TargetsRead DEF TypeOK
<1>8. CASE SkipClass \/ RejectCourse
  <2>1. Kept /\ plan' = plan /\ pc = "class" /\ pc' = "class" /\ targets # <<>> /\ targets' = Tail(targets)
    BY <1>8 DEF SkipClass, RejectCourse
  <2> QED
    BY <1>3, <1>4, <2>1
<1>9. CASE BeginJob
  <2>1. /\ Kept /\ plan' = plan /\ pc = "class" /\ pc' = "position" /\ targets' = targets
        /\ next' = next /\ chosen' = <<>> /\ CourseKnown(Current) /\ teacher' \in PickTeacher(Current)
    BY <1>9 DEF BeginJob
  <2>2. teacher' \in Range(teachers)
    BY <1>t, <2>1, TeacherRead DEF TypeOK
  <2>3. CourseKnown(Current)'
    BY <2>1 DEF CourseKnown, Current, KnownCourses
  <2> QED
    BY <2>1, <2>2, <2>3, StaySuitable DEF SuitInv, JobKnown, LessonsSuit
<1>10. CASE SkipPosition \/ TryPosition \/ NoRoom
  <2>1. /\ Kept /\ plan' = plan /\ pc \in {"position", "room"} /\ pc' \in {"position", "room"}
        /\ UNCHANGED <<targets, next, chosen, teacher>>
    BY <1>10 DEF SkipPosition, TryPosition, NoRoom
  <2>2. CourseKnown(Current)' = CourseKnown(Current)
    BY <2>1 DEF CourseKnown, Current, KnownCourses
  <2> QED
    BY <2>1, <2>2, StaySuitable DEF SuitInv, JobKnown, LessonsSuit
<1>11. CASE ChooseRoom
  <2>1. /\ Kept /\ plan' = plan /\ pc = "room" /\ pc' \in {"position", "commit"}
        /\ UNCHANGED <<targets, next, teacher>>
    BY <1>11 DEF ChooseRoom
  <2>2. PICK i \in First(Suitable(Position)) :
          chosen' = Append(chosen, LessonAt(Position, rooms[i]))
    BY <1>11 DEF ChooseRoom
  <2>3. Suits(LessonAt(Position, rooms[i]))
    BY <2>1, <2>2, ChosenSuits DEF First
  <2>4. /\ DOMAIN chosen' = DOMAIN chosen \cup {Len(chosen) + 1}
        /\ \A k \in DOMAIN chosen : chosen'[k] = chosen[k]
        /\ chosen'[Len(chosen) + 1] = LessonAt(Position, rooms[i])
    BY <1>t, <2>2 DEF TypeOK
  <2>5. \A k \in DOMAIN chosen' : Suits(chosen'[k])
    BY <2>1, <2>3, <2>4 DEF SuitInv, JobKnown
  <2>6. \A k \in DOMAIN chosen' : Suits(chosen[k])'
    BY <2>1, <2>5 DEF Suits, KnownCourses
  <2>7. CourseKnown(Current)' = CourseKnown(Current)
    BY <2>1 DEF CourseKnown, Current, KnownCourses
  <2> QED
    BY <2>1, <2>6, <2>7, StaySuitable DEF SuitInv, JobKnown, LessonsSuit
<1>12. CASE Unplaced
  <2>1. Kept /\ plan' = plan /\ pc = "position" /\ pc' = "class" /\ targets # <<>> /\ targets' = Tail(targets)
    BY <1>12, <1>t DEF Unplaced, TypeOK
  <2> QED
    BY <1>3, <1>4, <2>1
<1>13. CASE Commit
  <2>1. /\ Kept /\ plan' = plan \o chosen /\ pc = "commit" /\ pc' = "class"
        /\ targets # <<>> /\ targets' = Tail(targets)
    BY <1>13, <1>t DEF Commit, TypeOK
  <2>2. plan \in Seq(Lesson) /\ chosen \in Seq(Lesson)
    BY <1>t DEF TypeOK
  <2>3. \A l \in Range(plan') : l \in Range(plan) \/ \E k \in DOMAIN chosen : l = chosen[k]
    <3> SUFFICES ASSUME NEW n \in DOMAIN plan'
                 PROVE  plan'[n] \in Range(plan) \/ \E k \in DOMAIN chosen : plan'[n] = chosen[k]
      BY DEF Range
    <3>1. CASE n <= Len(plan)
      BY <2>1, <2>2, <3>1 DEF Range
    <3>2. CASE n > Len(plan)
      <4>1. n - Len(plan) \in DOMAIN chosen /\ plan'[n] = chosen[n - Len(plan)]
        BY <2>1, <2>2, <3>2
      <4> QED
        BY <4>1
    <3> QED
      BY <2>1, <2>2, <3>1, <3>2
  <2>4. \A l \in Range(plan') : Suits(l)
    BY <2>1, <2>3 DEF SuitInv, JobKnown, LessonsSuit
  <2>5. LessonsSuit'
    BY <2>1, <2>4, StaySuitable DEF LessonsSuit
  <2>6. \A i \in DOMAIN targets' : targets'[i] \in Range(classes)
    BY <1>4, <2>1
  <2> QED
    BY <2>1, <2>5, <2>6 DEF SuitInv, JobKnown
<1>14. CASE CancelContext \/ Finished \/ UNCHANGED vars
  <2>1. Kept /\ UNCHANGED <<plan, pc, targets, next, chosen, teacher>>
    BY <1>14 DEF CancelContext, Finished, vars
  <2>2. CourseKnown(Current)' = CourseKnown(Current)
    BY <2>1 DEF CourseKnown, Current, KnownCourses
  <2> QED
    BY <2>1, <2>2, StaySuitable DEF SuitInv, JobKnown, LessonsSuit
<1> QED
  BY <1>1, <1>5, <1>6, <1>7, <1>8, <1>9, <1>10, <1>11, <1>12, <1>13, <1>14 DEF Next, Step

\* A job is for a course that exists, a class and a teacher that were read, and
\* all that is found for it suits.
THEOREM PlannerSuits == Spec => []SuitInv
<1>1. Init => SuitInv
  BY DEF Init, SuitInv, JobKnown, LessonsSuit, Range
<1>2. Inv /\ SuitInv /\ [Next]_vars => SuitInv'
  BY NextSuits
<1> QED
  BY <1>1, <1>2, PlannerInvariant, PTL DEF Spec

\* buildPlan never gives a class a room that is too small for it or lacks what
\* its course needs, nor a teacher a time ruled out; with NobodyBookedTwice, the
\* report of conflicts on its plan is empty, for lessons with ids as without.
THEOREM LessonsAlwaysSuit == Spec => []LessonsSuit
<1>1. SuitInv => LessonsSuit
  BY DEF SuitInv
<1> QED
  BY <1>1, PlannerSuits, PTL

-------------------------------------------------------------------------------
(* Runs leave no position out.                                             *)

LEMMA Monotone ==
  ASSUME NEW b \in Nat, NEW m \in Nat, NEW n \in Nat, m <= n
  PROVE  m * b <= n * b /\ m * b \in Nat /\ n * b \in Nat
OBVIOUS

LEMMA Distributed ==
  ASSUME NEW b \in Nat, NEW m \in Nat
  PROVE  (m + 1) * b = m * b + b
OBVIOUS

\* Quotient and remainder are the only ones.
LEMMA DivisionIs ==
  ASSUME NEW b \in Nat \ {0}, NEW q \in Nat, NEW r \in 0 .. b - 1
  PROVE  (q * b + r) \div b = q /\ (q * b + r) % b = r
<1> DEFINE a == q * b + r
           d == a \div b
           m == a % b
<1>1. a \in Nat
  OBVIOUS
<1>2. d \in Nat /\ m \in 0 .. b - 1 /\ a = d * b + m
  <2> HIDE DEF a
  <2> QED
    BY <1>1
<1> HIDE DEF d, m
<1>3. d = q
  <2>1. CASE d < q
    <3>1. (d + 1) * b <= q * b
      BY <1>2, <2>1, Monotone
    <3>2. (d + 1) * b = d * b + b
      BY <1>2, Distributed
    <3> DEFINE db == d * b
               qb == q * b
    <3>3. db \in Nat /\ qb \in Nat
      BY <1>2
    <3>4. db + b <= qb /\ qb + r = db + m
      BY <1>2, <3>1, <3>2
    <3> HIDE DEF db, qb
    <3> QED
      BY <1>2, <3>3, <3>4
  <2>2. CASE q < d
    <3>1. (q + 1) * b <= d * b
      BY <1>2, <2>2, Monotone
    <3>2. (q + 1) * b = q * b + b
      BY Distributed
    <3> DEFINE db == d * b
               qb == q * b
    <3>3. db \in Nat /\ qb \in Nat
      BY <1>2
    <3>4. qb + b <= db /\ qb + r = db + m
      BY <1>2, <3>1, <3>2
    <3> HIDE DEF db, qb
    <3> QED
      BY <1>2, <3>3, <3>4
  <2> QED
    BY <1>2, <2>1, <2>2
<1>4. m = r
  <2> DEFINE qb == q * b
  <2>1. qb \in Nat /\ qb + r = qb + m
    BY <1>2, <1>3
  <2> HIDE DEF qb
  <2> QED
    BY <1>2, <2>1
<1> QED
  BY <1>3, <1>4 DEF d, m

\* The last index of a grid of m rows is the end of its last row.
LEMMA InGrid ==
  ASSUME NEW b \in Nat \ {0}, NEW m \in Nat, NEW d \in 0 .. m - 1, NEW k \in 0 .. b - 1
  PROVE  d * b + k \in 0 .. m * b - 1
<1>1. (d + 1) * b <= m * b
  BY Monotone
<1>2. (d + 1) * b = d * b + b
  BY Distributed
<1> DEFINE db == d * b
           mb == m * b
<1>3. db \in Nat /\ mb \in Nat /\ db + b <= mb
  BY <1>1, <1>2
<1> HIDE DEF db, mb
<1>4. db + k \in 0 .. mb - 1
  BY <1>3
<1> QED
  BY <1>4 DEF db, mb

\* Where the search looks for a job, each slot of each day occurs.
LEMMA EveryPosition ==
  ASSUME request \in Request, slots \in Seq(Nat), NEW r \in Requirement,
         NEW p \in Range(AllPositions)
  PROVE  \E n \in 1 .. Len(Positions(r)) : Positions(r)[n] = p
<1>1. Positions(r) \in Seq(Place)
  BY PositionsType
<1> DEFINE size == Len(slots)
           b == r.periods
           starts == size - b + 1
           perDay == starts * b
           k(n) == (n - 1) % perDay
           position(n) == [day |-> ((n - 1) \div perDay) + 1,
                           slot |-> slots[(k(n) \div b) + (k(n) % b) + 1]]
<1>2. size \in Nat /\ request.days \in Nat /\ b \in Nat \ {0}
  BY DEF Request, Requirement
<1>3. CASE Positions(r) = AllPositions
  <2>1. DOMAIN Positions(r) = 1 .. Len(Positions(r))
    BY <1>1
  <2> QED
    BY <1>3, <2>1 DEF Range
<1>4. CASE b \in 2 .. size /\ Positions(r) = Runs(b)
  <2>1. PICK i \in 1 .. request.days * size :
          p = [day |-> ((i - 1) \div size) + 1, slot |-> slots[((i - 1) % size) + 1]]
    BY DEF Range, AllPositions
  <2> DEFINE d == (i - 1) \div size
             j == (i - 1) % size
             s == IF j <= size - b THEN j ELSE size - b
             n == d * perDay + (s * b + (j - s)) + 1
  <2>2. size \in Nat \ {0} /\ starts \in Nat \ {0} /\ b \in Nat \ {0}
    BY <1>2, <1>4
  <2>3. i - 1 \in Nat /\ i - 1 < request.days * size
    BY <1>2, <2>1
  <2>4. d \in 0 .. request.days - 1 /\ j \in 0 .. size - 1
    <3>1. d \in Nat /\ d < request.days
      BY <1>2, <2>2, <2>3, Quotient
    <3>2. j \in 0 .. size - 1
      BY <2>2, <2>3, DivisionType
    <3> HIDE DEF d, j
    <3> QED
      BY <1>2, <3>1, <3>2
  <2> HIDE DEF d, j
  <2>5. s \in 0 .. starts - 1 /\ j - s \in 0 .. b - 1 /\ s + (j - s) + 1 = j + 1
    <3> HIDE DEF size, b
    <3>1. j \in Nat /\ j < size /\ size \in Nat /\ b \in Nat /\ 2 <= b /\ b <= size
      BY <1>2, <1>4, <2>4
    <3>2. CASE j <= size - b
      BY <3>1, <3>2
    <3>3. CASE j > size - b
      BY <3>1, <3>3
    <3> QED
      BY <3>1, <3>2, <3>3
  <2>6. s * b + (j - s) \in 0 .. perDay - 1
    <3> DEFINE o == j - s
    <3> HIDE DEF s, starts, o, b
    <3>1. s * b + o \in 0 .. starts * b - 1
      BY <2>2, <2>5, InGrid DEF o
    <3> QED
      BY <3>1 DEF o
  <2>7. perDay \in Nat \ {0}
    <3> HIDE DEF starts, b
    <3> QED
      BY <2>2, ProductPositive
  <2>8. n - 1 \in 0 .. request.days * perDay - 1 /\ n - 1 = d * perDay + (s * b + (j - s))
    <3> DEFINE k0 == s * b + (j - s)
    <3> HIDE DEF perDay, k0
    <3>1. d * perDay + k0 \in 0 .. request.days * perDay - 1
      BY <1>2, <2>4, <2>6, <2>7, InGrid DEF k0
    <3> DEFINE x == d * perDay + k0
    <3> HIDE DEF x
    <3>2. x + 1 - 1 = x
      BY <3>1 DEF x
    <3> QED
      BY <3>1, <3>2 DEF k0, x
  <2>9. (n - 1) \div perDay = d /\ k(n) = s * b + (j - s)
    <3> DEFINE k0 == s * b + (j - s)
               x == n - 1
    <3> HIDE DEF perDay, k0, n
    <3>1. x = d * perDay + k0 /\ k0 \in 0 .. perDay - 1 /\ d \in Nat
      BY <2>4, <2>6, <2>8 DEF k0
    <3>2. (d * perDay + k0) \div perDay = d /\ (d * perDay + k0) % perDay = k0
      BY <2>7, <3>1, DivisionIs
    <3> HIDE DEF x
    <3>3. x \div perDay = d /\ x % perDay = k0
      BY <3>1, <3>2
    <3> QED
      BY <3>3 DEF x, k0
  <2>10. k(n) \div b = s /\ k(n) % b = j - s
    <3> DEFINE o == j - s
    <3> HIDE DEF s, o, b, n, k
    <3>1. k(n) = s * b + o /\ o \in 0 .. b - 1 /\ s \in Nat
      BY <2>2, <2>5, <2>9 DEF o
    <3>2. (s * b + o) \div b = s /\ (s * b + o) % b = o
      BY <2>2, <3>1, DivisionIs
    <3> QED
      BY <3>1, <3>2 DEF o
  <2>11. position(n) = p
    <3> HIDE DEF n, k, s, perDay
    <3> QED
      BY <2>1, <2>5, <2>9, <2>10 DEF d, j
  <2>12. n \in 1 .. request.days * perDay
    <3> DEFINE all == request.days * perDay
    <3>1. all \in Nat /\ n \in Int
      <4>1. all \in Nat
        <5> HIDE DEF perDay
        <5> QED
          BY <1>2, <2>7
      <4>2. n \in Int
        <5> DEFINE k0 == s * b + (j - s)
        <5> HIDE DEF perDay, k0
        <5> QED
          BY <2>4, <2>6, <2>7 DEF k0
      <4> QED
        BY <4>1, <4>2
    <3> HIDE DEF all, n
    <3>2. n - 1 \in 0 .. all - 1
      BY <2>8 DEF all
    <3>3. n \in 1 .. all
      BY <3>1, <3>2
    <3> QED
      BY <3>3 DEF all
  <2>13. Runs(b) = [m \in 1 .. request.days * perDay |-> position(m)]
    BY Zenon DEF Runs
  <2> HIDE DEF position, n, perDay
  <2>14. n \in DOMAIN Positions(r) /\ Positions(r)[n] = p
    BY <1>4, <2>11, <2>12, <2>13
  <2> QED
    BY <1>1, <2>14
<1> QED
  BY <1>3, <1>4 DEF Positions

-------------------------------------------------------------------------------
(* The invariant.                                                          *)

\* Every mark of this week comes from a lesson of the plan.
MarksKnown ==
  /\ \A m \in occ.teacher : \E l \in Range(plan) : l.week = week /\ m = <<Time(l), l.teacher>>
  /\ \A m \in occ.class : \E l \in Range(plan) : l.week = week /\ m = <<Time(l), l.class>>
  /\ \A m \in occ.room : \E l \in Range(plan) : l.week = week /\ m = <<Time(l), l.room>>

NoPlace(p) == Blocked(p) \/ Suitable(p) = {}

\* Unless the search was interrupted, the positions behind it had no place.
Searched ==
  pc \in {"position", "room"} /\ ~canceled =>
    \A n \in 1 .. at - 1 : NoPlace(Positions(Current)[n])

Conflict == [reason : {"unplaced", "course not found"}, course : Nat, week : Nat, periods : Nat]

SearchInv == MarksKnown /\ Searched /\ conflicts \in Seq(Conflict)

\* A job's marks and its lessons are kept together.
LEMMA CommitMarks ==
  ASSUME Inv, MarksKnown, Commit
  PROVE  MarksKnown'
<1>1. plan \in Seq(Lesson) /\ chosen \in Seq(Lesson) /\ plan' = plan \o chosen /\ week' = week
  BY DEF Inv, TypeOK, Commit
<1>2. \A l \in Range(chosen) : l.week = week
  BY DEF Inv, ChosenFits, OfJob, Commit, Range
<1>3. Range(plan) \subseteq Range(plan') /\ Range(chosen) \subseteq Range(plan')
  <2>1. ASSUME NEW i \in DOMAIN plan PROVE plan[i] \in Range(plan')
    <3>1. i \in DOMAIN plan' /\ plan'[i] = plan[i]
      BY <1>1
    <3> QED
      BY <3>1 DEF Range
  <2>2. ASSUME NEW i \in DOMAIN chosen PROVE chosen[i] \in Range(plan')
    <3>1. Len(plan) + i \in DOMAIN plan' /\ plan'[Len(plan) + i] = chosen[i]
      BY <1>1
    <3> QED
      BY <3>1 DEF Range
  <2> QED
    BY <2>1, <2>2 DEF Range
<1>4. \A l : Time(l)' = Time(l)
  BY <1>1 DEF Time
<1>5. occ' = [teacher |-> occ.teacher \cup {<<Time(l), l.teacher>> : l \in Range(chosen)},
              class |-> occ.class \cup {<<Time(l), l.class>> : l \in Range(chosen)},
              room |-> occ.room \cup {<<Time(l), l.room>> : l \in Range(chosen)}]
  BY DEF Commit
<1>6. \A m \in occ'.teacher : \E l \in Range(plan') : l.week = week /\ m = <<Time(l), l.teacher>>
  <2>1. occ'.teacher = occ.teacher \cup {<<Time(l), l.teacher>> : l \in Range(chosen)}
    BY <1>5
  <2> QED
    BY <1>2, <1>3, <2>1 DEF MarksKnown
<1>7. \A m \in occ'.class : \E l \in Range(plan') : l.week = week /\ m = <<Time(l), l.class>>
  <2>1. occ'.class = occ.class \cup {<<Time(l), l.class>> : l \in Range(chosen)}
    BY <1>5
  <2> QED
    BY <1>2, <1>3, <2>1 DEF MarksKnown
<1>8. \A m \in occ'.room : \E l \in Range(plan') : l.week = week /\ m = <<Time(l), l.room>>
  <2>1. occ'.room = occ.room \cup {<<Time(l), l.room>> : l \in Range(chosen)}
    BY <1>5
  <2> QED
    BY <1>2, <1>3, <2>1 DEF MarksKnown
<1> QED
  BY <1>1, <1>4, <1>6, <1>7, <1>8 DEF MarksKnown

\* No other step marks anything for good.
LEMMA NextMarks ==
  ASSUME Inv, MarksKnown, [Next]_vars
  PROVE  MarksKnown'
<1> USE DEF Goto, input, loaded, job, result
<1>1. CASE BeginWeek
  BY <1>1 DEF BeginWeek, Nobody, MarksKnown
<1>2. CASE Commit
  BY <1>2, CommitMarks
<1>3. CASE UNCHANGED <<occ, plan, week>>
  BY <1>3 DEF MarksKnown, Time
<1>4. CASE Load \/ RejectRequest \/ Return \/ BeginRequirement \/ EndWeek \/ EndRequirement \/ Interrupted
  BY <1>3, <1>4 DEF Load, RejectRequest, Return, BeginRequirement, EndWeek, EndRequirement,
                    Interrupted, Fail
<1>5. CASE SkipClass \/ RejectCourse \/ BeginJob
  BY <1>3, <1>5 DEF SkipClass, RejectCourse, BeginJob
<1>6. CASE SkipPosition \/ TryPosition \/ NoRoom \/ ChooseRoom \/ Unplaced
  BY <1>3, <1>6 DEF SkipPosition, TryPosition, NoRoom, ChooseRoom, Unplaced
<1>7. CASE CancelContext \/ Finished \/ UNCHANGED vars
  BY <1>3, <1>7 DEF CancelContext, Finished, vars
<1> QED
  BY <1>1, <1>2, <1>4, <1>5, <1>6, <1>7 DEF Next, Step

\* The search leaves a position behind only if there is no place at it.
LEMMA NextSearched ==
  ASSUME Inv, Searched, [Next]_vars
  PROVE  Searched'
<1> USE DEF Goto, input, loaded, job, result
<1>t. at \in Nat \ {0} /\ Len(chosen) \in Nat
  BY DEF Inv, TypeOK
<1> DEFINE Same == UNCHANGED <<request, store, rooms, slots, week, next, targets, teacher, chosen, occ>>
<1>1. ASSUME Same
      PROVE  \A n : NoPlace(Positions(Current)[n])' = NoPlace(Positions(Current)[n])
  <2>1. Current' = Current /\ Positions(Current)' = Positions(Current)
    BY <1>1 DEF Current, Positions, Runs, AllPositions
  <2>2. \A p : Blocked(p)' = Blocked(p)
    BY <1>1 DEF Blocked, Used, Time, TheClass
  <2>3. \A p : Suitable(p)' = Suitable(p)
    BY <1>1 DEF Suitable, Fits, Kind, Current, KnownCourses, Time, TheClass
  <2> QED
    BY <2>1, <2>2, <2>3 DEF NoPlace
<1>2. CASE SkipPosition \/ (NoRoom /\ ~canceled)
  <2>1. Same /\ pc \in {"position", "room"} /\ ~canceled /\ at' = at + 1 /\ NoPlace(Position)
    BY <1>2 DEF SkipPosition, NoRoom, NoPlace
  <2>2. \A n \in 1 .. at' - 1 : n \in 1 .. at - 1 \/ n = at
    BY <1>t, <2>1
  <2>3. \A n \in 1 .. at' - 1 : NoPlace(Positions(Current)[n])
    BY <2>1, <2>2 DEF Searched, Position
  <2> QED
    BY <1>1, <2>1, <2>3 DEF Searched
<1>3. CASE TryPosition
  <2>1. Same /\ pc = "position" /\ ~canceled /\ at' = at
    BY <1>3 DEF TryPosition
  <2> QED
    BY <1>1, <2>1 DEF Searched
<1>4. CASE ChooseRoom \/ BeginJob
  <2>1. at' = 1
    BY <1>4 DEF ChooseRoom, BeginJob
  <2> QED
    BY <2>1 DEF Searched
<1>5. CASE CancelContext \/ (NoRoom /\ canceled)
  <2>1. canceled'
    BY <1>5 DEF CancelContext, NoRoom
  <2> QED
    BY <2>1 DEF Searched
<1>6. CASE Finished \/ UNCHANGED vars
  <2>1. Same /\ UNCHANGED <<pc, canceled, at>>
    BY <1>6 DEF Finished, vars
  <2> QED
    BY <1>1, <2>1 DEF Searched
<1>7. CASE pc' \notin {"position", "room"}
  BY <1>7 DEF Searched
<1>8. CASE Load \/ RejectRequest \/ BeginWeek \/ Return \/ BeginRequirement \/ EndWeek \/ Interrupted
  BY <1>7, <1>8 DEF Load, RejectRequest, BeginWeek, Return, BeginRequirement, EndWeek,
                    Interrupted, Fail
<1>9. CASE EndRequirement \/ SkipClass \/ RejectCourse \/ Unplaced \/ Commit
  BY <1>7, <1>9 DEF EndRequirement, SkipClass, RejectCourse, Unplaced, Commit
<1> QED
  BY <1>2, <1>3, <1>4, <1>5, <1>6, <1>8, <1>9 DEF Next, Step

\* What is reported, and by which steps.
LEMMA NextReported ==
  ASSUME Inv, conflicts \in Seq(Conflict), [Next]_vars
  PROVE  /\ conflicts' \in Seq(Conflict)
         /\ ~Unplaced => ~Reported("unplaced")
<1> USE DEF Goto, input, loaded, job, result
<1>1. CASE conflicts' = conflicts
  <2>1. ~(Len(conflicts') > Len(conflicts))
    BY <1>1
  <2> QED
    BY <1>1, <2>1 DEF Reported
<1>2. CASE RejectCourse \/ Unplaced
  <2>1. pc \in {"class", "position"} /\ request \in Request /\ Current \in Requirement
    BY <1>2, InputType, CurrentType DEF Inv, TypeOK, RejectCourse, Unplaced
  <2>2. week \in Nat
    BY <2>1 DEF Inv, TypeOK, Request
  <2>3. UnknownCourse \in Conflict /\ Unplaceable \in Conflict /\ UnknownCourse.reason # "unplaced"
    BY <2>1, <2>2 DEF UnknownCourse, Unplaceable, Conflict, Requirement
  <2>4. CASE RejectCourse
    <3>1. conflicts' = Append(conflicts, UnknownCourse)
      BY <2>4 DEF RejectCourse
    <3> HIDE DEF UnknownCourse
    <3>2. conflicts' \in Seq(Conflict) /\ conflicts'[Len(conflicts')] = UnknownCourse
      BY <2>3, <3>1
    <3> QED
      BY <2>3, <3>2 DEF Reported
  <2>5. CASE Unplaced
    <3>1. conflicts' = Append(conflicts, Unplaceable)
      BY <2>5 DEF Unplaced
    <3> QED
      BY <2>3, <2>5, <3>1
  <2> QED
    BY <1>2, <2>4, <2>5
<1>3. CASE Load \/ RejectRequest \/ BeginWeek \/ Return \/ BeginRequirement \/ EndWeek \/ EndRequirement
            \/ Interrupted
  BY <1>1, <1>3 DEF Load, RejectRequest, BeginWeek, Return, BeginRequirement, EndWeek,
                    EndRequirement, Interrupted, Fail
<1>4. CASE SkipClass \/ BeginJob \/ SkipPosition \/ TryPosition \/ NoRoom \/ ChooseRoom \/ Commit
  BY <1>1, <1>4 DEF SkipClass, BeginJob, SkipPosition, TryPosition, NoRoom, ChooseRoom, Commit
<1>5. CASE CancelContext \/ Finished \/ UNCHANGED vars
  BY <1>1, <1>5 DEF CancelContext, Finished, vars
<1> QED
  BY <1>2, <1>3, <1>4, <1>5 DEF Next, Step

-------------------------------------------------------------------------------
\* Where marks and job leave no place, the lessons leave none.
LEMMA NoPlaceIsTaken ==
  ASSUME Inv, MarksKnown, pc = "position", NEW p, NoPlace(p)
  PROVE  ~FreeFor(p, Range(plan) \cup Range(chosen))
<1> DEFINE there == {l \in Range(plan) \cup Range(chosen) : Time(l) = Time(p) /\ l.week = week}
<1> SUFFICES ASSUME FreeFor(p, Range(plan) \cup Range(chosen))
             PROVE  FALSE
  OBVIOUS
<1>1. /\ p.slot \notin teacher.unavailable
      /\ \A l \in there : l.teacher # teacher.id /\ l.class # TheClass.id
      /\ \E room \in Range(rooms) : Fits(room) /\ \A l \in there : l.room # room.id
  BY DEF FreeFor
<1>2. \A l \in Range(chosen) : l.week = week /\ l.teacher = teacher.id
  BY DEF Inv, ChosenFits, OfJob, Range
<1>3. CASE Used(p)
  <2>1. PICK l \in Range(chosen) : l.day = p.day /\ l.slot = p.slot
    BY <1>3 DEF Used
  <2>2. l \in there
    BY <1>2, <2>1 DEF Time
  <2> QED
    BY <1>1, <1>2, <2>1, <2>2
<1>4. CASE <<Time(p), teacher.id>> \in occ.teacher
  <2>1. PICK l \in Range(plan) : l.week = week /\ <<Time(p), teacher.id>> = <<Time(l), l.teacher>>
    BY <1>4 DEF MarksKnown
  <2> QED
    BY <1>1, <2>1
<1>5. CASE <<Time(p), TheClass.id>> \in occ.class
  <2>1. PICK l \in Range(plan) : l.week = week /\ <<Time(p), TheClass.id>> = <<Time(l), l.class>>
    BY <1>5 DEF MarksKnown
  <2> QED
    BY <1>1, <2>1
<1>6. CASE Suitable(p) = {}
  <2>1. PICK room \in Range(rooms) : Fits(room) /\ \A l \in there : l.room # room.id
    BY <1>1
  <2>2. PICK i \in DOMAIN rooms : room = rooms[i]
    BY <2>1 DEF Range
  <2>3. <<Time(p), room.id>> \in occ.room
    BY <1>6, <2>1, <2>2 DEF Suitable
  <2>4. PICK l \in Range(plan) : l.week = week /\ <<Time(p), room.id>> = <<Time(l), l.room>>
    BY <2>3 DEF MarksKnown
  <2> QED
    BY <2>1, <2>4
<1> QED
  BY <1>1, <1>3, <1>4, <1>5, <1>6 DEF NoPlace, Blocked

\* A job that is given up had no place anywhere.
LEMMA UnplacedMeans ==
  ASSUME Inv, SearchInv, Unplaced, NEW p \in Range(AllPositions)
  PROVE  ~FreeFor(p, Range(plan) \cup Range(chosen))
<1>1. pc = "position" /\ Exhausted /\ ~canceled
  BY DEF Unplaced
<1>2. request \in Request /\ slots \in Seq(Nat) /\ Current \in Requirement /\ at \in Nat \ {0}
  BY <1>1, InputType, CurrentType DEF Inv, TypeOK
<1>3. PICK n \in 1 .. Len(Positions(Current)) : Positions(Current)[n] = p
  BY <1>2, EveryPosition
<1>4. Len(Positions(Current)) \in Nat
  BY <1>2, PositionsType
<1>5. n \in 1 .. at - 1
  BY <1>1, <1>2, <1>4 DEF Exhausted
<1>6. NoPlace(p)
  BY <1>1, <1>3, <1>5 DEF SearchInv, Searched
<1> QED
  BY <1>1, <1>6, NoPlaceIsTaken DEF SearchInv

\* The marks are those of the plan, and what was searched holds no place.
THEOREM PlannerSearch == Spec => []SearchInv
<1>1. Init => SearchInv
  <2> SUFFICES ASSUME Init
               PROVE  SearchInv
    OBVIOUS
  <2>1. conflicts \in Seq(Conflict)
    BY DEF Init
  <2> QED
    BY <2>1 DEF Init, SearchInv, MarksKnown, Searched, Nobody
<1>2. Inv /\ SearchInv /\ [Next]_vars => SearchInv'
  BY NextMarks, NextSearched, NextReported DEF SearchInv
<1> QED
  BY <1>1, <1>2, PlannerInvariant, PTL DEF Spec

\* buildPlan reports a job as impossible only if no slot of any day had its
\* teacher, its class and a suitable room free of all lessons planned so far: the
\* marks are never more than the plan, the runs of consecutive periods leave no
\* slot out, and an interrupted search reports nothing.
THEOREM UnplacedIsAlwaysReal == Spec => UnplacedIsReal
<1>1. Inv /\ SearchInv /\ [Next]_vars =>
        [Reported("unplaced") => \A p \in Range(AllPositions) :
                                   ~FreeFor(p, Range(plan) \cup Range(chosen))]_vars
  BY NextReported, UnplacedMeans DEF SearchInv
<1> QED
  BY <1>1, PlannerInvariant, PlannerSearch, PTL DEF Spec, UnplacedIsReal

===============================================================================
