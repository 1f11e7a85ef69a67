---------------------------- MODULE PlannerWorkProofs ----------------------------
(***************************************************************************)
(* The work of Planner, for every request and every catalog: what is       *)
(* required is what was asked for, each period of it is planned or refused,*)
(* and every step leaves less of it to do.                                 *)
(***************************************************************************)
EXTENDS PlannerProofs

-------------------------------------------------------------------------------
(* Counting.                                                               *)

\* Finitely many finite sets have finitely many elements.
LEMMA UnionFinite ==
  ASSUME NEW I, IsFiniteSet(I), NEW f, f = [i \in I |-> f[i]], \A i \in I : IsFiniteSet(f[i])
  PROVE  IsFiniteSet(UNION {f[i] : i \in I})
<1> DEFINE image == {f[i] : i \in I}
<1>1. f \in Surjection(I, image)
  BY DEF Surjection
<1>2. IsFiniteSet(image)
  BY <1>1, FS_Surjection
<1> QED
  BY <1>2, FS_UNION

\* What is added and was not there counts.
LEMMA CountAdded ==
  ASSUME NEW S, IsFiniteSet(S), NEW T, IsFiniteSet(T), S \cap T = {}
  PROVE  /\ IsFiniteSet(S \cup T)
         /\ Cardinality(S \cup T) = Cardinality(S) + Cardinality(T)
         /\ Cardinality(S) \in Nat /\ Cardinality(T) \in Nat
<1>1. Cardinality(S \cup T) = Cardinality(S) + Cardinality(T) - Cardinality({})
  BY FS_Union
<1>2. Cardinality({}) = 0
  BY FS_EmptySet
<1>3. Cardinality(S) \in Nat /\ Cardinality(T) \in Nat
  BY FS_CardinalityType
<1> QED
  BY <1>1, <1>2, <1>3, FS_Union

\* A row of n pairs has n elements.
LEMMA CountRow ==
  ASSUME NEW x, NEW S, IsFiniteSet(S)
  PROVE  IsFiniteSet({x} \X S) /\ Cardinality({x} \X S) = Cardinality(S)
<1>1. IsFiniteSet({x}) /\ Cardinality({x}) = 1 /\ Cardinality(S) \in Nat
  BY FS_Singleton, FS_CardinalityType
<1> QED
  BY <1>1, FS_Product

LEMMA CountPeriods ==
  ASSUME NEW n \in Nat
  PROVE  IsFiniteSet(1 .. n) /\ Cardinality(1 .. n) = n
BY FS_Interval

-------------------------------------------------------------------------------
(* Every period that is required is planned or refused.                    *)

\* A report adds its periods to what is refused.
LEMMA RefusedAppend ==
  ASSUME NEW c \in Seq(Conflict), NEW x \in Conflict
  PROVE  /\ IsFiniteSet(Refused(c)) /\ Cardinality(Refused(c)) \in Nat
         /\ Cardinality(Refused(Append(c, x))) = Cardinality(Refused(c)) + x.periods
<1> DEFINE row(k) == {k} \X (1 .. c[k].periods)
           added == {Len(c) + 1} \X (1 .. x.periods)
<1>1. \A k \in DOMAIN c : c[k].periods \in Nat
  <2>1. \A k \in DOMAIN c : c[k] \in Conflict
    OBVIOUS
  <2> QED
    BY <2>1 DEF Conflict
<1>2. IsFiniteSet(Refused(c))
  <2> DEFINE f == [k \in DOMAIN c |-> row(k)]
  <2>1. IsFiniteSet(DOMAIN c)
    BY FS_Interval
  <2>2. \A k \in DOMAIN c : IsFiniteSet(f[k])
    BY <1>1, CountRow, CountPeriods
  <2>5. f = [k \in DOMAIN c |-> f[k]]
    OBVIOUS
  <2> HIDE DEF f, row
  <2>3. IsFiniteSet(UNION {f[k] : k \in DOMAIN c})
    BY <2>1, <2>2, <2>5, UnionFinite
  <2>4. UNION {f[k] : k \in DOMAIN c} = Refused(c)
    BY DEF f, row, Refused
  <2> QED
    BY <2>3, <2>4
<1>3. Refused(Append(c, x)) = Refused(c) \cup added
  <2> DEFINE d == Append(c, x)
  <2>1. /\ DOMAIN d = DOMAIN c \cup {Len(c) + 1} /\ d[Len(c) + 1] = x
        /\ \A k \in DOMAIN c : d[k] = c[k]
    OBVIOUS
  <2> HIDE DEF d
  <2>2. Refused(d) = Refused(c) \cup added
    BY <2>1 DEF Refused
  <2> QED
    BY <2>2 DEF d
<1>4. Refused(c) \cap added = {}
  <2>1. Len(c) + 1 \notin DOMAIN c
    OBVIOUS
  <2> QED
    BY <2>1 DEF Refused
<1>5. IsFiniteSet(added) /\ Cardinality(added) = x.periods
  BY CountRow, CountPeriods DEF Conflict
<1> HIDE DEF added
<1> QED
  BY <1>2, <1>3, <1>4, <1>5, CountAdded

\* Why: the periods of the current job are required and neither planned nor
\* refused yet.
Accounting ==
  pc # "failed" =>
    required = Len(plan) + Cardinality(Refused(conflicts)) + (IF InJob THEN Current.periods ELSE 0)

\* Every step accounts for what it requires, plans and refuses.
LEMMA NextAccounts ==
  ASSUME Inv, conflicts \in Seq(Conflict), Accounting, [Next]_vars
  PROVE  Accounting'
<1> DEFINE refused == Cardinality(Refused(conflicts))
<1>t. TypeOK /\ request \in Request
  BY InputType DEF Inv, TypeOK
<1>n. Len(plan) \in Nat /\ refused \in Nat /\ required \in Nat
  <2>1. [reason |-> "unplaced", course |-> 0, week |-> 0, periods |-> 0] \in Conflict
    BY DEF Conflict
  <2>2. refused \in Nat
    BY <2>1, RefusedAppend
  <2> QED
    BY <1>t, <2>2 DEF TypeOK
<1>c. pc \in {"class", "position", "commit"} => Current.periods \in Nat
  <2>1. pc \in {"class", "position", "commit"} => Current \in Requirement
    BY <1>t, CurrentType DEF TypeOK
  <2> QED
    BY <2>1 DEF Requirement
<1> USE DEF Goto, input, loaded, job, result
<1>1. CASE pc' = "failed"
  BY <1>1 DEF Accounting
<1>2. ASSUME UNCHANGED result, pc # "failed", ~InJob, ~InJob'
      PROVE  Accounting'
  BY <1>2 DEF Accounting
<1>3. ASSUME UNCHANGED <<result, request, next>>, pc # "failed", InJob <=> InJob'
      PROVE  Accounting'
  BY <1>3 DEF Accounting, Current
<1>4. CASE Load \/ RejectRequest \/ BeginWeek \/ Return \/ BeginRequirement \/ EndWeek
           \/ EndRequirement \/ SkipClass \/ Interrupted
  BY <1>1, <1>2, <1>4 DEF Load, RejectRequest, BeginWeek, Return, BeginRequirement, EndWeek,
                          EndRequirement, SkipClass, Interrupted, Fail, InJob
<1>5. CASE SkipPosition \/ TryPosition \/ NoRoom \/ ChooseRoom
  <2>1. UNCHANGED <<result, request, next>> /\ pc # "failed" /\ InJob /\ InJob'
    BY <1>5 DEF SkipPosition, TryPosition, NoRoom, ChooseRoom, InJob
  <2> QED
    BY <1>3, <2>1
<1>6. CASE CancelContext \/ Finished \/ UNCHANGED vars
  <2>1. UNCHANGED <<result, request, next, pc>>
    BY <1>6 DEF CancelContext, Finished, vars
  <2> QED
    BY <1>1, <1>3, <2>1 DEF InJob
<1>7. CASE RejectCourse
  <2>1. /\ pc = "class" /\ pc' = "class" /\ plan' = plan /\ required' = required
        /\ conflicts' = Append(conflicts, UnknownCourse)
    BY <1>7 DEF RejectCourse
  <2>2. UnknownCourse \in Conflict /\ UnknownCourse.periods = 0
    <3>1. Current \in Requirement /\ week \in Nat
      BY <2>1, <1>t, CurrentType DEF TypeOK, Request
    <3> QED
      BY <3>1 DEF UnknownCourse, Conflict, Requirement
  <2>3. Cardinality(Refused(conflicts')) = refused
    BY <1>n, <2>1, <2>2, RefusedAppend
  <2> QED
    BY <2>1, <2>3 DEF Accounting, InJob
<1>8. CASE BeginJob
  <2>1. /\ pc = "class" /\ pc' = "position" /\ UNCHANGED <<plan, conflicts, request, next>>
        /\ required' = required + Current.periods
    BY <1>8 DEF BeginJob
  <2>2. required = Len(plan) + refused
    BY <1>n, <2>1 DEF Accounting, InJob
  <2> QED
    BY <1>n, <1>c, <2>1, <2>2 DEF Accounting, InJob, Current
<1>9. CASE Unplaced
  <2>1. /\ pc = "position" /\ pc' = "class" /\ plan' = plan /\ required' = required
        /\ conflicts' = Append(conflicts, Unplaceable)
    BY <1>9 DEF Unplaced
  <2>2. Unplaceable \in Conflict /\ Unplaceable.periods = Current.periods
    <3>1. Current \in Requirement /\ week \in Nat
      BY <2>1, <1>t, CurrentType DEF TypeOK, Request
    <3> QED
      BY <3>1 DEF Unplaceable, Conflict, Requirement
  <2>3. Cardinality(Refused(conflicts')) = refused + Current.periods
    BY <2>1, <2>2, RefusedAppend
  <2>4. required = Len(plan) + refused + Current.periods
    BY <2>1 DEF Accounting, InJob
  <2> QED
    BY <1>n, <1>c, <2>1, <2>3, <2>4 DEF Accounting, InJob
<1>10. CASE Commit
  <2>1. /\ pc = "commit" /\ pc' = "class" /\ plan' = plan \o chosen
        /\ UNCHANGED <<required, conflicts>>
    BY <1>10 DEF Commit
  <2>2. Len(plan') = Len(plan) + Current.periods
    <3>1. plan \in Seq(Lesson) /\ chosen \in Seq(Lesson) /\ Len(chosen) = Current.periods
      BY <1>t, <2>1 DEF TypeOK
    <3>2. Len(plan \o chosen) = Len(plan) + Len(chosen)
      BY <3>1
    <3> QED
      BY <2>1, <3>1, <3>2
  <2>3. required = Len(plan) + refused + Current.periods
    BY <2>1 DEF Accounting, InJob
  <2> QED
    BY <1>n, <1>c, <2>1, <2>2, <2>3 DEF Accounting, InJob
<1> QED
  BY <1>4, <1>5, <1>6, <1>7, <1>8, <1>9, <1>10 DEF Next, Step

\* Between two jobs every period that buildPlan required is a lesson of its plan
\* or in one of its reports: none is lost with a job that is given up halfway, and
\* none of such a job's lessons stays.
THEOREM EveryPeriodAccounted == Spec => []Accounted
<1>1. Init => Accounting
  <2>1. Cardinality(Refused(<<>>)) = 0
    <3>1. Refused(<<>>) = {}
      BY DEF Refused
    <3> QED
      BY <3>1, FS_EmptySet
  <2> QED
    BY <2>1 DEF Init, Accounting, InJob
<1>2. Init => conflicts \in Seq(Conflict)
  BY DEF Init
<1>3. Inv /\ conflicts \in Seq(Conflict) /\ Accounting /\ [Next]_vars
      => (conflicts \in Seq(Conflict))' /\ Accounting'
  BY NextAccounts, NextReported
<1>4. Inv /\ conflicts \in Seq(Conflict) /\ Accounting => Accounted
  <2> SUFFICES ASSUME Inv, conflicts \in Seq(Conflict), Accounting,
                      pc \in {"week", "requirement", "class", "done"}
               PROVE  required = Len(plan) + Cardinality(Refused(conflicts))
    BY DEF Accounted
  <2>1. [reason |-> "unplaced", course |-> 0, week |-> 0, periods |-> 0] \in Conflict
    BY DEF Conflict
  <2>2. Cardinality(Refused(conflicts)) \in Nat /\ Len(plan) \in Nat
    BY <2>1, RefusedAppend DEF Inv, TypeOK
  <2> QED
    BY <2>2 DEF Accounting, InJob
<1> QED
  BY <1>1, <1>2, <1>3, <1>4, PlannerInvariant, PTL DEF Spec

-------------------------------------------------------------------------------
(* What is read is what was meant.                                         *)

\* A query by ids returns each row with one of them, once.
LEMMA GetByIDsExact ==
  ASSUME NEW S, NEW table \in Seq(S), NEW ids, NEW read \in GetByIDs(table, ids)
  PROVE  /\ Range(read) = {row \in Range(table) : row.id \in ids}
         /\ IsInjective(read)
<1> DEFINE found == {row \in Range(table) : row.id \in ids}
           n == Cardinality(found)
<1>1. IsFiniteSet(found) /\ n \in Nat
  BY RangeFinite, FS_Subset, FS_CardinalityType
<1>2. read \in Injection(1 .. n, found)
  BY DEF GetByIDs
<1> HIDE DEF found
<1>3. Cardinality(1 .. n) = n
  BY <1>1, FS_Interval
<1>4. read \in Surjection(1 .. n, found)
  BY <1>1, <1>2, <1>3, FS_Injection
<1>5. Range(read) = found
  BY <1>2, <1>4 DEF Surjection, Injection, Range
<1>6. IsInjective(read)
  BY <1>2 DEF Injection
<1> QED
  BY <1>5, <1>6 DEF found

\* The rows that are read are those meant, each of them once.
LEMMA ReadIsMeant ==
  ASSUME NEW S, NEW table \in Seq(S), Keyed(table), NEW asked, NEW named,
         NEW read \in Resolve(table, asked, named)
  PROVE  /\ Range(read) = Meant(asked, named, table)
         /\ IsInjective(read)
<1>1. CASE asked # <<>>
  <2>1. /\ read \in GetByIDs(table, Range(asked))
        /\ Meant(asked, named, table) = {row \in Range(table) : row.id \in Range(asked)}
    BY <1>1 DEF Resolve, Meant
  <2> QED
    BY <2>1, GetByIDsExact
<1>2. CASE asked = <<>> /\ named # {}
  <2>1. /\ read \in GetByIDs(table, named)
        /\ Meant(asked, named, table) = {row \in Range(table) : row.id \in named}
    BY <1>2 DEF Resolve, Meant
  <2> QED
    BY <2>1, GetByIDsExact
<1>3. CASE asked = <<>> /\ named = {}
  <2> DEFINE n == IF Len(table) < PageSize THEN Len(table) ELSE PageSize
  <2>1. read = SubSeq(table, 1, n)
        /\ Meant(asked, named, table) =
             {row \in Range(table) : row.id \in {other.id : other \in Range(read)}}
    BY <1>3 DEF Resolve, Meant, List
  <2>2. n \in Nat /\ n <= Len(table)
    BY PageSizeAssumption
  <2>3. DOMAIN read = 1 .. n /\ \A i \in 1 .. n : read[i] = table[i] /\ i \in DOMAIN table
    BY <2>1, <2>2
  <2>4. IsInjective(read)
    BY <2>3 DEF Keyed, IsInjective
  <2>5. Range(read) \subseteq Range(table)
    BY <2>3 DEF Range
  <2>6. ASSUME NEW row \in Range(table), NEW other \in Range(read), row.id = other.id
        PROVE  row \in Range(read)
    <3>1. PICK i \in DOMAIN table : row = table[i]
      BY DEF Range
    <3>2. PICK j \in DOMAIN read : other = read[j]
      BY DEF Range
    <3>3. i = j
      BY <2>3, <2>6, <3>1, <3>2 DEF Keyed
    <3> QED
      BY <2>3, <3>1, <3>3 DEF Range
  <2> QED
    BY <2>1, <2>4, <2>5, <2>6
<1> QED
  BY <1>1, <1>2, <1>3

\* The classes and teachers that were read are those meant.
Loaded ==
  pc \notin {"load", "failed"} =>
    /\ IsInjective(classes)
    /\ Range(classes) = Meant(request.classes, NamedClasses, store.classes)
    /\ Range(teachers) = MeantTeachers /\ Range(rooms) = MeantRooms
    /\ classes # <<>> /\ teachers # <<>> /\ rooms # <<>>
    /\ request.periods <= Len(List(store.slots))
    /\ slots = SubSeq(List(store.slots), 1, request.periods)

LEMMA NextLoaded ==
  ASSUME Inv, Loaded, [Next]_vars
  PROVE  Loaded'
<1>t. store \in Store /\ request' = request /\ store' = store /\ store \in Stores
  BY InputType DEF Inv, TypeOK, Next, Step, vars, input, Load, RejectRequest, BeginWeek, Return,
     BeginRequirement, EndWeek, EndRequirement, SkipClass, RejectCourse, BeginJob, SkipPosition,
     TryPosition, NoRoom, ChooseRoom, Unplaced, Commit, Interrupted, Fail, CancelContext, Finished
<1>1. CASE Load
  <2>1. /\ classes' \in Resolve(store.classes, request.classes, NamedClasses)
        /\ teachers' \in Resolve(store.teachers, request.teachers, NamedTeachers)
        /\ rooms' \in Resolve(store.rooms, request.rooms, {})
        /\ request.periods <= Len(List(store.slots))
        /\ slots' = SubSeq(List(store.slots), 1, request.periods)
        /\ pc' # "failed" => classes' # <<>> /\ teachers' # <<>> /\ rooms' # <<>>
    BY <1>1 DEF Load, Goto
  <2>2. /\ store.classes \in Seq(Class) /\ Keyed(store.classes)
        /\ store.teachers \in Seq(Teacher) /\ Keyed(store.teachers)
        /\ store.rooms \in Seq(Room) /\ Keyed(store.rooms)
    BY <1>t, KeysAssumption DEF Store
  <2>3. IsInjective(classes') /\ Range(classes') = Meant(request.classes, NamedClasses, store.classes)
    BY <2>1, <2>2, ReadIsMeant
  <2>4. Range(teachers') = MeantTeachers /\ Range(rooms') = MeantRooms
    BY <2>1, <2>2, ReadIsMeant DEF MeantTeachers, MeantRooms
  <2> QED
    BY <1>t, <2>1, <2>3, <2>4 DEF Loaded, NamedClasses, NamedTeachers, MeantTeachers, MeantRooms
<1>2. ASSUME UNCHANGED loaded, pc' \in {"load", "failed"} \/ pc \notin {"load", "failed"}
      PROVE  Loaded'
  BY <1>t, <1>2 DEF loaded, Loaded, NamedClasses, NamedTeachers, MeantTeachers, MeantRooms
<1> USE DEF Goto
<1>3. CASE RejectRequest \/ BeginWeek \/ Return \/ BeginRequirement \/ EndWeek \/ EndRequirement
           \/ Interrupted
  BY <1>2, <1>3 DEF RejectRequest, BeginWeek, Return, BeginRequirement, EndWeek,
                    EndRequirement, Interrupted, Fail
<1>4. CASE SkipClass \/ RejectCourse \/ BeginJob \/ SkipPosition \/ TryPosition \/ NoRoom
           \/ ChooseRoom \/ Unplaced \/ Commit
  BY <1>2, <1>4 DEF SkipClass, RejectCourse, BeginJob, SkipPosition, TryPosition, NoRoom, ChooseRoom,
                    Unplaced, Commit
<1>5. CASE CancelContext \/ Finished \/ UNCHANGED vars
  <2>1. UNCHANGED loaded /\ pc' = pc
    BY <1>5 DEF CancelContext, Finished, vars
  <2> QED
    BY <1>2, <2>1
<1> QED
  BY <1>1, <1>3, <1>4, <1>5 DEF Next, Step

\* A requirement is planned for exactly the classes it is meant for, each once.
LEMMA TargetsExact ==
  ASSUME Inv, Loaded, pc \notin {"load", "failed"}, NEW r
  PROVE  Range(TargetClasses(r)) = MeantClasses(r) /\ IsInjective(TargetClasses(r))
<1>k. store.classes \in Seq(Class) /\ Keyed(store.classes)
  BY InputType, KeysAssumption DEF Inv, TypeOK, Store
<1>1. CASE r.class = 0
  <2>1. TargetClasses(r) = classes
    BY <1>1 DEF TargetClasses
  <2> QED
    BY <1>1, <2>1 DEF Loaded, MeantClasses
<1>2. CASE r.class # 0 /\ \E c \in Range(classes) : c.id = r.class
  <2> DEFINE class == CHOOSE c \in Range(classes) : c.id = r.class
  <2>1. class \in Range(classes) /\ class.id = r.class
    BY <1>2
  <2>2. TargetClasses(r) = <<class>>
    BY <1>2 DEF TargetClasses
  <2> HIDE DEF class
  <2>3. IsInjective(<<class>>) /\ Range(<<class>>) = {class}
    BY DEF IsInjective, Range
  <2>4. ASSUME NEW c \in MeantClasses(r)
        PROVE  c = class
    <3>1. c \in Range(store.classes) /\ class \in Range(store.classes) /\ c.id = class.id
      BY <1>2, <2>1, <2>4 DEF Loaded, MeantClasses, Meant
    <3>2. PICK i \in DOMAIN store.classes : c = store.classes[i]
      BY <3>1 DEF Range
    <3>3. PICK j \in DOMAIN store.classes : class = store.classes[j]
      BY <3>1 DEF Range
    <3> QED
      BY <1>k, <3>1, <3>2, <3>3 DEF Keyed
  <2>5. class \in MeantClasses(r)
    BY <2>1 DEF Loaded, MeantClasses
  <2> QED
    BY <2>2, <2>3, <2>4, <2>5
<1>3. CASE r.class # 0 /\ ~\E c \in Range(classes) : c.id = r.class
  <2>1. TargetClasses(r) = <<>>
    BY <1>3 DEF TargetClasses
  <2>2. MeantClasses(r) = {}
    BY <1>3 DEF Loaded, MeantClasses
  <2>3. IsInjective(<<>>) /\ Range(<<>>) = {}
    BY DEF IsInjective, Range
  <2> QED
    BY <2>1, <2>2, <2>3
<1> QED
  BY <1>1, <1>2, <1>3

\* A set of numbers that is not empty has a smallest one.
LEMMA Least ==
  ASSUME NEW S \in SUBSET Nat, S # {}
  PROVE  \E i \in S : \A j \in S : i <= j
<1> DEFINE below == OpToRel(<, Nat)
<1>1. IsWellFoundedOn(below, Nat)
  BY NatLessThanWellFounded
<1>2. \A i, j \in Nat : i < j => <<i, j>> \in below
  BY DEF OpToRel
<1> HIDE DEF below
<1>3. PICK i \in S : \A j \in S : <<j, i>> \notin below
  BY <1>1, WFMin
<1>4. \A j \in S : ~(j < i)
  BY <1>2, <1>3
<1> QED
  BY <1>4

\* A teacher is found for a requirement exactly if it has one.
LEMMA PickedIfMeant ==
  ASSUME Inv, Loaded, pc \notin {"load", "failed"}, NEW r
  PROVE  PickTeacher(r) # {} <=> HasTeacher(r)
<1>1. CASE r.teacher # 0
  BY <1>1 DEF Loaded, PickTeacher, HasTeacher
<1>2. CASE r.teacher = 0 /\ Able(r) = {}
  BY <1>2 DEF PickTeacher, HasTeacher
<1>3. CASE r.teacher = 0 /\ Able(r) # {}
  <2>1. Able(r) \in SUBSET Nat
    BY DEF Able, Inv, TypeOK
  <2>2. \E i \in Able(r) : \A j \in Able(r) : i <= j
    BY <1>3, <2>1, Least
  <2> QED
    BY <1>3, <2>2 DEF PickTeacher, HasTeacher, First
<1> QED
  BY <1>1, <1>2, <1>3

-------------------------------------------------------------------------------
(* What is required is what was asked for.                                 *)

\* Whether requirement k has been taken up for class c in week w.
Taken(w, k, c) ==
  \/ w < week
  \/ w = week /\ pc \in {"week", "done"}
  \/ w = week /\ pc \in {"requirement", "class", "position", "room", "commit"} /\ k < next
  \/ w = week /\ k = next /\ pc = "class" /\ c \notin Range(targets)
  \/ w = week /\ k = next /\ InJob /\ c \notin Range(Tail(targets))

Begun == {x \in Asked : Taken(x[1], x[2][1], x[2][2][1])}

\* The classes a requirement is still to be planned for.
Awaited ==
  pc = "class" \/ InJob => IsInjective(targets) /\ Range(targets) \subseteq MeantClasses(Current)

\* Why: what has been taken up is required, and nothing else is.
WorkInv ==
  /\ Loaded /\ Awaited
  /\ pc = "load" => week = 0
  /\ pc \in {"requirement", "class"} \/ InJob => week # 0
  /\ pc = "done" => week = request.weeks
  /\ pc # "failed" => required = Cardinality(Begun)

\* What is asked for: a week, a requirement for a known course that has a
\* teacher, a class it is meant for, and a period.
LEMMA AskedIs ==
  ASSUME NEW x \in Asked
  PROVE  /\ x[1] \in 1 .. request.weeks /\ x[2][1] \in DOMAIN request.courses
         /\ CourseKnown(request.courses[x[2][1]]) /\ HasTeacher(request.courses[x[2][1]])
         /\ x[2][2][1] \in MeantClasses(request.courses[x[2][1]])
         /\ x[2][2][2] \in 1 .. request.courses[x[2][1]].periods
         /\ x = <<x[1], <<x[2][1], <<x[2][2][1], x[2][2][2]>>>>>>
<1>1. x[1] \in 1 .. request.weeks
      /\ x[2] \in UNION {{k} \X AskedBy(k) : k \in DOMAIN request.courses}
  BY DEF Asked
<1>2. PICK k \in DOMAIN request.courses : x[2] \in {k} \X AskedBy(k)
  BY <1>1
<1>3. x[2][1] = k /\ x[2][2] \in AskedBy(k)
  BY <1>2
<1>5. x = <<x[1], x[2]>> /\ x[2] = <<x[2][1], x[2][2]>>
  BY <1>2 DEF Asked
<1>4. /\ CourseKnown(request.courses[k]) /\ HasTeacher(request.courses[k])
      /\ x[2][2] \in MeantClasses(request.courses[k]) \X (1 .. request.courses[k].periods)
  BY <1>3 DEF AskedBy
<1>6. x[2][2] = <<x[2][2][1], x[2][2][2]>>
  BY <1>4
<1> QED
  BY <1>1, <1>2, <1>3, <1>4, <1>5, <1>6

\* It is finite.
LEMMA AskedFinite ==
  ASSUME TypeOK
  PROVE  IsFiniteSet(Asked)
<1>1. request \in Request /\ store \in Store
  BY InputType DEF TypeOK
<1> DEFINE f == [k \in DOMAIN request.courses |-> {k} \X AskedBy(k)]
<1>2. request.weeks \in Nat /\ request.courses \in Seq(Requirement)
  BY <1>1 DEF Request
<1>3. ASSUME NEW k \in DOMAIN request.courses
      PROVE  IsFiniteSet({k} \X AskedBy(k))
  <2> DEFINE r == request.courses[k]
  <2>1. r \in Requirement
    BY <1>2
  <2>2. r.periods \in Nat
    BY <2>1 DEF Requirement
  <2>3. IsFiniteSet(Range(store.classes))
    BY <1>1, RangeFinite DEF Store
  <2>4. IsFiniteSet(MeantClasses(r))
    BY <2>3, FS_Subset DEF MeantClasses, Meant
  <2> HIDE DEF r
  <2>5. IsFiniteSet(MeantClasses(r) \X (1 .. r.periods))
    BY <2>2, <2>4, FS_Product, CountPeriods
  <2>6. IsFiniteSet(AskedBy(k))
    BY <2>5, FS_EmptySet DEF AskedBy, r
  <2> QED
    BY <2>6, CountRow
<1>4. f = [k \in DOMAIN request.courses |-> f[k]]
  OBVIOUS
<1>5. \A k \in DOMAIN request.courses : IsFiniteSet(f[k])
  BY <1>3
<1>6. UNION {f[k] : k \in DOMAIN request.courses}
        = UNION {{k} \X AskedBy(k) : k \in DOMAIN request.courses}
  OBVIOUS
<1>7. IsFiniteSet(DOMAIN request.courses)
  BY <1>2, FS_Interval
<1> HIDE DEF f
<1>10. IsFiniteSet(UNION {f[k] : k \in DOMAIN request.courses})
  BY <1>4, <1>5, <1>7, UnionFinite
<1>8. IsFiniteSet(UNION {{k} \X AskedBy(k) : k \in DOMAIN request.courses})
  BY <1>6, <1>10
<1>9. IsFiniteSet(1 .. request.weeks)
  BY <1>2, FS_Interval
<1> QED
  BY <1>8, <1>9, FS_Product DEF Asked

\* The first of a sequence of different elements is not among the others.
LEMMA HeadOnce ==
  ASSUME NEW S, NEW seq \in Seq(S), seq # <<>>, IsInjective(seq)
  PROVE  /\ Head(seq) \in Range(seq) /\ Head(seq) \notin Range(Tail(seq))
         /\ \A c : c \in Range(seq) <=> c = Head(seq) \/ c \in Range(Tail(seq))
<1>1. /\ DOMAIN seq = 1 .. Len(seq) /\ Len(seq) \in Nat \ {0} /\ Head(seq) = seq[1]
      /\ DOMAIN Tail(seq) = 1 .. Len(seq) - 1
      /\ \A i \in DOMAIN Tail(seq) : Tail(seq)[i] = seq[i + 1]
  OBVIOUS
<1>2. 1 \in DOMAIN seq /\ \A i \in DOMAIN Tail(seq) : i + 1 \in DOMAIN seq /\ i + 1 # 1
  BY <1>1
<1>3. \A i \in DOMAIN seq :
        i = 1 \/ (i - 1 \in DOMAIN Tail(seq) /\ seq[i] = Tail(seq)[i - 1])
  BY <1>1
<1>4. Head(seq) \in Range(seq)
  BY <1>1, <1>2 DEF Range
<1>5. Head(seq) \notin Range(Tail(seq))
  BY <1>1, <1>2 DEF Range, IsInjective
<1>6. ASSUME NEW c \in Range(Tail(seq))
      PROVE  c \in Range(seq)
  BY <1>1, <1>2 DEF Range
<1>7. ASSUME NEW c \in Range(seq)
      PROVE  c = Head(seq) \/ c \in Range(Tail(seq))
  BY <1>1, <1>3 DEF Range
<1> QED
  BY <1>4, <1>5, <1>6, <1>7

\* The job that begins is for what was asked for and not taken up yet.
LEMMA JobAsked ==
  ASSUME Inv, WorkInv, BeginJob, Asked' = Asked
  PROVE  required' = Cardinality(Begun')
<1> DEFINE x == TheClass
           periods == Current.periods
           row == {week} \X ({next} \X ({x} \X (1 .. periods)))
<1>1. /\ pc = "class" /\ pc' = "position" /\ targets # <<>>
      /\ CourseKnown(Current) /\ required' = required + periods
      /\ UNCHANGED <<week, next, targets>>
  BY DEF BeginJob, Goto
<1>2. /\ IsInjective(targets) /\ targets \in Seq(Class) /\ next \in DOMAIN request.courses
      /\ Range(targets) \subseteq MeantClasses(Current)
  BY <1>1 DEF WorkInv, Awaited, Inv, TypeOK
<1>3. PickTeacher(Current) # {}
  BY DEF BeginJob
<1>4. HasTeacher(Current)
  BY <1>1, <1>3, PickedIfMeant DEF WorkInv
<1>5. /\ x \in Range(targets) /\ x \notin Range(Tail(targets))
      /\ \A c : c \in Range(targets) <=> c = x \/ c \in Range(Tail(targets))
  BY <1>1, <1>2, HeadOnce DEF TheClass
<1>6. week \in 1 .. request.weeks /\ periods \in Nat
  <2>1. Current \in Requirement /\ request \in Request
    BY <1>2, InputType, CurrentType DEF Inv, TypeOK
  <2> QED
    BY <1>1, <2>1 DEF WorkInv, Inv, TypeOK, Requirement, Request
<1>7. row \subseteq Asked
  <2>1. AskedBy(next) = MeantClasses(Current) \X (1 .. periods)
    BY <1>1, <1>4 DEF AskedBy, Current
  <2>2. {x} \X (1 .. periods) \subseteq AskedBy(next)
    BY <1>2, <1>5, <2>1
  <2>3. {next} \X ({x} \X (1 .. periods)) \subseteq UNION {{k} \X AskedBy(k) : k \in DOMAIN request.courses}
    BY <1>2, <2>2
  <2> QED
    BY <1>6, <2>3 DEF Asked
<1>8. ASSUME NEW y \in Asked
      PROVE  Taken(y[1], y[2][1], y[2][2][1])' <=> Taken(y[1], y[2][1], y[2][2][1]) \/ y \in row
  <2> DEFINE c == y[2][2][1]
  <2>1. /\ y[1] \in Nat /\ y[2][1] \in Nat /\ week \in Nat /\ next \in Nat
        /\ y = <<y[1], <<y[2][1], <<c, y[2][2][2]>>>>>>
    <3>1. request.courses \in Seq(Requirement)
      BY InputType DEF Inv, TypeOK, Request
    <3>2. /\ y[1] \in 1 .. request.weeks /\ y[2][1] \in DOMAIN request.courses
          /\ y = <<y[1], <<y[2][1], <<c, y[2][2][2]>>>>>>
      BY AskedIs
    <3> HIDE DEF c
    <3>3. y[1] \in Nat /\ y[2][1] \in Nat
      BY <3>1, <3>2
    <3>4. week \in Nat /\ next \in Nat
      BY <1>6 DEF Inv, TypeOK
    <3> QED
      BY <3>2, <3>3, <3>4
  <2>2. y \in row <=> y[1] = week /\ y[2][1] = next /\ c = x
    <3>1. y[1] = week /\ y[2][1] = next /\ c = x => y[2][2][2] \in 1 .. periods
      BY AskedIs DEF Current
    <3> QED
      BY <2>1, <3>1
  <2> HIDE DEF row, c, x
  <2>3. Taken(y[1], y[2][1], c) <=> \/ y[1] < week
                                    \/ y[1] = week /\ y[2][1] < next
                                    \/ y[1] = week /\ y[2][1] = next /\ c \notin Range(targets)
    BY <1>1 DEF Taken, InJob
  <2>4. Taken(y[1], y[2][1], c)' <=> \/ y[1] < week
                                     \/ y[1] = week /\ y[2][1] < next
                                     \/ y[1] = week /\ y[2][1] = next /\ c \notin Range(Tail(targets))
    BY <1>1 DEF Taken, InJob
  <2>5. Taken(y[1], y[2][1], c)' <=> Taken(y[1], y[2][1], c) \/ y \in row
    BY <1>5, <2>1, <2>2, <2>3, <2>4
  <2> QED
    BY <2>5 DEF c
<1>9. Begun' = Begun \cup row
  BY <1>7, <1>8 DEF Begun
<1>10. Begun \cap row = {}
  <2>1. ASSUME NEW y \in row
        PROVE  ~Taken(y[1], y[2][1], y[2][2][1])
    <3>1. y[1] = week /\ y[2][1] = next /\ y[2][2][1] = x
      OBVIOUS
    <3>2. week \in Nat /\ next \in Nat
      BY <1>6 DEF Inv, TypeOK
    <3> HIDE DEF x
    <3> QED
      BY <1>1, <1>5, <3>1, <3>2 DEF Taken, InJob
  <2> QED
    BY <2>1 DEF Begun
<1>11. IsFiniteSet(row) /\ Cardinality(row) = periods
  <2>1. IsFiniteSet({x} \X (1 .. periods)) /\ Cardinality({x} \X (1 .. periods)) = periods
    BY <1>6, CountRow, CountPeriods
  <2> DEFINE inner == {x} \X (1 .. periods)
             middle == {next} \X inner
  <2> HIDE DEF inner
  <2>2. IsFiniteSet(middle) /\ Cardinality(middle) = periods
    BY <2>1, CountRow DEF inner
  <2> HIDE DEF middle
  <2>3. IsFiniteSet({week} \X middle) /\ Cardinality({week} \X middle) = periods
    BY <2>2, CountRow
  <2> QED
    BY <2>3 DEF middle, inner
<1>12. IsFiniteSet(Begun) /\ required = Cardinality(Begun)
  <2>1. IsFiniteSet(Begun)
    BY AskedFinite, FS_Subset DEF Inv, Begun
  <2> QED
    BY <1>1, <2>1 DEF WorkInv
<1> HIDE DEF row
<1>13. Cardinality(Begun \cup row) = Cardinality(Begun) + Cardinality(row)
  BY <1>10, <1>11, <1>12, CountAdded
<1> QED
  BY <1>1, <1>9, <1>11, <1>12, <1>13

\* Every step takes up what it requires.
LEMMA NextTaken ==
  ASSUME Inv, Inv', WorkInv, [Next]_vars
  PROVE  pc' # "failed" => required' = Cardinality(Begun')
<1>t. /\ TypeOK /\ week \in Nat /\ next \in Nat /\ request.weeks \in Nat
      /\ request.courses \in Seq(Requirement)
  BY InputType DEF Inv, TypeOK, Request
<1>i. request' = request /\ store' = store
  BY DEF Next, Step, vars, input, Load, RejectRequest, BeginWeek, Return, BeginRequirement, EndWeek,
     EndRequirement, SkipClass, RejectCourse, BeginJob, SkipPosition, TryPosition, NoRoom, ChooseRoom,
     Unplaced, Commit, Interrupted, Fail, CancelContext, Finished
<1>a. Asked' = Asked
  BY <1>i DEF Asked, AskedBy, CourseKnown, KnownCourses, HasTeacher, MeantTeachers, MeantClasses,
              Meant, NamedClasses, NamedTeachers
<1>x. ASSUME NEW x \in Asked
      PROVE  /\ x[1] \in Nat \ {0} /\ x[1] <= request.weeks
             /\ x[2][1] \in Nat \ {0} /\ x[2][1] <= Len(request.courses)
  BY <1>t, AskedIs
<1> DEFINE Same == \A x \in Asked : Taken(x[1], x[2][1], x[2][2][1])' <=> Taken(x[1], x[2][1], x[2][2][1])
<1>s. ASSUME required' = required, pc # "failed", Same
      PROVE  required' = Cardinality(Begun')
  <2>1. Begun' = Begun
    BY <1>a, <1>s DEF Begun
  <2> QED
    BY <1>s, <2>1 DEF WorkInv
<1> USE DEF Goto, input, loaded, job, result
<1> HIDE DEF Same
<1>1. CASE pc' = "failed"
  BY <1>1
<1>2. CASE Load /\ pc' # "failed"
  <2>1. pc = "load" /\ pc' = "week" /\ week' = week /\ week = 0 /\ required' = required
    BY <1>2 DEF Load, WorkInv
  <2>2. ASSUME NEW x \in Asked
        PROVE  ~Taken(x[1], x[2][1], x[2][2][1])' /\ ~Taken(x[1], x[2][1], x[2][2][1])
    BY <1>x, <2>1 DEF Taken, InJob
  <2> QED
    BY <1>s, <2>1, <2>2 DEF Same
<1>3. CASE BeginWeek
  <2>1. /\ pc = "week" /\ pc' = "requirement" /\ week' = week + 1 /\ next' = 1
        /\ required' = required
    BY <1>3 DEF BeginWeek
  <2>2. ASSUME NEW x \in Asked
        PROVE  Taken(x[1], x[2][1], x[2][2][1])' <=> Taken(x[1], x[2][1], x[2][2][1])
    <3>1. Taken(x[1], x[2][1], x[2][2][1])' <=> x[1] < week + 1
      BY <1>t, <1>x, <2>1 DEF Taken, InJob
    <3>2. Taken(x[1], x[2][1], x[2][2][1]) <=> x[1] < week \/ x[1] = week
      BY <2>1 DEF Taken, InJob
    <3> QED
      BY <1>t, <1>x, <3>1, <3>2
  <2> QED
    BY <1>s, <2>1, <2>2 DEF Same
<1>4. CASE EndWeek
  <2>1. /\ pc = "requirement" /\ pc' = "week" /\ week' = week /\ next > Len(request.courses)
        /\ required' = required
    BY <1>4 DEF EndWeek
  <2>2. ASSUME NEW x \in Asked
        PROVE  Taken(x[1], x[2][1], x[2][2][1])' <=> Taken(x[1], x[2][1], x[2][2][1])
    BY <1>t, <1>x, <2>1 DEF Taken, InJob
  <2> QED
    BY <1>s, <2>1, <2>2 DEF Same
<1>5. CASE Return
  <2>1. pc = "week" /\ pc' = "done" /\ week' = week /\ required' = required
    BY <1>5 DEF Return
  <2> QED
    BY <1>s, <2>1 DEF Same, Taken, InJob
<1>6. CASE BeginRequirement
  <2>1. /\ pc = "requirement" /\ pc' = "class" /\ week' = week /\ next' = next
        /\ targets' = TargetClasses(Current) /\ required' = required
    BY <1>6 DEF BeginRequirement
  <2>2. Range(targets') = MeantClasses(Current)
    BY <2>1, TargetsExact DEF WorkInv
  <2>3. ASSUME NEW x \in Asked
        PROVE  Taken(x[1], x[2][1], x[2][2][1])' <=> Taken(x[1], x[2][1], x[2][2][1])
    <3>1. x[2][1] = next => x[2][2][1] \in Range(targets')
      BY <2>2, AskedIs DEF Current
    <3> QED
      BY <2>1, <3>1 DEF Taken, InJob
  <2> QED
    BY <1>s, <2>1, <2>3 DEF Same
<1>7. CASE EndRequirement
  <2>1. /\ pc = "class" /\ pc' = "requirement" /\ week' = week /\ next' = next + 1
        /\ targets = <<>> /\ required' = required
    BY <1>7 DEF EndRequirement
  <2>2. Range(targets) = {}
    BY <2>1 DEF Range
  <2>3. ASSUME NEW x \in Asked
        PROVE  Taken(x[1], x[2][1], x[2][2][1])' <=> Taken(x[1], x[2][1], x[2][2][1])
    <3>1. Taken(x[1], x[2][1], x[2][2][1])' <=> x[1] < week \/ (x[1] = week /\ x[2][1] < next + 1)
      BY <2>1 DEF Taken, InJob
    <3>2. Taken(x[1], x[2][1], x[2][2][1]) <=> x[1] < week \/ (x[1] = week /\ (x[2][1] < next \/ x[2][1] = next))
      BY <2>1, <2>2 DEF Taken, InJob
    <3> QED
      BY <1>t, <1>x, <3>1, <3>2
  <2> QED
    BY <1>s, <2>1, <2>3 DEF Same
\* A class that leads to no job was not asked for.
<1>8. CASE SkipClass \/ RejectCourse
  <2>1. /\ pc = "class" /\ pc' = "class" /\ week' = week /\ next' = next
        /\ targets' = Tail(targets) /\ required' = required
    BY <1>8 DEF SkipClass, RejectCourse
  <2>2. ~CourseKnown(Current) \/ ~HasTeacher(Current)
    <3>1. CASE SkipClass
      BY <2>1, <3>1, PickedIfMeant DEF SkipClass, WorkInv
    <3>2. CASE RejectCourse
      BY <3>2 DEF RejectCourse
    <3> QED
      BY <1>8, <3>1, <3>2
  <2>3. ASSUME NEW x \in Asked
        PROVE  Taken(x[1], x[2][1], x[2][2][1])' <=> Taken(x[1], x[2][1], x[2][2][1])
    <3>1. x[2][1] # next
      BY <2>2, AskedIs DEF Current
    <3> QED
      BY <2>1, <3>1 DEF Taken, InJob
  <2> QED
    BY <1>s, <2>1, <2>3 DEF Same
<1>9. CASE BeginJob
  BY <1>9, <1>a, JobAsked
<1>10. CASE SkipPosition \/ TryPosition \/ NoRoom \/ ChooseRoom
  <2>1. InJob /\ InJob' /\ UNCHANGED <<week, next, targets, required>>
    BY <1>10 DEF SkipPosition, TryPosition, NoRoom, ChooseRoom, InJob
  <2> QED
    BY <1>s, <2>1 DEF Same, Taken, InJob
<1>11. CASE Unplaced \/ Commit
  <2>1. InJob /\ pc' = "class" /\ UNCHANGED <<week, next, required>> /\ targets' = Tail(targets)
    BY <1>11 DEF Unplaced, Commit, InJob
  <2> QED
    BY <1>s, <2>1 DEF Same, Taken, InJob
<1>12. CASE CancelContext \/ Finished \/ UNCHANGED vars
  <2>1. UNCHANGED <<pc, week, next, targets, required>>
    BY <1>12 DEF CancelContext, Finished, vars
  <2> QED
    BY <1>1, <1>s, <2>1 DEF Same, Taken, InJob
<1>13. CASE RejectRequest \/ Interrupted
  BY <1>1, <1>13 DEF RejectRequest, Interrupted, Fail
<1> QED
  BY <1>1, <1>2, <1>3, <1>4, <1>5, <1>6, <1>7, <1>8, <1>9, <1>10, <1>11, <1>12, <1>13 DEF Next, Step

\* A class is planned for once, and only if it is meant.
LEMMA NextAwaited ==
  ASSUME Inv, WorkInv, [Next]_vars
  PROVE  /\ Awaited'
         /\ pc' = "load" => week' = 0
         /\ pc' \in {"requirement", "class"} \/ InJob' => week' # 0
         /\ pc' = "done" => week' = request'.weeks
<1>t. TypeOK /\ week \in Nat /\ targets \in Seq(Class)
  BY InputType DEF Inv, TypeOK, Request
<1> USE DEF Goto, input, loaded, job, result
<1>1. CASE Load \/ RejectRequest \/ Return \/ EndWeek \/ EndRequirement \/ Interrupted
  BY <1>1 DEF Load, RejectRequest, Return, EndWeek, EndRequirement, Interrupted, Fail, WorkInv,
              Awaited, InJob
<1>2. CASE BeginWeek
  BY <1>t, <1>2 DEF BeginWeek, Awaited, InJob
<1>3. CASE BeginRequirement
  <2>1. /\ pc = "requirement" /\ pc' = "class" /\ UNCHANGED <<request, store, week, next>>
        /\ targets' = TargetClasses(Current)
    BY <1>3 DEF BeginRequirement
  <2>2. Range(targets') = MeantClasses(Current) /\ IsInjective(targets')
    BY <2>1, TargetsExact DEF WorkInv
  <2>3. MeantClasses(Current)' = MeantClasses(Current)
    BY <2>1 DEF MeantClasses, Meant, NamedClasses, Current
  <2> QED
    BY <2>1, <2>2, <2>3 DEF WorkInv, Awaited, InJob
<1>4. CASE SkipClass \/ RejectCourse \/ Unplaced \/ Commit
  <2>1. /\ pc = "class" \/ InJob
        /\ pc' = "class" /\ UNCHANGED <<request, store, week, next>> /\ targets' = Tail(targets)
    BY <1>4 DEF SkipClass, RejectCourse, Unplaced, Commit, InJob
  <2>2. targets # <<>>
    BY <1>t, <1>4 DEF SkipClass, RejectCourse, Unplaced, Commit, TypeOK
  <2>3. IsInjective(targets) /\ Range(targets) \subseteq MeantClasses(Current)
    BY <2>1 DEF WorkInv, Awaited
  <2>4. /\ DOMAIN targets = 1 .. Len(targets) /\ Len(targets) \in Nat \ {0}
        /\ DOMAIN Tail(targets) = 1 .. Len(targets) - 1
        /\ \A i \in DOMAIN Tail(targets) : Tail(targets)[i] = targets[i + 1]
    BY <1>t, <2>2
  <2>5. IsInjective(Tail(targets))
    <3> SUFFICES ASSUME NEW i \in DOMAIN Tail(targets), NEW k \in DOMAIN Tail(targets),
                        Tail(targets)[i] = Tail(targets)[k]
                 PROVE  i = k
      BY DEF IsInjective
    <3>1. i + 1 \in DOMAIN targets /\ k + 1 \in DOMAIN targets /\ targets[i + 1] = targets[k + 1]
      BY <2>4
    <3>2. i + 1 = k + 1
      BY <2>3, <3>1 DEF IsInjective
    <3> QED
      BY <2>4, <3>2
  <2>6. Range(Tail(targets)) \subseteq Range(targets)
    <3>1. \A i \in DOMAIN Tail(targets) : i + 1 \in DOMAIN targets
      BY <2>4
    <3> QED
      BY <2>4, <3>1 DEF Range
  <2>7. MeantClasses(Current)' = MeantClasses(Current)
    BY <2>1 DEF MeantClasses, Meant, NamedClasses, Current
  <2> QED
    BY <2>1, <2>3, <2>5, <2>6, <2>7 DEF WorkInv, Awaited, InJob
<1>5. CASE BeginJob \/ SkipPosition \/ TryPosition \/ NoRoom \/ ChooseRoom \/ CancelContext \/ Finished
           \/ UNCHANGED vars
  <2>1. /\ UNCHANGED <<request, store, week, next, targets>>
        /\ pc' = "class" \/ InJob' => pc = "class" \/ InJob
        /\ pc' = "done" => pc = "done"
        /\ pc' = "load" => pc = "load"
        /\ pc' = "requirement" => pc = "requirement"
    BY <1>5 DEF BeginJob, SkipPosition, TryPosition, NoRoom, ChooseRoom, CancelContext, Finished, vars,
                InJob
  <2>2. MeantClasses(Current)' = MeantClasses(Current)
    BY <2>1 DEF MeantClasses, Meant, NamedClasses, Current
  <2> QED
    BY <2>1, <2>2 DEF WorkInv, Awaited
<1> QED
  BY <1>1, <1>2, <1>3, <1>4, <1>5 DEF Next, Step

\* What buildPlan has taken up is what it has required, whatever it has read.
THEOREM PlannerWork == Spec => []WorkInv
<1>1. Init => WorkInv
  <2> SUFFICES ASSUME Init
               PROVE  WorkInv
    OBVIOUS
  <2>1. pc = "load" /\ week = 0 /\ required = 0
    BY DEF Init
  <2>2. Begun = {}
    <3>1. ASSUME NEW x \in Asked
          PROVE  ~Taken(x[1], x[2][1], x[2][2][1])
      <4>1. x[1] \in 1 .. request.weeks
        BY AskedIs
      <4> QED
        BY <2>1, <4>1 DEF Taken, InJob
    <3> QED
      BY <3>1 DEF Begun
  <2> QED
    BY <2>1, <2>2, FS_EmptySet DEF WorkInv, Loaded, Awaited, InJob
<1>2. Inv /\ Inv' /\ WorkInv /\ [Next]_vars => WorkInv'
  BY NextLoaded, NextAwaited, NextTaken DEF WorkInv
<1> QED
  BY <1>1, <1>2, PlannerInvariant, PTL DEF Spec

\* A plan that is finished required every period of every requirement that has a
\* course and a teacher, for each class it is for and every week: each exactly
\* once, whatever was skipped, refused or could not be placed before it.
THEOREM EveryPeriodRequired == Spec => []RequiredIsAsked
<1>1. Inv /\ WorkInv => RequiredIsAsked
  <2> SUFFICES ASSUME Inv, WorkInv, pc = "done"
               PROVE  required = Cardinality(Asked)
    BY DEF RequiredIsAsked
  <2>1. week \in Nat /\ week = request.weeks
    BY InputType DEF Inv, TypeOK, Request, WorkInv
  <2>2. ASSUME NEW x \in Asked
        PROVE  Taken(x[1], x[2][1], x[2][2][1])
    <3>1. x[1] \in 1 .. week
      BY <2>1, AskedIs
    <3> QED
      BY <2>1, <3>1 DEF Taken
  <2>3. Begun = Asked
    BY <2>2 DEF Begun
  <2> QED
    BY <2>3 DEF WorkInv
<1> QED
  BY <1>1, PlannerInvariant, PlannerWork, PTL

-------------------------------------------------------------------------------
(* The work runs out.                                                      *)

\* No loop runs past its end.
Bounded ==
  /\ pc \in {"requirement", "class"} \/ InJob => next <= Len(request.courses) + 1
  /\ pc = "position" => at <= Len(Positions(Current)) + 1
  /\ pc = "room" => at <= Len(Positions(Current))

\* What the ranks are made of are numbers.
LEMMA WorkType ==
  ASSUME TypeOK
  PROVE  /\ request.weeks \in Nat /\ week \in Nat /\ week <= request.weeks
         /\ Len(request.courses) \in Nat /\ next \in Nat \ {0} /\ at \in Nat \ {0}
         /\ Len(targets) \in Nat /\ Len(chosen) \in Nat
         /\ InJob => Len(targets) # 0
         /\ pc = "class" \/ InJob => /\ Current.periods \in Nat \ {0}
                                     /\ Len(Positions(Current)) \in Nat
                                     /\ next <= Len(request.courses)
<1>1. request \in Request
  BY InputType DEF TypeOK
<1>2. request.weeks \in Nat /\ request.courses \in Seq(Requirement)
  BY <1>1 DEF Request
<1>3. week \in Nat /\ week <= request.weeks
  BY <1>2 DEF TypeOK
<1>4. Len(request.courses) \in Nat
  BY <1>2
<1>5. targets \in Seq(Class) /\ (InJob => targets # <<>>) /\ chosen \in Seq(Lesson)
  BY DEF TypeOK, InJob
<1>6. Len(targets) \in Nat /\ Len(chosen) \in Nat /\ (InJob => Len(targets) # 0)
  BY <1>5
<1>7. ASSUME pc = "class" \/ InJob
      PROVE  /\ Current.periods \in Nat \ {0} /\ Len(Positions(Current)) \in Nat
             /\ next <= Len(request.courses)
  <2>1. next \in DOMAIN request.courses
    BY <1>7 DEF TypeOK, InJob
  <2>2. Current \in Requirement
    BY <1>1, <2>1, CurrentType
  <2>3. Positions(Current) \in Seq(Place)
    BY <1>1, <2>2, PositionsType DEF TypeOK
  <2>4. Len(Positions(Current)) \in Nat
    BY <2>3
  <2>5. next <= Len(request.courses)
    BY <1>2, <2>1
  <2> QED
    BY <2>2, <2>4, <2>5 DEF Requirement
<1>8. next \in Nat \ {0} /\ at \in Nat \ {0}
  BY DEF TypeOK
<1> QED
  BY <1>2, <1>3, <1>4, <1>6, <1>7, <1>8

\* A rank is five numbers.
LEMMA RankType ==
  ASSUME Inv, Bounded
  PROVE  Rank \in [1 .. 5 -> Nat]
<1>1. TypeOK
  BY DEF Inv
<1>2. pc = "position" \/ pc = "room" => Len(chosen) < Current.periods
  BY <1>1 DEF TypeOK
<1>3. pc = "commit" => Len(chosen) = Current.periods
  BY <1>1 DEF TypeOK
<1>4. Rank[1] \in Nat
  BY <1>1, WorkType DEF Rank
<1>5. Rank[2] \in Nat
  BY <1>1, WorkType DEF Rank, Bounded
<1>6. Rank[3] \in Nat
  BY <1>1, WorkType DEF Rank, Bounded
<1>7. Rank[4] \in Nat
  BY <1>1, <1>2, <1>3, WorkType DEF Rank, Bounded, InJob
<1>8. Rank[5] \in Nat
  <2> DEFINE n == Len(Positions(Current))
  <2>1. CASE pc = "position" \/ pc = "room"
    <3>1. n \in Nat /\ at \in Nat /\ at <= n + 1 /\ (pc = "room" => at <= n)
      BY <1>1, <2>1, WorkType DEF Bounded, InJob
    <3>2. Rank[5] = IF pc = "position" THEN 2 * (n + 1 - at) ELSE 2 * (n + 1 - at) - 1
      BY <2>1 DEF Rank
    <3> HIDE DEF n
    <3> QED
      BY <2>1, <3>1, <3>2
  <2>2. CASE pc # "position" /\ pc # "room"
    BY <2>2 DEF Rank
  <2> QED
    BY <2>1, <2>2
<1>9. Rank = << Rank[1], Rank[2], Rank[3], Rank[4], Rank[5] >>
  BY DEF Rank
<1> HIDE DEF Rank
<1> QED
  BY <1>4, <1>5, <1>6, <1>7, <1>8, <1>9

\* No step leaves the bounds.
LEMMA NextBounded ==
  ASSUME Inv, Bounded, [Next]_vars
  PROVE  Bounded'
<1>t. TypeOK
  BY DEF Inv
<1>w. Len(request.courses) \in Nat /\ next \in Nat \ {0} /\ at \in Nat \ {0}
  BY <1>t, WorkType
<1> USE DEF Goto, input, loaded, job, result
<1>1. CASE Load \/ RejectRequest \/ Return \/ EndWeek \/ Interrupted
  BY <1>1 DEF Load, RejectRequest, Return, EndWeek, Interrupted, Fail, Bounded, InJob
<1>2. CASE BeginWeek
  BY <1>w, <1>2 DEF BeginWeek, Bounded, InJob
<1>3. CASE BeginRequirement
  BY <1>w, <1>3 DEF BeginRequirement, Bounded, InJob
<1>4. CASE EndRequirement
  <2>1. pc = "class" /\ pc' = "requirement" /\ next' = next + 1 /\ request' = request
    BY <1>4 DEF EndRequirement
  <2>2. next <= Len(request.courses)
    BY <1>t, <2>1, WorkType
  <2> QED
    BY <1>w, <2>1, <2>2 DEF Bounded, InJob
<1>5. CASE SkipClass \/ RejectCourse \/ Unplaced \/ Commit
  <2>1. /\ pc = "class" \/ InJob
        /\ pc' = "class" /\ UNCHANGED <<next, request>>
    BY <1>5 DEF SkipClass, RejectCourse, Unplaced, Commit, InJob
  <2> QED
    BY <2>1 DEF Bounded, InJob
\* The rest of the steps stay in one job.
<1> DEFINE n == Len(Positions(Current))
<1>n. UNCHANGED <<request, slots, next>> => n' = n
  BY DEF Positions, AllPositions, Runs, Current
<1>6. CASE BeginJob \/ ChooseRoom
  <2>1. /\ pc = "class" \/ InJob
        /\ pc' = "position" \/ pc' = "commit"
        /\ at' = 1 /\ UNCHANGED <<next, request, slots>>
    BY <1>6 DEF BeginJob, ChooseRoom, InJob
  <2>2. n \in Nat
    BY <1>t, <2>1, WorkType
  <2>3. next <= Len(request.courses) + 1
    BY <2>1 DEF Bounded
  <2> HIDE DEF n
  <2>4. n' \in Nat
    BY <1>n, <2>1, <2>2
  <2> USE DEF n
  <2> QED
    BY <2>1, <2>3, <2>4 DEF Bounded, InJob
<1>7. CASE SkipPosition \/ NoRoom
  <2>1. /\ InJob /\ pc' = "position" /\ at' = at + 1
        /\ UNCHANGED <<next, request, slots>> /\ ~Exhausted
    BY <1>7 DEF SkipPosition, NoRoom, InJob, Inv, ChosenFits
  <2>2. n \in Nat /\ at <= n
    BY <1>t, <1>w, <2>1, WorkType DEF Exhausted
  <2>3. next <= Len(request.courses) + 1
    BY <2>1 DEF Bounded
  <2>4. n' = n
    BY <1>n, <2>1
  <2>5. at' <= Len(Positions(Current))' + 1
    BY <1>w, <2>1, <2>2, <2>4
  <2> QED
    BY <2>1, <2>3, <2>5 DEF Bounded, InJob
<1>8. CASE TryPosition
  <2>1. /\ pc = "position" /\ pc' = "room" /\ UNCHANGED <<at, next, request, slots>> /\ ~Exhausted
    BY <1>8 DEF TryPosition
  <2>2. n \in Nat /\ at <= n
    BY <1>t, <1>w, <2>1, WorkType DEF Exhausted, InJob
  <2>3. next <= Len(request.courses) + 1
    BY <2>1 DEF Bounded, InJob
  <2>4. n' = n
    BY <1>n, <2>1
  <2> QED
    BY <2>1, <2>2, <2>3, <2>4 DEF Bounded, InJob
<1>9. CASE CancelContext \/ Finished \/ UNCHANGED vars
  <2>1. UNCHANGED <<pc, at, next, request, slots>>
    BY <1>9 DEF CancelContext, Finished, vars
  <2>2. n' = n
    BY <1>n, <2>1
  <2> QED
    BY <2>1, <2>2 DEF Bounded, InJob
<1> QED
  BY <1>1, <1>2, <1>3, <1>4, <1>5, <1>6, <1>7, <1>8, <1>9 DEF Next, Step

LEMMA NextDouble ==
  ASSUME NEW m \in Int, NEW n \in Int
  PROVE  2 * (m + 1 - (n + 1)) + 2 = 2 * (m + 1 - n)
OBVIOUS

\* Every step of buildPlan lowers the rank.
LEMMA StepRank ==
  ASSUME Inv, Bounded, Step
  PROVE  Less(Rank', Rank)
<1>t. TypeOK
  BY DEF Inv
<1>w. /\ request.weeks \in Nat /\ week \in Nat /\ week <= request.weeks
      /\ Len(request.courses) \in Nat /\ next \in Nat \ {0} /\ at \in Nat \ {0}
      /\ Len(targets) \in Nat /\ Len(chosen) \in Nat
  BY <1>t, WorkType
<1>c. pc = "class" \/ InJob => Current.periods \in Nat \ {0} /\ Len(Positions(Current)) \in Nat
  BY <1>t, WorkType
<1>r. /\ Rank'[1] < Rank[1] => Less(Rank', Rank)
      /\ Rank'[1] = Rank[1] /\ Rank'[2] < Rank[2] => Less(Rank', Rank)
      /\ Rank'[1] = Rank[1] /\ Rank'[2] = Rank[2] /\ Rank'[3] < Rank[3] => Less(Rank', Rank)
      /\ Rank'[1] = Rank[1] /\ Rank'[2] = Rank[2] /\ Rank'[3] = Rank[3] /\ Rank'[4] < Rank[4]
         => Less(Rank', Rank)
      /\ Rank'[1] = Rank[1] /\ Rank'[2] = Rank[2] /\ Rank'[3] = Rank[3] /\ Rank'[4] = Rank[4]
         /\ Rank'[5] < Rank[5] => Less(Rank', Rank)
  BY DEF Less
<1> USE DEF Goto, input, loaded, job, result
<1>1. CASE pc' = "failed" /\ pc # "failed" /\ pc # "done"
  <2>1. Rank'[1] = 0 /\ Rank[1] > 0
    BY <1>w, <1>1 DEF Rank, InJob
  <2> QED
    BY <1>r, <2>1
<1>2. CASE RejectRequest \/ Interrupted
  <2>1. pc' = "failed" /\ pc # "failed" /\ pc # "done"
    BY <1>2 DEF RejectRequest, Interrupted, Fail
  <2> QED
    BY <1>1, <2>1
<1>3. CASE Load
  <2>1. CASE pc' = "failed"
    BY <1>1, <1>3, <2>1 DEF Load
  <2>2. CASE pc' # "failed"
    <3>1. pc = "load" /\ pc' = "week" /\ week' = week /\ request' = request
      BY <1>3, <2>2 DEF Load
    <3>2. Rank'[1] = request.weeks + 1 - week /\ Rank[1] = request.weeks + 2
      BY <3>1 DEF Rank
    <3>3. Rank'[1] < Rank[1]
      BY <1>w, <3>2
    <3> QED
      BY <1>r, <3>3
  <2> QED
    BY <2>1, <2>2
<1>4. CASE BeginWeek
  <2>1. pc = "week" /\ pc' = "requirement" /\ week' = week + 1 /\ request' = request
    BY <1>4 DEF BeginWeek
  <2>2. Rank'[1] = request.weeks + 1 - (week + 1) /\ Rank[1] = request.weeks + 1 - week
    BY <2>1 DEF Rank
  <2>3. Rank'[1] < Rank[1]
    BY <1>w, <2>2
  <2> QED
    BY <1>r, <2>3
<1>5. CASE Return
  <2>1. pc = "week" /\ pc' = "done"
    BY <1>5 DEF Return
  <2>2. Rank'[1] = 0 /\ Rank[1] = request.weeks + 1 - week
    BY <2>1 DEF Rank
  <2>3. Rank'[1] < Rank[1]
    BY <1>w, <2>2
  <2> QED
    BY <1>r, <2>3
<1>6. CASE BeginRequirement \/ EndRequirement \/ EndWeek
  <2> DEFINE q == 2 * (Len(request.courses) + 1 - next)
  <2>1. /\ \/ pc' = "class" /\ pc = "requirement" /\ next' = next
           \/ pc' = "requirement" /\ pc = "class" /\ next' = next + 1
           \/ pc' = "week" /\ pc = "requirement"
        /\ UNCHANGED <<week, request>>
    BY <1>6 DEF BeginRequirement, EndRequirement, EndWeek
  <2>2. q \in Nat
    BY <1>w, <2>1 DEF Bounded
  <2>3. Rank'[1] = Rank[1]
    BY <2>1 DEF Rank
  <2>4. Rank'[2] < Rank[2]
    <3>1. CASE pc' = "class" /\ pc = "requirement" /\ next' = next
      <4>1. Rank'[2] = q + 1 /\ Rank[2] = q + 2
        BY <2>1, <3>1 DEF Rank, InJob
      <4> QED
        BY <2>2, <4>1
    <3>2. CASE pc' = "requirement" /\ pc = "class" /\ next' = next + 1
      <4>1. Rank'[2] = 2 * (Len(request.courses) + 1 - (next + 1)) + 2
        BY <2>1, <3>2 DEF Rank, InJob
      <4>2. Rank[2] = q + 1
        BY <3>2 DEF Rank, InJob
      <4>3. 2 * (Len(request.courses) + 1 - (next + 1)) + 2 = q
        <5>1. Len(request.courses) \in Int /\ next \in Int
          BY <1>w
        <5> QED
          BY <5>1, NextDouble
      <4> HIDE DEF q
      <4> QED
        BY <2>2, <4>1, <4>2, <4>3
    <3>3. CASE pc' = "week" /\ pc = "requirement"
      <4>1. Rank'[2] = 0 /\ Rank[2] = q + 2
        BY <3>3 DEF Rank, InJob
      <4> QED
        BY <2>2, <4>1
    <3> QED
      BY <2>1, <3>1, <3>2, <3>3
  <2> QED
    BY <1>r, <2>3, <2>4
<1> DEFINE Outer == Rank'[1] = Rank[1] /\ Rank'[2] = Rank[2]
\* Within a requirement the first two numbers stay.
<1>o. ASSUME UNCHANGED <<request, week, next>>, pc = "class" \/ InJob, pc' = "class" \/ InJob'
      PROVE  Outer
  <2>1. pc \notin {"load", "done", "failed", "requirement", "week"}
        /\ pc' \notin {"load", "done", "failed", "requirement", "week"}
    BY <1>o DEF InJob
  <2> QED
    BY <1>o, <2>1 DEF Rank
<1>7. CASE SkipClass \/ RejectCourse \/ Unplaced \/ Commit
  <2>1. /\ UNCHANGED <<request, week, next>> /\ (pc = "class" \/ InJob)
        /\ pc' = "class" /\ targets' = Tail(targets)
    BY <1>7 DEF SkipClass, RejectCourse, Unplaced, Commit, InJob
  <2>2. targets # <<>> /\ targets \in Seq(Class)
    BY <1>t, <1>7 DEF SkipClass, RejectCourse, Unplaced, Commit, TypeOK
  <2>3. Len(targets') = Len(targets) - 1
    BY <2>1, <2>2
  <2>4. Outer
    BY <1>o, <2>1
  <2>5. Rank'[3] = 2 * Len(targets')
    BY <2>1 DEF Rank, InJob
  <2>6. Rank[3] = 2 * Len(targets) \/ Rank[3] = 2 * Len(targets) - 1
    BY <2>1 DEF Rank, InJob
  <2>7. Rank'[3] < Rank[3]
    BY <1>w, <2>3, <2>5, <2>6
  <2> HIDE DEF Rank
  <2> QED
    BY <1>r, <2>4, <2>7
<1>8. CASE BeginJob
  <2>1. /\ UNCHANGED <<request, week, next, targets>> /\ pc = "class" /\ pc' = "position" /\ InJob'
    BY <1>8 DEF BeginJob, InJob
  <2>2. Outer
    BY <1>o, <2>1
  <2>3. Rank'[3] = 2 * Len(targets) - 1 /\ Rank[3] = 2 * Len(targets)
    BY <2>1 DEF Rank, InJob
  <2>4. Rank'[3] < Rank[3]
    BY <1>w, <2>3
  <2> QED
    BY <1>r, <2>2, <2>4
\* Within a job the third stays.
<1>j. ASSUME UNCHANGED <<request, week, next, targets>>, InJob, InJob'
      PROVE  Outer /\ Rank'[3] = Rank[3]
  <2>1. pc # "class" /\ pc' # "class"
    BY <1>j DEF InJob
  <2>2. Rank'[3] = 2 * Len(targets) - 1 /\ Rank[3] = 2 * Len(targets) - 1
    BY <1>j, <2>1 DEF Rank
  <2> QED
    BY <1>o, <1>j, <2>2
<1>9. CASE ChooseRoom
  <2>1. /\ UNCHANGED <<request, week, next, targets>> /\ InJob /\ InJob'
    BY <1>9 DEF ChooseRoom, InJob
  <2>2. PICK i \in First(Suitable(Position)) :
          chosen' = Append(chosen, LessonAt(Position, rooms[i]))
    BY <1>9 DEF ChooseRoom
  <2>3. Len(chosen') = Len(chosen) + 1
    BY <1>t, <2>2 DEF TypeOK
  <2>4. Rank'[4] = Current.periods - Len(chosen') /\ Rank[4] = Current.periods - Len(chosen)
    BY <2>1 DEF Rank, Current
  <2>5. Rank'[4] < Rank[4]
    BY <1>w, <1>c, <2>1, <2>3, <2>4
  <2> QED
    BY <1>r, <1>j, <2>1, <2>5
<1>10. CASE SkipPosition \/ NoRoom \/ TryPosition
  <2> DEFINE n == Len(Positions(Current))
  <2>1. /\ UNCHANGED <<request, week, next, targets, slots, chosen>> /\ InJob /\ InJob'
        /\ pc = "position" \/ pc = "room"
        /\ \/ pc' = "position" /\ at' = at + 1
           \/ pc = "position" /\ pc' = "room" /\ at' = at
    BY <1>10 DEF SkipPosition, NoRoom, TryPosition, InJob
  <2>2. n' = n /\ n \in Nat
    BY <1>c, <2>1 DEF Positions, AllPositions, Runs, Current
  <2>3. Rank'[4] = Rank[4]
    BY <2>1 DEF Rank, Current
  <2>4. Rank[5] = IF pc = "position" THEN 2 * (n + 1 - at) ELSE 2 * (n + 1 - at) - 1
    BY <2>1 DEF Rank
  <2>5. CASE pc' = "position" /\ at' = at + 1
    <3>1. Rank'[5] = 2 * (n' + 1 - (at + 1))
      BY <2>5 DEF Rank
    <3> HIDE DEF n
    <3>2. Rank'[5] < Rank[5]
      BY <1>w, <2>2, <2>4, <3>1
    <3> QED
      BY <1>r, <1>j, <2>1, <2>3, <3>2
  <2>6. CASE pc = "position" /\ pc' = "room" /\ at' = at
    <3>1. Rank'[5] = 2 * (n' + 1 - at) - 1
      BY <2>6 DEF Rank
    <3> HIDE DEF n
    <3>2. Rank'[5] < Rank[5]
      BY <1>w, <2>2, <2>4, <2>6, <3>1
    <3> QED
      BY <1>r, <1>j, <2>1, <2>3, <3>2
  <2> QED
    BY <2>1, <2>5, <2>6
<1> QED
  BY <1>2, <1>3, <1>4, <1>5, <1>6, <1>7, <1>8, <1>9, <1>10 DEF Step

\* buildPlan runs out of work: each of its steps lowers the rank, five natural
\* numbers compared from the first, and a cancellation leaves the rank alone.
THEOREM WorkRunsOut == Spec => StepsRunOut
<1>1. Init => Bounded
  BY DEF Init, Bounded, InJob
<1>2. Inv /\ Bounded /\ [Next]_vars => Bounded'
  BY NextBounded
<1> DEFINE Closer == /\ Rank \in [1 .. 5 -> Nat] /\ Rank' \in [1 .. 5 -> Nat]
                     /\ IF canceled' = canceled THEN Less(Rank', Rank) ELSE Rank' = Rank
<1>3. Inv /\ Bounded => Rank \in [1 .. 5 -> Nat]
  BY RankType
<1>4. Inv /\ Bounded /\ [Next]_vars =>
        \/ UNCHANGED vars
        \/ IF canceled' = canceled THEN Less(Rank', Rank) ELSE Rank' = Rank
  <2> SUFFICES ASSUME Inv, Bounded, [Next]_vars, ~UNCHANGED vars
               PROVE  IF canceled' = canceled THEN Less(Rank', Rank) ELSE Rank' = Rank
    OBVIOUS
  <2>1. CASE Step
    <3>1. canceled' = canceled
      BY <2>1 DEF Step, Load, RejectRequest, BeginWeek, Return, BeginRequirement, EndWeek,
        EndRequirement, SkipClass, RejectCourse, BeginJob, SkipPosition, TryPosition, NoRoom, ChooseRoom,
        Unplaced, Commit, Interrupted, Fail
    <3> QED
      BY <2>1, <3>1, StepRank
  <2>2. CASE CancelContext
    <3>1. canceled' # canceled /\ UNCHANGED <<request, slots, pc, week, next, targets, chosen, at>>
      BY <2>2 DEF CancelContext, input, loaded, job
    <3>2. Rank' = Rank
      BY <3>1 DEF Rank, InJob, Positions, AllPositions, Runs, Current
    <3> QED
      BY <3>1, <3>2
  <2> QED
    BY <2>1, <2>2 DEF Next, Finished
<1>6. Spec => []Bounded
  BY <1>1, <1>2, PlannerInvariant, PTL DEF Spec
<1>7. Spec => [](Rank \in [1 .. 5 -> Nat])
  BY <1>3, <1>6, PlannerInvariant, PTL
<1>8. Inv /\ Bounded /\ Rank \in [1 .. 5 -> Nat] /\ (Rank \in [1 .. 5 -> Nat])' /\ [Next]_vars => [Closer]_vars
  BY <1>4
<1>9. [][Closer]_vars => StepsRunOut
  BY PTL DEF StepsRunOut
<1> QED
  BY <1>6, <1>7, <1>8, <1>9, PlannerInvariant, PTL DEF Spec

===============================================================================
