------------------------------- MODULE MCPlanner -------------------------------
(***************************************************************************)
(* Planner on small catalogs: two or three slots, two classes of different *)
(* sizes, two teachers and two rooms, and every request over one or two    *)
(* requirements of the sets below.                                         *)
(***************************************************************************)
EXTENDS Planner

\* Course 7 needs equipment that only the small room has; teacher 1 rules slot 2 out.
SmallStore ==
  [slots    |-> <<1, 2, 3>>,
   classes  |-> <<[id |-> 1, students |-> 30], [id |-> 2, students |-> 50]>>,
   teachers |-> <<[id |-> 1, unavailable |-> {2}, subjects |-> {1}],
                  [id |-> 2, unavailable |-> {}, subjects |-> {7}]>>,
   rooms    |-> <<[id |-> 1, capacity |-> 40, kinds |-> {5}],
                  [id |-> 2, capacity |-> 60, kinds |-> {}]>>,
   courses  |-> <<[id |-> 1, kind |-> 0], [id |-> 2, kind |-> 0], [id |-> 7, kind |-> 5]>>]

\* More classes than a page, and a day too short for all of them.
CrowdedStore ==
  [SmallStore EXCEPT !.slots = <<1, 2>>,
                     !.classes = [n \in 1 .. 4 |-> [id |-> n, students |-> 30]]]

MCStores == {SmallStore, CrowdedStore}
OneStore == {SmallStore}

\* Course 9 is unknown.
Single == [course : {1, 2, 7, 9}, class : {0, 1, 2}, teacher : {0, 1, 2}, periods : {1, 2, 3},
           consecutive : BOOLEAN]
Paired == {r \in Single : /\ r.course # 9 /\ r.class # 2 /\ r.teacher = 0
                          /\ r.periods # 1 /\ (r.consecutive => r.class = 0)}

RequestsFor(courses, weeks, days, periods) ==
  [weeks : weeks, days : days, periods : periods, courses : courses,
   classes : {<<>>}, teachers : {<<>>}, rooms : {<<>>}]

\* A requirement for teacher 2 in a request that lists teacher 1 only.
UnlistedTeacher ==
  [weeks : {1}, days : {1}, periods : {2},
   courses : {<<[course |-> 1, class |-> 1, teacher |-> t, periods |-> 1, consecutive |-> FALSE]>> :
                t \in {1, 2}},
   classes : {<<>>}, teachers : {<<1>>}, rooms : {<<>>}]

\* Classes listed, or read from the first page, for requirements that name one
\* or none of them.
Classes == {<<>>, <<1, 4>>}
Crowded ==
  [weeks : {1, 2}, days : {1, 2}, periods : {1},
   courses : {<<[course |-> 7, class |-> b, teacher |-> t, periods |-> 1, consecutive |-> FALSE],
                [course |-> 1, class |-> a, teacher |-> 0, periods |-> 1, consecutive |-> FALSE]>> :
                a, b \in {0, 2, 4}, t \in {0, 9}},
   classes : Classes, teachers : {<<>>, <<1, 2>>}, rooms : {<<>>}]

MCRequests ==
  RequestsFor({<<r>> : r \in Single}, {1}, {1, 2}, {2, 3, 4})
    \cup UnlistedTeacher \cup Crowded
    \cup RequestsFor(Paired \X Paired, {1, 2}, {2}, {2, 3})

\* One lesson of class 1, then two consecutive ones.
RunRequests ==
  RequestsFor({<<[course |-> 1, class |-> 1, teacher |-> 1, periods |-> 3, consecutive |-> FALSE],
           [course |-> 7, class |-> 1, teacher |-> 2, periods |-> 2, consecutive |-> c]>> :
           c \in BOOLEAN},
        {1}, {2}, {3})

===============================================================================
