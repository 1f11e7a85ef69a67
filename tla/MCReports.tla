------------------------------- MODULE MCReports -------------------------------
(***************************************************************************)
(* Reports on small timetables and catalogues that change: clashes in      *)
(* lists of three lessons, of which the catalogue is left as it is, and    *)
(* every other request on lists of up to three lessons.                    *)
(***************************************************************************)
EXTENDS Reports

At(id, week, day, slot, room, teacher, class) ==
  [id |-> id, week |-> week, day |-> day, slot |-> slot, room |-> room,
   teacher |-> teacher, class |-> class, course |-> class]

\* Class 2 just fits into room 2; rooms shrink, and teacher 2 rules slot 1 out,
\* while others look.  Of three slots the last starts first.
Slots == {[id |-> 1, start |-> 9], [id |-> 2, start |-> 10], [id |-> 3, start |-> 8]}
Whole ==
  [slot    |-> {s \in Slots : s.id # 3},
   room    |-> {[id |-> 1, capacity |-> 30], [id |-> 2, capacity |-> 40]},
   teacher |-> {[id |-> 1, unavailable |-> {}], [id |-> 2, unavailable |-> {1}]},
   class   |-> {[id |-> 1, students |-> 30], [id |-> 2, students |-> 40]},
   course  |-> {[id |-> 1, name |-> 1], [id |-> 2, name |-> 2]}]
Renewed ==
  [slot    |-> Slots,
   room    |-> {[id |-> 1, capacity |-> 40], [id |-> 2, capacity |-> 30]},
   teacher |-> {[id |-> 1, unavailable |-> {2}], [id |-> 2, unavailable |-> {}]},
   class   |-> {[id |-> 1, students |-> 40], [id |-> 2, students |-> 20]},
   course  |-> {[id |-> 1, name |-> 3]}]

MCCatalogs == {Whole, Renewed}

Anywhere(id) == {At(id, 1, day, slot, room, teacher, class) :
                   day \in {1, 2}, slot \in {1, 2}, room \in {1, 2}, teacher \in {1, 2}, class \in {1, 2}}
First == {l \in Anywhere(1) : l.day = 1 /\ l.class = l.teacher}
Later == {l \in Anywhere(3) : l.slot = 1 /\ l.room = l.class} 

Triples == {{first, second, later} : first \in First, second \in Anywhere(2), later \in Later}

Asking(asks, timetables, filters) == [asks : asks, timetable : timetables, filter : filters]
NoFilter == [id |-> 0, week |-> 0, room |-> 0, teacher |-> 0, class |-> 0]
All == {NoFilter}

\* Lessons of two weeks in two rooms, also in weeks and days left out.
Spread ==
  {{At(1, 1, d, 1, 1, 1, 1), At(2, 2, e, 1, r, 2, 2), At(3, 2, e, s, 1, 1, 2)} :
     d \in {1, 3}, e \in {1, 2}, r \in {1, 2}, s \in {1, 2}}

\* Room 1 is full in week 1, and used once in week 2.
Full == {At(1, 1, 1, 1, 1, 1, 1), At(2, 1, 1, 2, 1, 1, 1), At(3, 1, 2, 1, 1, 1, 1),
         At(4, 1, 2, 2, 1, 1, 1), At(5, 2, 1, 1, 1, 1, 1)}

Plans == {<<At(0, 1, d, 1, 1, 1, 1), At(0, 1, e, 2, 1, 1, c)>> :
            d \in {1, 2}, e \in {1, 2}, c \in {1, 2}}

MCRequests ==
  Asking({"conflicts"}, Triples, All)
    \cup Asking({"rooms", "teachers", "density"}, Spread \cup {{}, Full}, All)
    \cup Asking({"lessons"}, Spread, All \cup {[NoFilter EXCEPT !.class = 2, !.week = 2], [NoFilter EXCEPT !.room = 1]})
    \cup Asking({"lesson"}, Spread, {[NoFilter EXCEPT !.id = n] : n \in {2, 4}})
    \cup [asks : {"plan"}, plan : Plans]

===============================================================================
