------------------------------ MODULE Statistics -------------------------------
(***************************************************************************)
(* ClassroomUtilization, TeacherWorkload and CourseDensity: the lessons of *)
(* the timetable counted by room, by teacher, and by day and slot.         *)
(***************************************************************************)
EXTENDS Reading

VARIABLES
  counts,   \* how many lessons there are of each key met
  lastDay   \* the last day met

statistics == <<counts, lastDay>>

StatisticsInit == counts = <<>> /\ lastDay = 0

Counted == {"rooms", "teachers", "density"}

CountKey(l) ==
  CASE request.asks = "rooms" -> <<l.room>>
    [] request.asks = "teachers" -> <<l.teacher>>
    [] OTHER -> <<l.day, l.slot>>

CountOf(key) == IF key \in DOMAIN counts THEN counts[key] ELSE 0

\* Mutants: the first lesson of a key is not counted; the day of the last lesson
\* is taken for the last one, as the list is in order.
CountLater ==
  /\ request.asks \in Counted /\ pc = "scan" /\ scanned < Len(items)
  /\ LET l == items[scanned + 1]
     IN  /\ counts' = [key \in DOMAIN counts \cup {CountKey(l)} |->
                         IF key = CountKey(l) /\ key \in DOMAIN counts THEN counts[key] + 1 ELSE CountOf(key)]
         /\ lastDay' = IF l.day > lastDay THEN l.day ELSE lastDay
  /\ scanned' = scanned + 1
  /\ UNCHANGED <<reading, pc>>

CountLastDay ==
  /\ request.asks \in Counted /\ pc = "scan" /\ scanned < Len(items)
  /\ LET l == items[scanned + 1]
     IN  /\ counts' = [key \in DOMAIN counts \cup {CountKey(l)} |->
                         CountOf(key) + IF key = CountKey(l) THEN 1 ELSE 0]
         /\ lastDay' = l.day
  /\ scanned' = scanned + 1
  /\ UNCHANGED <<reading, pc>>

\* The loops over the lessons, as one.
Count ==
  /\ request.asks \in Counted /\ pc = "scan" /\ scanned < Len(items)
  /\ LET l == items[scanned + 1]
     IN  /\ counts' = [key \in DOMAIN counts \cup {CountKey(l)} |->
                         CountOf(key) + IF key = CountKey(l) THEN 1 ELSE 0]
         /\ lastDay' = IF l.day > lastDay THEN l.day ELSE lastDay
  /\ scanned' = scanned + 1
  /\ UNCHANGED <<reading, pc>>

\* total_periods: weeks in use, days up to the last in use, slots listed.
Weeks == {items[n].week : n \in DOMAIN items}
TotalPeriods == Cardinality(Weeks) * lastDay * Cardinality(known["slot"])

\* The answers: used_periods of each room, periods of each teacher, and, for the
\* density, the counts as they are.
UsedPeriods == [id \in {room.id : room \in known["room"]} |-> CountOf(<<id>>)]
Workload == [id \in {t.id : t \in known["teacher"]} |-> CountOf(<<id>>)]

-------------------------------------------------------------------------------
(* Properties.                                                             *)

\* Each lesson is counted once, under its own key: an answer leaves out only the
\* lessons of rooms or teachers that were not listed.
EachCounted ==
  request.asks \in Counted =>
    /\ DOMAIN counts = {CountKey(items[n]) : n \in 1 .. scanned}
    /\ \A key \in DOMAIN counts :
         counts[key] = Cardinality({n \in 1 .. scanned : CountKey(items[n]) = key})
    /\ request.asks = "teachers" /\ pc = "done" =>
         \A id \in DOMAIN Workload :
           Workload[id] = Cardinality({n \in DOMAIN items : items[n].teacher = id})

\* A room is used for no more periods than it is said to have, as long as no two
\* lessons meet in it and all the slots in use were listed: the periods used are
\* counted in the whole timetable, the others from what is in use of it and from
\* the first page of the slots.
RoomsApart ==
  \A m, n \in DOMAIN items : m # n =>
    \E col \in {"room", "week", "day", "slot"} : items[m][col] # items[n][col]
SlotsListed ==
  \A slots \in Seen("slot"), n \in DOMAIN items : \E s \in slots : s.id = items[n].slot

UtilizationBounded ==
  request.asks = "rooms" /\ pc = "done" /\ RoomsApart /\ SlotsListed =>
    \A id \in DOMAIN UsedPeriods : UsedPeriods[id] <= TotalPeriods

===============================================================================
