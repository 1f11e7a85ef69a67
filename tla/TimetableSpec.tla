----------------------------- MODULE TimetableSpec -----------------------------
(***************************************************************************)
(* What the published timetable is to a user of the API whose requests     *)
(* come one at a time: a set of lessons by id, replaced by a generation,   *)
(* changed by one adjustment at a time, with a history of the adjustments  *)
(* made.  Perform is what requests do when no call fails, Fail what a      *)
(* failing call may leave.                                                 *)
(***************************************************************************)
EXTENDS Naturals, Sequences

CONSTANTS Places,  \* week, day, slot and classroom of a lesson
          Plans    \* what a generation can produce: sequences of lessons

VARIABLES published,  \* lesson by id
          nextId,     \* ids are never used again
          history,    \* adjustments, oldest first
          owed        \* the adjustment made and not yet in the history, if any

timetableVars == <<published, nextId, history, owed>>

Init == published = <<>> /\ nextId = 1 /\ history = <<>> /\ owed = {}

Entry(action, a) == [action |-> action, id |-> a]

\* A generation withdraws the timetable it replaces.
Clear ==
  /\ owed = {}
  /\ published' = <<>>
  /\ UNCHANGED <<nextId, history, owed>>

\* It publishes its plan, all of it and nothing else, under new ids.
Publish ==
  \E plan \in Plans :
    /\ owed = {} /\ published = <<>>
    /\ published' = [i \in nextId .. nextId + Len(plan) - 1 |-> plan[i - nextId + 1]]
    /\ nextId' = nextId + Len(plan)
    /\ UNCHANGED <<history, owed>>

\* Two lessons change places.
Swap(a, b) ==
  /\ owed = {}
  /\ published' = [published EXCEPT ![a].place = published[b].place,
                                    ![b].place = published[a].place]
  /\ owed' = {Entry("swap", a)}
  /\ UNCHANGED <<nextId, history>>

\* A lesson gets any place asked for, also one that another lesson has.  The API
\* promises a free one (MovesToFree of Timetable); its handlers do not look.
Move(a, p) ==
  /\ owed = {}
  /\ published' = [published EXCEPT ![a].place = p]
  /\ owed' = {Entry("move", a)}
  /\ UNCHANGED <<nextId, history>>

\* The adjustment enters the history before anything else is changed.
Log ==
  \E entry \in owed :
    /\ history' = Append(history, entry)
    /\ owed' = {}
    /\ UNCHANGED <<published, nextId>>

\* A swap fails between its saves: one lesson has the other's place.
SwapHalf(a, b) ==
  /\ owed = {}
  /\ published' = [published EXCEPT ![a].place = published[b].place]
  /\ UNCHANGED <<nextId, history, owed>>

\* An adjustment is made and never logged.
Lose ==
  /\ owed' = {}
  /\ UNCHANGED <<published, nextId, history>>

Perform ==
  \/ Clear \/ Publish \/ Log
  \/ \E a, b \in DOMAIN published : Swap(a, b)
  \/ \E a \in DOMAIN published, p \in Places : Move(a, p)

Fail == Lose \/ \E a, b \in DOMAIN published : SwapHalf(a, b)

Spec == Init /\ [][Perform \/ Fail]_timetableVars

===============================================================================
