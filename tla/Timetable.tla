------------------------------- MODULE Timetable -------------------------------
(***************************************************************************)
(* The published timetable: the schedules table, the adjustment_logs table *)
(* and the three requests that write them.  Every repository call is a     *)
(* step of its own, as no request holds a transaction over two of them.    *)
(*                                                                         *)
(* A lesson keeps its class, teacher and course for life and is told by    *)
(* its row; place stands for week, day, slot and classroom.  buildPlan is  *)
(* the choice of a plan (module Planner); the reads after the last write   *)
(* change nothing and are one step, Report.                                *)
(***************************************************************************)
EXTENDS Naturals, Sequences, FiniteSets

CONSTANTS
  Clients,      \* concurrent requests
  Places,       \* a time and a classroom
  Plans,        \* the results buildPlan may give
  Duties,       \* which requests a client makes: a function to sets of actions
  MaxRequests,  \* bound: requests in all
  Faults        \* may a database call fail, or a request lose its context?

Actions == {"generate", "swap", "move"}
Lesson == [place : Places, course : Nat]

ASSUME PlansAssumption == Plans \subseteq Seq(Lesson)
ASSUME DutiesAssumption == Duties \in [Clients -> SUBSET Actions]
ASSUME RequestsAssumption == MaxRequests \in Nat
ASSUME FaultsAssumption == Faults \in BOOLEAN

VARIABLES
  rows,      \* schedules, by id: the lesson, its batch, and deleted_at
  logs,      \* adjustment_logs
  pc, req,   \* each request's progress and parameters
  la, lb,    \* its copies of the rows it read
  requests,  \* how many have been made
  disturbed  \* auxiliary: what has happened that a caller does not reckon with

clientVars == <<pc, req, la, lb>>
vars == <<rows, logs, pc, req, la, lb, requests, disturbed>>

Ids == DOMAIN rows
Live == {i \in Ids : rows[i].live}
AtRest == \A c \in Clients : pc[c] = "idle"
Overlapped == "overlap" \in disturbed
Failed == "failure" \in disturbed

NoRequest == [action |-> "none"]
NoRow == [live |-> FALSE]

Init ==
  /\ rows = <<>> /\ logs = <<>> /\ requests = 0 /\ disturbed = {}
  /\ pc = [c \in Clients |-> "idle"]
  /\ req = [c \in Clients |-> NoRequest]
  /\ la = [c \in Clients |-> NoRow] /\ lb = [c \in Clients |-> NoRow]

Goto(c, from, to) == pc[c] = from /\ pc' = [pc EXCEPT ![c] = to]

Begin(c, r, first) ==
  /\ r.action \in Duties[c] /\ requests < MaxRequests
  /\ Goto(c, "idle", first)
  /\ req' = [req EXCEPT ![c] = r]
  /\ requests' = requests + 1
  /\ disturbed' = IF AtRest THEN disturbed ELSE disturbed \cup {"overlap"}
  /\ UNCHANGED <<rows, logs, la, lb>>

\* Mutant: the request's parameters survive it.
EndKeeping(c) ==
  /\ pc' = [pc EXCEPT ![c] = "idle"]
  /\ UNCHANGED <<req, la, lb>>

\* The request ends, with an answer or an error; its copies are gone.
End(c) ==
  /\ pc' = [pc EXCEPT ![c] = "idle"]
  /\ req' = [req EXCEPT ![c] = NoRequest]
  /\ la' = [la EXCEPT ![c] = NoRow]
  /\ lb' = [lb EXCEPT ![c] = NoRow]

-------------------------------------------------------------------------------
(* The repository.                                                         *)

\* The row a First(&item, id) finds; a deleted row is not found.
Found(i) == i \in Live

\* gorm's Save writes all columns of the copy.  It updates the live row, and
\* when there is none it inserts with ON CONFLICT DO UPDATE, which clears
\* deleted_at: either way the row is the copy afterwards.
Save(i, copy) == rows' = [rows EXCEPT ![i] = copy]

\* One soft-delete statement.
DeleteAllRows == rows' = [i \in Ids |-> [rows[i] EXCEPT !.live = FALSE]]

\* One insert statement or transaction, ids in the order of the plan.
InsertRows(plan, batch) ==
  rows' = rows \o [i \in 1 .. Len(plan) |->
                     [lesson |-> plan[i], batch |-> batch, live |-> TRUE]]

-------------------------------------------------------------------------------
(* Generate: buildPlan, DeleteAll, CreateBatch.                            *)

\* Mutant: only the ids of the new plan are cleared.
DeleteSomeRows(c) ==
  /\ Goto(c, "delete", "insert")
  /\ rows' = [i \in Ids |-> IF i <= Len(req[c].plan)
                            THEN [rows[i] EXCEPT !.live = FALSE] ELSE rows[i]]
  /\ UNCHANGED <<logs, req, la, lb, requests, disturbed>>

Generate(c) ==
  \E plan \in Plans :
    Begin(c, [action |-> "generate", plan |-> plan, batch |-> requests], "delete")

DeleteAll(c) ==
  /\ Goto(c, "delete", "insert")
  /\ DeleteAllRows
  /\ UNCHANGED <<logs, req, la, lb, requests, disturbed>>

CreateBatch(c) ==
  /\ Goto(c, "insert", "report")
  /\ InsertRows(req[c].plan, req[c].batch)
  /\ UNCHANGED <<logs, req, la, lb, requests, disturbed>>

-------------------------------------------------------------------------------
(* Swap: both rows are read, changed in memory, and saved one by one.      *)

Swap(c) ==
  \E a, b \in Ids : Begin(c, [action |-> "swap", a |-> a, b |-> b], "readA")

ReadA(c) ==
  /\ pc[c] = "readA"
  /\ IF Found(req[c].a)
     THEN /\ Goto(c, "readA", "readB")
          /\ la' = [la EXCEPT ![c] = rows[req[c].a]]
          /\ UNCHANGED <<req, lb>>
     ELSE End(c)
  /\ UNCHANGED <<rows, logs, requests, disturbed>>

\* Mutants: the second lesson keeps its place; the rows are swapped as a whole.
ReadBOneWay(c) ==
  /\ pc[c] = "readB"
  /\ IF Found(req[c].b)
     THEN /\ Goto(c, "readB", "saveA")
          /\ la' = [la EXCEPT ![c].lesson.place = rows[req[c].b].lesson.place]
          /\ lb' = [lb EXCEPT ![c] = rows[req[c].b]]
          /\ UNCHANGED req
     ELSE End(c)
  /\ UNCHANGED <<rows, logs, requests, disturbed>>

ReadBWhole(c) ==
  /\ pc[c] = "readB"
  /\ IF Found(req[c].b)
     THEN /\ Goto(c, "readB", "saveA")
          /\ la' = [la EXCEPT ![c] = rows[req[c].b]]
          /\ lb' = [lb EXCEPT ![c] = la[c]]
          /\ UNCHANGED req
     ELSE End(c)
  /\ UNCHANGED <<rows, logs, requests, disturbed>>

ReadB(c) ==
  /\ pc[c] = "readB"
  /\ IF Found(req[c].b)
     THEN LET b == rows[req[c].b]
          IN /\ Goto(c, "readB", "saveA")
             /\ la' = [la EXCEPT ![c].lesson.place = b.lesson.place]
             /\ lb' = [lb EXCEPT ![c] = [b EXCEPT !.lesson.place = la[c].lesson.place]]
             /\ UNCHANGED req
     ELSE End(c)
  /\ UNCHANGED <<rows, logs, requests, disturbed>>

SaveA(c) ==
  /\ Goto(c, "saveA", "saveB")
  /\ Save(req[c].a, la[c])
  /\ UNCHANGED <<logs, req, la, lb, requests, disturbed>>

SaveB(c) ==
  /\ Goto(c, "saveB", "log")
  /\ Save(req[c].b, lb[c])
  /\ UNCHANGED <<logs, req, la, lb, requests, disturbed>>

-------------------------------------------------------------------------------
(* Move: the row is read, changed in memory and saved.                     *)

Move(c) ==
  \E a \in Ids, p \in Places :
    Begin(c, [action |-> "move", a |-> a, to |-> p], "readM")

ReadM(c) ==
  /\ pc[c] = "readM"
  /\ IF Found(req[c].a)
     THEN /\ Goto(c, "readM", "saveM")
          /\ la' = [la EXCEPT ![c] = [rows[req[c].a] EXCEPT !.lesson.place = req[c].to]]
          /\ UNCHANGED <<req, lb>>
     ELSE End(c)
  /\ UNCHANGED <<rows, logs, requests, disturbed>>

SaveM(c) ==
  /\ Goto(c, "saveM", "log")
  /\ Save(req[c].a, la[c])
  /\ UNCHANGED <<logs, req, la, lb, requests, disturbed>>

-------------------------------------------------------------------------------
\* recordAdjustment, after the saves.
LogOf(r) == [action |-> r.action, id |-> r.a]

\* Mutant: a lesson's later adjustment overwrites its earlier one.
RecordLatest(c) ==
  /\ Goto(c, "log", "report")
  /\ LET log == LogOf(req[c])
     IN  logs' = IF \E k \in DOMAIN logs : logs[k].id = log.id
                 THEN [k \in DOMAIN logs |-> IF logs[k].id = log.id THEN log ELSE logs[k]]
                 ELSE Append(logs, log)
  /\ UNCHANGED <<rows, req, la, lb, requests, disturbed>>

Record(c) ==
  /\ Goto(c, "log", "report")
  /\ logs' = Append(logs, LogOf(req[c]))
  /\ UNCHANGED <<rows, req, la, lb, requests, disturbed>>

\* Conflict detection and enrichment read, and the request answers.
Report(c) ==
  /\ pc[c] = "report"
  /\ End(c)
  /\ UNCHANGED <<rows, logs, requests, disturbed>>

\* A database call fails, or the request's context is canceled before it: the
\* handler returns the error, and what it wrote before stays.
Abort(c) ==
  /\ Faults /\ pc[c] # "idle"
  /\ End(c)
  /\ disturbed' = disturbed \cup {"failure"}
  /\ UNCHANGED <<rows, logs, requests>>

\* The bound on requests is reached and all have ended.
Finished == requests = MaxRequests /\ AtRest /\ UNCHANGED vars

Client(c) ==
  \/ Generate(c) \/ DeleteAll(c) \/ CreateBatch(c)
  \/ Swap(c) \/ ReadA(c) \/ ReadB(c) \/ SaveA(c) \/ SaveB(c)
  \/ Move(c) \/ ReadM(c) \/ SaveM(c)
  \/ Record(c) \/ Report(c) \/ Abort(c)

Next == (\E c \in Clients : Client(c)) \/ Finished

Spec == Init /\ [][Next]_vars

-------------------------------------------------------------------------------
(* Properties.                                                             *)

\* Types: rows are lessons of some batch, copies are rows, and every request
\* is where its action can be.
TypeOK ==
  /\ \A i \in Ids : /\ rows[i].lesson \in Lesson /\ rows[i].live \in BOOLEAN
                    /\ rows[i].batch \in 0 .. MaxRequests
  /\ requests \in 0 .. MaxRequests /\ disturbed \subseteq {"overlap", "failure"}
  /\ \A c \in Clients :
       /\ pc[c] \in CASE req[c].action = "none" -> {"idle"}
                      [] req[c].action = "generate" -> {"delete", "insert", "report"}
                      [] req[c].action = "swap" ->
                           {"readA", "readB", "saveA", "saveB", "log", "report"}
                      [] req[c].action = "move" -> {"readM", "saveM", "log", "report"}
       /\ pc[c] \in {"readB", "saveA", "saveM"} => la[c].live

\* "Replaces the currently published timetable with the result": once something
\* was published, and if every plan places some lesson, the timetable is never
\* empty when no request is under way.
NeverLeftEmpty == AtRest /\ Ids # {} /\ <<>> \notin Plans => Live # {}

\* All lessons of the published timetable come from one generation.
OnePublished ==
  \A i, j \in Live : AtRest => rows[i].batch = rows[j].batch

\* They do while requests come one at a time, also when a generation fails
\* between its calls and another follows.
OneWhileAlone == ~Overlapped => OnePublished

\* Swap only permutes: with requests one at a time and no failing call, while
\* nobody moved a lesson, the last published timetable uses the places of a plan,
\* each as often.
PlacesOf(ids, p) == Cardinality({i \in ids : rows[i].lesson.place = p})
Original(plan, p) == Cardinality({k \in DOMAIN plan : plan[k].place = p})
Latest == {i \in Live : rows[i].batch = rows[Len(rows)].batch}

PlacesPermuted ==
  (disturbed = {} /\ AtRest /\ Latest # {} /\ \A k \in DOMAIN logs : logs[k].action # "move") =>
    \E plan \in Plans : \A p \in Places : PlacesOf(Latest, p) = Original(plan, p)

\* "Moves a timetable entry to a new free slot": where a lesson is moved to, no
\* other lesson is published.
MovesToFree ==
  [][\A c \in Clients :
       SaveM(c) => \A i \in Live \ {req[c].a} : rows[i].lesson.place # req[c].to]_vars

\* Whatever copies are saved over what rows, in any order and with any call
\* failing, a row stays the lesson it was published as: Swap and Move change
\* where and when it is held, never its course, and no row is lost.
LessonsKeepIdentity ==
  [][\A i \in Ids : /\ i \in DOMAIN rows'
                    /\ rows'[i].lesson.course = rows[i].lesson.course
                    /\ rows'[i].batch = rows[i].batch]_vars

\* One request at a time: the handlers implement TimetableSpec.  A generation is
\* seen as it is stored; of a swap both lessons are seen to change with its last
\* save, and an adjustment is owed to the history until it is logged.  What a
\* failing call leaves is seen only after one.  Of overlapping requests nothing is
\* said.
Doing(points) == {c \in Clients : pc[c] \in points}
Only(points) == CHOOSE c \in Doing(points) : TRUE

Published ==
  IF Doing({"saveB"}) = {}
  THEN [i \in Live |-> rows[i].lesson]
  ELSE LET c == Only({"saveB"})
           place == lb[c].lesson.place
       IN  [i \in Live |-> IF i = req[c].a
                           THEN [rows[i].lesson EXCEPT !.place = place] ELSE rows[i].lesson]

Owed == {LogOf(req[c]) : c \in Doing({"log"})}

User == INSTANCE TimetableSpec
  WITH published <- Published, nextId <- Len(rows) + 1, history <- logs, owed <- Owed

ImplementsTimetable ==
  /\ User!Init
  /\ [][\/ User!Perform
        \/ Failed' /\ User!Fail
        \/ UNCHANGED User!timetableVars
        \/ Overlapped']_vars

===============================================================================
