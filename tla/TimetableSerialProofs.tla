------------------------- MODULE TimetableSerialProofs -------------------------
(***************************************************************************)
(* While requests come one at a time, the copies a request holds are the   *)
(* rows themselves.  So one generation is published whichever calls fail,  *)
(* and the handlers implement the timetable of TimetableSpec, whatever the *)
(* plans and however long the history.                                     *)
(***************************************************************************)
EXTENDS TimetableProofs, FiniteSetTheorems

\* One request is under way, or none.
Alone == \A c, d \in Clients : pc[c] # "idle" /\ pc[d] # "idle" => c = d

\* What the client has read or deleted is still so when it writes.
Current(c) ==
  /\ pc[c] = "insert" => Live = {}
  /\ pc[c] \in {"readB", "saveA", "saveB", "saveM"} => req[c].a \in Live
  /\ pc[c] \in {"saveA", "saveB"} => req[c].b \in Live
  /\ pc[c] = "readB" => la[c] = rows[req[c].a]
  /\ pc[c] = "saveA" =>
       /\ la[c] = [rows[req[c].a] EXCEPT !.lesson.place = rows[req[c].b].lesson.place]
       /\ lb[c] = [rows[req[c].b] EXCEPT !.lesson.place = rows[req[c].a].lesson.place]
  /\ pc[c] = "saveB" =>
       /\ lb[c].live
       /\ rows[req[c].a].lesson.place = rows[req[c].b].lesson.place
       /\ req[c].a = req[c].b => lb[c].lesson.place = rows[req[c].a].lesson.place
  /\ pc[c] = "saveM" => la[c] = [rows[req[c].a] EXCEPT !.lesson.place = req[c].to]

OneBatch == \A i, j \in Live : rows[i].batch = rows[j].batch

Serial == Alone /\ OneBatch /\ \A c \in Clients : Current(c)

\* The inductive invariant behind OneWhileAlone and the refinement.
SerialInv == TypeInv /\ (~Overlapped => Serial)

\* What a step of c may find of the others, and leaves.
Others(c) == \A d \in Clients \ {c} : pc[d] = "idle" /\ pc'[d] = "idle"

-------------------------------------------------------------------------------
(* The repository.                                                         *)

\* Saving a live copy of a live row leaves the live rows the live rows.
LEMMA SaveLive ==
  ASSUME rows \in Seq(Row), NEW i \in Live, NEW copy, CopyOf(copy, i), copy.live, Save(i, copy)
  PROVE  /\ Live' = Live /\ rows'[i] = copy /\ Len(rows') = Len(rows)
         /\ \A j \in Live \ {i} : rows'[j] = rows[j]
         /\ OneBatch => OneBatch'
<1>1. i \in DOMAIN rows /\ rows[i].live
  BY DEF Live, Ids
<1>2. DOMAIN rows' = DOMAIN rows /\ rows'[i] = copy
        /\ \A j \in DOMAIN rows \ {i} : rows'[j] = rows[j]
  BY <1>1 DEF Save
<1>3. rows' \in Seq(Row)
  BY SaveKeeps
<1>4. Len(rows') = Len(rows)
  BY <1>2, <1>3
<1>5. Live' = Live
  BY <1>1, <1>2 DEF Live, Ids
<1>6. \A j \in Live : rows'[j].batch = rows[j].batch
  BY <1>1, <1>2 DEF Live, Ids, CopyOf
<1> QED
  BY <1>2, <1>4, <1>5, <1>6 DEF OneBatch, Live, Ids

\* Inserting a plan into a table without live rows makes it the timetable.
LEMMA InsertLive ==
  ASSUME rows \in Seq(Row), Live = {}, NEW plan \in Plans, NEW batch \in 0 .. MaxRequests,
         InsertRows(plan, batch)
  PROVE  /\ Len(rows) \in Nat /\ Len(plan) \in Nat /\ Len(rows') = Len(rows) + Len(plan)
         /\ Live' = Len(rows) + 1 .. Len(rows) + Len(plan)
         /\ \A i \in Live' : rows'[i].lesson = plan[i - Len(rows)]
         /\ OneBatch'
<1> DEFINE row(i) == [lesson |-> plan[i], batch |-> batch, live |-> TRUE]
           new == [i \in 1 .. Len(plan) |-> row(i)]
<1>1. Len(plan) \in Nat /\ Len(rows) \in Nat /\ \A i \in 1 .. Len(plan) : plan[i] \in Lesson
  BY PlansAssumption
<1>2. \A i \in 1 .. Len(plan) : row(i) \in Row
  BY <1>1 DEF Row
<1>3. rows' = rows \o new
  BY DEF InsertRows
<1>4. row(1).live /\ \A i \in 1 .. Len(plan) : row(i).live /\ row(i).batch = batch /\ row(i).lesson = plan[i]
  OBVIOUS
<1> HIDE DEF row
<1>5. new \in Seq(Row) /\ Len(new) = Len(plan) /\ \A i \in 1 .. Len(plan) : new[i] = row(i)
  BY <1>1, <1>2, SeqDef
<1> HIDE DEF new
<1>6. /\ Len(rows') = Len(rows) + Len(plan) /\ DOMAIN rows' = 1 .. Len(rows) + Len(plan)
      /\ \A i \in 1 .. Len(rows) : rows'[i] = rows[i]
      /\ \A i \in Len(rows) + 1 .. Len(rows) + Len(plan) : rows'[i] = new[i - Len(rows)]
  BY <1>1, <1>3, <1>5, ConcatProperties
<1>7. \A i \in Len(rows) + 1 .. Len(rows) + Len(plan) : rows'[i] = row(i - Len(rows))
  BY <1>1, <1>5, <1>6
<1>8. \A i \in 1 .. Len(rows) : ~rows'[i].live
  BY <1>6 DEF Live, Ids
<1>9. \A i \in Len(rows) + 1 .. Len(rows) + Len(plan) :
        rows'[i].live /\ rows'[i].batch = batch /\ rows'[i].lesson = plan[i - Len(rows)]
  BY <1>1, <1>4, <1>7
<1>10. Live' = Len(rows) + 1 .. Len(rows) + Len(plan)
  BY <1>1, <1>6, <1>8, <1>9 DEF Live, Ids
<1> QED
  BY <1>1, <1>6, <1>9, <1>10 DEF OneBatch

-------------------------------------------------------------------------------
(* The requests.                                                           *)

\* A step that leaves the rows alone, to a point that promises nothing.
LEMMA StayCurrent ==
  ASSUME OneBatch, NEW c \in Clients, rows' = rows,
         pc'[c] \in {"idle", "delete", "readA", "readM", "log", "report"}
  PROVE  OneBatch' /\ Current(c)'
BY DEF OneBatch, Current, Live, Ids

\* The step of the only client under way keeps what it has read current.
LEMMA OwnStep ==
  ASSUME TypeInv, Serial, NEW c \in Clients, Client(c)
  PROVE  OneBatch' /\ Current(c)'
<1>1. /\ pc \in [Clients -> Points] /\ req \in [Clients -> Request] /\ rows \in Seq(Row)
      /\ la \in [Clients -> Row \cup {NoRow}] /\ lb \in [Clients -> Row \cup {NoRow}]
  BY DEF TypeInv, CopyInv, Typed
<1>2. Current(c) /\ OneBatch /\ At(c) /\ CopyInv /\ InPlace
  BY DEF Serial, TypeInv, Placed, CopyInv
<1>3. CASE Generate(c) \/ Swap(c) \/ Move(c) \/ (End(c) /\ rows' = rows) \/ Record(c) \/ Abort(c)
  <2>1. rows' = rows /\ pc'[c] \in {"idle", "delete", "readA", "readM", "report"}
    BY <1>1, <1>3 DEF Generate, Swap, Move, Begin, End, Record, Abort, Goto
  <2> QED
    BY <1>2, <2>1, StayCurrent
<1>4. CASE DeleteAll(c)
  <2>1. pc'[c] = "insert" /\ DeleteAllRows
    BY <1>1, <1>4 DEF DeleteAll, Goto
  <2>2. DOMAIN rows' = DOMAIN rows /\ \A i \in DOMAIN rows : rows'[i] = [rows[i] EXCEPT !.live = FALSE]
    BY <2>1 DEF DeleteAllRows, Ids
  <2>3. \A row \in Row : ~[row EXCEPT !.live = FALSE].live
    BY DEF Row
  <2>s. \A i \in DOMAIN rows : rows[i] \in Row
    BY <1>1
  <2>d. \A i \in DOMAIN rows : ~rows'[i].live
    BY <2>2, <2>3, <2>s
  <2>4. Live' = {}
    BY <2>2, <2>d DEF Live, Ids
  <2> QED
    BY <2>1, <2>4 DEF OneBatch, Current
<1>5. CASE CreateBatch(c)
  <2>1. pc[c] = "insert" /\ pc'[c] = "report" /\ InsertRows(req[c].plan, req[c].batch)
    BY <1>1, <1>5 DEF CreateBatch, Goto
  <2>2. req[c].plan \in Plans /\ req[c].batch \in 0 .. MaxRequests
    BY <1>1, <1>2, <2>1 DEF InPlace, Request, NoRequest
  <2>3. OneBatch'
    BY <1>1, <1>2, <2>1, <2>2, InsertLive DEF Current
  <2> QED
    BY <2>1, <2>3 DEF Current
<1>6. CASE ReadA(c) /\ ~End(c)
  <2>1. /\ pc'[c] = "readB" /\ rows' = rows /\ req' = req /\ Found(req[c].a)
        /\ la'[c] = rows[req[c].a]
    BY <1>1, <1>6 DEF ReadA, Goto
  <2> QED
    BY <1>2, <2>1 DEF Current, OneBatch, Found, Live, Ids
<1>7. CASE ReadB(c) /\ ~End(c)
  <2>1. /\ pc[c] = "readB" /\ pc'[c] = "saveA" /\ rows' = rows /\ req' = req /\ Found(req[c].b)
        /\ la'[c] = [la[c] EXCEPT !.lesson.place = rows[req[c].b].lesson.place]
        /\ lb'[c] = [rows[req[c].b] EXCEPT !.lesson.place = la[c].lesson.place]
    BY <1>1, <1>7 DEF ReadB, Goto
  <2>2. la[c] = rows[req[c].a] /\ req[c].a \in Live /\ req[c].b \in Live
    BY <1>2, <2>1 DEF Current, Found
  <2> QED
    BY <1>2, <2>1, <2>2 DEF Current, OneBatch, Live, Ids
<1>8. CASE ReadM(c) /\ ~End(c)
  <2>1. /\ pc[c] = "readM" /\ pc'[c] = "saveM" /\ rows' = rows /\ req' = req /\ Found(req[c].a)
        /\ la'[c] = [rows[req[c].a] EXCEPT !.lesson.place = req[c].to]
    BY <1>1, <1>8 DEF ReadM, Goto
  <2> QED
    BY <1>2, <2>1 DEF Current, OneBatch, Found, Live, Ids
<1>9. CASE SaveA(c)
  <2> DEFINE a == req[c].a
             b == req[c].b
  <2>1. /\ pc[c] = "saveA" /\ pc'[c] = "saveB" /\ Save(a, la[c]) /\ req' = req /\ lb' = lb
    BY <1>1, <1>9 DEF SaveA, Goto
  <2>2. /\ a \in Live /\ b \in Live /\ la[c].live /\ CopyOf(la[c], a)
        /\ la[c] = [rows[a] EXCEPT !.lesson.place = rows[b].lesson.place]
        /\ lb[c] = [rows[b] EXCEPT !.lesson.place = rows[a].lesson.place]
    BY <1>2, <2>1 DEF Current, At, CopyInv, CopiesAgree
  <2>3. /\ Live' = Live /\ OneBatch' /\ rows'[a] = la[c]
        /\ \A i \in Live \ {a} : rows'[i] = rows[i]
    BY <1>1, <1>2, <2>1, <2>2, SaveLive
  <2>4. /\ rows[a] \in Row /\ rows[b] \in Row /\ rows[b].live
        /\ rows[a].lesson \in Lesson /\ rows[b].lesson \in Lesson
    <3>1. a \in DOMAIN rows /\ b \in DOMAIN rows /\ rows[b].live
      BY <2>2 DEF Live, Ids
    <3>2. rows[a] \in Row /\ rows[b] \in Row
      BY <1>1, <3>1
    <3> QED
      BY <3>1, <3>2 DEF Row
  <2>5. lb[c].live /\ lb[c].lesson.place = rows[a].lesson.place
    BY <2>2, <2>4 DEF Row, Lesson
  <2>6. rows'[a].lesson.place = rows[b].lesson.place
    BY <2>2, <2>3, <2>4 DEF Row, Lesson
  <2>7. rows'[b].lesson.place = rows[b].lesson.place
    BY <2>2, <2>3, <2>6
  <2> QED
    BY <2>1, <2>2, <2>3, <2>5, <2>6, <2>7 DEF Current
<1>10. CASE SaveB(c)
  <2>1. pc[c] = "saveB" /\ pc'[c] = "log" /\ Save(req[c].b, lb[c])
    BY <1>1, <1>10 DEF SaveB, Goto
  <2>2. req[c].b \in Live /\ lb[c].live /\ CopyOf(lb[c], req[c].b)
    BY <1>2, <2>1 DEF Current, CopyInv, CopiesAgree
  <2>3. OneBatch'
    BY <1>1, <1>2, <2>1, <2>2, SaveLive
  <2> QED
    BY <2>1, <2>3 DEF Current
<1>11. CASE SaveM(c)
  <2>1. pc[c] = "saveM" /\ pc'[c] = "log" /\ Save(req[c].a, la[c])
    BY <1>1, <1>11 DEF SaveM, Goto
  <2>2. req[c].a \in Live /\ la[c].live /\ CopyOf(la[c], req[c].a)
    BY <1>2, <2>1 DEF Current, At, CopyInv, CopiesAgree
  <2>3. OneBatch'
    BY <1>1, <1>2, <2>1, <2>2, SaveLive
  <2> QED
    BY <2>1, <2>3 DEF Current
<1>12. CASE Report(c)
  BY <1>1, <1>2, <1>12, StayCurrent DEF Report, End
<1> QED
  BY <1>3, <1>4, <1>5, <1>6, <1>7, <1>8, <1>9, <1>10, <1>11, <1>12
     DEF Client, ReadA, ReadB, ReadM

\* A request that overlaps no other has the others idle.
LEMMA OthersIdle ==
  ASSUME TypeInv, Alone, NEW c \in Clients, Client(c), ~Overlapped'
  PROVE  Others(c) /\ Alone'
<1>1. pc \in [Clients -> Points]
  BY DEF TypeInv, CopyInv, Typed
<1>2. \A d \in Clients \ {c} : pc'[d] = pc[d]
  BY <1>1 DEF Client, Generate, DeleteAll, CreateBatch, Swap, ReadA, ReadB, SaveA, SaveB, Move,
              ReadM, SaveM, Record, Report, Abort, Begin, End, Goto
<1>3. CASE pc[c] # "idle"
  BY <1>2, <1>3 DEF Alone, Others
<1>4. CASE pc[c] = "idle"
  <2>1. Generate(c) \/ Swap(c) \/ Move(c)
    BY <1>4 DEF Client, DeleteAll, CreateBatch, ReadA, ReadB, SaveA, SaveB, ReadM, SaveM, Record,
                Report, Abort, Goto
  <2>2. disturbed' = IF AtRest THEN disturbed ELSE disturbed \cup {"overlap"}
    BY <2>1 DEF Generate, Swap, Move, Begin
  <2>3. AtRest
    BY <2>2 DEF Overlapped
  <2> QED
    BY <1>2, <2>3 DEF AtRest, Alone, Others
<1> QED
  BY <1>3, <1>4

\* What has happened stays so.
LEMMA DisturbedStays ==
  ASSUME [Next]_vars
  PROVE  disturbed \subseteq disturbed'
BY DEF Next, vars, Finished, Client, Generate, DeleteAll, CreateBatch, Swap, ReadA, ReadB, SaveA,
       SaveB, Move, ReadM, SaveM, Record, Report, Abort, Begin

LEMMA StepSerial ==
  ASSUME SerialInv, [Next]_vars
  PROVE  SerialInv'
<1>1. TypeInv'
  BY StepPlaces DEF SerialInv
<1>2. SUFFICES ASSUME ~Overlapped'
               PROVE  Serial'
  BY <1>1 DEF SerialInv
<1>3. TypeInv /\ Serial
  BY <1>2, DisturbedStays DEF SerialInv, Overlapped
<1>4. CASE UNCHANGED vars \/ Finished
  <2>1. UNCHANGED vars
    BY <1>4 DEF Finished
  <2> QED
    BY <1>3, <2>1 DEF vars, Serial, Alone, OneBatch, Current, Live, Ids
<1>5. ASSUME NEW c \in Clients, Client(c)
      PROVE  Serial'
  <2>1. OneBatch' /\ Current(c)'
    BY <1>3, <1>5, OwnStep
  <2>2. Others(c) /\ Alone'
    BY <1>2, <1>3, <1>5, OthersIdle DEF Serial
  <2>3. \A d \in Clients \ {c} : Current(d)'
    BY <2>2 DEF Others, Current
  <2> QED
    BY <2>1, <2>2, <2>3 DEF Serial
<1> QED
  BY <1>4, <1>5 DEF Next

\* While requests come one at a time, whichever of their calls fail: what a
\* request read is still so when it writes.
THEOREM SerialInvariant == Spec => []SerialInv
<1>1. Init => SerialInv
  <2> SUFFICES ASSUME Init
               PROVE  SerialInv
    OBVIOUS
  <2>1. TypeInv
    <3>1. CopyInv
      BY RequestsAssumption DEF Init, CopyInv, Typed, InPlace, CopiesAgree, Points, Request
    <3> QED
      BY <3>1 DEF Init, TypeInv, Placed, At, PointsOf, NoRequest
  <2>2. Live = {}
    BY DEF Init, Live, Ids
  <2> QED
    BY <2>1, <2>2 DEF Init, SerialInv, Serial, Alone, OneBatch, Current
<1>2. SerialInv /\ [Next]_vars => SerialInv'
  BY StepSerial
<1> QED
  BY <1>1, <1>2, PTL DEF Spec

\* Then the published lessons come from one generation, at every moment, even
\* where a generation failed after it deleted the last one.
THEOREM OneGenerationPublished == Spec => []OneWhileAlone
<1>1. SerialInv => OneWhileAlone
  BY DEF SerialInv, Serial, OneBatch, OneWhileAlone, OnePublished
<1> QED
  BY <1>1, SerialInvariant, PTL


-------------------------------------------------------------------------------
(* The refinement.                                                         *)

\* What the user sees, by the progress of the only client under way.
PublishedBy(c) ==
  IF pc[c] = "saveB"
  THEN [i \in Live |-> IF i = req[c].a
                       THEN [rows[i].lesson EXCEPT !.place = lb[c].lesson.place]
                       ELSE rows[i].lesson]
  ELSE [i \in Live |-> rows[i].lesson]

OwedBy(c) == IF pc[c] = "log" THEN {LogOf(req[c])} ELSE {}

LEMMA SeenNow ==
  ASSUME NEW c \in Clients, Others(c)
  PROVE  Published = PublishedBy(c) /\ Owed = OwedBy(c)
<1>1. /\ pc[c] = "saveB" => Doing({"saveB"}) = {c}
      /\ pc[c] # "saveB" => Doing({"saveB"}) = {}
      /\ pc[c] = "log" => Doing({"log"}) = {c}
      /\ pc[c] # "log" => Doing({"log"}) = {}
  BY DEF Others, Doing
<1>2. pc[c] = "saveB" => Only({"saveB"}) = c
  BY <1>1 DEF Only
<1>3. Published = PublishedBy(c)
  BY <1>1, <1>2 DEF Published, PublishedBy
<1> QED
  BY <1>1, <1>3 DEF Owed, OwedBy

LEMMA SeenNext ==
  ASSUME NEW c \in Clients, Others(c)
  PROVE  Published' = PublishedBy(c)' /\ Owed' = OwedBy(c)'
<1>1. /\ pc'[c] = "saveB" => Doing({"saveB"})' = {c}
      /\ pc'[c] # "saveB" => Doing({"saveB"})' = {}
      /\ pc'[c] = "log" => Doing({"log"})' = {c}
      /\ pc'[c] # "log" => Doing({"log"})' = {}
  BY DEF Others, Doing
<1>2. pc'[c] = "saveB" => Only({"saveB"})' = c
  BY <1>1 DEF Only
<1>3. Published' = PublishedBy(c)'
  BY <1>1, <1>2 DEF Published, PublishedBy
<1> QED
  BY <1>1, <1>3 DEF Owed, OwedBy

\* A published lesson is one.
LEMMA LiveRows ==
  ASSUME TypeInv, NEW i \in Live
  PROVE  rows[i] \in Row /\ rows[i].lesson \in Lesson
<1>1. rows \in Seq(Row) /\ i \in DOMAIN rows
  BY DEF TypeInv, CopyInv, Typed, Live, Ids
<1>2. rows[i] \in Row
  BY <1>1
<1> QED
  BY <1>2 DEF Row

\* Another place for a lesson.
LEMMA LessonMoved ==
  ASSUME NEW row \in Row, NEW place
  PROVE  [row EXCEPT !.lesson.place = place].lesson = [row.lesson EXCEPT !.place = place]
BY DEF Row

\* Two lessons of one course differ by their places.
LEMMA SameCourse ==
  ASSUME NEW x \in Lesson, NEW y \in Lesson, x.course = y.course
  PROVE  x = [y EXCEPT !.place = x.place] /\ [x EXCEPT !.place = y.place] = y
BY DEF Lesson

\* Steps that the user does not notice.
LEMMA QuietSteps ==
  ASSUME NEW c \in Clients, Others(c), rows' = rows, logs' = logs,
         pc[c] \notin {"saveB", "log"}, pc'[c] \notin {"saveB", "log"}
  PROVE  UNCHANGED User!timetableVars
<1>1. PublishedBy(c)' = PublishedBy(c) /\ OwedBy(c)' = OwedBy(c)
  BY DEF PublishedBy, OwedBy, Live, Ids
<1> QED
  BY <1>1, SeenNow, SeenNext DEF User!timetableVars

\* A generation is seen to withdraw what it deletes.
LEMMA DeleteSeen ==
  ASSUME TypeInv, NEW c \in Clients, Others(c), DeleteAll(c)
  PROVE  User!Clear
<1>1. pc \in [Clients -> Points] /\ rows \in Seq(Row)
  BY DEF TypeInv, CopyInv, Typed
<1>2. pc[c] = "delete" /\ pc'[c] = "insert" /\ logs' = logs /\ DeleteAllRows
  BY <1>1 DEF DeleteAll, Goto
<1>3. DOMAIN rows' = DOMAIN rows /\ \A i \in DOMAIN rows : rows'[i] = [rows[i] EXCEPT !.live = FALSE]
  BY <1>2 DEF DeleteAllRows, Ids
<1>4. \A row \in Row : ~[row EXCEPT !.live = FALSE].live
  BY DEF Row
<1>5. \A i \in DOMAIN rows : ~rows'[i].live
  <2>1. \A i \in DOMAIN rows : rows[i] \in Row
    BY <1>1
  <2> QED
    BY <1>3, <1>4, <2>1
<1>6. Live' = {}
  BY <1>3, <1>5 DEF Live, Ids
<1>7. Len(rows') = Len(rows)
  <2>1. rows' \in Seq(Row)
    BY <1>1, <1>2, DeleteKeeps
  <2> QED
    BY <1>1, <1>3, <2>1
<1>8. Published' = <<>> /\ Owed = {} /\ Owed' = {}
  <2>1. PublishedBy(c)' = <<>>
    BY <1>2, <1>6 DEF PublishedBy
  <2> QED
    BY <1>2, <2>1, SeenNow, SeenNext DEF OwedBy
<1> QED
  BY <1>2, <1>7, <1>8 DEF User!Clear

\* It is seen to publish what it inserts.
LEMMA InsertSeen ==
  ASSUME TypeInv, Serial, NEW c \in Clients, Others(c), CreateBatch(c)
  PROVE  User!Publish
<1>1. /\ pc \in [Clients -> Points] /\ req \in [Clients -> Request] /\ rows \in Seq(Row)
      /\ InPlace /\ Current(c)
  BY DEF Serial, TypeInv, CopyInv, Typed
<1>2. /\ pc[c] = "insert" /\ pc'[c] = "report" /\ logs' = logs
      /\ InsertRows(req[c].plan, req[c].batch)
  BY <1>1 DEF CreateBatch, Goto
<1> DEFINE plan == req[c].plan
           n == Len(rows)
<1>3. plan \in Plans /\ req[c].batch \in 0 .. MaxRequests
  BY <1>1, <1>2 DEF InPlace, Request, NoRequest
<1>4. /\ n \in Nat /\ Len(plan) \in Nat /\ Len(rows') = n + Len(plan)
      /\ Live' = n + 1 .. n + Len(plan)
      /\ \A i \in Live' : rows'[i].lesson = plan[i - n]
  BY <1>1, <1>2, <1>3, InsertLive DEF Current
<1>5. Published = <<>> /\ Owed = {} /\ Owed' = {}
  <2>1. Live = {}
    BY <1>1, <1>2 DEF Current
  <2>2. PublishedBy(c) = <<>>
    BY <1>2, <2>1 DEF PublishedBy
  <2> QED
    BY <1>2, <2>2, SeenNow, SeenNext DEF OwedBy
<1>6. Published' = [i \in Live' |-> rows'[i].lesson]
  BY <1>2, SeenNext DEF PublishedBy
<1> HIDE DEF plan, n
<1>7. /\ n + 1 .. n + Len(plan) = n + 1 .. n + 1 + Len(plan) - 1
      /\ \A i \in n + 1 .. n + Len(plan) : i - n = i - (n + 1) + 1
  BY <1>4
<1>8. Published' = [i \in n + 1 .. n + 1 + Len(plan) - 1 |-> plan[i - (n + 1) + 1]]
  BY <1>4, <1>6, <1>7
<1>9. Len(rows') + 1 = n + 1 + Len(plan)
  BY <1>4
<1>10. /\ Published' = [i \in Len(rows) + 1 .. Len(rows) + 1 + Len(plan) - 1 |->
                         plan[i - (Len(rows) + 1) + 1]]
       /\ Len(rows') + 1 = Len(rows) + 1 + Len(plan)
  BY <1>8, <1>9 DEF n
<1> QED
  BY <1>2, <1>3, <1>5, <1>10, Zenon DEF User!Publish

\* The first save of a swap is not seen.
LEMMA FirstUnseen ==
  ASSUME TypeInv, Serial, NEW c \in Clients, Others(c), SaveA(c)
  PROVE  UNCHANGED User!timetableVars
<1>1. /\ pc \in [Clients -> Points] /\ rows \in Seq(Row) /\ CopiesAgree /\ Current(c) /\ At(c)
  BY DEF Serial, TypeInv, Placed, CopyInv, Typed
<1> DEFINE a == req[c].a
           b == req[c].b
<1>2. pc[c] = "saveA" /\ pc'[c] = "saveB" /\ UNCHANGED <<logs, req, lb>> /\ Save(a, la[c])
  BY <1>1 DEF SaveA, Goto
<1>3. /\ a \in Live /\ b \in Live /\ CopyOf(la[c], a) /\ la[c].live
      /\ lb[c] = [rows[b] EXCEPT !.lesson.place = rows[a].lesson.place]
  BY <1>1, <1>2 DEF Current, CopiesAgree, At
<1>4. /\ Live' = Live /\ rows'[a] = la[c] /\ Len(rows') = Len(rows)
      /\ \A i \in Live \ {a} : rows'[i] = rows[i]
  BY <1>1, <1>2, <1>3, SaveLive
<1>5. lb[c].lesson.place = rows[a].lesson.place
  BY <1>3, LiveRows DEF Row, Lesson
<1>6. la[c].lesson \in Lesson /\ rows[a].lesson \in Lesson
        /\ la[c].lesson.course = rows[a].lesson.course
  BY <1>3, LiveRows DEF CopyOf, Row
<1>7. [rows'[a].lesson EXCEPT !.place = lb[c].lesson.place] = rows[a].lesson
  BY <1>4, <1>5, <1>6, SameCourse
<1>8. PublishedBy(c) = [i \in Live |-> rows[i].lesson]
  BY <1>2 DEF PublishedBy
<1>9. PublishedBy(c)' = [i \in Live |-> IF i = a
                                        THEN [rows'[i].lesson EXCEPT !.place = lb[c].lesson.place]
                                        ELSE rows'[i].lesson]
  BY <1>2, <1>4 DEF PublishedBy
<1> HIDE DEF a, b
<1>10. PublishedBy(c)' = PublishedBy(c)
  BY <1>4, <1>7, <1>8, <1>9
<1>11. OwedBy(c)' = OwedBy(c)
  BY <1>2 DEF OwedBy
<1> QED
  BY <1>2, <1>4, <1>10, <1>11, SeenNow, SeenNext DEF User!timetableVars

\* Between the saves of a swap the first lesson has the place of the second, and
\* the user sees it where it was.
LEMMA Between ==
  ASSUME TypeInv, Serial, NEW c \in Clients, pc[c] = "saveB"
  PROVE  /\ req[c].a \in Live /\ req[c].b \in Live
         /\ DOMAIN PublishedBy(c) = Live
         /\ \A i \in Live \ {req[c].a} : PublishedBy(c)[i] = rows[i].lesson
         /\ PublishedBy(c)[req[c].a].place = lb[c].lesson.place
         /\ PublishedBy(c)[req[c].b].place
              = IF req[c].a = req[c].b THEN lb[c].lesson.place ELSE rows[req[c].a].lesson.place
         /\ rows[req[c].a].lesson
              = [PublishedBy(c)[req[c].a] EXCEPT !.place = PublishedBy(c)[req[c].b].place]
<1> DEFINE a == req[c].a
           b == req[c].b
<1>1. /\ a \in Live /\ b \in Live
      /\ rows[a].lesson.place = rows[b].lesson.place
      /\ a = b => lb[c].lesson.place = rows[a].lesson.place
  BY DEF Serial, Current
<1>2. rows[a].lesson \in Lesson /\ rows[b].lesson \in Lesson
  BY <1>1, LiveRows
<1>3. PublishedBy(c) = [i \in Live |-> IF i = a
                                       THEN [rows[i].lesson EXCEPT !.place = lb[c].lesson.place]
                                       ELSE rows[i].lesson]
  BY DEF PublishedBy
<1> DEFINE P == PublishedBy(c)
           at == lb[c].lesson.place
<1> HIDE DEF a, b, P
<1>4. /\ DOMAIN P = Live /\ P[a] = [rows[a].lesson EXCEPT !.place = at]
      /\ \A i \in Live \ {a} : P[i] = rows[i].lesson
  BY <1>1, <1>3 DEF P
<1> HIDE DEF at
<1>5. P[a].place = at
  BY <1>2, <1>4 DEF Lesson
<1>6. P[b].place = IF a = b THEN at ELSE rows[a].lesson.place
  BY <1>1, <1>4, <1>5
<1>7. P[b].place = rows[a].lesson.place
  BY <1>1, <1>6 DEF at
<1>8. rows[a].lesson = [P[a] EXCEPT !.place = P[b].place]
  BY <1>2, <1>4, <1>7 DEF Lesson
<1> QED
  BY <1>1, <1>4, <1>5, <1>6, <1>8 DEF a, b, P, at

\* A swap is seen with its second save.
LEMMA SwapSeen ==
  ASSUME TypeInv, Serial, NEW c \in Clients, Others(c), SaveB(c)
  PROVE  \E a, b \in DOMAIN Published : User!Swap(a, b)
<1>1. /\ pc \in [Clients -> Points] /\ rows \in Seq(Row) /\ InPlace /\ CopiesAgree /\ Current(c)
  BY DEF Serial, TypeInv, CopyInv, Typed
<1> DEFINE a == req[c].a
           b == req[c].b
           P == PublishedBy(c)
<1>2. pc[c] = "saveB" /\ pc'[c] = "log" /\ UNCHANGED <<logs, req, lb>> /\ Save(b, lb[c])
  BY <1>1 DEF SaveB, Goto
<1>3. a \in Live /\ b \in Live /\ CopyOf(lb[c], b) /\ lb[c].live
  BY <1>1, <1>2 DEF Current, CopiesAgree
<1>4. /\ Live' = Live /\ rows'[b] = lb[c] /\ Len(rows') = Len(rows)
      /\ \A i \in Live \ {b} : rows'[i] = rows[i]
  BY <1>1, <1>2, <1>3, SaveLive
<1>5. lb[c].lesson \in Lesson /\ rows[b].lesson \in Lesson /\ lb[c].lesson.course = rows[b].lesson.course
  BY <1>3, LiveRows DEF CopyOf, Row
<1>6. lb[c].lesson = [rows[b].lesson EXCEPT !.place = lb[c].lesson.place]
  BY <1>5, SameCourse
<1>7. /\ DOMAIN P = Live /\ \A i \in Live \ {a} : P[i] = rows[i].lesson
      /\ P[a].place = lb[c].lesson.place
      /\ P[b].place = IF a = b THEN lb[c].lesson.place ELSE rows[a].lesson.place
      /\ rows[a].lesson = [P[a] EXCEPT !.place = P[b].place]
  BY <1>2, Between
<1>8. PublishedBy(c)' = [i \in Live |-> rows'[i].lesson]
  BY <1>2, <1>4 DEF PublishedBy
<1>9. Owed = {} /\ Owed' = {[action |-> "swap", id |-> a]}
  <2>1. req[c].action = "swap"
    BY <1>1, <1>2 DEF InPlace
  <2> QED
    BY <1>2, <2>1, SeenNow, SeenNext DEF OwedBy, LogOf
<1>p. Published = P /\ Published' = PublishedBy(c)'
  BY SeenNow, SeenNext
<1>q. P = [i \in Live |-> P[i]]
  BY <1>2 DEF PublishedBy
<1> HIDE DEF a, b, P
<1>10. [i \in Live |-> rows'[i].lesson] = [P EXCEPT ![a].place = P[b].place, ![b].place = P[a].place]
  <2>1. CASE a = b
    <3>1. P[a].place = P[b].place /\ P[b].place = lb[c].lesson.place
      BY <1>7, <2>1
    <3>2. [[P[a] EXCEPT !.place = P[b].place] EXCEPT !.place = P[a].place] = rows[a].lesson
      <4>1. rows[a].lesson.place = P[b].place
        BY <1>3, <1>7, <3>1, LiveRows, <2>1 DEF Lesson
      <4> QED
        BY <1>5, <1>7, <2>1, <3>1, <4>1 DEF Lesson
    <3>3. lb[c].lesson = rows[a].lesson
      <4>1. rows[a].lesson.place = lb[c].lesson.place
        BY <1>5, <1>7, <2>1, <3>1, <3>2 DEF Lesson
      <4> QED
        BY <1>5, <2>1, <4>1 DEF Lesson
    <3>4. \A i \in Live : rows'[i].lesson = IF i = a THEN rows[a].lesson ELSE P[i]
      BY <1>3, <1>4, <1>7, <2>1, <3>3
    <3> QED
      BY <1>3, <1>q, <2>1, <3>2, <3>4
  <2>2. CASE a # b
    <3>1. rows'[a].lesson = [P[a] EXCEPT !.place = P[b].place]
      BY <1>3, <1>4, <1>7, <2>2
    <3>2. rows'[b].lesson = [P[b] EXCEPT !.place = P[a].place]
      BY <1>3, <1>4, <1>6, <1>7, <2>2
    <3>3. \A i \in Live \ {a, b} : rows'[i].lesson = P[i]
      BY <1>4, <1>7
    <3> QED
      BY <1>3, <1>q, <2>2, <3>1, <3>2, <3>3
  <2> QED
    BY <2>1, <2>2
<1>11. /\ a \in DOMAIN Published /\ b \in DOMAIN Published
       /\ Published' = [Published EXCEPT ![a].place = Published[b].place,
                                         ![b].place = Published[a].place]
  BY <1>3, <1>7, <1>8, <1>10, <1>p
<1>12. Len(rows') + 1 = Len(rows) + 1 /\ logs' = logs
  BY <1>2, <1>4
<1>13. User!Swap(a, b)
  BY <1>9, <1>11, <1>12, Zenon DEF a, User!Swap, User!Entry
<1> QED
  BY <1>11, <1>13

\* A swap that fails before it has done half of it.
LEMMA HalfSeen ==
  ASSUME TypeInv, Serial, NEW c \in Clients, Others(c), pc[c] = "saveB", Abort(c)
  PROVE  \E a, b \in DOMAIN Published : User!SwapHalf(a, b)
<1>1. pc \in [Clients -> Points]
  BY DEF TypeInv, CopyInv, Typed
<1> DEFINE a == req[c].a
           b == req[c].b
           P == PublishedBy(c)
<1>2. pc'[c] = "idle" /\ UNCHANGED <<rows, logs>>
  BY <1>1 DEF Abort, End
<1>3. /\ a \in Live /\ b \in Live /\ DOMAIN P = Live
      /\ \A i \in Live \ {a} : P[i] = rows[i].lesson
      /\ rows[a].lesson = [P[a] EXCEPT !.place = P[b].place]
  BY Between
<1>4. PublishedBy(c)' = [i \in Live |-> rows[i].lesson]
  BY <1>2 DEF PublishedBy, Live, Ids
<1>5. Owed = {} /\ Owed' = {}
  BY <1>2, SeenNow, SeenNext DEF OwedBy
<1>6. Published = P /\ Published' = PublishedBy(c)'
  BY SeenNow, SeenNext
<1>7. P = [i \in Live |-> P[i]]
  BY DEF PublishedBy
<1> HIDE DEF a, b, P
<1>8. [i \in Live |-> rows[i].lesson] = [P EXCEPT ![a].place = P[b].place]
  BY <1>3, <1>7
<1>9. /\ a \in DOMAIN Published /\ b \in DOMAIN Published
      /\ Published' = [Published EXCEPT ![a].place = Published[b].place]
  BY <1>3, <1>4, <1>6, <1>8
<1>10. Len(rows') + 1 = Len(rows) + 1 /\ logs' = logs
  BY <1>2
<1>11. User!SwapHalf(a, b)
  BY <1>5, <1>9, <1>10, Zenon DEF User!SwapHalf
<1> QED
  BY <1>9, <1>11

\* A move is seen when it saves.
LEMMA MoveSeen ==
  ASSUME TypeInv, Serial, NEW c \in Clients, Others(c), SaveM(c)
  PROVE  \E a \in DOMAIN Published, p \in Places : User!Move(a, p)
<1>1. /\ pc \in [Clients -> Points] /\ req \in [Clients -> Request] /\ rows \in Seq(Row)
      /\ InPlace /\ CopiesAgree /\ Current(c) /\ At(c)
  BY DEF Serial, TypeInv, Placed, CopyInv, Typed
<1> DEFINE a == req[c].a
           p == req[c].to
           P == PublishedBy(c)
<1>2. pc[c] = "saveM" /\ pc'[c] = "log" /\ UNCHANGED <<logs, req>> /\ Save(a, la[c])
  BY <1>1 DEF SaveM, Goto
<1>3. /\ a \in Live /\ CopyOf(la[c], a) /\ la[c].live
      /\ la[c] = [rows[a] EXCEPT !.lesson.place = p]
  BY <1>1, <1>2 DEF Current, CopiesAgree, At
<1>4. req[c].action = "move" /\ p \in Places
  BY <1>1, <1>2 DEF InPlace, Request, NoRequest
<1>5. /\ Live' = Live /\ rows'[a] = la[c] /\ Len(rows') = Len(rows)
      /\ \A i \in Live \ {a} : rows'[i] = rows[i]
  BY <1>1, <1>2, <1>3, SaveLive
<1>6. rows'[a].lesson = [rows[a].lesson EXCEPT !.place = p]
  BY <1>3, <1>5, LiveRows, LessonMoved
<1>7. P = [i \in Live |-> rows[i].lesson] /\ PublishedBy(c)' = [i \in Live |-> rows'[i].lesson]
  BY <1>2, <1>5 DEF PublishedBy
<1>8. Owed = {} /\ Owed' = {[action |-> "move", id |-> a]}
  BY <1>2, <1>4, SeenNow, SeenNext DEF OwedBy, LogOf
<1>9. Published = P /\ Published' = PublishedBy(c)'
  BY SeenNow, SeenNext
<1> HIDE DEF a, p, P
<1>10. [i \in Live |-> rows'[i].lesson] = [P EXCEPT ![a].place = p]
  BY <1>3, <1>5, <1>6, <1>7
<1>11. a \in DOMAIN Published /\ Published' = [Published EXCEPT ![a].place = p]
  BY <1>3, <1>7, <1>9, <1>10
<1>12. Len(rows') + 1 = Len(rows) + 1 /\ logs' = logs
  BY <1>2, <1>5
<1>13. User!Move(a, p)
  BY <1>8, <1>11, <1>12, Zenon DEF a, User!Move, User!Entry
<1> QED
  BY <1>4, <1>11, <1>13 DEF p

\* What is owed to the history is logged, or lost.
LEMMA LogSeen ==
  ASSUME TypeInv, NEW c \in Clients, Others(c), pc[c] = "log"
  PROVE  (Record(c) => User!Log) /\ (Abort(c) => User!Lose)
<1>1. pc \in [Clients -> Points]
  BY DEF TypeInv, CopyInv, Typed
<1>2. SUFFICES ASSUME Record(c) \/ Abort(c)
               PROVE  (Record(c) => User!Log) /\ (Abort(c) => User!Lose)
  OBVIOUS
<1>3. rows' = rows /\ pc'[c] \in {"report", "idle"}
  BY <1>1, <1>2 DEF Record, Abort, End, Goto
<1>4. Owed = {LogOf(req[c])} /\ Owed' = {}
  BY <1>3, SeenNow, SeenNext DEF OwedBy
<1>5. Published' = Published
  <2>1. PublishedBy(c)' = PublishedBy(c)
    BY <1>3 DEF PublishedBy, Live, Ids
  <2> QED
    BY <2>1, SeenNow, SeenNext
<1>6. Record(c) => logs' = Append(logs, LogOf(req[c]))
  BY DEF Record
<1>7. Abort(c) => logs' = logs
  BY DEF Abort
<1> QED
  BY <1>3, <1>4, <1>5, <1>6, <1>7 DEF User!Log, User!Lose

\* Every step of a request that overlaps no other is a step of the user's
\* timetable, and one that fails only if a call has.
SeenStep ==
  \/ User!Perform
  \/ Failed' /\ User!Fail
  \/ UNCHANGED User!timetableVars
  \/ Overlapped'

LEMMA StepSeen ==
  ASSUME SerialInv, [Next]_vars
  PROVE  SeenStep
<1>1. SUFFICES ASSUME ~Overlapped'
               PROVE  SeenStep
  BY DEF SeenStep
<1>2. TypeInv /\ Serial /\ Alone
  BY <1>1, DisturbedStays DEF SerialInv, Serial, Overlapped
<1>3. CASE UNCHANGED vars \/ Finished
  <2>1. UNCHANGED vars
    BY <1>3 DEF Finished
  <2>2. Published' = Published /\ Len(rows')= Len(rows) /\ logs' = logs /\ Owed' = Owed
    BY <2>1 DEF vars, Published, Owed, Doing, Only, Live, Ids
  <2> QED
    BY <2>2 DEF SeenStep, User!timetableVars
<1>4. ASSUME NEW c \in Clients, Client(c)
      PROVE  SeenStep
  <2>1. pc \in [Clients -> Points] /\ Others(c)
    BY <1>1, <1>2, <1>4, OthersIdle DEF TypeInv, CopyInv, Typed
  <2>2. CASE Generate(c) \/ Swap(c) \/ Move(c) \/ ReadA(c) \/ ReadB(c) \/ ReadM(c) \/ Report(c)
    <3>1. /\ rows' = rows /\ logs' = logs
          /\ pc[c] \notin {"saveB", "log"} /\ pc'[c] \notin {"saveB", "log"}
      BY <2>1, <2>2 DEF Generate, Swap, Move, ReadA, ReadB, ReadM, Report, Begin, End, Goto
    <3> QED
      BY <2>1, <3>1, QuietSteps DEF SeenStep
  <2>3. CASE Abort(c)
    <3>1. Failed' /\ rows' = rows /\ logs' = logs /\ pc'[c] = "idle"
      BY <2>1, <2>3 DEF Abort, End, Failed
    <3>2. CASE pc[c] = "saveB"
      BY <1>2, <2>1, <2>3, <3>1, <3>2, HalfSeen DEF SeenStep, User!Fail
    <3>3. CASE pc[c] = "log"
      BY <1>2, <2>1, <2>3, <3>1, <3>3, LogSeen DEF SeenStep, User!Fail
    <3>4. CASE pc[c] \notin {"saveB", "log"}
      BY <2>1, <3>1, <3>4, QuietSteps DEF SeenStep
    <3> QED
      BY <3>2, <3>3, <3>4
  <2>4. CASE DeleteAll(c)
    BY <1>2, <2>1, <2>4, DeleteSeen DEF SeenStep, User!Perform
  <2>5. CASE CreateBatch(c)
    BY <1>2, <2>1, <2>5, InsertSeen DEF SeenStep, User!Perform
  <2>6. CASE SaveA(c)
    BY <1>2, <2>1, <2>6, FirstUnseen DEF SeenStep
  <2>7. CASE SaveB(c)
    BY <1>2, <2>1, <2>7, SwapSeen DEF SeenStep, User!Perform
  <2>8. CASE SaveM(c)
    BY <1>2, <2>1, <2>8, MoveSeen DEF SeenStep, User!Perform
  <2>9. CASE Record(c)
    <3>1. pc[c] = "log"
      BY <2>9 DEF Record, Goto
    <3> QED
      BY <1>2, <2>1, <2>9, <3>1, LogSeen DEF SeenStep, User!Perform
  <2> QED
    BY <1>4, <2>2, <2>3, <2>4, <2>5, <2>6, <2>7, <2>8, <2>9 DEF Client
<1> QED
  BY <1>3, <1>4 DEF Next

\* While requests come one at a time, the handlers implement TimetableSpec:
\* Generate withdraws the timetable and publishes its plan and nothing else, Swap
\* exchanges two places, Move changes one, the log is the history of what was
\* done; and only where a call failed may an exchange be half done or an
\* adjustment missing in the history.
THEOREM HandlersImplementTimetable == Spec => ImplementsTimetable
<1>1. Init => User!Init
  <2> SUFFICES ASSUME Init
               PROVE  User!Init
    OBVIOUS
  <2>1. Doing({"saveB"}) = {} /\ Doing({"log"}) = {}
    BY DEF Init, Doing
  <2>2. Live = {} /\ Len(rows) = 0 /\ logs = <<>>
    BY DEF Init, Live, Ids
  <2>3. Published = <<>> /\ Owed = {}
    BY <2>1, <2>2 DEF Published, Owed
  <2> QED
    BY <2>2, <2>3 DEF User!Init
<1>2. SerialInv /\ [Next]_vars =>
        [\/ User!Perform
         \/ Failed' /\ User!Fail
         \/ UNCHANGED User!timetableVars
         \/ Overlapped']_vars
  BY StepSeen DEF SeenStep
<1> QED
  BY <1>1, <1>2, SerialInvariant, PTL DEF Spec, ImplementsTimetable

-------------------------------------------------------------------------------
(* Swaps only permute, for plans of any length and any number of swaps.    *)
(* The argument is about the user's timetable: a step of TimetableSpec     *)
(* that is not a move leaves each place in use as often as before, and the *)
(* refinement carries this to the rows.                                    *)

\* How often a timetable, or a plan, uses a place.
Uses(f, p) == Cardinality({i \in DOMAIN f : f[i].place = p})

Unmoved(h) == \A k \in DOMAIN h : h[k].action # "move"

\* The timetable uses the places of a plan, each as often.
LikePlan(f) == \E plan \in Plans : \A p : Uses(f, p) = Uses(plan, p)

Timetables == {f \in UNION {[D -> Lesson] : D \in SUBSET Nat} : IsFiniteSet(DOMAIN f)}
Entries == [action : {"swap", "move"}, id : Nat]

UserInv ==
  /\ Published \in Timetables /\ logs \in Seq(Entries)
  /\ Owed \in SUBSET Entries /\ \A d, e \in Owed : d = e
  /\ (DOMAIN Published # {} /\ Unmoved(logs) /\ \A e \in Owed : e.action # "move")
       => LikePlan(Published)

\* It holds while nothing else than single requests has happened.
PermuteInv == SerialInv /\ (disturbed = {} => UserInv)

-------------------------------------------------------------------------------
(* What the steps of a user do to a timetable.                             *)

\* A plan under new ids.
LEMMA PlanNumbered ==
  ASSUME NEW plan \in Seq(Lesson), NEW n \in Nat, NEW f,
         f = [i \in n .. n + Len(plan) - 1 |-> plan[i - n + 1]]
  PROVE  f \in Timetables /\ \A p : Uses(f, p) = Uses(plan, p)
<1>1. Len(plan) \in Nat /\ DOMAIN plan = 1 .. Len(plan) /\ plan \in [1 .. Len(plan) -> Lesson]
  OBVIOUS
<1> DEFINE size == Len(plan)
<1>2. DOMAIN f = n .. n + size - 1 /\ IsFiniteSet(DOMAIN f) /\ DOMAIN f \in SUBSET Nat
  BY <1>1, FS_Interval
<1>3. f \in [DOMAIN f -> Lesson]
  BY <1>1, <1>2
<1>4. ASSUME NEW p PROVE Uses(f, p) = Uses(plan, p)
  <2> DEFINE F == {i \in DOMAIN f : f[i].place = p}
             K == {k \in DOMAIN plan : plan[k].place = p}
             move == [k \in K |-> k + n - 1]
  <2>1. \A k \in K : k + n - 1 \in F
    BY <1>1, <1>2
  <2>2. \A k, m \in K : k + n - 1 = m + n - 1 => k = m
    BY <1>1
  <2>3. \A i \in F : i - n + 1 \in K /\ (i - n + 1) + n - 1 = i
    BY <1>1, <1>2
  <2>4. move \in Bijection(K, F)
    <3> HIDE DEF F, K
    <3>1. move \in [K -> F]
      BY <2>1
    <3>2. \A k, m \in K : move[k] = move[m] => k = m
      BY <2>2
    <3>3. \A i \in F : \E k \in K : move[k] = i
      BY <2>3
    <3> HIDE DEF move
    <3> QED
      BY <3>1, <3>2, <3>3 DEF Bijection, Injection, Surjection, IsInjective
  <2>5. IsFiniteSet(K)
    <3>1. K \in SUBSET (DOMAIN plan) /\ IsFiniteSet(DOMAIN plan)
      BY <1>1, FS_Interval
    <3> HIDE DEF K
    <3> QED
      BY <3>1, FS_Subset
  <2> HIDE DEF F, K, move
  <2>6. Cardinality(F) = Cardinality(K)
    BY <2>4, <2>5, FS_Bijection DEF ExistsBijection
  <2> QED
    BY <2>6 DEF F, K, Uses
<1> QED
  BY <1>2, <1>3, <1>4 DEF Timetables

\* Two lessons that change places.
Swapped(f, a, b) == [f EXCEPT ![a].place = f[b].place, ![b].place = f[a].place]

LEMMA SwapPermutes ==
  ASSUME NEW f \in Timetables, NEW a \in DOMAIN f, NEW b \in DOMAIN f, NEW g,
         g = Swapped(f, a, b)
  PROVE  g \in Timetables /\ DOMAIN g = DOMAIN f /\ \A p : Uses(g, p) = Uses(f, p)
<1>1. f \in [DOMAIN f -> Lesson] /\ IsFiniteSet(DOMAIN f) /\ DOMAIN f \in SUBSET Nat
  BY DEF Timetables
<1>2. f[a] \in Lesson /\ f[b] \in Lesson
  BY <1>1
<1>3. DOMAIN g = DOMAIN f
  BY DEF Swapped
<1>4. /\ \A i \in DOMAIN f \ {a, b} : g[i] = f[i]
      /\ g[a].place = f[b].place /\ g[b].place = f[a].place
      /\ g[a] \in Lesson /\ g[b] \in Lesson
  <2>1. CASE a = b
    BY <1>2, <2>1 DEF Lesson, Swapped
  <2>2. CASE a # b
    <3>1. /\ g[a] = [f[a] EXCEPT !.place = f[b].place] /\ g[b] = [f[b] EXCEPT !.place = f[a].place]
          /\ \A i \in DOMAIN f \ {a, b} : g[i] = f[i]
      BY <2>2 DEF Swapped
    <3> QED
      BY <1>2, <3>1 DEF Lesson
  <2> QED
    BY <2>1, <2>2
<1> DEFINE turn(i) == IF i = a THEN b ELSE IF i = b THEN a ELSE i
<1>5. \A i \in DOMAIN f : turn(i) \in DOMAIN f /\ turn(turn(i)) = i /\ g[turn(i)].place = f[i].place
  BY <1>4
<1>6. g \in [DOMAIN f -> Lesson]
  <2>1. \A i \in DOMAIN f : g[i] \in Lesson
    BY <1>1, <1>4
  <2>2. g = [i \in DOMAIN f |-> g[i]]
    BY DEF Swapped
  <2> QED
    BY <2>1, <2>2
<1>7. ASSUME NEW p PROVE Uses(g, p) = Uses(f, p)
  <2> DEFINE F == {i \in DOMAIN f : f[i].place = p}
             G == {i \in DOMAIN g : g[i].place = p}
             move == [i \in F |-> turn(i)]
  <2>1. \A i \in F : turn(i) \in G
    BY <1>3, <1>5
  <2>2. \A i \in G : turn(i) \in F
    <3> SUFFICES ASSUME NEW i \in G PROVE turn(i) \in F
      OBVIOUS
    <3>1. turn(i) \in DOMAIN f /\ turn(turn(i)) = i
      BY <1>3, <1>5
    <3>2. g[turn(turn(i))].place = f[turn(i)].place
      BY <1>5, <3>1
    <3> QED
      BY <3>1, <3>2
  <2>3. \A i \in F \cup G : turn(turn(i)) = i
    BY <1>3, <1>5
  <2> HIDE DEF F, G, turn
  <2>4. move \in Bijection(F, G)
    <3>1. move \in [F -> G] /\ \A i \in F : move[i] = turn(i)
      BY <2>1
    <3>2. \A i, j \in F : move[i] = move[j] => i = j
      BY <2>3, <3>1
    <3>3. \A j \in G : \E i \in F : move[i] = j
      BY <2>2, <2>3, <3>1
    <3> HIDE DEF move
    <3> QED
      BY <3>1, <3>2, <3>3 DEF Bijection, Injection, Surjection, IsInjective
  <2>5. IsFiniteSet(F)
    <3>1. F \in SUBSET (DOMAIN f)
      BY DEF F
    <3> QED
      BY <1>1, <3>1, FS_Subset
  <2>6. Cardinality(G) = Cardinality(F)
    BY <2>4, <2>5, FS_Bijection DEF ExistsBijection
  <2> QED
    BY <2>6 DEF F, G, Uses
<1> QED
  BY <1>1, <1>3, <1>6, <1>7 DEF Timetables

\* Another place for one lesson.
LEMMA MoveTyped ==
  ASSUME NEW f \in Timetables, NEW a \in DOMAIN f, NEW p \in Places, NEW g,
         g = [f EXCEPT ![a].place = p]
  PROVE  g \in Timetables
<1>1. f \in [DOMAIN f -> Lesson] /\ IsFiniteSet(DOMAIN f) /\ DOMAIN f \in SUBSET Nat
  BY DEF Timetables
<1>2. [f[a] EXCEPT !.place = p] \in Lesson
  BY <1>1 DEF Lesson
<1>3. g \in [DOMAIN f -> Lesson] /\ DOMAIN g = DOMAIN f
  BY <1>1, <1>2
<1> QED
  BY <1>1, <1>3 DEF Timetables

\* What is logged last is logged.
LEMMA LoggedOnce ==
  ASSUME NEW h \in Seq(Entries), NEW e \in Entries
  PROVE  /\ Append(h, e) \in Seq(Entries)
         /\ Unmoved(Append(h, e)) => Unmoved(h) /\ e.action # "move"
<1>1. /\ Append(h, e) \in Seq(Entries) /\ Len(Append(h, e)) = Len(h) + 1 /\ Len(h) \in Nat
      /\ \A k \in 1 .. Len(h) : Append(h, e)[k] = h[k]
      /\ Append(h, e)[Len(h) + 1] = e
  OBVIOUS
<1>2. DOMAIN Append(h, e) = 1 .. Len(h) + 1 /\ DOMAIN h = 1 .. Len(h)
  BY <1>1
<1> QED
  BY <1>1, <1>2 DEF Unmoved

LEMMA UserStep ==
  ASSUME UserInv, rows \in Seq(Row), User!Perform \/ UNCHANGED User!timetableVars
  PROVE  UserInv'
<1> DEFINE f == Published
           h == logs
           o == Owed
<1>1. f \in Timetables /\ o \in SUBSET Entries /\ h \in Seq(Entries)
      /\ (\A d, e \in o : d = e)
      /\ ((DOMAIN f # {} /\ Unmoved(h) /\ \A e \in o : e.action # "move") => LikePlan(f))
  BY DEF UserInv
<1>2. CASE UNCHANGED User!timetableVars
  <2>1. f' = f /\ h' = h /\ o' = o
    BY <1>2 DEF User!timetableVars
  <2> QED
    BY <1>1, <2>1, Zenon DEF UserInv
<1>3. CASE User!Clear
  <2>1. f' = <<>> /\ h' = h /\ o' = o
    BY <1>3, Zenon DEF User!Clear
  <2>2. f' \in [{} -> Lesson] /\ DOMAIN f' = {}
    BY <2>1
  <2>3. f' \in Timetables
    BY <2>2, FS_EmptySet DEF Timetables
  <2> QED
    BY <1>1, <2>1, <2>2, <2>3, Zenon DEF UserInv
<1>4. CASE User!Publish
  <2> DEFINE n == Len(rows) + 1
  <2>1. PICK plan \in Plans :
          /\ f' = [i \in n .. n + Len(plan) - 1 |-> plan[i - n + 1]]
          /\ h' = h /\ o' = o
    BY <1>4, Zenon DEF User!Publish
  <2>2. n \in Nat /\ plan \in Seq(Lesson)
    BY PlansAssumption
  <2> DEFINE g == f'
  <2> HIDE DEF n, g
  <2>3. g = [i \in n .. n + Len(plan) - 1 |-> plan[i - n + 1]]
    BY <2>1 DEF g
  <2>4. g \in Timetables /\ \A p : Uses(g, p) = Uses(plan, p)
    BY <2>2, <2>3, PlanNumbered
  <2>5. LikePlan(g)
    BY <2>4 DEF LikePlan
  <2> QED
    BY <1>1, <2>1, <2>4, <2>5, Zenon DEF UserInv, g
<1>5. CASE User!Log
  <2>1. PICK e \in o : f' = f /\ h' = Append(h, e) /\ o' = {}
    BY <1>5, Zenon DEF User!Log
  <2> HIDE DEF f, h, o
  <2>2. e \in Entries
    BY <1>1
  <2>3. h' \in Seq(Entries) /\ (Unmoved(h') => Unmoved(h) /\ e.action # "move")
    BY <1>1, <2>1, <2>2, LoggedOnce
  <2>4. o = {e}
    BY <1>1, <2>1
  <2>5. (DOMAIN f' # {} /\ Unmoved(h')) => LikePlan(f')
    BY <1>1, <2>1, <2>3, <2>4
  <2> QED
    BY <1>1, <2>1, <2>3, <2>5 DEF UserInv, f, h, o
<1>6. ASSUME NEW a \in DOMAIN f, NEW b \in DOMAIN f, User!Swap(a, b)
      PROVE  UserInv'
  <2>1. /\ o = {} /\ f' = [f EXCEPT ![a].place = f[b].place, ![b].place = f[a].place]
        /\ h' = h /\ o' = {[action |-> "swap", id |-> a]}
    BY <1>6, Zenon DEF User!Swap, User!Entry
  <2> HIDE DEF f, h, o
  <2>2. f' \in Timetables /\ DOMAIN f' = DOMAIN f /\ \A p : Uses(f', p) = Uses(f, p)
    <3> DEFINE g == f'
    <3>1. g = Swapped(f, a, b)
      BY <2>1 DEF Swapped
    <3> HIDE DEF g
    <3>2. g \in Timetables /\ DOMAIN g = DOMAIN f /\ \A p : Uses(g, p) = Uses(f, p)
      BY <1>1, <3>1, SwapPermutes
    <3> QED
      BY <3>2 DEF g
  <2>3. a \in Nat
    BY <1>1 DEF Timetables
  <2>4. o' \in SUBSET Entries
    BY <2>1, <2>3 DEF Entries
  <2>5. LikePlan(f) => LikePlan(f')
    BY <2>2 DEF LikePlan
  <2>6. DOMAIN f' # {} /\ Unmoved(h') => LikePlan(f')
    BY <1>1, <2>1, <2>2, <2>5
  <2> QED
    BY <1>1, <2>1, <2>2, <2>4, <2>6 DEF UserInv, f, h, o
<1>7. ASSUME NEW a \in DOMAIN f, NEW p \in Places, User!Move(a, p)
      PROVE  UserInv'
  <2>1. /\ f' = [f EXCEPT ![a].place = p]
        /\ h' = h /\ o' = {[action |-> "move", id |-> a]}
    BY <1>7, Zenon DEF User!Move, User!Entry
  <2> HIDE DEF f, h, o
  <2>2. f' \in Timetables
    <3> DEFINE g == f'
    <3>1. g = [f EXCEPT ![a].place = p]
      BY <2>1
    <3> HIDE DEF g
    <3>2. g \in Timetables
      BY <1>1, <3>1, MoveTyped
    <3> QED
      BY <3>2 DEF g
  <2>3. a \in Nat
    BY <1>1 DEF Timetables
  <2>4. o' \in SUBSET Entries /\ \E e \in o' : e.action = "move"
    BY <2>1, <2>3 DEF Entries
  <2> QED
    BY <1>1, <2>1, <2>2, <2>4 DEF UserInv, f, h, o
<1> QED
  BY <1>2, <1>3, <1>4, <1>5, <1>6, <1>7 DEF User!Perform

-------------------------------------------------------------------------------
\* What the user's timetable keeps, the rows keep between two requests.
LEMMA AtRestPermuted ==
  ASSUME PermuteInv
  PROVE  PlacesPermuted
<1> SUFFICES ASSUME disturbed = {}, AtRest, Latest # {},
                    \A k \in DOMAIN logs : logs[k].action # "move"
             PROVE  \E plan \in Plans : \A p \in Places : PlacesOf(Latest, p) = Original(plan, p)
  BY DEF PlacesPermuted
<1>1. Doing({"log"}) = {} /\ Doing({"saveB"}) = {}
  BY DEF Doing, AtRest
<1>2. Published = [i \in Live |-> rows[i].lesson] /\ Owed = {}
  BY <1>1 DEF Published, Owed
<1>3. Latest = Live
  BY DEF Latest, PermuteInv, SerialInv, Serial, OneBatch, Overlapped
<1>4. PICK plan \in Plans : \A p : Uses(Published, p) = Uses(plan, p)
  BY <1>2, <1>3 DEF PermuteInv, UserInv, Unmoved, LikePlan
<1>5. ASSUME NEW p PROVE Uses(Published, p) = PlacesOf(Latest, p)
  <2>1. {i \in DOMAIN Published : Published[i].place = p} = {i \in Live : rows[i].lesson.place = p}
    BY <1>2
  <2> QED
    BY <1>3, <2>1 DEF Uses, PlacesOf
<1>6. \A p : Uses(plan, p) = Original(plan, p)
  BY DEF Uses, Original
<1> QED
  BY <1>4, <1>5, <1>6

\* With requests one at a time and no failing call, however many swaps leave
\* each place in use as often as the plan that was published last.
THEOREM SwapsOnlyPermute == Spec => []PlacesPermuted
<1>1. Init => UserInv
  <2> SUFFICES ASSUME Init
               PROVE  UserInv
    OBVIOUS
  <2>1. Doing({"log"}) = {} /\ Doing({"saveB"}) = {}
    BY DEF Init, Doing
  <2>2. Live = {} /\ logs = <<>>
    BY DEF Init, Live, Ids
  <2>3. Published = <<>> /\ Owed = {}
    BY <2>1, <2>2 DEF Published, Owed
  <2>4. Published \in [{} -> Lesson] /\ DOMAIN Published = {}
    BY <2>3
  <2> QED
    BY <2>2, <2>3, <2>4, FS_EmptySet DEF UserInv, Timetables
<1>2. PermuteInv /\ SerialInv' /\ [Next]_vars => PermuteInv'
  <2> SUFFICES ASSUME PermuteInv, SerialInv', [Next]_vars, disturbed' = {}
               PROVE  UserInv'
    BY DEF PermuteInv
  <2>1. disturbed = {} /\ UserInv
    BY DisturbedStays DEF PermuteInv
  <2>2. User!Perform \/ UNCHANGED User!timetableVars
    BY StepSeen DEF PermuteInv, SeenStep, Failed, Overlapped
  <2>3. rows \in Seq(Row)
    BY DEF PermuteInv, SerialInv, TypeInv, CopyInv, Typed
  <2> QED
    BY <2>1, <2>2, <2>3, UserStep
<1>3. PermuteInv => PlacesPermuted
  BY AtRestPermuted
<1>4. SerialInv /\ UserInv => PermuteInv
  BY DEF PermuteInv
<1> QED
  BY <1>1, <1>2, <1>3, <1>4, SerialInvariant, PTL DEF Spec

===============================================================================
