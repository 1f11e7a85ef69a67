---------------------------- MODULE TimetableProofs ----------------------------
(***************************************************************************)
(* However many clients adjust and regenerate the timetable at once, with  *)
(* any call failing, a stored row stays the lesson it was inserted as.     *)
(*                                                                         *)
(* The property says what a save does to a row, so the invariant must say  *)
(* what the copies are that may still be saved: a copy of row i, however   *)
(* old, has the course and the generation of row i.                        *)
(***************************************************************************)
EXTENDS Timetable, SequenceTheorems, TLAPS

Row == [lesson : Lesson, batch : 0 .. MaxRequests, live : BOOLEAN]
Points == {"idle", "delete", "insert", "readA", "readB", "saveA", "saveB", "readM",
           "saveM", "log", "report"}
Request ==
  {NoRequest} \cup [action : {"generate"}, plan : Plans, batch : 0 .. MaxRequests]
    \cup [action : {"swap"}, a : Nat, b : Nat]
    \cup [action : {"move"}, a : Nat, to : Places]

Typed ==
  /\ rows \in Seq(Row) /\ requests \in 0 .. MaxRequests
  /\ disturbed \in SUBSET {"overlap", "failure"}
  /\ pc \in [Clients -> Points] /\ req \in [Clients -> Request]
  /\ la \in [Clients -> Row \cup {NoRow}] /\ lb \in [Clients -> Row \cup {NoRow}]

\* Which requests a client can be in the middle of.
InPlace ==
  \A c \in Clients :
    /\ pc[c] \in {"delete", "insert"} => req[c].action = "generate"
    /\ pc[c] \in {"readA", "readB", "saveA", "saveB"} => req[c].action = "swap"
    /\ pc[c] \in {"readM", "saveM"} => req[c].action = "move"

CopyOf(copy, i) ==
  /\ copy \in Row /\ i \in Ids
  /\ copy.lesson.course = rows[i].lesson.course /\ copy.batch = rows[i].batch

CopiesAgree ==
  \A c \in Clients :
    /\ pc[c] \in {"readB", "saveA", "saveB", "saveM"} => CopyOf(la[c], req[c].a)
    /\ pc[c] \in {"saveA", "saveB"} => CopyOf(lb[c], req[c].b)

\* The inductive invariant.
CopyInv == Typed /\ InPlace /\ CopiesAgree

\* What no step may do to the rows there are.
SameLessons ==
  \A i \in Ids : /\ i \in DOMAIN rows'
                 /\ rows'[i].lesson.course = rows[i].lesson.course
                 /\ rows'[i].batch = rows[i].batch

-------------------------------------------------------------------------------
(* The repository.                                                         *)

\* Saving a copy of row i keeps the rows typed and their lessons the same.
LEMMA SaveKeeps ==
  ASSUME rows \in Seq(Row), NEW i, NEW copy, CopyOf(copy, i), Save(i, copy)
  PROVE  rows' \in Seq(Row) /\ SameLessons
<1>1. rows' \in Seq(Row)
  BY ExceptSeq DEF Save, CopyOf, Ids
<1>2. DOMAIN rows' = DOMAIN rows /\ rows'[i] = copy
        /\ \A j \in DOMAIN rows \ {i} : rows'[j] = rows[j]
  BY DEF Save, CopyOf, Ids
<1> QED
  BY <1>1, <1>2 DEF SameLessons, CopyOf, Ids

\* Deleting all rows only clears their live flags.
LEMMA DeleteKeeps ==
  ASSUME rows \in Seq(Row), DeleteAllRows
  PROVE  rows' \in Seq(Row) /\ SameLessons
<1>1. \A i \in Ids : rows[i] \in Row
  BY DEF Ids
<1>2. \A i \in Ids : [rows[i] EXCEPT !.live = FALSE] \in Row
                       /\ [rows[i] EXCEPT !.live = FALSE].lesson = rows[i].lesson
                       /\ [rows[i] EXCEPT !.live = FALSE].batch = rows[i].batch
  BY <1>1 DEF Row
<1>3. Ids = 1 .. Len(rows) /\ Len(rows) \in Nat
  BY DEF Ids
<1>4. rows' \in Seq(Row)
  BY <1>2, <1>3, SeqDef DEF DeleteAllRows
<1> QED
  BY <1>2, <1>4 DEF SameLessons, DeleteAllRows, Ids

\* Inserting a plan leaves the rows before it alone.
LEMMA InsertKeeps ==
  ASSUME rows \in Seq(Row), NEW plan \in Plans, NEW batch \in 0 .. MaxRequests,
         InsertRows(plan, batch)
  PROVE  rows' \in Seq(Row) /\ SameLessons
<1> DEFINE new == [i \in 1 .. Len(plan) |->
                     [lesson |-> plan[i], batch |-> batch, live |-> TRUE]]
<1>1. plan \in Seq(Lesson)
  BY PlansAssumption
<1>2. \A i \in 1 .. Len(plan) : plan[i] \in Lesson
  BY <1>1
<1>3. new \in Seq(Row)
  BY <1>1, <1>2, SeqDef DEF Row
<1>4. rows' = rows \o new
  BY DEF InsertRows
<1>5. rows' \in Seq(Row)
  BY <1>3, <1>4
<1>6. \A i \in Ids : i \in DOMAIN rows' /\ rows'[i] = rows[i]
  BY <1>3, <1>4, ConcatProperties DEF Ids
<1> QED
  BY <1>5, <1>6 DEF SameLessons

-------------------------------------------------------------------------------
(* The requests.                                                           *)

\* Who ends holds no copy, and nobody else is touched.
LEMMA EndKeeps ==
  ASSUME CopyInv, NEW c \in Clients, End(c), UNCHANGED <<rows, requests>>,
         disturbed' \in {disturbed, disturbed \cup {"failure"}}
  PROVE  CopyInv' /\ SameLessons
<1>1. Typed'
  BY DEF CopyInv, Typed, End, Points, Request
<1>2. InPlace'
  BY DEF CopyInv, Typed, InPlace, End
<1>3. CopiesAgree'
  BY DEF CopyInv, Typed, CopiesAgree, CopyOf, Ids, End
<1>4. SameLessons
  BY DEF SameLessons, Ids
<1> QED
  BY <1>1, <1>2, <1>3, <1>4 DEF CopyInv

\* A request that begins holds no copy.
LEMMA BeginKeeps ==
  ASSUME CopyInv, NEW c \in Clients, NEW r \in Request, NEW first,
         Begin(c, r, first),
         \/ r.action = "generate" /\ first = "delete"
         \/ r.action = "swap" /\ first = "readA"
         \/ r.action = "move" /\ first = "readM"
  PROVE  CopyInv' /\ SameLessons
<1>1. first \in Points
  BY DEF Points
<1>2. Typed'
  BY <1>1, RequestsAssumption DEF CopyInv, Typed, Begin, Goto
<1>3. InPlace'
  BY DEF CopyInv, Typed, InPlace, Begin, Goto
<1>4. CopiesAgree'
  BY DEF CopyInv, Typed, CopiesAgree, CopyOf, Ids, Begin, Goto
<1>5. SameLessons
  BY DEF SameLessons, Ids, Begin
<1> QED
  BY <1>2, <1>3, <1>4, <1>5 DEF CopyInv

\* A step that writes the table, and moves one client on with the copies it has.
LEMMA WriteKeeps ==
  ASSUME CopyInv, NEW c \in Clients, NEW from, NEW to \in Points, Goto(c, from, to),
         UNCHANGED <<req, la, lb, requests, disturbed>>,
         rows' \in Seq(Row), SameLessons,
         \/ from = "delete" /\ to = "insert"
         \/ from = "saveA" /\ to = "saveB"
         \/ from \in {"insert", "saveB", "saveM", "log"} /\ to \in {"log", "report"}
  PROVE  CopyInv'
<1>1. Typed'
  BY DEF CopyInv, Typed, Goto
<1>2. InPlace'
  BY DEF CopyInv, Typed, InPlace, Goto
<1>3. ASSUME NEW d \in Clients, pc'[d] \in {"readB", "saveA", "saveB", "saveM"}
      PROVE  CopyOf(la[d], req[d].a)'
  <2>1. CopyOf(la[d], req[d].a)
    BY <1>3 DEF CopyInv, Typed, CopiesAgree, Goto
  <2>2. CopyOf(la[d], req[d].a)'
    BY <2>1 DEF CopyOf, SameLessons, Ids
  <2> QED
    BY <2>2
<1>4. ASSUME NEW d \in Clients, pc'[d] \in {"saveA", "saveB"}
      PROVE  CopyOf(lb[d], req[d].b)'
  <2>1. CopyOf(lb[d], req[d].b)
    BY <1>4 DEF CopyInv, Typed, CopiesAgree, Goto
  <2>2. CopyOf(lb[d], req[d].b)'
    BY <2>1 DEF CopyOf, SameLessons, Ids
  <2> QED
    BY <2>2
<1>5. CopiesAgree'
  BY <1>3, <1>4 DEF CopiesAgree
<1> QED
  BY <1>1, <1>2, <1>5 DEF CopyInv

\* A row that is read is of the table.
LEMMA ReadRow ==
  ASSUME CopyInv, NEW i, Found(i)
  PROVE  rows[i] \in Row /\ CopyOf(rows[i], i)
BY ElementOfSeq DEF CopyInv, Typed, Found, Live, Ids, CopyOf

\* Another place in a row leaves its lesson, and changes nothing else.
LEMMA Moved ==
  ASSUME NEW row \in Row, NEW place \in Places
  PROVE  /\ [row EXCEPT !.lesson.place = place] \in Row
         /\ [row EXCEPT !.lesson.place = place].lesson.course = row.lesson.course
         /\ [row EXCEPT !.lesson.place = place].batch = row.batch
BY DEF Row, Lesson

\* Each read gives the client a copy of the row it read, at its new place.
LEMMA ReadsKeep ==
  ASSUME CopyInv, NEW c \in Clients, ReadA(c) \/ ReadB(c) \/ ReadM(c)
  PROVE  CopyInv' /\ SameLessons
<1>0. UNCHANGED <<rows, requests, disturbed>> /\ SameLessons
  BY DEF ReadA, ReadB, ReadM, SameLessons, Ids
<1>1. CASE End(c)
  BY <1>0, <1>1, EndKeeps
<1>2. CASE ReadA(c) /\ Found(req[c].a) /\ ~End(c)
  <2>1. /\ pc[c] = "readA" /\ pc' = [pc EXCEPT ![c] = "readB"]
        /\ la' = [la EXCEPT ![c] = rows[req[c].a]] /\ UNCHANGED <<req, lb, rows, requests, disturbed>>
    BY <1>2, <1>0 DEF ReadA, Goto
  <2>2. rows[req[c].a] \in Row /\ CopyOf(rows[req[c].a], req[c].a)
    BY <1>2, ReadRow
  <2>3. Typed'
    BY <2>1, <2>2 DEF CopyInv, Typed, Points
  <2>4. InPlace'
    BY <2>1 DEF CopyInv, Typed, InPlace
  <2>5. CopiesAgree'
    BY <2>1, <2>2 DEF CopyInv, Typed, CopiesAgree, CopyOf, Ids
  <2> QED
    BY <1>0, <2>3, <2>4, <2>5 DEF CopyInv
<1>3. CASE ReadB(c) /\ Found(req[c].b) /\ ~End(c)
  <2> DEFINE a == la[c]
             b == rows[req[c].b]
             movedA == [a EXCEPT !.lesson.place = b.lesson.place]
             movedB == [b EXCEPT !.lesson.place = a.lesson.place]
  <2>1. /\ pc[c] = "readB" /\ pc' = [pc EXCEPT ![c] = "saveA"]
        /\ la' = [la EXCEPT ![c].lesson.place = b.lesson.place]
        /\ lb' = [lb EXCEPT ![c] = movedB] /\ UNCHANGED <<req, rows, requests, disturbed>>
    BY <1>3, <1>0 DEF ReadB, Goto
  <2>2. b \in Row /\ CopyOf(b, req[c].b)
    BY <1>3, ReadRow
  <2>3. a \in Row /\ CopyOf(a, req[c].a)
    BY <2>1 DEF CopyInv, CopiesAgree, CopyOf
  <2>4. a.lesson.place \in Places /\ b.lesson.place \in Places
    BY <2>2, <2>3 DEF Row, Lesson
  <2>5. movedA \in Row /\ CopyOf(movedA, req[c].a)
    BY <2>3, <2>4, Moved DEF CopyOf
  <2>6. movedB \in Row /\ CopyOf(movedB, req[c].b)
    BY <2>2, <2>4, Moved DEF CopyOf
  <2>7. la' = [la EXCEPT ![c] = movedA]
    BY <2>1
  <2> HIDE DEF a, b, movedA, movedB
  <2>8. Typed'
    BY <2>1, <2>5, <2>6, <2>7 DEF CopyInv, Typed, Points
  <2>9. InPlace'
    BY <2>1 DEF CopyInv, Typed, InPlace
  <2>10. CopiesAgree'
    BY <2>1, <2>5, <2>6, <2>7 DEF CopyInv, Typed, CopiesAgree, CopyOf, Ids
  <2> QED
    BY <1>0, <2>8, <2>9, <2>10 DEF CopyInv
<1>4. CASE ReadM(c) /\ Found(req[c].a) /\ ~End(c)
  <2> DEFINE row == rows[req[c].a]
             moved == [row EXCEPT !.lesson.place = req[c].to]
  <2>1. /\ pc[c] = "readM" /\ pc' = [pc EXCEPT ![c] = "saveM"]
        /\ la' = [la EXCEPT ![c] = moved] /\ UNCHANGED <<req, lb, rows, requests, disturbed>>
    BY <1>4, <1>0 DEF ReadM, Goto
  <2>2. row \in Row /\ CopyOf(row, req[c].a)
    BY <1>4, ReadRow
  <2>3. req[c].to \in Places
    BY <2>1 DEF CopyInv, Typed, InPlace, Request, NoRequest
  <2>4. moved \in Row /\ CopyOf(moved, req[c].a)
    BY <2>2, <2>3, Moved DEF CopyOf
  <2> HIDE DEF row, moved
  <2>5. Typed'
    BY <2>1, <2>4 DEF CopyInv, Typed, Points
  <2>6. InPlace'
    BY <2>1 DEF CopyInv, Typed, InPlace
  <2>7. CopiesAgree'
    BY <2>1, <2>4 DEF CopyInv, Typed, CopiesAgree, CopyOf, Ids
  <2> QED
    BY <1>0, <2>5, <2>6, <2>7 DEF CopyInv
<1> QED
  BY <1>1, <1>2, <1>3, <1>4 DEF ReadA, ReadB, ReadM

\* Every save writes a copy of the row it overwrites.
LEMMA WritesKeep ==
  ASSUME CopyInv, NEW c \in Clients,
         DeleteAll(c) \/ CreateBatch(c) \/ SaveA(c) \/ SaveB(c) \/ SaveM(c) \/ Record(c)
  PROVE  CopyInv' /\ SameLessons
<1>0. rows \in Seq(Row) /\ {"insert", "saveB", "log", "report"} \subseteq Points
  BY DEF CopyInv, Typed, Points
<1>1. CASE DeleteAll(c)
  <2>1. rows' \in Seq(Row) /\ SameLessons
    BY <1>0, <1>1, DeleteKeeps DEF DeleteAll
  <2> QED
    BY <1>0, <1>1, <2>1, WriteKeeps DEF DeleteAll
<1>2. CASE CreateBatch(c)
  <2>1. req[c].plan \in Plans /\ req[c].batch \in 0 .. MaxRequests
    BY <1>2 DEF CreateBatch, Goto, CopyInv, Typed, InPlace, Request, NoRequest
  <2>2. rows' \in Seq(Row) /\ SameLessons
    BY <1>0, <1>2, <2>1, InsertKeeps DEF CreateBatch
  <2> QED
    BY <1>0, <1>2, <2>2, WriteKeeps DEF CreateBatch
<1>3. CASE SaveA(c)
  <2>1. CopyOf(la[c], req[c].a)
    BY <1>3 DEF SaveA, Goto, CopyInv, CopiesAgree
  <2>2. rows' \in Seq(Row) /\ SameLessons
    BY <1>0, <1>3, <2>1, SaveKeeps DEF SaveA
  <2> QED
    BY <1>0, <1>3, <2>2, WriteKeeps DEF SaveA
<1>4. CASE SaveB(c)
  <2>1. CopyOf(lb[c], req[c].b)
    BY <1>4 DEF SaveB, Goto, CopyInv, CopiesAgree
  <2>2. rows' \in Seq(Row) /\ SameLessons
    BY <1>0, <1>4, <2>1, SaveKeeps DEF SaveB
  <2> QED
    BY <1>0, <1>4, <2>2, WriteKeeps DEF SaveB
<1>5. CASE SaveM(c)
  <2>1. CopyOf(la[c], req[c].a)
    BY <1>5 DEF SaveM, Goto, CopyInv, CopiesAgree
  <2>2. rows' \in Seq(Row) /\ SameLessons
    BY <1>0, <1>5, <2>1, SaveKeeps DEF SaveM
  <2> QED
    BY <1>0, <1>5, <2>2, WriteKeeps DEF SaveM
<1>6. CASE Record(c)
  <2>1. rows' \in Seq(Row) /\ SameLessons
    BY <1>0, <1>6 DEF Record, SameLessons, Ids
  <2> QED
    BY <1>0, <1>6, <2>1, WriteKeeps DEF Record
<1> QED
  BY <1>1, <1>2, <1>3, <1>4, <1>5, <1>6

\* A request that begins asks for what the handlers let through.
LEMMA BeginsKeep ==
  ASSUME CopyInv, NEW c \in Clients, Generate(c) \/ Swap(c) \/ Move(c)
  PROVE  CopyInv' /\ SameLessons
<1>0. Ids \subseteq Nat /\ requests \in 0 .. MaxRequests
  BY DEF CopyInv, Typed, Ids
<1>1. CASE Generate(c)
  <2>1. PICK plan \in Plans :
          Begin(c, [action |-> "generate", plan |-> plan, batch |-> requests], "delete")
    BY <1>1 DEF Generate
  <2>2. [action |-> "generate", plan |-> plan, batch |-> requests] \in Request
    BY <1>0 DEF Request
  <2> QED
    BY <2>1, <2>2, BeginKeeps
<1>2. CASE Swap(c)
  <2>1. PICK a \in Ids, b \in Ids : Begin(c, [action |-> "swap", a |-> a, b |-> b], "readA")
    BY <1>2 DEF Swap
  <2>2. [action |-> "swap", a |-> a, b |-> b] \in Request
    BY <1>0 DEF Request
  <2> QED
    BY <2>1, <2>2, BeginKeeps
<1>3. CASE Move(c)
  <2>1. PICK a \in Ids, p \in Places :
          Begin(c, [action |-> "move", a |-> a, to |-> p], "readM")
    BY <1>3 DEF Move
  <2>2. [action |-> "move", a |-> a, to |-> p] \in Request
    BY <1>0 DEF Request
  <2> QED
    BY <2>1, <2>2, BeginKeeps
<1> QED
  BY <1>1, <1>2, <1>3

-------------------------------------------------------------------------------
(* The theorems.                                                           *)

\* Every step keeps the invariant and the lessons.
LEMMA StepKeeps ==
  ASSUME CopyInv, [Next]_vars
  PROVE  CopyInv' /\ SameLessons
<1>1. CASE UNCHANGED vars
  BY <1>1 DEF vars, CopyInv, Typed, InPlace, CopiesAgree, CopyOf, SameLessons, Ids
<1>2. CASE Finished
  BY <1>1, <1>2 DEF Finished
<1>3. ASSUME NEW c \in Clients, Client(c)
      PROVE  CopyInv' /\ SameLessons
  <2>1. CASE Report(c) \/ Abort(c)
    BY <2>1, EndKeeps DEF Report, Abort
  <2> QED
    BY <1>3, <2>1, BeginsKeep, ReadsKeep, WritesKeep DEF Client
<1> QED
  BY <1>1, <1>2, <1>3 DEF Next

\* Save (repository/schedule.go): in every behaviour, with any number of clients
\* and any call failing, whatever copy is held of a row has its lesson.
THEOREM CopiesAlwaysAgree == Spec => []CopyInv
<1>1. Init => CopyInv
  BY RequestsAssumption
  DEF Init, CopyInv, Typed, InPlace, CopiesAgree, Points, Request
<1>2. CopyInv /\ [Next]_vars => CopyInv'
  BY StepKeeps
<1> QED
  BY <1>1, <1>2, PTL DEF Spec

\* Swap and Move change where and when a lesson is held, and never which lesson
\* a row is nor the generation it belongs to; no request removes a row.
THEOREM LessonsAlwaysKeepIdentity == Spec => LessonsKeepIdentity
<1>1. CopyInv /\ [Next]_vars =>
        [\A i \in Ids : /\ i \in DOMAIN rows'
                        /\ rows'[i].lesson.course = rows[i].lesson.course
                        /\ rows'[i].batch = rows[i].batch]_vars
  BY StepKeeps DEF SameLessons
<1> QED
  BY <1>1, CopiesAlwaysAgree, PTL DEF Spec, LessonsKeepIdentity

-------------------------------------------------------------------------------
(* Types.                                                                  *)

\* Where a request can be, by its action.
PointsOf(action) ==
  CASE action = "none" -> {"idle"}
    [] action = "generate" -> {"delete", "insert", "report"}
    [] action = "swap" -> {"readA", "readB", "saveA", "saveB", "log", "report"}
    [] action = "move" -> {"readM", "saveM", "log", "report"}

\* A request is where its action can be, and the copy it will save is of a row
\* that it found.
At(c) ==
  /\ pc[c] \in PointsOf(req[c].action)
  /\ pc[c] \in {"readB", "saveA", "saveM"} => la[c].live

Placed == \A c \in Clients : At(c)

\* A step of one client is no business of another.
LEMMA OthersStay ==
  ASSUME CopyInv, Placed, NEW c \in Clients, Client(c), NEW d \in Clients, d # c
  PROVE  At(d)'
<1>1. /\ pc \in [Clients -> Points] /\ req \in [Clients -> Request]
      /\ la \in [Clients -> Row \cup {NoRow}]
  BY DEF CopyInv, Typed
<1>2. /\ pc'[d] = pc[d] /\ req'[d] = req[d] /\ la'[d] = la[d]
  BY <1>1 DEF Client, Generate, DeleteAll, CreateBatch, Swap, ReadA, ReadB, SaveA, SaveB, Move,
              ReadM, SaveM, Record, Report, Abort, Begin, End, Goto
<1> QED
  BY <1>2 DEF Placed, At

\* Every action takes its own request where it can be.
LEMMA OneMoves ==
  ASSUME CopyInv, Placed, NEW c \in Clients, Client(c)
  PROVE  At(c)'
<1>1. /\ pc \in [Clients -> Points] /\ req \in [Clients -> Request]
      /\ la \in [Clients -> Row \cup {NoRow}]
  BY DEF CopyInv, Typed
<1>2. At(c) /\ InPlace
  BY DEF Placed, CopyInv
<1>3. CASE Generate(c) \/ Swap(c) \/ Move(c)
  BY <1>1, <1>3 DEF Generate, Swap, Move, Begin, Goto, At, PointsOf
<1>4. CASE End(c)
  BY <1>1, <1>4 DEF End, NoRequest, At, PointsOf
<1>5. CASE DeleteAll(c) \/ CreateBatch(c)
  BY <1>1, <1>2, <1>5 DEF DeleteAll, CreateBatch, Goto, InPlace, At, PointsOf
<1>6. CASE SaveA(c) \/ SaveB(c) \/ SaveM(c)
  BY <1>1, <1>2, <1>6 DEF SaveA, SaveB, SaveM, Goto, InPlace, At, PointsOf
<1>7. CASE Record(c)
  <2>1. req[c].action \in {"none", "generate", "swap", "move"}
    BY <1>1 DEF Request, NoRequest
  <2>2. pc[c] = "log" /\ pc'[c] = "report" /\ req' = req
    BY <1>1, <1>7 DEF Record, Goto
  <2>3. req[c].action \in {"swap", "move"}
    BY <1>2, <2>1, <2>2 DEF At, PointsOf
  <2> QED
    BY <2>2, <2>3 DEF At, PointsOf
<1>8. CASE ReadA(c) /\ ~End(c)
  <2>1. /\ Found(req[c].a) /\ pc[c] = "readA" /\ pc'[c] = "readB" /\ req' = req
        /\ la'[c] = rows[req[c].a]
    BY <1>1, <1>8 DEF ReadA, Goto
  <2> QED
    BY <1>2, <2>1 DEF Found, Live, InPlace, At, PointsOf
<1>9. CASE ReadM(c) /\ ~End(c)
  <2>1. /\ Found(req[c].a) /\ pc[c] = "readM" /\ pc'[c] = "saveM" /\ req' = req
        /\ la'[c] = [rows[req[c].a] EXCEPT !.lesson.place = req[c].to]
    BY <1>1, <1>9 DEF ReadM, Goto
  <2>2. rows[req[c].a] \in Row /\ rows[req[c].a].live
    BY <2>1, ReadRow DEF Found, Live
  <2>3. la'[c].live
    BY <2>1, <2>2 DEF Row
  <2> QED
    BY <1>2, <2>1, <2>3 DEF InPlace, At, PointsOf
<1>10. CASE ReadB(c) /\ ~End(c)
  <2>1. /\ pc[c] = "readB" /\ pc'[c] = "saveA" /\ req' = req
        /\ la'[c] = [la[c] EXCEPT !.lesson.place = rows[req[c].b].lesson.place]
    BY <1>1, <1>10 DEF ReadB, Goto
  <2>2. la[c] \in Row /\ la[c].live
    BY <1>2, <2>1 DEF CopyInv, CopiesAgree, CopyOf, At
  <2>3. la'[c].live
    BY <2>1, <2>2 DEF Row
  <2> QED
    BY <1>2, <2>1, <2>3 DEF InPlace, At, PointsOf
<1> QED
  BY <1>3, <1>4, <1>5, <1>6, <1>7, <1>8, <1>9, <1>10 DEF Client, Report, Abort

\* The invariant with the places of the requests.
TypeInv == CopyInv /\ Placed

LEMMA StepPlaces ==
  ASSUME TypeInv, [Next]_vars
  PROVE  TypeInv'
<1>1. CopyInv'
  BY StepKeeps DEF TypeInv
<1>2. CASE UNCHANGED vars \/ Finished
  <2>1. UNCHANGED vars
    BY <1>2 DEF Finished
  <2> QED
    BY <1>1, <2>1 DEF vars, TypeInv, Placed, At
<1>3. CASE \E c \in Clients : Client(c)
  <2>1. Placed'
    BY <1>3, OthersStay, OneMoves DEF TypeInv, Placed
  <2> QED
    BY <1>1, <2>1 DEF TypeInv
<1> QED
  BY <1>2, <1>3 DEF Next

\* With the places of the requests as with the copies, for any number of clients
\* and any failing call.
THEOREM RequestsAlwaysPlaced == Spec => []TypeInv
<1>1. Init => TypeInv
  <2> SUFFICES ASSUME Init
               PROVE  TypeInv
    OBVIOUS
  <2>1. CopyInv
    BY RequestsAssumption DEF Init, CopyInv, Typed, InPlace, CopiesAgree, Points, Request
  <2>2. Placed
    BY DEF Init, Placed, At, PointsOf, NoRequest
  <2> QED
    BY <2>1, <2>2 DEF TypeInv
<1>2. TypeInv /\ [Next]_vars => TypeInv'
  BY StepPlaces
<1> QED
  BY <1>1, <1>2, PTL DEF Spec

\* Rows are lessons of some generation, and every request is where its action can
\* be, with a copy of a row that it found.
THEOREM TimetableTypes == Spec => []TypeOK
<1>1. TypeInv => TypeOK
  <2> SUFFICES ASSUME TypeInv
               PROVE  TypeOK
    OBVIOUS
  <2>1. \A i \in Ids : rows[i] \in Row
    BY ElementOfSeq DEF TypeInv, CopyInv, Typed, Ids
  <2>2. requests \in 0 .. MaxRequests /\ disturbed \subseteq {"overlap", "failure"}
    BY DEF TypeInv, CopyInv, Typed
  <2>3. \A c \in Clients : At(c)
    BY DEF TypeInv, Placed
  <2> QED
    BY <2>1, <2>2, <2>3 DEF TypeOK, Row, At, PointsOf
<1> QED
  BY <1>1, RequestsAlwaysPlaced, PTL

===============================================================================
