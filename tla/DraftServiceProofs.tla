-------------------------- MODULE DraftServiceProofs --------------------------
(***************************************************************************)
(* Proofs about DraftService, for every number of drafts, requests, weeks  *)
(* and boots, and for every set of calls that may fail.                    *)
(*                                                                         *)
(* One lemma says what any step can do to the table (RowsStep: nothing, or *)
(* one row by one of the repository's conditional updates, or the recovery *)
(* of all running rows).  The facts about rows follow from it alone; the   *)
(* facts that tie the worker and the handlers to the table need the        *)
(* inductive invariant IInv.                                               *)
(***************************************************************************)
EXTENDS DraftService, TLAPS

\* What a step may do to row d: r before, s after.
Inserted(r, s) ==
  /\ r.status = "none"
  /\ \E t \in Stamps : s = [r EXCEPT !.status = "queued", !.created = t]
Claimed(r, s) ==
  r.status = "queued" /\ s = [r EXCEPT !.status = "running", !.started = TRUE]
Progressed(r, s) ==
  /\ r.status = "running"
  /\ \E p \in 0 .. 100 : p <= 99 /\ s = [r EXCEPT !.progress = p]
Succeeded(r, s) ==
  /\ r.status = "running"
  /\ s = [r EXCEPT !.status = "succeeded", !.result = Weeks, !.progress = 100,
                   !.reason = "", !.finished = TRUE]
Failed(r, s) ==
  /\ r.status = "running"
  /\ \E why \in {"generation", "restart"} :
       s = [r EXCEPT !.status = "failed", !.reason = why, !.finished = TRUE]
Canceled(r, s) ==
  /\ r.status \in {"queued", "running"}
  /\ s = [r EXCEPT !.status = "canceled", !.finished = TRUE]

RowStep(r, s) ==
  \/ Inserted(r, s) \/ Claimed(r, s) \/ Progressed(r, s)
  \/ Succeeded(r, s) \/ Failed(r, s) \/ Canceled(r, s)

\* What a step may do to the table.
OneRow == \E d \in Drafts :
            /\ RowStep(rows[d], rows'[d])
            /\ rows' = [rows EXCEPT ![d] = rows'[d]]

RowsStep == UNCHANGED rows \/ OneRow \/ RecoverInterrupted

-------------------------------------------------------------------------------
(* Rows.                                                                   *)

\* The ends of the ranges a finished row uses.
LEMMA Bounds == Weeks \in 0 .. Weeks /\ 100 \in 0 .. 100
BY WeeksAssumption

\* No job, no week and no boot are in their ranges, and no job is no draft.
LEMMA Zeros ==
  /\ NoDraft \in 0 .. MaxDrafts /\ 0 \in 0 .. Weeks /\ 0 \in 0 .. MaxBoots
  /\ NoDraft \notin Drafts /\ Drafts \subseteq 0 .. MaxDrafts
BY DraftsAssumption, WeeksAssumption, BootsAssumption DEF NoDraft, Drafts

\* A row step keeps the type and the meaning of a row, and starts from a row
\* that has not ended.
LEMMA RowStepSound ==
  ASSUME NEW r \in Row, NEW s, RowStep(r, s)
  PROVE  /\ s \in Row
         /\ RowMeaning(r) => RowMeaning(s)
         /\ ~IsTerminal(r)
         /\ s.status # "none"
<1> USE WeeksAssumption, StampsAssumption
          DEF Row, RowMeaning, IsTerminal, Terminal, Statuses, Reasons
<1>1. CASE Inserted(r, s)
  BY <1>1 DEF Inserted
<1>2. CASE Claimed(r, s)
  <2>1. /\ s \in Row /\ s.status = "running" /\ s.started
        /\ s.progress = r.progress /\ s.result = r.result
        /\ s.reason = r.reason /\ (s.finished <=> r.finished)
    BY <1>2 DEF Claimed
  <2>2. QED
    BY <1>2, <2>1 DEF Claimed
<1>3. CASE Progressed(r, s)
  <2>1. PICK p \in 0 .. 100 : p <= 99 /\ s = [r EXCEPT !.progress = p]
    BY <1>3 DEF Progressed
  <2>2. s \in Row
    BY <2>1
  <2>3. /\ s.progress <= 99 /\ s.status = r.status /\ s.reason = r.reason
        /\ s.result = r.result
    BY <2>1
  <2>4. s.started = r.started /\ s.finished = r.finished
    BY <2>1
  <2>5. QED
    BY <1>3, <2>2, <2>3, <2>4 DEF Progressed
<1>4. CASE Succeeded(r, s)
  <2>1. s \in Row
    BY <1>4, Bounds DEF Succeeded
  <2>2. /\ s.status = "succeeded" /\ s.reason = "" /\ s.progress = 100
        /\ s.result = Weeks
    BY <1>4 DEF Succeeded
  <2>3. s.started = r.started /\ s.finished
    BY <1>4 DEF Succeeded
  <2>4. QED
    BY <1>4, <2>1, <2>2, <2>3 DEF Succeeded
<1>5. CASE Failed(r, s)
  <2>1. PICK why \in {"generation", "restart"} :
          s = [r EXCEPT !.status = "failed", !.reason = why, !.finished = TRUE]
    BY <1>5 DEF Failed
  <2>2. s \in Row /\ s.status = "failed" /\ s.reason # ""
    BY <2>1
  <2>3. s.progress = r.progress /\ s.result = r.result
    BY <2>1
  <2>4. s.started = r.started /\ s.finished
    BY <2>1
  <2>5. QED
    BY <1>5, <2>2, <2>3, <2>4 DEF Failed
<1>6. CASE Canceled(r, s)
  BY <1>6 DEF Canceled
<1>7. QED
  BY <1>1, <1>2, <1>3, <1>4, <1>5, <1>6 DEF RowStep

\* The same of a step of the whole table: rows keep their type and meaning,
\* a row that has ended keeps every column, and no row disappears.
LEMMA RowsStepSound ==
  ASSUME rows \in [Drafts -> Row], RowsStep
  PROVE  /\ rows' \in [Drafts -> Row]
         /\ RowsConsistent => RowsConsistent'
         /\ \A d \in Drafts : IsTerminal(rows[d]) => rows'[d] = rows[d]
         /\ \A d \in Drafts : rows[d].status # "none" => rows'[d].status # "none"
<1>1. CASE UNCHANGED rows
  BY <1>1 DEF RowsConsistent
<1>2. CASE OneRow
  <2>1. PICK d \in Drafts : /\ RowStep(rows[d], rows'[d])
                            /\ rows' = [rows EXCEPT ![d] = rows'[d]]
    BY <1>2 DEF OneRow
  <2>2. /\ rows'[d] \in Row
        /\ RowMeaning(rows[d]) => RowMeaning(rows'[d])
        /\ ~IsTerminal(rows[d])
        /\ rows'[d].status # "none"
    BY <2>1, RowStepSound
  <2>3. \A e \in Drafts : e # d => rows'[e] = rows[e]
    BY <2>1
  <2>4. QED
    BY <2>1, <2>2, <2>3 DEF RowsConsistent
<1>3. CASE RecoverInterrupted
  <2> DEFINE failed(r) == [r EXCEPT !.status = "failed", !.reason = "restart",
                                    !.finished = TRUE]
  <2>1. \A d \in Drafts : rows'[d] = IF rows[d].status = "running"
                                     THEN failed(rows[d]) ELSE rows[d]
    BY <1>3 DEF RecoverInterrupted, Running
  <2>2. \A d \in Drafts : rows[d].status = "running" =>
          RowStep(rows[d], failed(rows[d]))
    BY DEF RowStep, Failed
  <2>3. \A d \in Drafts : rows[d].status = "running" =>
          /\ failed(rows[d]) \in Row
          /\ RowMeaning(rows[d]) => RowMeaning(failed(rows[d]))
          /\ ~IsTerminal(rows[d])
          /\ failed(rows[d]).status # "none"
    BY <2>2, RowStepSound
  <2> HIDE DEF failed
  <2>4. rows' \in [Drafts -> Row]
    <3>1. \A d \in Drafts : rows'[d] \in Row
      BY <2>1, <2>3
    <3>2. rows' = [d \in Drafts |-> rows'[d]]
      BY <1>3 DEF RecoverInterrupted
    <3>3. QED
      BY <3>1, <3>2
  <2>5. QED
    BY <2>1, <2>3, <2>4 DEF RowsConsistent
<1>4. QED
  BY <1>1, <1>2, <1>3 DEF RowsStep

\* The progress the worker reports stays below 100 until the end.
LEMMA ProgressBelow100 ==
  ASSUME NEW w \in 0 .. Weeks
  PROVE  ProgressOf(w) \in 0 .. 100 /\ ProgressOf(w) <= 99
<1>1. (w * 100) \div Weeks \in Nat
  BY WeeksAssumption
<1>2. QED
  BY <1>1 DEF ProgressOf

-------------------------------------------------------------------------------
(* Steps.                                                                  *)

\* Every step of the service is a step of the table.
LEMMA NextRows ==
  ASSUME TypeOK, WorkerConsistent, TargetsExist, [Next]_vars
  PROVE  RowsStep
<1>1. rows \in [Drafts -> Row]
  BY DEF TypeOK
<1>2. ASSUME NEW d \in Drafts, NEW s, RowStep(rows[d], s),
             rows' = [rows EXCEPT ![d] = s]
      PROVE  RowsStep
  <2>1. rows'[d] = s
    BY <1>1, <1>2
  <2>2. QED
    BY <1>2, <2>1 DEF RowsStep, OneRow
<1>3. CASE Claim
  <2>1. PICK d \in Drafts : IsOldest(d) /\ ClaimRow(d)
    BY <1>3 DEF Claim
  <2> DEFINE s == [rows[d] EXCEPT !.status = "running", !.started = TRUE]
  <2>2. rows' = [rows EXCEPT ![d] = s]
    BY <1>1, <2>1 DEF ClaimRow
  <2>3. RowStep(rows[d], s)
    BY <2>1 DEF IsOldest, Queued, RowStep, Claimed
  <2>4. QED
    BY <1>2, <2>2, <2>3
<1>4. CASE ReportProgress
  <2>1. job \in Drafts
    BY <1>4 DEF ReportProgress, WorkerConsistent, Executing, Registered, Planning
  <2> DEFINE p == ProgressOf(week)
  <2>2. p \in 0 .. 100 /\ p <= 99
    BY ProgressBelow100 DEF TypeOK
  <2> HIDE DEF p
  <2> DEFINE s == [rows[job] EXCEPT !.progress = p]
  <2>3. CASE job \in Running /\ rows' = [rows EXCEPT ![job].progress = p]
    <3>1. rows' = [rows EXCEPT ![job] = s]
      BY <1>1, <2>3
    <3>2. RowStep(rows[job], s)
      BY <2>2, <2>3 DEF Running, RowStep, Progressed
    <3>3. QED
      BY <1>2, <2>1, <3>1, <3>2
  <2>4. CASE UNCHANGED rows
    BY <2>4 DEF RowsStep
  <2>5. QED
    BY <1>4, <2>3, <2>4 DEF ReportProgress, UpdateProgress, p
<1>5. CASE FailDraft
  <2>1. job \in Drafts
    BY <1>5 DEF FailDraft, WorkerConsistent, Executing, Registered
  <2> DEFINE s == [rows[job] EXCEPT !.status = "failed",
                                    !.reason = "generation", !.finished = TRUE]
  <2>2. CASE /\ job \in Running
             /\ rows' = [rows EXCEPT ![job].status = "failed",
                                     ![job].reason = "generation",
                                     ![job].finished = TRUE]
    <3>1. rows' = [rows EXCEPT ![job] = s]
      BY <1>1, <2>1, <2>2
    <3>2. RowStep(rows[job], s)
      BY <2>2 DEF Running, RowStep, Failed
    <3>3. QED
      BY <1>2, <2>1, <3>1, <3>2
  <2>3. CASE UNCHANGED rows
    BY <2>3 DEF RowsStep
  <2>4. QED
    BY <1>5, <2>2, <2>3 DEF FailDraft, Fail
<1>6. CASE StoreResult
  <2>1. job \in Drafts /\ week = Weeks
    BY <1>6 DEF StoreResult, WorkerConsistent, Executing, Registered
  <2> DEFINE s == [rows[job] EXCEPT !.status = "succeeded", !.result = Weeks,
                                    !.progress = 100, !.reason = "",
                                    !.finished = TRUE]
  <2>2. CASE /\ job \in Running
             /\ rows' = [rows EXCEPT ![job].status = "succeeded",
                                     ![job].result = week,
                                     ![job].progress = 100,
                                     ![job].reason = "",
                                     ![job].finished = TRUE]
    <3>1. rows' = [rows EXCEPT ![job] = s]
      BY <1>1, <2>1, <2>2
    <3>2. RowStep(rows[job], s)
      BY <2>2 DEF Running, RowStep, Succeeded
    <3>3. QED
      BY <1>2, <2>1, <3>1, <3>2
  <2>3. CASE UNCHANGED rows
    BY <2>3 DEF RowsStep
  <2>4. QED
    BY <1>6, <2>2, <2>3 DEF StoreResult, Succeed
<1>7. ASSUME NEW c \in Clients, Submit(c)
      PROVE  RowsStep
  <2>1. PICK d \in Drafts, t \in Stamps :
          /\ rows[d].status = "none"
          /\ rows' = [rows EXCEPT ![d].status = "queued", ![d].created = t]
    BY <1>7 DEF Submit
  <2> DEFINE s == [rows[d] EXCEPT !.status = "queued", !.created = t]
  <2>2. rows' = [rows EXCEPT ![d] = s]
    BY <1>1, <2>1
  <2>3. RowStep(rows[d], s)
    BY <2>1 DEF RowStep, Inserted
  <2>4. QED
    BY <1>2, <2>2, <2>3
<1>8. ASSUME NEW c \in Clients, CancelRequest(c)
      PROVE  RowsStep
  <2> DEFINE d == target[c]
  <2>1. d \in Drafts
    BY <1>8 DEF CancelRequest, Finish, Goto, TargetsExist
  <2> DEFINE s == [rows[d] EXCEPT !.status = "canceled", !.finished = TRUE]
  <2>2. CASE /\ d \in Queued \cup Running
             /\ rows' = [rows EXCEPT ![d].status = "canceled",
                                     ![d].finished = TRUE]
    <3>1. rows' = [rows EXCEPT ![d] = s]
      BY <1>1, <2>1, <2>2
    <3>2. RowStep(rows[d], s)
      BY <2>2 DEF Queued, Running, RowStep, Canceled
    <3>3. QED
      BY <1>2, <2>1, <3>1, <3>2
  <2>3. CASE UNCHANGED rows
    BY <2>3 DEF RowsStep
  <2>4. QED
    BY <1>8, <2>2, <2>3 DEF CancelRequest, RequestCancel
<1>9. CASE Boot
  BY <1>9 DEF Boot, RowsStep
<1>10. CASE \/ ClaimNothing \/ Stop \/ Tick \/ Kick \/ Register \/ LoadPlan
            \/ PlanWeek \/ PlanDone \/ HandleError \/ CheckCanceled
            \/ CheckContext \/ Enrich \/ Unwind
  BY <1>10 DEF ClaimNothing, Stop, Tick, Kick, Register, LoadPlan, PlanWeek,
     PlanDone, HandleError, CheckCanceled, CheckContext, Enrich, Unwind, RowsStep
<1>11. ASSUME NEW c \in Clients,
              Cancel(c) \/ Signal(c) \/ CancelRead(c) \/ CancelLocal(c)
              \/ CancelReload(c)
       PROVE  RowsStep
  BY <1>11 DEF Cancel, Signal, CancelRead, CancelLocal, CancelReload, RowsStep
<1>12. CASE Crash \/ BeginShutdown \/ ShutdownCancel \/ Exit
  BY <1>12 DEF Crash, BeginShutdown, ShutdownCancel, Exit, Down, RowsStep
<1>13. CASE UNCHANGED vars
  BY <1>13 DEF vars, RowsStep
<1>14. QED
  BY <1>3, <1>4, <1>5, <1>6, <1>7, <1>8, <1>9, <1>10, <1>11, <1>12, <1>13
     DEF Next, Worker, Client, Continue, Process

\* What NextRows and RowsStepSound give of every step, in one place.
LEMMA NextTable ==
  ASSUME IInv, [Next]_vars
  PROVE  /\ rows' \in [Drafts -> Row]
         /\ RowsConsistent'
         /\ \A d \in Drafts : IsTerminal(rows[d]) => IsTerminal(rows'[d])
         /\ \A d \in Drafts : rows[d].status # "none" => rows'[d].status # "none"
<1>1. RowsStep /\ rows \in [Drafts -> Row]
  BY NextRows DEF IInv, TypeOK
<1>2. QED
  BY <1>1, RowsStepSound DEF IInv

-------------------------------------------------------------------------------
(* The inductive invariant.                                                *)

\* The empty table of a first boot satisfies the invariant.
LEMMA InitIInv == Init => IInv
<1>1. SUFFICES ASSUME Init PROVE IInv
  OBVIOUS
<1>2. EmptyRow \in Row /\ RowMeaning(EmptyRow) /\ ~IsTerminal(EmptyRow)
  BY WeeksAssumption DEF EmptyRow, Row, RowMeaning, IsTerminal, Terminal,
     Statuses, Reasons
<1>3. TypeOK
  BY <1>1, <1>2, Zeros DEF Init, TypeOK, WorkerPoints, ClientPoints
<1>4. RowsConsistent
  BY <1>1, <1>2 DEF Init, RowsConsistent
<1>5. TargetsExist /\ CancelEffective
  BY <1>1 DEF Init, TargetsExist, CancelEffective
<1>6. WorkerConsistent /\ InterruptedIsTerminal
  BY <1>1 DEF Init, WorkerConsistent, InterruptedIsTerminal, Executing,
     Registered, Planning, NoDraft
<1>7. DownIsEmpty
  BY <1>1 DEF Init, DownIsEmpty
<1>8. QED
  BY <1>3, <1>4, <1>5, <1>6, <1>7 DEF IInv

\* Every step preserves the types.
LEMMA TypeStep ==
  ASSUME IInv, [Next]_vars
  PROVE  TypeOK'
<1>1. rows' \in [Drafts -> Row]
  BY NextTable
<1>2. TypeOK /\ WorkerConsistent
  BY DEF IInv
<1> USE <1>1, <1>2 DEF TypeOK
<1>3. CASE Claim
  BY <1>3, Zeros DEF Claim, WorkerPoints, Executing,
     serviceVars, clientVars, processVars
<1>4. CASE \/ ClaimNothing \/ Stop \/ Tick \/ Kick \/ LoadPlan \/ PlanDone
           \/ HandleError \/ CheckCanceled \/ CheckContext \/ Enrich
  BY <1>4 DEF ClaimNothing, Stop, Tick, Kick, LoadPlan, PlanDone, HandleError,
     CheckCanceled, CheckContext, Enrich, WorkerPoints, Executing, Registered,
     Planning, serviceVars, clientVars, processVars
<1>5. CASE Register
  <2>1. job \in Drafts
    BY <1>5 DEF Register, WorkerConsistent, Executing
  <2>2. QED
    BY <1>5, <2>1 DEF Register, WorkerPoints, Executing, Registered, Planning,
       clientVars, processVars
<1>6. CASE PlanWeek
  BY <1>6, WeeksAssumption DEF PlanWeek, WorkerPoints, Executing, Registered,
     Planning, serviceVars, clientVars, processVars
<1>7. CASE ReportProgress \/ FailDraft \/ StoreResult
  <2>1. job \in Drafts
    BY <1>7 DEF ReportProgress, FailDraft, StoreResult, WorkerConsistent, Executing,
       Registered, Planning
  <2>2. QED
    BY <1>7, <2>1 DEF ReportProgress, FailDraft, StoreResult, WorkerPoints, Executing,
       Registered, Planning, serviceVars, clientVars, processVars
<1>8. CASE Unwind
  BY <1>8, Zeros DEF Unwind, WorkerPoints, clientVars, processVars
<1>9. ASSUME NEW c \in Clients, Client(c)
      PROVE  TypeOK'
  <2>1. CASE Submit(c) \/ Signal(c)
    BY <2>1 DEF Submit, Signal, Goto, ClientPoints, workerVars, serviceVars,
       processVars
  <2>2. CASE Cancel(c)
    BY <2>2, Zeros DEF Cancel, Goto, ClientPoints, workerVars, serviceVars, processVars
  <2>3. CASE CancelRead(c) \/ CancelRequest(c) \/ CancelReload(c)
    BY <2>3, Zeros DEF CancelRead, CancelRequest, CancelReload,
       Finish, Goto, ClientPoints, workerVars, serviceVars, processVars
  <2>4. CASE CancelLocal(c)
    BY <2>4 DEF CancelLocal, Goto, ClientPoints, processVars
  <2>5. QED
    BY <1>9, <2>1, <2>2, <2>3, <2>4 DEF Client, Continue
<1>10. CASE Boot
  <2>1. Running \subseteq Drafts
    BY DEF Running
  <2>2. QED
    BY <1>10, <2>1, BootsAssumption DEF Boot, WorkerPoints, serviceVars, clientVars
<1>11. CASE Crash \/ Exit
  BY <1>11, Zeros DEF Crash, Exit, Down, WorkerPoints, ClientPoints
<1>12. CASE BeginShutdown \/ ShutdownCancel
  BY <1>12 DEF BeginShutdown, ShutdownCancel, workerVars, clientVars, processVars
<1>13. CASE UNCHANGED vars
  BY <1>13 DEF vars, workerVars, serviceVars, clientVars, processVars
<1>14. QED
  BY <1>3, <1>4, <1>5, <1>6, <1>7, <1>8, <1>9, <1>10, <1>11, <1>12, <1>13
     DEF Next, Worker, Process

\* Whoever holds a draft's id holds one that exists, and a cancel's effect stays.
LEMMA TargetsStep ==
  ASSUME IInv, [Next]_vars
  PROVE  TargetsExist' /\ CancelEffective'
<1>1. /\ \A d \in Drafts : IsTerminal(rows[d]) => IsTerminal(rows'[d])
      /\ \A d \in Drafts : rows[d].status # "none" => rows'[d].status # "none"
  BY NextTable
<1>2. TypeOK /\ TargetsExist /\ CancelEffective
  BY DEF IInv
<1> USE <1>1, <1>2 DEF TypeOK, TargetsExist, CancelEffective
<1>3. CASE UNCHANGED clientVars
  BY <1>3 DEF clientVars
<1>4. ASSUME NEW c \in Clients, Client(c)
      PROVE  TargetsExist' /\ CancelEffective'
  <2>1. CASE Submit(c) \/ Signal(c)
    BY <2>1 DEF Submit, Signal, Goto
  <2>2. CASE Cancel(c)
    BY <2>2 DEF Cancel, Goto
  <2>3. CASE CancelRead(c)
    BY <2>3 DEF CancelRead, Finish, Goto
  <2>4. CASE CancelRequest(c)
    <3>1. CASE Finish(c, "request") /\ UNCHANGED rows
      BY <3>1 DEF Finish, Goto
    <3>2. CASE /\ Goto(c, "request", "local")
               /\ RequestCancel(target[c])
               /\ UNCHANGED target
      <4>1. target[c] \in Drafts /\ rows[target[c]].status # "none"
        BY <3>2 DEF Goto
      <4>2. rows'[target[c]].status \in Terminal
        BY <3>2, <4>1 DEF RequestCancel, Queued, Running, Terminal, Row, Statuses
      <4>3. QED
        BY <3>2, <4>1, <4>2 DEF Goto, IsTerminal
    <3>3. QED
      BY <2>4, <3>1, <3>2 DEF CancelRequest
  <2>5. CASE CancelLocal(c) \/ CancelReload(c)
    BY <2>5 DEF CancelLocal, CancelReload, Finish, Goto
  <2>6. QED
    BY <1>4, <2>1, <2>2, <2>3, <2>4, <2>5 DEF Client, Continue
<1>5. CASE Down
  BY <1>5 DEF Down
<1>6. CASE Worker
  BY <1>3, <1>6 DEF Worker, Claim, ClaimNothing, Stop, Tick, Kick, Register,
     LoadPlan, PlanWeek, ReportProgress, PlanDone, HandleError, FailDraft,
     CheckCanceled, CheckContext, Enrich, StoreResult, Unwind
<1>7. CASE Process
  BY <1>3, <1>5, <1>7 DEF Process, Boot, Crash, BeginShutdown, ShutdownCancel, Exit
<1>8. QED
  BY <1>3, <1>4, <1>6, <1>7 DEF Next, vars

\* Every step keeps the worker's control point, draft and context in agreement.
LEMMA WorkerStep ==
  ASSUME IInv, [Next]_vars
  PROVE  WorkerConsistent'
<1>1. \A d \in Drafts : rows[d].status # "none" => rows'[d].status # "none"
  BY NextTable
<1>2. TypeOK /\ WorkerConsistent
  BY DEF IInv
<1> USE <1>1, <1>2 DEF TypeOK, WorkerConsistent
<1>3. CASE Claim
  BY <1>3 DEF Claim, IsOldest, Queued, Executing, Registered, Planning, serviceVars
<1>4. CASE ClaimNothing \/ Stop \/ Tick \/ Kick
  BY <1>4 DEF ClaimNothing, Stop, Tick, Kick, Executing, Registered, Planning,
     serviceVars
<1>5. CASE Register
  BY <1>5 DEF Register, Executing, Registered, Planning
<1>6. CASE LoadPlan \/ PlanWeek \/ ReportProgress \/ PlanDone
  BY <1>6 DEF LoadPlan, PlanWeek, ReportProgress, PlanDone, Executing,
     Registered, Planning, serviceVars
<1>7. CASE \/ HandleError \/ FailDraft \/ CheckCanceled \/ CheckContext
           \/ Enrich \/ StoreResult
  BY <1>7 DEF HandleError, FailDraft, CheckCanceled, CheckContext, Enrich,
     StoreResult, Executing, Registered, Planning, serviceVars
<1>8. CASE Unwind
  BY <1>8 DEF Unwind, Executing, Registered, Planning, NoDraft
<1>9. ASSUME NEW c \in Clients, Client(c)
      PROVE  WorkerConsistent'
  <2>1. CASE CancelLocal(c)
    BY <2>1 DEF CancelLocal, Executing, Registered
  <2>2. CASE UNCHANGED <<workerVars, cancels>>
    BY <2>2 DEF workerVars
  <2>3. QED
    BY <1>9, <2>1, <2>2 DEF Client, Continue, Submit, Signal, Cancel, CancelRead,
       CancelRequest, CancelReload, serviceVars
<1>10. CASE Boot
  BY <1>10 DEF Boot, IInv, DownIsEmpty, Executing, Registered, Planning, serviceVars
<1>11. CASE Crash \/ Exit
  BY <1>11 DEF Crash, Exit, Down, Executing, Registered, Planning
<1>12. CASE BeginShutdown \/ UNCHANGED vars
  BY <1>12 DEF BeginShutdown, vars, workerVars, serviceVars
<1>13. CASE ShutdownCancel
  BY <1>13, Zeros DEF ShutdownCancel
<1>14. QED
  BY <1>3, <1>4, <1>5, <1>6, <1>7, <1>8, <1>9, <1>10, <1>11, <1>12, <1>13
     DEF Next, Worker, Process

\* Nothing of the process is left when it is down.
LEMMA DownStep ==
  ASSUME IInv, [Next]_vars
  PROVE  DownIsEmpty'
<1>1. TypeOK /\ DownIsEmpty
  BY DEF IInv
<1> USE <1>1 DEF TypeOK, DownIsEmpty
<1>2. CASE Worker
  BY <1>2 DEF Worker, Claim, ClaimNothing, Stop, Tick, Kick, Register, LoadPlan,
     PlanWeek, ReportProgress, PlanDone, HandleError, FailDraft, CheckCanceled,
     CheckContext, Enrich, StoreResult, Unwind, serviceVars, clientVars, processVars
<1>3. ASSUME NEW c \in Clients, Client(c)
      PROVE  DownIsEmpty'
  <2>1. CASE up
    BY <1>3, <2>1 DEF Client, Continue, Submit, Signal, Cancel, CancelRead,
       CancelRequest, CancelLocal, CancelReload, processVars
  <2>2. CASE ~up
    BY <1>3, <2>2 DEF Client, Continue, Submit, Signal, Cancel, CancelRead,
       CancelRequest, CancelLocal, CancelReload, Finish, Goto
  <2>3. QED
    BY <2>1, <2>2
<1>4. CASE Process
  BY <1>4 DEF Process, Boot, Crash, BeginShutdown, ShutdownCancel, Exit, Down,
     processVars
<1>5. CASE UNCHANGED vars
  BY <1>5 DEF vars, workerVars, serviceVars, clientVars, processVars
<1>6. QED
  BY <1>2, <1>3, <1>4, <1>5 DEF Next

\* An interrupt by a cancel is only ever that of a draft that has ended.
LEMMA InterruptStep ==
  ASSUME IInv, [Next]_vars
  PROVE  InterruptedIsTerminal'
<1>1. \A d \in Drafts : IsTerminal(rows[d]) => IsTerminal(rows'[d])
  BY NextTable
<1>2. /\ TypeOK /\ WorkerConsistent /\ DownIsEmpty
      /\ CancelEffective /\ InterruptedIsTerminal
  BY DEF IInv
<1> USE <1>1, <1>2 DEF TypeOK, InterruptedIsTerminal, stopping
<1>3. CASE Claim \/ Unwind
  BY <1>3 DEF Claim, Unwind
<1>4. CASE UNCHANGED <<job, ctxDone, shut>>
  BY <1>4
<1>5. ASSUME NEW c \in Clients, CancelLocal(c)
      PROVE  InterruptedIsTerminal'
  <2>1. target[c] \in Drafts /\ IsTerminal(rows[target[c]])
    BY <1>5 DEF CancelLocal, Goto, CancelEffective
  <2>2. target[c] \in cancels => job = target[c]
    BY DEF WorkerConsistent
  <2>3. QED
    BY <1>5, <2>1, <2>2 DEF CancelLocal
<1>6. CASE Crash \/ Exit \/ BeginShutdown \/ ShutdownCancel
  BY <1>6 DEF Crash, Exit, Down, BeginShutdown, ShutdownCancel
<1>7. QED
  BY <1>3, <1>4, <1>5, <1>6 DEF Next, Worker, ClaimNothing, Stop, Tick, Kick,
     Register, LoadPlan, PlanWeek, ReportProgress, PlanDone, HandleError,
     FailDraft, CheckCanceled, CheckContext, Enrich, StoreResult, Client,
     Continue, Submit, Signal, Cancel, CancelRead, CancelRequest, CancelReload,
     Process, Boot, workerVars, serviceVars, vars

\* Every step preserves the invariant.
LEMMA NextIInv == IInv /\ [Next]_vars => IInv'
BY NextTable, TypeStep, TargetsStep, WorkerStep, DownStep, InterruptStep DEF IInv

-------------------------------------------------------------------------------
(* Theorems.                                                               *)

\* In every behaviour of the service the inductive invariant holds: types, the
\* meaning of every row, live targets, the worker's bookkeeping, an empty memory
\* when down, effective cancels, and no interrupt of an unfinished draft.
THEOREM Inductive == Spec => []IInv
<1>1. Init => IInv
  BY InitIInv
<1>2. IInv /\ [Next]_vars => IInv'
  BY NextIInv
<1>3. QED
  BY <1>1, <1>2, PTL DEF Spec

\* Type correctness.
THEOREM TypeCorrect == Spec => []TypeOK
BY Inductive, PTL DEF IInv

\* The columns of every row agree with its status, whatever calls fail: a
\* stored result is complete and belongs to a succeeded draft.
THEOREM RowsAlwaysConsistent == Spec => []RowsConsistent
BY Inductive, PTL DEF IInv

\* No step of anyone changes any column of a draft that has ended.
THEOREM TerminalRowsStay == Spec => TerminalImmutable
<1>1. IInv /\ [Next]_vars =>
        [\A d \in Drafts : IsTerminal(rows[d]) => rows'[d] = rows[d]]_vars
  <2>1. SUFFICES ASSUME IInv, [Next]_vars
                 PROVE  \A d \in Drafts : IsTerminal(rows[d]) => rows'[d] = rows[d]
    OBVIOUS
  <2>2. RowsStep /\ rows \in [Drafts -> Row]
    BY <2>1, NextRows DEF IInv, TypeOK
  <2>3. QED
    BY <2>2, RowsStepSound
<1>2. QED
  BY <1>1, Inductive, PTL DEF Spec, TerminalImmutable

\* A cancel that was asked for has ended its draft, and the planner is never
\* interrupted by a cancel before the end of its draft is stored.
THEOREM CancelSafe == Spec => [](CancelEffective /\ InterruptedIsTerminal)
BY Inductive, PTL DEF IInv

\* The planner is interrupted only for a draft whose end is already stored, or by
\* a shutdown.
THEOREM InterruptedOnlyIfEnded == Spec => []InterruptedIsTerminal
BY CancelSafe, PTL

-------------------------------------------------------------------------------
(* What a polling client sees.                                             *)

\* A quotient grows with its dividend.
LEMMA QuotientGrows ==
  ASSUME NEW b \in Nat \ {0}, NEW m \in Nat, NEW n \in Nat, m <= n
  PROVE  m \div b <= n \div b /\ m \div b \in Nat
<1> DEFINE p == m \div b
           q == n \div b
<1>1. /\ p \in Nat /\ m % b \in 0 .. b - 1 /\ m = b * p + (m % b)
      /\ q \in Nat /\ n % b \in 0 .. b - 1 /\ n = b * q + (n % b)
  OBVIOUS
<1> HIDE DEF p, q
<1>2. CASE q < p
  <2>1. b * (q + 1) <= b * p /\ b * (q + 1) = b * q + b
    BY <1>1, <1>2
  <2>2. QED
    BY <1>1, <2>1
<1>3. QED
  BY <1>1, <1>2 DEF p, q

\* What is reported of a week is no less than what was of the week before.
LEMMA ProgressGrows ==
  ASSUME NEW w \in Nat
  PROVE  ProgressOf(w) \in Nat /\ ProgressOf(w) <= ProgressOf(w + 1)
<1>1. /\ (w * 100) \div Weeks \in Nat /\ ((w + 1) * 100) \div Weeks \in Nat
      /\ (w * 100) \div Weeks <= ((w + 1) * 100) \div Weeks
  BY WeeksAssumption, QuotientGrows
<1>2. QED
  BY <1>1 DEF ProgressOf

\* No step takes a running draft beyond its weeks, and none takes progress back.
LEMMA ProgressStep ==
  ASSUME IInv, ProgressInv, [Next]_vars
  PROVE  ProgressInv' /\ \A d \in Drafts : rows[d].progress <= rows'[d].progress
<1> DEFINE Kept == \A d \in Drafts : rows[d].progress <= rows'[d].progress
<1>1. /\ TypeOK /\ RowsConsistent /\ WorkerConsistent
      /\ rows \in [Drafts -> Row] /\ rows' \in [Drafts -> Row]
  BY NextTable DEF IInv, TypeOK
<1>2. ASSUME UNCHANGED rows PROVE Kept /\ Running' = Running
  BY <1>1, <1>2 DEF Row, Running
<1>3. CASE Claim
  <2>1. PICK d \in Drafts : d \in Queued /\ ClaimRow(d) /\ job' = d /\ week' = 0
    BY <1>3 DEF Claim, IsOldest
  <2>2. \A e \in Drafts : rows'[e].progress = rows[e].progress
    BY <1>1, <2>1 DEF ClaimRow, Row
  <2>3. rows[d].progress = 0
    BY <1>1, <2>1 DEF RowsConsistent, RowMeaning, Queued
  <2>4. ProgressOf(0) \in Nat
    BY ProgressGrows
  <2>5. d \in Drafts /\ Kept
    BY <1>1, <2>1, <2>2 DEF Queued, Row
  <2>6. QED
    BY <2>1, <2>2, <2>3, <2>4, <2>5 DEF ProgressInv
<1>4. CASE Register \/ LoadPlan
  BY <1>2, <1>4 DEF Register, LoadPlan, ProgressInv, Planning
<1>5. CASE PlanWeek
  <2>1. week \in Nat /\ (job \in Running => rows[job].progress \in Nat)
    BY <1>1, WeeksAssumption DEF TypeOK, Running, Row
  <2>2. ProgressOf(week) \in Nat /\ ProgressOf(week + 1) \in Nat
        /\ ProgressOf(week) <= ProgressOf(week + 1)
    BY <2>1, ProgressGrows
  <2>3. wpc = "plan" /\ UNCHANGED <<rows, job>> /\ week' \in {week, week + 1}
    BY <1>5 DEF PlanWeek
  <2>4. QED
    BY <1>2, <2>1, <2>2, <2>3 DEF ProgressInv, Planning
<1>6. CASE ReportProgress
  <2>1. wpc = "progress" /\ UNCHANGED <<job, week>>
    BY <1>6 DEF ReportProgress
  <2>2. CASE UNCHANGED rows
    BY <1>2, <2>1, <2>2 DEF ProgressInv, Planning
  <2>3. CASE job \in Running /\ rows' = [rows EXCEPT ![job].progress = ProgressOf(week)]
    <3>1. job \in Drafts /\ rows[job].progress <= ProgressOf(week)
      BY <2>1, <2>3 DEF ProgressInv, Planning, Running
    <3>2. ProgressOf(week) \in Nat
      BY <1>1, WeeksAssumption, ProgressGrows DEF TypeOK
    <3>3. /\ rows'[job].progress = ProgressOf(week)
          /\ \A d \in Drafts : d # job => rows'[d] = rows[d]
      BY <1>1, <2>3, <3>1 DEF Row
    <3>4. QED
      BY <1>1, <2>1, <3>1, <3>2, <3>3 DEF ProgressInv, Row
  <2>4. QED
    BY <1>6, <2>2, <2>3 DEF ReportProgress, UpdateProgress
<1>7. CASE FailDraft \/ StoreResult
  <2>1. wpc' = "unwind"
    BY <1>7 DEF FailDraft, StoreResult
  <2>2. CASE Fail(job) \/ UNCHANGED rows
    BY <1>1, <2>1, <2>2 DEF Fail, ProgressInv, Planning, Row
  <2>3. CASE Succeed(job, week) /\ job \in Running
    <3> DEFINE s == [rows[job] EXCEPT !.status = "succeeded", !.result = week,
                                      !.progress = 100, !.reason = "", !.finished = TRUE]
    <3>1. job \in Drafts /\ rows' = [rows EXCEPT ![job] = s]
      <4>1. job \in Drafts
        BY <2>3 DEF Running
      <4>2. QED
        BY <1>1, <2>3, <4>1 DEF Succeed
    <3>2. s.progress = 100
      BY <1>1, <3>1 DEF Row
    <3> HIDE DEF s
    <3>3. \A d \in Drafts : rows'[d].progress \in {rows[d].progress, 100}
      BY <1>1, <3>1, <3>2
    <3>4. QED
      BY <1>1, <2>1, <3>3 DEF ProgressInv, Planning, Row
  <2>4. QED
    BY <1>7, <2>2, <2>3 DEF FailDraft, StoreResult, Succeed
<1>8. CASE \/ ClaimNothing \/ Stop \/ Tick \/ Kick \/ PlanDone \/ HandleError
           \/ CheckCanceled \/ CheckContext \/ Enrich \/ Unwind
           \/ Crash \/ Exit
  BY <1>2, <1>8 DEF ClaimNothing, Stop, Tick, Kick, PlanDone, HandleError, CheckCanceled,
     CheckContext, Enrich, Unwind, Crash, Exit, Down, ProgressInv, Planning
<1>9. CASE BeginShutdown \/ ShutdownCancel \/ UNCHANGED vars
  BY <1>2, <1>9 DEF BeginShutdown, ShutdownCancel, vars, workerVars, ProgressInv
<1>10. CASE Boot
  <2>1. wpc' = "claim"
    BY <1>10 DEF Boot
  <2>2. CASE RecoverInterrupted
    <3>1. \A d \in Drafts : rows'[d].progress = rows[d].progress
      BY <1>1, <2>2 DEF RecoverInterrupted, Row
    <3>2. QED
      BY <1>1, <2>1, <3>1 DEF ProgressInv, Planning, Row
  <2>3. QED
    BY <1>2, <1>10, <2>1, <2>2 DEF Boot, ProgressInv, Planning
<1>11. ASSUME NEW c \in Clients, Client(c)
       PROVE  ProgressInv' /\ Kept
  <2>1. UNCHANGED <<wpc, job, week>>
    BY <1>11 DEF Client, Continue, Submit, Signal, Cancel, CancelRead, CancelRequest,
       CancelLocal, CancelReload, workerVars
  <2>2. ASSUME \A d \in Drafts : /\ rows'[d].progress = rows[d].progress
                                 /\ rows'[d].status \in {rows[d].status, "queued", "canceled"}
        PROVE  ProgressInv' /\ Kept
    BY <1>1, <2>1, <2>2 DEF ProgressInv, Running, Row
  <2>3. CASE Submit(c)
    BY <1>1, <2>2, <2>3 DEF Submit, Row
  <2>4. CASE CancelRequest(c)
    BY <1>1, <2>2, <2>4 DEF CancelRequest, RequestCancel, Row
  <2>5. CASE UNCHANGED rows
    BY <2>2, <2>5
  <2>6. QED
    BY <1>11, <2>3, <2>4, <2>5 DEF Client, Continue, Signal, Cancel, CancelRead,
       CancelLocal, CancelReload
<1>12. QED
  BY <1>3, <1>4, <1>5, <1>6, <1>7, <1>8, <1>9, <1>10, <1>11 DEF Next, Worker, Process

\* A client that polls a draft never sees its progress go back, for every number of
\* weeks and whatever calls fail.
THEOREM ProgressOnlyGrows == Spec => ProgressNeverBack
<1>1. Init => ProgressInv
  BY DEF Init, ProgressInv, Planning
<1>2. IInv /\ ProgressInv /\ [Next]_vars => ProgressInv'
  BY ProgressStep
<1>3. IInv /\ ProgressInv /\ [Next]_vars =>
        [\A d \in Drafts : rows[d].progress <= rows'[d].progress]_vars
  BY ProgressStep
<1>4. QED
  BY <1>1, <1>2, <1>3, Inductive, PTL DEF Spec, ProgressNeverBack

\* A job comes to its end after at most 2 * Weeks + 8 steps of the worker, for any
\* number of weeks, whichever of its calls fail and whatever happens around it.
LEMMA JobStep ==
  ASSUME IInv, [Next]_vars, wpc \in Executing
  PROVE  \/ wpc' = wpc /\ StepsLeft' = StepsLeft /\ job' = job
         \/ StepsLeft' \in 0 .. StepsLeft - 1 /\ (job' = job \/ StepsLeft' = 0)
<1>1. week \in 0 .. Weeks /\ Weeks \in Nat
  BY WeeksAssumption DEF IInv, TypeOK
<1>2. ASSUME UNCHANGED <<wpc, job, week>>
      PROVE  wpc' = wpc /\ StepsLeft' = StepsLeft /\ job' = job
  BY <1>2 DEF StepsLeft
<1>3. CASE Register \/ LoadPlan
  BY <1>1, <1>3 DEF Register, LoadPlan, StepsLeft
<1>4. CASE PlanWeek \/ ReportProgress \/ PlanDone
  BY <1>1, <1>4 DEF PlanWeek, ReportProgress, PlanDone, StepsLeft
<1>5. CASE HandleError \/ FailDraft \/ CheckCanceled \/ CheckContext \/ Enrich \/ StoreResult
  BY <1>5 DEF HandleError, FailDraft, CheckCanceled, CheckContext, Enrich, StoreResult, StepsLeft
<1>6. CASE Unwind
  BY <1>6 DEF Unwind, StepsLeft
<1>7. CASE Crash \/ Exit
  <2>1. wpc' = "off"
    BY <1>7 DEF Crash, Exit, Down
  <2>2. StepsLeft' = 0
    BY <2>1 DEF StepsLeft
  <2>3. StepsLeft \in Nat \ {0}
    BY <1>1 DEF StepsLeft, Executing, Registered, Planning
  <2> QED
    BY <2>2, <2>3
<1>8. ~Boot
  <2>1. up
    BY DEF IInv, DownIsEmpty, Executing, Registered, Planning
  <2> QED
    BY <2>1 DEF Boot
<1>9. CASE BeginShutdown \/ ShutdownCancel \/ UNCHANGED vars
  BY <1>2, <1>9 DEF BeginShutdown, ShutdownCancel, vars, workerVars
<1>10. ASSUME NEW c \in Clients, Client(c)
       PROVE  UNCHANGED <<wpc, job, week>>
  BY <1>10 DEF Client, Continue, Submit, Signal, Cancel, CancelRead, CancelRequest,
     CancelLocal, CancelReload, workerVars
<1>11. ~(Claim \/ ClaimNothing \/ Stop \/ Tick \/ Kick)
  BY DEF Claim, ClaimNothing, Stop, Tick, Kick, Executing, Registered, Planning
<1> QED
  BY <1>2, <1>3, <1>4, <1>5, <1>6, <1>7, <1>8, <1>9, <1>10, <1>11 DEF Next, Worker, Process

\* No job keeps the queue waiting for ever: its steps run out, and only its own
\* steps and the end of the process end it.
THEOREM EveryJobRunsOut == Spec => JobRunsOut
<1>1. IInv /\ [Next]_vars =>
        [\/ wpc \notin Executing
         \/ wpc' = wpc /\ StepsLeft' = StepsLeft /\ job' = job
         \/ StepsLeft' \in 0 .. StepsLeft - 1 /\ (job' = job \/ StepsLeft' = 0)]_vars
  BY JobStep
<1> QED
  BY <1>1, Inductive, PTL DEF Spec, JobRunsOut

-------------------------------------------------------------------------------
(* The service implements the life cycle of the repository's interface.    *)

\* Every step is a step of the life cycle or leaves the table as it is.
LEMMA LifecycleStep ==
  ASSUME rows \in [Drafts -> Row], RowsStep
  PROVE  [Lifecycle!Next]_(Lifecycle!lifecycleVars)
<1> DEFINE st == [d \in Drafts |-> rows[d].status]
           re == [d \in Drafts |-> rows[d].result]
<1>1. CASE UNCHANGED rows
  BY <1>1 DEF Lifecycle!lifecycleVars
<1>2. CASE OneRow
  <2>1. PICK d \in Drafts : /\ RowStep(rows[d], rows'[d])
                            /\ rows' = [rows EXCEPT ![d] = rows'[d]]
    BY <1>2 DEF OneRow
  <2>2. /\ st' = [st EXCEPT ![d] = rows'[d].status]
        /\ re' = [re EXCEPT ![d] = rows'[d].result]
    BY <2>1
  <2>3. st[d] = rows[d].status /\ re[d] = rows[d].result /\ rows[d] \in Row
    OBVIOUS
  <2>4. rows'[d].result = rows[d].result => UNCHANGED re
    BY <2>2, <2>3
  <2>5. CASE Inserted(rows[d], rows'[d])
    <3>1. /\ rows'[d].status = "queued" /\ rows[d].status = "none"
          /\ rows'[d].result = rows[d].result
      BY <2>3, <2>5 DEF Inserted, Row
    <3>2. Lifecycle!Create(d)
      BY <2>2, <2>3, <2>4, <3>1 DEF Lifecycle!Create, Lifecycle!Move
    <3>3. QED
      BY <3>2 DEF Lifecycle!Next
  <2>6. CASE Claimed(rows[d], rows'[d])
    <3>1. /\ rows'[d].status = "running" /\ rows[d].status = "queued"
          /\ rows'[d].result = rows[d].result
      BY <2>3, <2>6 DEF Claimed, Row
    <3>2. Lifecycle!ClaimNext(d)
      BY <2>2, <2>3, <2>4, <3>1 DEF Lifecycle!ClaimNext, Lifecycle!Move
    <3>3. QED
      BY <3>2 DEF Lifecycle!Next
  <2>7. CASE Progressed(rows[d], rows'[d])
    <3>1. /\ rows'[d].status = rows[d].status
          /\ rows'[d].result = rows[d].result
      BY <2>3, <2>7 DEF Progressed, Row
    <3>2. UNCHANGED st /\ UNCHANGED re
      BY <2>2, <2>3, <2>4, <3>1
    <3>3. QED
      BY <3>2 DEF Lifecycle!lifecycleVars
  <2>8. CASE Succeeded(rows[d], rows'[d])
    <3>1. /\ rows'[d].status = "succeeded" /\ rows[d].status = "running"
          /\ rows'[d].result = Weeks
      BY <2>3, <2>8 DEF Succeeded, Row
    <3>2. Lifecycle!Succeed(d)
      BY <2>2, <2>3, <3>1 DEF Lifecycle!Succeed, Lifecycle!Move
    <3>3. QED
      BY <3>2 DEF Lifecycle!Next
  <2>9. CASE Failed(rows[d], rows'[d])
    <3>1. /\ rows'[d].status = "failed" /\ rows[d].status = "running"
          /\ rows'[d].result = rows[d].result
      BY <2>3, <2>9 DEF Failed, Row
    <3>2. Lifecycle!Fail(d)
      BY <2>2, <2>3, <2>4, <3>1 DEF Lifecycle!Fail, Lifecycle!Move
    <3>3. QED
      BY <3>2 DEF Lifecycle!Next
  <2>10. CASE Canceled(rows[d], rows'[d])
    <3>1. /\ rows'[d].status = "canceled"
          /\ rows[d].status \in {"queued", "running"}
          /\ rows'[d].result = rows[d].result
      BY <2>3, <2>10 DEF Canceled, Row
    <3>2. Lifecycle!RequestCancel(d)
      BY <2>2, <2>3, <2>4, <3>1 DEF Lifecycle!RequestCancel, Lifecycle!Move
    <3>3. QED
      BY <3>2 DEF Lifecycle!Next
  <2>11. QED
    BY <2>1, <2>5, <2>6, <2>7, <2>8, <2>9, <2>10 DEF RowStep
<1>3. CASE RecoverInterrupted
  <2>1. \A d \in Drafts :
          /\ rows'[d].status = IF rows[d].status = "running"
                               THEN "failed" ELSE rows[d].status
          /\ rows'[d].result = rows[d].result
    BY <1>3 DEF RecoverInterrupted, Running, Row
  <2>2. st' = [d \in Drafts |-> IF st[d] = "running" THEN "failed" ELSE st[d]]
    BY <2>1
  <2>3. re' = re
    BY <2>1
  <2>4. QED
    BY <2>2, <2>3 DEF Lifecycle!Next, Lifecycle!RecoverInterrupted
<1>4. QED
  BY <1>1, <1>2, <1>3 DEF RowsStep

\* The service, with its worker, handlers, crashes and failing calls, implements
\* the life cycle that the repository interface and the README promise.
THEOREM ServiceImplementsLifecycle == Spec => ImplementsLifecycle
<1>1. Init => Lifecycle!Init
  <2>1. SUFFICES ASSUME Init PROVE Lifecycle!Init
    OBVIOUS
  <2>2. \A d \in Drafts : rows[d].status = "none" /\ rows[d].result = 0
    BY <2>1 DEF Init, EmptyRow
  <2>3. QED
    BY <2>2 DEF Lifecycle!Init
<1>2. IInv /\ [Next]_vars => [Lifecycle!Next]_(Lifecycle!lifecycleVars)
  BY NextRows, LifecycleStep DEF IInv, TypeOK
<1>3. QED
  BY <1>1, <1>2, Inductive, PTL DEF Spec, ImplementsLifecycle, Lifecycle!Spec

-------------------------------------------------------------------------------
(* Who owns a running draft.                                               *)

\* Every step keeps a running draft with the worker, or knows its end as lost.
LEMMA OwnedStep ==
  ASSUME IInv, OwnedInv, [Next]_vars
  PROVE  OwnedInv'
<1>1. /\ TypeOK /\ WorkerConsistent /\ DownIsEmpty /\ InterruptedIsTerminal
      /\ RunningIsOwned
  BY DEF IInv, OwnedInv
<1>2. rows \in [Drafts -> Row] /\ rows' \in [Drafts -> Row]
  BY <1>1, NextTable DEF TypeOK
<1>3. \A d \in Drafts : d \in Running <=> rows[d].status = "running"
  BY DEF Running
<1>4. \A d \in Drafts : d \in Running' <=> rows'[d].status = "running"
  BY DEF Running
<1>5. Running \subseteq Drafts /\ Running' \subseteq Drafts
  BY DEF Running
<1> USE <1>1 DEF OwnedInv, RunningIsOwned, stopping
<1>6. CASE Claim
  <2>1. PICK d \in Drafts : ClaimRow(d) /\ job' = d /\ d \in Queued
    BY <1>6 DEF Claim, IsOldest
  <2>2. Running' \subseteq Running \cup {d}
    BY <1>2, <1>3, <1>4, <1>5, <2>1 DEF ClaimRow
  <2>3. QED
    BY <1>6, <2>1, <2>2 DEF Claim, Executing, Registered, serviceVars, processVars,
       Planning
<1>7. CASE FailDraft \/ StoreResult
  <2>1. job \in Drafts /\ wpc \in Executing
    BY <1>7 DEF FailDraft, StoreResult, WorkerConsistent, Executing, Registered
  <2>2. Running' \ lost' \subseteq (Running \ lost) \ {job}
    <3>w. Running' \subseteq Running \ {job} /\ lost' = lost
            => Running' \ lost' \subseteq (Running \ lost) \ {job}
      OBVIOUS
    <3>1. ASSUME Fail(job)
          PROVE  Running' \subseteq Running \ {job}
      BY <1>2, <1>3, <1>4, <1>5, <2>1, <3>1 DEF Fail
    <3>2. ASSUME Succeed(job, week)
          PROVE  Running' \subseteq Running \ {job}
      <4>1. \A d \in Drafts : d # job => rows'[d].status = rows[d].status
        BY <1>2, <3>2 DEF Succeed
      <4>2. rows'[job].status # "running"
        <5>1. CASE job \in Running
          <6> DEFINE s == [rows[job] EXCEPT
                !.status = "succeeded", !.result = week, !.progress = 100,
                !.reason = "", !.finished = TRUE]
          <6>1. rows' = [rows EXCEPT ![job] = s]
            BY <1>2, <2>1, <3>2, <5>1 DEF Succeed
          <6>2. s.status = "succeeded"
            BY <1>2, <2>1 DEF Row
          <6>3. rows'[job] = s
            BY <1>2, <2>1, <6>1
          <6>4. QED
            BY <6>2, <6>3
        <5>2. CASE job \notin Running
          BY <1>3, <2>1, <3>2, <5>2 DEF Succeed
        <5>3. QED
          BY <5>1, <5>2
      <4>3. QED
        BY <1>3, <1>4, <1>5, <4>1, <4>2
    <3>3. CASE lost' = lost \cup {job} /\ UNCHANGED rows
      BY <3>3 DEF Running
    <3>4. QED
      BY <1>7, <3>w, <3>1, <3>2, <3>3 DEF FailDraft, StoreResult
  <2>3. QED
    BY <1>7, <2>1, <2>2 DEF FailDraft, StoreResult, Executing, Registered,
       serviceVars
<1>8. CASE ReportProgress
  <2>1. Running' = Running
    <3>1. \A d \in Drafts : rows'[d].status = rows[d].status
      <4>1. CASE UNCHANGED rows
        BY <4>1
      <4>2. CASE rows' = [rows EXCEPT ![job].progress = ProgressOf(week)]
        BY <1>2, <4>2 DEF Row
      <4>3. QED
        BY <1>8, <4>1, <4>2 DEF ReportProgress, UpdateProgress
    <3>2. QED
      BY <1>3, <1>4, <1>5, <3>1
  <2>2. QED
    BY <1>8, <2>1 DEF ReportProgress, Executing, Registered, Planning, serviceVars,
       processVars
<1>9. CASE \/ ClaimNothing \/ Stop \/ Tick \/ Kick \/ Register \/ LoadPlan
           \/ PlanWeek \/ PlanDone \/ Enrich
  BY <1>9 DEF ClaimNothing, Stop, Tick, Kick, Register, LoadPlan, PlanWeek,
     PlanDone, Enrich, Running, Executing, Registered, Planning, serviceVars,
     processVars
<1>10. CASE HandleError \/ CheckCanceled \/ CheckContext
  <2>1. job \in Drafts /\ wpc \in Executing
    BY <1>10 DEF HandleError, CheckCanceled, CheckContext, WorkerConsistent,
       Executing, Registered
  <2>2. Running' = Running /\ UNCHANGED <<job, shut, up, lost>>
    BY <1>10 DEF HandleError, CheckCanceled, CheckContext, Running, serviceVars,
       processVars
  <2>3. ctxDone /\ shut = "no" => job \notin Running
    BY <1>3 DEF InterruptedIsTerminal, IsTerminal, Terminal
  <2>4. IsCanceled(job) => job \notin Running
    BY <1>3, <2>1 DEF IsCanceled
  <2>5. QED
    BY <1>10, <2>1, <2>2, <2>3, <2>4 DEF HandleError, CheckCanceled, CheckContext,
       Executing, Registered
<1>11. CASE Unwind
  <2>1. Running' = Running /\ UNCHANGED <<shut, up, lost>>
    BY <1>11 DEF Unwind, Running, processVars
  <2>2. QED
    BY <1>11, <2>1 DEF Unwind, Executing, Registered, Planning
<1>12. ASSUME NEW c \in Clients, Client(c)
       PROVE  OwnedInv'
  <2>1. UNCHANGED <<wpc, job, shut, up, lost>>
    BY <1>12 DEF Client, Continue, Submit, Signal, Cancel, CancelRead,
       CancelRequest, CancelLocal, CancelReload, workerVars, serviceVars, processVars
  <2>2. Running' \subseteq Running
    <3>1. CASE Submit(c)
      BY <1>2, <1>3, <1>4, <1>5, <3>1 DEF Submit
    <3>2. CASE CancelRequest(c)
      <4>1. \A d \in Drafts : rows'[d].status \in {rows[d].status, "canceled"}
        BY <1>2, <3>2 DEF CancelRequest, RequestCancel, Row
      <4>2. QED
        BY <1>3, <1>4, <1>5, <4>1
    <3>3. CASE UNCHANGED rows
      BY <3>3 DEF Running
    <3>4. QED
      BY <1>12, <3>1, <3>2, <3>3 DEF Client, Continue, Signal, Cancel, CancelRead,
         CancelLocal, CancelReload
  <2>3. QED
    BY <2>1, <2>2
<1>13. CASE Boot
  <2>1. wpc' = "claim"
    BY <1>13 DEF Boot
  <2>2. CASE RecoverInterrupted
    <3>1. \A d \in Drafts : rows'[d].status # "running"
      BY <1>2, <1>3, <2>2 DEF RecoverInterrupted, Row
    <3>2. QED
      BY <1>4, <1>5, <2>1, <3>1
  <2>3. CASE lost' = Running /\ UNCHANGED rows
    BY <2>1, <2>3 DEF Running
  <2>4. QED
    BY <1>13, <2>2, <2>3 DEF Boot
<1>14. CASE Crash \/ Exit
  BY <1>14 DEF Crash, Exit, Down
<1>15. CASE BeginShutdown \/ ShutdownCancel
  BY <1>15 DEF BeginShutdown, ShutdownCancel
<1>16. CASE UNCHANGED vars
  BY <1>16 DEF vars, workerVars, serviceVars, processVars, Running
<1>17. QED
  BY <1>6, <1>7, <1>8, <1>9, <1>10, <1>11, <1>12, <1>13, <1>14, <1>15, <1>16
     DEF Next, Worker, Process

\* Whatever calls fail, a running row is the one draft the worker executes, or one
\* whose end could not be written since the last recovery: drafts run one at a
\* time and none is abandoned while serving.
THEOREM RunningAlwaysOwned == Spec => []RunningIsOwned
<1>1. Init => OwnedInv
  BY DEF Init, OwnedInv, RunningIsOwned
<1>2. IInv /\ OwnedInv /\ [Next]_vars => OwnedInv'
  BY OwnedStep
<1>3. OwnedInv => RunningIsOwned
  BY DEF OwnedInv
<1>4. QED
  BY <1>1, <1>2, <1>3, Inductive, PTL DEF Spec

-------------------------------------------------------------------------------
(* What holds when claiming does not fail.                                 *)

\* The wakeup of a queued draft survives every step.
LEMMA WakeupStep ==
  ASSUME "claim" \notin Faults, TypeOK, NoLostWakeup, [Next]_vars
  PROVE  NoLostWakeup'
<1> DEFINE sender == \E c \in Clients : cpc[c] = "signal"
<1>1. ASSUME UNCHANGED rows PROVE Queued' = Queued
  BY <1>1 DEF Queued
<1>2. CASE wpc' # "wait"
  BY <1>2 DEF NoLostWakeup
<1>3. CASE ClaimNothing
  BY <1>1, <1>3 DEF ClaimNothing, NoLostWakeup
<1>4. ASSUME NEW c \in Clients, Client(c)
      PROVE  NoLostWakeup'
  <2>1. CASE Submit(c)
    BY <2>1 DEF Submit, Goto, TypeOK, NoLostWakeup
  <2>2. CASE Signal(c)
    BY <2>2 DEF Signal, NoLostWakeup
  <2>3. CASE Cancel(c) \/ CancelRead(c) \/ CancelRequest(c) \/ CancelLocal(c)
             \/ CancelReload(c)
    <3>1. /\ UNCHANGED <<wpc, kick>>
          /\ \A k \in Clients : cpc[k] = "signal" => cpc'[k] = "signal"
      BY <2>3 DEF Cancel, CancelRead, CancelRequest, CancelLocal, CancelReload,
         Finish, Goto, TypeOK, workerVars, serviceVars
    <3>2. Queued' \subseteq Queued
      <4>1. CASE UNCHANGED rows
        BY <4>1, <1>1
      <4>2. CASE RequestCancel(target[c])
        BY <4>2 DEF RequestCancel, Queued, Running, TypeOK, Row
      <4>3. QED
        BY <2>3, <4>1, <4>2 DEF Cancel, CancelRead, CancelRequest, CancelLocal,
           CancelReload
    <3>3. QED
      BY <3>1, <3>2 DEF NoLostWakeup
  <2>4. QED
    BY <1>4, <2>1, <2>2, <2>3 DEF Client, Continue
<1>5. CASE BeginShutdown \/ ShutdownCancel
  BY <1>1, <1>5 DEF BeginShutdown, ShutdownCancel, workerVars, clientVars,
     NoLostWakeup
<1>6. CASE UNCHANGED vars
  BY <1>1, <1>6 DEF vars, workerVars, serviceVars, clientVars, NoLostWakeup
<1>7. CASE Worker /\ ~ClaimNothing
  BY <1>2, <1>7 DEF Worker, Claim, Stop, Tick, Kick, Register, LoadPlan, PlanWeek,
     ReportProgress, PlanDone, HandleError, FailDraft, CheckCanceled, CheckContext,
     Enrich, StoreResult, Unwind
<1>8. CASE Boot \/ Crash \/ Exit
  BY <1>2, <1>8 DEF Boot, Crash, Exit, Down
<1>9. QED
  BY <1>3, <1>4, <1>5, <1>6, <1>7, <1>8 DEF Next, Process

\* When claiming does not fail, a queued draft never depends on the poll timer:
\* the buffered kick, or a submitter about to send it, is there for the worker.
THEOREM WakeupNeverLost == "claim" \notin Faults /\ Spec => []NoLostWakeup
<1>1. Init => NoLostWakeup
  BY DEF Init, NoLostWakeup
<1>2. SUFFICES ASSUME "claim" \notin Faults PROVE Spec => []NoLostWakeup
  OBVIOUS
<1>3. TypeOK /\ NoLostWakeup /\ [Next]_vars => NoLostWakeup'
  BY <1>2, WakeupStep
<1>4. QED
  BY <1>1, <1>3, TypeCorrect, PTL DEF Spec

===============================================================================
