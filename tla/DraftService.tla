----------------------------- MODULE DraftService -----------------------------
(***************************************************************************)
(* The asynchronous draft service: HTTP handlers that submit and cancel    *)
(* drafts, the one background worker that claims and executes them, the    *)
(* schedule_drafts table they share, and the life of the process around    *)
(* them (boot with recovery, graceful shutdown, crash).                    *)
(*                                                                         *)
(* One action per repository call or critical section, in the order of the *)
(* code; a draft's plan is a count of finished weeks.  Left out: the text  *)
(* of steps, conflicts and reasons, and the decoding of params, which the  *)
(* service encoded itself.                                                 *)
(***************************************************************************)
EXTENDS Naturals, FiniteSets

CONSTANTS
  MaxDrafts,  \* bound: rows ever inserted
  Clients,    \* concurrent HTTP requests
  Weeks,      \* weeks asked for (TotalSteps)
  Stamps,     \* created_at values: read from the clock before the insert
  MaxBoots,   \* bound: starts of the process
  Faults      \* the calls of the worker and of Start that may fail

FaultPoints ==
  {"claim", "progress", "fail", "check", "enrich", "succeed", "recover"}

ASSUME DraftsAssumption == MaxDrafts \in Nat
ASSUME WeeksAssumption == Weeks \in Nat \ {0}
ASSUME StampsAssumption == Stamps \subseteq Nat /\ Stamps # {}
ASSUME BootsAssumption == MaxBoots \in Nat
ASSUME FaultsAssumption == Faults \subseteq FaultPoints

VARIABLES
  \* the database
  rows,
  \* the worker goroutine
  wpc, job, week, ctxDone, persisted,
  \* scheduleDraftService
  cancels, kick, shut, snap,
  \* the handlers
  cpc, target,
  \* the process
  up, boots,
  \* auxiliary: the running drafts left behind by a write that failed
  lost

workerVars  == <<wpc, job, week, ctxDone, persisted>>
serviceVars == <<cancels, kick, shut, snap>>
clientVars  == <<cpc, target>>
processVars == <<up, boots, lost>>
vars == <<rows, workerVars, serviceVars, clientVars, processVars>>

Drafts  == 1 .. MaxDrafts
NoDraft == 0

Terminal == {"succeeded", "failed", "canceled"}
Statuses == {"none", "queued", "running"} \cup Terminal
Reasons  == {"", "generation", "restart"}

\* A row; result counts the weeks of the stored timetable, 0 when none is.
Row == [status : Statuses, created : Nat, progress : 0 .. 100,
        result : 0 .. Weeks, reason : Reasons,
        started : BOOLEAN, finished : BOOLEAN]

EmptyRow == [status |-> "none", created |-> 0, progress |-> 0, result |-> 0,
             reason |-> "", started |-> FALSE, finished |-> FALSE]

IsTerminal(r) == r.status \in Terminal
Queued  == {d \in Drafts : rows[d].status = "queued"}
Running == {d \in Drafts : rows[d].status = "running"}

\* Where the planner's own code runs.
Planning == {"load", "plan", "progress"}
\* Where execute() is between its first line and its deferred calls.
Registered == Planning \cup {"error", "fail", "check", "ctx", "enrich",
                             "succeed", "unwind"}
Executing == {"register"} \cup Registered
WorkerPoints == {"off", "claim", "wait"} \cup Executing
ClientPoints == {"idle", "signal", "read", "request", "local", "reload"}

stopping == shut # "no"

Init ==
  /\ rows = [d \in Drafts |-> EmptyRow]
  /\ wpc = "off" /\ job = NoDraft /\ week = 0
  /\ ctxDone = FALSE /\ persisted = FALSE
  /\ cancels = {} /\ kick = FALSE /\ shut = "no" /\ snap = {}
  /\ cpc = [c \in Clients |-> "idle"]
  /\ target = [c \in Clients |-> NoDraft]
  /\ up = FALSE /\ boots = 0 /\ lost = {}

-------------------------------------------------------------------------------
(* The repository.  Every update is one conditional SQL statement: the     *)
(* status it expects is in its WHERE clause, and it reports the rows hit.  *)

\* Find the oldest queued row: ORDER BY created_at, id LIMIT 1.
IsOldest(d) ==
  /\ d \in Queued
  /\ \A e \in Queued : \/ rows[d].created < rows[e].created
                       \/ rows[d].created = rows[e].created /\ d <= e

ClaimRow(d) ==
  rows' = [rows EXCEPT ![d].status = "running", ![d].started = TRUE]

UpdateProgress(d, p) ==
  rows' = IF d \in Running THEN [rows EXCEPT ![d].progress = p] ELSE rows

Succeed(d, w) ==
  rows' = IF d \in Running
          THEN [rows EXCEPT ![d].status = "succeeded", ![d].result = w,
                            ![d].progress = 100, ![d].reason = "",
                            ![d].finished = TRUE]
          ELSE rows

\* Mutant: the WHERE clause forgets the status.
FailAnyway(d) ==
  rows' = [rows EXCEPT ![d].status = "failed", ![d].reason = "generation",
                       ![d].finished = TRUE]

Fail(d) ==
  rows' = IF d \in Running
          THEN [rows EXCEPT ![d].status = "failed", ![d].reason = "generation",
                            ![d].finished = TRUE]
          ELSE rows

RequestCancel(d) ==
  rows' = IF d \in Queued \cup Running
          THEN [rows EXCEPT ![d].status = "canceled", ![d].finished = TRUE]
          ELSE rows

IsCanceled(d) == rows[d].status = "canceled"

\* Mutant: interrupted drafts are put back into the queue.
RequeueInterrupted ==
  rows' = [d \in Drafts |->
             IF d \in Running
             THEN [rows[d] EXCEPT !.status = "queued", !.started = FALSE,
                                  !.progress = 0]
             ELSE rows[d]]

\* Mutant: the statement selects the waiting drafts, not the interrupted ones.
RecoverQueued ==
  rows' = [d \in Drafts |->
             IF d \in Queued
             THEN [rows[d] EXCEPT !.status = "failed", !.reason = "restart",
                                  !.finished = TRUE]
             ELSE rows[d]]

RecoverInterrupted ==
  rows' = [d \in Drafts |->
             IF d \in Running
             THEN [rows[d] EXCEPT !.status = "failed", !.reason = "restart",
                                  !.finished = TRUE]
             ELSE rows[d]]

-------------------------------------------------------------------------------
(* workerLoop: claim and execute until nothing is queued, then select.     *)

Claim ==
  /\ wpc = "claim"
  /\ \E d \in Drafts :
       /\ IsOldest(d)
       /\ ClaimRow(d)
       /\ job' = d
  /\ wpc' = "register"
  /\ week' = 0 /\ ctxDone' = FALSE /\ persisted' = FALSE
  /\ UNCHANGED <<serviceVars, clientVars, processVars>>

\* ClaimNext finds nothing, or fails and is logged.
ClaimNothing ==
  /\ wpc = "claim"
  /\ Queued = {} \/ "claim" \in Faults
  /\ wpc' = "wait"
  /\ UNCHANGED <<rows, job, week, ctxDone, persisted, serviceVars, clientVars,
                 processVars>>

\* The three cases of the select; a closed channel is always ready.
Stop ==
  /\ wpc = "wait" /\ stopping
  /\ wpc' = "off"
  /\ UNCHANGED <<rows, job, week, ctxDone, persisted, serviceVars, clientVars,
                 processVars>>

Tick ==
  /\ wpc = "wait"
  /\ wpc' = "claim"
  /\ UNCHANGED <<rows, job, week, ctxDone, persisted, serviceVars, clientVars,
                 processVars>>

Kick ==
  /\ wpc = "wait" /\ kick
  /\ kick' = FALSE
  /\ wpc' = "claim"
  /\ UNCHANGED <<rows, job, week, ctxDone, persisted, cancels, shut, snap,
                 clientVars, processVars>>

-------------------------------------------------------------------------------
(* execute: one draft from its claim to the deferred calls.                *)

Register ==
  /\ wpc = "register"
  /\ cancels' = cancels \cup {job}
  /\ wpc' = "load"
  /\ UNCHANGED <<rows, job, week, ctxDone, persisted, kick, shut, snap,
                 clientVars, processVars>>

\* buildPlan's reads and validation: any of them may refuse the request.
LoadPlan ==
  /\ wpc = "load"
  /\ wpc' \in IF ctxDone THEN {"error"} ELSE {"plan", "error"}
  /\ UNCHANGED <<rows, job, week, ctxDone, persisted, serviceVars, clientVars,
                 processVars>>

\* One turn of the loop over the weeks, up to its progress callback.
PlanWeek ==
  /\ wpc = "plan" /\ week < Weeks
  /\ IF ctxDone
     THEN wpc' = "error" /\ UNCHANGED week
     ELSE wpc' = "progress" /\ week' = week + 1
  /\ UNCHANGED <<rows, job, ctxDone, persisted, serviceVars, clientVars,
                 processVars>>

\* Mutant: the share of the weeks that are left.
ProgressRemaining(w) == ((Weeks - w) * 100) \div Weeks

\* Mutant: no cap.
ProgressUncapped(w) == (w * 100) \div Weeks

ProgressOf(w) == LET p == (w * 100) \div Weeks IN IF p > 99 THEN 99 ELSE p

\* The first callback is always stored, a later one at most once a second.
ReportProgress ==
  /\ wpc = "progress"
  /\ \/ UpdateProgress(job, ProgressOf(week)) /\ persisted' = TRUE
     \/ persisted /\ UNCHANGED <<rows, persisted>>
     \/ "progress" \in Faults /\ persisted' = TRUE /\ UNCHANGED rows
  /\ wpc' = "plan"
  /\ UNCHANGED <<job, week, ctxDone, serviceVars, clientVars, processVars>>

PlanDone ==
  /\ wpc = "plan" /\ week = Weeks
  /\ wpc' = "check"
  /\ UNCHANGED <<rows, job, week, ctxDone, persisted, serviceVars, clientVars,
                 processVars>>

\* Mutant: every error returns without failDraft.
HandleErrorSilently ==
  /\ wpc = "error"
  /\ wpc' = "unwind"
  /\ UNCHANGED <<rows, job, week, ctxDone, persisted, serviceVars, clientVars,
                 processVars>>

\* Mutant: a plan that failed is tried again.
HandleErrorAgain ==
  /\ wpc = "error"
  /\ wpc' = IF ctxDone THEN "unwind" ELSE "load"
  /\ UNCHANGED <<rows, job, week, ctxDone, persisted, serviceVars, clientVars,
                 processVars>>

\* BuildDraft failed; isCancellation looks at the job's context.
HandleError ==
  /\ wpc = "error"
  /\ wpc' = IF ctxDone THEN "unwind" ELSE "fail"
  /\ UNCHANGED <<rows, job, week, ctxDone, persisted, serviceVars, clientVars,
                 processVars>>

\* failDraft: a conflict or an error of the write is dropped.
FailDraft ==
  /\ wpc = "fail"
  /\ \/ Fail(job) /\ UNCHANGED lost
     \/ "fail" \in Faults /\ lost' = lost \cup {job} /\ UNCHANGED rows
  /\ wpc' = "unwind"
  /\ UNCHANGED <<job, week, ctxDone, persisted, serviceVars, clientVars, up, boots>>

CheckCanceled ==
  /\ wpc = "check"
  /\ \/ wpc' = IF IsCanceled(job) THEN "unwind" ELSE "ctx"
     \/ "check" \in Faults /\ wpc' = "fail"
  /\ UNCHANGED <<rows, job, week, ctxDone, persisted, serviceVars, clientVars,
                 processVars>>

CheckContext ==
  /\ wpc = "ctx"
  /\ wpc' = IF ctxDone THEN "unwind" ELSE "enrich"
  /\ UNCHANGED <<rows, job, week, ctxDone, persisted, serviceVars, clientVars,
                 processVars>>

Enrich ==
  /\ wpc = "enrich"
  /\ \/ wpc' = "succeed"
     \/ "enrich" \in Faults /\ wpc' = "fail"
  /\ UNCHANGED <<rows, job, week, ctxDone, persisted, serviceVars, clientVars,
                 processVars>>

StoreResult ==
  /\ wpc = "succeed"
  /\ \/ Succeed(job, week) /\ UNCHANGED lost
     \/ "succeed" \in Faults /\ lost' = lost \cup {job} /\ UNCHANGED rows
  /\ wpc' = "unwind"
  /\ UNCHANGED <<job, week, ctxDone, persisted, serviceVars, clientVars, up, boots>>

\* Mutant: no continue after execute, the loop falls into its select.
UnwindToSelect ==
  /\ wpc = "unwind"
  /\ cancels' = cancels \ {job}
  /\ wpc' = "wait" /\ job' = NoDraft /\ week' = 0
  /\ ctxDone' = FALSE /\ persisted' = FALSE
  /\ UNCHANGED <<rows, kick, shut, snap, clientVars, processVars>>

\* Mutant: the deferred calls leave the cancel func in the map.
UnwindRegistered ==
  /\ wpc = "unwind"
  /\ wpc' = "claim" /\ job' = NoDraft /\ week' = 0
  /\ ctxDone' = FALSE /\ persisted' = FALSE
  /\ UNCHANGED <<rows, serviceVars, clientVars, processVars>>

\* Mutant: Shutdown keeps the mutex while it waits, and the deferred calls need it.
UnwindLocked ==
  /\ wpc = "unwind" /\ ~stopping
  /\ cancels' = cancels \ {job}
  /\ wpc' = "claim" /\ job' = NoDraft /\ week' = 0
  /\ ctxDone' = FALSE /\ persisted' = FALSE
  /\ UNCHANGED <<rows, kick, shut, snap, clientVars, processVars>>

\* The deferred calls; the loop claims again at once.
Unwind ==
  /\ wpc = "unwind"
  /\ cancels' = cancels \ {job}
  /\ wpc' = "claim" /\ job' = NoDraft /\ week' = 0
  /\ ctxDone' = FALSE /\ persisted' = FALSE
  /\ UNCHANGED <<rows, kick, shut, snap, clientVars, processVars>>

Worker ==
  \/ Claim \/ ClaimNothing \/ Stop \/ Tick \/ Kick
  \/ Register \/ LoadPlan \/ PlanWeek \/ ReportProgress \/ PlanDone
  \/ HandleError \/ FailDraft \/ CheckCanceled \/ CheckContext
  \/ Enrich \/ StoreResult \/ Unwind

-------------------------------------------------------------------------------
(* The handlers.  A request may be dropped at any of its database calls:   *)
(* the call fails, and the handler returns the error.                      *)

Goto(c, from, to) == cpc[c] = from /\ cpc' = [cpc EXCEPT ![c] = to]

\* Submit: the id is the next of the table, the stamp the clock's.
Submit(c) ==
  /\ up
  /\ Goto(c, "idle", "signal")
  /\ \E d \in Drafts, t \in Stamps :
       /\ rows[d].status = "none"
       /\ \A e \in Drafts : e < d => rows[e].status # "none"
       /\ rows' = [rows EXCEPT ![d].status = "queued", ![d].created = t]
  /\ UNCHANGED <<workerVars, serviceVars, target, processVars>>

\* signal: a send on the buffered channel, dropped when one is pending.
Signal(c) ==
  /\ Goto(c, "signal", "idle")
  /\ kick' = TRUE
  /\ UNCHANGED <<rows, workerVars, cancels, shut, snap, target, processVars>>

\* Cancel(id): the target must exist.
Cancel(c) ==
  /\ up
  /\ Goto(c, "idle", "read")
  /\ \E d \in Drafts : rows[d].status # "none" /\ target' = [target EXCEPT ![c] = d]
  /\ UNCHANGED <<rows, workerVars, serviceVars, processVars>>

Finish(c, from) == Goto(c, from, "idle") /\ target' = [target EXCEPT ![c] = NoDraft]

\* A terminal draft is reported back unchanged; a failed read ends as well.
CancelRead(c) ==
  /\ \/ Goto(c, "read", "request") /\ ~IsTerminal(rows[target[c]]) /\ UNCHANGED target
     \/ Finish(c, "read")
  /\ UNCHANGED <<rows, workerVars, serviceVars, processVars>>

\* Mutant: the handler goes on after a failed update.
CancelRequestUnchecked(c) ==
  /\ Goto(c, "request", "local")
  /\ RequestCancel(target[c]) \/ UNCHANGED rows
  /\ UNCHANGED <<target, workerVars, serviceVars, processVars>>

CancelRequest(c) ==
  /\ \/ Goto(c, "request", "local") /\ RequestCancel(target[c]) /\ UNCHANGED target
     \/ Finish(c, "request") /\ UNCHANGED rows
  /\ UNCHANGED <<workerVars, serviceVars, processVars>>

\* Mutant: the map is not keyed by draft, any running job is canceled.
CancelLocalAnyJob(c) ==
  /\ Goto(c, "local", "reload")
  /\ cancels' = {}
  /\ ctxDone' = (ctxDone \/ cancels # {})
  /\ UNCHANGED <<rows, wpc, job, week, persisted, kick, shut, snap, target,
                 processVars>>

\* cancelLocal: whoever takes the entry out of the map calls it.
CancelLocal(c) ==
  /\ Goto(c, "local", "reload")
  /\ cancels' = cancels \ {target[c]}
  /\ ctxDone' = (ctxDone \/ target[c] \in cancels)
  /\ UNCHANGED <<rows, wpc, job, week, persisted, kick, shut, snap, target,
                 processVars>>

CancelReload(c) ==
  /\ Finish(c, "reload")
  /\ UNCHANGED <<rows, workerVars, serviceVars, processVars>>

Continue(c) ==
  \/ Signal(c) \/ CancelRead(c) \/ CancelRequest(c)
  \/ CancelLocal(c) \/ CancelReload(c)

Client(c) == Submit(c) \/ Cancel(c) \/ Continue(c)

-------------------------------------------------------------------------------
(* The process.                                                            *)

\* main: Start recovers the table (a failure is logged) and starts the worker.
Boot ==
  /\ ~up /\ boots < MaxBoots
  /\ up' = TRUE /\ boots' = boots + 1
  /\ \/ RecoverInterrupted /\ lost' = {}
     \/ "recover" \in Faults /\ lost' = Running /\ UNCHANGED rows
  /\ wpc' = "claim"
  /\ UNCHANGED <<job, week, ctxDone, persisted, serviceVars, clientVars>>

\* What the process held in memory is gone; the table stays.
Down ==
  /\ up' = FALSE
  /\ wpc' = "off" /\ job' = NoDraft /\ week' = 0
  /\ ctxDone' = FALSE /\ persisted' = FALSE
  /\ cancels' = {} /\ kick' = FALSE /\ shut' = "no" /\ snap' = {}
  /\ cpc' = [c \in Clients |-> "idle"]
  /\ target' = [c \in Clients |-> NoDraft]
  /\ UNCHANGED <<rows, boots, lost>>

\* A crash, a kill, or the os.Exit(1) of a failed listener.
Crash == up /\ boots < MaxBoots /\ Down

\* Shutdown closes stop and copies the cancel funcs under the mutex ...
BeginShutdown ==
  /\ up /\ boots < MaxBoots /\ shut = "no"
  /\ shut' = "cancel" /\ snap' = cancels
  /\ UNCHANGED <<rows, workerVars, cancels, kick, clientVars, processVars>>

\* ... calls the copies without it ...
ShutdownCancel ==
  /\ shut = "cancel"
  /\ shut' = "wait"
  /\ ctxDone' = (ctxDone \/ job \in snap)
  /\ UNCHANGED <<rows, wpc, job, week, persisted, cancels, kick, snap,
                 clientVars, processVars>>

\* ... waits for the worker; then main stops HTTP and returns.
Exit == shut = "wait" /\ wpc = "off" /\ Down

Process == Boot \/ Crash \/ BeginShutdown \/ ShutdownCancel \/ Exit

-------------------------------------------------------------------------------
Next == Worker \/ (\E c \in Clients : Client(c)) \/ Process

Spec == Init /\ [][Next]_vars

\* The goroutines run: worker, started requests, main.  Nobody has to submit,
\* cancel, crash or shut down.  A select with several ready cases picks one at
\* random, so a closed stop channel cannot be passed over for ever.
Fairness ==
  /\ WF_vars(Worker)
  /\ SF_vars(Stop)
  /\ \A c \in Clients : WF_vars(Continue(c))
  /\ WF_vars(Boot) /\ WF_vars(ShutdownCancel) /\ WF_vars(Exit)

FairSpec == Spec /\ Fairness

-------------------------------------------------------------------------------
(* Properties.                                                             *)

\* Every variable keeps its type; the cancel funcs held are the running job's,
\* and a job is set exactly while execute() has one.
TypeOK ==
  /\ rows \in [Drafts -> Row]
  /\ wpc \in WorkerPoints /\ job \in 0 .. MaxDrafts /\ week \in 0 .. Weeks
  /\ ctxDone \in BOOLEAN /\ persisted \in BOOLEAN /\ kick \in BOOLEAN
  /\ cancels \subseteq Drafts /\ snap \subseteq Drafts
  /\ shut \in {"no", "cancel", "wait"}
  /\ cpc \in [Clients -> ClientPoints]
  /\ target \in [Clients -> 0 .. MaxDrafts]
  /\ up \in BOOLEAN /\ boots \in 0 .. MaxBoots /\ lost \subseteq Drafts

\* What each status says of the other columns, written by six different
\* statements: a full plan is stored for succeeded drafts and only for them, a
\* reason for failed ones, 100 percent is never shown of anything else, and a
\* row has an end time when it has ended.
RowMeaning(r) ==
  /\ r.status \in {"none", "queued"} => ~r.started /\ r.progress = 0
  /\ r.status \in {"running", "succeeded", "failed"} => r.started
  /\ r.finished <=> IsTerminal(r)
  /\ r.status = "succeeded" => r.result = Weeks /\ r.progress = 100
  /\ r.status # "succeeded" => r.result = 0 /\ r.progress <= 99
  /\ r.status = "failed" <=> r.reason # ""

RowsConsistent == \A d \in Drafts : RowMeaning(rows[d])

\* A request past its first read has an existing draft for its target.
TargetsExist ==
  \A c \in Clients : cpc[c] \in {"read", "request", "local", "reload"} =>
    target[c] \in Drafts /\ rows[target[c]].status # "none"

\* The worker has a job from its claim to its last deferred call, no context is
\* done outside it, a job that reached the end has planned every week, and the
\* map holds at most the running job's cancel func.
WorkerConsistent ==
  /\ wpc \in Executing => job \in Drafts /\ rows[job].status # "none"
  /\ wpc \notin Executing => job = NoDraft /\ ~ctxDone
  /\ wpc \in {"check", "ctx", "enrich", "succeed"} => week = Weeks
  /\ cancels # {} => wpc \in Registered /\ cancels = {job}

\* A process that is down holds nothing.
DownIsEmpty ==
  ~up => /\ wpc = "off" /\ shut = "no" /\ ~kick
         /\ \A c \in Clients : cpc[c] = "idle"

\* A draft that has ended never changes again, in any column, whatever late
\* writes of the worker, cancels or recoveries follow (model comment, README).
TerminalImmutable ==
  [][\A d \in Drafts : IsTerminal(rows[d]) => rows'[d] = rows[d]]_vars

\* A client that polls a draft never sees its progress go back, whatever reports are
\* throttled, fail or come late, and whether it is canceled, fails or is recovered.
ProgressNeverBack ==
  [][\A d \in Drafts : rows[d].progress <= rows'[d].progress]_vars

\* Once Cancel has asked for the change, the draft it reports has ended, even
\* when the worker finished it in between.
CancelEffective ==
  \A c \in Clients : cpc[c] \in {"local", "reload"} =>
    target[c] \in Drafts /\ IsTerminal(rows[target[c]])

\* The planner is interrupted only for a draft whose end is already stored, or
\* by a shutdown: a user's cancel never leaves work undone and unrecorded.
InterruptedIsTerminal ==
  ctxDone /\ ~stopping => job \in Drafts /\ IsTerminal(rows[job])

\* While the process serves, a running row is the one the worker executes, one
\* draft at a time, or its end could not be written: no early return, timeout or
\* failing read leaves a draft behind, and the next recovery ends those that are.
RunningIsOwned ==
  up /\ ~stopping => Running \subseteq lost \cup (IF wpc \in Executing THEN {job} ELSE {})

\* A queued draft never waits for the poll timer: when the worker is in its
\* select, the wakeup is in the channel or the submitter is about to send it.
NoLostWakeup ==
  wpc = "wait" /\ Queued # {} => kick \/ \E c \in Clients : cpc[c] = "signal"

\* How many steps execute() may still take.
StepsLeft ==
  CASE wpc = "register" -> 2 * Weeks + 8
    [] wpc = "load" -> 2 * Weeks + 7
    [] wpc = "progress" -> 2 * (Weeks - week) + 7
    [] wpc = "plan" -> 2 * (Weeks - week) + 6
    [] wpc = "check" -> 5
    [] wpc = "ctx" -> 4
    [] wpc \in {"enrich", "error"} -> 3
    [] wpc \in {"succeed", "fail"} -> 2
    [] wpc = "unwind" -> 1
    [] OTHER -> 0

\* Why a job does not keep the queue waiting: whatever its calls answer, and
\* whoever cancels it or shuts down, each of its steps leaves fewer to take, and
\* nobody else's makes them more or gives the worker another job before the last.
JobRunsOut ==
  [][\/ wpc \notin Executing
     \/ wpc' = wpc /\ StepsLeft' = StepsLeft /\ job' = job
     \/ StepsLeft' \in 0 .. StepsLeft - 1 /\ (job' = job \/ StepsLeft' = 0)]_vars

\* Every submitted draft ends, across crashes, shutdowns and restarts.
EveryDraftEnds ==
  \A d \in Drafts : rows[d].status = "queued" ~> IsTerminal(rows[d])

\* A shutdown ends: the worker sees the closed channel and main returns.
ShutdownEnds == stopping ~> ~up

\* The service implements the life cycle the repository promises.
Lifecycle == INSTANCE DraftLifecycle
  WITH Drafts <- Drafts, Result <- Weeks, NoResult <- 0,
       status <- [d \in Drafts |-> rows[d].status],
       result <- [d \in Drafts |-> rows[d].result]

ImplementsLifecycle == Lifecycle!Spec

\* The inductive invariant the proofs rest on.
IInv ==
  /\ TypeOK /\ RowsConsistent /\ TargetsExist /\ WorkerConsistent
  /\ DownIsEmpty /\ CancelEffective /\ InterruptedIsTerminal

\* Strengthening for ProgressNeverBack: what a running draft shows is no more than
\* the share of the weeks its worker has planned.
ProgressInv ==
  wpc \in {"register"} \cup Planning /\ job \in Running =>
    rows[job].progress <= ProgressOf(week)

\* Strengthening of RunningIsOwned: a job that reached its deferred calls while
\* the process serves has left the running state, or is one of those.
OwnedInv ==
  /\ RunningIsOwned
  /\ wpc = "unwind" /\ ~stopping => job \notin Running \ lost

-------------------------------------------------------------------------------
(* Statements of comments that the code does not keep.                     *)

\* "Cancel marks a non-terminal draft canceled and signals the executing job":
\* when no handler is on its way, the planner of a canceled draft is signaled.
CancelSignalsJob ==
  (/\ wpc \in Planning /\ rows[job].status = "canceled"
   /\ \A c \in Clients : cpc[c] # "local") => ctxDone

\* "Stop accepting new background draft work": no claim after the stop.
NoClaimAfterShutdown ==
  [][shut = "wait" =>
       \A d \in Queued : rows'[d].status # "running"]_vars

===============================================================================
