# Verification of the timetable service

TLA+ specifications of the Go backend in `src/backend` (school timetabling:
catalogue, greedy planner, published timetable, asynchronous drafts, reports),
their TLC configurations and their proofs. File names below are relative to
`src/backend/internal/` unless they say otherwise.

Abbreviations: SG `service/schedule.go`, SH `service/schedule_helpers.go`,
SD `service/schedule_draft.go`, RD `repository/schedule_draft.go`.

## The system

| Component | State | Operations | Hard behaviours | Correct when |
|---|---|---|---|---|
| Draft service (SD, `handler/schedule_draft.go`) | cancel funcs by draft, kick channel of one, stop channel, wait group | Submit, Cancel, Get, GetResult, List, Start, Shutdown | handlers run beside one worker; a cancel races the claim, the progress and the result; wakeups can be lost; shutdown waits for a plan | an ended draft never changes, a cancel that was answered is effective, every queued draft ends |
| Draft worker (SD 240-380) | job, context, week | claim, execute, progress, store | each repository call can fail; crash between any two | one running row at most, the worker's; progress only grows |
| Draft table (RD, `model/schedule_draft.go`) | rows with status, progress, result, reason, times | conditional updates, ClaimNext in a transaction, RecoverInterrupted | every guard is in a WHERE clause | status, result and times agree |
| Planner (SG 114-285, SH) | marks of a week, teacher cursor, plan | buildPlan, placeGreedy, chooseClassroom, pickTeacher | search position by position, commit at the end, cancellation inside | nobody is booked twice; every period asked for is planned or reported |
| Published timetable (SG 83-112, 287-355, `repository/schedule.go`) | `schedules`, `adjustment_logs` | Generate, Swap, Move | read-modify-write without a transaction; soft delete with `Save` | requests that come one at a time publish one generation, swaps permute, the log is the history; overlapping ones lose no lesson |
| Conflict detection (SG 500-574) | maps of one pass | CheckConflicts, and the end of Generate, Swap, Move and of a draft | one lesson per key is kept; failing lookups are ignored; the tables change between the queries | each clash is reported, and nothing else |
| Statistics (SG 375-458) | none | ClassroomUtilization, TeacherWorkload, CourseDensity | counts and capacity come from different queries | each lesson is counted once, no room is used beyond its periods |
| Reads and export of the timetable (SG 357-373, 460-498) | none | List, Get, Export, rows of a draft's plan | six queries for one answer | a row tells of its own slot, room, teacher, class and course |
| Catalogue (`service/`, `repository/`, `handler/` of classroom, teacher, class, course, timeslot) | five tables | Create, Get, Update, Delete, List | read-modify-write; unique index over deleted rows; paging | each request does what `CatalogSpec` allows beside others |
| Configuration, logging, migration, CORS, API docs | none of their own | - | - | not modelled, see the end |

How they interact: HTTP handlers call services; every service calls its
repositories and nothing else, so all sharing is through SQLite, except for the
draft service, whose handlers and worker also share the cancel map (a mutex), the
kick channel and the stop channel. The draft worker and `Generate` both call
`buildPlan`; `Generate`, `Swap`, `Move` and the worker end in `detectConflicts`,
and lists, exports and draft results in `enrichSchedules`.
`cmd/server/main.go` starts the worker before HTTP and stops it before HTTP.
SQLite makes each statement and each transaction atomic, which is why a
repository call is one action in every module.

## Modules

| Module | Models | Related to |
|---|---|---|
| `DraftLifecycle` | contract of the `ScheduleDraftRepository` interface: a draft's states and result | abstract |
| `DraftService` | SD, RD, start and stop in `main.go` | implements `DraftLifecycle` |
| `DraftServiceProofs` | proofs about it | |
| `PlannerInput` | a request and a catalogue, and which jobs the one asks of the other | |
| `PlannerSpec` | what a plan is to those who ask for it: every job placed as a whole or reported | abstract |
| `Planner` | `buildPlan` and all it calls | implements `PlannerSpec` |
| `PlannerProofs` | no double booking, suitable lessons, completeness of the search | |
| `PlannerWorkProofs` | every period is required and accounted for, and the work runs out | extends `PlannerProofs` |
| `PlannerSpecProofs` | the refinement | extends `PlannerWorkProofs` |
| `TimetableSpec` | the timetable as a user sees it whose requests come one at a time: published lessons, a history, and what failing calls may leave | abstract |
| `Timetable` | writes of Generate, Swap and Move, call by call | implements `TimetableSpec` |
| `TimetableProofs` | what holds with any clients and any failures | |
| `TimetableSerialProofs` | one generation, the refinement, swaps permute: until two requests overlap | extends `TimetableProofs` |
| `Reading` | the queries of the requests that read the timetable, beside writers of the catalogue | |
| `Conflicts` | `detectConflicts` over what was read | extends `Reading` |
| `Statistics` | the three statistics over what was read | extends `Reading` |
| `Reports` | composes both with the lists (`enrichSchedules`) | extends `Conflicts`, `Statistics` |
| `ReportsProofs` | proofs about it | |
| `CatalogSchema` | the columns of the five tables, bodies, pages | |
| `CatalogSpec` | what a catalogue promises concurrent clients | abstract |
| `Catalog` | the handlers, services and repositories of the five tables | implements `CatalogSpec` |
| `CatalogProofs` | proofs about it | |
| `MC*` | instances for TLC | |

### DraftService

`rows` is `schedule_drafts`; `wpc`, `job`, `week`, `ctxDone`, `persisted` the
worker goroutine (its place in `workerLoop` and `execute`, the claimed id, the
planner's week, the context's state, whether a progress report was stored); `cancels` the
map of cancel funcs; `kick` the channel of capacity one; `shut` and `snap` the
progress of `Shutdown` and the cancel funcs it copied; `cpc`, `target` the
handlers; `up`, `boots` the process. `lost` is a history variable, the drafts whose
end could not be written since the last recovery. The worker's actions follow the source:
Claim / ClaimNothing (`ClaimNext`), Register (the mutex section of `execute`),
LoadPlan, PlanWeek, ReportProgress, PlanDone, HandleError, FailDraft,
CheckCanceled, CheckContext, Enrich, StoreResult, Unwind (deferred calls), and Kick,
Tick, Stop for the branches of its `select`. A handler's Submit is the insert and
then Signal; its Cancel is CancelRead, CancelRequest, CancelLocal, CancelReload.
The process has Boot (RecoverInterrupted, then the worker), BeginShutdown,
ShutdownCancel, Exit and Crash.

### Planner

`request` and `store` are the input, `canceled` the context, the other variables
are locals of `buildPlan` and `placeGreedy`: marks `occ`, `cursor`, `plan`,
`conflicts`, and for the current job its `teacher`, the position it is `at` and
the lessons `chosen`, which are marked and added to the plan only when all of the
job's periods have been found. Finding a free position for teacher and class and
choosing a classroom are separate steps, as a cancellation inside the second is
where the code could mistake an interruption for a full timetable. Which classes a
requirement without a class is for (those the request lists, else those its
requirements name, else the first page of the table) is `RequiredIsAsked`.

`PlannerSpec` keeps of all this the set of jobs still `left` (a week, a requirement,
a class), the planned lessons, the reports and a `status`. Its steps take up one job
of the first requirement of the first week there is: Place adds all of its lessons
at once, with one of the teachers the requirement allows and any room and time free
beside what is planned; Refuse may report it only if fewer times are free than it
has periods; Reject and Drop are for an unknown course and an absent teacher. A plan
is refused only if the request cannot be met or its context was canceled, and
nothing of a plan that failed is shown. `Planner` maps to it by what is left of its loops (`JobsLeft`): the
search for positions, one to a step, is unnoticed there, and so are the ends of its loops.

### Timetable

`rows` keeps deleted rows with `live = FALSE`, as soft delete does. A request's
`la` and `lb` are its copies of rows. `Save` is gorm's: an update of the live
row and, when no row was hit, an upsert that clears `deleted_at`; a save of a row
that was deleted in between therefore publishes it again. `batch` is a history
variable, the generation that inserted the row. A place is week, day, slot and
classroom; a swap exchanges all of them. `disturbed` is a history variable too: it
remembers whether two requests have overlapped and whether a call has failed, so that what
holds only without the one or the other can be said, and proved, of one specification.

`TimetableSpec` keeps the `published` lessons, the `history` of adjustments and the
adjustment `owed` to it. Its `Perform` is what requests do: a generation clears the
timetable and then publishes all of its plan, a swap exchanges two places at once, a move
gives a lesson a place, and an adjustment enters the history before anything else
happens. `Fail` is what a failing call may leave: half a swap, or an adjustment that
never enters the history. That a move may take the place of another lesson is what
the code does and not what the repository promises; `MovesToFree` states the promise, and
`timetable_move_taken` shows it broken.

### Reading, Conflicts, Statistics, Reports

A request reads its lessons and the tables that tell about them with one query
after the other (`QueryOrder`), and between two of them `Change` replaces the
catalogue by another. `was` is a history variable, the catalogues there have been
since the request began: what an answer says is compared with these. `detectConflicts`
drops the errors of its lookups (`ReadNothing`, remembered in `failed`); the other
requests answer with the error (`ReadFails`). Then the lessons are taken one by
one: `Conflicts` keeps in `last` the three maps of the source as one function of
keys and reports kinds at positions; `Statistics` counts lessons by key and the
last day in use; `Reports` adds the rows of a list, each with what the tables read
say of its slot, room, teacher, class and course. Lessons at one time come in any
order, as the query's ORDER BY has no last column. A draft's plan is a list of
unsaved lessons (id 0), whose rows are numbered.

### Catalog

The five services differ in their columns only, so `entity` picks one table and
`CatalogSchema` says for each which columns are texts (`""` means "keep"),
numbers and lists (`nil` means "keep"), which a create request must fill, which
is unique and how a list is ordered. Create is one insert; Update is GetByID, the merge of the body into
the copy, then SaveUpdate; Delete is GetByID, then SoftDelete; List is the count, then
ReadPage. The index covers deleted rows. An offset is an int of finite width
(`Wrap`): its product wraps, and a negative one is left out by gorm.

`CatalogSpec` is what is left of atomicity. Create, Get and refusals happen
at one moment. An update leaves its columns on some version the record had since the
call (and the record is live then), a delete needs a record that was there at some moment
since the call, and a list shows a page as it is beside a total that was right
at some moment since the call. `seen`, in both modules, is the history this takes.
Codes stay used, and a request that fails changes nothing.

## What is checked

Every run finishes in at most about two minutes. "Violation" runs show statements
of comments that the code does not keep.

| Run | Expect | Shows | Bounds |
|---|---|---|---|
| `draft_faulty` | pass | with every fallible call failing at any time, two handlers and a crash: columns agree with the status (`RowsConsistent`), ended drafts never change (`TerminalImmutable`), progress never goes back (`ProgressNeverBack`), an asked-for cancel is effective (`CancelEffective`), only drafts whose end is stored are interrupted (`InterruptedIsTerminal`), a job's steps run out (`JobRunsOut`), the contract is implemented (`ImplementsLifecycle`), a running row is the worker's or one whose end could not be written (`RunningIsOwned`), and the inductive invariant `IInv` of the proofs | 2 drafts, 2 clients, 2 weeks, 2 boots |
| `draft_live` | pass | without failing calls: no lost wakeup, every queued draft ends across crashes and restarts, every shutdown ends | 2 drafts, 2 clients, 1 week, 2 boots |
| `draft_late_cancel` | violation of `CancelSignalsJob` | a cancel between claim and registration signals nobody (SD 278) | 1 draft |
| `draft_claim_after_stop` | violation of `NoClaimAfterShutdown` | queued drafts are claimed after Shutdown (SD 248) | 1 draft |
| `planner_plans` | pass | no double booking, suitable rooms and times, every period asked for is required once (`RequiredIsAsked`) and planned or reported (`Accounted`), "unplaced" is reported only when there is no place (`UnplacedIsReal`), every step lowers the rank of the work left (`StepsRunOut`), `PlannerSpec` is implemented (`ImplementsPlan`), planning ends (`PlanEnds`) | 1 or 2 requirements, 2 or 4 classes, 2 teachers, 2 rooms, 2 or 3 slots, 2 weeks, 2 days, pages of 3 |
| `planner_consecutive` | violation of `ConsecutiveKept` | consecutive periods are split though a run is free (SH 249) | 2 requirements |
| `timetable_requests` | pass | two concurrent clients, any call failing: no row is lost and none changes its course or generation (`LessonsKeepIdentity`); until two requests overlap, one generation is published (`OneWhileAlone`) and the handlers implement `TimetableSpec`, with its failures only after a failing call (`ImplementsTimetable`); and without either, swaps permute places (`PlacesPermuted`) | 4 requests, 3 places, plans of 0, 1 and 2 lessons |
| `timetable_resurrected` | violation of `OnePublished` | a move saves a deleted lesson back (SG 339) | 2 clients |
| `timetable_emptied` | violation of `NeverLeftEmpty` | a generation fails between delete and insert (SG 96) | 2 requests |
| `timetable_move_taken` | violation of `MovesToFree` | a move stores a lesson where another one is (SG 335) | 1 client, 2 requests |
| `reports_requests` | pass | every reading request while the catalogue changes and queries fail: the maps know every key (`MapKnows`), clashes are reported and only they are (`ClashesReported`), small rooms and ruled-out times are reported when they were so all along and only when they were so at some moment (`SuitReported`), lessons are counted once (`EachCounted`), no room is used beyond its periods unless it is double-booked (`UtilizationBounded`), lists are complete, ordered and tell of the right entities (`RowsTell`) | triples of lessons over 2 values of each column, 2 catalogues, pages of 2 slots; lessons, slots and classes may fail |
| `catalog_requests` | pass | every answer and every change is one `CatalogSpec` allows | 2 clients that do everything, 3 requests on any of the 5 tables, any call failing, ints below 4 |

Why the bounds are enough to meet the interesting cases: two drafts give a queue
behind a running draft, an order of claims, and a wakeup that arrives during a job;
two weeks give a progress report that is not the last; two boots give one crash
and its recovery; two handlers give a cancel beside a submit and two cancels of
one draft. Two requirements give a job that meets the marks of another, periods
up to three give jobs that fail after some periods were found, the requests
ask for fewer and more periods than a day has, and four classes are more than a
page of three. Three lessons give a key seen twice before a third; a catalogue that
changes back and forth gives a report whose queries saw two states; a page of two
leaves a slot out. Four requests on the timetable give a generation, two adjustments
and another generation, any two of them overlapping. Three on a catalogue give an update that overlaps an update
or a deletion, and a code given up and taken in between. Beyond these the theorems below hold
for any number.

### Fairness

`DraftService`: weak fairness of the worker (a goroutine that is always runnable
when its action is enabled), of a handler that has begun, of Boot (the deployment
restarts the container), ShutdownCancel and Exit; strong fairness of Stop, as Go's `select`
chooses at random among ready cases, so a closed channel that is ready again
and again is taken in the end. No fairness of submitting, canceling, crashing or beginning a
shutdown. `Planner`: weak fairness of its steps, as it waits for nothing.
`Timetable`, `Reports` and `Catalog` state safety only: each of their requests is
a fixed number of calls.

## What is proved

With `tlapm`, for every value of the constants that meets the named assumptions
(natural bounds, a positive number of weeks, fault points among the listed ones,
finite tables, ids that are keys):

* `DraftServiceProofs`. The argument has two layers. `RowsStep` describes what
  any step can do to the table: nothing, one of the repository's conditional
  updates on one row, or the recovery of all running rows; `RowsAlwaysConsistent`,
  `TerminalRowsStay` and the refinement `ServiceImplementsLifecycle` follow from it.
  `CancelSafe` and `InterruptedOnlyIfEnded` need the inductive invariant `IInv` (theorem `Inductive`), which
  adds where the worker and the handlers are: that a canceled draft is ended holds
  only because a handler past its request has an existing target, and that nobody
  interrupts an unfinished draft only because the map holds at most the current job's
  cancel func. `ProgressOnlyGrows` adds `ProgressInv`: a running draft shows no more than the
  share of the weeks its worker has planned, and that share grows with the weeks.
  `EveryJobRunsOut` is the part of `EveryDraftEnds` and `ShutdownEnds` that safety can say: each step of a
  job leaves fewer to take (`StepsLeft`), and no cancel, shutdown or failing call gives it more.
  `RunningAlwaysOwned` holds whatever fails: a running row without a worker is in `lost`.
  `WakeupNeverLost` assumes that claiming does not fail (`"claim" \notin Faults`); without
  this the code does not keep it.
* `PlannerProofs`. `NobodyBookedTwice`: for any request and catalogue and any
  cancellation no plan books a teacher, a class or a room twice. The invariant `Inv`
  says that the marks cover the plan's lessons of the week, and that the
  current job's lessons are at different times and free in the marks; `NoDoubleBooking` alone
  is not inductive, since a commit adds lessons that were compared with the marks
  and not with the plan. `LessonsAlwaysSuit` carries the same checks from the choice of
  a classroom to the plan. `UnplacedIsAlwaysReal`: a job is reported as impossible only
  if no slot of any day had its teacher, its class and a suitable room free. Three things
  are needed: the marks never exceed the plan, so that a position refused was taken by a lesson;
  each position passed since the search began had no place; and the
  runs of consecutive periods, which number positions by division with remainder,
  leave no slot of the grid out.
* `PlannerWorkProofs`. `EveryPeriodAccounted`: between two jobs the lessons and the refused
  periods add up to those required; while a job runs its own periods are the difference.
  `EveryPeriodRequired`: a finished plan required each period of each requirement
  with a course and a teacher once for every week and class. Both are about sums that
  grow along a list; they are stated as the cardinality of a set of periods, so that a step adds
  a disjoint piece and no induction is needed. The invariant `WorkInv` of the second says that
  `required` is the cardinality of the periods of the loops passed so far, that `targets` is a suffix of
  the classes of the requirement, and that the rows read are those that are meant, once each; the last needs
  that ids are keys (`KeysAssumption`, the tables' primary keys). `WorkRunsOut`: each step
  lowers `Rank`, five natural numbers compared from the first, and a cancellation leaves it alone. That the steps
  end follows by hand, as the order has no infinite descent; the prover does not reach the liveness itself.
* `PlannerSpecProofs`. `PlannerImplementsSpec`: `buildPlan` refines `PlannerSpec` for every request, catalogue
  and cancellation. It rests on the three invariants above and on `JobInv`: the current
  job is the first of the jobs left, and its teacher is one its requirement allows. Commit maps to Place as what was
  chosen is free in the plan (`FreeIsChosen` and the marks); Unplaced maps to Refuse since the
  search has found fewer times than periods and `SearchInv` says it looked everywhere, so that the free
  times are among those already chosen.
* `TimetableProofs`. `LessonsAlwaysKeepIdentity`: with any number of clients and any
  call failing, a row keeps its course and its generation, and none is removed. The property
  is about rows, while a save writes an old copy over a row; so the invariant `CopyInv` says
  that each copy a request may still save has the course and the generation of its row.
  `TimetableTypes` is the type invariant.
* `TimetableSerialProofs`. `SerialInvariant`: as long as no two requests have overlapped, what
  a request holds is what the table holds, whichever of its calls fail
  (`timetable_resurrected` shows that they must not overlap). From it `OneGenerationPublished`,
  also after a generation that failed halfway, and `HandlersImplementTimetable`, the refinement with its
  history, for all plans, any number of clients and requests: a step outside
  `Perform` needs a failing call before it. `SwapsOnlyPermute` is argued about the user's timetable: a step
  of `TimetableSpec` that is neither a move nor a failure uses each place as often as before. The refinement
  carries this to the rows, so that the handlers' calls are not looked at again.
* `ReportsProofs`, for tables of any size and any changes between the queries: `EveryClashReported`
  (which rests on `MapAlwaysKnows`), `EverySuitReported`, `EveryLessonCounted`,
  `NoFalseAlarm` (a finished report names a clash if and only if two lessons of the
  timetable clash), `ListsAlwaysTell`, `ReportsTypes`, and `UtilizationAlwaysBounded`, by an injection
  of a room's lessons into weeks, days and slots. The invariant says of each query
  done that its result is what one of the states in `was` gives.
* `CatalogProofs`. `CatalogPromiseKept`: the five services implement `CatalogSpec` for any
  number of clients that change the same records, with any call failing. The invariant says
  that what a client has read was so in some state it has seen.

Only model-checked: liveness (`EveryDraftEnds`, `ShutdownEnds`, `PlanEnds`), which is
beyond the prover; and the violation runs. Every safety invariant and
action property of a passing run is the statement of a theorem.

## Abstractions

* Drafts: a stored timetable is the number of its weeks; the parameters that the
  service encoded itself always decode; ClaimNext's "no row hit" cannot happen
  as SQLite isolates its transaction; deleting a cancel func and calling it is
  one step; the restart branch of Start inside one process (SD 196-201) has no caller.
* Planner: a failing query ends a plan as a cancellation does; comparisons of
  names (subjects, equipment) are sets given by the catalogue; a slot's id and
  code are one value; the fallback of `chooseClassroom` cannot be reached.
* Timetable: the reads after the last write of a request are one step here; what they
  read and report is in `Reports`.
* Reports: the lessons are read by one query, so the timetable stays as it is during a request;
  a row of a table is its id and the column a report looks at; the quotient of the
  utilization and the sorting of the answers are presentation.
* Catalogue: a body has been decoded; only values binding accepts are sent, a create
  request with a required column missing is refused.

## Known divergences

Six have a run (above, with the comments they contradict in `PROJECT.json`).
The others were seen while modelling and contradict no single statement of the repository:

* SD 315: a context canceled by Shutdown is taken for a user's cancel; the row
  stays running until the next boot fails it.
* SD 369: when storing the result fails, the draft stays running until the next boot;
  `RunningIsOwned` says that, short of a shutdown, only a failing write of an end
  or a failing recovery does this.
* SG 93: two generations that both delete before either inserts publish both plans; a
  third one replaces both. `OneWhileAlone` says that requests must overlap for this.
* SG 306, 309: a swap whose second save fails has moved one lesson, and nothing else
  (`SwapHalf` of `TimetableSpec`); of two swaps with a lesson in common one is lost.
* SG 312: the log of an adjustment fails after the rows are saved; the answer is an
  error and the change is made (`Lose` of `TimetableSpec`).
* SG 196: a requirement whose teacher is not among those listed is dropped without a report.
* SH 101: lists are cut at 200 rows; classes beyond them are not planned.
* SG 530: the lessons of a draft's plan have no ids yet, so detectConflicts finds
  no time clash in them; `NobodyBookedTwice` is why none is missed, and `LessonsAlwaysSuit`
  why there is no small room or ruled-out time to report.
* SG 507: a failing lookup silently shortens the conflict report; `SuitReported` says by what.
* SG 388: slots beyond the first page are not counted in a room's periods;
  `UtilizationBounded` holds of lessons in the slots counted.
* Update of a catalogue record: two concurrent updates lose columns of one, and an
  update that read before a delete brings the record back; `Update` of `CatalogSpec` says exactly this.
* `repository/timeslot.go` 38: slots that start together may change places between two
  pages. `CatalogSpec` promises each page as of one moment and ties no two pages.
* `repository/common.go` 24: the offset of a very large page number wraps, and the first page is shown.

## Not modelled

* Get, GetResult and List of drafts and the list of the adjustment log: single reads,
  and a count followed by a page as in `Catalog`, of tables whose writers are in
  `DraftService` and `Timetable`. What a poller may see over time is
  `TerminalImmutable`, `ProgressNeverBack` and `DraftLifecycle`.
* Names, texts of conflicts and suggestions, CSV and JSON, HTTP statuses other than the
  kinds of answers in `Catalog`: layout and wording.
* Configuration, logging, CORS, recovery, migrations: calls into libraries made
  once before the server starts, or that keep no state.
* Generated API documents: no behaviour.

## Plan

Done in this order: draft service (most interleavings), published timetable,
planner, conflict detection and the other reports, catalogue; then the proofs.
`Timetable` composes with `Planner` through the constant `Plans`, `DraftService`
through its weeks; `Reports` composes its parts on one reading of the tables. What could follow:

1. A client that walks the pages of a list while others create and delete: which
   records it may miss or meet twice.
2. `Planner` and `Conflicts` on one plan. `NobodyBookedTwice` and `NoFalseAlarm` say together that a plan,
   once stored with ids, has an empty report of clashes; no module composes the two.
3. Adjustments beside drafts: a draft's plan is computed from a catalogue that has changed
   when it is shown.
