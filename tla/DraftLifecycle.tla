---------------------------- MODULE DraftLifecycle ----------------------------
(***************************************************************************)
(* What the draft table promises to the users of the API, whoever calls    *)
(* it: the contract of the ScheduleDraftRepository interface and of the    *)
(* life cycle documented on model.ScheduleDraft.                           *)
(*                                                                         *)
(* A draft is queued, is claimed at most once, and ends in one of three    *)
(* terminal states.  A stored result exists for succeeded drafts and for   *)
(* no other, and neither the state nor the result changes after the end.   *)
(* DraftService, the worker with its channels, contexts and handlers, is   *)
(* shown to implement this specification.                                  *)
(***************************************************************************)

CONSTANTS Drafts,    \* the rows of schedule_drafts
          Result,    \* what a stored result_json holds
          NoResult   \* an empty result_json

VARIABLES status,    \* status[d]: "none" before the row is inserted
          result     \* result[d]: the stored timetable

lifecycleVars == <<status, result>>

Terminal == {"succeeded", "failed", "canceled"}
Statuses == {"none", "queued", "running"} \cup Terminal

Init ==
  /\ status = [d \in Drafts |-> "none"]
  /\ result = [d \in Drafts |-> NoResult]

Move(d, from, to) ==
  /\ status[d] \in from
  /\ status' = [status EXCEPT ![d] = to]

\* Create: the row is born queued.
Create(d) == Move(d, {"none"}, "queued") /\ UNCHANGED result

\* ClaimNext moves a queued draft, and only a queued draft, to running.
ClaimNext(d) == Move(d, {"queued"}, "running") /\ UNCHANGED result

\* Succeed stores the result with the state, while the draft still runs.
Succeed(d) ==
  /\ Move(d, {"running"}, "succeeded")
  /\ result' = [result EXCEPT ![d] = Result]

Fail(d) == Move(d, {"running"}, "failed") /\ UNCHANGED result

\* RequestCancel takes a draft that has not ended.
RequestCancel(d) == Move(d, {"queued", "running"}, "canceled") /\ UNCHANGED result

\* RecoverInterrupted fails all the running rows in one statement.
RecoverInterrupted ==
  /\ status' = [d \in Drafts |->
                  IF status[d] = "running" THEN "failed" ELSE status[d]]
  /\ UNCHANGED result

Next ==
  \/ \E d \in Drafts : \/ Create(d)
                       \/ ClaimNext(d)
                       \/ Succeed(d)
                       \/ Fail(d)
                       \/ RequestCancel(d)
  \/ RecoverInterrupted

Spec == Init /\ [][Next]_lifecycleVars

===============================================================================
