------------------------------ MODULE Exports ------------------------------
(***************************************************************************)
(* Export tasks: a document rendered from a frozen itinerary version by    *)
(* the worker, its retries, its expiry.                                    *)
(* Sources: exports/service.py, exports/router.py, exports/models.py,      *)
(* workers/domain_handlers.py, events/consumer.py.                         *)
(*                                                                         *)
(* An attempt is claimed under a row lock and committed; then the document *)
(* is stored and the result is committed.  A delivery that fails is made   *)
(* again, MaxTries in all, then its failure is finalized from a row read   *)
(* without a lock.  A lost worker's delivery comes again uncounted.  The   *)
(* asset of a document has a key made of the task, which is unique: a task *)
(* is completed once in its life, a second attempt is refused.             *)
(***************************************************************************)
EXTENDS Integers, FiniteSets

CONSTANTS
  Exports,   \* export_tasks
  Events,    \* export_task.requested events: the first and those of retries
  MaxTries,  \* deliveries of an event before it is dead-lettered
  MaxCrashes \* bound: lost workers

ASSUME ExportsAssumption == IsFiniteSet(Events) /\ MaxTries \in Nat \ {0}

VARIABLES
  task,     \* export_tasks: status and output_asset_id
  stored,   \* exports whose document is in the object storage
  overdue,  \* exports whose expires_at has passed
  delivery, \* what happens with an event
  retries,  \* the failed tasks and their output_asset_id as requests to retry read them
  lost,     \* exports whose claimed attempt lost its worker
  filed     \* exports with a media_assets row: it outlives a retry and the expiry

exportVars == <<task, stored, overdue, delivery, retries, lost, filed>>

ExportStatuses == {"none", "queued", "running", "succeeded", "failed", "expired"}

DeliveryPhases == {"none", "waiting", "render", "commit", "retry", "finalize", "write_failed", "done"}

ExportsTypeOK ==
  /\ task \in [Exports -> [status : ExportStatuses, asset : BOOLEAN]]
  /\ stored \subseteq Exports /\ overdue \subseteq Exports
  /\ lost \subseteq Exports /\ filed \subseteq Exports
  /\ retries \subseteq Exports \X BOOLEAN
  /\ \A e \in Events : delivery[e].phase \in DeliveryPhases /\ delivery[e].tries \in 0..(MaxTries - 1)
  /\ \A e \in Events : delivery[e].phase # "none" => delivery[e].task \in Exports

ExportsInit ==
  /\ task = [x \in Exports |-> [status |-> "none", asset |-> FALSE]]
  /\ stored = {} /\ overdue = {} /\ lost = {} /\ filed = {} /\ retries = {}
  /\ delivery = [e \in Events |-> [phase |-> "none", tries |-> 0]]

----------------------------------------------------------------------------
Sent(e, x) ==
  /\ delivery[e].phase = "none"
  /\ delivery' = [delivery EXCEPT ![e] = [phase |-> "waiting", tries |-> 0, task |-> x]]

Queued == [status |-> "queued", asset |-> FALSE]

\* The same Idempotency-Key finds the task it created.
Create(x, e) ==
  /\ task[x].status = "none" /\ Sent(e, x)
  /\ task' = [task EXCEPT ![x] = Queued]
  /\ UNCHANGED <<stored, overdue, retries, lost, filed>>

\* Several requests to retry may read the same failed task and write it later.
LoadRetry(x) ==
  /\ task[x].status = "failed"
  /\ retries' = retries \cup {<<x, task[x].asset>>}
  /\ UNCHANGED <<task, stored, overdue, delivery, lost, filed>>

\* Only what differs from the task as it was read is written: an asset and an
\* expires_at that came since stay.
WriteRetry(x, e) ==
  /\ Sent(e, x)
  /\ \E had \in BOOLEAN :
       /\ <<x, had>> \in retries
       /\ task' = [task EXCEPT ![x] = [status |-> "queued", asset |-> ~had /\ task[x].asset]]
       /\ overdue' = IF had THEN overdue \ {x} ELSE overdue
  /\ UNCHANGED <<stored, retries, lost, filed>>

X(e) == delivery[e].task

At(e, phase) == delivery[e].phase = phase

To(e, phase) == delivery' = [delivery EXCEPT ![e].phase = phase]

Mark(e, status) == task' = [task EXCEPT ![X(e)].status = status]

\* start_attempt: only a queued task is taken; otherwise the event is done.
StartAttempt(e) ==
  /\ At(e, "waiting")
  /\ IF task[X(e)].status = "queued" THEN Mark(e, "running") /\ To(e, "render")
     ELSE To(e, "done") /\ UNCHANGED task
  /\ UNCHANGED <<stored, overdue, retries, lost, filed>>

\* Mutant of OnFailure: a document that could not be stored is taken for stored.
OnFailureCommit == "commit"

OnFailure == "retry"

Render(e) ==
  /\ At(e, "render")
  /\ \/ stored' = stored \cup {X(e)} /\ To(e, "commit")
     \/ UNCHANGED stored /\ To(e, OnFailure)
  /\ UNCHANGED <<task, overdue, retries, lost, filed>>

\* The status is checked on the object loaded with the claim.
CompleteExport(e) ==
  /\ At(e, "commit") /\ X(e) \notin filed
  /\ filed' = filed \cup {X(e)}
  /\ To(e, "done")
  /\ task' = [task EXCEPT ![X(e)] = [status |-> "succeeded", asset |-> TRUE]]
  /\ overdue' = overdue \ {X(e)}
  /\ UNCHANGED <<stored, retries, lost>>

\* The consumer rejects the message or gives it up.
Rejected(e) ==
  delivery' = IF delivery[e].tries + 1 < MaxTries
              THEN [delivery EXCEPT ![e].tries = @ + 1, ![e].phase = "waiting"]
              ELSE [delivery EXCEPT ![e].phase = "finalize"]

\* A second asset row of the task violates the unique object_key.  The session
\* is rolled back, prepare_retry fails on it, and the task stays as it is.
AssetRefused(e) ==
  /\ At(e, "commit") /\ X(e) \in filed
  /\ Rejected(e)
  /\ UNCHANGED <<task, stored, overdue, retries, lost, filed>>

\* Mutant of RetryStatus: the failed attempt leaves the task running.
RetryStatusRunning == "running"

RetryStatus == "queued"

PrepareRetry(e) ==
  /\ At(e, "retry") /\ Mark(e, RetryStatus)
  /\ Rejected(e)
  /\ UNCHANGED <<stored, overdue, retries, lost, filed>>

ReadFailure(e) ==
  /\ At(e, "finalize")
  /\ To(e, IF task[X(e)].status = "queued" THEN "write_failed" ELSE "done")
  /\ UNCHANGED <<task, stored, overdue, retries, lost, filed>>

FinalizeFailure(e) ==
  /\ At(e, "write_failed") /\ Mark(e, "failed") /\ To(e, "done")
  /\ UNCHANGED <<stored, overdue, retries, lost, filed>>

\* The worker is lost; the message comes back with the deaths it has.
CrashExport(e) ==
  /\ delivery[e].phase \in {"render", "commit", "retry", "finalize", "write_failed"}
  /\ X(e) \notin lost /\ MaxCrashes > 0
  /\ lost' = lost \cup {X(e)}
  /\ To(e, "waiting")
  /\ UNCHANGED <<task, stored, overdue, retries, filed>>

\* A document is kept for days, an attempt at it lasts seconds.
ExportExpires(x) ==
  /\ task[x].status = "succeeded" /\ x \notin overdue
  /\ \A e \in {f \in Events : delivery[f].phase \notin {"none", "waiting", "done"}} : X(e) # x
  /\ overdue' = overdue \cup {x}
  /\ UNCHANGED <<task, stored, delivery, retries, lost, filed>>

\* expire_succeeded_exports: the status is durable, the removal best effort.
ExpireSucceeded ==
  LET late == {x \in overdue : task[x].status = "succeeded"}
  IN /\ late # {}
     /\ task' = [x \in Exports |-> IF x \in late THEN [task[x] EXCEPT !.status = "expired"] ELSE task[x]]
     /\ \E gone \in SUBSET late : stored' = stored \ gone
     /\ UNCHANGED <<overdue, delivery, retries, lost, filed>>

\* A link is given for a document that is ready and has not expired.
Downloadable(x) == task[x].status = "succeeded" /\ task[x].asset /\ x \notin overdue

RunExport(e) ==
  \/ StartAttempt(e) \/ Render(e) \/ CompleteExport(e) \/ AssetRefused(e)
  \/ PrepareRetry(e) \/ ReadFailure(e) \/ FinalizeFailure(e)

ExportsNext ==
  \/ \E x \in Exports, e \in Events : Create(x, e) \/ WriteRetry(x, e)
  \/ \E e \in Events : RunExport(e) \/ CrashExport(e)
  \/ \E x \in Exports : LoadRetry(x) \/ ExportExpires(x)
  \/ ExpireSucceeded

ExportsSpec == ExportsInit /\ [][ExportsNext]_exportVars /\ \A e \in Events : WF_exportVars(RunExport(e))

----------------------------------------------------------------------------
(* A link that is given leads to a stored document, and a task without     *)
(* one is not shown as succeeded (complete, expire_succeeded_exports).     *)
LinksWork ==
  \A x \in Exports :
    /\ Downloadable(x) => x \in stored
    /\ task[x].status = "succeeded" => task[x].asset

(* An export that has no document yet and is requested succeeds or fails,  *)
(* however often the storage fails and the delivery is repeated, unless    *)
(* its worker was lost: then the task may stay running (start_attempt      *)
(* finds no queued task again).  A task queued again after its document    *)
(* was recorded may stay running too (complete: object_key is unique).     *)
ExportSettles ==
  \A x \in Exports :
    task[x].status = "queued" /\ x \notin filed
      ~> task[x].status \in {"succeeded", "failed", "expired"} \/ x \in lost

=============================================================================
