---------------------------- MODULE GenerationJob ----------------------------
(***************************************************************************)
(* One AI generation job: the API that creates and retries it, the worker  *)
(* attempts that claim it, report progress and end it, and the handler     *)
(* that closes it when its message is exhausted.  Sources:                 *)
(* ai_workflows/service.py, workers/domain_handlers.py (_run_generation,   *)
(* _prepare_generation_retry, _finalize_generation_failure),               *)
(* ai_entitlements/service.py (consume), ai_memory/postgres.py             *)
(* (save_preview).                                                         *)
(*                                                                         *)
(* A session runs with expire_on_commit=False and keeps the row object it  *)
(* loaded: a later SELECT ... FOR UPDATE locks the row but does not reload *)
(* its attributes, every check is made on the loaded values, and an UPDATE *)
(* writes the columns that differ from them.  loaded[m] is that object.    *)
(***************************************************************************)
EXTENDS Integers, FiniteSets, Sequences

CONSTANTS
  Creators,   \* create requests carrying one Idempotency-Key
  Retriers,   \* connections that send retry requests
  StageOrder, \* the stages the workflow reports, in order
  QuotaLimit, \* generation_limit of the quota period
  MaxTraces,  \* bound: events enqueued for the job
  MaxRuns,    \* bound: broker messages for them
  MaxCopies,  \* bound: messages published for one event
  MaxFailed,  \* deliveries of a message that may fail before it is dead-lettered
  MaxFaults   \* bound: crashes and database errors

ASSUME JobAssumption ==
  /\ StageOrder \in Seq(STRING) /\ Len(StageOrder) > 0
  /\ \A i \in 1..Len(StageOrder) :
       StageOrder[i] \notin {"absent", "queued", "awaiting_confirmation", "succeeded", "failed"}
  /\ \A i, j \in 1..Len(StageOrder) : StageOrder[i] = StageOrder[j] => i = j
  /\ QuotaLimit \in Nat /\ MaxFailed \in Nat \ {0}
  /\ MaxTraces \in Nat /\ MaxRuns \in Nat /\ MaxCopies \in Nat /\ MaxFaults \in Nat

Null == 0

Traces == 1..MaxTraces

Runs == 1..MaxRuns

Stages == {StageOrder[i] : i \in 1..Len(StageOrder)}

Finished == {"awaiting_confirmation", "succeeded", "failed"}

Statuses == {"absent", "queued"} \cup Stages \cup Finished

\* The columns of generation_jobs that decide anything.  progress follows
\* status, and trace_id and preview_id are NULL or the trace that set them.
Row == [status : Statuses, trace : Traces \cup {Null}, preview : Traces \cup {Null}]

NoRow == [status |-> "absent", trace |-> Null, preview |-> Null]

VARIABLES
  row,       \* the committed row of the job
  used,      \* generation_used of the user's quota period
  saved,     \* PostgreSQL: trace whose draft is the job's preview
  creator,   \* where each create request stands
  retrier,   \* rows retry requests have loaded, NoRow when there is none
  sent,      \* number of events enqueued; the trace of the last one
  trace,     \* trace carried by each message
  place,     \* where the broker has the message
  failed,    \* failed deliveries of the message
  pc,        \* where its task stands
  loaded,    \* the job object in the task's session
  marked,    \* traces with a processed_events row
  faults,    \* crashes and database errors so far
  shared     \* history: two sessions have held the job's row at once

jobVars == <<row, used, saved>>
apiVars == <<creator, retrier>>
messageVars == <<sent, trace, place, failed>>
runVars == <<pc, loaded>>
vars == <<jobVars, apiVars, messageVars, runVars, marked, faults, shared>>

Labels == {"idle", "check", "claim", "skip", "work", "saved", "raised", "terminal",
           "close", "deadletter", "ack"}

TypeOK ==
  /\ row \in Row
  /\ used \in Nat
  /\ saved \in Traces \cup {Null}
  /\ creator \in [Creators -> {"idle", "insert", "done", "refused"}]
  /\ retrier \in [Retriers -> Row]
  /\ sent \in 0..MaxTraces
  /\ trace \in [Runs -> Traces \cup {Null}]
  /\ place \in [Runs -> {"unused", "ready", "unacked", "delayed", "acked"}]
  /\ failed \in [Runs -> Nat]
  /\ pc \in [Runs -> Labels]
  /\ loaded \in [Runs -> Row]
  /\ marked \in SUBSET Traces
  /\ faults \in Nat
  /\ shared \in BOOLEAN

Init ==
  /\ row = NoRow
  /\ used = 0
  /\ saved = Null
  /\ creator = [c \in Creators |-> "idle"]
  /\ retrier = [u \in Retriers |-> NoRow]
  /\ sent = 0
  /\ trace = [m \in Runs |-> Null]
  /\ place = [m \in Runs |-> "unused"]
  /\ failed = [m \in Runs |-> 0]
  /\ pc = [m \in Runs |-> "idle"]
  /\ loaded = [m \in Runs |-> NoRow]
  /\ marked = {}
  /\ faults = 0
  /\ shared = FALSE

\* A session that will still write the row it has loaded.
Holding == {"work", "saved", "close"}

Held == (\E m \in Runs : pc[m] \in Holding) \/ \E u \in Retriers : retrier[u] # NoRow

Share == shared' = (shared \/ Held)

\* A flush: the columns whose value was changed since the object was loaded.
Column(old, new, current) == IF new # old THEN new ELSE current

Flush(old, new) ==
  row' = [status |-> Column(old.status, new.status, row.status),
          trace |-> Column(old.trace, new.trace, row.trace),
          preview |-> Column(old.preview, new.preview, row.preview)]

(***************************************************************************)
(* The API                                                                 *)
(***************************************************************************)

\* create looks the key up without a lock and returns a job that exists.
CreateLookup(c) ==
  /\ creator[c] = "idle"
  /\ creator' = [creator EXCEPT ![c] = IF row.status = "absent" THEN "insert" ELSE "done"]
  /\ UNCHANGED <<jobVars, retrier, messageVars, runVars, marked, faults, shared>>

\* Mutant of KeyBound: no unique constraint on (user_id, idempotency_key).
KeyNeverBound == FALSE

KeyBound == row.status # "absent"

\* consume holds the user row until the commit, so the quota check, the unique
\* key and the insert are one step for other creates; a violated key or an
\* exhausted quota rolls all of it back.
CreateInsert(c) ==
  /\ creator[c] = "insert"
  /\ IF KeyBound \/ used >= QuotaLimit
       THEN /\ creator' = [creator EXCEPT ![c] = "refused"]
            /\ UNCHANGED <<row, used, sent>>
       ELSE /\ sent < MaxTraces
            /\ sent' = sent + 1
            /\ row' = [status |-> "queued", trace |-> sent + 1, preview |-> Null]
            /\ used' = used + 1
            /\ creator' = [creator EXCEPT ![c] = "done"]
  /\ UNCHANGED <<saved, retrier, trace, place, failed, runVars, marked, faults, shared>>

Retryable == row.status = "failed"

\* retry loads the job without a lock ...
RetryLoad(u) ==
  /\ retrier[u] = NoRow
  /\ Retryable
  /\ retrier' = [retrier EXCEPT ![u] = row]
  /\ Share
  /\ UNCHANGED <<jobVars, creator, messageVars, runVars, marked, faults>>

\* ... and commits the reset and a new event with a new trace_id.
RetryCommit(u) ==
  /\ retrier[u] # NoRow
  /\ sent < MaxTraces
  /\ sent' = sent + 1
  /\ Flush(retrier[u], [status |-> "queued", trace |-> sent + 1, preview |-> Null])
  /\ retrier' = [retrier EXCEPT ![u] = NoRow]
  /\ UNCHANGED <<used, saved, creator, trace, place, failed, runVars, marked, faults, shared>>

(***************************************************************************)
(* Delivery: at least once, in any order (EventDelivery has the detail)    *)
(***************************************************************************)

NextRun(m) ==
  /\ place[m] = "unused"
  /\ \A k \in Runs : place[k] = "unused" => m <= k

Publish(m, t) ==
  /\ NextRun(m)
  /\ t <= sent
  /\ Cardinality({k \in Runs : trace[k] = t}) < MaxCopies
  /\ trace' = [trace EXCEPT ![m] = t]
  /\ place' = [place EXCEPT ![m] = "ready"]
  /\ UNCHANGED <<jobVars, apiVars, sent, failed, runVars, marked, faults, shared>>

Deliver(m) ==
  /\ place[m] = "ready"
  /\ place' = [place EXCEPT ![m] = "unacked"]
  /\ pc' = [pc EXCEPT ![m] = "check"]
  /\ UNCHANGED <<jobVars, apiVars, sent, trace, failed, loaded, marked, faults, shared>>

ExpireDelay(m) ==
  /\ place[m] = "delayed"
  /\ place' = [place EXCEPT ![m] = "ready"]
  /\ UNCHANGED <<jobVars, apiVars, sent, trace, failed, runVars, marked, faults, shared>>

Goto(m, label) == pc' = [pc EXCEPT ![m] = label]

CheckProcessed(m) ==
  /\ pc[m] = "check"
  /\ Goto(m, IF trace[m] \in marked THEN "ack" ELSE "claim")
  /\ UNCHANGED <<jobVars, apiVars, messageVars, loaded, marked, faults, shared>>

(***************************************************************************)
(* A worker attempt                                                        *)
(***************************************************************************)

Claimable == row.status = "queued"

Claimed(m) == [row EXCEPT !.status = StageOrder[1], !.trace = trace[m]]

\* start_attempt and the commit after it, in a fresh session under FOR UPDATE.
StartAttempt(m) ==
  /\ pc[m] = "claim"
  /\ IF Claimable
       THEN /\ row' = Claimed(m)
            /\ loaded' = [loaded EXCEPT ![m] = Claimed(m)]
            /\ Share
            /\ Goto(m, "work")
       ELSE Goto(m, "skip") /\ UNCHANGED <<row, loaded, shared>>
  /\ UNCHANGED <<used, saved, apiVars, messageVars, marked, faults>>

\* The write of a session: the flush and the object that now equals it.
Write(m, new) ==
  /\ Flush(loaded[m], new)
  /\ loaded' = [loaded EXCEPT ![m] = new]

\* Mutant of Later: the stage order is not checked.
AnyStage(old, new) == old # new

Later(old, new) ==
  \E i, j \in 1..Len(StageOrder) : i < j /\ StageOrder[i] = old /\ StageOrder[j] = new

\* mark_progress and the commit after it.  The status and trace_id it checks
\* are those of the loaded object, so for the attempt that loaded it only the
\* stage order can refuse.
MarkProgress(m, s) ==
  /\ pc[m] = "work"
  /\ Later(loaded[m].status, s)
  /\ loaded[m].trace = trace[m]
  /\ Write(m, [loaded[m] EXCEPT !.status = s])
  /\ UNCHANGED <<used, saved, apiVars, messageVars, pc, marked, faults, shared>>

\* The preview of a job is inserted once (ON CONFLICT DO NOTHING).
Draft(m) == IF saved = Null THEN trace[m] ELSE saved

SavePreview(m) ==
  /\ pc[m] = "work"
  /\ saved' = Draft(m)
  /\ Goto(m, "saved")
  /\ UNCHANGED <<row, used, apiVars, messageVars, loaded, marked, faults, shared>>

\* mark_preview_ready; mark_no_result; mark_invalid_draft and the
\* mark_unavailable of a disabled AI.  The checks read the loaded object,
\* which this attempt left in a stage.
Outcomes(m) ==
  IF pc[m] = "saved"
    THEN {[loaded[m] EXCEPT !.status = "awaiting_confirmation", !.preview = saved]}
    ELSE {[loaded[m] EXCEPT !.status = "succeeded"], [loaded[m] EXCEPT !.status = "failed"]}

\* The result and the processed_events row commit together; when another
\* delivery has committed the row, the IntegrityError rolls both back.
FinishAttempt(m) ==
  /\ pc[m] \in {"work", "saved"}
  /\ IF trace[m] \in marked
       THEN UNCHANGED <<row, loaded, marked>>
       ELSE /\ \E new \in Outcomes(m) : Write(m, new)
            /\ marked' = marked \cup {trace[m]}
  /\ Goto(m, "ack")
  /\ UNCHANGED <<used, saved, apiVars, messageVars, faults, shared>>

\* A delivery that could not claim commits its processed_events row.
SkipAttempt(m) ==
  /\ pc[m] = "skip"
  /\ marked' = marked \cup {trace[m]}
  /\ Goto(m, "ack")
  /\ UNCHANGED <<jobVars, apiVars, messageVars, loaded, faults, shared>>

\* Mutant of PrepareRetry: the release is rolled back with the failed handler.
RetryWithoutRelease(m) ==
  /\ pc[m] \in {"work", "saved"}
  /\ Goto(m, "raised")
  /\ UNCHANGED <<jobVars, apiVars, messageVars, loaded, marked, faults, shared>>

\* _prepare_generation_retry: an unavailable dependency or an unexpected error
\* puts the row back to queued, whatever it has become, and commits.
PrepareRetry(m) ==
  /\ pc[m] \in {"work", "saved"}
  /\ Write(m, [loaded[m] EXCEPT !.status = "queued"])
  /\ Goto(m, "raised")
  /\ UNCHANGED <<used, saved, apiVars, messageVars, marked, faults, shared>>

\* A database error rolls the transaction back and leaves the session unusable,
\* so nothing is released.
DatabaseError(m) ==
  /\ pc[m] \in {"check", "claim", "skip", "work", "saved"}
  /\ faults < MaxFaults
  /\ faults' = faults + 1
  /\ Goto(m, "raised")
  /\ UNCHANGED <<jobVars, apiVars, messageVars, loaded, marked, shared>>

(***************************************************************************)
(* After a failed delivery                                                 *)
(***************************************************************************)

Exhausted(m) == failed[m] + 1 >= MaxFailed

RejectDelivery(m) ==
  /\ pc[m] = "raised"
  /\ ~Exhausted(m)
  /\ failed' = [failed EXCEPT ![m] = @ + 1]
  /\ place' = [place EXCEPT ![m] = "delayed"]
  /\ Goto(m, "idle")
  /\ UNCHANGED <<jobVars, apiVars, sent, trace, loaded, marked, faults, shared>>

GiveUp(m) ==
  /\ pc[m] = "raised"
  /\ Exhausted(m)
  /\ Goto(m, "terminal")
  /\ UNCHANGED <<jobVars, apiVars, messageVars, loaded, marked, faults, shared>>

\* _finalize_generation_failure loads the row in a new session without a lock
\* and stops unless it is queued ...
LoadForClose(m) ==
  /\ pc[m] = "terminal"
  /\ loaded' = [loaded EXCEPT ![m] = row]
  /\ IF row.status = "queued"
       THEN Goto(m, "close") /\ Share
       ELSE Goto(m, "deadletter") /\ UNCHANGED shared
  /\ UNCHANGED <<jobVars, apiVars, messageVars, marked, faults>>

\* ... then commits failed.
CloseJob(m) ==
  /\ pc[m] = "close"
  /\ Write(m, [loaded[m] EXCEPT !.status = "failed"])
  /\ Goto(m, "deadletter")
  /\ UNCHANGED <<used, saved, apiVars, messageVars, marked, faults, shared>>

PublishDeadLetter(m) ==
  /\ pc[m] = "deadletter"
  /\ Goto(m, "ack")
  /\ UNCHANGED <<jobVars, apiVars, messageVars, loaded, marked, faults, shared>>

Ack(m) ==
  /\ pc[m] = "ack"
  /\ place' = [place EXCEPT ![m] = "acked"]
  /\ Goto(m, "idle")
  /\ UNCHANGED <<jobVars, apiVars, sent, trace, failed, loaded, marked, faults, shared>>

\* The process that runs the task dies and the broker requeues its message.
Crash(m) ==
  /\ pc[m] # "idle"
  /\ faults < MaxFaults
  /\ faults' = faults + 1
  /\ place' = [place EXCEPT ![m] = "ready"]
  /\ Goto(m, "idle")
  /\ UNCHANGED <<jobVars, apiVars, sent, trace, failed, loaded, marked, shared>>

(***************************************************************************)
(* Specification                                                           *)
(***************************************************************************)

ApiStep ==
  \/ \E c \in Creators : CreateLookup(c) \/ CreateInsert(c)
  \/ \E u \in Retriers : RetryLoad(u) \/ RetryCommit(u)

RunStep(m) ==
  \/ CheckProcessed(m) \/ StartAttempt(m) \/ SavePreview(m) \/ FinishAttempt(m)
  \/ SkipAttempt(m) \/ PrepareRetry(m) \/ RejectDelivery(m) \/ GiveUp(m)
  \/ LoadForClose(m) \/ CloseJob(m) \/ PublishDeadLetter(m) \/ Ack(m)
  \/ \E s \in Stages : MarkProgress(m, s)

BrokerStep(m) == Deliver(m) \/ ExpireDelay(m)

Fault == \E m \in Runs : Crash(m) \/ DatabaseError(m)

Next ==
  \/ ApiStep
  \/ \E m \in Runs : RunStep(m) \/ BrokerStep(m) \/ \E t \in Traces : Publish(m, t)
  \/ Fault

\* The publisher gets every event to the broker, the broker delivers, and a
\* started task goes on (the calls of the workflow have timeouts).
PublishFirst(t) == (\A m \in Runs : trace[m] # t) /\ \E m \in Runs : Publish(m, t)

Fairness ==
  /\ \A t \in Traces : WF_vars(PublishFirst(t))
  /\ \A m \in Runs : WF_vars(RunStep(m)) /\ WF_vars(BrokerStep(m))

Spec == Init /\ [][Next]_vars

FairSpec == Spec /\ Fairness

(***************************************************************************)
(* Properties                                                              *)
(***************************************************************************)

\* However many create requests carry the key and whatever they race with, the
\* quota is charged once if the job exists and not at all if it does not
\* (consume and the insert share one transaction under the user row's lock).
QuotaOncePerJob == used = IF row.status = "absent" THEN 0 ELSE 1

\* A stored draft stays, and it is the one the job offers.
PreviewStays ==
  /\ saved # Null => saved' = saved
  /\ row'.preview # Null => row'.preview = saved'

\* The draft stored for a job is never replaced, whatever retries and
\* duplicate attempts save, and it is the one the job offers (save_preview).
PreviewIsImmutable == [][PreviewStays]_vars

\* What a job costs and what it offers after every step: one unit, and one
\* draft for good (consume and the insert; save_preview).
JobIsSound == [][QuotaOncePerJob' /\ PreviewStays]_vars

Lifecycle == INSTANCE GenerationLifecycle
  WITH status <- row.status, trace <- row.trace, Attempts <- Traces

\* Whatever is delivered late or twice, retried, exhausted or lost in a crash,
\* the job keeps the promised life: an attempt only moves it forward, nothing
\* overwrites a finished job, a retry only follows a failure.  The promise ends
\* where two sessions hold the row at once, because the checks are made on what
\* each has loaded.
KeepsLifecycle == Lifecycle!Life

\* A job that was accepted is in the end offered, closed without a result or
\* failed, and so can be retried.
JobFinishes == row.status = "queued" ~> row.status \in Finished
==============================================================================
