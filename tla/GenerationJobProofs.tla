------------------------- MODULE GenerationJobProofs -------------------------
(***************************************************************************)
(* Proofs about GenerationJob for any number of requests, stages, events,  *)
(* deliveries and faults.                                                  *)
(***************************************************************************)
EXTENDS GenerationJob, FiniteSetTheorems, TLAPS

(***************************************************************************)
(* The inductive invariant.  Before the job exists no session holds it, so *)
(* no late write can create it beside create; every copy of the row knows  *)
(* no preview or the one PostgreSQL has; and a task has a message.         *)
(***************************************************************************)

AbsentIsUnseen ==
  row.status = "absent" =>
    /\ \A u \in Retriers : retrier[u] = NoRow
    /\ \A m \in Runs : pc[m] \notin Holding

HeldRowExists == \A m \in Runs : pc[m] \in Holding => loaded[m].status # "absent"

PreviewIsSaved ==
  /\ row.preview \in {Null, saved}
  /\ \A u \in Retriers : retrier[u].preview \in {Null, saved}
  /\ \A m \in Runs : loaded[m].preview \in {Null, saved}

TaskHasMessage ==
  \A m \in Runs :
    /\ place[m] # "unused" => trace[m] \in Traces
    /\ pc[m] # "idle" => place[m] = "unacked"

JobInv ==
  /\ TypeOK /\ TaskHasMessage /\ AbsentIsUnseen /\ HeldRowExists /\ PreviewIsSaved /\ QuotaOncePerJob

LEMMA StageFacts ==
  /\ StageOrder[1] \in Stages
  /\ \A s \in Stages : s \in Statuses /\ s \notin {"absent", "queued"} \cup Finished
<1>1. StageOrder \in Seq(STRING) /\ Len(StageOrder) > 0 BY JobAssumption
<1>2. Len(StageOrder) \in Nat BY <1>1
<1>3. 1 \in 1..Len(StageOrder) BY <1>1, <1>2
<1>4. QED BY <1>3, JobAssumption DEF Stages, Statuses, Finished

\* A flush leaves a row, and each column has its old value or the written one.
LEMMA FlushRow ==
  ASSUME row \in Row, NEW old \in Row, NEW new \in Row, Flush(old, new)
  PROVE  /\ row' \in Row
         /\ row'.status \in {row.status, new.status}
         /\ row'.preview \in {row.preview, new.preview}
BY DEF Flush, Column, Row

LEMMA NoRowType == NoRow \in Row
BY DEF NoRow, Row, Statuses

LEMMA JobInit == Init => JobInv
<1> SUFFICES ASSUME Init PROVE JobInv
  OBVIOUS
<1>1. NoRow \in Row /\ NoRow.status = "absent" /\ NoRow.preview = Null
  BY NoRowType DEF NoRow
<1>2. 0 \in 0..MaxTraces BY JobAssumption
<1>3. TypeOK BY <1>1, <1>2 DEF Init, TypeOK, Labels
<1>4. QED BY <1>1, <1>3 DEF Init, JobInv, TaskHasMessage, AbsentIsUnseen, HeldRowExists, PreviewIsSaved, QuotaOncePerJob, Holding

(***************************************************************************)
(* Frames                                                                  *)
(***************************************************************************)

\* A task that moves to a label at which it holds no row, while the job and
\* every session stay as they are.
LEMMA QuietMove ==
  ASSUME JobInv, UNCHANGED <<jobVars, apiVars, loaded>>,
         NEW m \in Runs, pc' \in [Runs -> Labels],
         \A k \in Runs : k # m => pc'[k] = pc[k],
         pc'[m] \notin Holding \/ (pc'[m] \in Holding /\ pc[m] \in Holding),
         sent' = sent, trace' = trace,
         place' \in [Runs -> {"unused", "ready", "unacked", "delayed", "acked"}],
         \A k \in Runs : k # m => place'[k] = place[k],
         place[m] # "unused" /\ (pc'[m] # "idle" => place'[m] = "unacked"),
         failed' \in [Runs -> Nat], marked' \in SUBSET Traces, faults' \in Nat, shared' \in BOOLEAN
  PROVE  JobInv'
<1>1. TypeOK' BY DEF JobInv, TypeOK, jobVars, apiVars
<1>2. AbsentIsUnseen' /\ HeldRowExists' BY DEF JobInv, AbsentIsUnseen, HeldRowExists, jobVars, apiVars
<1>3. PreviewIsSaved' /\ QuotaOncePerJob'
  BY DEF JobInv, PreviewIsSaved, QuotaOncePerJob, jobVars, apiVars
<1>4. TaskHasMessage' BY DEF JobInv, TaskHasMessage
<1>5. QED BY <1>1, <1>2, <1>3, <1>4 DEF JobInv

LEMMA QuietGoto ==
  ASSUME JobInv, UNCHANGED <<jobVars, apiVars, loaded>>, NEW m \in Runs, NEW label \in Labels,
         Goto(m, label), label \notin Holding \/ pc[m] \in Holding,
         sent' = sent, trace' = trace,
         place' \in [Runs -> {"unused", "ready", "unacked", "delayed", "acked"}],
         \A k \in Runs : k # m => place'[k] = place[k],
         place[m] # "unused" /\ (label # "idle" => place'[m] = "unacked"),
         failed' \in [Runs -> Nat], marked' \in SUBSET Traces, faults' \in Nat, shared' \in BOOLEAN
  PROVE  JobInv'
<1>1. pc \in [Runs -> Labels] BY DEF JobInv, TypeOK
<1>2. /\ pc' \in [Runs -> Labels] /\ pc'[m] = label
      /\ \A k \in Runs : k # m => pc'[k] = pc[k]
  BY <1>1 DEF Goto
<1>3. QED BY <1>2, QuietMove

\* A session that holds the row writes it back with a status the job may have
\* and a preview that is the saved one.
LEMMA HeldWrite ==
  ASSUME JobInv, NEW m \in Runs, pc[m] \in Holding, NEW new \in Row, Write(m, new),
         new.status # "absent", new.preview \in {Null, saved},
         NEW label \in Labels, Goto(m, label) \/ (pc' = pc /\ label = pc[m]),
         UNCHANGED <<used, saved, apiVars, messageVars>>,
         marked' \in SUBSET Traces, faults' \in Nat, shared' \in BOOLEAN
  PROVE  JobInv'
<1>1. TypeOK /\ TaskHasMessage /\ AbsentIsUnseen /\ HeldRowExists /\ PreviewIsSaved /\ QuotaOncePerJob BY DEF JobInv
<1>2. /\ row \in Row /\ loaded \in [Runs -> Row] /\ pc \in [Runs -> Labels]
      /\ loaded[m] \in Row
  BY <1>1 DEF TypeOK
<1>3. /\ row' \in Row
      /\ row'.status \in {row.status, new.status}
      /\ row'.preview \in {row.preview, new.preview}
  BY <1>2, FlushRow DEF Write
<1>4. /\ loaded' \in [Runs -> Row] /\ loaded'[m] = new
      /\ \A k \in Runs : k # m => loaded'[k] = loaded[k]
  BY <1>2 DEF Write
<1>5. /\ pc' \in [Runs -> Labels]
      /\ \A k \in Runs : k # m => pc'[k] = pc[k]
  BY <1>2 DEF Goto
<1>6. row.status # "absent" /\ row'.status # "absent"
  BY <1>1, <1>3 DEF AbsentIsUnseen
<1>7. TypeOK' BY <1>1, <1>3, <1>4, <1>5 DEF TypeOK, apiVars, messageVars
<1>8. AbsentIsUnseen' BY <1>6 DEF AbsentIsUnseen
<1>9. HeldRowExists' BY <1>1, <1>4, <1>5 DEF HeldRowExists
<1>10. PreviewIsSaved' BY <1>1, <1>3, <1>4 DEF PreviewIsSaved, apiVars
<1>11. QuotaOncePerJob' BY <1>1, <1>6 DEF QuotaOncePerJob
<1>12. TaskHasMessage'
  BY <1>1, <1>5 DEF TaskHasMessage, messageVars, Holding
<1>13. QED BY <1>12, <1>7, <1>8, <1>9, <1>10, <1>11 DEF JobInv

(***************************************************************************)
(* The steps                                                               *)
(***************************************************************************)

LEMMA CreateSteps ==
  ASSUME JobInv, NEW c \in Creators, CreateLookup(c) \/ CreateInsert(c)
  PROVE  JobInv'
<1>0. TypeOK /\ TaskHasMessage /\ AbsentIsUnseen /\ HeldRowExists /\ PreviewIsSaved /\ QuotaOncePerJob BY DEF JobInv
<1>1. CASE CreateLookup(c)
  BY <1>0, <1>1 DEF CreateLookup, JobInv, TypeOK, TaskHasMessage, AbsentIsUnseen, HeldRowExists,
    PreviewIsSaved, QuotaOncePerJob, jobVars, messageVars, runVars
<1>2. CASE CreateInsert(c) /\ (KeyBound \/ used >= QuotaLimit)
  BY <1>0, <1>2 DEF CreateInsert, JobInv, TypeOK, TaskHasMessage, AbsentIsUnseen, HeldRowExists,
    PreviewIsSaved, QuotaOncePerJob, runVars
<1>3. CASE CreateInsert(c) /\ ~(KeyBound \/ used >= QuotaLimit)
  <2>1. /\ sent' = sent + 1 /\ used' = used + 1 /\ sent < MaxTraces
        /\ row' = [status |-> "queued", trace |-> sent + 1, preview |-> Null]
        /\ creator' = [creator EXCEPT ![c] = "done"]
        /\ UNCHANGED <<saved, retrier, trace, place, failed, pc, loaded, marked, faults, shared>>
    BY <1>3 DEF CreateInsert, runVars
  <2>2. sent + 1 \in Traces /\ sent + 1 \in 0..MaxTraces
    BY <1>0, <2>1, JobAssumption DEF TypeOK, Traces
  <2>3. row' \in Row BY <2>1, <2>2 DEF Row, Statuses
  <2>4. TypeOK' BY <1>0, <2>1, <2>2, <2>3 DEF TypeOK
  <2>5. used = 0 BY <1>0, <1>3 DEF KeyBound, QuotaOncePerJob
  <2>6. QED BY <1>0, <2>1, <2>4, <2>5
    DEF JobInv, TaskHasMessage, AbsentIsUnseen, HeldRowExists, PreviewIsSaved, QuotaOncePerJob
<1>4. QED BY <1>1, <1>2, <1>3

LEMMA RetrySteps ==
  ASSUME JobInv, NEW u \in Retriers, RetryLoad(u) \/ RetryCommit(u)
  PROVE  JobInv'
<1>0. TypeOK /\ TaskHasMessage /\ AbsentIsUnseen /\ HeldRowExists /\ PreviewIsSaved /\ QuotaOncePerJob BY DEF JobInv
<1>1. CASE RetryLoad(u)
  BY <1>0, <1>1 DEF RetryLoad, Share, Retryable, JobInv, TypeOK, TaskHasMessage, AbsentIsUnseen, HeldRowExists,
    PreviewIsSaved, QuotaOncePerJob, jobVars, messageVars, runVars
<1>2. CASE RetryCommit(u)
  <2> DEFINE new == [status |-> "queued", trace |-> sent + 1, preview |-> Null]
  <2>1. /\ sent' = sent + 1 /\ sent < MaxTraces
        /\ Flush(retrier[u], new)
        /\ retrier' = [retrier EXCEPT ![u] = NoRow]
        /\ retrier[u] # NoRow
        /\ UNCHANGED <<used, saved, creator, trace, place, failed, pc, loaded, marked, faults, shared>>
    BY <1>2 DEF RetryCommit, runVars
  <2>2. sent + 1 \in Traces /\ sent + 1 \in 0..MaxTraces
    BY <1>0, <2>1, JobAssumption DEF TypeOK, Traces
  <2>3. new \in Row BY <2>2 DEF Row, Statuses
  <2>4. row \in Row /\ retrier[u] \in Row BY <1>0 DEF TypeOK
  <2>5. /\ row' \in Row
        /\ row'.status \in {row.status, new.status}
        /\ row'.preview \in {row.preview, new.preview}
    BY <2>1, <2>3, <2>4, FlushRow
  <2>6. row.status # "absent" /\ row'.status # "absent"
    BY <1>0, <2>1, <2>5 DEF AbsentIsUnseen
  <2>7. TypeOK' BY <1>0, <2>1, <2>2, <2>5, NoRowType DEF TypeOK
  <2>8. PreviewIsSaved' BY <1>0, <2>1, <2>5 DEF PreviewIsSaved, NoRow, TypeOK
  <2>9. QED BY <1>0, <2>1, <2>6, <2>7, <2>8 DEF JobInv, TaskHasMessage, AbsentIsUnseen, HeldRowExists, QuotaOncePerJob
<1>3. QED BY <1>1, <1>2

LEMMA BrokerSteps ==
  ASSUME JobInv, NEW m \in Runs, BrokerStep(m) \/ \E t \in Traces : Publish(m, t)
  PROVE  JobInv'
<1>0. TypeOK BY DEF JobInv
<1>1. CASE Deliver(m)
  BY <1>0, <1>1, QuietGoto DEF Deliver, Goto, TypeOK, Labels, Holding, jobVars, apiVars
<1>2. CASE ExpireDelay(m)
  BY <1>0, <1>2 DEF ExpireDelay, JobInv, TypeOK, TaskHasMessage, AbsentIsUnseen, HeldRowExists,
    PreviewIsSaved, QuotaOncePerJob, jobVars, apiVars, runVars
<1>3. CASE \E t \in Traces : Publish(m, t)
  <2>1. PICK t \in Traces : Publish(m, t) BY <1>3
  <2>2. /\ place[m] = "unused"
        /\ trace' = [trace EXCEPT ![m] = t] /\ place' = [place EXCEPT ![m] = "ready"]
        /\ UNCHANGED <<row, used, saved, creator, retrier, sent, failed, pc, loaded, marked, faults, shared>>
    BY <2>1 DEF Publish, NextRun, jobVars, apiVars, runVars
  <2>3. TypeOK' BY <1>0, <2>2 DEF TypeOK
  <2>4. TaskHasMessage' BY <1>0, <2>2 DEF JobInv, TaskHasMessage, TypeOK
  <2>5. QED BY <2>2, <2>3, <2>4 DEF JobInv, AbsentIsUnseen, HeldRowExists, PreviewIsSaved, QuotaOncePerJob
<1>4. QED BY <1>1, <1>2, <1>3 DEF BrokerStep

\* Steps of a task that neither load nor write the row.
LEMMA TaskMoves ==
  ASSUME JobInv, NEW m \in Runs,
         \/ CheckProcessed(m) \/ SkipAttempt(m) \/ RejectDelivery(m) \/ GiveUp(m)
         \/ PublishDeadLetter(m) \/ Ack(m) \/ Crash(m) \/ DatabaseError(m)
  PROVE  JobInv'
<1>0. TypeOK /\ TaskHasMessage BY DEF JobInv
<1>a. pc[m] # "idle" => place[m] = "unacked" /\ trace[m] \in Traces BY <1>0 DEF TaskHasMessage
<1> USE DEF Labels, Holding, messageVars
<1>1. CASE CheckProcessed(m)
  <2>1. PICK label \in {"ack", "claim"} : Goto(m, label) BY <1>1 DEF CheckProcessed
  <2>2. QED BY <1>0, <1>a, <1>1, <2>1, QuietGoto DEF CheckProcessed, TypeOK
<1>2. CASE SkipAttempt(m)
  BY <1>0, <1>a, <1>2, QuietGoto DEF SkipAttempt, TypeOK
<1>3. CASE RejectDelivery(m)
  BY <1>0, <1>a, <1>3, QuietGoto DEF RejectDelivery, TypeOK
<1>4. CASE GiveUp(m)
  BY <1>0, <1>a, <1>4, QuietGoto DEF GiveUp, TypeOK
<1>5. CASE PublishDeadLetter(m)
  BY <1>0, <1>a, <1>5, QuietGoto DEF PublishDeadLetter, TypeOK
<1>6. CASE Ack(m)
  BY <1>0, <1>a, <1>6, QuietGoto DEF Ack, TypeOK
<1>7. CASE Crash(m)
  BY <1>0, <1>a, <1>7, QuietGoto DEF Crash, TypeOK
<1>8. CASE DatabaseError(m)
  BY <1>0, <1>a, <1>8, QuietGoto DEF DatabaseError, TypeOK
<1>9. QED BY <1>1, <1>2, <1>3, <1>4, <1>5, <1>6, <1>7, <1>8

\* Steps that load the row into a session.
LEMMA LoadSteps ==
  ASSUME JobInv, NEW m \in Runs, StartAttempt(m) \/ LoadForClose(m)
  PROVE  JobInv'
<1>0. TypeOK /\ TaskHasMessage /\ AbsentIsUnseen /\ HeldRowExists /\ PreviewIsSaved /\ QuotaOncePerJob
  BY DEF JobInv
<1>a. trace[m] \in Traces /\ pc \in [Runs -> Labels] /\ row \in Row /\ loaded \in [Runs -> Row]
  BY <1>0 DEF TaskHasMessage, TypeOK, StartAttempt, LoadForClose
<1>1. CASE StartAttempt(m) /\ Claimable
  <2> DEFINE new == Claimed(m)
  <2>1. /\ row' = new /\ loaded' = [loaded EXCEPT ![m] = new]
        /\ pc' = [pc EXCEPT ![m] = "work"] /\ pc[m] = "claim" /\ row.status = "queued"
        /\ UNCHANGED <<used, saved, creator, retrier, sent, trace, place, failed, marked, faults>>
        /\ shared' \in BOOLEAN
    BY <1>0, <1>1 DEF StartAttempt, Share, TypeOK, Claimable, Goto, apiVars, messageVars
  <2>2. new \in Row /\ new.status # "absent" /\ new.preview = row.preview
    BY <1>a, StageFacts DEF Claimed, Row
  <2> HIDE DEF new
  <2>3. TypeOK' BY <1>0, <1>a, <2>1, <2>2 DEF TypeOK, Labels
  <2>4. AbsentIsUnseen' /\ HeldRowExists' BY <1>0, <1>a, <2>1, <2>2 DEF AbsentIsUnseen, HeldRowExists
  <2>5. PreviewIsSaved' BY <1>0, <1>a, <2>1, <2>2 DEF PreviewIsSaved
  <2>6. QuotaOncePerJob' /\ TaskHasMessage' BY <1>0, <1>a, <2>1, <2>2 DEF QuotaOncePerJob, TaskHasMessage
  <2>7. QED BY <2>3, <2>4, <2>5, <2>6 DEF JobInv
<1>2. CASE StartAttempt(m) /\ ~Claimable
  BY <1>0, <1>2, QuietGoto DEF StartAttempt, TypeOK, TaskHasMessage, Labels, Holding, jobVars, messageVars
<1>3. CASE LoadForClose(m)
  <2>1. PICK label \in {"close", "deadletter"} :
          /\ pc' = [pc EXCEPT ![m] = label] /\ pc[m] = "terminal"
          /\ label = "close" => row.status = "queued"
          /\ loaded' = [loaded EXCEPT ![m] = row]
          /\ UNCHANGED <<row, used, saved, creator, retrier, sent, trace, place, failed, marked, faults>>
          /\ shared' \in BOOLEAN
    BY <1>0, <1>3 DEF LoadForClose, Share, TypeOK, Goto, jobVars, apiVars, messageVars
  <2>2. TypeOK' BY <1>0, <1>a, <2>1 DEF TypeOK, Labels
  <2>3. AbsentIsUnseen' /\ HeldRowExists' BY <1>0, <1>a, <2>1 DEF AbsentIsUnseen, HeldRowExists, Holding
  <2>4. PreviewIsSaved' BY <1>0, <1>a, <2>1 DEF PreviewIsSaved
  <2>5. QuotaOncePerJob' /\ TaskHasMessage' BY <1>0, <1>a, <2>1 DEF QuotaOncePerJob, TaskHasMessage
  <2>6. QED BY <2>2, <2>3, <2>4, <2>5 DEF JobInv
<1>4. QED BY <1>1, <1>2, <1>3

\* Steps that write the row a session holds.
LEMMA WriteSteps ==
  ASSUME JobInv, NEW m \in Runs,
         \/ \E s \in Stages : MarkProgress(m, s)
         \/ PrepareRetry(m) \/ CloseJob(m) \/ FinishAttempt(m)
  PROVE  JobInv'
<1>0. TypeOK /\ TaskHasMessage /\ PreviewIsSaved BY DEF JobInv
<1>a. /\ loaded[m] \in Row /\ loaded[m].preview \in {Null, saved} /\ saved \in Traces \cup {Null}
      /\ pc[m] \in Labels /\ marked \in SUBSET Traces /\ faults \in Nat /\ shared \in BOOLEAN
  BY <1>0 DEF TypeOK, PreviewIsSaved
<1>b. \A s \in Statuses : /\ [loaded[m] EXCEPT !.status = s] \in Row
                          /\ [loaded[m] EXCEPT !.status = s].status = s
                          /\ [loaded[m] EXCEPT !.status = s].preview \in {Null, saved}
  BY <1>a DEF Row
<1>1. CASE \E s \in Stages : MarkProgress(m, s)
  <2>1. PICK s \in Stages : MarkProgress(m, s) BY <1>1
  <2>2. s \in Statuses /\ s # "absent" BY StageFacts
  <2>3. QED BY <1>a, <1>b, <2>1, <2>2, HeldWrite DEF MarkProgress, Holding
<1>2. CASE PrepareRetry(m)
  <2>1. "queued" \in Statuses BY DEF Statuses
  <2>2. QED BY <1>a, <1>b, <1>2, <2>1, HeldWrite DEF PrepareRetry, Holding, Labels
<1>3. CASE CloseJob(m)
  <2>1. "failed" \in Statuses BY DEF Statuses, Finished
  <2>2. QED BY <1>a, <1>b, <1>3, <2>1, HeldWrite DEF CloseJob, Holding, Labels
<1>4. CASE FinishAttempt(m) /\ trace[m] \in marked
  BY <1>0, <1>4, QuietGoto DEF FinishAttempt, TypeOK, TaskHasMessage, Labels, Holding, jobVars, messageVars
<1>5. CASE FinishAttempt(m) /\ trace[m] \notin marked
  <2>1. PICK new \in Outcomes(m) : Write(m, new) BY <1>5 DEF FinishAttempt
  <2>2. new \in Row /\ new.status # "absent" /\ new.preview \in {Null, saved}
    <3>1. {"awaiting_confirmation", "succeeded", "failed"} \subseteq Statuses
      BY DEF Statuses, Finished
    <3>2. CASE pc[m] = "saved"
      <4>1. new = [loaded[m] EXCEPT !.status = "awaiting_confirmation", !.preview = saved]
        BY <2>1, <3>2 DEF Outcomes
      <4>2. QED BY <1>a, <3>1, <4>1 DEF Row
    <3>3. CASE pc[m] # "saved"
      BY <1>b, <2>1, <3>1, <3>3 DEF Outcomes
    <3>4. QED BY <3>2, <3>3
  <2>3. /\ pc[m] \in Holding /\ Goto(m, "ack") /\ "ack" \in Labels
        /\ UNCHANGED <<used, saved, apiVars, messageVars>>
        /\ marked' = marked \cup {trace[m]} /\ faults' = faults /\ shared' = shared
    BY <1>5 DEF FinishAttempt, Holding, Labels
  <2>4. marked' \in SUBSET Traces
    BY <1>0, <1>a, <2>3 DEF TaskHasMessage, Holding
  <2>5. QED BY <1>a, <2>1, <2>2, <2>3, <2>4, HeldWrite
<1>6. QED BY <1>1, <1>2, <1>3, <1>4, <1>5

\* Saving the preview keeps every copy of the row right: before it, none knows
\* a preview.
LEMMA SaveStep ==
  ASSUME JobInv, NEW m \in Runs, SavePreview(m)
  PROVE  JobInv'
<1>0. TypeOK /\ TaskHasMessage /\ AbsentIsUnseen /\ HeldRowExists /\ PreviewIsSaved /\ QuotaOncePerJob
  BY DEF JobInv
<1>1. /\ saved' = Draft(m) /\ pc[m] = "work" /\ pc' = [pc EXCEPT ![m] = "saved"]
      /\ UNCHANGED <<row, used, creator, retrier, sent, trace, place, failed, loaded, marked, faults, shared>>
  BY DEF SavePreview, Goto, apiVars, messageVars
<1>2. trace[m] \in Traces BY <1>0, <1>1 DEF TaskHasMessage
<1>3. saved' \in Traces \cup {Null} /\ (saved # Null => saved' = saved)
  BY <1>0, <1>1, <1>2 DEF Draft, TypeOK
<1>4. pc \in [Runs -> Labels] BY <1>0 DEF TypeOK
<1>5. TypeOK' BY <1>0, <1>1, <1>3 DEF TypeOK, Labels
<1>6. AbsentIsUnseen' /\ HeldRowExists' BY <1>0, <1>1, <1>4 DEF AbsentIsUnseen, HeldRowExists, Holding
<1>7. PreviewIsSaved' BY <1>0, <1>1, <1>3 DEF PreviewIsSaved
<1>8. QuotaOncePerJob' /\ TaskHasMessage' BY <1>0, <1>1, <1>4 DEF QuotaOncePerJob, TaskHasMessage
<1>9. QED BY <1>5, <1>6, <1>7, <1>8 DEF JobInv

LEMMA JobStep == JobInv /\ [Next]_vars => JobInv'
<1> SUFFICES ASSUME JobInv, [Next]_vars PROVE JobInv'
  OBVIOUS
<1>1. CASE ApiStep BY <1>1, CreateSteps, RetrySteps DEF ApiStep
<1>2. CASE \E m \in Runs : RunStep(m)
  BY <1>2, TaskMoves, LoadSteps, WriteSteps, SaveStep DEF RunStep
<1>3. CASE \E m \in Runs : BrokerStep(m) \/ \E t \in Traces : Publish(m, t)
  BY <1>3, BrokerSteps
<1>4. CASE Fault BY <1>4, TaskMoves DEF Fault
<1>5. CASE UNCHANGED vars
  BY <1>5 DEF JobInv, TypeOK, TaskHasMessage, AbsentIsUnseen, HeldRowExists, PreviewIsSaved,
    QuotaOncePerJob, vars, jobVars, apiVars, messageVars, runVars
<1>6. QED BY <1>1, <1>2, <1>3, <1>4, <1>5 DEF Next

LEMMA JobInvariant == Spec => []JobInv
<1>1. QED BY JobInit, JobStep, PTL DEF Spec

(***************************************************************************)
(* Theorems                                                                *)
(***************************************************************************)

\* Every variable keeps its type; the status is always one the CHECK constraint
\* of generation_jobs lists.
THEOREM TypeCorrect == Spec => []TypeOK
<1>1. JobInv => TypeOK BY DEF JobInv
<1>2. QED BY <1>1, JobInvariant, PTL

\* The quota is charged once for a job that exists and not at all otherwise,
\* under any interleaving of create, retry, duplicate deliveries and crashes.
THEOREM QuotaCharged == Spec => []QuotaOncePerJob
<1>1. JobInv => QuotaOncePerJob BY DEF JobInv
<1>2. QED BY <1>1, JobInvariant, PTL

\* A stored preview is never stored again.
LEMMA SavedStays ==
  ASSUME JobInv, [Next]_vars, saved # Null
  PROVE  saved' = saved
BY DEF Next, ApiStep, RunStep, BrokerStep, Fault, vars, jobVars, apiVars, messageVars, runVars,
  CreateLookup, CreateInsert, RetryLoad, RetryCommit, Publish, Deliver, ExpireDelay,
  CheckProcessed, StartAttempt, MarkProgress, SavePreview, Draft, FinishAttempt, SkipAttempt,
  PrepareRetry, DatabaseError, RejectDelivery, GiveUp, LoadForClose, CloseJob,
  PublishDeadLetter, Ack, Crash

\* The draft stored for a job is never replaced, whatever retries and duplicate
\* attempts save (ON CONFLICT DO NOTHING in save_preview), and the job offers it.
THEOREM PreviewKept == Spec => PreviewIsImmutable
<1>1. ASSUME JobInv, [Next]_vars, JobInv' PROVE PreviewStays
  <2>1. row'.preview \in {Null, saved'}
    BY <1>1 DEF JobInv, PreviewIsSaved
  <2>2. QED BY <1>1, <2>1, SavedStays DEF PreviewStays
<1>2. QED BY <1>1, JobInvariant, PTL DEF Spec, PreviewIsImmutable

\* What a job costs and what it offers, together.
THEOREM JobSound == Spec => JobIsSound
<1>1. QuotaOncePerJob' /\ [PreviewStays]_vars => [QuotaOncePerJob' /\ PreviewStays]_vars
  OBVIOUS
<1>2. QED BY <1>1, QuotaCharged, PreviewKept, PTL DEF JobIsSound, PreviewIsImmutable

(***************************************************************************)
(* The promised life.  Until two sessions have held the row at once, the   *)
(* one that holds it holds it as it is, in the state it took it over in;   *)
(* no row and no message carries a trace that has not been enqueued.       *)
(***************************************************************************)

TracesKnown ==
  /\ row.trace \in 0..sent
  /\ \A m \in Runs : trace[m] \in 0..sent /\ loaded[m].trace \in 0..sent
  /\ \A u \in Retriers : retrier[u].trace \in 0..sent

HeldAsIs ==
  /\ \A m \in Runs : pc[m] \in Holding => loaded[m] = row
  /\ \A m \in Runs : pc[m] \in {"work", "saved"} => row.status \in Stages
  /\ \A m \in Runs : pc[m] = "close" => row.status = "queued"
  /\ \A u \in Retriers : retrier[u] # NoRow => retrier[u] = row /\ row.status = "failed"

HeldAlone ==
  /\ \A m, n \in Runs : pc[m] \in Holding /\ pc[n] \in Holding => m = n
  /\ \A u, v \in Retriers : retrier[u] # NoRow /\ retrier[v] # NoRow => u = v
  /\ \A m \in Runs, u \in Retriers : ~(pc[m] \in Holding /\ retrier[u] # NoRow)

OneHolder == ~shared => HeldAsIs /\ HeldAlone

LifeStep == [Lifecycle!LifeNext]_(Lifecycle!lifeVars)

LEMMA LifeIsQuiet == ASSUME UNCHANGED <<row, shared>> PROVE LifeStep
BY DEF LifeStep, Lifecycle!lifeVars

LEMMA LifeIsOff == ASSUME shared' = TRUE PROVE LifeStep
BY DEF LifeStep, Lifecycle!LifeNext, Lifecycle!Share

LEMMA LifeBegins == Init => TracesKnown /\ OneHolder /\ Lifecycle!LifeInit
BY JobAssumption DEF Init, NoRow, TracesKnown, OneHolder, HeldAsIs, HeldAlone, Holding, Lifecycle!LifeInit, Null

\* What a session writes over the row it has just loaded is the row.
LEMMA WriteIsRow ==
  ASSUME NEW new \in Row, row \in Row, Flush(row, new)
  PROVE  row' = new
BY DEF Flush, Column, Row

\* The row with another status.
LEMMA Restatused ==
  ASSUME NEW r \in Row, NEW s \in Statuses
  PROVE  LET new == [r EXCEPT !.status = s]
         IN new \in Row /\ new.status = s /\ new.trace = r.trace
BY DEF Row

\* The row an attempt ends with.
LEMMA OutcomeRow ==
  ASSUME NEW m \in Runs, loaded[m] \in Row, saved \in Traces \cup {Null}, NEW new \in Outcomes(m)
  PROVE  /\ new \in Row /\ new.trace = loaded[m].trace
         /\ new.status \in {"awaiting_confirmation", "succeeded", "failed"}
<1>1. {"awaiting_confirmation", "succeeded", "failed"} \subseteq Statuses BY DEF Statuses, Finished
<1>2. CASE pc[m] = "saved"
  <2>1. new = [loaded[m] EXCEPT !.status = "awaiting_confirmation", !.preview = saved] BY <1>2 DEF Outcomes
  <2>2. QED BY <1>1, <2>1 DEF Row
<1>3. CASE pc[m] # "saved"
  <2>1. PICK s \in {"succeeded", "failed"} : new = [loaded[m] EXCEPT !.status = s] BY <1>3 DEF Outcomes
  <2>2. s \in Statuses BY <1>1
  <2>3. QED BY <2>1, <2>2, Restatused
<1>4. QED BY <1>2, <1>3

LEMMA RunningIsStages == Lifecycle!Running = Stages
BY DEF Lifecycle!Running, Stages

\* A flush writes a trace that one of the two rows has.
LEMMA FlushTrace ==
  ASSUME NEW old \in Row, NEW new \in Row, Flush(old, new)
  PROVE  row'.trace \in {row.trace, new.trace}
BY DEF Flush, Column

(***************************************************************************)
(* Traces                                                                  *)
(***************************************************************************)

LEMMA StillKnown ==
  ASSUME JobInv, TracesKnown, sent' \in Nat, sent' >= sent, row'.trace \in 0..sent',
         \A m \in Runs : trace'[m] = trace[m] /\ loaded'[m].trace \in 0..sent',
         \A u \in Retriers : retrier'[u].trace \in 0..sent'
  PROVE  TracesKnown'
<1>1. sent \in Nat BY JobAssumption DEF JobInv, TypeOK
<1>2. QED BY <1>1 DEF TracesKnown

LEMMA ApiTraces == ASSUME JobInv, TracesKnown, ApiStep PROVE TracesKnown'
<1>a. TypeOK /\ sent \in Nat BY JobAssumption DEF JobInv, TypeOK
<1>1. ASSUME NEW c \in Creators, CreateLookup(c) \/ CreateInsert(c) PROVE TracesKnown'
  <2>1. \/ UNCHANGED <<row, sent>>
        \/ sent' = sent + 1 /\ row' = [status |-> "queued", trace |-> sent + 1, preview |-> Null]
    BY <1>1 DEF CreateLookup, CreateInsert, jobVars, messageVars
  <2>2. UNCHANGED <<retrier, trace, loaded>>
    BY <1>1 DEF CreateLookup, CreateInsert, runVars, messageVars
  <2>3. sent' \in Nat /\ sent' >= sent /\ row'.trace \in 0..sent' BY <1>a, <2>1 DEF TracesKnown
  <2>4. QED BY <1>a, <2>2, <2>3 DEF TracesKnown
<1>2. ASSUME NEW u \in Retriers, RetryLoad(u) PROVE TracesKnown'
  <2>1. retrier' = [retrier EXCEPT ![u] = row] /\ UNCHANGED <<row, sent, trace, loaded>>
    BY <1>2 DEF RetryLoad, jobVars, runVars, messageVars
  <2>2. QED BY <1>a, <2>1 DEF TracesKnown, TypeOK
<1>3. ASSUME NEW u \in Retriers, RetryCommit(u) PROVE TracesKnown'
  <2> DEFINE new == [status |-> "queued", trace |-> sent + 1, preview |-> Null]
  <2>1. /\ Flush(retrier[u], new) /\ retrier' = [retrier EXCEPT ![u] = NoRow]
        /\ sent' = sent + 1 /\ sent < MaxTraces /\ UNCHANGED <<trace, loaded>>
    BY <1>3 DEF RetryCommit, runVars
  <2>2. new \in Row /\ retrier[u] \in Row
    BY <1>a, <2>1, JobAssumption DEF TypeOK, Row, Traces, Statuses
  <2>3. row'.trace \in {row.trace, sent + 1} BY <2>1, <2>2, FlushTrace
  <2>4. \A v \in Retriers : retrier'[v].trace \in {retrier[v].trace, 0} BY <1>a, <2>1 DEF TypeOK, NoRow, Null
  <2>5. QED BY <1>a, <2>1, <2>3, <2>4 DEF TracesKnown
<1>4. QED BY <1>1, <1>2, <1>3 DEF ApiStep

LEMMA TaskTraces ==
  ASSUME JobInv, TracesKnown, NEW m \in Runs,
         RunStep(m) \/ BrokerStep(m) \/ Crash(m) \/ DatabaseError(m)
  PROVE  TracesKnown'
<1>t. TypeOK /\ sent \in Nat BY JobAssumption DEF JobInv, TypeOK
<1>u. sent' = sent /\ UNCHANGED <<trace, retrier>>
  <2>1. CASE BrokerStep(m) \/ Crash(m) \/ DatabaseError(m)
    BY <2>1 DEF BrokerStep, Deliver, ExpireDelay, Crash, DatabaseError, apiVars, messageVars
  <2>2. CASE \E s \in Stages : MarkProgress(m, s) BY <2>2 DEF MarkProgress, apiVars, messageVars
  <2>3. CASE RunStep(m) /\ ~\E s \in Stages : MarkProgress(m, s)
    BY <2>3 DEF RunStep, CheckProcessed, StartAttempt, SavePreview, FinishAttempt, SkipAttempt,
      PrepareRetry, RejectDelivery, GiveUp, LoadForClose, CloseJob, PublishDeadLetter, Ack, apiVars, messageVars
  <2>4. QED BY <2>1, <2>2, <2>3
<1>a. TypeOK /\ sent \in Nat /\ sent' = sent /\ UNCHANGED <<trace, retrier>> BY <1>t, <1>u
<1>b. loaded[m] \in Row /\ row \in Row /\ loaded \in [Runs -> Row] BY <1>a DEF TypeOK
<1>1. CASE UNCHANGED <<row, loaded>>
  BY <1>a, <1>1, StillKnown DEF TracesKnown
<1>2. CASE StartAttempt(m) /\ Claimable
  <2>1. row' = Claimed(m) /\ loaded' = [loaded EXCEPT ![m] = Claimed(m)] BY <1>2 DEF StartAttempt
  <2>2. Claimed(m).trace = trace[m] BY <1>b DEF Claimed, Row
  <2>3. QED BY <1>a, <1>b, <2>1, <2>2, StillKnown DEF TracesKnown
<1>3. CASE LoadForClose(m)
  <2>1. loaded' = [loaded EXCEPT ![m] = row] /\ row' = row BY <1>3 DEF LoadForClose, jobVars
  <2>2. QED BY <1>a, <1>b, <2>1, StillKnown DEF TracesKnown
<1>4. ASSUME NEW new \in Row, Write(m, new), new.trace = loaded[m].trace PROVE TracesKnown'
  <2>1. row'.trace \in {row.trace, new.trace} BY <1>b, <1>4, FlushTrace DEF Write
  <2>2. loaded' = [loaded EXCEPT ![m] = new] BY <1>4 DEF Write
  <2>3. QED BY <1>a, <1>b, <1>4, <2>1, <2>2, StillKnown DEF TracesKnown
<1>5. CASE \E s \in Stages : MarkProgress(m, s)
  <2>1. PICK s \in Stages : MarkProgress(m, s) BY <1>5
  <2>2. s \in Statuses BY StageFacts
  <2>3. QED BY <1>b, <1>4, <2>1, <2>2, Restatused DEF MarkProgress
<1>6. CASE PrepareRetry(m)
  BY <1>b, <1>4, <1>6, Restatused DEF PrepareRetry, Statuses
<1>7. CASE CloseJob(m)
  BY <1>b, <1>4, <1>7, Restatused DEF CloseJob, Statuses, Finished
<1>8. CASE FinishAttempt(m) /\ trace[m] \notin marked
  <2>1. PICK new \in Outcomes(m) : Write(m, new) BY <1>8 DEF FinishAttempt
  <2>2. new \in Row /\ new.trace = loaded[m].trace BY <1>a, <1>b, <2>1, OutcomeRow DEF TypeOK
  <2>3. QED BY <1>4, <2>1, <2>2
<1>9. QED
  BY <1>1, <1>2, <1>3, <1>5, <1>6, <1>7, <1>8 DEF RunStep, BrokerStep, CheckProcessed, StartAttempt, SavePreview,
    FinishAttempt, SkipAttempt, RejectDelivery, GiveUp, PublishDeadLetter, Ack, Deliver, ExpireDelay,
    Crash, DatabaseError, jobVars, runVars

LEMMA StepTraces == JobInv /\ TracesKnown /\ [Next]_vars => TracesKnown'
<1> SUFFICES ASSUME JobInv, TracesKnown, [Next]_vars PROVE TracesKnown'
  OBVIOUS
<1>1. ASSUME NEW m \in Runs, NEW t \in Traces, Publish(m, t) PROVE TracesKnown'
  <2>1. t \in 0..sent /\ trace' = [trace EXCEPT ![m] = t] /\ UNCHANGED <<row, retrier, sent, loaded>>
    BY <1>1, JobAssumption DEF Publish, Traces, JobInv, TypeOK, jobVars, apiVars, runVars
  <2>2. QED BY <2>1 DEF TracesKnown, JobInv, TypeOK
<1>2. CASE UNCHANGED vars
  BY <1>2 DEF vars, jobVars, apiVars, messageVars, runVars, TracesKnown
<1>3. QED BY <1>1, <1>2, ApiTraces, TaskTraces DEF Next, Fault

(***************************************************************************)
(* Who holds the row                                                       *)
(***************************************************************************)

LEMMA SharedStays == JobInv /\ [Next]_vars /\ ~shared' => ~shared
<1> SUFFICES ASSUME JobInv, [Next]_vars PROVE shared' = shared \/ shared' = (shared \/ Held)
  BY DEF JobInv, TypeOK
<1>1. CASE ApiStep
  BY <1>1 DEF ApiStep, CreateLookup, CreateInsert, RetryLoad, RetryCommit, Share
<1>2. ASSUME NEW m \in Runs, RunStep(m) PROVE shared' = shared \/ shared' = (shared \/ Held)
  BY <1>2 DEF RunStep, CheckProcessed, StartAttempt, SavePreview, FinishAttempt, SkipAttempt, PrepareRetry,
    RejectDelivery, GiveUp, LoadForClose, CloseJob, PublishDeadLetter, Ack, MarkProgress, Share
<1>3. ASSUME NEW m \in Runs, BrokerStep(m) \/ Crash(m) \/ DatabaseError(m) \/ \E t \in Traces : Publish(m, t)
      PROVE  shared' = shared
  BY <1>3 DEF BrokerStep, Deliver, ExpireDelay, Crash, DatabaseError, Publish
<1>4. CASE UNCHANGED vars
  BY <1>4 DEF vars
<1>5. QED BY <1>1, <1>2, <1>3, <1>4 DEF Next, Fault

\* A step that writes no row and lets nobody load it.
LEMMA StillAlone ==
  ASSUME HeldAsIs, HeldAlone, row' = row,
         \A m \in Runs : pc'[m] \in Holding =>
           loaded'[m] = loaded[m] /\ pc[m] \in Holding /\ (pc[m] = "close" <=> pc'[m] = "close"),
         \A u \in Retriers : retrier'[u] # NoRow => retrier'[u] = retrier[u]
  PROVE  HeldAsIs' /\ HeldAlone'
BY DEF HeldAsIs, HeldAlone, Holding

\* The one session that holds the row writes it and lets go, or writes a stage.
LEMMA HolderWrites ==
  ASSUME JobInv, HeldAsIs, HeldAlone, NEW m \in Runs, pc[m] \in Holding, NEW new \in Row, Write(m, new),
         retrier' = retrier, NEW label, pc' = [pc EXCEPT ![m] = label],
         label \notin Holding \/ (label = "work" /\ new.status \in Stages)
  PROVE  row' = new /\ loaded[m] = row /\ HeldAsIs' /\ HeldAlone'
<1>a. row \in Row /\ pc \in [Runs -> Labels] /\ loaded \in [Runs -> Row] BY DEF JobInv, TypeOK
<1>1. loaded[m] = row BY DEF HeldAsIs
<1>2. row' = new /\ loaded' = [loaded EXCEPT ![m] = new] BY <1>a, <1>1, WriteIsRow DEF Write
<1>3. \A n \in Runs : n # m => pc'[n] \notin Holding BY <1>a DEF HeldAlone
<1>4. \A u \in Retriers : retrier'[u] = NoRow BY DEF HeldAlone
<1>5. pc'[m] = label /\ loaded'[m] = new BY <1>a, <1>2
<1>6. HeldAlone' BY <1>3, <1>4 DEF HeldAlone
<1>7. HeldAsIs' BY <1>2, <1>3, <1>4, <1>5 DEF HeldAsIs, Holding
<1>8. QED BY <1>1, <1>2, <1>6, <1>7

LEMMA CreateLives ==
  ASSUME JobInv, HeldAsIs, HeldAlone, NEW c \in Creators, CreateLookup(c) \/ CreateInsert(c)
  PROVE  HeldAsIs' /\ HeldAlone' /\ LifeStep
<1>a. UNCHANGED <<retrier, pc, loaded, shared>> BY DEF CreateLookup, CreateInsert, runVars
<1>1. CASE row' = row
  BY <1>a, <1>1, StillAlone, LifeIsQuiet
<1>2. CASE row' # row
  <2>1. /\ row.status = "absent" /\ sent < MaxTraces
        /\ row' = [status |-> "queued", trace |-> sent + 1, preview |-> Null]
    BY <1>2 DEF CreateLookup, CreateInsert, KeyBound, jobVars
  <2>2. /\ \A u \in Retriers : retrier'[u] = NoRow
        /\ \A m \in Runs : pc'[m] \notin Holding
    BY <1>a, <2>1 DEF JobInv, AbsentIsUnseen
  <2>3. HeldAsIs' /\ HeldAlone' BY <2>2 DEF HeldAsIs, HeldAlone, Holding
  <2>4. sent + 1 \in Traces BY <2>1, JobAssumption DEF Traces, JobInv, TypeOK
  <2>5. Lifecycle!Submit BY <2>1, <2>4 DEF Lifecycle!Submit
  <2>6. QED BY <1>a, <2>3, <2>5 DEF LifeStep, Lifecycle!LifeNext
<1>3. QED BY <1>1, <1>2

LEMMA RetryLives ==
  ASSUME JobInv, TracesKnown, HeldAsIs, HeldAlone, ~shared', NEW u \in Retriers, RetryLoad(u) \/ RetryCommit(u)
  PROVE  HeldAsIs' /\ HeldAlone' /\ LifeStep
<1>a. row \in Row /\ retrier \in [Retriers -> Row] /\ sent \in Nat /\ shared \in BOOLEAN
  BY JobAssumption DEF JobInv, TypeOK
<1>1. CASE RetryLoad(u)
  <2>1. /\ retrier' = [retrier EXCEPT ![u] = row] /\ row.status = "failed"
        /\ UNCHANGED <<row, pc, loaded>>
    BY <1>1 DEF RetryLoad, Retryable, jobVars, runVars
  <2>2. ~Held /\ shared' = shared BY <1>a, <1>1 DEF RetryLoad, Share
  <2>3. \A v \in Retriers : v # u => retrier'[v] = NoRow BY <1>a, <2>1, <2>2 DEF Held
  <2>4. \A m \in Runs : pc'[m] \notin Holding BY <2>1, <2>2 DEF Held
  <2>5. retrier'[u] = row' BY <1>a, <2>1
  <2>6. HeldAsIs' /\ HeldAlone' BY <2>1, <2>3, <2>4, <2>5 DEF HeldAsIs, HeldAlone, Holding
  <2>7. QED BY <2>1, <2>2, <2>6, LifeIsQuiet
<1>2. CASE RetryCommit(u)
  <2> DEFINE new == [status |-> "queued", trace |-> sent + 1, preview |-> Null]
  <2>1. /\ retrier[u] # NoRow /\ sent < MaxTraces
        /\ Flush(retrier[u], new) /\ retrier' = [retrier EXCEPT ![u] = NoRow]
        /\ UNCHANGED <<pc, loaded, shared>>
    BY <1>2 DEF RetryCommit, runVars
  <2>2. retrier[u] = row /\ row.status = "failed" BY <2>1 DEF HeldAsIs
  <2>3. sent + 1 \in Traces /\ new \in Row BY <1>a, <2>1, JobAssumption DEF Traces, Row, Statuses
  <2>4. row' = new BY <1>a, <2>1, <2>2, <2>3, WriteIsRow
  <2>5. \A v \in Retriers : retrier'[v] = NoRow BY <1>a, <2>1 DEF HeldAlone
  <2>6. \A m \in Runs : pc'[m] \notin Holding BY <2>1 DEF HeldAlone
  <2>7. HeldAsIs' /\ HeldAlone' BY <2>5, <2>6 DEF HeldAsIs, HeldAlone, Holding
  <2>8. row'.status = "queued" /\ row'.trace = sent + 1 BY <2>4
  <2>9. row.trace # sent + 1 BY <1>a DEF TracesKnown
  <2>10. Lifecycle!Retry BY <2>2, <2>3, <2>8, <2>9 DEF Lifecycle!Retry
  <2>11. QED BY <2>1, <2>7, <2>10 DEF LifeStep, Lifecycle!LifeNext
<1>3. QED BY <1>1, <1>2

\* Steps that leave row and holders alone, or make one let go.
LEMMA QuietLives ==
  ASSUME JobInv, HeldAsIs, HeldAlone, NEW m \in Runs,
         \/ CheckProcessed(m) \/ SkipAttempt(m) \/ SavePreview(m) \/ RejectDelivery(m) \/ GiveUp(m)
         \/ PublishDeadLetter(m) \/ Ack(m) \/ Crash(m) \/ DatabaseError(m) \/ BrokerStep(m)
         \/ \E t \in Traces : Publish(m, t)
  PROVE  HeldAsIs' /\ HeldAlone' /\ LifeStep
<1>a. pc \in [Runs -> Labels] BY DEF JobInv, TypeOK
<1>1. UNCHANGED <<row, retrier, loaded, shared>>
  BY DEF CheckProcessed, SkipAttempt, SavePreview, RejectDelivery, GiveUp, PublishDeadLetter, Ack, Crash,
    DatabaseError, BrokerStep, Deliver, ExpireDelay, Publish, jobVars, apiVars, runVars
<1>2. \/ pc' = pc
      \/ \E label \in {"ack", "claim", "idle", "terminal", "raised", "check"} : pc' = [pc EXCEPT ![m] = label]
      \/ pc[m] = "work" /\ pc' = [pc EXCEPT ![m] = "saved"]
  BY DEF CheckProcessed, SkipAttempt, SavePreview, RejectDelivery, GiveUp, PublishDeadLetter, Ack, Crash,
    DatabaseError, BrokerStep, Deliver, ExpireDelay, Publish, Goto, runVars
<1>3. \A n \in Runs : pc'[n] \in Holding => pc[n] \in Holding /\ (pc[n] = "close" <=> pc'[n] = "close")
  BY <1>a, <1>2 DEF Holding
<1>4. QED BY <1>1, <1>3, StillAlone, LifeIsQuiet

LEMMA LoadLives ==
  ASSUME JobInv, TracesKnown, HeldAsIs, HeldAlone, ~shared', NEW m \in Runs, StartAttempt(m) \/ LoadForClose(m)
  PROVE  HeldAsIs' /\ HeldAlone' /\ LifeStep
<1>a. /\ pc \in [Runs -> Labels] /\ row \in Row /\ loaded \in [Runs -> Row] /\ shared \in BOOLEAN
      /\ trace[m] \in Traces /\ retrier' = retrier
  BY DEF JobInv, TypeOK, TaskHasMessage, StartAttempt, LoadForClose, apiVars
<1>1. CASE StartAttempt(m) /\ Claimable
  <2> DEFINE new == Claimed(m)
  <2>1. /\ row' = new /\ loaded' = [loaded EXCEPT ![m] = new] /\ pc' = [pc EXCEPT ![m] = "work"]
        /\ row.status = "queued" /\ Share
    BY <1>1 DEF StartAttempt, Claimable, Goto
  <2>2. ~Held /\ shared' = shared BY <1>a, <2>1 DEF Share
  <2>3. new.status = StageOrder[1] /\ new.trace = trace[m] BY <1>a DEF Claimed, Row
  <2> HIDE DEF new
  <2>4. \A n \in Runs : n # m => pc'[n] \notin Holding BY <1>a, <2>1, <2>2 DEF Held
  <2>5. \A u \in Retriers : retrier'[u] = NoRow BY <1>a, <2>2 DEF Held
  <2>6. pc'[m] = "work" /\ loaded'[m] = row' BY <1>a, <2>1
  <2>7. row'.status \in Stages BY <2>1, <2>3, StageFacts
  <2>8. HeldAsIs' /\ HeldAlone' BY <2>4, <2>5, <2>6, <2>7 DEF HeldAsIs, HeldAlone, Holding
  <2>9. Lifecycle!Start BY <1>a, <2>1, <2>3 DEF Lifecycle!Start
  <2>10. QED BY <2>2, <2>8, <2>9 DEF LifeStep, Lifecycle!LifeNext
<1>2. CASE StartAttempt(m) /\ ~Claimable
  <2>1. pc' = [pc EXCEPT ![m] = "skip"] /\ UNCHANGED <<row, loaded, shared>>
    BY <1>2 DEF StartAttempt, Goto
  <2>2. \A n \in Runs : pc'[n] \in Holding => pc'[n] = pc[n] BY <1>a, <2>1 DEF Holding
  <2>3. QED BY <1>a, <2>1, <2>2, StillAlone, LifeIsQuiet
<1>3. CASE LoadForClose(m) /\ row.status = "queued"
  <2>1. /\ row' = row /\ loaded' = [loaded EXCEPT ![m] = row] /\ pc' = [pc EXCEPT ![m] = "close"] /\ Share
    BY <1>3 DEF LoadForClose, Goto, jobVars
  <2>2. ~Held /\ shared' = shared BY <1>a, <2>1 DEF Share
  <2>3. \A n \in Runs : n # m => pc'[n] \notin Holding BY <1>a, <2>1, <2>2 DEF Held
  <2>4. \A u \in Retriers : retrier'[u] = NoRow BY <1>a, <2>2 DEF Held
  <2>5. pc'[m] = "close" /\ loaded'[m] = row' BY <1>a, <2>1
  <2>6. HeldAsIs' /\ HeldAlone' BY <1>3, <2>1, <2>3, <2>4, <2>5 DEF HeldAsIs, HeldAlone, Holding
  <2>7. QED BY <2>1, <2>2, <2>6, LifeIsQuiet
<1>4. CASE LoadForClose(m) /\ row.status # "queued"
  <2>1. /\ pc[m] = "terminal" /\ pc' = [pc EXCEPT ![m] = "deadletter"] /\ UNCHANGED <<row, shared>>
        /\ loaded' = [loaded EXCEPT ![m] = row]
    BY <1>4 DEF LoadForClose, Goto, jobVars
  <2>2. \A n \in Runs : pc'[n] \in Holding => pc'[n] = pc[n] /\ n # m BY <1>a, <2>1 DEF Holding
  <2>3. \A n \in Runs : pc'[n] \in Holding => loaded'[n] = loaded[n] BY <1>a, <2>1, <2>2
  <2>4. QED BY <1>a, <2>1, <2>2, <2>3, StillAlone, LifeIsQuiet
<1>5. QED BY <1>1, <1>2, <1>3, <1>4

LEMMA WriteLives ==
  ASSUME JobInv, HeldAsIs, HeldAlone, NEW m \in Runs,
         \/ \E s \in Stages : MarkProgress(m, s)
         \/ PrepareRetry(m) \/ CloseJob(m) \/ FinishAttempt(m)
  PROVE  HeldAsIs' /\ HeldAlone' /\ LifeStep
<1>a. /\ pc \in [Runs -> Labels] /\ row \in Row /\ loaded \in [Runs -> Row] /\ saved \in Traces \cup {Null}
      /\ retrier' = retrier /\ shared' = shared /\ pc[m] \in Holding
  BY DEF JobInv, TypeOK, MarkProgress, PrepareRetry, CloseJob, FinishAttempt, apiVars, Holding
<1>b. loaded[m] = row BY <1>a DEF HeldAsIs
<1>1. ASSUME NEW s \in Stages, MarkProgress(m, s) PROVE HeldAsIs' /\ HeldAlone' /\ LifeStep
  <2> DEFINE new == [row EXCEPT !.status = s]
  <2>1. s \in Statuses BY StageFacts
  <2>2. new \in Row /\ new.status = s /\ new.trace = row.trace BY <1>a, <2>1, Restatused
  <2>3. Write(m, new) /\ pc' = [pc EXCEPT ![m] = "work"] /\ Later(row.status, s)
    BY <1>a, <1>b, <1>1 DEF MarkProgress
  <2> HIDE DEF new
  <2>4. row' = new /\ HeldAsIs' /\ HeldAlone' BY <1>a, <2>2, <2>3, HolderWrites
  <2>5. Lifecycle!Advance BY <2>2, <2>3, <2>4 DEF Lifecycle!Advance, Later
  <2>6. QED BY <1>a, <2>4, <2>5 DEF LifeStep, Lifecycle!LifeNext
<1>2. CASE PrepareRetry(m)
  <2> DEFINE new == [row EXCEPT !.status = "queued"]
  <2>1. new \in Row /\ new.status = "queued" /\ new.trace = row.trace BY <1>a, Restatused DEF Statuses
  <2>2. Write(m, new) /\ pc' = [pc EXCEPT ![m] = "raised"] /\ row.status \in Stages
    BY <1>b, <1>2 DEF PrepareRetry, Goto, HeldAsIs
  <2> HIDE DEF new
  <2>3. row' = new /\ HeldAsIs' /\ HeldAlone' BY <1>a, <2>1, <2>2, HolderWrites DEF Holding
  <2>4. Lifecycle!Release BY <2>1, <2>2, <2>3, RunningIsStages DEF Lifecycle!Release
  <2>5. QED BY <1>a, <2>3, <2>4 DEF LifeStep, Lifecycle!LifeNext
<1>3. CASE CloseJob(m)
  <2> DEFINE new == [row EXCEPT !.status = "failed"]
  <2>1. new \in Row /\ new.status = "failed" /\ new.trace = row.trace BY <1>a, Restatused DEF Statuses, Finished
  <2>2. Write(m, new) /\ pc' = [pc EXCEPT ![m] = "deadletter"] /\ row.status = "queued"
    BY <1>b, <1>3 DEF CloseJob, Goto, HeldAsIs
  <2> HIDE DEF new
  <2>3. row' = new /\ HeldAsIs' /\ HeldAlone' BY <1>a, <2>1, <2>2, HolderWrites DEF Holding
  <2>4. Lifecycle!Close BY <2>1, <2>2, <2>3 DEF Lifecycle!Close
  <2>5. QED BY <1>a, <2>3, <2>4 DEF LifeStep, Lifecycle!LifeNext
<1>4. CASE FinishAttempt(m) /\ trace[m] \in marked
  <2>1. pc' = [pc EXCEPT ![m] = "ack"] /\ UNCHANGED <<row, loaded>> BY <1>4 DEF FinishAttempt, Goto
  <2>2. \A n \in Runs : pc'[n] \in Holding => pc'[n] = pc[n] BY <1>a, <2>1 DEF Holding
  <2>3. QED BY <1>a, <2>1, <2>2, StillAlone, LifeIsQuiet
<1>5. CASE FinishAttempt(m) /\ trace[m] \notin marked
  <2>1. PICK new \in Outcomes(m) : Write(m, new) BY <1>5 DEF FinishAttempt
  <2>2. /\ new \in Row /\ new.trace = row.trace
        /\ new.status \in {"awaiting_confirmation", "succeeded", "failed"}
    BY <1>a, <1>b, <2>1, OutcomeRow
  <2>3. pc' = [pc EXCEPT ![m] = "ack"] /\ row.status \in Stages
    BY <1>5 DEF FinishAttempt, Goto, HeldAsIs
  <2>4. row' = new /\ HeldAsIs' /\ HeldAlone' BY <1>a, <2>1, <2>2, <2>3, HolderWrites DEF Holding
  <2>5. Lifecycle!Finish BY <2>2, <2>3, <2>4, RunningIsStages DEF Lifecycle!Finish
  <2>6. QED BY <1>a, <2>4, <2>5 DEF LifeStep, Lifecycle!LifeNext
<1>6. QED BY <1>1, <1>2, <1>3, <1>4, <1>5

LEMMA LifeKeeps ==
  ASSUME JobInv, JobInv', TracesKnown, OneHolder, [Next]_vars
  PROVE  OneHolder' /\ LifeStep
<1>1. CASE shared'
  BY <1>1, LifeIsOff DEF OneHolder, JobInv, TypeOK
<1>2. CASE ~shared'
  <2>1. HeldAsIs /\ HeldAlone BY <1>2, SharedStays DEF OneHolder
  <2>2. CASE ApiStep BY <1>2, <2>1, <2>2, CreateLives, RetryLives DEF ApiStep, OneHolder
  <2>3. ASSUME NEW m \in Runs, RunStep(m) PROVE HeldAsIs' /\ HeldAlone' /\ LifeStep
    BY <1>2, <2>1, <2>3, QuietLives, LoadLives, WriteLives DEF RunStep
  <2>4. ASSUME NEW m \in Runs, BrokerStep(m) \/ Crash(m) \/ DatabaseError(m) \/ \E t \in Traces : Publish(m, t)
        PROVE  HeldAsIs' /\ HeldAlone' /\ LifeStep
    BY <2>1, <2>4, QuietLives
  <2>5. ASSUME UNCHANGED vars PROVE HeldAsIs' /\ HeldAlone' /\ LifeStep
    <3>1. UNCHANGED <<row, retrier, loaded, pc, shared>>
      BY <2>5 DEF vars, jobVars, apiVars, runVars
    <3>2. QED BY <2>1, <3>1, StillAlone, LifeIsQuiet
  <2>6. QED BY <2>2, <2>3, <2>4, <2>5 DEF Next, Fault, OneHolder
<1>3. QED BY <1>1, <1>2

\* GenerationJob implements GenerationLifecycle for any requests, stages, events,
\* copies, failed deliveries and faults: until two sessions hold the job's row at
\* once, attempts move the job forward, nothing overwrites a finished job, and a
\* retry follows a failure with a new trace (ai_workflows/service.py).
THEOREM LifecycleKept == Spec => KeepsLifecycle
<1>1. Init => TracesKnown /\ OneHolder /\ Lifecycle!LifeInit BY LifeBegins
<1>2. JobInv /\ JobInv' /\ TracesKnown /\ OneHolder /\ [Next]_vars
        => TracesKnown' /\ OneHolder' /\ [Lifecycle!LifeNext]_(Lifecycle!lifeVars)
  BY StepTraces, LifeKeeps DEF LifeStep
<1>3. QED BY <1>1, <1>2, JobInvariant, PTL DEF Spec, KeepsLifecycle, Lifecycle!Life
=============================================================================
