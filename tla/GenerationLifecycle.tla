------------------------ MODULE GenerationLifecycle ------------------------
(***************************************************************************)
(* The life of a generation job as its user is promised it: it is queued,  *)
(* one attempt at a time moves it forward through its stages, the attempt  *)
(* ends it or puts it back, and what is finished stays so until the user   *)
(* retries a failure (ai_workflows/service.py,                             *)
(* docs/当前项目工作流程与AI实现详解.md:94-101).                              *)
(***************************************************************************)
EXTENDS Integers, Sequences

CONSTANTS
  StageOrder, \* the stages an attempt reports, in order
  Attempts    \* trace_id values

VARIABLES
  status,     \* status of the job
  trace,      \* attempt that owns it
  shared      \* two sessions have held the job at once: nothing is promised

lifeVars == <<status, trace, shared>>

Running == {StageOrder[i] : i \in 1..Len(StageOrder)}

LifeInit == status = "absent" /\ trace = 0 /\ shared = FALSE

Submit == status = "absent" /\ status' = "queued" /\ trace' \in Attempts

Start == status = "queued" /\ status' = StageOrder[1] /\ trace' \in Attempts

Advance ==
  /\ \E i, j \in 1..Len(StageOrder) :
       i < j /\ status = StageOrder[i] /\ status' = StageOrder[j]
  /\ UNCHANGED trace

Release == status \in Running /\ status' = "queued" /\ UNCHANGED trace

Finish ==
  /\ status \in Running
  /\ status' \in {"awaiting_confirmation", "succeeded", "failed"}
  /\ UNCHANGED trace

Close == status = "queued" /\ status' = "failed" /\ UNCHANGED trace

Retry == status = "failed" /\ status' = "queued" /\ trace' \in Attempts \ {trace}

\* A second session has loaded the job and will write what it thinks of it.
Share == shared' = TRUE

LifeNext ==
  \/ Share
  \/ /\ Submit \/ Start \/ Advance \/ Release \/ Finish \/ Close \/ Retry
     /\ UNCHANGED shared

Life == LifeInit /\ [][LifeNext]_lifeVars
=============================================================================
