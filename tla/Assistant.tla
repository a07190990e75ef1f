----------------------------- MODULE Assistant -----------------------------
(***************************************************************************)
(* Questions to the assistant and the quota they use: a plain request      *)
(* (:ask) or a streamed one (:ask-stream) with a client message key, the   *)
(* message and the run stored for the key, and the charge of a quota       *)
(* period that a failed answer gives back.                                 *)
(* Sources: ai_memory/router.py, ai_memory/postgres.py,                    *)
(* ai_entitlements/service.py, ai_memory/agent.py.                         *)
(*                                                                         *)
(* The conversation lives in one database, the quota in another: every     *)
(* phase of a request is a transaction of its own.  An answer is known by  *)
(* the request that generated it.  `now` counts calendar months; the       *)
(* membership's quota period lasts until `memberUntil`.                    *)
(***************************************************************************)
EXTENDS Integers, FiniteSets

CONSTANTS
  AskRequests, \* HTTP requests, each sent once
  QuestionKeys, \* client_message_id
  FreeLimit, MemberLimit, \* answers of a free month and of the membership
  LastMonth,   \* bound of now
  MaxLost,     \* bound: requests that end without an exception handler
  Nothing      \* no answer, no charge, no key

VARIABLES
  now, memberUntil,
  used,         \* ai_quota_periods.assistant_used
  conversation, \* the conversation has not been deleted
  messages,     \* ai_messages: the question and the answer of a key
  runs,         \* ai_assistant_runs.status, "none" without a row
  asks,         \* requests under way
  lost

assistantVars == <<now, memberUntil, used, conversation, messages, runs, asks, lost>>

Months == 0..LastMonth

Membership == -1

Periods == Months \cup {Membership}

RunStatuses == {"none", "queued", "running", "completed", "failed"}

NoMessages == [asked |-> FALSE, answer |-> Nothing]

Phases == {"new", "check", "consume", "question", "find", "insert", "events", "start",
           "answer", "save", "release", "fail", "done"}

\* `shown` is the final message; "empty" is a message without content.
AskRows ==
  [phase : Phases, key : QuestionKeys \cup {Nothing}, stream : BOOLEAN, charge : Periods \cup {Nothing},
   seen : RunStatuses, shown : AskRequests \cup {Nothing, "empty"}]

ASSUME AssistantAssumption ==
  /\ IsFiniteSet(AskRequests) /\ FreeLimit \in Nat /\ MemberLimit \in Nat /\ LastMonth \in Nat /\ MaxLost \in Nat
  /\ Nothing \notin AskRequests /\ Nothing \notin Periods /\ Nothing # "empty" /\ "empty" \notin AskRequests

AssistantTypeOK ==
  /\ now \in Months /\ memberUntil \in 0..(LastMonth + 1)
  /\ used \in [Periods -> 0..(FreeLimit + MemberLimit)]
  /\ conversation \in BOOLEAN
  /\ messages \in [QuestionKeys -> [asked : BOOLEAN, answer : AskRequests \cup {Nothing}]]
  /\ runs \in [QuestionKeys -> RunStatuses]
  /\ asks \in [AskRequests -> AskRows]
  /\ lost \in 0..MaxLost

AssistantInit ==
  /\ now = 0 /\ memberUntil \in 0..(LastMonth + 1)
  /\ used = [p \in Periods |-> 0]
  /\ conversation = TRUE
  /\ messages = [k \in QuestionKeys |-> NoMessages] /\ runs = [k \in QuestionKeys |-> "none"]
  /\ asks = [r \in AskRequests |-> [phase |-> "new", key |-> Nothing, stream |-> FALSE,
                                     charge |-> Nothing, seen |-> "none", shown |-> Nothing]]
  /\ lost = 0

----------------------------------------------------------------------------
At(r, phase) == asks[r].phase = phase

K(r) == asks[r].key

To(r, phase) == asks' = [asks EXCEPT ![r].phase = phase]

Show(r, what) == asks' = [asks EXCEPT ![r].phase = "done", ![r].shown = what]

Send(r, k, stream) ==
  /\ At(r, "new")
  /\ asks' = [asks EXCEPT ![r].phase = "check", ![r].key = k, ![r].stream = stream]
  /\ UNCHANGED <<now, memberUntil, used, conversation, messages, runs, lost>>

\* A question that has its answer is not asked again.
CheckAsk(r) ==
  /\ At(r, "check") /\ ~asks[r].stream
  /\ IF messages[K(r)].answer # Nothing THEN Show(r, messages[K(r)].answer)
     ELSE To(r, IF conversation THEN "consume" ELSE "done")
  /\ UNCHANGED <<now, memberUntil, used, conversation, messages, runs, lost>>

\* A stream looks for the question: it is charged when the question is new.
CheckStream(r) ==
  /\ At(r, "check") /\ asks[r].stream
  /\ To(r, IF messages[K(r)].asked THEN "find" ELSE IF conversation THEN "consume" ELSE "done")
  /\ UNCHANGED <<now, memberUntil, used, conversation, messages, runs, lost>>

----------------------------------------------------------------------------
(* ai_entitlements: the user's row is locked, a call is one transaction.   *)

ActivePeriod == IF now < memberUntil THEN Membership ELSE now

Limit(p) == IF p = Membership THEN MemberLimit ELSE FreeLimit

\* AI_QUOTA_EXCEEDED, or a charge of the period that is active now.
Consume(r) ==
  /\ At(r, "consume")
  /\ IF used[ActivePeriod] < Limit(ActivePeriod)
     THEN /\ used' = [used EXCEPT ![ActivePeriod] = @ + 1]
          /\ asks' = [asks EXCEPT ![r].charge = ActivePeriod,
                            ![r].phase = IF asks[r].stream THEN "find" ELSE "question"]
     ELSE To(r, "done") /\ UNCHANGED used
  /\ UNCHANGED <<now, memberUntil, conversation, messages, runs, lost>>

\* The period that was charged gets it back, whether or not it is over.
Release(r) ==
  /\ At(r, "release")
  /\ LET p == asks[r].charge
     IN used' = IF p # Nothing /\ used[p] > 0 THEN [used EXCEPT ![p] = @ - 1] ELSE used
  /\ asks' = [asks EXCEPT ![r].charge = Nothing,
       ![r].phase = IF asks[r].stream /\ asks[r].seen # "none" THEN "fail" ELSE "done"]
  /\ UNCHANGED <<now, memberUntil, conversation, messages, runs, lost>>

----------------------------------------------------------------------------
(* The conversation *)

Asked(k) == messages' = [messages EXCEPT ![k].asked = TRUE]

\* :ask stores the question; a message key is unique, the first text stays.
SaveQuestion(r) ==
  /\ At(r, "question")
  /\ IF conversation THEN Asked(K(r)) /\ To(r, "answer") ELSE To(r, "release") /\ UNCHANGED messages
  /\ UNCHANGED <<now, memberUntil, used, conversation, runs, lost>>

\* create_assistant_run: a run that is found is returned as it is.
FindRun(r) ==
  /\ At(r, "find")
  /\ asks' = [asks EXCEPT ![r].seen = runs[K(r)],
                    ![r].phase = IF runs[K(r)] = "none" THEN "insert" ELSE "events"]
  /\ UNCHANGED <<now, memberUntil, used, conversation, messages, runs, lost>>

\* Question and run are inserted; when another request has inserted the run
\* meanwhile the insert fails and no handler gives the charge back.
InsertRun(r) ==
  /\ At(r, "insert")
  /\ \/ /\ ~conversation /\ To(r, "release") /\ UNCHANGED <<messages, runs>>
     \/ /\ conversation /\ runs[K(r)] # "none" /\ To(r, "done") /\ UNCHANGED <<messages, runs>>
     \/ /\ conversation /\ runs[K(r)] = "none"
        /\ Asked(K(r)) /\ runs' = [runs EXCEPT ![K(r)] = "queued"]
        /\ asks' = [asks EXCEPT ![r].seen = "queued", ![r].phase = "events"]
  /\ UNCHANGED <<now, memberUntil, used, conversation, lost>>

\* A run read as completed is replayed without its content.
Events(r) ==
  /\ At(r, "events")
  /\ CASE asks[r].seen = "completed" -> Show(r, "empty")
       [] asks[r].seen = "failed" -> To(r, "done")
       [] OTHER -> To(r, "start")
  /\ UNCHANGED <<now, memberUntil, used, conversation, messages, runs, lost>>

Startable(k) == runs[k] = "queued"

\* Whoever sets a queued run to running answers it.
StartRun(r) ==
  /\ At(r, "start")
  /\ IF Startable(K(r)) THEN runs' = [runs EXCEPT ![K(r)] = "running"] /\ To(r, "answer")
     ELSE To(r, "done") /\ UNCHANGED runs
  /\ UNCHANGED <<now, memberUntil, used, conversation, messages, lost>>

\* The agent answers, from its tools or the citations it has, or gives up.
RunAgent(r) ==
  /\ At(r, "answer")
  /\ To(r, "save") \/ To(r, "release")
  /\ UNCHANGED <<now, memberUntil, used, conversation, messages, runs, lost>>

\* Mutant of Stored: the key is not unique, the last answer replaces the first.
StoredLast(r) == r

\* The answer of the key: the first one that was stored.
Stored(r) == IF messages[K(r)].answer = Nothing THEN r ELSE messages[K(r)].answer

SaveAnswer(r) ==
  /\ At(r, "save")
  /\ IF conversation THEN messages' = [messages EXCEPT ![K(r)].answer = Stored(r)] /\ Show(r, Stored(r))
     ELSE To(r, "release") /\ UNCHANGED messages

\* complete_assistant_run completes the run whatever its status is.
CompleteRun(r) ==
  /\ SaveAnswer(r)
  /\ runs' = IF asks[r].stream /\ conversation THEN [runs EXCEPT ![K(r)] = "completed"] ELSE runs
  /\ UNCHANGED <<now, memberUntil, used, conversation, lost>>

\* fail_assistant_run
FailRun(r) ==
  /\ At(r, "fail") /\ To(r, "done")
  /\ runs' = IF runs[K(r)] \in {"queued", "running"} THEN [runs EXCEPT ![K(r)] = "failed"] ELSE runs
  /\ UNCHANGED <<now, memberUntil, used, conversation, messages, lost>>

\* The client leaves a stream or the server stops: no handler runs.
Lose(r) ==
  /\ asks[r].phase \notin {"new", "done"} /\ lost < MaxLost
  /\ lost' = lost + 1 /\ To(r, "done")
  /\ UNCHANGED <<now, memberUntil, used, conversation, messages, runs>>

\* The messages and the runs go with it.
DeleteConversation ==
  /\ conversation /\ conversation' = FALSE
  /\ messages' = [k \in QuestionKeys |-> NoMessages] /\ runs' = [k \in QuestionKeys |-> "none"]
  /\ UNCHANGED <<now, memberUntil, used, asks, lost>>

NextMonth ==
  /\ now < LastMonth /\ now' = now + 1
  /\ UNCHANGED <<memberUntil, used, conversation, messages, runs, asks, lost>>

Handle(r) ==
  \/ CheckAsk(r) \/ CheckStream(r) \/ Consume(r) \/ Release(r)
  \/ SaveQuestion(r) \/ FindRun(r) \/ InsertRun(r) \/ Events(r) \/ StartRun(r)
  \/ RunAgent(r) \/ CompleteRun(r) \/ FailRun(r)

AssistantNext ==
  \/ \E r \in AskRequests, k \in QuestionKeys, stream \in BOOLEAN : Send(r, k, stream)
  \/ \E r \in AskRequests : Handle(r) \/ Lose(r)
  \/ DeleteConversation \/ NextMonth

AssistantSpec == AssistantInit /\ [][AssistantNext]_assistantVars

----------------------------------------------------------------------------
Used(p) == Cardinality({r \in AskRequests : asks[r].charge = p})

(* Everyone who is shown an answer of a key is shown the same one, the one *)
(* that is stored, however requests, streams and retries overlap           *)
(* (postgres.py _append_message, complete_assistant_run).  A streamed      *)
(* answer has been charged to a period and the charge kept, unless the     *)
(* question had been sent by :ask before; and a period counts exactly the  *)
(* charges that were not given back, within its limit (router.py: consume  *)
(* before the run, release in the handlers).                               *)
AnswersAreKept ==
  /\ \A r \in AskRequests : asks[r].shown \in AskRequests /\ conversation =>
       asks[r].shown = messages[K(r)].answer
  /\ \A p \in Periods : used[p] = Used(p) /\ used[p] <= Limit(p)
  /\ \A k \in QuestionKeys : runs[k] = "completed" =>
       \E r \in AskRequests : K(r) = k /\ (asks[r].charge # Nothing \/ ~asks[r].stream)

=============================================================================
