----------------------------- MODULE Knowledge -----------------------------
(***************************************************************************)
(* One document of the assistant's knowledge, from the administrators'     *)
(* decisions to the two stores retrieval reads: a community post, an       *)
(* official source (of an attraction, or a structured rule) or an external *)
(* web source (`kind`).                                                    *)
(* Sources: community/service.py, admin/router.py, admin/search_indexes.py,*)
(* workers/domain_handlers.py, ai_rag/ingestion.py, ai_rag/adapters.py.    *)
(*                                                                         *)
(* A decision reads its row without a lock and writes it when the request  *)
(* commits, together with the events it sends; two administrators may      *)
(* decide at once.  A handler reads the row, works on the stores and       *)
(* writes its result when it commits; an event that fails or loses its     *)
(* worker is delivered again until it is dead-lettered.                    *)
(***************************************************************************)
EXTENDS Integers, FiniteSets

CONSTANTS
  Desks,      \* requests of administrators and authors under way
  Workers,    \* deliveries handled at once
  MaxPending, \* bound: events of a type that wait
  MaxFaults   \* bound: lost workers and unreachable stores

VARIABLES
  kind,    \* the kind of the document
  row,     \* the document's row, its review, its candidate and the jobs
  pending, \* events that wait, by type
  dead,    \* event types with a dead letter
  desks,   \* the decision each request is about to write
  work,    \* the delivery each worker handles
  dense, bm25,  \* the stores that hold chunks of the document
  granted, \* history: what administrators have granted the document
  faults

knowledgeVars == <<kind, row, pending, dead, desks, work, dense, bm25, granted, faults>>

Topics == {"index", "remove", "import", "search", "rebuild"}

Jobs == {"import", "search", "rebuild"}

Kinds == {"post", "poi", "structured", "web"}

PostStatuses == {"draft", "pending_review", "published", "hidden", "rejected"}

OfficialStatuses == {"none", "pending_review", "rejected", "indexing", "indexed", "failed", "removing", "inactive"}

WebStatuses == {"none", "pending_review", "rejected", "indexing", "indexed", "failed"}

Statuses ==
  CASE kind = "post" -> PostStatuses
    [] kind = "web" -> WebStatuses
    [] OTHER -> OfficialStatuses

Reviews == {"none", "pending", "approved", "rejected"}

Candidates == {"none", "waiting", "approved", "rejected", "retired"}

JobStatuses == {"none", "queued", "succeeded", "failed"}

NotWorking == [on |-> "-", phase |-> "idle"]

----------------------------------------------------------------------------
(* Decisions: what a column must read, what it becomes, the events sent.   *)

Rule(column, from, to, asks) == [column |-> column, from |-> from, to |-> to, asks |-> asks]

SubmitRules == {Rule("status", {"draft"}, "pending_review", {})}

PublishRules == {Rule("status", {"pending_review"}, "published", {})}

RejectRules == {Rule("status", {"pending_review"}, "rejected", {})}

HideRules == {Rule("status", {"published"}, "hidden", {"remove"})}

PostRules == PublishRules \cup RejectRules \cup HideRules

ReviewRules == {
  Rule("review", {"pending"}, "approved", {"index"}),
  Rule("review", {"pending"}, "rejected", {})}

ProposeRules == {Rule("status", {"none"}, "pending_review", {})}

OfficialRules == {
  Rule("status", {"pending_review", "failed"}, "indexing", {"index"}),
  Rule("status", {"pending_review"}, "rejected", {}),
  Rule("status", {"indexed"}, "removing", {"remove"}),
  Rule("status", {"pending_review", "rejected", "failed", "inactive"}, "inactive", {})}

\* An attraction found in confirmed itineraries; approval proposes a source.
PoiRules == {
  Rule("candidate", {"waiting"}, "approved", {}),
  Rule("candidate", {"waiting"}, "rejected", {}),
  Rule("candidate", {"approved"}, "retired", {})}

WebCandidateRules == {
  Rule("candidate", {"waiting"}, "approved", {}),
  Rule("candidate", {"waiting"}, "rejected", {})}

WebRules == {
  Rule("status", {"pending_review"}, "indexing", {"index"}),
  Rule("status", {"pending_review"}, "rejected", {})}

\* A new job is a row of its own: the last one is followed.
Over == {"none", "succeeded", "failed"}

SearchRules == {Rule("search", Over, "queued", {"search"})}

PoiImportRules == {Rule("import", Over, "queued", {"import"})}

PoiRetryRules == {Rule("import", {"failed"}, "queued", {"import"})}

StructuredImportRules == {Rule("import", Over, "queued", {"import"})}

StructuredRetryRules == {Rule("import", {"failed"}, "queued", {"import"})}

RebuildRules == {Rule("rebuild", Over, "queued", {"rebuild"})}

Rules ==
  CASE kind = "post" -> SubmitRules \cup PostRules \cup ReviewRules \cup RebuildRules
    [] kind = "poi" -> ProposeRules \cup OfficialRules \cup PoiRules \cup PoiImportRules \cup PoiRetryRules \cup RebuildRules
    [] kind = "structured" -> ProposeRules \cup OfficialRules \cup StructuredImportRules \cup StructuredRetryRules \cup RebuildRules
    [] kind = "web" -> WebRules \cup WebCandidateRules \cup SearchRules

NoDecision == Rule("-", {}, "-", {})

ASSUME KnowledgeAssumption == MaxPending \in Nat /\ MaxFaults \in Nat

KnowledgeTypeOK ==
  /\ kind \in Kinds
  /\ row \in [status : Statuses, review : Reviews, candidate : Candidates,
              import : JobStatuses, search : JobStatuses, rebuild : JobStatuses]
  /\ pending \in [Topics -> 0..MaxPending]
  /\ dead \subseteq Topics
  /\ desks \in [Desks -> Rules \cup {NoDecision}]
  /\ work \in [Workers -> [on : Topics \cup {"-"}, phase : {"idle", "dense", "bm25", "commit"}]]
  /\ granted \subseteq {"published", "approved"}
  /\ dense \in BOOLEAN /\ bm25 \in BOOLEAN /\ faults \in 0..MaxFaults

KnowledgeInit ==
  /\ kind \in Kinds
  /\ row = [status |-> IF kind = "post" THEN "draft" ELSE "none", review |-> "none", candidate |-> "none",
            import |-> "none", search |-> "none", rebuild |-> "none"]
  /\ pending = [q \in Topics |-> 0] /\ dead = {}
  /\ desks = [d \in Desks |-> NoDecision]
  /\ work = [w \in Workers |-> NotWorking]
  /\ dense = FALSE /\ bm25 = FALSE /\ granted = {} /\ faults = 0

Open(d, rule) ==
  /\ desks[d] = NoDecision /\ row[rule.column] \in rule.from
  /\ desks' = [desks EXCEPT ![d] = rule]
  /\ UNCHANGED <<kind, row, pending, dead, work, dense, bm25, granted, faults>>

\* The first publication asks for the knowledge review.
AsksReview(rule) == rule.to = "published"

\* An approved candidate proposes its source.
ProposesSource(rule) == rule.column = "candidate" /\ rule.to = "approved" /\ row.status = "none"

Decided(rule) ==
  LET now == [row EXCEPT ![rule.column] = rule.to] IN
  CASE AsksReview(rule) -> [now EXCEPT !.review = "pending"]
    [] ProposesSource(rule) -> [now EXCEPT !.status = "pending_review"]
    [] OTHER -> now

\* A unique key refuses the second review of a post and the second source of a
\* web candidate.
Duplicate(rule) ==
  \/ AsksReview(rule) /\ row.review # "none"
  \/ kind = "web" /\ rule.column = "candidate" /\ rule.to = "approved" /\ row.status # "none"

\* A rebuild of the index is active and is returned instead.
AlreadyRebuilding(rule) == rule.column = "rebuild" /\ row.rebuild = "queued"

\* Two requests of the same kind: the second row is not followed.
AnotherRow(rule) ==
  \/ rule.from = {"none"} /\ row.status # "none"
  \/ rule.column \in {"search", "import"} /\ rule.from = Over /\ row[rule.column] = "queued"

Refused(rule) == Duplicate(rule) \/ AlreadyRebuilding(rule) \/ AnotherRow(rule)

\* The decisions that let a document into the assistant's stores.
Grants(rule) ==
  CASE rule.to = "published" -> {"published"}
    [] rule.to = "indexing" \/ (rule.column = "review" /\ rule.to = "approved") -> {"approved"}
    [] OTHER -> {}

Close(d) ==
  LET rule == desks[d] IN
  /\ rule # NoDecision
  /\ \A q \in rule.asks : pending[q] < MaxPending
  /\ IF Refused(rule) THEN UNCHANGED <<row, pending, granted>>
     ELSE /\ row' = Decided(rule)
          /\ granted' = granted \cup Grants(rule)
          /\ pending' = [q \in Topics |-> pending[q] + IF q \in rule.asks THEN 1 ELSE 0]
  /\ desks' = [desks EXCEPT ![d] = NoDecision]
  /\ UNCHANGED <<kind, dead, work, dense, bm25, faults>>

----------------------------------------------------------------------------
(* Handlers *)

\* Mutant of Recallable: the rebuild takes posts without an approved review.
RecallablePublished == row.status = "published"

\* A post the assistant may recall.
Recallable == row.status = "published" /\ row.review = "approved"

\* What the handler finds when it reads the row; otherwise it has nothing to do.
Wanted(q) ==
  CASE q = "index" -> IF kind = "post" THEN row.review = "approved" /\ row.status = "published" ELSE row.status = "indexing"
    [] q = "remove" -> kind = "post" \/ row.status = "removing"
    [] OTHER -> row[q] = "queued"

\* The document is among those the rebuild reads.
Rebuilt == IF kind = "post" THEN Recallable ELSE row.status = "indexed"

FirstPhase(q) == IF q \in {"index", "remove"} \/ (q = "rebuild" /\ Rebuilt) THEN "dense" ELSE "commit"

Take(w, q) ==
  /\ work[w] = NotWorking /\ pending[q] > 0
  /\ pending' = [pending EXCEPT ![q] = @ - 1]
  /\ work' = IF Wanted(q) THEN [work EXCEPT ![w] = [on |-> q, phase |-> FirstPhase(q)]] ELSE work
  /\ UNCHANGED <<kind, row, dead, desks, dense, bm25, granted, faults>>

Advance(w) == work' = [work EXCEPT ![w].phase = IF @ = "dense" THEN "bm25" ELSE "commit"]

\* Ingestion and removal work on Milvus first, then on Elasticsearch.
Store(w, holds) ==
  /\ IF work[w].phase = "dense" THEN dense' = holds /\ UNCHANGED bm25 ELSE bm25' = holds /\ UNCHANGED dense
  /\ Advance(w)
  /\ UNCHANGED <<kind, row, pending, dead, desks, granted, faults>>

Ingest(w) == work[w].phase \in {"dense", "bm25"} /\ work[w].on # "remove" /\ Store(w, TRUE)

RemovePost(w) == kind = "post" /\ work[w].phase \in {"dense", "bm25"} /\ work[w].on = "remove" /\ Store(w, FALSE)

RemoveSource(w) == kind # "post" /\ work[w].phase \in {"dense", "bm25"} /\ work[w].on = "remove" /\ Store(w, FALSE)

Done(w) == work' = [work EXCEPT ![w] = NotWorking]

\* What each handler writes when the stores answered, or one of them refused.
IndexedPost == row

IndexedOfficial(good) == [row EXCEPT !.status = IF good THEN "indexed" ELSE "failed"]

IndexedWeb(good) == [row EXCEPT !.status = IF good THEN "indexed" ELSE "failed"]

RemovedSource(good) == [row EXCEPT !.status = IF good THEN "inactive" ELSE "indexed"]

RebuiltIndex(good) ==
  [row EXCEPT !.rebuild = IF good THEN "succeeded" ELSE "failed",
              !.status = IF good \/ kind = "post" THEN @ ELSE "failed"]

Result(q, good) ==
  CASE q = "rebuild" -> RebuiltIndex(good)
    [] q # "rebuild" /\ kind = "post" -> IndexedPost
    [] q = "index" /\ kind = "web" -> IndexedWeb(good)
    [] q = "index" /\ kind \in {"poi", "structured"} -> IndexedOfficial(good)
    [] q = "remove" /\ kind # "post" -> RemovedSource(good)

Commit(w) ==
  /\ work[w].phase = "commit" /\ work[w].on \in {"index", "remove", "rebuild"}
  /\ row' = Result(work[w].on, TRUE)
  /\ Done(w)
  /\ UNCHANGED <<kind, pending, dead, desks, dense, bm25, granted, faults>>

\* Mutant of ImportEvents: the imported source is left to itself.
ImportNoEvents == pending

\* A source that is new, or still waits for the index, is sent there.
ImportEvents == [pending EXCEPT !["index"] = @ + IF row.status \in {"none", "indexing"} THEN 1 ELSE 0]

\* The job succeeds; the source it did not find is created, for the
\* administrator who asked for the import.
Imported == [row EXCEPT !.import = "succeeded", !.status = IF @ = "none" THEN "indexing" ELSE @]

Import(w) ==
  /\ work[w].phase = "commit" /\ work[w].on = "import"
  /\ pending["index"] < MaxPending
  /\ row' = Imported
  /\ pending' = ImportEvents
  /\ granted' = granted \cup IF row.status = "none" THEN {"approved"} ELSE {}
  /\ Done(w)
  /\ UNCHANGED <<kind, dead, desks, dense, bm25, faults>>

ImportPoi(w) == kind = "poi" /\ Import(w)

ImportStructured(w) == kind = "structured" /\ Import(w)

\* A keyword or an entry that cannot be imported: the whole job failed.
ImportFails(w) ==
  /\ work[w].phase = "commit" /\ work[w].on = "import"
  /\ row' = [row EXCEPT !.import = "failed"]
  /\ Done(w)
  /\ UNCHANGED <<kind, pending, dead, desks, dense, bm25, granted, faults>>

SearchWeb(w) ==
  /\ work[w].phase = "commit" /\ work[w].on = "search"
  /\ row' = [row EXCEPT !.search = "succeeded", !.candidate = IF @ = "none" THEN "waiting" ELSE @]
  /\ Done(w)
  /\ UNCHANGED <<kind, pending, dead, desks, dense, bm25, granted, faults>>

\* A confirmed itinerary holds the attraction.
DiscoverPoi ==
  /\ kind = "poi" /\ row.candidate = "none"
  /\ row' = [row EXCEPT !.candidate = "waiting"]
  /\ UNCHANGED <<kind, pending, dead, desks, work, dense, bm25, granted, faults>>

\* A store refuses; the handler of a source and the rebuild say so.
StoreFails(w) ==
  /\ work[w].phase \in {"dense", "bm25"} /\ faults < MaxFaults
  /\ kind # "post" \/ work[w].on = "rebuild"
  /\ row' = Result(work[w].on, FALSE)
  /\ Done(w) /\ faults' = faults + 1
  /\ UNCHANGED <<kind, pending, dead, desks, dense, bm25, granted>>

\* The worker is lost, no runtime could be opened or the handler raised: the
\* transaction is rolled back and the event comes again ...
Redeliver(w) ==
  /\ work[w] # NotWorking /\ faults < MaxFaults /\ pending[work[w].on] < MaxPending
  /\ pending' = [pending EXCEPT ![work[w].on] = @ + 1]
  /\ Done(w) /\ faults' = faults + 1
  /\ UNCHANGED <<kind, row, dead, desks, dense, bm25, granted>>

\* ... or was tried often enough; the web search is told.
DeadLetter(w) ==
  /\ work[w] # NotWorking /\ faults < MaxFaults
  /\ IF work[w].on = "search"
     THEN row' = [row EXCEPT !.search = IF @ = "queued" THEN "failed" ELSE @] /\ UNCHANGED dead
     ELSE dead' = dead \cup {work[w].on} /\ UNCHANGED row
  /\ Done(w) /\ faults' = faults + 1
  /\ UNCHANGED <<kind, pending, desks, dense, bm25, granted>>

----------------------------------------------------------------------------
Handling == \E w \in Workers :
  \/ \E q \in Topics : Take(w, q)
  \/ Ingest(w) \/ RemovePost(w) \/ RemoveSource(w) \/ Commit(w)
  \/ ImportPoi(w) \/ ImportStructured(w) \/ ImportFails(w) \/ SearchWeb(w)
  \/ StoreFails(w) \/ Redeliver(w) \/ DeadLetter(w)

Deciding == \E d \in Desks : (\E rule \in Rules : Open(d, rule)) \/ Close(d)

KnowledgeNext == Deciding \/ Handling \/ DiscoverPoi

KnowledgeSpec == KnowledgeInit /\ [][KnowledgeNext]_knowledgeVars

----------------------------------------------------------------------------
\* Nothing is in the assistant's stores but a source that an administrator has
\* at some time sent there, or a post that was published and whose review was
\* approved: waiting or rejected material never is, whoever decides at the same
\* time, in whatever order the decisions are written and whatever is indexed,
\* imported, rebuilt or delivered again (RAG design: community material must be
\* published and reviewed before it enters the community index).
KnowledgeIsReviewed ==
  dense \/ bm25 =>
    /\ "approved" \in granted
    /\ kind = "post" => "published" \in granted

Underway(q) == pending[q] > 0 \/ q \in dead \/ \E w \in Workers : work[w].on = q

\* A source that waits for the index or for its removal, and a queued job, can
\* be changed by nobody but their handler: its event is on the way, in a worker
\* or dead-lettered, although decisions, imports, retries and handlers write
\* the rows without a lock.
WorkIsOnItsWay ==
  /\ kind # "post" /\ row.status = "indexing" => Underway("index")
  /\ row.status = "removing" => Underway("remove")
  /\ \A j \in Jobs : row[j] = "queued" => Underway(j)
=============================================================================
