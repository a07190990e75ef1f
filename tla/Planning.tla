----------------------------- MODULE Planning ------------------------------
(***************************************************************************)
(* One run of the planning workflow: evidence, candidate POIs, drafts of a *)
(* language model, checks, revisions, the preview.                         *)
(* Sources: ai_workflows/workflow.py (the LangGraph workflow), runtime.py, *)
(* live_sources.py, dashscope.py, agent_draft.py, ai_agents/services.py.   *)
(*                                                                         *)
(* What the model, the map service and the indexes answer is chosen freely *)
(* within what their adapters let pass.  A candidate is a POI with the     *)
(* citation it comes from; the pool is a set, since no two candidates have *)
(* both in common.  A draft gives the activities of the days it mentions.  *)
(***************************************************************************)
EXTENDS Integers, Sequences, FiniteSets

CONSTANTS
  Pois,
  Requested, \* city code of the request
  Adcode,    \* Adcode[p]: administrative code AMap gives for a POI
  Areas,     \* codes that lie in the requested city, itself included
  Reviewed,  \* citations the knowledge indexes hold
  Approved,  \* POIs an administrator approved
  Wishes,    \* sets of POIs a user may insist on
  Base,      \* Base[d]: POIs of day d of an itinerary that is modified
  MaxCost,   \* bound: cost of a draft; the budget is MaxCost - 1
  MaxEvidence, \* documents the review is given at most (20)
  None

VARIABLES
  request,   \* a new itinerary or a modification, and the POIs insisted on
  stage,     \* node that runs next, or how the run ended
  citations,
  pool,      \* verified_candidates
  draft,     \* generated_draft, then draft and verified_draft
  revisions, \* revision_count
  preview

planningVars == <<request, stage, citations, pool, draft, revisions, preview>>

Days == DOMAIN Base

MaxRevisions == 2

Stages == {"validate_request", "retrieve", "prepare", "discover", "search", "count",
           "planning_agent", "validate_schema", "map_agent", "generation_review_agent",
           "save", "user_confirmation", "failed"}

SourceTypes == {"requested_poi", "approved_poi", "reviewed", "amap_scenic", "live_web"}

Cite(type, p, city) == [type |-> type, poi |-> p, city |-> city]

IsCitation(c) == c.type \in SourceTypes /\ c.poi \in Pois \union {None}

\* What the indexes, the administrator and the user name are POIs.
ASSUME PlanningAssumption ==
  /\ \A c \in Reviewed : IsCitation(c)
  /\ Approved \subseteq Pois /\ Wishes \subseteq SUBSET Pois

PlanningTypeOK ==
  /\ request.new \in BOOLEAN /\ request.must \in Wishes
  /\ stage \in Stages
  /\ \A c \in citations : IsCitation(c)
  /\ \A c \in pool : c.poi \in Pois /\ IsCitation(c.source)
  /\ draft # None => DOMAIN draft.days \subseteq Days /\ draft.cost \in 0..MaxCost
  /\ revisions \in 0..MaxRevisions
  /\ preview \in {None, draft}

PlanningInit ==
  /\ request \in [new : BOOLEAN, must : Wishes]
  /\ request.new \/ request.must = {}
  /\ stage = "validate_request"
  /\ citations = {} /\ pool = {} /\ draft = None /\ revisions = 0 /\ preview = None

----------------------------------------------------------------------------
Fail ==
  /\ stage' = "failed"
  /\ UNCHANGED <<request, citations, pool, draft, revisions, preview>>

Go(from, to) == stage = from /\ stage' = to

\* Identifiers, city, one to seven days, a budget that is not negative.
ValidateRequest ==
  /\ Go("validate_request", "retrieve")
  /\ UNCHANGED <<request, citations, pool, draft, revisions, preview>>

RequestRefused == stage = "validate_request" /\ Fail

\* Official and community knowledge, each left out when it cannot answer, and
\* what states another city than the request; which ones are among the best
\* eight is open.
SameCity(found) == {c \in found : c.city = Requested}

Answers == SUBSET Reviewed

RetrieveEvidence ==
  /\ Go("retrieve", IF request.new THEN "prepare" ELSE "planning_agent")
  /\ \E found \in Answers : citations' = SameCity(found)
  /\ UNCHANGED <<request, pool, draft, revisions, preview>>

InCity(p) == Adcode[p] \in Areas

Candidates(type, ps) == {[poi |-> p, source |-> Cite(type, p, Requested)] : p \in ps}

PoisOf(candidates) == {c.poi : c \in candidates}

SourcesOf(candidates) == {c.source : c \in candidates}

\* The POIs the user insists on, those approved, then those of the citations:
\* each is asked of AMap, which may not know it now.
PrepareCandidates ==
  /\ Go("prepare", "discover")
  /\ \A p \in request.must : InCity(p)
  /\ \E approved \in SUBSET {p \in Approved \ request.must : InCity(p)},
        reviewed \in SUBSET {c \in citations : c.poi # None /\ InCity(c.poi)} :
       LET first == Candidates("requested_poi", request.must) \union Candidates("approved_poi", approved)
           second == {[poi |-> c.poi, source |-> c] : c \in reviewed}
       IN /\ \A c, d \in reviewed : c.poi = d.poi => c = d
          /\ PoisOf(first) \intersect PoisOf(second) = {}
          /\ pool' = first \union second
          /\ citations' = citations \union SourcesOf(first)
  /\ UNCHANGED <<request, draft, revisions, preview>>

\* A POI insisted on that AMap does not find, or finds elsewhere.
MustVisitRefused == stage = "prepare" /\ request.must # {} /\ Fail

Required == 2 * Cardinality(Days)

Lacking == Cardinality(pool) < Required

\* known holds the POIs of the request and of the administrator only.
Known == {c.poi : c \in {x \in pool : x.source.type \in {"requested_poi", "approved_poi"}}}

\* Scenic POIs of AMap, with the district AMap gives as the citation's city.
Scenic(ps) == {[poi |-> p, source |-> Cite("amap_scenic", p, Adcode[p])] : p \in ps}

DiscoverScenic ==
  /\ Go("discover", "search")
  /\ \E ps \in SUBSET {p \in Pois \ Known : InCity(p)} :
       /\ ps = {} \/ Lacking
       /\ pool' = pool \union Scenic(ps)
       /\ citations' = citations \union SourcesOf(Scenic(ps))
  /\ UNCHANGED <<request, draft, revisions, preview>>

\* All POIs found through a web search share the citation of an article.
Live(ps) == {[poi |-> p, source |-> Cite("live_web", None, Requested)] : p \in ps}

SearchLiveSources ==
  /\ Go("search", "count")
  /\ \E ps \in SUBSET {p \in Pois \ PoisOf(pool) : InCity(p)} :
       /\ ps = {} \/ Lacking
       /\ pool' = pool \union Live(ps)
       /\ citations' = citations \union SourcesOf(Live(ps))
  /\ UNCHANGED <<request, draft, revisions, preview>>

SearchUnavailable == stage = "search" /\ Lacking /\ Fail

CountCandidates ==
  /\ Go("count", "planning_agent")
  /\ ~Lacking
  /\ UNCHANGED <<request, citations, pool, draft, revisions, preview>>

InsufficientCandidates == stage = "count" /\ Lacking /\ Fail

----------------------------------------------------------------------------
Lists(ps, n) == UNION {[1..k -> ps] : k \in 0..n}

Distinct(stops) == \A i, j \in DOMAIN stops : stops[i] = stops[j] => i = j

\* The stops of a draft, day by day: <<d, i>> for the i-th of day d.
Stops(days) == UNION {{<<d, i>> : i \in DOMAIN days[d]} : d \in DOMAIN days}

PoiAt(days, stop) == days[stop[1]][stop[2]]

Visited(days) == {PoiAt(days, stop) : stop \in Stops(days)}

NoRepeats(days) == Cardinality(Visited(days)) = Cardinality(Stops(days))

\* _validate_draft_shape: with candidates, two or three of them a day, none
\* twice.  The dates are not looked at.
Shaped(days) ==
  pool = {} \/ ( /\ \A d \in DOMAIN days : Len(days[d]) \in 2..3
                 /\ Visited(days) \subseteq PoisOf(pool)
                 /\ NoRepeats(days) )

DraftDays ==
  UNION {[ds -> Lists(IF pool = {} THEN Pois ELSE PoisOf(pool), 3)] : ds \in SUBSET Days}

\* The days of the itinerary that a modification does not mention stay.
Merged(days) ==
  IF request.new THEN days
  ELSE [d \in Days |-> IF d \in DOMAIN days THEN days[d] ELSE Base[d]]

Generate ==
  /\ Go("planning_agent", "validate_schema")
  /\ \E days \in DraftDays, cost \in 0..MaxCost :
       draft' = [days |-> Merged(days), cost |-> cost] /\ Shaped(days)
  /\ UNCHANGED <<request, citations, pool, revisions, preview>>

\* The model, AMap or the preview store does not answer, the model only gives
\* drafts that are refused, or a POI is not in the city.
DependencyUnavailable == stage \in {"planning_agent", "map_agent", "save"} /\ Fail

\* Mutant of MissesWish: the draft may leave out what the user insists on.
MissesWishUnchecked == FALSE

MissesWish == ~(request.must \subseteq Visited(draft.days))

\* DraftSchemaError or InsufficientVerifiedCandidates
Invalid ==
  \/ DOMAIN draft.days # Days
  \/ \E d \in DOMAIN draft.days : Len(draft.days[d]) > 3
  \/ request.new /\ \E d \in DOMAIN draft.days : Len(draft.days[d]) < 2
  \/ request.new /\ ~(Visited(draft.days) \subseteq PoisOf(pool))
  \/ request.new /\ ~NoRepeats(draft.days)
  \/ request.new /\ MissesWish

ValidateSchema ==
  /\ Go("validate_schema", "map_agent")
  /\ ~Invalid
  /\ UNCHANGED <<request, citations, pool, draft, revisions, preview>>

SchemaRefused == stage = "validate_schema" /\ Invalid /\ Fail

VerifyPois ==
  /\ Go("map_agent", "generation_review_agent")
  /\ \A p \in Visited(draft.days) : InCity(p)
  /\ UNCHANGED <<request, citations, pool, draft, revisions, preview>>

----------------------------------------------------------------------------
\* _controlled_review_request: the citation of a candidate is its evidence,
\* a later candidate of the same POI taking the place of an earlier one.
EvidenceOf(p) ==
  LET own == {c \in pool : c.poi = p}
      scenic == {c \in own : c.source.type = "amap_scenic"}
  IN SourcesOf(IF scenic = {} THEN own ELSE scenic)

\* The review only retrieves citations of the requested city itself, and no
\* more than MaxEvidence: all have one score, their chunk ids decide.
Evidence ==
  LET own == SameCity(citations)
  IN IF Cardinality(own) <= MaxEvidence THEN {own}
     ELSE {found \in SUBSET own : Cardinality(found) = MaxEvidence}

HasEvidence(p, evidence) == EvidenceOf(p) \subseteq evidence

InBudget == draft.cost < MaxCost

ReviewPasses(evidence) ==
  NoRepeats(draft.days) /\ \A p \in Visited(draft.days) : HasEvidence(p, evidence)

\* Revisions after this round: the constraint check may ask for one and the
\* review for another.
AfterCheck == IF InBudget THEN revisions ELSE revisions + 1

\* Mutant of AfterReview: what the review asks for is not counted.
AfterReviewUncounted(evidence) == AfterCheck

AfterReview(evidence) == IF ReviewPasses(evidence) THEN AfterCheck ELSE AfterCheck + 1

\* Without a source there is nothing to review with; an itinerary without a
\* stop is no valid request to the review.
CanReview == citations # {} /\ Visited(draft.days) # {}

Review ==
  /\ stage = "generation_review_agent" /\ CanReview
  /\ \E evidence \in Evidence :
       /\ AfterReview(evidence) <= MaxRevisions
       /\ stage' = IF InBudget /\ ReviewPasses(evidence) THEN "save" ELSE "planning_agent"
       /\ revisions' = AfterReview(evidence)
  /\ UNCHANGED <<request, citations, pool, draft, preview>>

ReviewRefused ==
  /\ stage = "generation_review_agent"
  /\ ~CanReview \/ \E evidence \in Evidence : AfterReview(evidence) > MaxRevisions
  /\ Fail

SavePreview ==
  /\ Go("save", "user_confirmation")
  /\ preview' = draft
  /\ UNCHANGED <<request, citations, pool, draft, revisions>>

PlanningNext ==
  \/ ValidateRequest \/ RequestRefused \/ RetrieveEvidence
  \/ PrepareCandidates \/ MustVisitRefused \/ DiscoverScenic
  \/ SearchLiveSources \/ SearchUnavailable \/ CountCandidates \/ InsufficientCandidates
  \/ Generate \/ DependencyUnavailable \/ ValidateSchema \/ SchemaRefused \/ VerifyPois
  \/ Review \/ ReviewRefused \/ SavePreview

\* The workflow is one coroutine with timeouts on every call.
PlanningFairness == WF_planningVars(PlanningNext)

PlanningSpec == PlanningInit /\ [][PlanningNext]_planningVars /\ PlanningFairness

----------------------------------------------------------------------------
\* A preview that is saved for a new itinerary visits, on every day asked for,
\* two or three verified POIs of the city, none twice, all that the user
\* insists on, within the budget, and each with a citation of the request's
\* city; one that modifies an itinerary stays in the city, repeats no POI and
\* fits the budget.
PreviewIsGrounded ==
  preview # None =>
    /\ DOMAIN preview.days = Days /\ preview.cost < MaxCost
    /\ NoRepeats(preview.days)
    /\ \A p \in Visited(preview.days) : Adcode[p] \in Areas
    /\ request.new =>
         /\ request.must \subseteq Visited(preview.days)
         /\ \A d \in Days : Len(preview.days[d]) \in 2..3
         /\ \A p \in Visited(preview.days) :
              \E c \in citations : c.city = Requested /\ (c.poi = p \/ c.type = "live_web")

\* A run of the workflow ends, however often drafts are found wanting.
PlanningEnds == <>(stage \in {"user_confirmation", "failed"})
=============================================================================
