# A verification development for travel_latest

TLA+ models of the transactional and asynchronous core of the travel platform,
the TLC runs that check them on small instances, and TLAPS proofs of the
properties that matter most. Source paths below are relative to
`backend/app/` unless they start with another top-level directory.

To check a module: `tlc -config X.cfg Module` with the pairs of section 4; to check its proofs:
`tlapm ModuleProofs.tla`.

## 1. The system

A FastAPI application and one or more worker processes share MySQL (SQLAlchemy
async sessions), RabbitMQ, a PostgreSQL store for AI memory and previews, Milvus
and Elasticsearch for retrieval, object storage, and the HTTP services of
Alipay, a map provider and ticket suppliers. Two Vue applications (consumer and
administration) call the API; they hold no authoritative state.

Three facts about the database layer decide most of what can go wrong, and every
model uses them:

* Sessions run with `expire_on_commit=False` and keep the row objects they
  loaded. `SELECT ... FOR UPDATE` locks a row but does not refresh an object the
  session already holds: a check after the lock may be made on the values loaded
  before it. An UPDATE writes only the columns that differ from what was loaded.
* MySQL runs REPEATABLE READ: a plain SELECT reads the snapshot of the
  transaction's first plain SELECT; FOR UPDATE and writes see the latest rows.
* Unique keys and row counts are the last defence: a duplicate insert raises
  IntegrityError, an UPDATE of a deleted row raises StaleDataError, and both roll
  the transaction back.

### 1.1 Inventory

| Part | State | Operations | Interacts with | What makes it correct |
|---|---|---|---|---|
| Outbox and publisher (`events/publisher.py`, `models/outbox.py`) | `outbox_events` rows, their `published_at` and attempts | enqueue in the business transaction; poll, publish with confirm, mark | every service writes rows; RabbitMQ | an event is never lost between database and broker, however often it is published |
| Topology and consumer (`events/consumer.py`, `workers/main.py`) | worker, retry and dead-letter queues, `processed_events` | dispatch to the routes of an event, `consume_once`, retry with a TTL, dead-letter, terminal handlers | all domain handlers | one effect per consumer and event; an acknowledged message is settled; routes in order |
| Generation jobs (`modules/ai_workflows/service.py`, `workers/domain_handlers.py`) | `generation_jobs`, the quota of the user, previews in PostgreSQL | create under an idempotency key, claim, report stages, save preview, record result, release, close, retry | outbox, quota, AI memory, itineraries | charged once; one immutable preview; a job finishes |
| Itineraries and routes (`modules/itineraries/service.py`) | itinerary, days, stops, segments, versions, operations, route jobs | versioned operations, restore, apply preview, delete, calculate routes | generation jobs, maps, outbox, companion plans | no edit lost or applied over another; the current version is recorded; calculations end |
| Order payment (`modules/orders/services.py`) | order status triple, payments, callback rows | checkout, notice, query, settle | Alipay, outbox | one event per payment; no payment without money; paid money is settled |
| Fulfilment and refunds (`modules/orders/services.py`) | ticket, fulfilment attempt, refunds, order | issue ticket, book at the supplier, request refund, pay it back | outbox, suppliers, Alipay | booked once; no ticket with returned money; refunds end |
| Order placement and supplier search | offers, orders | search, create from offer under an idempotency key | suppliers | one order per key |
| Membership purchases (`modules/membership_purchases/service.py`) | purchase, QR attempts, callbacks | redirect checkout, QR create, refresh, expire, notice, query, authorize, retry | Alipay, memberships, quota | one grant per purchase, behind real money; one open QR code |
| Membership periods (`modules/memberships`) | plans, `user_memberships`, `user_entitlements`, `ai_quota_periods` | publish, update, archive, grant, revoke, buy, activate and push back future periods | purchases, quota | the paid time is kept, with its entitlements and quota |
| AI quota (`modules/ai_entitlements`) | quota periods and counters | consume, release, balances | generation jobs, memberships | never negative, never over the limit |
| Exports (`modules/exports`) | export rows, stored files | create, claim, complete, release, fail, expire | consumer, object storage | as generation jobs; an expired file is not offered |
| Companion plans (`modules/community`) | plan, seats, applications, group, editor rights | apply, withdraw, accept, reject, remove, leave, close, complete | itineraries, chat | seats equal accepted members; a member has the group and the editor right, a former one neither |
| Community posts | posts, reactions, reviews | publish, review, hide, react | search and AI indexes by events | a hidden post leaves every index |
| Chat (`modules/chat`) | conversations, members, messages, blocks | open, send, leave, block; websocket fan-out | community | one direct conversation per pair; none past a block |
| Collaboration | collaborators, share tokens, copies of field notes | invite, accept, revoke, share, copy | itineraries | a revoked collaborator cannot edit |
| Media (`modules/media`) | assets, objects | request upload, complete, expire | object storage, worker | an object is not deleted under a completed asset |
| AI memory (`modules/ai_memory`) | memories, previews, projection tasks | save, delete, claim, project, retry | Milvus, Elasticsearch | the projection follows the memory, a deletion wins |
| Experiences (`modules/providers`) | providers, sessions, bookings | review, schedule, book, verify | administrators | bookings fit the capacity |
| Knowledge of the assistant (`modules/ai_rag`, `modules/admin`, domain handlers) | review rows, import and rebuild jobs, dense and keyword stores | review, import, hide, rebuild, ingest | community, consumer | the stores hold approved material only; a queued job has an event under way |
| Planning workflow (`modules/ai_workflows/workflow.py`, agents) | the state of one run | retrieve, collect candidates, draft, check, review, revise, save | generation jobs, maps, retrieval | a preview is grounded; a run ends |
| Accounts (`modules/auth`, `modules/admin/users.py`) | status, roles, codes, sessions, tokens | send, verify, refresh, revoke, suspend, change roles | all routes | an administrator remains; tokens follow the account |
| Lists (`community`, `chat`, `notifications`, `admin`) | none | page through rows with a cursor | | nothing is shown twice; nothing is left out |
| Maps, integrations, search, users, destinations, trip support, frontends, migrations | single rows or none | reads, single-row updates, I/O | | |

`PROJECT.json` lists the same parts with their status, and under `hazards` the
places where the code is hard to test.

### 1.2 How the parts interact

A service commits its rows and an outbox row together. The publisher loop of a
worker sends the row to RabbitMQ and marks it. A worker takes the message and
runs the routes registered for its type. An *immediate* route commits its effect
with the `processed_events` row. A *deferred* route (fulfilment, refund
processing, generation, export) commits a claim on a business row first,
works outside any transaction (a model, a provider, a supplier), and commits its
result with the row. If it raises, the message goes to the retry queue, and
after three attempts to the dead-letter queue, after the route's terminal
handler if it has one. Provider notices and user queries reach payment and
purchase rows beside all this.

### 1.3 What is hard here

Overlapping requests that checked stale objects; duplicate and repeated
messages; a crash between a committed claim and its result; a retry or a
terminal handler that overwrites what another delivery has done since; provider
calls whose answer is lost; notices that come twice, late or before the query's
answer; a preview or a route calculated for a plan that has changed meanwhile.

## 2. Plan

Modules in order of writing; all of them exist.

1. `EventDelivery` with its promise `ConsumerContract`.
2. `GenerationJob` with its promise `GenerationLifecycle`.
3. `OrderStates`, `OrderPayment`, `OrderFulfillment` (both extend `OrderStates`).
4. `MembershipPurchase`.
5. `ItineraryVersions`.
6. `CompanionPlan`, `Chat`, `FieldNotes`, `Listings`: what travellers do together.
7. `Knowledge`, `Assistant`, `Memory`, `Planning`: what the assistant knows, is
   asked and proposes.
8. `Accounts`, `Experiences`, `TravelOffers`, `Uploads`, `Exports`,
   `MembershipPeriods`.
9. `MCTravellers` and `MCServices`, which compose the modules of 6 to 8 (and
   `OrderPayment`) for TLC.

What is left: the composition of two components where one waits for the other (a
generation job around the planning run; a payment around the offer).

Theorems in order: type correctness and the safety of each module of 1 to 5, the
refinements of `ConsumerContract` and `GenerationLifecycle`, then the safety of
the components of 6 to 8, and that the compositions of 9 keep all of it. All of
them are proved: every safety property that a passing run checks, types included,
has its theorem (section 6).

Runs stay few, one per question: modules that share no state are checked in one
run, and properties of one module that break together are parts of one named
conjunction.

## 3. What each module models

### EventDelivery, ConsumerContract

Rows of the outbox, copies of their messages, the four places of a message
(worker queue, retry queue, held, gone), the dead-letter queue, `processed_events`
(`processed`), the effects (`applied`) and the durable claim of deferred work
(`claim`). One action is one transaction, one broker operation or one crash:
`Emit`, the publisher's select, publish and mark, delivery, the routes of a
message one after another (`NextRoute`), the immediate commit, claim, work and
result of a deferred route, retry, dead-letter, terminal handler. A commit reply
may be lost and a task may hang where the code lets an exception escape.
`ConsumerContract` is what other parts rely on: an event is emitted once and
applied at most once per consumer; `EventDelivery` implements it with
`emitted <- Emitted`.

### GenerationJob, GenerationLifecycle

One job: overlapping create requests under one idempotency key with the quota
charge, retry requests, messages, and attempts that load, claim, report stages,
save the preview in PostgreSQL, record the result in MySQL, release or close.
`loaded[m]` is the row object an attempt holds; `FlushRow` writes the columns that
changed. `GenerationLifecycle` is the life a user is promised; the job is
mapped to it by its `status` and `trace` columns. The promise ends where two
sessions hold the row at once (`shared`, a history variable): both check what
they have loaded, so the older one may take back what the newer one has written.

### OrderStates, OrderPayment, OrderFulfillment

`OrderStates` holds the three status columns of an order and the transition table
`_allowed`. `OrderPayment` has checkout requests (load, lock, create), notices
(also forged ones), queries whose provider answer comes before or after the
settlement. `OrderFulfillment` goes on from the paid order: deliveries of
`payment_record.paid` issue the mock ticket or book at the supplier, refund
requests and deliveries of `refund_record.requested` pay back; each is a task that
goes through the transactions of its handler and may crash between them. A refund
message in `Repeated` has copies (`RefundCopies`). The provider moves the money of
a refund once, and what it reports of a request it has seen before is open;
`denied` records what it has said no to, and whether the money had moved by then.
`overlapped` records that two deliveries of one refund were between their
transactions at once.

### MembershipPurchase

One purchase: redirect checkout, QR attempts with expiry and refresh, notices,
queries, settlement, authorization (membership, quota period, event) and its
administrative retry. A request that loads the purchase before locking it keeps
those columns.

### ItineraryVersions

One itinerary. Every operation locks the row with its first statement and holds
the lock to the commit, so each is one action through the common frame `Apply`
(operation id, base version, new version, recorded snapshot). The route worker
takes no such lock: `Load` reads the day in the worker's snapshot, the map
service is asked, and `Complete` or `Fail` writes; `Raise` is the error when
the rows are gone, `Skip` a job that vanished before. The `display_order` of
stops is their place in a sequence; days keep theirs as a number, because
removing, adding and restoring days is where the numbering could break.
Refused requests change nothing and are no steps.

### CompanionPlan

One plan with its applications, seats, group conversation and the collaborators
of its itinerary. Requests that lock the plan row first (apply, accept, reject,
remove, leave, update, close, reopen, cancel, complete) are one action each.
Withdrawal, the review of the post, leaving the conversation and every change of
a collaborator read a row without a lock and write later: each is a request in
`requests` with a `Load` and a write between which everything may happen.
`accepted_count` is a column of its own (`plan.count`), as in the table.

### Chat

One conversation with its members, blocks, messages (ordered by the stamp they
get at the flush, visible at the commit), requests that repeat a
`client_message_id`, and the page of a watcher: history, subscription, events,
reconnection. Reading moves `last_read_message_id`.

### FieldNotes, Listings

`FieldNotes` has notes over frozen versions and the copies readers make under a
key: look, then insert copy and operation and add one to the counter in one
transaction. `Listings` has one walk through a list: pages behind a cursor, in
the order of each of the nine lists, while rows are inserted and removed.

### Knowledge

One document (post, official source or web source), decisions of administrators
that read without a lock, the events they commit, workers that ingest, remove,
import and rebuild, and the two stores, which succeed or fail one by one.
Events are given up after three attempts, which leaves a dead letter. `granted`
is history: what administrators have decided for the document so far, a
publication and an approval. A source that an import creates counts as approved
by whoever asked for the import, as `_import_poi_knowledge` does.

### Assistant

Questions with a message key, plain or streamed: check, charge of a quota period,
question, run, answer, release after a failure; every phase is a transaction.
Months go by between phases, the conversation may be deleted, and a streaming
client may go away.

### Memory

Explicit memories of a user with their versions, the projection task written
with each version, and workers that claim with a lease, load under the row lock,
delete and put in both stores, complete. Stores fail, workers are lost, leases
expire under a slow worker.

### Planning

One run of the workflow graph from validation to the saved preview or a
refusal; candidates, citations and drafts are sets and sequences of POIs, and
what model, map and indexes answer is chosen freely within what the adapters let
pass, up to `MaxEvidence` documents (20 in the code).

### Accounts

Status and platform role under the locks of `update_admin_user` (a deadlock
aborts one of two waiting transactions), sign-in that reads and issues later,
refresh, revocation and access tokens that say what was read and expire.

### Experiences, TravelOffers, Uploads, Exports

`Experiences`: application and review of a provider, sessions with capacity and
reserved places, bookings, verification, reviews; an editor's request reads and
writes in two steps. `TravelOffers`: a supplier that changes prices and seats,
search jobs with their offers, orders under a key with the passengers each
request names, the price check before the ticket. `Uploads`: intents, objects, completion against the cleanup, storage
failures and lost workers. `Exports`: request, claim, document, result, retry,
expiry and link; every attempt of a task inserts an asset with the same unique
`object_key`, so once a document is recorded (`filed`) a further attempt is
refused (`AssetRefused`): the session is rolled back, the release of the claim
fails with it, and the task stays as it is.

### MembershipPeriods

The memberships of one user: a plan that is published, changed and archived,
grants and revocations, and purchases whose period begins at once and pushes
back the periods that have not begun. `Look` is the first read of a query or a
retry: it fixes the snapshot from which `AuthorizeSeen` later reads the queue,
although the user row is locked by then; `AuthorizeFresh` is the settlement,
whose transaction begins with the lock. A period is one record of its
`user_memberships` row, its entitlements and its quota, which three tables hold.

### MCTravellers, MCServices

Components that share no state are explored side by side: `part` is chosen in
the initial state and names the one that runs; the others rest in an initial
state. Nothing is lost by that, since no action of one reads a variable of
another, and every component is explored as if alone; `Rest` says so. A component that needs
two instances is there twice (`plans` and `invites`, `chat` and `page`, `knowledge`
and `deciders`, `memory` and `slow`). The compositions extend their components, whose constants the
configuration gives and whose theorems therefore speak of what the run checks;
the second instances (`Guest`, a party of two with an invited collaborator;
`Pages`, one send and a watcher; `Slow`, one lease that expires) and the uploads
(`Up`) come in by INSTANCE; `OnDuty` makes the two of the knowledge, one desk
with two deliveries and faults, or all desks with one delivery and no fault. `TravellersAssumption` and `ServicesAssumption` name
the parts and what the second instances take of the constants. `PlanningStops`
says that a planning run that was chosen ends. The fairness of `MCServices` is each
component's own, given while it runs.

## 4. What the runs show

Deadlock is checked only in `payment_double`, where notices go on for ever;
everywhere else the system comes to rest when all work is done, and the
configuration says so.

| Run | Module and configuration | Instance | Question |
|---|---|---|---|
| `event_delivers` | `MCEventDelivery`, `EventDelivery_delivers` | one event with an immediate and a deferred route, 2 workers, 2 copies, 2 attempts, 1 fault | are effects exact and exclusive (`EffectsAreSound`), is nothing lost or out of order (`DeliveryIsSound`), does every event settle, is `ConsumerContract` implemented |
| `event_deferred_lost` (violation) | `MCEventDelivery`, `EventDelivery_deferred` | one deferred route, 1 worker, 2 copies | is a processed deferred event really done |
| `generation_finishes` | `MCGenerationJob`, `GenerationJob_finishes` | 2 create requests, one retrier, 3 events with one message each, no crash | does the job finish, whichever of redelivery, terminal handler and retry comes last |
| `generation_concurrent` | `MCGenerationJob`, `GenerationJob_concurrent` | 2 create requests, 2 retriers, 2 events with up to 2 messages at once, 2 stages, 2 faults | is the quota charged once and the preview kept (`JobIsSound`), does the job live as promised until two sessions hold it (`KeepsLifecycle`) |
| `payment_double` (violation) | `OrderPayment`, `OrderPayment_double` | 2 overlapping checkouts | is there one active payment |
| `fulfillment_settles` | `OrderFulfillment`, `OrderFulfillment_settles` | ticket and supplier orders, 2 deliveries, 2 refund requests, one of them delivered twice, 1 unanswered call, any answers, 1 crash | booking, ticket against refund, row agreement (`TradeIsSound`), refunds (`RefundsAreSound`), transitions and ends (`OrderSettles`) |
| `fulfillment_retry` (violation) | `OrderFulfillment`, `OrderFulfillment_retry` | supplier order, 1 unanswered call | does a retry reach the supplier |
| `membership_settles` | `MembershipPurchase`, `MembershipPurchase_settles` | 1 redirect key, 2 QR attempts, 1 user connection, 1 notice connection, 1 crash | one grant behind real money (`PurchaseIsSound`); one open code, final attempts, authorization (`PurchaseSettles`) |
| `itinerary_edits` | `MCItineraryVersions`, `ItineraryVersions_edits` | 3 operations from one-day itineraries, 2 dates, 1 POI, drafts of 2 stops, 1 worker, 1 crash | versions against operations and plan (`VersionsAreRecorded`), previews and orders (`VersionsAreUsable`), routes |
| `travellers_safe` | `MCTravellers`, `Travellers_safe` | the parts of section 3 beside each other, see below | seats, pages, messages, knowledge, answers, places, prices, copies, lists and paid time |
| `services_settle` | `MCServices`, `Services_settle` | payments, memory, uploads, exports, planning and accounts, see below | what was begun ends, and what it leaves behind is sound |
| `lists_skip` (violation) | `Listings`, `Listings_skip` | comments, pages of one row | does a reader see every comment |

`travellers_safe`: 3 travellers with a block between two, 1 request without a
lock, parties of 2 or 3, and a second plan with an invited collaborator; 2 people
with 2 sends of one key, and 1 send with a watching page; 1 document with 2
administrators, one delivery at a time and no fault, and the same with 1
administrator, 2 deliveries and 1 fault; 2 questions with one key, 2 months and a membership;
1 session, 2 travellers, 2 editors, capacity up to 2; 2 journeys, 2 clicks with
one key, 2 prices, 1 or 2 passengers; 1 note, 2 copiers, 2 keys; 3 rows and pages of one row in nine lists; 2 purchases, one of them with a retry, a
queued period, a grant, 2 days and durations up to 2.

`services_settle`: 2 keys, 1 checkout and 2 queries; 1 memory with 3 versions, 2
workers and 2 faults, and the same with one expired lease; 2 uploads with 3 tries
and a crash; 1 export, 3 events; 4 POIs in and beside the city, a wish, a
one-day itinerary to modify, 4 documents of evidence; 2 administrators and 2
changes of them, 2 sessions of one of them, one while both changes are under way
(`AccountsBound`).

### Why the bounds are enough

Two actors of each kind are what a race needs; the third in a race repeats one
of the first two at the same lock. Two copies of a message give every duplicate
and overlap, and one fault in each run lets the crash fall between any two steps.
Three operations on an itinerary are what the deepest case needs (add a
stop, generate from that version, edit, apply the outdated preview); a single
POI is enough because rows are told apart by their ids. Three versions of a
memory put a change between an old projection and a deletion. Three travellers are an owner,
an applicant and one who is already in or blocked. Three rows are a page, the
boundary and what is behind it. Four POIs give a draft of two that leaves
out a wish although the pool is sufficient, and one POI outside the city. Where a bound on
faults is also a fairness question (three attempts per message) the settling
properties are checked with fewer faults than attempts. `MaxVersion`,
`MaxFaults`, `MaxSlow`, `MaxCrashes`, `MaxTries`, `MaxParty`, `MaxChanges`,
`MaxCopies`, `MaxCopied`, `MaxMessages`, `MaxLost`, `MaxPending`, `MaxPassengers`,
`MaxCapacity`, `MaxClock`, `MaxToday`, `MaxDays`, `Life`, `AccountsBound` and
`MaxEvidence` (20 in the code) are bounds of the instances, not of the code; so are
`Repeated` and `RefundCopies`, which say how many messages a refund has.

### Fairness

The publisher loop polls for ever and restarts, the broker delivers and
redelivers, a started task goes on because every external call has a timeout:
weak fairness of those steps per worker, message or task. The provider repeats
a notice until it is answered with `success`: weak fairness of the settling
notice. A projection worker goes on claiming, the cleanup and an export's event
are delivered until they are handled, a planning run is one coroutine with
timeouts on every call, time goes on and a sign-in that was begun ends: weak
fairness of each. As one component runs for ever, `MCServices` states
the steps of several in one condition. Nothing else is fair: no user has to pay,
retry, query, refresh or ask for a refund, and no crash has to happen.
`ExportSettles` leaves out a request whose worker was lost behind its claim and
one whose document is recorded already, `RefundSettles` a refund after two
deliveries of one have overlapped, because those really stay (section 5).

## 5. Where the code and its documents differ

Shown by a run:

* `event_deferred_lost`: with a deferred marker, a duplicate delivery that finds
  the row claimed returns at once and commits `processed_events`; the delivery that
  does the work then gets an IntegrityError, and its result is rolled back and
  acknowledged (`events/consumer.py:101`; README.md:13 promises that no event is
  lost). A crash after the claim ends the same way.
* `payment_double`: `create_checkout` locks an order it loaded before and reads
  payments in the older snapshot: a second key gets a second active payment.
* `fulfillment_retry`: `start_attempt` binds `offer` only when it inserts the
  attempt; every retry raises UnboundLocalError before it asks the supplier.
* `lists_skip`: the cursor of a page of comments names the first row that was not
  shown, and the next page begins behind it: one row per page is never shown
  (`modules/community/service.py:329`; field notes at `:177` and posts do the same,
  the other lists name the last row shown).

Met while modelling, without a run (most were seen as counterexamples of a
stronger property before the property was given its present form):

* After a crash behind the claim nothing moves a generation job again, and retry
  refuses it (`modules/ai_workflows/service.py:189`; `docs/讲解要点.md:244` names
  crash recovery). An export has the same end (`modules/exports/service.py`), and
  without a crash as well: a second retry that read the failure, or a terminal
  handler that writes its failure late, queues a task again whose document is
  recorded; the new attempt violates the unique `object_key`
  (`modules/exports/service.py:123`), and the redelivery finds the task running.
* A verified success for a QR attempt that expired is refused for good
  (`modules/membership_purchases/service.py:239`; `docs/支付宝沙箱联调说明.md:38`).
* Three attempts (README.md:13) are two: `_delivery_attempts` adds all
  `x-death` counts, and one retry leaves two entries (`events/consumer.py:133`).
* `mark_progress` compares status and trace of the object loaded at the claim, so
  an old attempt may write progress over a newer one
  (`modules/ai_workflows/service.py:214`; `docs/讲解要点.md:386`). In the same way an
  exhausted delivery closes a job that another one has claimed, and the claim's next
  write takes the failure back. `KeepsLifecycle` therefore promises nothing after
  two sessions have held the row at once.
* A verified notice that is not a success reserves the `trade_no`, and the later
  success is refused (`modules/orders/services.py:654`,
  `docs/支付宝沙箱联调说明.md:152`).
* Two deliveries of a refund request may both pass the status check; the second
  writes `failed` over `refunded` (`modules/orders/services.py:529`), or closes the
  order under the refund that was requested in between, whose own answer can then
  not be recorded. A request asked again after a lost answer may be answered with
  `fund_change` N because the money moved the first time; `process` believes it and
  the refund is reported failed (`:534`, `:545`). `FailedWasDenied` says what is left:
  no refund fails without a denial, and none is done without its money.
* The redirect checkout of a membership may write `paying` over `paid`, and
  replaces the payment number of a page the buyer already has
  (`modules/membership_purchases/service.py:96`).
* A route calculated while stops are reordered is written over the new order
  (`modules/itineraries/service.py:808`; `docs/handoffs/A-路线异步任务.md:9`
  promises that an outdated task does not overwrite a later order). The model has
  this interleaving, which is why `CurrentIsRecorded` leaves routes out.
* Restoring a version brings back its days but not its date range
  (`modules/itineraries/service.py:752`; `docs/本地验收使用手册.md:138`).
* Two purchases of one user authorized at once: a retry or a query has fixed its
  snapshot before it waits for the user lock, computes from the windows before the
  other one's push and writes them back, so that a queued period lies within the
  longer purchase (`modules/membership_purchases/service.py:369`; `:357` says
  "already-paid time is preserved without overlap"). `PaidTimeIsKept` therefore
  speaks of lengths and of agreement with entitlements and quota, which hold.
* A second confirmation of a preview that waited for the lock reads its
  operation in an old snapshot and answers VERSION_CONFLICT instead of the first
  result (`modules/ai_workflows/router.py:125`; `docs/本地验收使用手册.md:223`).
* `withdraw_application` overwrites an acceptance committed since it read the row
  (`modules/community/service.py:681`): the traveller stays in the group and
  keeps a seat that nobody can free
  (`docs/superpowers/specs/2026-08-12-同行计划设计.md:113` and `:138`). That is why
  `SeatsAreKept` bounds the accepted members by the count and does not equate them.
* `accept_collaborator` overwrites a revocation (`modules/itineraries/service.py:366`);
  accepting against removing or leaving locks application and plan in opposite
  orders, and MySQL aborts one of them; a late refusal of the review
  writes `cancelled` over a plan that runs; a message sent beside the completion of
  the plan may land after it.
* A page that loads history before it subscribes never shows a message committed
  in between (`modules/chat/router.py:71` speaks of recovery from history).
* A post hidden while a slow ingestion is under way is indexed again
  (`docs/contracts/领域事件.md:40`); a store that fails half-way leaves the chunks of
  the other; a handler that cannot open its runtime is dead-lettered and leaves
  its job as it was; two administrators overwrite each other's decisions; a rebuild
  brings back a source that was removed meanwhile. What holds, and is checked, is
  that nothing gets in that was not approved at some time, and a post only if it was
  published as well (`KnowledgeIsReviewed`), and that a queued job has an event
  (`WorkIsOnItsWay`).
* A lease that expires under a worker whose attempt then fails leaves the newest
  version of a memory out of a store (`modules/ai_memory/projection_worker.py:97`
  and `:186`); that is why the instance with an expired lease has no failures.
  `search_personal_memory` reads the stores without the version gate.
* Two requests that send one question at once are both charged; the one whose
  insert fails keeps its charge; a client that disconnects leaves the run
  `running`; the replay of a completed run is empty (`modules/ai_memory/router.py`).
* An upload may be completed while the cleanup removes its object
  (`modules/media/service.py:61` and `:152`).
* The review refuses a candidate that AMap lists under a district of the city,
  because its citation names the district (`modules/ai_workflows/workflow.py:340`;
  `:1012` says "Allow a prefecture-level AMap code to contain one of its district
  POIs."). One POI cited twice counts as two candidates (`:324`, `:310`). A round that
  fails the budget and the review uses both revisions.
* A modification whose base has a day of more than three events is always
  refused, and the merge with the base drops events without a place and sets costs
  to zero (`_merge_target_snapshot`).
* Two of a provider's staff may verify one booking; racing decisions leave a
  rejected provider with its administrator; a session can be booked although its
  experience is not published (`modules/providers/service.py`).
* A search key used for another query returns the old job; the price check of a
  train asks for one passenger; a supplier that answers with availability only
  keeps the old price (`modules/orders/services.py`).
* A supplier's refusal leaves the order failed and the money kept until a refund
  is asked for; two refreshes of one token at once issue two sessions; quota
  periods may overlap.

## 6. What is proved

Each proof module extends the component's module; constants are arbitrary under
the ASSUME of that module. The proofs have the usual shape: `Init => Inv`,
`Inv /\ [Next]_vars => Inv'` with one step per action, and PTL for the rest.

* `EventDeliveryProofs`: `TypeCorrect`; `ImmediateEffects` (exactly one effect per
  `processed_events` row); `ExclusiveClaims`; `ContractKept`, the refinement of
  `ConsumerContract`. The invariant ties every task to the message it handles, and
  says that a task past its uncommitted insert of the marker, or between claim and
  result, is alone on its key and finds it unprocessed or running: `applied` alone
  is not inductive, because nothing in it says that a task about to commit has
  found the key free. `DeliverySound` adds loss and order with two invariants:
  what a publisher loop has confirmed is in a message, so that a published row is
  stored (`StoredOK`), and a task has the routes before its own behind it and, when it is
  about to acknowledge, has settled its event or dead-lettered it (`ProgressOK`).
* `GenerationJobProofs`: `TypeCorrect`; `QuotaCharged`; `PreviewKept`. The
  strengthening says that no session holds a job before it exists, so no late
  write creates it beside `create`, and that every copy of the row knows no
  preview or the one PostgreSQL has. `LifecycleKept` is the refinement of
  `GenerationLifecycle`, for any creators, retriers, stages, events, copies, failed
  deliveries and faults. Until two sessions have held the row at once, whoever holds
  it holds it alone and as it is (`OneHolder`, with `HeldAsIs` and `HeldAlone`), so
  that a check on the loaded object is a check on the row; a message or a copy of the row
  carries a trace that was given out, so that a retry gets a new one (`TracesKnown`).
  What follows such an overlap is left open by `GenerationLifecycle` itself, because
  there the code does not keep to it (section 5).
* `OrderPaymentProofs`: `TypeCorrect`; `PaidOnce`; `PaymentIsReal`. `Settlement`
  says that a callback row is processed exactly when its payment is paid, and that
  a query in progress still holds a callback row that was not: that is what makes
  the unique `trade_no` refuse a second settlement. `OrderAllowed`, the action
  property, holds where one connection at a time checks the order out
  (`OneCheckout`, as in `services_settle`): there is one payment then, and what a query or a
  checkout has read of the order still holds when it writes (`ReadsOrder`). With
  overlapping checkouts (`payment_double`) a query that read the order before the
  first payment was settled moves it back when it settles the second.
* `OrderFulfillmentProofs`: `TypeCorrect`; `BookedOnce`; `TicketOrMoney`;
  `AttemptConsistent`. The invariant says that a task at the supplier holds a claim
  nobody else has (`ClaimedOnce`), that attempt, ticket and order are in step
  (`InStep`), and that a refund in progress keeps the order out of fulfilment
  (`RefundCloses`); none of the three is inductive without the others.
  `OneRefundActive` and `RefundsSound` hold for any deliveries, crashes, silences and
  answers. Until two deliveries of one refund have been at work at once, one refund
  is active where the order is refunding, and one delivery works on it
  (`OneAtWork`); overlapping or not, a delivery that will record an answer has it
  from the provider, a yes with the money moved, a no among the denials
  (`AnswersHeld`), and without an overlap the money has not moved since. `OrderAllowed`:
  until such an overlap the order keeps to its transitions, also where `process`
  writes the columns without asking.
* `MembershipPurchaseProofs`: `TypeCorrect`; `GrantedOnce`; `PaidIsReal`, whose
  invariant carries the evidence of payment (trade and processed callback) through
  the requests between settlement and authorization. `OneOpen` and
  `AttemptsEndOnce` are about QR codes: a step either ends pending attempts or
  replaces the current one, which it ends first, so that one at most is pending
  and what has ended stays ended.
* `ItineraryVersionsProofs`: `VersionsRecorded` and `VersionsMade`. Every step is
  first shown to be one of four kinds (a versioned operation through `Apply`, a new
  route on a day, the deletion, or nothing that matters here). `History` adds that
  the records form a sequence, so that a new one gets its own number, and `Ledger`
  that the applied operations are finitely many, so that they can be counted.
  `VersionsUsable` (`AllUsable`) asks every recorded version to be usable, not only
  the current one, because a restored version comes back as it was recorded; it adds
  that a route job names a day that exists (`JobsHaveDays`) and that a preview stays
  on its base. Renumbering rests on `RanksFill`: to count for each member of a
  finite set of integers those below it numbers the set from 0 without gaps.
* `TravellersProofs` has the components of `MCTravellers`, each with an invariant
  of its own:
  - `CompanionPlan`: `TypeCorrect`; `SeatsKept`; `PlanUsable`. The seats are not
    inductive alone: the invariant adds that a plan with more than its owner was
    approved and a refused one is cancelled, so that no plan is full while the
    size may still grow without the status (`Reviewing`), that a plan that takes
    members keeps its itinerary (`HasItinerary`), and that accepted members and,
    once there is a group, the owner have a row in it (`InGroup`).
  - `FieldNotes`: `CopiesCounted`; the copy, its operation and its counting are one
    transaction, whatever the look before it has seen.
  - `TravelOffers`: `OrdersAreHonest`. A request that has found or created an order
    holds one that was made from its offer, and one that will create an order names
    as many passengers as the search was for (`FromAnOffer`).
  - `Chat`: `OneMessage` and the action property `BellGoesOut`. Who is about to
    store a message holds its key, and nobody has stored under it (`KeysHeld`);
    a stamp is never zero, which stands for "nothing read" (`Stamped`).
  - `Experiences`: `PlacesKept`. An edit that began before a booking writes back
    neither the reserved places nor a capacity below them (`PlacesCounted`), and who
    wrote a review has a verified booking, which no later edit turns back
    (`Attended`).
  - `Knowledge`: `KnowledgeReviewed` and `WorkArrives`. A status that leads to the
    stores has been granted at some time (`RowIsGranted`), so has the source whose
    removal a desk is about to write, even if the row has changed since it looked
    (`DesksAreGranted`), and what a worker carries was granted when it took it
    (`WorkIsSound`).
  - `Assistant`: `AnswersKept`. A question under way has its row, run and charge as
    its phase says (`AsksSound`), and the charges of a period are those of its
    questions (`ChargesCounted`).
  - `Listings`: `PagesSound`. The invariant places the rows shown before the
    cursor and the standing ones either shown or behind it (`WalkIsSound`); the
    order of each list is strict, and two rows never tie (`OrderLaws`).
  - `MembershipPeriods`: `PaidTimeKept`. Not only the rows but what a query or a
    retry has read keeps entitlements, quota and length (`PeriodsKept`), since it is
    written back later. The line of periods that is pushed back is given by its
    first members, and `ChainExists` shows that it exists for any queue.

  Every component has its type invariant as a theorem, too (`NotesTypeCorrect`,
  `OffersTypeCorrect`, `ChatTypeCorrect`, `ExperiencesTypeCorrect`,
  `KnowledgeTypeCorrect`, `AssistantTypeCorrect`, `ListingsTypeCorrect`,
  `PeriodsTypeCorrect`).

  `Listings`, `MembershipPeriods` and `Chat` need the first or last member of a
  finite set, which the code takes with ORDER BY ... LIMIT 1; `FirstExists`,
  `LeastExists` and `GreatestExists` find it as the one whose set of predecessors is
  least, by the well-foundedness of inclusion and without an induction of their own.

  The composition has `TravellersTyped`, `TravellersSound` and
  `TravellersBellGoesOut`. A step of `Travellers` moves one component as it moves
  alone, or none (`EachAlone`), so the conjunction of the components' invariants
  (`TravellersInv`) is inductive. A second instance moves as the component it is a
  smaller instance of: fewer sizes, no blocks or one send only take steps away
  (`GuestMoves`, `PagesMoves`), and what is more in it is kept
  beside (`PartyKeeps`, that its plan stays a party of two).
* `ServicesProofs` has the components of `MCServices` that have safety of their own:
  - `Accounts`: `AdminRemains`, for any number of accounts and transactions. The
    invariant follows the locks: a change holds its account from the first lock to
    its end (`HoldsItsAccount`), and one that is about to take an administrator away
    still holds the row of another active one (`LosesOneOfTwo`). It assumes
    `Staffed`, that somebody administers the platform to start with. `TokensFade` is
    the safety core of `TokensFollowAccount`: while an account is suspended and no request
    holds what it read before, no session begins and every token stays as it is or
    gets shorter, and likewise the tokens of a former administrator.
  - `Memory`: `MemoryForgets`. A worker touches the stores only under the row lock
    and with a row whose version is its task's, so what the stores hold is
    determined by the steps its attempt has made (`MemoryInv`); stale workers,
    expired leases and failing stores come and go without breaking that.
    `CompletedShown` is the safety core of `StoresCatchUp`: once the last task of a
    memory is completed and no worker is at it, the stores show the memory as its
    row says. The invariant says so for the stores themselves (`DoneIsStored`), and
    that where no lease expires too early whoever works on a task holds it
    (`OwnLeases`). It needs `OneKindOfTrouble`, failures or expired leases but not
    both: with one of each TLC finds a worker whose lease expired,
    which fails after another one has completed the task and leaves a store behind
    (section 5).
  - `Exports`: `LinksLead`. A document is taken away only when it is overdue, a
    finished export that is overdue has no attempt under way, and an attempt that
    is about to commit has stored its document (`ExportsInv`). `ExportsInHand` is
    the safety core of `ExportSettles`: until its document is recorded and unless its
    worker was lost, a queued export has a delivery that will still look at it, and a
    running one an attempt that will report (`RequestsAreInHand`).
  - `Planning`: `PreviewsAreGrounded`. Nothing that was checked changes before the
    preview is saved, and a revised draft passes all checks again (`PlanningInv`).
    `PlanningComesNearer` is the safety core of `PlanningStops`: every step leaves
    fewer nodes ahead (`NodesLeft`), because a review that sends the draft
    back uses up one of the revisions.

  Types are theorems here as well (`AccountsTypeCorrect`, `MemoryTypeCorrect`,
  `ExportsTypeCorrect`, `PlanningTypeCorrect`), and the composition has
  `ServicesTyped` and `ServicesSound`, by the same argument as above
  (`ServicesInv`). The slow worker is `Memory` with other bounds: its steps are
  steps of a memory whatever the bounds, and each instance counts within its own
  (`Counted`).
  `Uploads` has no safety property beside its type; the rest of it is liveness.

`EffectsSound`, `JobSound`, `VersionsSound`, `PurchaseSound`, `PaymentSound` and
`TradeSound` put proved parts together under the name that the run checks.

Assumptions. Besides the ASSUMEs of the modules, which give constants their types
and which TLC evaluates for the instances, the only hypotheses are those named
above: `Staffed`, `OneCheckout` and `OneKindOfTrouble`, each where the code does not
keep the property without it.

Only model-checked: liveness, because fairness and ENABLED are out of the
prover's reach. Of `PurchaseSettles`, `PaymentSettles` and `OrderSettles` the
safety parts are proved (`OneOpen`, `AttemptsEndOnce`, `OrderAllowed`), of
`StoresCatchUp`, `PlanningStops`, `TokensFollowAccount` and `ExportSettles` the
part that does not rest on fairness (`CompletedShown`, `PlanningComesNearer`,
`TokensFade`, `ExportsInHand`). The runs that expect a
violation show one behaviour, which is a proof already.

## 7. What is not modelled

The parts with status `not_modelled` in `PROJECT.json`, with their reasons: they
write single rows, only read, or translate between this system and another.
Within modelled parts: wording, validation of payloads, formats, signatures,
amounts (checked against the row before any state changes), ranking and
embeddings, prompts, and time other than expiry; share tokens, reactions,
favourites, follows and reports, which are single rows behind a unique key;
several itineraries, orders, plans or purchases at once, which share no rows the
properties speak of except the quota of a user.

Hazards that no property covers, because the code has them open and section 5
describes them: the doubled `x-death` count (`events/consumer.py:133`), progress
written over a newer run (`modules/ai_workflows/service.py:214`), a route
calculated for an old order (`modules/itineraries/service.py:808`), restored days
outside the date range (`:752`), a revocation overwritten (`:366`), the reserved
`trade_no` (`modules/orders/services.py:654`), opposite lock orders of refund and
settlement (`:485`) and a booking whose answer is lost before a refund (`:391`). Of
two deliveries of one refund (`:529`) and of two sessions that hold one job the
properties say what holds until they overlap, and of the refund that it is neither
done without its money nor failed without a denial.
