---------------------------- MODULE EventDelivery ----------------------------
(***************************************************************************)
(* The event backbone of the backend: the transactional outbox, the        *)
(* publisher loop of each worker process, the RabbitMQ topology (worker    *)
(* queue, retry queue with a TTL, dead-letter queue) and the idempotent    *)
(* consumer.  Sources: events/publisher.py, events/consumer.py,            *)
(* models/outbox.py, workers/main.py, workers/domain_handlers.py.          *)
(*                                                                         *)
(* One action is one database transaction, one broker operation or one     *)
(* crash.  A handler is abstract here: an immediate one commits its effect *)
(* in the transaction that holds the processed_events row; a deferred one  *)
(* commits a claim first, works outside any transaction, and commits its   *)
(* result with the row.                                                    *)
(***************************************************************************)
EXTENDS Integers, FiniteSets, Sequences

CONSTANTS
  Events,       \* outbox rows, by event_id
  NoEvent,      \* event of a broker message that does not exist yet
  Consumers,    \* consumer names
  Deferred,     \* consumers registered with defer_idempotency=True
  WithTerminal, \* deferred consumers that have a terminal_failure_handler
  RoutesOf,     \* the registered routes of each event, in order
  Workers,      \* worker processes
  NoWorker,     \* owner of a message no process holds
  MaxCopies,    \* bound: broker messages ever published
  MaxAttempts,  \* RabbitMQEventConsumer.max_attempts
  MaxFaults     \* bound: crashes and infrastructure errors

ASSUME BackboneAssumption ==
  /\ NoEvent \notin Events
  /\ NoWorker \notin Workers
  /\ Deferred \subseteq Consumers
  /\ WithTerminal \subseteq Deferred
  /\ RoutesOf \in [Events -> Seq(Consumers)]
  /\ \A e \in Events : \A i, j \in 1..Len(RoutesOf[e]) :
        RoutesOf[e][i] = RoutesOf[e][j] => i = j
  /\ MaxCopies \in Nat /\ MaxAttempts \in Nat \ {0} /\ MaxFaults \in Nat

Copies == 1..MaxCopies

VARIABLES
  outbox,     \* state of each outbox row
  batch,      \* rows a publisher loop has selected and not tried yet
  confirmed,  \* rows of the batch the broker confirmed, not committed yet
  event,      \* event carried by each broker message
  place,      \* where the broker has the message
  rejected,   \* x-death count of the worker queue, reason "rejected"
  expired,    \* x-death count of the retry queue, reason "expired"
  owner,      \* process whose channel holds the unacknowledged message
  pc,         \* where its _handle_message task stands
  route,      \* index of the active route
  processed,  \* committed rows of processed_events
  claim,      \* state of the row a deferred handler claims first
  applied,    \* history: committed handler effects
  dlq,        \* events published to the dead-letter exchange
  faults      \* crashes and infrastructure errors so far

outboxVars == <<outbox, batch, confirmed>>
messageVars == <<event, place, rejected, expired>>
taskVars == <<owner, pc, route>>
storeVars == <<processed, claim, applied>>
vars == <<outboxVars, messageVars, taskVars, storeVars, dlq, faults>>

\* Where a task stands: "idle" is no task; "hung" is a task that ended without
\* answering the broker; the rest name the next statement to run.
Labels == {"idle", "check", "insert", "handler", "claim", "work", "result", "skip",
           "failed", "terminal", "deadletter", "ack", "hung"}

TypeOK ==
  /\ outbox \in [Events -> {"absent", "pending", "published"}]
  /\ batch \in [Workers -> SUBSET Events]
  /\ confirmed \in [Workers -> SUBSET Events]
  /\ event \in [Copies -> Events \cup {NoEvent}]
  /\ place \in [Copies -> {"unused", "ready", "unacked", "delayed", "acked"}]
  /\ rejected \in [Copies -> Nat]
  /\ expired \in [Copies -> Nat]
  /\ owner \in [Copies -> Workers \cup {NoWorker}]
  /\ pc \in [Copies -> Labels]
  /\ route \in [Copies -> Nat]
  /\ processed \in SUBSET (Consumers \X Events)
  /\ claim \in [Consumers \X Events -> {"queued", "running", "done", "failed"}]
  /\ applied \in [Consumers \X Events -> Nat]
  /\ dlq \in SUBSET Events
  /\ faults \in Nat

Init ==
  /\ outbox = [e \in Events |-> "absent"]
  /\ batch = [w \in Workers |-> {}]
  /\ confirmed = [w \in Workers |-> {}]
  /\ event = [m \in Copies |-> NoEvent]
  /\ place = [m \in Copies |-> "unused"]
  /\ rejected = [m \in Copies |-> 0]
  /\ expired = [m \in Copies |-> 0]
  /\ owner = [m \in Copies |-> NoWorker]
  /\ pc = [m \in Copies |-> "idle"]
  /\ route = [m \in Copies |-> 0]
  /\ processed = {}
  /\ claim = [k \in Consumers \X Events |-> "queued"]
  /\ applied = [k \in Consumers \X Events |-> 0]
  /\ dlq = {}
  /\ faults = 0

(***************************************************************************)
(* Publishing                                                              *)
(***************************************************************************)

\* A business transaction commits its change and the outbox row together.
Emit(e) ==
  /\ outbox[e] = "absent"
  /\ outbox' = [outbox EXCEPT ![e] = "pending"]
  /\ UNCHANGED <<batch, confirmed, messageVars, taskVars, storeVars, dlq, faults>>

\* The loop reads the unpublished rows without locking them, so two worker
\* processes may select the same row.
SelectPending(w) ==
  /\ batch[w] = {} /\ confirmed[w] = {}
  /\ \E e \in Events : outbox[e] = "pending"
  /\ batch' = [batch EXCEPT ![w] = {e \in Events : outbox[e] = "pending"}]
  /\ UNCHANGED <<outbox, confirmed, messageVars, taskVars, storeVars, dlq, faults>>

NextCopy(m) ==
  /\ place[m] = "unused"
  /\ \A k \in Copies : place[k] = "unused" => m <= k

Enqueue(m, e) ==
  /\ event' = [event EXCEPT ![m] = e]
  /\ place' = [place EXCEPT ![m] = "ready"]
  /\ UNCHANGED <<rejected, expired>>

\* broker.publish returns after the broker's confirm; published_at is set on
\* the row and waits for the commit that ends the batch.
PublishConfirmed(w, e) ==
  /\ e \in batch[w]
  /\ \E m \in Copies : NextCopy(m) /\ Enqueue(m, e)
  /\ batch' = [batch EXCEPT ![w] = @ \ {e}]
  /\ confirmed' = [confirmed EXCEPT ![w] = @ \cup {e}]
  /\ UNCHANGED <<outbox, taskVars, storeVars, dlq, faults>>

\* Mutant of PublishFails: the row is marked although the publish failed.
PublishFailsMarked(w, e) ==
  /\ e \in batch[w]
  /\ faults < MaxFaults
  /\ faults' = faults + 1
  /\ batch' = [batch EXCEPT ![w] = @ \ {e}]
  /\ confirmed' = [confirmed EXCEPT ![w] = @ \cup {e}]
  /\ UNCHANGED <<outbox, messageVars, taskVars, storeVars, dlq>>

\* A publish that raises or is not confirmed leaves the row pending.  The
\* broker may still have stored the message (a lost confirm).
PublishFails(w, e) ==
  /\ e \in batch[w]
  /\ faults < MaxFaults
  /\ faults' = faults + 1
  /\ batch' = [batch EXCEPT ![w] = @ \ {e}]
  /\ \/ UNCHANGED messageVars
     \/ \E m \in Copies : NextCopy(m) /\ Enqueue(m, e)
  /\ UNCHANGED <<outbox, confirmed, taskVars, storeVars, dlq>>

\* processed_events.event_id is a foreign key: an uncommitted marker share-locks
\* the outbox row it refers to.
RowLocked(e) == \E m \in Copies : pc[m] = "handler" /\ event[m] = e

\* The UPDATEs are flushed at commit and wait for the handlers of those rows.
CommitPublished(w) ==
  /\ batch[w] = {} /\ confirmed[w] # {}
  /\ \A e \in confirmed[w] : ~RowLocked(e)
  /\ outbox' = [e \in Events |-> IF e \in confirmed[w] THEN "published" ELSE outbox[e]]
  /\ confirmed' = [confirmed EXCEPT ![w] = {}]
  /\ UNCHANGED <<batch, messageVars, taskVars, storeVars, dlq, faults>>

(***************************************************************************)
(* Consuming: one _handle_message task per unacknowledged message          *)
(***************************************************************************)

\* The consumer sets no prefetch, so the broker may deliver every ready
\* message at once and the tasks interleave at every await.
Deliver(m, w) ==
  /\ place[m] = "ready"
  /\ place' = [place EXCEPT ![m] = "unacked"]
  /\ owner' = [owner EXCEPT ![m] = w]
  /\ IF RoutesOf[event[m]] = <<>>
       THEN /\ pc' = [pc EXCEPT ![m] = "failed"]
            /\ route' = [route EXCEPT ![m] = 0]
       ELSE /\ pc' = [pc EXCEPT ![m] = "check"]
            /\ route' = [route EXCEPT ![m] = 1]
  /\ UNCHANGED <<outboxVars, event, rejected, expired, storeVars, dlq, faults>>

Key(m) == <<RoutesOf[event[m]][route[m]], event[m]>>

IsDeferred(m) == RoutesOf[event[m]][route[m]] \in Deferred

Goto(m, label) == pc' = [pc EXCEPT ![m] = label] /\ UNCHANGED <<owner, route>>

\* consume_once has returned: the next route, or the acknowledgement.
NextRoute(m) ==
  IF route[m] < Len(RoutesOf[event[m]])
    THEN /\ route' = [route EXCEPT ![m] = @ + 1]
         /\ pc' = [pc EXCEPT ![m] = "check"]
         /\ UNCHANGED owner
    ELSE Goto(m, "ack")

\* SELECT processed_events; a hit rolls back and returns False.
CheckProcessed(m) ==
  /\ pc[m] = "check"
  /\ IF Key(m) \in processed
       THEN NextRoute(m)
       ELSE Goto(m, IF IsDeferred(m) THEN "claim" ELSE "insert")
  /\ UNCHANGED <<outboxVars, messageVars, storeVars, dlq, faults>>

\* The unique index makes an INSERT wait for the transaction that holds the
\* same key uncommitted.
KeyHeld(m) == \E k \in Copies \ {m} : pc[k] = "handler" /\ Key(k) = Key(m)

\* Mutant of KeyTaken: processed_events has no unique constraint.
KeyNeverTaken(m) == FALSE

\* A committed row turns the INSERT into an IntegrityError.
KeyTaken(m) == Key(m) \in processed

InsertMarker(m) ==
  /\ pc[m] = "insert"
  /\ ~KeyHeld(m)
  /\ IF KeyTaken(m) THEN NextRoute(m) ELSE Goto(m, "handler")
  /\ UNCHANGED <<outboxVars, messageVars, storeVars, dlq, faults>>

CommitEffect(m) ==
  /\ processed' = processed \cup {Key(m)}
  /\ applied' = [applied EXCEPT ![Key(m)] = @ + 1]

HandlerCommits(m) ==
  /\ pc[m] = "handler"
  /\ CommitEffect(m)
  /\ NextRoute(m)
  /\ UNCHANGED <<outboxVars, messageVars, claim, dlq, faults>>

\* Mutant of HandlerRaises: the handler has committed its effect before it raised.
HandlerCommittedAlone(m) ==
  /\ pc[m] = "handler"
  /\ applied' = [applied EXCEPT ![Key(m)] = @ + 1]
  /\ Goto(m, "failed")
  /\ UNCHANGED <<outboxVars, messageVars, processed, claim, dlq, faults>>

\* The handler raises: the transaction, marker included, is rolled back.
HandlerRaises(m) ==
  /\ pc[m] = "handler"
  /\ Goto(m, "failed")
  /\ UNCHANGED <<outboxVars, messageVars, storeVars, dlq, faults>>

\* COMMIT succeeds in MySQL and the connection is lost before the reply.
CommitReplyLost(m) ==
  /\ pc[m] = "handler"
  /\ faults < MaxFaults
  /\ faults' = faults + 1
  /\ CommitEffect(m)
  /\ Goto(m, "failed")
  /\ UNCHANGED <<outboxVars, messageVars, claim, dlq>>

(***************************************************************************)
(* Deferred handlers: generation jobs and exports                          *)
(***************************************************************************)

Claimable(m) == claim[Key(m)] = "queued"

\* SELECT ... FOR UPDATE, then commit: only a queued row is claimed; anything
\* else makes the handler return without doing the work.
ClaimWork(m) ==
  /\ pc[m] = "claim"
  /\ IF Claimable(m)
       THEN claim' = [claim EXCEPT ![Key(m)] = "running"] /\ Goto(m, "work")
       ELSE Goto(m, "skip") /\ UNCHANGED claim
  /\ UNCHANGED <<outboxVars, messageVars, processed, applied, dlq, faults>>

WorkSucceeds(m) ==
  /\ pc[m] = "work"
  /\ Goto(m, "result")
  /\ UNCHANGED <<outboxVars, messageVars, storeVars, dlq, faults>>

\* prepare_retry commits the release of the claim, then the error is raised.
WorkFails(m) ==
  /\ pc[m] = "work"
  /\ claim' = [claim EXCEPT ![Key(m)] = "queued"]
  /\ Goto(m, "failed")
  /\ UNCHANGED <<outboxVars, messageVars, processed, applied, dlq, faults>>

\* The marker is inserted after the handler.  If another delivery has
\* committed it meanwhile, the IntegrityError rolls the result back and
\* consume_once returns False.
CommitDeferred(m) ==
  /\ pc[m] \in {"result", "skip"}
  /\ IF KeyTaken(m)
       THEN UNCHANGED storeVars
       ELSE /\ processed' = processed \cup {Key(m)}
            /\ IF pc[m] = "result"
                 THEN /\ applied' = [applied EXCEPT ![Key(m)] = @ + 1]
                      /\ claim' = [claim EXCEPT ![Key(m)] = "done"]
                 ELSE UNCHANGED <<applied, claim>>
  /\ NextRoute(m)
  /\ UNCHANGED <<outboxVars, messageVars, dlq, faults>>

(***************************************************************************)
(* Failure, retry and dead-letter                                          *)
(***************************************************************************)

\* _delivery_attempts adds up every x-death entry of the message, and a
\* message that went through the retry queue carries one entry per queue.
DeliveryAttempts(m) == rejected[m] + expired[m]

Exhausted(m) == DeliveryAttempts(m) + 1 >= MaxAttempts

\* Mutant of RejectDelivery: the worker queue has no dead-letter exchange, so
\* a rejected message is dropped.
RejectDropped(m) ==
  /\ pc[m] = "failed"
  /\ ~Exhausted(m)
  /\ place' = [place EXCEPT ![m] = "acked"]
  /\ rejected' = [rejected EXCEPT ![m] = @ + 1]
  /\ owner' = [owner EXCEPT ![m] = NoWorker]
  /\ pc' = [pc EXCEPT ![m] = "idle"]
  /\ UNCHANGED <<outboxVars, event, expired, route, storeVars, dlq, faults>>

RejectDelivery(m) ==
  /\ pc[m] = "failed"
  /\ ~Exhausted(m)
  /\ place' = [place EXCEPT ![m] = "delayed"]
  /\ rejected' = [rejected EXCEPT ![m] = @ + 1]
  /\ owner' = [owner EXCEPT ![m] = NoWorker]
  /\ pc' = [pc EXCEPT ![m] = "idle"]
  /\ UNCHANGED <<outboxVars, event, expired, route, storeVars, dlq, faults>>

\* The TTL of the retry queue dead-letters the message back to the exchange.
ExpireDelay(m) ==
  /\ place[m] = "delayed"
  /\ place' = [place EXCEPT ![m] = "ready"]
  /\ expired' = [expired EXCEPT ![m] = @ + 1]
  /\ UNCHANGED <<outboxVars, event, rejected, taskVars, storeVars, dlq, faults>>

HasTerminal(m) == route[m] > 0 /\ RoutesOf[event[m]][route[m]] \in WithTerminal

GiveUp(m) ==
  /\ pc[m] = "failed"
  /\ Exhausted(m)
  /\ Goto(m, IF HasTerminal(m) THEN "terminal" ELSE "deadletter")
  /\ UNCHANGED <<outboxVars, messageVars, storeVars, dlq, faults>>

\* The terminal handler closes only a queued row, in a fresh session.
TerminalHandler(m) ==
  /\ pc[m] = "terminal"
  /\ claim' = [claim EXCEPT ![Key(m)] = IF Claimable(m) THEN "failed" ELSE @]
  /\ Goto(m, "deadletter")
  /\ UNCHANGED <<outboxVars, messageVars, processed, applied, dlq, faults>>

PublishDeadLetter(m) ==
  /\ pc[m] = "deadletter"
  /\ dlq' = dlq \cup {event[m]}
  /\ Goto(m, "ack")
  /\ UNCHANGED <<outboxVars, messageVars, storeVars, faults>>

\* An exception out of the terminal handler or publish_dead_letter ends the
\* task with the message neither acknowledged nor rejected.
GiveUpRaises(m) ==
  /\ pc[m] \in {"terminal", "deadletter"}
  /\ faults < MaxFaults
  /\ faults' = faults + 1
  /\ Goto(m, "hung")
  /\ UNCHANGED <<outboxVars, messageVars, storeVars, dlq>>

Ack(m) ==
  /\ pc[m] = "ack"
  /\ place' = [place EXCEPT ![m] = "acked"]
  /\ owner' = [owner EXCEPT ![m] = NoWorker]
  /\ pc' = [pc EXCEPT ![m] = "idle"]
  /\ UNCHANGED <<outboxVars, event, rejected, expired, route, storeVars, dlq, faults>>

\* A process dies (an error in the publisher loop ends run_worker as well):
\* open transactions roll back and the broker requeues what it held.
Crash(w) ==
  /\ faults < MaxFaults
  /\ faults' = faults + 1
  /\ batch' = [batch EXCEPT ![w] = {}]
  /\ confirmed' = [confirmed EXCEPT ![w] = {}]
  /\ place' = [m \in Copies |-> IF owner[m] = w THEN "ready" ELSE place[m]]
  /\ pc' = [m \in Copies |-> IF owner[m] = w THEN "idle" ELSE pc[m]]
  /\ owner' = [m \in Copies |-> IF owner[m] = w THEN NoWorker ELSE owner[m]]
  /\ UNCHANGED <<outbox, event, rejected, expired, route, storeVars, dlq>>

(***************************************************************************)
(* Specification                                                           *)
(***************************************************************************)

PublisherStep(w) ==
  \/ SelectPending(w)
  \/ \E e \in Events : PublishConfirmed(w, e)
  \/ CommitPublished(w)

TaskStep(m) ==
  \/ CheckProcessed(m) \/ InsertMarker(m) \/ HandlerCommits(m) \/ HandlerRaises(m)
  \/ ClaimWork(m) \/ WorkSucceeds(m) \/ WorkFails(m) \/ CommitDeferred(m)
  \/ RejectDelivery(m) \/ GiveUp(m) \/ TerminalHandler(m) \/ PublishDeadLetter(m)
  \/ Ack(m)

BrokerStep(m) == ExpireDelay(m) \/ \E w \in Workers : Deliver(m, w)

Fault ==
  \/ \E w \in Workers : Crash(w) \/ \E e \in Events : PublishFails(w, e)
  \/ \E m \in Copies : CommitReplyLost(m) \/ GiveUpRaises(m)

Next ==
  \/ \E e \in Events : Emit(e)
  \/ \E w \in Workers : PublisherStep(w)
  \/ \E m \in Copies : TaskStep(m) \/ BrokerStep(m)
  \/ Fault

\* The poll loop, the broker and a started task keep going; business
\* transactions and faults need not happen.
Fairness ==
  /\ \A w \in Workers : WF_vars(PublisherStep(w))
  /\ \A m \in Copies : WF_vars(TaskStep(m)) /\ WF_vars(BrokerStep(m))

Spec == Init /\ [][Next]_vars

FairSpec == Spec /\ Fairness

(***************************************************************************)
(* Properties                                                              *)
(***************************************************************************)

Routes(e) == 1..Len(RoutesOf[e])

Handled(e) == \A i \in Routes(e) : <<RoutesOf[e][i], e>> \in processed

\* The effect of an immediate consumer and its processed_events row commit
\* together, exactly once, under duplicates, crashes and lost commit replies
\* (consume_once, "Run one event handler exactly once for a consumer name").
ImmediateExactlyOnce ==
  \A c \in Consumers \ Deferred, e \in Events :
    applied[<<c, e>>] = IF <<c, e>> \in processed THEN 1 ELSE 0

\* At most one delivery at a time is between the durable claim and the result
\* of a deferred handler, so the external work is never run by two tasks at
\* once (the FOR UPDATE claim of start_attempt).
ClaimIsExclusive ==
  \A m, k \in Copies :
    /\ pc[m] \in {"work", "result"} /\ pc[k] \in {"work", "result"}
    /\ Key(m) = Key(k)
    => m = k

\* Nothing is done twice: effects and claimed work.
EffectsAreSound == ImmediateExactlyOnce /\ ClaimIsExclusive

\* A row is marked published only after the broker has a message for it: an
\* event is never lost between the database and the broker
\* (publish_pending_events, "mark them only after broker confirmation").
PublishedIsStored ==
  \A e \in Events : outbox[e] = "published" => \E m \in Copies : event[m] = e

\* A message leaves the worker queue for good only when every route of its
\* event has been processed or the event is in the dead-letter queue.
AckMeansSettled ==
  \A m \in Copies : place[m] = "acked" => Handled(event[m]) \/ event[m] \in dlq

\* The routes of an event take effect in registration order: orders.payment
\* before orders.fulfillment, the search removal before the AI removal.
RouteOrder ==
  \A e \in Events : \A i, j \in Routes(e) :
    i < j /\ <<RoutesOf[e][j], e>> \in processed => <<RoutesOf[e][i], e>> \in processed

\* No message is lost on its way from the row to the last route of its event,
\* and no route overtakes another.
DeliveryIsSound == PublishedIsStored /\ AckMeansSettled /\ RouteOrder

\* Every emitted event is in the end handled by all its routes, dead-lettered,
\* or held by a task whose failure handling itself raised.
EveryEventSettles ==
  \A e \in Events :
    outbox[e] # "absent" ~>
      \/ Handled(e) \/ e \in dlq
      \/ \E m \in Copies : event[m] = e /\ pc[m] = "hung"

\* consume_once says it runs a handler exactly once: a processed row of a
\* deferred consumer means the work it stands for was committed, or the job
\* was closed as failed.
DeferredProcessedIsDone ==
  \A c \in Deferred, e \in Events :
    <<c, e>> \in processed => claim[<<c, e>>] \in {"done", "failed"}

Emitted == {e \in Events : outbox[e] # "absent"}

Promise == INSTANCE ConsumerContract WITH emitted <- Emitted

\* The backbone implements the contract the other modules rely on.
KeepsContract == Promise!Contract
=============================================================================
