-------------------------- MODULE OrderFulfillment --------------------------
(***************************************************************************)
(* A paid order until it is confirmed, failed or refunded: deliveries of   *)
(* payment_record.paid issue its mock ticket or book it at the supplier,   *)
(* the user asks for a refund, deliveries of refund_record.requested pay   *)
(* it back.  Sources: orders/services.py (MockTicketService,               *)
(* FulfillmentService, RefundService), workers/domain_handlers.py.         *)
(*                                                                         *)
(* Both handlers are deferred consumers: they commit on their own, and a   *)
(* delivery that raises is retried MaxFailed times, then dead-lettered     *)
(* (EventDelivery).                                                        *)
(***************************************************************************)
EXTENDS OrderStates, FiniteSets

CONSTANTS
  PaidMessages,  \* copies of the payment_record.paid message
  RefundKeys,    \* idempotency keys of refund requests
  Repeated,      \* refunds whose refund_record.requested message has copies
  RefundCopies,  \* those copies
  Kinds,         \* subset of {"ticket", "supplier"}: how the order is fulfilled
  MaxFailed,     \* failed deliveries before a message is dead-lettered
  MaxSilences,   \* bound: calls a provider or supplier does not answer
  MaxCrashes     \* bound: crashes of the worker

RefundMessages == (RefundKeys \X {0}) \cup (Repeated \X RefundCopies)

Messages == PaidMessages \cup RefundMessages

ASSUME FulfillmentAssumption ==
  /\ PaidMessages \cap RefundMessages = {}
  /\ Repeated \subseteq RefundKeys
  /\ Kinds \subseteq {"ticket", "supplier"}
  /\ MaxFailed \in Nat \ {0} /\ MaxSilences \in Nat /\ MaxCrashes \in Nat

VARIABLES
  order,         \* the three status columns
  ticket,        \* status of the mock_transport_tickets row
  attempt,       \* status of the fulfillment_attempts row
  booked,        \* bookings the supplier has made for the order
  refund,        \* status of each refund_records row
  refundUpdates, \* refund_record.updated events of each refund
  returned,      \* refunds whose money the provider has moved
  denied,        \* <<refund, moved>>: the provider said no with its money moved or not
  overlapped,    \* history: two deliveries of one refund were at work at once
  pc,            \* where the worker stands with each message
  noted,         \* what it holds: the ticket status it read, or an answer
  failed,        \* failed deliveries of each message
  silences,      \* unanswered calls so far
  crashes        \* crashes so far

orderVars == <<order, ticket, attempt>>
refundVars == <<refund, refundUpdates>>
worldVars == <<booked, returned, denied>>
taskVars == <<pc, noted, failed>>
faultVars == <<silences, crashes>>
vars == <<orderVars, refundVars, worldVars, overlapped, taskVars, faultVars>>

Active == {"requested", "processing"}

TypeOK ==
  /\ order \in OrderColumns
  /\ ticket \in {"none", "pending", "issued", "failed"}
  /\ attempt \in {"none", "queued", "running", "succeeded", "failed"}
  /\ booked \in Nat
  /\ refund \in [RefundKeys -> {"none", "requested", "processing", "refunded", "failed"}]
  /\ refundUpdates \in [RefundKeys -> Nat]
  /\ returned \subseteq RefundKeys
  /\ denied \subseteq RefundKeys \X BOOLEAN
  /\ overlapped \in BOOLEAN
  /\ pc \in [Messages -> {"ready", "issue", "start", "claimed", "answered", "release",
                          "refund", "done", "dead"}]
  /\ noted \in [Messages -> {"none", "pending", "issued", "failed", "yes", "no", "Y", "N"}]
  /\ failed \in [Messages -> Nat]
  /\ silences \in Nat /\ crashes \in Nat

Init ==
  /\ order = Paid
  /\ \E kind \in Kinds : ticket = IF kind = "ticket" THEN "pending" ELSE "none"
  /\ attempt = "none"
  /\ booked = 0
  /\ refund = [k \in RefundKeys |-> "none"]
  /\ refundUpdates = [k \in RefundKeys |-> 0]
  /\ returned = {}
  /\ denied = {}
  /\ overlapped = FALSE
  /\ pc = [m \in Messages |-> "ready"]
  /\ noted = [m \in Messages |-> "none"]
  /\ failed = [m \in Messages |-> 0]
  /\ silences = 0
  /\ crashes = 0

Goto(m, label) == pc' = [pc EXCEPT ![m] = label]

Note(m, value) == noted' = [noted EXCEPT ![m] = value]

\* The handler raised: its transaction is rolled back and the delivery failed.
Raise(m) ==
  /\ failed' = [failed EXCEPT ![m] = @ + 1]
  /\ Goto(m, IF failed[m] + 1 < MaxFailed THEN "ready" ELSE "dead")

(***************************************************************************)
(* payment_record.paid: a mock ticket                                      *)
(***************************************************************************)

\* The handler looks for a ticket without a lock and keeps the object.
LoadTicket(m) ==
  /\ m \in PaidMessages /\ pc[m] = "ready"
  /\ Goto(m, IF ticket = "none" THEN "start" ELSE "issue")
  /\ Note(m, ticket)
  /\ UNCHANGED <<orderVars, refundVars, worldVars, overlapped, failed, faultVars>>

AwaitsFulfillment == order[1] = "PAID_PENDING_FULFILLMENT" /\ order[2] = "paid"

TicketDue(m) == AwaitsFulfillment /\ noted[m] = "pending"

\* Mutant of IssueTicket: the columns are written without looking at the order.
IssueUnchecked(m) ==
  /\ pc[m] = "issue"
  /\ noted[m] = "pending"
  /\ ticket' = "issued" /\ order' = Confirmed
  /\ Goto(m, "done")
  /\ UNCHANGED <<attempt, refundVars, worldVars, overlapped, noted, failed, faultVars>>

\* The offer is still valid and the issuer issues, or one of them says no.
IssueTicket(m) ==
  /\ pc[m] = "issue"
  /\ TicketDue(m)
  /\ \/ ticket' = "issued" /\ order' = Confirmed
     \/ ticket' = "failed" /\ order' = TicketFailed
  /\ CanMove(order, order')
  /\ Goto(m, "done")
  /\ UNCHANGED <<attempt, refundVars, worldVars, overlapped, noted, failed, faultVars>>

TicketNotDue(m) ==
  /\ pc[m] = "issue"
  /\ ~TicketDue(m)
  /\ Goto(m, "done")
  /\ UNCHANGED <<orderVars, refundVars, worldVars, overlapped, noted, failed, faultVars>>

\* Validation of the offer is unavailable: the delivery is retried.
ValidationSilent(m) ==
  /\ pc[m] = "issue"
  /\ TicketDue(m)
  /\ silences < MaxSilences
  /\ silences' = silences + 1
  /\ Raise(m)
  /\ UNCHANGED <<orderVars, refundVars, worldVars, overlapped, noted, crashes>>

(***************************************************************************)
(* payment_record.paid: a supplier booking                                 *)
(***************************************************************************)

Resuming == order[3] = "confirming" /\ attempt = "running"

\* start_attempt goes on to a claim.
Startable ==
  /\ AwaitsFulfillment
  /\ order[3] = "pending_confirmation" \/ Resuming
  /\ attempt \in {"none", "queued"} \/ Resuming

\* Only the branch that inserts the attempt binds the local offer.
OfferBound == attempt = "none"

\* The claim is committed before the supplier is called.
ClaimAttempt(m) ==
  /\ pc[m] = "start"
  /\ Startable /\ OfferBound
  /\ order' = Confirming
  /\ attempt' = "running"
  /\ Goto(m, "claimed")
  /\ UNCHANGED <<ticket, refundVars, worldVars, overlapped, noted, failed, faultVars>>

\* Reading the unbound offer raises; the re-claim is rolled back.
ResumeRaises(m) ==
  /\ pc[m] = "start"
  /\ Startable /\ ~OfferBound
  /\ Raise(m)
  /\ UNCHANGED <<orderVars, refundVars, worldVars, overlapped, noted, faultVars>>

SkipAttempt(m) ==
  /\ pc[m] = "start"
  /\ ~Startable
  /\ Goto(m, "done")
  /\ UNCHANGED <<orderVars, refundVars, worldVars, overlapped, noted, failed, faultVars>>

AskSupplier(m) ==
  /\ pc[m] = "claimed"
  /\ \/ booked' = booked + 1 /\ Note(m, "yes")
     \/ Note(m, "no") /\ UNCHANGED booked
  /\ Goto(m, "answered")
  /\ UNCHANGED <<orderVars, refundVars, returned, denied, overlapped, failed, faultVars>>

\* No answer: the supplier may have booked all the same.
SupplierSilent(m) ==
  /\ pc[m] = "claimed"
  /\ silences < MaxSilences
  /\ silences' = silences + 1
  /\ booked' \in {booked, booked + 1}
  /\ Goto(m, "release")
  /\ UNCHANGED <<orderVars, refundVars, returned, denied, overlapped, noted, failed, crashes>>

\* _complete, under the locks of the order and the attempt.
Complete(m) ==
  /\ pc[m] = "answered"
  /\ IF order[3] = "confirming" /\ attempt = "running"
       THEN IF noted[m] = "yes"
              THEN order' = Confirmed /\ attempt' = "succeeded"
              ELSE order' = Failed /\ attempt' = "failed"
       ELSE UNCHANGED <<order, attempt>>
  /\ Goto(m, "done")
  /\ UNCHANGED <<ticket, refundVars, worldVars, overlapped, noted, failed, faultVars>>

ReleasedAttempt == IF attempt = "running" THEN "queued" ELSE attempt

\* prepare_retry, after which the handler raises for the broker to retry.
ReleaseClaim(m) ==
  /\ pc[m] = "release"
  /\ IF order[3] = "confirming"
       THEN order' = Paid /\ attempt' = ReleasedAttempt
       ELSE UNCHANGED <<order, attempt>>
  /\ Raise(m)
  /\ UNCHANGED <<ticket, refundVars, worldVars, overlapped, noted, faultVars>>

(***************************************************************************)
(* Refunds                                                                 *)
(***************************************************************************)

Refundable == order \in {Paid, TicketFailed}

\* RefundService.create, under the locks of the order and its paid payment.
RequestRefund(k) ==
  /\ refund[k] = "none"
  /\ Refundable
  /\ \A j \in RefundKeys : refund[j] \notin Active
  /\ refund' = [refund EXCEPT ![k] = "requested"]
  /\ order' = <<"REFUNDING", "refunding",
                IF order[3] = "failed" THEN "failed" ELSE "pending_confirmation">>
  /\ CanMove(order, order')
  /\ UNCHANGED <<ticket, attempt, refundUpdates, worldVars, overlapped, taskVars, faultVars>>

\* Mutant of Settled: process also leaves a refund alone that is processing.
SettledOrProcessing(status) == status \in {"processing", "refunded", "failed"}

Settled(status) == status \in {"refunded", "failed"}

\* Deliveries of the refund between its two transactions.
AtWork(k) == {n \in RefundMessages : n[1] = k /\ pc[n] \in {"refund", "answered"}}

BeginRefund(m) ==
  /\ m \in RefundMessages /\ pc[m] = "ready"
  /\ refund[m[1]] # "none"
  /\ IF Settled(refund[m[1]])
       THEN Goto(m, "done") /\ UNCHANGED <<refund, overlapped>>
       ELSE /\ Goto(m, "refund")
            /\ refund' = [refund EXCEPT ![m[1]] = "processing"]
            /\ overlapped' = (overlapped \/ AtWork(m[1]) # {})
  /\ UNCHANGED <<orderVars, refundUpdates, worldVars, noted, failed, faultVars>>

\* The provider moves the money of one out_request_no once and reports
\* fund_change; what it reports of a request it has seen before is open.
AskProvider(m) ==
  /\ m \in RefundMessages /\ pc[m] = "refund"
  /\ \/ Note(m, "Y") /\ returned' = returned \cup {m[1]} /\ UNCHANGED denied
     \/ Note(m, "N") /\ denied' = denied \cup {<<m[1], m[1] \in returned>>} /\ UNCHANGED returned
  /\ Goto(m, "answered")
  /\ UNCHANGED <<orderVars, refundVars, booked, overlapped, failed, faultVars>>

\* Mutant of ProviderSilent: no answer counts as a rejection.
SilenceRejects(m) ==
  /\ m \in RefundMessages /\ pc[m] = "refund"
  /\ silences < MaxSilences
  /\ silences' = silences + 1
  /\ returned' \in {returned, returned \cup {m[1]}}
  /\ Note(m, "N") /\ Goto(m, "answered")
  /\ UNCHANGED <<orderVars, refundVars, booked, denied, overlapped, failed, crashes>>

\* No answer: the money may have moved all the same.
ProviderSilent(m) ==
  /\ m \in RefundMessages /\ pc[m] = "refund"
  /\ silences < MaxSilences
  /\ silences' = silences + 1
  /\ returned' \in {returned, returned \cup {m[1]}}
  /\ Raise(m)
  /\ UNCHANGED <<orderVars, refundVars, booked, denied, overlapped, noted, crashes>>

Outcome(m) ==
  IF noted[m] = "Y"
    THEN <<"REFUNDED", "refunded", IF order[3] = "failed" THEN "failed" ELSE "not_supported">>
    ELSE IF order[3] = "failed" THEN TicketFailed ELSE Failed

\* A rejected refund of an unfulfilled order is written without transition.
Overwrites(m) == noted[m] # "Y" /\ order[3] # "failed"

RecordRefund(m) ==
  /\ m \in RefundMessages /\ pc[m] = "answered"
  /\ IF Overwrites(m) \/ CanMove(order, Outcome(m))
       THEN /\ order' = Outcome(m)
            /\ refund' = [refund EXCEPT ![m[1]] = IF noted[m] = "Y" THEN "refunded" ELSE "failed"]
            /\ refundUpdates' = [refundUpdates EXCEPT ![m[1]] = @ + 1]
            /\ Goto(m, "done")
            /\ UNCHANGED failed
       ELSE Raise(m) /\ UNCHANGED <<order, refundVars>>
  /\ UNCHANGED <<ticket, attempt, worldVars, overlapped, noted, faultVars>>

\* The worker dies before the broker has its acknowledgement.
Crash(m) ==
  /\ pc[m] \notin {"ready", "dead"}
  /\ crashes < MaxCrashes
  /\ crashes' = crashes + 1
  /\ Goto(m, "ready")
  /\ UNCHANGED <<orderVars, refundVars, worldVars, overlapped, noted, failed, silences>>

(***************************************************************************)
(* The specification                                                       *)
(***************************************************************************)

PaidStep(m) ==
  /\ m \in PaidMessages
  /\ \/ LoadTicket(m) \/ IssueTicket(m) \/ TicketNotDue(m) \/ ValidationSilent(m)
     \/ ClaimAttempt(m) \/ ResumeRaises(m) \/ SkipAttempt(m)
     \/ AskSupplier(m) \/ SupplierSilent(m) \/ Complete(m) \/ ReleaseClaim(m)

RefundStep(m) == BeginRefund(m) \/ AskProvider(m) \/ ProviderSilent(m) \/ RecordRefund(m)

TaskStep(m) == PaidStep(m) \/ RefundStep(m)

Next ==
  \/ \E m \in Messages : TaskStep(m) \/ Crash(m)
  \/ \E k \in RefundKeys : RequestRefund(k)

Spec == Init /\ [][Next]_vars

\* The worker goes on with every message it has (nobody has to ask for a refund).
FairSpec == Spec /\ \A m \in Messages : WF_vars(TaskStep(m))

(***************************************************************************)
(* Properties                                                              *)
(***************************************************************************)

\* Duplicate deliveries, crashes and lost answers never book an order twice.
BookOnce == booked <= 1

\* An issued ticket belongs to a confirmed order whose money stays, however
\* the refund request and the deliveries of the payment interleave.
TicketExcludesRefund == ticket = "issued" => order = Confirmed /\ returned = {}

\* The attempt row and the order tell the same story of the booking.
AttemptMatchesOrder ==
  /\ attempt = "running" <=> order[3] = "confirming"
  /\ attempt = "succeeded" => order = Confirmed
  /\ attempt = "queued" => order \in {Paid, Refunding, Refunded, Failed}

\* Booking, ticket and order agree.
TradeIsSound == BookOnce /\ TicketExcludesRefund /\ AttemptMatchesOrder

\* One refund is under way exactly while the order is refunding, unless two
\* deliveries of one request have overlapped.
OneActiveRefund ==
  ~overlapped =>
    /\ \A j, k \in RefundKeys : refund[j] \in Active /\ refund[k] \in Active => j = k
    /\ order[1] = "REFUNDING" <=> \E k \in RefundKeys : refund[k] \in Active

\* A refund is reported done only when its money has moved, and failed only
\* when the provider said no: a lost answer, a crash or an overlap never counts
\* as one.  Without an overlap the provider said so of the money as it stands:
\* where the money of a failed refund has moved, the provider denied it when
\* it was asked again after a lost answer (process believes the last answer).
FailedWasDenied ==
  \A k \in RefundKeys :
    /\ refund[k] = "refunded" => k \in returned
    /\ refund[k] = "failed" => \E moved \in BOOLEAN : <<k, moved>> \in denied
    /\ refund[k] = "failed" /\ ~overlapped => <<k, k \in returned>> \in denied

\* Refund, order, the provider's word and the buyer's money agree.
RefundsAreSound == OneActiveRefund /\ FailedWasDenied

\* The order only takes the transitions of OrderStateService._allowed, also
\* where the code writes the columns itself, until two deliveries of one
\* refund overlap.
OrderFollowsAllowed == [][order' # order /\ ~overlapped => CanMove(order, order')]_order

\* A requested refund is settled in the end, unless deliveries of one overlap:
\* an answer recorded late then closes the order under the refund requested
\* after it, whose own answer can no longer be recorded.
RefundSettles ==
  \A k \in RefundKeys : refund[k] = "requested" ~> refund[k] \in {"refunded", "failed"} \/ overlapped

\* A paid ticket order is confirmed or refunded in the end.
PaidTicketSettles ==
  AwaitsFulfillment /\ ticket # "none" ~> ~AwaitsFulfillment

\* The order keeps to its transitions and arrives at an end.
OrderSettles == OrderFollowsAllowed /\ RefundSettles /\ PaidTicketSettles

\* A paid order is confirmed, failed or refunded in the end.
PaidOrderSettles == AwaitsFulfillment ~> ~AwaitsFulfillment
==============================================================================
