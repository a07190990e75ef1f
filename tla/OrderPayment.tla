---------------------------- MODULE OrderPayment ----------------------------
(***************************************************************************)
(* Paying one travel order through Alipay: checkout requests, the buyer    *)
(* and the provider's trades, the provider's notices and the user's        *)
(* payment queries.  Source: orders/services.py (PaymentService),          *)
(* orders/router.py.                                                       *)
(*                                                                         *)
(* A payment, its payment_no and its trade are named by the Idempotency-   *)
(* Key of the checkout they come from (payment_no_for).  Requests load the *)
(* order before they lock it: the lock does not refresh the loaded object, *)
(* and unlocked reads see the transaction's snapshot (REPEATABLE READ).    *)
(***************************************************************************)
EXTENDS OrderStates, Sequences, FiniteSets

CONSTANTS
  Keys,            \* idempotency keys of checkouts of this order
  Checkouts,       \* connections that send checkout requests
  Queries,         \* connections that send payment queries
  NoticeStatuses   \* trade statuses the provider notifies

ASSUME PaymentAssumption ==
  /\ Keys # {} /\ IsFiniteSet(Keys)
  /\ NoticeStatuses \subseteq {"waiting", "success", "closed"}

VARIABLES
  order,      \* the three status columns
  payment,    \* status of the payment_records row of each key
  created,    \* keys in the order their rows were created
  event,      \* payment_callback_events row of each trade_no
  paidEvents, \* payment_record.paid events in the outbox
  trade,      \* the provider's trade for each payment_no
  checkout,   \* what each checkout request has loaded
  query       \* what each payment query has loaded

vars == <<order, payment, created, event, paidEvents, trade, checkout, query>>

NoRequest == [at |-> "idle"]

PaymentStatuses == {"none", "paying", "paid"}

CheckoutRequest ==
  [at : {"loaded"}, key : Keys, order : OrderColumns, seen : [Keys -> PaymentStatuses]]

QueryRequest ==
  [at : {"loaded"}, key : Keys, order : OrderColumns, known : {"none", "failed", "processed"}]

TypeOK ==
  /\ order \in OrderColumns
  /\ payment \in [Keys -> PaymentStatuses]
  /\ created \in Seq(Keys)
  /\ \A i, j \in 1..Len(created) : created[i] = created[j] => i = j
  /\ event \in [Keys -> {"none", "failed", "processed"}]
  /\ paidEvents \in [Keys -> Nat]
  /\ trade \in [Keys -> {"none", "waiting", "success", "closed"}]
  /\ checkout \in [Checkouts -> CheckoutRequest \cup {NoRequest}]
  /\ query \in [Queries -> QueryRequest \cup {NoRequest}]

Init ==
  /\ order = Pending
  /\ payment = [k \in Keys |-> "none"]
  /\ created = <<>>
  /\ event = [k \in Keys |-> "none"]
  /\ paidEvents = [k \in Keys |-> 0]
  /\ trade = [k \in Keys |-> "none"]
  /\ checkout = [c \in Checkouts |-> NoRequest]
  /\ query = [q \in Queries |-> NoRequest]

(***************************************************************************)
(* Checkout                                                                *)
(***************************************************************************)

\* The router reads the order; the transaction's snapshot starts here.
CheckoutLoad(c, k) ==
  /\ checkout[c] = NoRequest
  /\ checkout' = [checkout EXCEPT ![c] =
                    [at |-> "loaded", key |-> k, order |-> order, seen |-> payment]]
  /\ UNCHANGED <<order, payment, created, event, paidEvents, trade, query>>

Payable(o) == o[1] \in {"PENDING_CONFIRMATION", "PAYING"} /\ o[2] \in {"pending", "paying"}

NoneActive(seen) == \A k \in Keys : seen[k] # "paying"

Unbound(k) == payment[k] = "none"

\* A new payment and the order's move to PAYING, under the order's row lock.
CheckoutInsert(c) ==
  LET r == checkout[c] IN
  /\ r # NoRequest
  /\ Payable(r.order)
  /\ r.seen[r.key] = "none" /\ NoneActive(r.seen)
  /\ Unbound(r.key)
  /\ payment' = [payment EXCEPT ![r.key] = "paying"]
  /\ created' = Append(created, r.key)
  /\ IF r.order[1] = "PENDING_CONFIRMATION"
       THEN CanMove(r.order, Paying) /\ order' = FlushOrder(order, r.order, Paying)
       ELSE UNCHANGED order
  /\ checkout' = [checkout EXCEPT ![c] = NoRequest]
  /\ UNCHANGED <<event, paidEvents, trade, query>>

\* The same key again, a refusal, or a violated unique key: nothing is written.
CheckoutReturn(c) ==
  LET r == checkout[c] IN
  /\ r # NoRequest
  /\ \/ ~Payable(r.order)
     \/ r.seen[r.key] # "none"
     \/ ~NoneActive(r.seen)
     \/ ~Unbound(r.key)
  /\ checkout' = [checkout EXCEPT ![c] = NoRequest]
  /\ UNCHANGED <<order, payment, created, event, paidEvents, trade, query>>

(***************************************************************************)
(* Buyer and provider                                                      *)
(***************************************************************************)

OpenTrade(k) ==
  /\ payment[k] # "none" /\ trade[k] = "none"
  /\ trade' = [trade EXCEPT ![k] = "waiting"]
  /\ UNCHANGED <<order, payment, created, event, paidEvents, checkout, query>>

EndTrade(k) ==
  /\ trade[k] = "waiting"
  /\ \E s \in {"success", "closed"} : trade' = [trade EXCEPT ![k] = s]
  /\ UNCHANGED <<order, payment, created, event, paidEvents, checkout, query>>

(***************************************************************************)
(* Settling                                                                *)
(***************************************************************************)

\* Mutant of Successful: the trade status is not looked at.
AnyStatus(status) == TRUE

Successful(status) == status = "success"

\* A callback row recorded as failed has no payment_id: it never matches.
Recognised(status, known) == Successful(status) /\ known # "failed"

\* transition refuses an order that is PAYING in its first column only.
Movable(o, p) == p # "paid" /\ o[1] = "PAYING" => CanMove(o, Paid)

\* The writes of _settle, for the order o and payment status p the session holds.
Settle(k, o, p) ==
  /\ event' = [event EXCEPT ![k] = "processed"]
  /\ IF p = "paid"
       THEN UNCHANGED <<order, payment, paidEvents>>
       ELSE /\ payment' = [payment EXCEPT ![k] = "paid"]
            /\ paidEvents' = [paidEvents EXCEPT ![k] = @ + 1]
            /\ order' = IF o[1] = "PAYING" THEN FlushOrder(order, o, Paid) ELSE order

\* What the provider may say of a trade, any number of times and late.
Notifiable(k, status) ==
  /\ status \in NoticeStatuses
  /\ trade[k] # "none"
  /\ status = "waiting" \/ status = trade[k]

\* handle_callback with a verified notice: payment and order are locked and read.
SettleNotice(k, status) ==
  /\ Notifiable(k, status)
  /\ Recognised(status, event[k]) /\ Movable(order, payment[k])
  /\ Settle(k, order, payment[k])
  /\ UNCHANGED <<created, trade, checkout, query>>

\* A verified notice that is not recognised is recorded under its trade_no.
RecordFailure(k, status) ==
  /\ Notifiable(k, status)
  /\ ~Recognised(status, event[k])
  /\ event' = [event EXCEPT ![k] = IF @ = "none" THEN "failed" ELSE @]
  /\ UNCHANGED <<order, payment, created, paidEvents, trade, checkout, query>>

\* Mutant of RejectedKey: an unverified callback is stored under the trade_no it names.
ClaimedKey(k) == {k}

\* Trade numbers a rejected callback reserves: it is stored with NULL.
RejectedKey(k) == {}

RejectForged(k) ==
  /\ event' = [t \in Keys |-> IF t \in RejectedKey(k) /\ event[t] = "none"
                                THEN "failed" ELSE event[t]]
  /\ UNCHANGED <<order, payment, created, paidEvents, trade, checkout, query>>

\* The query reads order, latest payment and, later, the callback row in one snapshot.
QueryLoad(q) ==
  /\ query[q] = NoRequest
  /\ created # <<>>
  /\ LET k == created[Len(created)] IN
       /\ payment[k] = "paying"
       /\ query' = [query EXCEPT ![q] =
                      [at |-> "loaded", key |-> k, order |-> order, known |-> event[k]]]
  /\ UNCHANGED <<order, payment, created, event, paidEvents, trade, checkout>>

TradeTaken(k, known) == known = "none" /\ event[k] # "none"

QueryEnds(q) ==
  /\ query[q] # NoRequest
  /\ query' = [query EXCEPT ![q] = NoRequest]

\* The provider reports the trade paid: _settle with what the query loaded.
QuerySettle(q) ==
  LET r == query[q] IN
  /\ QueryEnds(q)
  /\ Recognised(trade[r.key], r.known) /\ Movable(r.order, "paying")
  /\ ~TradeTaken(r.key, r.known)
  /\ Settle(r.key, r.order, "paying")
  /\ UNCHANGED <<created, trade, checkout>>

\* Not paid, no answer, a refusal or a violated unique key.
QueryReturn(q) ==
  /\ QueryEnds(q)
  /\ UNCHANGED <<order, payment, created, event, paidEvents, trade, checkout>>

\* Fulfilment and refund of the paid order (OrderFulfillment has the detail).
Proceed ==
  /\ order[2] \in {"paid", "refunding"}
  /\ \E target \in OrderColumns : CanMove(order, target) /\ order' = target
  /\ UNCHANGED <<payment, created, event, paidEvents, trade, checkout, query>>

(***************************************************************************)
(* The specification                                                       *)
(***************************************************************************)

CheckoutStep ==
  \E c \in Checkouts : CheckoutInsert(c) \/ CheckoutReturn(c) \/ \E k \in Keys : CheckoutLoad(c, k)

QueryStep ==
  \E q \in Queries : QueryLoad(q) \/ QuerySettle(q) \/ QueryReturn(q)

ProviderStep ==
  \E k \in Keys :
    \/ OpenTrade(k) \/ EndTrade(k) \/ RejectForged(k)
    \/ \E status \in NoticeStatuses : SettleNotice(k, status) \/ RecordFailure(k, status)

Next == CheckoutStep \/ QueryStep \/ ProviderStep \/ Proceed

Spec == Init /\ [][Next]_vars

\* The provider repeats the notice of a paid trade until it is answered with success.
FairSpec == Spec /\ \A k \in Keys : WF_vars(SettleNotice(k, "success"))

(***************************************************************************)
(* Properties                                                              *)
(***************************************************************************)

\* Notices, their repetitions and queries that overlap them leave exactly one
\* payment_record.paid event for a paid payment and none for another.
PaidEventOnce == \A k \in Keys : paidEvents[k] = IF payment[k] = "paid" THEN 1 ELSE 0

\* A payment is paid only if the provider's trade is, and the order leaves its
\* unpaid states only when one of its payments is paid.
NoFalsePayment ==
  /\ \A k \in Keys : payment[k] = "paid" => trade[k] = "success" /\ event[k] = "processed"
  /\ order[2] \notin {"pending", "paying"} => \E k \in Keys : payment[k] = "paid"

\* What is marked paid was paid, and is told of once.
PaymentIsSound == PaidEventOnce /\ NoFalsePayment

\* An order has at most one payment the buyer may still pay.
OneActivePayment ==
  \A j, k \in Keys : payment[j] = "paying" /\ payment[k] = "paying" => j = k

\* The three columns of an order only move together and as _allowed says.
OrderFollowsAllowed == [][order' # order => CanMove(order, order')]_order

\* A trade the buyer has paid is settled in the end.
TradeSettles == \A k \in Keys : trade[k] = "success" ~> payment[k] = "paid"

\* The order keeps to its transitions while its trades are settled.
PaymentSettles == OrderFollowsAllowed /\ TradeSettles
==============================================================================
