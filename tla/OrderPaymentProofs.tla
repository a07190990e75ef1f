-------------------------- MODULE OrderPaymentProofs --------------------------
(***************************************************************************)
(* For any set of keys, requests and notices: the types of OrderPayment,   *)
(* one paid event per paid payment, no payment without a paid trade, and   *)
(* the transitions of an order that is checked out by one connection.      *)
(***************************************************************************)
EXTENDS OrderPayment, TLAPS

(***************************************************************************)
(* Facts about the order's columns                                         *)
(***************************************************************************)

\* The combinations the payment code writes are admitted by the columns.
LEMMA NamedOrders == Pending \in OrderColumns /\ Paying \in OrderColumns /\ Paid \in OrderColumns
  BY DEF Pending, Paying, Paid, OrderColumns

\* A flush of admitted values over admitted values is admitted, and its
\* payment column is the row's or the target's.
LEMMA FlushKeepsColumns ==
  ASSUME NEW current \in OrderColumns, NEW loaded \in OrderColumns, NEW target \in OrderColumns
  PROVE  /\ FlushOrder(current, loaded, target) \in OrderColumns
         /\ FlushOrder(current, loaded, target)[2] \in {current[2], target[2]}
  BY DEF FlushOrder, Flushed, OrderColumns

(***************************************************************************)
(* Types                                                                   *)
(***************************************************************************)

\* Keys in created are keys with a row, so a new row's key is new in it.
Listed == \A i \in 1..Len(created) : payment[created[i]] # "none"

Typed == TypeOK /\ Listed

LEMMA InitTyped == Init => Typed
  BY NamedOrders DEF Init, Typed, TypeOK, Listed, NoRequest, PaymentStatuses

\* Settle keeps the types of what it writes, for an order a session may hold.
LEMMA SettleTyped ==
  ASSUME Typed, NEW k \in Keys, NEW o \in OrderColumns, NEW p \in PaymentStatuses,
         Settle(k, o, p)
  PROVE  /\ order' \in OrderColumns
         /\ payment' \in [Keys -> PaymentStatuses]
         /\ event' \in [Keys -> {"none", "failed", "processed"}]
         /\ paidEvents' \in [Keys -> Nat]
         /\ \A j \in Keys : payment[j] # "none" => payment'[j] # "none"
<1>1. event' \in [Keys -> {"none", "failed", "processed"}]
  BY DEF Settle, Typed, TypeOK
<1>2. CASE p = "paid"
  BY <1>1, <1>2 DEF Settle, Typed, TypeOK
<1>3. CASE p # "paid"
  <2>1. payment' = [payment EXCEPT ![k] = "paid"] /\ paidEvents' = [paidEvents EXCEPT ![k] = @ + 1]
    BY <1>3 DEF Settle
  <2>2. order' \in {FlushOrder(order, o, Paid), order}
    BY <1>3 DEF Settle
  <2>3. order' \in OrderColumns
    BY <2>2, FlushKeepsColumns, NamedOrders DEF Typed, TypeOK
  <2>4. QED
    BY <1>1, <2>1, <2>3 DEF Typed, TypeOK, PaymentStatuses
<1>4. QED
  BY <1>2, <1>3

LEMMA StepTyped == Typed /\ [Next]_vars => Typed'
<1> SUFFICES ASSUME Typed, [Next]_vars PROVE Typed'
  OBVIOUS
<1>1. ASSUME NEW c \in Checkouts, NEW k \in Keys, CheckoutLoad(c, k) PROVE Typed'
  <2>1. [at |-> "loaded", key |-> k, order |-> order, seen |-> payment] \in CheckoutRequest
    BY DEF Typed, TypeOK, CheckoutRequest
  <2>2. QED
    BY <1>1, <2>1 DEF CheckoutLoad, Typed, TypeOK, Listed
<1>2. ASSUME NEW c \in Checkouts, CheckoutInsert(c) PROVE Typed'
  <2> DEFINE r == checkout[c]
  <2>1. r \in CheckoutRequest
    BY <1>2 DEF CheckoutInsert, Typed, TypeOK
  <2>2. r.key \in Keys /\ r.order \in OrderColumns
    BY <2>1 DEF CheckoutRequest
  <2>3. payment[r.key] = "none" /\ created' = Append(created, r.key)
        /\ payment' = [payment EXCEPT ![r.key] = "paying"]
    BY <1>2 DEF CheckoutInsert, Unbound
  <2>4. order' \in {order, FlushOrder(order, r.order, Paying)}
    BY <1>2 DEF CheckoutInsert
  <2>5. order' \in OrderColumns
    BY <2>2, <2>4, FlushKeepsColumns, NamedOrders DEF Typed, TypeOK
  <2>6. payment' \in [Keys -> PaymentStatuses]
    BY <2>3 DEF Typed, TypeOK, PaymentStatuses
  <2>7. created' \in Seq(Keys) /\ Len(created') = Len(created) + 1
        /\ created'[Len(created) + 1] = r.key
        /\ \A i \in 1..Len(created) : created'[i] = created[i]
    BY <2>2, <2>3 DEF Typed, TypeOK
  <2>8. \A i \in 1..Len(created) : created[i] \in Keys /\ created[i] # r.key
    BY <2>3 DEF Typed, TypeOK, Listed
  <2>9. \A i, j \in 1..Len(created') : created'[i] = created'[j] => i = j
    <3>1. TAKE i, j \in 1..Len(created')
    <3>2. HAVE created'[i] = created'[j]
    <3>3. Len(created) \in Nat
      BY DEF Typed, TypeOK
    <3>4. CASE i \in 1..Len(created) /\ j \in 1..Len(created)
      BY <2>7, <3>2, <3>4 DEF Typed, TypeOK
    <3>5. CASE i = Len(created) + 1 \/ j = Len(created) + 1
      BY <2>7, <2>8, <3>1, <3>2, <3>3, <3>5
    <3>6. QED
      BY <2>7, <3>1, <3>3, <3>4, <3>5
  <2>10. Listed'
    BY <2>2, <2>3, <2>7, <2>8 DEF Typed, TypeOK, Listed
  <2>11. checkout' \in [Checkouts -> CheckoutRequest \cup {NoRequest}]
    BY <1>2 DEF CheckoutInsert, Typed, TypeOK
  <2>12. UNCHANGED <<event, paidEvents, trade, query>>
    BY <1>2 DEF CheckoutInsert
  <2>13. QED
    BY <2>5, <2>6, <2>7, <2>9, <2>10, <2>11, <2>12 DEF Typed, TypeOK
<1>3. ASSUME NEW c \in Checkouts, CheckoutReturn(c) PROVE Typed'
  BY <1>3 DEF CheckoutReturn, Typed, TypeOK, Listed
<1>4. ASSUME NEW k \in Keys, OpenTrade(k) \/ EndTrade(k) \/ RejectForged(k) PROVE Typed'
  <2>1. CASE OpenTrade(k)
    BY <2>1 DEF OpenTrade, Typed, TypeOK, Listed
  <2>2. CASE EndTrade(k)
    BY <2>2 DEF EndTrade, Typed, TypeOK, Listed
  <2>3. CASE RejectForged(k)
    BY <2>3 DEF RejectForged, RejectedKey, Typed, TypeOK, Listed
  <2>4. QED
    BY <1>4, <2>1, <2>2, <2>3
<1>5. ASSUME NEW k \in Keys, NEW status \in NoticeStatuses, SettleNotice(k, status) PROVE Typed'
  <2>1. Settle(k, order, payment[k]) /\ UNCHANGED <<created, trade, checkout, query>>
    BY <1>5 DEF SettleNotice
  <2>2. order \in OrderColumns /\ payment[k] \in PaymentStatuses
    BY DEF Typed, TypeOK
  <2>3. QED
    BY <2>1, <2>2, SettleTyped DEF Typed, TypeOK, Listed
<1>6. ASSUME NEW k \in Keys, NEW status \in NoticeStatuses, RecordFailure(k, status) PROVE Typed'
  BY <1>6 DEF RecordFailure, Typed, TypeOK, Listed
<1>7. ASSUME NEW q \in Queries, QueryLoad(q) PROVE Typed'
  <2> DEFINE k == created[Len(created)]
  <2>1. k \in Keys
    BY <1>7 DEF QueryLoad, Typed, TypeOK
  <2>2. [at |-> "loaded", key |-> k, order |-> order, known |-> event[k]] \in QueryRequest
    BY <2>1 DEF Typed, TypeOK, QueryRequest
  <2>3. query' \in [Queries -> QueryRequest \cup {NoRequest}]
    BY <1>7, <2>2 DEF QueryLoad, Typed, TypeOK
  <2>4. QED
    BY <1>7, <2>3 DEF QueryLoad, Typed, TypeOK, Listed
<1>8. ASSUME NEW q \in Queries, QuerySettle(q) PROVE Typed'
  <2>1. query[q] \in QueryRequest
    BY <1>8 DEF QuerySettle, QueryEnds, Typed, TypeOK
  <2>2. query[q].key \in Keys /\ query[q].order \in OrderColumns
    BY <2>1 DEF QueryRequest
  <2>3. Settle(query[q].key, query[q].order, "paying") /\ UNCHANGED <<created, trade, checkout>>
    BY <1>8 DEF QuerySettle
  <2>4. query' \in [Queries -> QueryRequest \cup {NoRequest}]
    BY <1>8 DEF QuerySettle, QueryEnds, Typed, TypeOK
  <2>5. "paying" \in PaymentStatuses
    BY DEF PaymentStatuses
  <2>6. QED
    BY <2>2, <2>3, <2>4, <2>5, SettleTyped DEF Typed, TypeOK, Listed
<1>9. ASSUME NEW q \in Queries, QueryReturn(q) PROVE Typed'
  BY <1>9 DEF QueryReturn, QueryEnds, Typed, TypeOK, Listed
<1>10. ASSUME Proceed PROVE Typed'
  BY <1>10 DEF Proceed, Typed, TypeOK, Listed
<1>11. ASSUME UNCHANGED vars PROVE Typed'
  BY <1>11 DEF vars, Typed, TypeOK, Listed
<1>12. QED
  BY <1>1, <1>2, <1>3, <1>4, <1>5, <1>6, <1>7, <1>8, <1>9, <1>10, <1>11
     DEF Next, CheckoutStep, QueryStep, ProviderStep

\* Every variable of the payment keeps its type, and no key has two rows.
THEOREM TypeCorrect == Spec => []TypeOK
<1>1. Typed => TypeOK
  BY DEF Typed
<1>2. QED
  BY <1>1, InitTyped, StepTyped, PTL DEF Spec

(***************************************************************************)
(* One paid event, and only for a paid trade                               *)
(***************************************************************************)

\* A callback row is processed exactly when its payment is paid, and every
\* query still holds a callback row that was not: that is what makes the unique
\* trade_no refuse a query whose payment has been settled since.
Settlement ==
  /\ \A k \in Keys : event[k] = "processed" <=> payment[k] = "paid"
  /\ \A q \in Queries : query[q] # NoRequest => query[q].known # "processed"
  /\ PaidEventOnce
  /\ NoFalsePayment

IInv == Typed /\ Settlement

LEMMA InitSettlement == Init => Settlement
  BY DEF Init, Settlement, PaidEventOnce, NoFalsePayment, Pending

\* Settling an unpaid payment whose trade is paid.
LEMMA SettleUnpaid ==
  ASSUME IInv, NEW k \in Keys, NEW o \in OrderColumns,
         Settle(k, o, "paying"), payment[k] # "paid", trade[k] = "success",
         UNCHANGED trade
  PROVE  /\ \A j \in Keys : event'[j] = "processed" <=> payment'[j] = "paid"
         /\ PaidEventOnce'
         /\ NoFalsePayment'
<1>1. /\ event' = [event EXCEPT ![k] = "processed"]
      /\ payment' = [payment EXCEPT ![k] = "paid"]
      /\ paidEvents' = [paidEvents EXCEPT ![k] = @ + 1]
  BY DEF Settle
<1>2. /\ event \in [Keys -> {"none", "failed", "processed"}]
      /\ payment \in [Keys -> PaymentStatuses]
      /\ paidEvents \in [Keys -> Nat]
  BY DEF IInv, Typed, TypeOK
<1>3. \A j \in Keys : event'[j] = "processed" <=> payment'[j] = "paid"
  BY <1>1, <1>2 DEF IInv, Settlement
<1>4. PaidEventOnce'
  <2>1. paidEvents[k] = 0
    BY DEF IInv, Settlement, PaidEventOnce
  <2>2. QED
    BY <1>1, <1>2, <2>1 DEF IInv, Settlement, PaidEventOnce
<1>5. NoFalsePayment'
  BY <1>1, <1>2 DEF IInv, Settlement, NoFalsePayment
<1>6. QED
  BY <1>3, <1>4, <1>5

\* Steps that settle nothing.
LEMMA QuietSettlement ==
  ASSUME IInv, UNCHANGED <<payment, event, paidEvents, query>>,
         \A k \in Keys : trade[k] = "success" => trade'[k] = "success",
         order'[2] \notin {"pending", "paying"} => order[2] \notin {"pending", "paying"}
  PROVE  Settlement'
  BY DEF IInv, Settlement, PaidEventOnce, NoFalsePayment

LEMMA StepSettlement == IInv /\ [Next]_vars => Settlement'
<1> SUFFICES ASSUME IInv, [Next]_vars PROVE Settlement'
  OBVIOUS
<1>1. ASSUME NEW c \in Checkouts, NEW k \in Keys, CheckoutLoad(c, k) PROVE Settlement'
  BY <1>1, QuietSettlement DEF CheckoutLoad
<1>2. ASSUME NEW c \in Checkouts, CheckoutInsert(c) PROVE Settlement'
  <2> DEFINE r == checkout[c]
  <2>1. r \in CheckoutRequest
    BY <1>2 DEF CheckoutInsert, IInv, Typed, TypeOK
  <2>2. r.key \in Keys /\ r.order \in OrderColumns
    BY <2>1 DEF CheckoutRequest
  <2>3. payment[r.key] = "none" /\ payment' = [payment EXCEPT ![r.key] = "paying"]
        /\ UNCHANGED <<event, paidEvents, trade, query>>
    BY <1>2 DEF CheckoutInsert, Unbound
  <2>4. order' \in {order, FlushOrder(order, r.order, Paying)}
    BY <1>2 DEF CheckoutInsert
  <2>5. order'[2] \in {order[2], "paying"}
    BY <2>2, <2>4, FlushKeepsColumns, NamedOrders DEF IInv, Typed, TypeOK, Paying
  <2>6. \A k \in Keys : payment'[k] = "paid" <=> payment[k] = "paid"
    BY <2>2, <2>3 DEF IInv, Typed, TypeOK
  <2>7. QED
    BY <2>3, <2>5, <2>6 DEF IInv, Settlement, PaidEventOnce, NoFalsePayment
<1>3. ASSUME NEW c \in Checkouts, CheckoutReturn(c) PROVE Settlement'
  BY <1>3, QuietSettlement DEF CheckoutReturn
<1>4. ASSUME NEW k \in Keys, OpenTrade(k) \/ EndTrade(k) \/ RejectForged(k) PROVE Settlement'
  <2>1. CASE OpenTrade(k)
    BY <2>1, QuietSettlement DEF OpenTrade, IInv, Typed, TypeOK
  <2>2. CASE EndTrade(k)
    BY <2>2, QuietSettlement DEF EndTrade, IInv, Typed, TypeOK
  <2>3. CASE RejectForged(k)
    <3>1. event' = event
      BY <2>3 DEF RejectForged, RejectedKey, IInv, Typed, TypeOK
    <3>2. QED
      BY <2>3, <3>1, QuietSettlement DEF RejectForged
  <2>4. QED
    BY <1>4, <2>1, <2>2, <2>3
<1>5. ASSUME NEW k \in Keys, NEW status \in NoticeStatuses, SettleNotice(k, status) PROVE Settlement'
  <2>1. Settle(k, order, payment[k]) /\ UNCHANGED <<created, trade, checkout, query>>
    BY <1>5 DEF SettleNotice
  <2>2. trade[k] = "success"
    BY <1>5 DEF SettleNotice, Notifiable, Recognised, Successful
  <2>3. CASE payment[k] = "paid"
    <3>1. event[k] = "processed" /\ event' = [event EXCEPT ![k] = "processed"]
          /\ UNCHANGED <<order, payment, paidEvents>>
      BY <2>1, <2>3 DEF Settle, IInv, Settlement
    <3>2. event' = event
      BY <3>1 DEF IInv, Typed, TypeOK
    <3>3. QED
      BY <2>1, <3>1, <3>2, QuietSettlement
  <2>4. CASE payment[k] # "paid"
    <3>1. Settle(k, order, "paying")
      BY <2>1, <2>4 DEF Settle
    <3>2. order \in OrderColumns
      BY DEF IInv, Typed, TypeOK
    <3>3. QED
      BY <2>1, <2>2, <2>4, <3>1, <3>2, SettleUnpaid DEF IInv, Settlement
  <2>5. QED
    BY <2>3, <2>4
<1>6. ASSUME NEW k \in Keys, NEW status \in NoticeStatuses, RecordFailure(k, status) PROVE Settlement'
  <2>1. \A j \in Keys : event'[j] = "processed" <=> event[j] = "processed"
    BY <1>6 DEF RecordFailure, IInv, Typed, TypeOK
  <2>2. QED
    BY <1>6, <2>1 DEF RecordFailure, IInv, Settlement, PaidEventOnce, NoFalsePayment
<1>7. ASSUME NEW q \in Queries, QueryLoad(q) PROVE Settlement'
  <2> DEFINE k == created[Len(created)]
  <2>1. k \in Keys /\ payment[k] = "paying"
    BY <1>7 DEF QueryLoad, IInv, Typed, TypeOK
  <2>2. event[k] # "processed"
    BY <2>1 DEF IInv, Settlement
  <2>3. query' = [query EXCEPT ![q] =
                    [at |-> "loaded", key |-> k, order |-> order, known |-> event[k]]]
    BY <1>7 DEF QueryLoad
  <2>4. \A p \in Queries : query'[p] # NoRequest => query'[p].known # "processed"
    BY <2>2, <2>3 DEF IInv, Settlement, Typed, TypeOK
  <2>5. UNCHANGED <<order, payment, event, paidEvents, trade>>
    BY <1>7 DEF QueryLoad
  <2>6. QED
    BY <2>4, <2>5 DEF IInv, Settlement, PaidEventOnce, NoFalsePayment
<1>8. ASSUME NEW q \in Queries, QuerySettle(q) PROVE Settlement'
  <2> DEFINE k == query[q].key
  <2>1. query[q] \in QueryRequest /\ query[q] # NoRequest
    BY <1>8 DEF QuerySettle, QueryEnds, IInv, Typed, TypeOK
  <2>2. k \in Keys /\ query[q].order \in OrderColumns /\ query[q].known \in {"none", "failed", "processed"}
    BY <2>1 DEF QueryRequest
  <2>3. Settle(k, query[q].order, "paying") /\ UNCHANGED <<created, trade, checkout>>
        /\ trade[k] = "success" /\ query[q].known # "failed" /\ ~TradeTaken(k, query[q].known)
    BY <1>8 DEF QuerySettle, Recognised, Successful
  <2>4. event[k] = "none"
    BY <2>1, <2>2, <2>3 DEF TradeTaken, IInv, Settlement
  <2>5. payment[k] # "paid"
    BY <2>2, <2>4 DEF IInv, Settlement
  <2>6. query' = [query EXCEPT ![q] = NoRequest]
    BY <1>8 DEF QuerySettle, QueryEnds
  <2>7. \A p \in Queries : query'[p] # NoRequest => query'[p].known # "processed"
    BY <2>6 DEF IInv, Settlement, Typed, TypeOK
  <2>8. QED
    BY <2>2, <2>3, <2>5, <2>7, SettleUnpaid DEF Settlement
<1>9. ASSUME NEW q \in Queries, QueryReturn(q) PROVE Settlement'
  <2>1. \A p \in Queries : query'[p] # NoRequest => query'[p].known # "processed"
    BY <1>9 DEF QueryReturn, QueryEnds, IInv, Settlement, Typed, TypeOK
  <2>2. QED
    BY <1>9, <2>1 DEF QueryReturn, IInv, Settlement, PaidEventOnce, NoFalsePayment
<1>10. ASSUME Proceed PROVE Settlement'
  <2>1. order[2] \notin {"pending", "paying"} /\ UNCHANGED <<payment, event, paidEvents, trade, query>>
    BY <1>10 DEF Proceed
  <2>2. QED
    BY <2>1, QuietSettlement
<1>11. ASSUME UNCHANGED vars PROVE Settlement'
  BY <1>11, QuietSettlement DEF vars
<1>12. QED
  BY <1>1, <1>2, <1>3, <1>4, <1>5, <1>6, <1>7, <1>8, <1>9, <1>10, <1>11
     DEF Next, CheckoutStep, QueryStep, ProviderStep

LEMMA Invariance == Spec => []IInv
<1>1. Init => IInv
  BY InitTyped, InitSettlement DEF IInv
<1>2. IInv /\ [Next]_vars => IInv'
  BY StepTyped, StepSettlement DEF IInv
<1>3. QED
  BY <1>1, <1>2, PTL DEF Spec

\* However notices and queries overlap, a paid payment has exactly one
\* payment_record.paid event and every other payment has none.
THEOREM PaidOnce == Spec => []PaidEventOnce
<1>1. IInv => PaidEventOnce
  BY DEF IInv, Settlement
<1>2. QED
  BY <1>1, Invariance, PTL

\* A payment is paid only for a paid trade, and the order leaves its unpaid
\* states only with a paid payment.
THEOREM PaymentIsReal == Spec => []NoFalsePayment
<1>1. IInv => NoFalsePayment
  BY DEF IInv, Settlement
<1>2. QED
  BY <1>1, Invariance, PTL

\* The paid payments are real, and each was told of once.
THEOREM PaymentSound == Spec => []PaymentIsSound
BY PaidOnce, PaymentIsReal, PTL DEF PaymentIsSound
(***************************************************************************)
(* The order's transitions.  While one connection at a time checks the     *)
(* order out (OneCheckout), it has one payment, and what requests have     *)
(* read of the order is the order.  With two, both may create a payment,   *)
(* and settling the second moves an order back that has gone on.           *)
(***************************************************************************)

OneCheckout == \A c, d \in Checkouts : c = d

\* One payment, and the order where that payment is.
OnePayment ==
  /\ \A j, k \in Keys : payment[j] # "none" /\ payment[k] # "none" => j = k
  /\ (\A k \in Keys : payment[k] = "none") => order = Pending
  /\ \A k \in Keys : payment[k] = "paying" => order = Paying
  /\ \A k \in Keys : payment[k] = "paid" => ~Payable(order)
  /\ \A k \in Keys : trade[k] # "none" => payment[k] # "none"

\* A query has read the order of its payment; a checkout that will insert has
\* read an order that waits still.
ReadsOrder ==
  /\ \A q \in Queries : query[q] # NoRequest => payment[query[q].key] # "none" /\ query[q].order = Paying
  /\ \A c \in Checkouts :
       checkout[c] # NoRequest /\ Payable(checkout[c].order) /\ NoneActive(checkout[c].seen)
         => checkout[c].order = Pending /\ \A k \in Keys : payment[k] = "none"

InStep == OnePayment /\ ReadsOrder

LEMMA Moves ==
  /\ CanMove(Pending, Paying) /\ CanMove(Paying, Paid)
  /\ FlushOrder(Pending, Pending, Paying) = Paying /\ FlushOrder(Paying, Paying, Paid) = Paid
  /\ Payable(Pending) /\ Payable(Paying) /\ ~Payable(Paid)
  /\ Pending[1] = "PENDING_CONFIRMATION" /\ Paying[1] = "PAYING"
  /\ \A o, p \in OrderColumns : CanMove(o, p) /\ o[2] \in {"paid", "refunding"} => ~Payable(p) /\ ~Payable(o)
<1>1. \A o, p \in OrderColumns : CanMove(o, p) /\ o[2] \in {"paid", "refunding"} => ~Payable(p) /\ ~Payable(o)
  BY DEF CanMove, Allowed, Payable, Pending, Paying, Paid, Confirming, Confirmed, Failed, Unsupported,
    TicketFailed, Refunding, RefundingFailed, Refunded, RefundedFailed
<1>2. QED
  BY <1>1 DEF CanMove, Allowed, Payable, FlushOrder, Flushed, Pending, Paying, Paid

LEMMA InitMoves == Init => InStep
  BY DEF Init, InStep, OnePayment, ReadsOrder

\* Settling the one payment while it is being paid.
LEMMA SettleMoves ==
  ASSUME IInv, InStep, NEW k \in Keys, payment[k] = "paying", Settle(k, Paying, "paying"),
         UNCHANGED <<trade, checkout>>,
         \A q \in Queries : query'[q] = query[q] \/ query'[q] = NoRequest
  PROVE  InStep' /\ CanMove(order, order')
<1>1. order = Paying /\ order' = Paid
  BY Moves DEF Settle, InStep, OnePayment
<1>2. payment' = [payment EXCEPT ![k] = "paid"] /\ payment \in [Keys -> PaymentStatuses]
  BY DEF Settle, IInv, Typed, TypeOK
<1>3. \A j \in Keys : payment'[j] = IF j = k THEN "paid" ELSE payment[j]
  BY <1>2
<1>4. \A j \in Keys : payment[j] # "none" => j = k
  BY DEF InStep, OnePayment
<1>5. OnePayment'
  BY <1>1, <1>3, <1>4, Moves DEF InStep, OnePayment, Payable
<1>6. \A q \in Queries : query[q] # NoRequest => query[q].key \in Keys
  BY DEF IInv, Typed, TypeOK, QueryRequest
<1>7. ReadsOrder'
  BY <1>3, <1>6 DEF InStep, ReadsOrder, Payable, NoneActive
<1>8. QED
  BY <1>1, <1>5, <1>7, Moves DEF InStep

\* Steps that move no payment.
LEMMA QuietMoves ==
  ASSUME InStep, UNCHANGED <<order, payment>>, \A k \in Keys : trade'[k] = trade[k] \/ payment[k] # "none",
         \A q \in Queries : query'[q] = query[q] \/ query'[q] = NoRequest,
         \A c \in Checkouts : checkout'[c] = checkout[c] \/ checkout'[c] = NoRequest
  PROVE  InStep'
  BY DEF InStep, OnePayment, ReadsOrder, Payable, NoneActive

LEMMA StepMoves ==
  ASSUME OneCheckout, IInv, InStep, [Next]_vars
  PROVE  InStep' /\ (order' = order \/ CanMove(order, order'))
<1>a. Typed /\ TypeOK
  BY DEF IInv, Typed
<1>1. ASSUME NEW c \in Checkouts, NEW k \in Keys, CheckoutLoad(c, k)
      PROVE  InStep' /\ order' = order
  <2>1. /\ checkout' = [checkout EXCEPT ![c] = [at |-> "loaded", key |-> k, order |-> order, seen |-> payment]]
        /\ UNCHANGED <<order, payment, trade, query>>
    BY <1>1 DEF CheckoutLoad
  <2>2. checkout'[c].order = order /\ checkout'[c].seen = payment
    BY <1>a, <2>1 DEF TypeOK
  <2>3. \A d \in Checkouts : d = c
    BY DEF OneCheckout
  <2>4. Payable(order) /\ NoneActive(payment) => order = Pending /\ \A j \in Keys : payment[j] = "none"
    <3>1. \A j \in Keys : payment[j] \in {"none", "paying", "paid"}
      BY <1>a DEF TypeOK, PaymentStatuses
    <3>2. QED
      BY <3>1 DEF InStep, OnePayment, NoneActive
  <2>5. ReadsOrder'
    BY <2>1, <2>2, <2>3, <2>4 DEF InStep, ReadsOrder
  <2>6. OnePayment'
    BY <2>1 DEF InStep, OnePayment, Payable
  <2>7. QED
    BY <2>1, <2>5, <2>6 DEF InStep
<1>2. ASSUME NEW c \in Checkouts, CheckoutInsert(c) PROVE InStep' /\ CanMove(order, order')
  <2> DEFINE r == checkout[c]
  <2>1. r \in CheckoutRequest /\ r.key \in Keys
    BY <1>2, <1>a DEF CheckoutInsert, TypeOK, CheckoutRequest
  <2>2. r.order = Pending /\ \A k \in Keys : payment[k] = "none"
    BY <1>2 DEF CheckoutInsert, InStep, ReadsOrder
  <2>3. order = Pending /\ order' = Paying
    BY <1>2, <2>2, Moves DEF CheckoutInsert, InStep, OnePayment
  <2>4. payment' = [payment EXCEPT ![r.key] = "paying"] /\ checkout' = [checkout EXCEPT ![c] = NoRequest]
        /\ UNCHANGED <<trade, query>>
    BY <1>2 DEF CheckoutInsert
  <2>5. \A k \in Keys : payment'[k] = IF k = r.key THEN "paying" ELSE "none"
    BY <1>a, <2>1, <2>2, <2>4 DEF TypeOK
  <2>6. \A k \in Keys : trade[k] = "none"
    BY <2>2 DEF InStep, OnePayment
  <2>7. OnePayment'
    BY <2>1, <2>3, <2>4, <2>5, <2>6 DEF OnePayment
  <2>8. \A d \in Checkouts : checkout'[d] = NoRequest
    BY <1>a, <2>4 DEF TypeOK, OneCheckout
  <2>9. \A q \in Queries : query[q] = NoRequest
    <3>1. \A q \in Queries : query[q] # NoRequest => query[q].key \in Keys
      BY <1>a DEF TypeOK, QueryRequest
    <3>2. QED
      BY <2>2, <3>1 DEF InStep, ReadsOrder
  <2>10. ReadsOrder'
    BY <2>4, <2>8, <2>9 DEF ReadsOrder
  <2>11. QED
    BY <2>3, <2>7, <2>10, Moves DEF InStep
<1>3. ASSUME NEW c \in Checkouts, CheckoutReturn(c) PROVE InStep' /\ order' = order
  <2>1. \A d \in Checkouts : checkout'[d] = checkout[d] \/ checkout'[d] = NoRequest
    BY <1>3, <1>a DEF CheckoutReturn, TypeOK
  <2>2. QED
    BY <1>3, <2>1, QuietMoves DEF CheckoutReturn
<1>4. ASSUME NEW k \in Keys, OpenTrade(k) \/ EndTrade(k) \/ RejectForged(k) PROVE InStep' /\ order' = order
  <2>1. UNCHANGED <<order, payment, query, checkout>>
    BY <1>4 DEF OpenTrade, EndTrade, RejectForged
  <2>2. \A j \in Keys : trade'[j] = trade[j] \/ payment[j] # "none"
    BY <1>4, <1>a DEF OpenTrade, EndTrade, RejectForged, TypeOK, InStep, OnePayment
  <2>3. QED
    BY <2>1, <2>2, QuietMoves
<1>5. ASSUME NEW k \in Keys, NEW status \in NoticeStatuses, SettleNotice(k, status)
      PROVE  InStep' /\ (order' = order \/ CanMove(order, order'))
  <2>1. Settle(k, order, payment[k]) /\ trade[k] # "none" /\ UNCHANGED <<trade, checkout, query>>
    BY <1>5 DEF SettleNotice, Notifiable
  <2>2. payment[k] \in {"paying", "paid"}
    BY <1>a, <2>1 DEF TypeOK, PaymentStatuses, InStep, OnePayment
  <2>3. CASE payment[k] = "paid"
    <3>1. UNCHANGED <<order, payment>>
      BY <2>1, <2>3 DEF Settle
    <3>2. QED
      BY <2>1, <3>1, QuietMoves
  <2>4. CASE payment[k] = "paying"
    <3>1. order = Paying
      BY <2>4 DEF InStep, OnePayment
    <3>2. QED
      BY <2>1, <2>4, <3>1, SettleMoves
  <2>5. QED
    BY <2>2, <2>3, <2>4
<1>6. ASSUME NEW k \in Keys, NEW status \in NoticeStatuses, RecordFailure(k, status)
      PROVE  InStep' /\ order' = order
  BY <1>6, QuietMoves DEF RecordFailure
<1>7. ASSUME NEW q \in Queries, QueryLoad(q) PROVE InStep' /\ order' = order
  <2> DEFINE k == created[Len(created)]
  <2>1. /\ k \in Keys /\ payment[k] = "paying"
        /\ query' = [query EXCEPT ![q] = [at |-> "loaded", key |-> k, order |-> order, known |-> event[k]]]
        /\ UNCHANGED <<order, payment, trade, checkout>>
    BY <1>7, <1>a DEF QueryLoad, TypeOK
  <2>2. order = Paying
    BY <2>1 DEF InStep, OnePayment
  <2>3. query'[q].key = k /\ query'[q].order = order /\ \A p \in Queries \ {q} : query'[p] = query[p]
    BY <1>a, <2>1 DEF TypeOK
  <2>4. ReadsOrder'
    BY <2>1, <2>2, <2>3 DEF InStep, ReadsOrder
  <2>5. OnePayment'
    BY <2>1 DEF InStep, OnePayment, Payable
  <2>6. QED
    BY <2>1, <2>4, <2>5 DEF InStep
<1>8. ASSUME NEW q \in Queries, QuerySettle(q) PROVE InStep' /\ CanMove(order, order')
  <2> DEFINE k == query[q].key
  <2>1. query[q] \in QueryRequest /\ query[q] # NoRequest
    BY <1>8, <1>a DEF QuerySettle, QueryEnds, TypeOK
  <2>2. k \in Keys /\ query[q].known \in {"none", "failed", "processed"} /\ query[q].order = Paying
        /\ payment[k] # "none"
    BY <2>1 DEF QueryRequest, InStep, ReadsOrder
  <2>3. Settle(k, Paying, "paying") /\ UNCHANGED <<trade, checkout>>
        /\ query[q].known # "failed" /\ ~TradeTaken(k, query[q].known)
    BY <1>8, <2>2 DEF QuerySettle, Recognised
  <2>4. event[k] = "none"
    BY <2>1, <2>2, <2>3 DEF TradeTaken, IInv, Settlement
  <2>5. payment[k] = "paying"
    BY <1>a, <2>2, <2>4 DEF IInv, Settlement, TypeOK, PaymentStatuses
  <2>6. \A p \in Queries : query'[p] = query[p] \/ query'[p] = NoRequest
    BY <1>8, <1>a DEF QuerySettle, QueryEnds, TypeOK
  <2>7. QED
    BY <2>2, <2>3, <2>5, <2>6, SettleMoves
<1>9. ASSUME NEW q \in Queries, QueryReturn(q) PROVE InStep' /\ order' = order
  <2>1. \A p \in Queries : query'[p] = query[p] \/ query'[p] = NoRequest
    BY <1>9, <1>a DEF QueryReturn, QueryEnds, TypeOK
  <2>2. QED
    BY <1>9, <2>1, QuietMoves DEF QueryReturn
<1>10. ASSUME Proceed PROVE InStep' /\ CanMove(order, order')
  <2>1. PICK target \in OrderColumns : CanMove(order, target) /\ order' = target
    BY <1>10 DEF Proceed
  <2>2. order[2] \in {"paid", "refunding"} /\ order \in OrderColumns
    BY <1>10, <1>a DEF Proceed, TypeOK
  <2>3. ~Payable(order) /\ ~Payable(order')
    BY <2>1, <2>2, Moves
  <2>4. UNCHANGED <<payment, trade, query, checkout>>
    BY <1>10 DEF Proceed
  <2>5. order # Pending /\ order # Paying
    BY <2>3, Moves
  <2>6. OnePayment' /\ ReadsOrder'
    BY <2>3, <2>4, <2>5 DEF InStep, OnePayment, ReadsOrder, Payable, NoneActive
  <2>7. QED
    BY <2>1, <2>6 DEF InStep
<1>11. CASE UNCHANGED vars
  BY <1>11, QuietMoves DEF vars
<1>12. QED
  BY <1>1, <1>2, <1>3, <1>4, <1>5, <1>6, <1>7, <1>8, <1>9, <1>10, <1>11
     DEF Next, CheckoutStep, QueryStep, ProviderStep

\* However notices and queries overlap, the order takes the transitions of
\* OrderStateService._allowed and no others, where checkouts do not overlap.
THEOREM OrderAllowed == ASSUME OneCheckout PROVE Spec => OrderFollowsAllowed
<1>1. Init => IInv /\ InStep
  BY InitTyped, InitSettlement, InitMoves DEF IInv
<1>2. IInv /\ InStep /\ [Next]_vars => (IInv /\ InStep)'
  BY OneCheckout, StepTyped, StepSettlement, StepMoves DEF IInv
<1>3. IInv /\ InStep /\ [Next]_vars => [order' # order => CanMove(order, order')]_order
  BY OneCheckout, StepMoves
<1>4. QED
  BY <1>1, <1>2, <1>3, PTL DEF Spec, OrderFollowsAllowed
==============================================================================
