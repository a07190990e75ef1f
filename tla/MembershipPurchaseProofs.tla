---------------------- MODULE MembershipPurchaseProofs ----------------------
(***************************************************************************)
(* For any keys, attempts, connections and crashes: the types of           *)
(* MembershipPurchase, one grant per purchase, no paid or authorized       *)
(* purchase without a trade the provider reports as successful, one open   *)
(* QR code, and attempts that end once.                                    *)
(***************************************************************************)
EXTENDS MembershipPurchase, TLAPS

(***************************************************************************)
(* Types                                                                   *)
(***************************************************************************)

\* What a request at each label holds.
LEMMA RequestShapes ==
  ASSUME TypeOK, NEW c \in Connections
  PROVE  /\ request[c].at = "checkout" => request[c] \in CheckoutRequest
         /\ request[c].at = "query" => request[c] \in QueryRequest
         /\ request[c].at = "settled" => request[c] \in SettledRequest
BY DEF TypeOK, CheckoutRequest, QueryRequest, SettledRequest, Idle

\* A request goes on with a well-formed record.
LEMMA GotoTyped ==
  ASSUME TypeOK, NEW c \in Connections,
         NEW r \in CheckoutRequest \cup QueryRequest \cup SettledRequest \cup {Idle}, Goto(c, r)
  PROVE  request' \in [Connections -> CheckoutRequest \cup QueryRequest \cup SettledRequest \cup {Idle}]
BY DEF TypeOK, Goto

\* A query asks about a payment number of the purchase it loaded, or about none.
LEMMA AskedNumber ==
  ASSUME NEW row \in PurchaseRows, Asked(row) # None
  PROVE  Asked(row) \in Numbers
<1>1. row.payment_no \in Keys \cup {None} /\ row.current \in Attempts \cup {None}
  BY DEF PurchaseRows
<1>2. Asked(row) \in {row.payment_no, row.current, None}
  BY DEF Asked
<1>3. QED
  <2>1. CASE row.current = None
    BY <1>1, <2>1 DEF Asked, Numbers
  <2>2. CASE row.current # None /\ Expired(row.current) = "pending"
    BY <1>1, <2>2 DEF Asked, Numbers
  <2>3. CASE row.current # None /\ Expired(row.current) # "pending"
    BY <2>3 DEF Asked
  <2>4. QED BY <2>1, <2>2, <2>3

\* Settle keeps the types of what it writes.
LEMMA SettleTyped ==
  ASSUME TypeOK, NEW c \in Connections, NEW n \in Numbers, NEW row \in PurchaseRows,
         Settle(c, n, row)
  PROVE  TypeOK'
<1>1. purchase' \in PurchaseRows
  <2>1. purchase' \in {purchase, [purchase EXCEPT !.status = "paid", !.payment = "paid", !.trade = n]}
    BY DEF Settle
  <2>2. QED BY <2>1 DEF TypeOK, PurchaseRows
<1>2. attempt' \in [Attempts -> {"none", "pending", "paid", "expired", "closed"}]
  BY DEF Settle, TypeOK
<1>3. callback' \in CallbackRows
  BY DEF Settle, TypeOK, CallbackRows
<1>4. [at |-> "settled", authorized |-> row.authorized] \in SettledRequest
  BY DEF SettledRequest, PurchaseRows
<1>5. request' \in [Connections -> CheckoutRequest \cup QueryRequest \cup SettledRequest \cup {Idle}]
  BY <1>4, GotoTyped DEF Settle
<1>6. UNCHANGED <<overdue, granted, trade, crashes>>
  BY DEF Settle
<1>7. QED BY <1>1, <1>2, <1>3, <1>5, <1>6 DEF TypeOK

\* The new attempt and the purchase that points at it.
LEMMA CreateTyped ==
  ASSUME TypeOK, NEW a \in Attempts,
         NEW statuses \in [Attempts -> {"none", "pending", "paid", "expired", "closed"}],
         CreateAttempt(a, statuses)
  PROVE  TypeOK'
<1>1. purchase' \in PurchaseRows
  BY DEF CreateAttempt, TypeOK, PurchaseRows
<1>2. attempt' \in [Attempts -> {"none", "pending", "paid", "expired", "closed"}]
  BY DEF CreateAttempt
<1>3. trade' \in [Numbers -> {"none", "waiting", "success", "closed"}]
  BY DEF CreateAttempt, TypeOK, Numbers
<1>4. UNCHANGED <<overdue, callback, granted, request, crashes>>
  BY DEF CreateAttempt
<1>5. QED BY <1>1, <1>2, <1>3, <1>4 DEF TypeOK

LEMMA InitTyped == Init => TypeOK
<1> SUFFICES ASSUME Init PROVE TypeOK
  OBVIOUS
<1>1. purchase \in PurchaseRows
  BY DEF Init, PurchaseRows
<1>2. crashes \in 0..MaxCrashes
  BY PurchaseAssumption DEF Init
<1>3. QED BY <1>1, <1>2 DEF Init, TypeOK, CallbackRows

LEMMA BuyerTyped ==
  ASSUME TypeOK, NEW c \in Requests,
         \/ \E k \in Keys : CheckoutLoad(c, k)
         \/ CheckoutBind(c) \/ CheckoutReturn(c)
         \/ QueryLoad(c) \/ QueryPaid(c) \/ QuerySettle(c) \/ QueryReturn(c)
         \/ RetryLoad(c)
  PROVE  TypeOK'
<1>0. c \in Connections
  BY DEF Connections
<1>1. ASSUME NEW k \in Keys, CheckoutLoad(c, k) PROVE TypeOK'
  <2>1. [at |-> "checkout", key |-> k, row |-> purchase] \in CheckoutRequest
    BY DEF TypeOK, CheckoutRequest
  <2>2. request' \in [Connections -> CheckoutRequest \cup QueryRequest \cup SettledRequest \cup {Idle}]
    BY <1>0, <1>1, <2>1, GotoTyped DEF CheckoutLoad
  <2>3. QED BY <1>1, <2>2 DEF CheckoutLoad, TypeOK
<1>2. ASSUME CheckoutBind(c) PROVE TypeOK'
  <2>1. request[c] \in CheckoutRequest
    BY <1>0, <1>2, RequestShapes DEF CheckoutBind
  <2>2. request[c].key \in Keys
    BY <2>1 DEF CheckoutRequest
  <2>3. purchase' = [purchase EXCEPT !.payment_no = request[c].key,
                       !.payment = IF request[c].row.payment = "pending" THEN "paying" ELSE @]
    BY <1>2 DEF CheckoutBind
  <2>4. purchase' \in PurchaseRows
    BY <2>2, <2>3 DEF TypeOK, PurchaseRows
  <2>5. trade' \in [Numbers -> {"none", "waiting", "success", "closed"}]
    BY <1>2, <2>2 DEF CheckoutBind, TypeOK, Numbers
  <2>6. request' \in [Connections -> CheckoutRequest \cup QueryRequest \cup SettledRequest \cup {Idle}]
    BY <1>0, <1>2, GotoTyped DEF CheckoutBind
  <2>7. QED BY <1>2, <2>4, <2>5, <2>6 DEF CheckoutBind, TypeOK
<1>3. ASSUME CheckoutReturn(c) PROVE TypeOK'
  BY <1>0, <1>3, GotoTyped DEF CheckoutReturn, TypeOK
<1>4. ASSUME QueryLoad(c) PROVE TypeOK'
  <2>1. [at |-> "query", row |-> purchase, known |-> callback] \in QueryRequest
    BY DEF TypeOK, QueryRequest
  <2>2. request' \in [Connections -> CheckoutRequest \cup QueryRequest \cup SettledRequest \cup {Idle}]
    BY <1>0, <1>4, <2>1, GotoTyped DEF QueryLoad
  <2>3. QED BY <1>4, <2>2 DEF QueryLoad, TypeOK
<1>5. ASSUME QueryPaid(c) PROVE TypeOK'
  <2>1. request[c] \in QueryRequest
    BY <1>0, <1>5, RequestShapes DEF QueryPaid
  <2>2. [at |-> "settled", authorized |-> request[c].row.authorized] \in SettledRequest
    BY <2>1 DEF QueryRequest, PurchaseRows, SettledRequest
  <2>3. request' \in [Connections -> CheckoutRequest \cup QueryRequest \cup SettledRequest \cup {Idle}]
    BY <1>0, <1>5, <2>2, GotoTyped DEF QueryPaid
  <2>4. QED BY <1>5, <2>3 DEF QueryPaid, TypeOK
<1>6. ASSUME QuerySettle(c) PROVE TypeOK'
  <2>1. request[c] \in QueryRequest
    BY <1>0, <1>6, RequestShapes DEF QuerySettle
  <2>2. request[c].row \in PurchaseRows
    BY <2>1 DEF QueryRequest
  <2>3. Asked(request[c].row) \in Numbers
    BY <1>6, <2>2, AskedNumber DEF QuerySettle
  <2>4. Settle(c, Asked(request[c].row), request[c].row)
    BY <1>6 DEF QuerySettle
  <2>5. QED BY <1>0, <2>2, <2>3, <2>4, SettleTyped
<1>7. ASSUME QueryReturn(c) PROVE TypeOK'
  <2> DEFINE a == request[c].row.current
  <2>1. request[c] \in QueryRequest
    BY <1>0, <1>7, RequestShapes DEF QueryReturn
  <2>2. a \in Attempts \cup {None}
    BY <2>1 DEF QueryRequest, PurchaseRows
  <2>3. \A b \in Attempts : Expired(b) \in {"none", "pending", "paid", "expired", "closed"}
    BY DEF Expired, TypeOK
  <2>4. \/ attempt' = attempt
        \/ attempt' = [attempt EXCEPT ![a] = "closed"]
        \/ attempt' = [b \in Attempts |-> IF b = a THEN Expired(b) ELSE attempt[b]]
    BY <1>7 DEF QueryReturn
  <2>5. attempt' \in [Attempts -> {"none", "pending", "paid", "expired", "closed"}]
    BY <2>3, <2>4 DEF TypeOK
  <2>6. request' \in [Connections -> CheckoutRequest \cup QueryRequest \cup SettledRequest \cup {Idle}]
    BY <1>0, <1>7, GotoTyped DEF QueryReturn
  <2>7. QED BY <1>7, <2>5, <2>6 DEF QueryReturn, TypeOK
<1>8. ASSUME RetryLoad(c) PROVE TypeOK'
  <2>1. [at |-> "settled", authorized |-> FALSE] \in SettledRequest
    BY DEF SettledRequest
  <2>2. request' \in [Connections -> CheckoutRequest \cup QueryRequest \cup SettledRequest \cup {Idle}]
    BY <1>0, <1>8, <2>1, GotoTyped DEF RetryLoad
  <2>3. QED BY <1>8, <2>2 DEF RetryLoad, TypeOK
<1>9. QED BY <1>1, <1>2, <1>3, <1>4, <1>5, <1>6, <1>7, <1>8

LEMMA QrTyped == ASSUME TypeOK, QrStep PROVE TypeOK'
<1>1. ASSUME ExpireQr PROVE TypeOK'
  BY <1>1 DEF ExpireQr, TypeOK
<1>2. ASSUME NEW a \in Attempts, CreateQr(a) PROVE TypeOK'
  <2>1. attempt \in [Attempts -> {"none", "pending", "paid", "expired", "closed"}]
    BY DEF TypeOK
  <2>2. QED BY <1>2, <2>1, CreateTyped DEF CreateQr
<1>3. ASSUME NEW a \in Attempts, RefreshQr(a) PROVE TypeOK'
  <2>1. purchase.current \in Attempts
    BY <1>3 DEF RefreshQr, TypeOK, PurchaseRows
  <2>2. Expired(purchase.current) \in {"none", "pending", "paid", "expired", "closed"}
    BY <2>1 DEF Expired, TypeOK
  <2>3. [attempt EXCEPT ![purchase.current] = Expired(purchase.current)]
          \in [Attempts -> {"none", "pending", "paid", "expired", "closed"}]
    BY <2>2 DEF TypeOK
  <2>4. QED BY <1>3, <2>3, CreateTyped DEF RefreshQr
<1>4. ASSUME NEW a \in Attempts, Elapse(a) PROVE TypeOK'
  BY <1>4 DEF Elapse, TypeOK
<1>5. QED BY <1>1, <1>2, <1>3, <1>4 DEF QrStep

LEMMA ProviderTyped == ASSUME TypeOK, ProviderStep PROVE TypeOK'
<1>1. ASSUME NEW n \in Numbers, EndTrade(n) PROVE TypeOK'
  BY <1>1 DEF EndTrade, TypeOK
<1>2. ASSUME NEW n \in Numbers, NEW c \in Callbacks, NEW s \in NoticeStatuses, SettleNotice(c, n, s)
      PROVE  TypeOK'
  <2>1. c \in Connections /\ purchase \in PurchaseRows
    BY DEF Connections, TypeOK
  <2>2. QED BY <1>2, <2>1, SettleTyped DEF SettleNotice
<1>3. ASSUME NEW n \in Numbers, NEW c \in Callbacks, NEW s \in NoticeStatuses, RecordFailure(c, n, s)
      PROVE  TypeOK'
  BY <1>3 DEF RecordFailure, TypeOK, CallbackRows
<1>4. QED BY <1>1, <1>2, <1>3 DEF ProviderStep

LEMMA RequestTyped ==
  ASSUME TypeOK, NEW c \in Connections, Authorize(c) \/ AuthorizeReturn(c) \/ Crash(c)
  PROVE  TypeOK'
<1>1. ASSUME Authorize(c) PROVE TypeOK'
  <2>1. purchase' \in PurchaseRows
    BY <1>1 DEF Authorize, TypeOK, PurchaseRows
  <2>2. granted' \in [memberships : Nat, periods : Nat, events : Nat]
    BY <1>1 DEF Authorize, TypeOK
  <2>3. request' \in [Connections -> CheckoutRequest \cup QueryRequest \cup SettledRequest \cup {Idle}]
    BY <1>1, GotoTyped DEF Authorize
  <2>4. QED BY <1>1, <2>1, <2>2, <2>3 DEF Authorize, TypeOK
<1>2. ASSUME AuthorizeReturn(c) PROVE TypeOK'
  BY <1>2, GotoTyped DEF AuthorizeReturn, TypeOK
<1>3. ASSUME Crash(c) PROVE TypeOK'
  <2>1. crashes' \in 0..MaxCrashes
    BY <1>3, PurchaseAssumption DEF Crash, TypeOK
  <2>2. QED BY <1>3, <2>1, GotoTyped DEF Crash, TypeOK
<1>4. QED BY <1>1, <1>2, <1>3

LEMMA StepTyped == TypeOK /\ [Next]_vars => TypeOK'
<1> SUFFICES ASSUME TypeOK, [Next]_vars PROVE TypeOK'
  OBVIOUS
<1>1. CASE BuyerStep BY <1>1, BuyerTyped DEF BuyerStep
<1>2. CASE QrStep BY <1>2, QrTyped
<1>3. CASE ProviderStep BY <1>3, ProviderTyped
<1>4. CASE RequestStep BY <1>4, RequestTyped DEF RequestStep
<1>5. CASE UNCHANGED vars BY <1>5 DEF vars, TypeOK
<1>6. QED BY <1>1, <1>2, <1>3, <1>4, <1>5 DEF Next

\* Every variable of the purchase keeps its type.
THEOREM TypeCorrect == Spec => []TypeOK
BY InitTyped, StepTyped, PTL DEF Spec

(***************************************************************************)
(* One grant.  The counts of granted rows follow purchase.authorized, and  *)
(* only Authorize touches either: the unique keys it is guarded by are the *)
(* counts themselves.                                                      *)
(***************************************************************************)

LEMMA OtherStepsGrantNothing ==
  ASSUME TypeOK, Next, ~(\E c \in Connections : Authorize(c))
  PROVE  granted' = granted /\ purchase'.authorized = purchase.authorized
<1> purchase \in PurchaseRows
  BY DEF TypeOK
<1>1. ASSUME NEW c \in Connections, NEW n \in Numbers, NEW row, Settle(c, n, row)
      PROVE  granted' = granted /\ purchase'.authorized = purchase.authorized
  BY <1>1 DEF Settle, PurchaseRows
<1>2. ASSUME NEW a \in Attempts, NEW statuses, CreateAttempt(a, statuses)
      PROVE  granted' = granted /\ purchase'.authorized = purchase.authorized
  BY <1>2 DEF CreateAttempt, PurchaseRows
<1>3. CASE BuyerStep
  <2>1. PICK c \in Requests :
          \/ \E k \in Keys : CheckoutLoad(c, k)
          \/ CheckoutBind(c) \/ CheckoutReturn(c)
          \/ QueryLoad(c) \/ QueryPaid(c) \/ QuerySettle(c) \/ QueryReturn(c)
          \/ RetryLoad(c)
    BY <1>3 DEF BuyerStep
  <2>2. c \in Connections
    BY DEF Connections
  <2>3. CASE QuerySettle(c)
    <3>1. request[c].row \in PurchaseRows
      BY <2>2, <2>3, RequestShapes DEF QuerySettle, QueryRequest
    <3>2. Asked(request[c].row) \in Numbers
      BY <2>3, <3>1, AskedNumber DEF QuerySettle
    <3>3. QED BY <1>1, <2>2, <2>3, <3>2 DEF QuerySettle
  <2>4. CASE CheckoutBind(c)
    BY <2>4 DEF CheckoutBind, PurchaseRows
  <2>5. CASE ~QuerySettle(c) /\ ~CheckoutBind(c)
    BY <2>1, <2>5 DEF CheckoutLoad, CheckoutReturn, QueryLoad, QueryPaid, QueryReturn, RetryLoad
  <2>6. QED BY <2>3, <2>4, <2>5
<1>4. CASE QrStep
  BY <1>2, <1>4 DEF QrStep, ExpireQr, CreateQr, RefreshQr, Elapse
<1>5. CASE ProviderStep
  <2>1. ASSUME NEW n \in Numbers, EndTrade(n)
        PROVE  granted' = granted /\ purchase'.authorized = purchase.authorized
    BY <2>1 DEF EndTrade
  <2>2. ASSUME NEW n \in Numbers, NEW c \in Callbacks, NEW s \in NoticeStatuses, SettleNotice(c, n, s)
        PROVE  granted' = granted /\ purchase'.authorized = purchase.authorized
    BY <1>1, <2>2 DEF SettleNotice, Connections
  <2>3. ASSUME NEW n \in Numbers, NEW c \in Callbacks, NEW s \in NoticeStatuses, RecordFailure(c, n, s)
        PROVE  granted' = granted /\ purchase'.authorized = purchase.authorized
    BY <2>3 DEF RecordFailure
  <2>4. QED BY <1>5, <2>1, <2>2, <2>3 DEF ProviderStep
<1>6. CASE RequestStep
  BY <1>6 DEF RequestStep, AuthorizeReturn, Crash
<1>7. QED BY <1>3, <1>4, <1>5, <1>6 DEF Next

LEMMA GrantStep == TypeOK /\ AuthorizedOnce /\ [Next]_vars => AuthorizedOnce'
<1> SUFFICES ASSUME TypeOK, AuthorizedOnce, [Next]_vars PROVE AuthorizedOnce'
  OBVIOUS
<1>1. ASSUME NEW c \in Connections, Authorize(c) PROVE AuthorizedOnce'
  <2>1. granted.memberships = 0 /\ granted.periods = 0 /\ purchase.authorized \in BOOLEAN
    BY <1>1 DEF Authorize, Ungranted, TypeOK, PurchaseRows
  <2>2. granted.events = 0
    BY <2>1 DEF AuthorizedOnce
  <2>3. purchase'.authorized = TRUE
    BY <1>1 DEF Authorize, TypeOK, PurchaseRows
  <2>4. granted' = [memberships |-> 1, periods |-> 1, events |-> 1]
    BY <1>1, <2>1, <2>2 DEF Authorize
  <2>5. QED BY <2>3, <2>4 DEF AuthorizedOnce
<1>2. CASE Next /\ ~(\E c \in Connections : Authorize(c))
  BY <1>2, OtherStepsGrantNothing DEF AuthorizedOnce
<1>3. CASE UNCHANGED vars
  BY <1>3 DEF vars, AuthorizedOnce
<1>4. QED BY <1>1, <1>2, <1>3

\* The requests of one purchase grant one membership, one quota period and one event.
THEOREM GrantedOnce == Spec => []AuthorizedOnce
<1>1. Init => AuthorizedOnce
  BY DEF Init, AuthorizedOnce
<1>2. QED BY <1>1, InitTyped, StepTyped, GrantStep, PTL DEF Spec

(***************************************************************************)
(* Real payments.  A request that holds a paid purchase, or goes on to     *)
(* authorize one, saw it paid: status never leaves "paid" again, though    *)
(* payment may, when a checkout that loaded the purchase earlier binds.    *)
(* No attempt is created over the trade of another.                        *)
(***************************************************************************)

Evidence == \E n \in Numbers : trade[n] = "success" /\ callback[n] = "processed"

PaidInv ==
  /\ purchase.authorized => purchase.status = "paid"
  /\ purchase.status = "paid" => Evidence
  /\ purchase.payment = "paid" => purchase.status = "paid"
  /\ \A c \in Connections :
       \/ request[c].at = "settled"
       \/ request[c].at = "query" /\ request[c].row.payment = "paid"
       => purchase.status = "paid"
  /\ \A a \in Attempts : attempt[a] = "none" => trade[a] = "none"

LEMMA InitPaid == Init => PaidInv
BY DEF Init, PaidInv, Idle, Numbers

\* A trade that was paid and processed stays so.
LEMMA EvidenceKept ==
  ASSUME Evidence,
         \A n \in Numbers : trade[n] = "success" => trade'[n] = "success",
         \A n \in Numbers : callback[n] = "processed" => callback'[n] = "processed"
  PROVE  Evidence'
BY DEF Evidence

\* A request that neither settles nor sees a paid purchase may go on.
LEMMA RequestGoesOn ==
  ASSUME TypeOK, PaidInv, NEW c \in Connections, NEW r, Goto(c, r),
         UNCHANGED <<purchase, trade, callback>>,
         (r.at = "settled" \/ (r.at = "query" /\ r.row.payment = "paid")) => purchase.status = "paid",
         \A a \in Attempts : attempt'[a] = "none" => attempt[a] = "none"
  PROVE  PaidInv'
<1>1. \A d \in Connections : request'[d] = IF d = c THEN r ELSE request[d]
  BY DEF TypeOK, Goto
<1>2. Evidence' = Evidence
  BY DEF Evidence
<1>3. QED BY <1>1, <1>2 DEF PaidInv

\* A settled trade is the evidence of the purchase it pays.
LEMMA SettlePaid ==
  ASSUME TypeOK, PaidInv, NEW c \in Connections, NEW n \in Numbers, NEW row \in PurchaseRows,
         trade[n] = "success", row.payment = "paid" => purchase.status = "paid",
         Settle(c, n, row)
  PROVE  PaidInv'
<1>1. trade' = trade /\ callback' = [callback EXCEPT ![n] = "processed"]
  BY DEF Settle
<1>2. Evidence'
  BY <1>1 DEF Evidence, TypeOK, CallbackRows
<1>3. purchase'.status = "paid"
  <2>1. CASE row.payment = "paid"
    BY <2>1 DEF Settle
  <2>2. CASE row.payment # "paid"
    BY <2>2 DEF Settle, TypeOK, PurchaseRows
  <2>3. QED BY <2>1, <2>2
<1>4. \A a \in Attempts : attempt'[a] = "none" => attempt[a] = "none"
  BY DEF Settle, TypeOK
<1>5. QED BY <1>1, <1>2, <1>3, <1>4 DEF PaidInv

\* A new attempt takes a number that has no trade.
LEMMA CreatePaid ==
  ASSUME TypeOK, PaidInv, NEW a \in Attempts,
         NEW statuses \in [Attempts -> {"none", "pending", "paid", "expired", "closed"}],
         \A b \in Attempts : statuses[b] = "none" => attempt[b] = "none",
         CreateAttempt(a, statuses)
  PROVE  PaidInv'
<1>1. attempt[a] = "none" /\ trade[a] = "none"
  <2>1. a \in Nat /\ a >= a
    BY PurchaseAssumption DEF Attempts
  <2>2. attempt[a] = "none"
    BY <2>1 DEF CreateAttempt, Fresh
  <2>3. QED BY <2>2 DEF PaidInv
<1>2. trade' = [trade EXCEPT ![a] = "waiting"] /\ UNCHANGED <<callback, request>>
  BY DEF CreateAttempt
<1>3. purchase'.status = purchase.status /\ purchase'.authorized = purchase.authorized
      /\ purchase'.payment = "paying"
  BY DEF CreateAttempt, TypeOK, PurchaseRows
<1>4. Evidence => Evidence'
  <2>1. \A n \in Numbers : trade[n] = "success" => trade'[n] = "success"
    BY <1>1, <1>2 DEF TypeOK
  <2>2. QED BY <1>2, <2>1, EvidenceKept
<1>5. \A b \in Attempts : attempt'[b] = "none" => trade'[b] = "none"
  BY <1>2 DEF CreateAttempt, PaidInv, TypeOK, Numbers
<1>6. QED BY <1>2, <1>3, <1>4, <1>5 DEF PaidInv

LEMMA BuyerPaid ==
  ASSUME TypeOK, PaidInv, NEW c \in Requests,
         \/ \E k \in Keys : CheckoutLoad(c, k)
         \/ CheckoutBind(c) \/ CheckoutReturn(c)
         \/ QueryLoad(c) \/ QueryPaid(c) \/ QuerySettle(c) \/ QueryReturn(c)
         \/ RetryLoad(c)
  PROVE  PaidInv'
<1>0. c \in Connections
  BY DEF Connections
<1>1. ASSUME NEW k \in Keys, CheckoutLoad(c, k) PROVE PaidInv'
  BY <1>0, <1>1, RequestGoesOn DEF CheckoutLoad
<1>2. ASSUME CheckoutBind(c) PROVE PaidInv'
  <2>1. request[c].key \in Keys
    BY <1>0, <1>2, RequestShapes DEF CheckoutBind, CheckoutRequest
  <2>2. purchase'.status = purchase.status /\ purchase'.authorized = purchase.authorized
        /\ purchase'.payment \in {"paying", purchase.payment}
    BY <1>2 DEF CheckoutBind, TypeOK, PurchaseRows
  <2>3. trade' = [trade EXCEPT ![request[c].key] = IF @ = "none" THEN "waiting" ELSE @]
    BY <1>2 DEF CheckoutBind
  <2>4. Evidence => Evidence'
    <3>1. \A n \in Numbers : trade[n] = "success" => trade'[n] = "success"
      BY <2>3 DEF TypeOK
    <3>2. QED BY <1>2, <3>1, EvidenceKept DEF CheckoutBind
  <2>5. \A a \in Attempts : attempt'[a] = "none" => trade'[a] = "none"
    <3>1. \A a \in Attempts : a # request[c].key
      BY <2>1, PurchaseAssumption DEF Attempts
    <3>2. \A a \in Attempts : trade'[a] = trade[a]
      BY <2>3, <3>1 DEF TypeOK, Numbers
    <3>3. QED BY <1>2, <3>2 DEF CheckoutBind, PaidInv
  <2>6. \A d \in Connections : request'[d] = IF d = c THEN Idle ELSE request[d]
    BY <1>0, <1>2 DEF CheckoutBind, Goto, TypeOK
  <2>7. \A d \in Connections :
          \/ request'[d].at = "settled"
          \/ request'[d].at = "query" /\ request'[d].row.payment = "paid"
          => purchase'.status = "paid"
    BY <2>2, <2>6 DEF PaidInv, Idle
  <2>8. QED BY <2>2, <2>4, <2>5, <2>7 DEF PaidInv
<1>3. ASSUME CheckoutReturn(c) PROVE PaidInv'
  BY <1>0, <1>3, RequestGoesOn DEF CheckoutReturn, Idle
<1>4. ASSUME QueryLoad(c) PROVE PaidInv'
  <2>1. purchase.payment = "paid" => purchase.status = "paid"
    BY DEF PaidInv
  <2>2. QED BY <1>0, <1>4, <2>1, RequestGoesOn DEF QueryLoad
<1>5. ASSUME QueryPaid(c) PROVE PaidInv'
  <2>1. purchase.status = "paid"
    BY <1>0, <1>5 DEF QueryPaid, PaidInv
  <2>2. QED BY <1>0, <1>5, <2>1, RequestGoesOn DEF QueryPaid
<1>6. ASSUME QuerySettle(c) PROVE PaidInv'
  <2>1. request[c].row \in PurchaseRows
    BY <1>0, <1>6, RequestShapes DEF QuerySettle, QueryRequest
  <2>2. Asked(request[c].row) \in Numbers
    BY <1>6, <2>1, AskedNumber DEF QuerySettle
  <2>3. trade[Asked(request[c].row)] = "success"
    BY <1>6 DEF QuerySettle, Accepted, Successful
  <2>4. QED BY <1>0, <1>6, <2>1, <2>2, <2>3, SettlePaid DEF QuerySettle
<1>7. ASSUME QueryReturn(c) PROVE PaidInv'
  <2>1. \A a \in Attempts : attempt'[a] = "none" => attempt[a] = "none"
    BY <1>7 DEF QueryReturn, Expired, TypeOK
  <2>2. QED BY <1>0, <1>7, <2>1, RequestGoesOn DEF QueryReturn, Idle
<1>8. ASSUME RetryLoad(c) PROVE PaidInv'
  <2>1. purchase.status = "paid"
    BY <1>8 DEF RetryLoad, PaidInv
  <2>2. QED BY <1>0, <1>8, <2>1, RequestGoesOn DEF RetryLoad
<1>9. QED BY <1>1, <1>2, <1>3, <1>4, <1>5, <1>6, <1>7, <1>8

LEMMA QrPaid == ASSUME TypeOK, PaidInv, QrStep PROVE PaidInv'
<1>1. ASSUME ExpireQr PROVE PaidInv'
  <2>1. \A a \in Attempts : attempt'[a] = "none" => attempt[a] = "none"
    BY <1>1 DEF ExpireQr, TypeOK
  <2>2. QED BY <1>1, <2>1 DEF ExpireQr, PaidInv, Evidence
<1>2. ASSUME NEW a \in Attempts, CreateQr(a) PROVE PaidInv'
  <2>1. attempt \in [Attempts -> {"none", "pending", "paid", "expired", "closed"}]
    BY DEF TypeOK
  <2>2. QED BY <1>2, <2>1, CreatePaid DEF CreateQr
<1>3. ASSUME NEW a \in Attempts, RefreshQr(a) PROVE PaidInv'
  <2> DEFINE statuses == [attempt EXCEPT ![purchase.current] = Expired(purchase.current)]
  <2>1. purchase.current \in Attempts
    BY <1>3 DEF RefreshQr, TypeOK, PurchaseRows
  <2>2. statuses \in [Attempts -> {"none", "pending", "paid", "expired", "closed"}]
    BY <2>1 DEF Expired, TypeOK
  <2>3. \A b \in Attempts : statuses[b] = "none" => attempt[b] = "none"
    BY <2>1 DEF Expired, TypeOK
  <2>4. CreateAttempt(a, statuses)
    BY <1>3 DEF RefreshQr
  <2> HIDE DEF statuses
  <2>5. QED BY <2>2, <2>3, <2>4, CreatePaid
<1>4. ASSUME NEW a \in Attempts, Elapse(a) PROVE PaidInv'
  BY <1>4 DEF Elapse, PaidInv, Evidence
<1>5. QED BY <1>1, <1>2, <1>3, <1>4 DEF QrStep

LEMMA ProviderPaid == ASSUME TypeOK, PaidInv, ProviderStep PROVE PaidInv'
<1>1. ASSUME NEW n \in Numbers, EndTrade(n) PROVE PaidInv'
  <2>1. \A m \in Numbers : trade[m] = "success" => trade'[m] = "success"
    BY <1>1 DEF EndTrade, TypeOK
  <2>2. \A m \in Numbers : trade[m] = "none" => trade'[m] = "none"
    BY <1>1 DEF EndTrade, TypeOK
  <2>3. Evidence => Evidence'
    BY <1>1, <2>1, EvidenceKept DEF EndTrade
  <2>4. QED BY <1>1, <2>2, <2>3 DEF EndTrade, PaidInv, Numbers
<1>2. ASSUME NEW n \in Numbers, NEW c \in Callbacks, NEW s \in NoticeStatuses, SettleNotice(c, n, s)
      PROVE  PaidInv'
  <2>1. trade[n] = "success"
    BY <1>2 DEF SettleNotice, Notifiable, Accepted, Successful
  <2>2. c \in Connections /\ purchase \in PurchaseRows
    BY DEF Connections, TypeOK
  <2>3. purchase.payment = "paid" => purchase.status = "paid"
    BY DEF PaidInv
  <2>4. QED BY <1>2, <2>1, <2>2, <2>3, SettlePaid DEF SettleNotice
<1>3. ASSUME NEW n \in Numbers, NEW c \in Callbacks, NEW s \in NoticeStatuses, RecordFailure(c, n, s)
      PROVE  PaidInv'
  <2>1. \A m \in Numbers : callback[m] = "processed" => callback'[m] = "processed"
    BY <1>3 DEF RecordFailure, TypeOK, CallbackRows
  <2>2. Evidence => Evidence'
    BY <1>3, <2>1, EvidenceKept DEF RecordFailure
  <2>3. QED BY <1>3, <2>2 DEF RecordFailure, PaidInv
<1>4. QED BY <1>1, <1>2, <1>3 DEF ProviderStep

LEMMA RequestPaid ==
  ASSUME TypeOK, PaidInv, NEW c \in Connections, Authorize(c) \/ AuthorizeReturn(c) \/ Crash(c)
  PROVE  PaidInv'
<1>1. ASSUME Authorize(c) PROVE PaidInv'
  <2>1. purchase.status = "paid"
    BY <1>1 DEF Authorize, PaidInv
  <2>2. purchase'.status = "paid"
    BY <1>1, <2>1 DEF Authorize, TypeOK, PurchaseRows
  <2>3. Evidence'
    BY <1>1, <2>1 DEF Authorize, PaidInv, Evidence
  <2>4. QED BY <1>1, <2>2, <2>3 DEF Authorize, PaidInv
<1>2. ASSUME AuthorizeReturn(c) PROVE PaidInv'
  BY <1>2, RequestGoesOn DEF AuthorizeReturn, Idle
<1>3. ASSUME Crash(c) PROVE PaidInv'
  BY <1>3, RequestGoesOn DEF Crash, Idle
<1>4. QED BY <1>1, <1>2, <1>3

LEMMA PaidStep == TypeOK /\ PaidInv /\ [Next]_vars => PaidInv'
<1> SUFFICES ASSUME TypeOK, PaidInv, [Next]_vars PROVE PaidInv'
  OBVIOUS
<1>1. CASE BuyerStep BY <1>1, BuyerPaid DEF BuyerStep
<1>2. CASE QrStep BY <1>2, QrPaid
<1>3. CASE ProviderStep BY <1>3, ProviderPaid
<1>4. CASE RequestStep BY <1>4, RequestPaid DEF RequestStep
<1>5. CASE UNCHANGED vars BY <1>5 DEF vars, PaidInv, Evidence
<1>6. QED BY <1>1, <1>2, <1>3, <1>4, <1>5 DEF Next

\* A purchase is paid or authorized only behind a successful, processed trade.
THEOREM PaidIsReal == Spec => []PaymentIsReal
<1>1. PaidInv => PaymentIsReal
  BY DEF PaidInv, PaymentIsReal, Evidence
<1>2. QED BY <1>1, InitTyped, StepTyped, InitPaid, PaidStep, PTL DEF Spec

\* What a purchase grants was paid for, and is granted once.
THEOREM PurchaseSound == Spec => []PurchaseIsSound
BY GrantedOnce, PaidIsReal, PTL DEF PurchaseIsSound
(***************************************************************************)
(* Attempts.  A step makes one pending or ends a pending one, never both   *)
(* to the same attempt, and ends the current one before it replaces it.    *)
(***************************************************************************)

Ended == {"paid", "expired", "closed"}

\* Ending: only pending attempts change, and none becomes pending.
OnlyEnds ==
  /\ purchase'.current = purchase.current
  /\ \A a \in Attempts : attempt'[a] = attempt[a] \/ (attempt[a] = "pending" /\ attempt'[a] # "pending")

\* Replacing: a fresh attempt is pending and current, and no other is pending.
Replaces == \E a \in Attempts :
  /\ attempt[a] = "none" /\ attempt'[a] = "pending" /\ purchase'.current = a
  /\ \A b \in Attempts \ {a} : attempt'[b] # "pending" /\ (attempt[b] \in Ended => attempt'[b] = attempt[b])

\* A settled trade is that of a live attempt.
LEMMA SettleEnds ==
  ASSUME TypeOK, NEW c \in Connections, NEW n \in Numbers, NEW row \in PurchaseRows, NEW status, NEW known,
         Accepted(n, status, row, known), Settle(c, n, row)
  PROVE  OnlyEnds
<1>1. purchase'.current = purchase.current
  BY DEF Settle, TypeOK, PurchaseRows
<1>2. n \in Attempts => attempt[n] \in {"pending", "paid"}
  BY DEF Accepted, Live
<1>3. QED BY <1>1, <1>2 DEF Settle, OnlyEnds, TypeOK

LEMMA CreateReplaces ==
  ASSUME TypeOK, OneOpenAttempt, NEW a \in Attempts, CreateQr(a) \/ RefreshQr(a)
  PROVE  Replaces
<1>1. attempt[a] = "none"
  <2>1. Fresh(a) BY DEF CreateQr, RefreshQr, CreateAttempt
  <2>2. a >= a BY PurchaseAssumption DEF Attempts
  <2>3. QED BY <2>1, <2>2 DEF Fresh
<1>2. purchase'.current = a
  BY DEF CreateQr, RefreshQr, CreateAttempt, TypeOK, PurchaseRows
<1>3. CASE CreateQr(a)
  <2>1. attempt' = [attempt EXCEPT ![a] = "pending"] /\ purchase.current = None
    BY <1>3 DEF CreateQr, CreateAttempt
  <2>2. \A b \in Attempts : attempt[b] # "pending"
    BY <2>1, PurchaseAssumption DEF OneOpenAttempt, Attempts, None
  <2>3. QED BY <1>1, <1>2, <2>1, <2>2 DEF Replaces, TypeOK
<1>4. CASE RefreshQr(a)
  <2> DEFINE current == purchase.current
  <2>1. current \in Attempts /\ Refreshable(Expired(current))
    BY <1>4 DEF RefreshQr, TypeOK, PurchaseRows
  <2>2. Expired(current) \in {"expired", "closed"} /\ (attempt[current] \in Ended => Expired(current) = attempt[current])
    BY <2>1 DEF Refreshable, Expired, Ended
  <2>3. attempt' = [[attempt EXCEPT ![current] = Expired(current)] EXCEPT ![a] = "pending"]
    BY <1>4 DEF RefreshQr, CreateAttempt
  <2>4. \A b \in Attempts \ {a} : attempt'[b] = IF b = current THEN Expired(current) ELSE attempt[b]
    BY <2>1, <2>3 DEF TypeOK
  <2>5. \A b \in Attempts \ {current} : attempt[b] # "pending"
    BY DEF OneOpenAttempt
  <2>6. \A b \in Attempts \ {a} : attempt'[b] # "pending" /\ (attempt[b] \in Ended => attempt'[b] = attempt[b])
    BY <2>2, <2>4, <2>5
  <2>7. attempt'[a] = "pending" BY <2>3 DEF TypeOK
  <2>8. QED BY <1>1, <1>2, <2>6, <2>7 DEF Replaces
<1>5. QED BY <1>3, <1>4

LEMMA QueryEndsAttempt ==
  ASSUME TypeOK, NEW c \in Requests, QuerySettle(c) \/ QueryReturn(c)
  PROVE  OnlyEnds
<1>1. c \in Connections BY DEF Connections
<1>2. request[c] \in QueryRequest BY <1>1, RequestShapes DEF QuerySettle, QueryReturn
<1>3. request[c].row \in PurchaseRows BY <1>2 DEF QueryRequest
<1>4. CASE QuerySettle(c)
  <2> DEFINE n == Asked(request[c].row)
  <2>1. n \in Numbers BY <1>3, <1>4, AskedNumber DEF QuerySettle
  <2>2. Accepted(n, trade[n], request[c].row, request[c].known[n]) /\ Settle(c, n, request[c].row)
    BY <1>4 DEF QuerySettle
  <2>3. QED BY <1>1, <1>3, <2>1, <2>2, SettleEnds
<1>5. CASE QueryReturn(c)
  <2> DEFINE a == request[c].row.current
  <2>1. purchase' = purchase BY <1>5 DEF QueryReturn
  <2>2. a \in Attempts \cup {None} /\ request[c].row.payment_no \in Keys \cup {None}
    BY <1>3 DEF PurchaseRows
  <2>3. Asked(request[c].row) = a /\ a # None => attempt[a] = "pending"
    <3>1. SUFFICES ASSUME Asked(request[c].row) = a, a # None PROVE attempt[a] = "pending" OBVIOUS
    <3>2. Expired(a) = "pending" BY <3>1 DEF Asked
    <3>3. QED BY <3>2 DEF Expired
  <2>4. \A b \in Attempts : Expired(b) = attempt[b] \/ (attempt[b] = "pending" /\ Expired(b) = "expired")
    BY DEF Expired
  <2>5. CASE attempt' = attempt BY <2>1, <2>5 DEF OnlyEnds
  <2>6. CASE Asked(request[c].row) # None /\ Asked(request[c].row) = a /\ attempt' = [attempt EXCEPT ![a] = "closed"]
    BY <2>1, <2>3, <2>6 DEF OnlyEnds, TypeOK
  <2>7. CASE attempt' = [b \in Attempts |-> IF b = a THEN Expired(b) ELSE attempt[b]]
    BY <2>1, <2>4, <2>7 DEF OnlyEnds
  <2>8. QED BY <1>5, <2>5, <2>6, <2>7 DEF QueryReturn
<1>6. QED BY <1>4, <1>5

LEMMA AttemptSteps == TypeOK /\ OneOpenAttempt /\ [Next]_vars => OnlyEnds \/ Replaces
<1> SUFFICES ASSUME TypeOK, OneOpenAttempt, [Next]_vars PROVE OnlyEnds \/ Replaces
  OBVIOUS
<1>1. ASSUME purchase'.current = purchase.current, attempt' = attempt PROVE OnlyEnds
  BY <1>1 DEF OnlyEnds
<1>2. ASSUME NEW c \in Requests, NEW k \in Keys, CheckoutLoad(c, k) PROVE OnlyEnds
  BY <1>1, <1>2 DEF CheckoutLoad
<1>3. ASSUME NEW c \in Requests, CheckoutBind(c) PROVE OnlyEnds
  <2>1. purchase'.current = purchase.current BY <1>3 DEF CheckoutBind, TypeOK, PurchaseRows
  <2>2. QED BY <1>1, <1>3, <2>1 DEF CheckoutBind
<1>4. ASSUME NEW c \in Requests, CheckoutReturn(c) \/ QueryLoad(c) \/ QueryPaid(c) \/ RetryLoad(c) PROVE OnlyEnds
  BY <1>1, <1>4 DEF CheckoutReturn, QueryLoad, QueryPaid, RetryLoad
<1>5. ASSUME NEW c \in Requests, QuerySettle(c) \/ QueryReturn(c) PROVE OnlyEnds
  BY <1>5, QueryEndsAttempt
<1>6. ASSUME ExpireQr PROVE OnlyEnds
  <2>1. purchase.current \in Attempts BY <1>6 DEF ExpireQr, TypeOK, PurchaseRows
  <2>2. attempt[purchase.current] = "pending" BY <1>6 DEF ExpireQr, Expired
  <2>3. QED BY <1>6, <2>1, <2>2 DEF ExpireQr, OnlyEnds, TypeOK
<1>7. ASSUME NEW a \in Attempts, Elapse(a) PROVE OnlyEnds
  BY <1>1, <1>7 DEF Elapse
<1>8. ASSUME NEW a \in Attempts, CreateQr(a) \/ RefreshQr(a) PROVE Replaces
  BY <1>8, CreateReplaces
<1>9. ASSUME NEW n \in Numbers, NEW c \in Callbacks, NEW s \in NoticeStatuses, SettleNotice(c, n, s)
      PROVE  OnlyEnds
  <2>1. c \in Connections /\ purchase \in PurchaseRows BY DEF Connections, TypeOK
  <2>2. QED BY <1>9, <2>1, SettleEnds DEF SettleNotice
<1>10. ASSUME NEW n \in Numbers, NEW c \in Callbacks, NEW s \in NoticeStatuses,
              EndTrade(n) \/ RecordFailure(c, n, s)
       PROVE  OnlyEnds
  BY <1>1, <1>10 DEF EndTrade, RecordFailure
<1>11. ASSUME NEW n \in Numbers, EndTrade(n) PROVE OnlyEnds
  BY <1>1, <1>11 DEF EndTrade
<1>12. ASSUME NEW c \in Connections, Authorize(c) PROVE OnlyEnds
  <2>1. purchase'.current = purchase.current BY <1>12 DEF Authorize, TypeOK, PurchaseRows
  <2>2. QED BY <1>1, <1>12, <2>1 DEF Authorize
<1>13. ASSUME NEW c \in Connections, AuthorizeReturn(c) \/ Crash(c) PROVE OnlyEnds
  BY <1>1, <1>13 DEF AuthorizeReturn, Crash
<1>14. ASSUME UNCHANGED vars PROVE OnlyEnds
  BY <1>1, <1>14 DEF vars
<1>15. CASE BuyerStep
  BY <1>2, <1>3, <1>4, <1>5, <1>15 DEF BuyerStep
<1>16. CASE QrStep
  BY <1>6, <1>7, <1>8, <1>16 DEF QrStep
<1>17. CASE ProviderStep
  BY <1>9, <1>10, <1>11, <1>17 DEF ProviderStep
<1>18. CASE RequestStep
  BY <1>12, <1>13, <1>18 DEF RequestStep
<1>19. QED BY <1>14, <1>15, <1>16, <1>17, <1>18 DEF Next

LEMMA OpenInvariant == Spec => [](TypeOK /\ OneOpenAttempt)
<1>1. Init => TypeOK /\ OneOpenAttempt
  BY InitTyped DEF Init, OneOpenAttempt
<1>2. TypeOK /\ OneOpenAttempt /\ [Next]_vars => (TypeOK /\ OneOpenAttempt)'
  <2>1. TypeOK /\ OneOpenAttempt /\ OnlyEnds => OneOpenAttempt' BY DEF OnlyEnds, OneOpenAttempt
  <2>2. Replaces => OneOpenAttempt' BY DEF Replaces, OneOpenAttempt
  <2>3. QED BY <2>1, <2>2, StepTyped, AttemptSteps
<1>3. QED BY <1>1, <1>2, PTL DEF Spec

\* However refreshes, queries, notices and expiry interleave, the buyer has one
\* QR code at most that can be paid, the current one (refresh_qr_attempt).
THEOREM OneOpen == Spec => []OneOpenAttempt
BY OpenInvariant, PTL

\* An attempt that was paid, expired or closed stays so (_settle,
\* _expire_current_attempt, query).
THEOREM AttemptsEndOnce == Spec => AttemptIsFinal
<1>1. TypeOK /\ OneOpenAttempt /\ [Next]_vars =>
        [\A a \in Attempts : attempt[a] \in {"paid", "expired", "closed"} => attempt'[a] = attempt[a]]_attempt
  BY AttemptSteps DEF OnlyEnds, Replaces, Ended
<1>2. QED BY <1>1, OpenInvariant, PTL DEF Spec, AttemptIsFinal
==============================================================================
