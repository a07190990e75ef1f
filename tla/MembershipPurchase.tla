------------------------- MODULE MembershipPurchase -------------------------
(***************************************************************************)
(* Buying one AI membership: the redirect checkout, the QR attempts with   *)
(* their ten minutes, the provider's notices, the user's payment queries,  *)
(* and the authorization that a verified payment ends in.  Source:         *)
(* membership_purchases/service.py and router.py.                          *)
(*                                                                         *)
(* A payment number and the provider's trade for it have one name: the     *)
(* Idempotency-Key of a redirect checkout, or the number of a QR attempt.  *)
(* Requests that load the purchase before they lock it keep the columns    *)
(* they loaded; the QR endpoints lock first and read the latest row.       *)
(***************************************************************************)
EXTENDS Naturals

CONSTANTS
  Keys,           \* idempotency keys of redirect checkouts
  MaxAttempts,    \* bound on QR attempts of the purchase
  Requests,       \* connections of the buyer and of administrators
  Callbacks,      \* connections the provider notifies on
  NoticeStatuses, \* trade statuses the provider notifies
  MaxCrashes      \* bound on requests lost between two transactions

None == 0
Attempts == 1..MaxAttempts
Numbers == Keys \cup Attempts

ASSUME PurchaseAssumption ==
  /\ MaxAttempts \in Nat /\ MaxCrashes \in Nat
  /\ Keys \cap (0..MaxAttempts) = {}
  /\ Requests \cap Callbacks = {}
  /\ NoticeStatuses \subseteq {"waiting", "success", "closed"}

VARIABLES
  purchase, \* the membership_purchases row
  attempt,  \* status of each membership_payment_attempts row
  overdue,  \* attempts whose expires_at has passed
  callback, \* membership_payment_callback_events row of each trade_no
  granted,  \* user_memberships, ai_quota_periods and outbox rows of the purchase
  trade,    \* the provider's trade for each payment number
  request,  \* what each request has loaded
  crashes   \* requests lost so far

vars == <<purchase, attempt, overdue, callback, granted, trade, request, crashes>>

Connections == Requests \cup Callbacks

Idle == [at |-> "idle"]

PurchaseRows ==
  [status : {"pending_payment", "paid"}, payment : {"pending", "paying", "paid"},
   authorized : BOOLEAN, payment_no : Keys \cup {None}, current : Attempts \cup {None},
   trade : Numbers \cup {None}]

CallbackRows == [Numbers -> {"none", "failed", "processed"}]

CheckoutRequest == [at : {"checkout"}, key : Keys, row : PurchaseRows]
QueryRequest == [at : {"query"}, row : PurchaseRows, known : CallbackRows]
SettledRequest == [at : {"settled"}, authorized : BOOLEAN]

TypeOK ==
  /\ purchase \in PurchaseRows
  /\ attempt \in [Attempts -> {"none", "pending", "paid", "expired", "closed"}]
  /\ overdue \subseteq Attempts
  /\ callback \in CallbackRows
  /\ granted \in [memberships : Nat, periods : Nat, events : Nat]
  /\ trade \in [Numbers -> {"none", "waiting", "success", "closed"}]
  /\ request \in [Connections -> CheckoutRequest \cup QueryRequest \cup SettledRequest \cup {Idle}]
  /\ crashes \in 0..MaxCrashes

Init ==
  /\ purchase = [status |-> "pending_payment", payment |-> "pending", authorized |-> FALSE,
                 payment_no |-> None, current |-> None, trade |-> None]
  /\ attempt = [a \in Attempts |-> "none"]
  /\ overdue = {}
  /\ callback = [n \in Numbers |-> "none"]
  /\ granted = [memberships |-> 0, periods |-> 0, events |-> 0]
  /\ trade = [n \in Numbers |-> "none"]
  /\ request = [c \in Connections |-> Idle]
  /\ crashes = 0

Goto(c, r) == request' = [request EXCEPT ![c] = r]

(***************************************************************************)
(* Redirect checkout: the router loads the purchase, create_payment locks  *)
(***************************************************************************)

CheckoutLoad(c, k) ==
  /\ request[c] = Idle
  /\ Goto(c, [at |-> "checkout", key |-> k, row |-> purchase])
  /\ UNCHANGED <<purchase, attempt, overdue, callback, granted, trade, crashes>>

Payable(row) == row.status = "pending_payment" /\ row.payment \in {"pending", "paying"}

Numbered(row) == row.payment_no # None

\* The first checkout gives the purchase its payment_no and the buyer a page.
CheckoutBind(c) ==
  LET r == request[c] IN
  /\ r.at = "checkout" /\ Payable(r.row) /\ ~Numbered(r.row)
  /\ purchase' = [purchase EXCEPT !.payment_no = r.key,
                    !.payment = IF r.row.payment = "pending" THEN "paying" ELSE @]
  /\ trade' = [trade EXCEPT ![r.key] = IF @ = "none" THEN "waiting" ELSE @]
  /\ Goto(c, Idle)
  /\ UNCHANGED <<attempt, overdue, callback, granted, crashes>>

\* The same key again (the same page), or a refusal.
CheckoutReturn(c) ==
  LET r == request[c] IN
  /\ r.at = "checkout"
  /\ ~Payable(r.row) \/ Numbered(r.row)
  /\ Goto(c, Idle)
  /\ UNCHANGED <<purchase, attempt, overdue, callback, granted, trade, crashes>>

(***************************************************************************)
(* QR attempts                                                             *)
(***************************************************************************)

\* Ten minutes after an attempt was created.
Elapse(a) ==
  /\ attempt[a] # "none" /\ a \notin overdue
  /\ overdue' = overdue \cup {a}
  /\ UNCHANGED <<purchase, attempt, callback, granted, trade, request, crashes>>

\* _expire_current_attempt, for the attempt the session's purchase points at.
Expired(a) == IF attempt[a] = "pending" /\ a \in overdue THEN "expired" ELSE attempt[a]

Fresh(a) == a \in Attempts /\ \A b \in Attempts : (attempt[b] = "none") <=> (b >= a)

Unpaid == ~purchase.authorized /\ purchase.payment # "paid"

\* _create_qr_attempt when the provider answers; otherwise everything is rolled back.
CreateAttempt(a, statuses) ==
  /\ Fresh(a) /\ Payable(purchase)
  /\ attempt' = [statuses EXCEPT ![a] = "pending"]
  /\ trade' = [trade EXCEPT ![a] = "waiting"]
  /\ purchase' = [purchase EXCEPT !.current = a, !.payment = "paying"]
  /\ UNCHANGED <<overdue, callback, granted, request, crashes>>

CreateQr(a) ==
  /\ Unpaid /\ purchase.current = None
  /\ CreateAttempt(a, attempt)

Refreshable(status) == status \in {"expired", "closed"}

RefreshQr(a) ==
  LET current == purchase.current IN
  /\ Unpaid /\ current # None
  /\ Refreshable(Expired(current))
  /\ CreateAttempt(a, [attempt EXCEPT ![current] = Expired(current)])

\* current_qr_attempt only marks the attempt.
ExpireQr ==
  LET current == purchase.current IN
  /\ current # None /\ Expired(current) # attempt[current]
  /\ attempt' = [attempt EXCEPT ![current] = "expired"]
  /\ UNCHANGED <<purchase, overdue, callback, granted, trade, request, crashes>>

(***************************************************************************)
(* Buyer and provider: a QR trade is paid within its ten minutes           *)
(***************************************************************************)

EndTrade(n) ==
  /\ trade[n] = "waiting"
  /\ \/ n \notin overdue /\ trade' = [trade EXCEPT ![n] = "success"]
     \/ trade' = [trade EXCEPT ![n] = "closed"]
  /\ UNCHANGED <<purchase, attempt, overdue, callback, granted, request, crashes>>

(***************************************************************************)
(* Settling and authorizing                                                *)
(***************************************************************************)

Successful(status) == status = "success"

\* Mutant of Live: an expired or closed attempt still takes its money.
LiveOrLate(a) == attempt[a] # "none"

Live(a) == attempt[a] \in {"pending", "paid"}

SameTrade(row, n) == row.trade \in {None, n}

\* The conditions of _settle, for the purchase row and callback row the session sees.
Accepted(n, status, row, known) ==
  /\ Successful(status)
  /\ IF n \in Attempts THEN Live(n) ELSE purchase.payment_no = n
  /\ SameTrade(row, n)
  /\ known # "failed"

\* The unique key (provider, provider_transaction_id), behind a snapshot without the row.
TradeTaken(n, known) == known = "none" /\ callback[n] # "none"

\* The writes of _settle; the request goes on to authorize what it holds.
Settle(c, n, row) ==
  /\ purchase' = IF row.payment = "paid" THEN purchase
                 ELSE [purchase EXCEPT !.status = "paid", !.payment = "paid", !.trade = n]
  /\ attempt' = IF n \in Attempts THEN [attempt EXCEPT ![n] = "paid"] ELSE attempt
  /\ callback' = [callback EXCEPT ![n] = "processed"]
  /\ Goto(c, [at |-> "settled", authorized |-> row.authorized])
  /\ UNCHANGED <<overdue, granted, trade, crashes>>

\* What the provider may say of a trade, any number of times and late.
Notifiable(n, status) ==
  /\ status \in NoticeStatuses
  /\ trade[n] # "none"
  /\ status = "waiting" \/ status = trade[n]

SettleNotice(c, n, status) ==
  /\ request[c] = Idle
  /\ Notifiable(n, status)
  /\ Accepted(n, status, purchase, callback[n])
  /\ Settle(c, n, purchase)

\* A verified notice that is not accepted is recorded under its trade_no.
RecordFailure(c, n, status) ==
  /\ request[c] = Idle
  /\ Notifiable(n, status)
  /\ ~Accepted(n, status, purchase, callback[n])
  /\ callback' = [callback EXCEPT ![n] = IF @ = "none" THEN "failed" ELSE @]
  /\ UNCHANGED <<purchase, attempt, overdue, granted, trade, request, crashes>>

QueryLoad(c) ==
  /\ request[c] = Idle
  /\ Goto(c, [at |-> "query", row |-> purchase, known |-> callback])
  /\ UNCHANGED <<purchase, attempt, overdue, callback, granted, trade, crashes>>

\* The payment number a query asks the provider about, if it asks at all.
Asked(row) ==
  CASE row.current = None -> row.payment_no
    [] row.current # None /\ Expired(row.current) = "pending" -> row.current
    [] OTHER -> None

\* A purchase loaded as paid is authorized at once.
QueryPaid(c) ==
  LET r == request[c] IN
  /\ r.at = "query" /\ r.row.payment = "paid"
  /\ Goto(c, [at |-> "settled", authorized |-> r.row.authorized])
  /\ UNCHANGED <<purchase, attempt, overdue, callback, granted, trade, crashes>>

QuerySettle(c) ==
  LET r == request[c]
      n == Asked(r.row) IN
  /\ r.at = "query" /\ r.row.payment # "paid" /\ n # None
  /\ Accepted(n, trade[n], r.row, r.known[n]) /\ ~TradeTaken(n, r.known[n])
  /\ Settle(c, n, r.row)

\* Not paid: the attempt is expired, or closed if the provider closed its trade.
QueryReturn(c) ==
  LET r == request[c]
      a == r.row.current IN
  /\ r.at = "query" /\ r.row.payment # "paid"
  /\ Goto(c, Idle)
  /\ \/ Asked(r.row) # None /\ UNCHANGED attempt
     \/ Asked(r.row) # None /\ Asked(r.row) = a /\ trade[a] = "closed"
        /\ attempt' = [attempt EXCEPT ![a] = "closed"]
     \/ Asked(r.row) = None
        /\ attempt' = [b \in Attempts |-> IF b = a THEN Expired(b) ELSE attempt[b]]
  /\ UNCHANGED <<purchase, overdue, callback, granted, trade, crashes>>

\* An administrator retries the authorization of a purchase loaded as paid.
RetryLoad(c) ==
  /\ request[c] = Idle
  /\ purchase.payment = "paid" /\ ~purchase.authorized
  /\ Goto(c, [at |-> "settled", authorized |-> FALSE])
  /\ UNCHANGED <<purchase, attempt, overdue, callback, granted, trade, crashes>>

\* Mutant of Ungranted: memberships and periods have no unique key of the purchase.
NeverGranted == TRUE

\* The unique keys (granted_by, purchase id) and membership_purchase_id.
Ungranted == granted.memberships = 0 /\ granted.periods = 0

\* authorize_paid_purchase; only the authorization the session loaded is looked at.
Authorize(c) ==
  LET r == request[c] IN
  /\ r.at = "settled" /\ ~r.authorized /\ Ungranted
  /\ granted' = [memberships |-> granted.memberships + 1, periods |-> granted.periods + 1,
                 events |-> granted.events + 1]
  /\ purchase' = [purchase EXCEPT !.authorized = TRUE]
  /\ Goto(c, Idle)
  /\ UNCHANGED <<attempt, overdue, callback, trade, crashes>>

\* Authorized before, or a unique key is violated and all is rolled back.
AuthorizeReturn(c) ==
  LET r == request[c] IN
  /\ r.at = "settled" /\ (r.authorized \/ ~Ungranted)
  /\ Goto(c, Idle)
  /\ UNCHANGED <<purchase, attempt, overdue, callback, granted, trade, crashes>>

\* The process ends between two transactions of a request.
Crash(c) ==
  /\ request[c] # Idle /\ crashes < MaxCrashes
  /\ crashes' = crashes + 1
  /\ Goto(c, Idle)
  /\ UNCHANGED <<purchase, attempt, overdue, callback, granted, trade>>

(***************************************************************************)
(* The specification                                                       *)
(***************************************************************************)

BuyerStep ==
  \E c \in Requests :
    \/ \E k \in Keys : CheckoutLoad(c, k)
    \/ CheckoutBind(c) \/ CheckoutReturn(c)
    \/ QueryLoad(c) \/ QueryPaid(c) \/ QuerySettle(c) \/ QueryReturn(c)
    \/ RetryLoad(c)

QrStep == ExpireQr \/ \E a \in Attempts : CreateQr(a) \/ RefreshQr(a) \/ Elapse(a)

ProviderStep ==
  \E n \in Numbers :
    \/ EndTrade(n)
    \/ \E c \in Callbacks, status \in NoticeStatuses :
         SettleNotice(c, n, status) \/ RecordFailure(c, n, status)

RequestStep == \E c \in Connections : Authorize(c) \/ AuthorizeReturn(c) \/ Crash(c)

Next == BuyerStep \/ QrStep \/ ProviderStep \/ RequestStep

Spec == Init /\ [][Next]_vars

\* The provider repeats the notice of a paid trade until it is answered with
\* success, and a request that was settled goes on to authorize.
FairSpec ==
  /\ Spec
  /\ \A n \in Numbers, c \in Callbacks : WF_vars(SettleNotice(c, n, "success"))
  /\ \A c \in Connections : WF_vars(Authorize(c) \/ AuthorizeReturn(c))

(***************************************************************************)
(* Properties                                                              *)
(***************************************************************************)

\* However notices, queries and retries of one purchase overlap, it grants one
\* membership, one quota period and one membership.entitlement_updated event.
AuthorizedOnce ==
  LET once == IF purchase.authorized THEN 1 ELSE 0 IN
  granted = [memberships |-> once, periods |-> once, events |-> once]

\* A purchase is paid, and authorized, only behind a trade the provider reports
\* as successful and whose notice or answer was processed.
PaymentIsReal ==
  /\ purchase.authorized => purchase.status = "paid"
  /\ purchase.status = "paid" =>
       \E n \in Numbers : trade[n] = "success" /\ callback[n] = "processed"

\* What the purchase grants is granted once and was paid for.
PurchaseIsSound == AuthorizedOnce /\ PaymentIsReal

\* At most one QR code of the purchase can be paid: the current one.
OneOpenAttempt == \A a \in Attempts : attempt[a] = "pending" => purchase.current = a

\* An attempt leaves its pending state once and for good: notices, queries and
\* expiry may race, but an attempt that expired or closed is never paid, and
\* a paid one never expires.
AttemptIsFinal ==
  [][\A a \in Attempts : attempt[a] \in {"paid", "expired", "closed"} => attempt'[a] = attempt[a]]_attempt

\* A paid purchase is authorized in the end, whatever crashed in between.
PaidIsAuthorized == purchase.payment = "paid" ~> purchase.authorized

\* The attempts of a purchase follow one another, each ends once, and what was
\* paid is authorized.
PurchaseSettles == []OneOpenAttempt /\ AttemptIsFinal /\ PaidIsAuthorized
==============================================================================
