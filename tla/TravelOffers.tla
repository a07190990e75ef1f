--------------------------- MODULE TravelOffers -----------------------------
(***************************************************************************)
(* Searching transport offers, ordering one, and asking the supplier again *)
(* before its ticket is issued.                                            *)
(* Sources: orders/services.py (SearchService, OrderService,               *)
(* MockTicketService), orders/router.py, orders/models.py,                 *)
(* integrations/mcp/transport.py, workers/domain_handlers.py.              *)
(*                                                                         *)
(* One user.  The supplier's prices and seats change at any time, and it   *)
(* may not answer.  A request to order reads for its key, then the offer,  *)
(* and inserts: requests that repeat a key overlap.  Payment is            *)
(* OrderPayment's, what becomes of a failed ticket OrderFulfillment's.     *)
(***************************************************************************)
EXTENDS Integers, FiniteSets

CONSTANTS
  Searches,   \* idempotency keys of travel_search_jobs
  Journeys,   \* train or flight and class: external_offer_id
  SeatsOnly,  \* journeys for which the supplier only confirms that it has seats
  OrderKeys,  \* idempotency keys of travel_orders
  Clicks,     \* requests to order
  Prices,
  MaxPassengers, \* bound: passengers
  MaxChanges, \* bound: changes of the supplier's offers
  Nobody      \* no row, no request

VARIABLES
  market,  \* what the supplier sells: price and whether seats are left
  changes,
  jobs,    \* travel_search_jobs with their travel_offers
  expired, \* searches whose offers are no longer valid
  orders,  \* travel_orders with their ticket
  clicks   \* requests: what they read, then what they were answered

offerVars == <<market, changes, jobs, expired, orders, clicks>>

Sales == [price : Prices, seats : BOOLEAN]

PartySizes == 1..MaxPassengers

TicketStatuses == {"pending", "issued", "failed"}

JobRows == [party : PartySizes, offers : UNION {[js -> Sales] : js \in SUBSET Journeys}]

OrderRows ==
  [search : Searches, journey : Journeys, price : Prices, party : PartySizes,
   paid : BOOLEAN, ticket : TicketStatuses, sold : Sales \union {Nobody}]

OrderRequests ==
  [phase : {"insert", "answered"}, key : OrderKeys, search : Searches, journey : Journeys, party : PartySizes]

Request(phase, k, s, j, party) == [phase |-> phase, key |-> k, search |-> s, journey |-> j, party |-> party]

ASSUME OffersAssumption ==
  /\ MaxChanges \in Nat
  /\ Nobody \notin JobRows \union OrderRows \union OrderRequests

OffersTypeOK ==
  /\ market \in [Journeys -> Sales] /\ changes \in 0..MaxChanges
  /\ jobs \in [Searches -> JobRows \union {Nobody}]
  /\ expired \subseteq Searches
  /\ orders \in [OrderKeys -> OrderRows \union {Nobody}]
  /\ clicks \in [Clicks -> OrderRequests \union {Nobody}]

OffersInit ==
  /\ market \in [Journeys -> [price : Prices, seats : {TRUE}]] /\ changes = 0
  /\ jobs = [s \in Searches |-> Nobody] /\ expired = {}
  /\ orders = [k \in OrderKeys |-> Nobody] /\ clicks = [c \in Clicks |-> Nobody]

----------------------------------------------------------------------------
Supply(j, sale) ==
  /\ changes < MaxChanges /\ sale # market[j]
  /\ market' = [market EXCEPT ![j] = sale] /\ changes' = changes + 1
  /\ UNCHANGED <<jobs, expired, orders, clicks>>

\* An offer of the supplier's answer, with its price and whether seats are left.
OfferOf(j) == market[j]

\* The supplier's answer: what it sells of the journeys asked for, or nothing
\* when it is not configured, does not answer or answers what is malformed.
Found(js) == [j \in js |-> OfferOf(j)]

\* A repeated key finds its job, whatever is asked this time.
CreateSearch(s, party, js) ==
  /\ jobs[s] = Nobody
  /\ jobs' = [jobs EXCEPT ![s] = [party |-> party, offers |-> Found(js)]]
  /\ UNCHANGED <<market, changes, expired, orders, clicks>>

OffersExpire(s) ==
  /\ jobs[s] # Nobody /\ s \notin expired
  /\ expired' = expired \union {s}
  /\ UNCHANGED <<market, changes, jobs, orders, clicks>>

\* Mutant of BoundTo: a key is answered with its order, whatever the offer.
BoundToAny(k, s, j) == TRUE

BoundTo(k, s, j) == orders[k].search = s /\ orders[k].journey = j

\* Another offer under a key in use is refused; other passengers are not.
OrderAgain(c, k, s, j, party) ==
  /\ clicks[c] = Nobody /\ orders[k] # Nobody /\ BoundTo(k, s, j)
  /\ clicks' = [clicks EXCEPT ![c] = Request("answered", k, s, j, party)]
  /\ UNCHANGED <<market, changes, jobs, expired, orders>>

Orderable(s, j) == jobs[s] # Nobody /\ j \in DOMAIN jobs[s].offers /\ jobs[s].offers[j].seats /\ s \notin expired

\* The passengers of the request are as many as the search was for.
LoadOffer(c, k, s, j, party) ==
  /\ clicks[c] = Nobody /\ orders[k] = Nobody
  /\ Orderable(s, j) /\ party = jobs[s].party
  /\ clicks' = [clicks EXCEPT ![c] = Request("insert", k, s, j, party)]
  /\ UNCHANGED <<market, changes, jobs, expired, orders>>

\* The order takes the price of the offer and the passengers of the request.
NewOrder(s, j, party) ==
  [search |-> s, journey |-> j, price |-> jobs[s].offers[j].price, party |-> party,
   paid |-> FALSE, ticket |-> "pending", sold |-> Nobody]

\* uq_travel_orders_user_key: of two inserts the second fails, and its request.
InsertOrder(c) ==
  /\ clicks[c] # Nobody /\ clicks[c].phase = "insert"
  /\ LET k == clicks[c].key IN
     IF orders[k] = Nobody
     THEN /\ orders' = [orders EXCEPT ![k] = NewOrder(clicks[c].search, clicks[c].journey, clicks[c].party)]
          /\ clicks' = [clicks EXCEPT ![c].phase = "answered"]
     ELSE clicks' = [clicks EXCEPT ![c] = Nobody] /\ UNCHANGED orders
  /\ UNCHANGED <<market, changes, jobs, expired>>

----------------------------------------------------------------------------
\* OrderPayment: a verified payment.
PayOrder(k) ==
  /\ orders[k] # Nobody /\ ~orders[k].paid
  /\ orders' = [orders EXCEPT ![k].paid = TRUE]
  /\ UNCHANGED <<market, changes, jobs, expired, clicks>>

\* What the supplier answers of the journey, as far as it says.
Current(k) ==
  LET sale == OfferOf(orders[k].journey)
  IN IF orders[k].journey \in SeatsOnly THEN [sale EXCEPT !.price = orders[k].price] ELSE sale

SameOffer(k) == Current(k).seats /\ Current(k).price = orders[k].price

TicketDue(k) == orders[k] # Nobody /\ orders[k].paid /\ orders[k].ticket = "pending"

\* That only seats are told of, and there are none, is taken for no answer.
Told(k) == orders[k].journey \in SeatsOnly => market[orders[k].journey].seats

\* Worker: the locks are held while the supplier is asked.  When it does not
\* answer, nothing changes and the event is delivered again.
IssuePaidTicket(k) ==
  /\ TicketDue(k) /\ Told(k)
  /\ orders' = IF SameOffer(k)
               THEN [orders EXCEPT ![k].ticket = "issued", ![k].sold = market[orders[k].journey]]
               ELSE [orders EXCEPT ![k].ticket = "failed"]
  /\ UNCHANGED <<market, changes, jobs, expired, clicks>>

\* The offer is as it was, but the issuer refuses.
IssuerRefuses(k) ==
  /\ TicketDue(k) /\ SameOffer(k)
  /\ orders' = [orders EXCEPT ![k].ticket = "failed"]
  /\ UNCHANGED <<market, changes, jobs, expired, clicks>>

OffersNext ==
  \/ \E j \in Journeys, sale \in Sales : Supply(j, sale)
  \/ \E s \in Searches, n \in PartySizes, js \in SUBSET Journeys : CreateSearch(s, n, js)
  \/ \E s \in Searches : OffersExpire(s)
  \/ \E c \in Clicks, k \in OrderKeys, s \in Searches, j \in Journeys, n \in PartySizes :
       OrderAgain(c, k, s, j, n) \/ LoadOffer(c, k, s, j, n)
  \/ \E c \in Clicks : InsertOrder(c)
  \/ \E k \in OrderKeys : PayOrder(k) \/ IssuePaidTicket(k) \/ IssuerRefuses(k)

OffersSpec == OffersInit /\ [][OffersNext]_offerVars

----------------------------------------------------------------------------
\* However requests repeat a key and the supplier's prices move, a request is
\* answered with an order for the offer it named; an order has the price of its
\* offer and as many passengers as the search that found it was for, although
\* they are what some request named; and a ticket is only
\* issued when the supplier, asked after the payment, still had seats at the
\* price that was paid, unless it only tells about seats.
SoldAsOffered ==
  /\ \A c \in Clicks : clicks[c] # Nobody /\ clicks[c].phase = "answered" =>
       orders[clicks[c].key].search = clicks[c].search /\ orders[clicks[c].key].journey = clicks[c].journey
  /\ \A k \in OrderKeys : orders[k] # Nobody =>
       LET r == orders[k] IN
       /\ r.price = jobs[r.search].offers[r.journey].price /\ r.party = jobs[r.search].party
       /\ r.ticket = "issued" =>
            r.paid /\ r.sold.seats /\ (r.journey \in SeatsOnly \/ r.sold.price = r.price)
=============================================================================
