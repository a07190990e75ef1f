------------------------- MODULE MembershipPeriods -------------------------
(***************************************************************************)
(* The memberships of one user as periods of days, granted by an           *)
(* administrator or paid for.                                              *)
(* Sources: memberships/service.py, memberships/models.py,                 *)
(* membership_purchases/service.py.                                        *)
(*                                                                         *)
(* A paid period begins at once and pushes back the periods that have not  *)
(* begun, with their entitlements and quota.  The user row is locked for   *)
(* that, but a query or a retry has read the purchase before: its          *)
(* transaction then sees the periods of that earlier moment.  How a        *)
(* purchase comes to be paid is in MembershipPurchase.                     *)
(***************************************************************************)
EXTENDS Integers, FiniteSets, Sequences, SequencesExt

CONSTANTS
  Purchases, \* ids of membership_purchases
  Queued,    \* those of a former release, whose period begins tomorrow
  Retried,   \* those that a query or a retry authorizes, maybe beside a notice
  GrantKeys, \* idempotency keys of the administrator's grants
  MaxToday,  \* bound: days that go by
  MaxDays,   \* bound: duration of a plan
  Unset      \* no row, or nothing read

VARIABLES
  today,
  offer,   \* membership_plans
  bought,  \* bought[p]: duration_days of a purchase
  periods, \* user_memberships with entitlements and quota, by idempotency_key
  views    \* views[p]: the periods as a query or retry of p sees them

periodVars == <<today, offer, bought, periods, views>>

Durations == 1..MaxDays

\* Unique (granted_by, idempotency_key); a purchase grants under its own id.
Ids == Purchases \cup GrantKeys

Windows == [from : Nat, until : Nat]

PeriodRows ==
  [from : Nat, until : Nat, status : {"active", "revoked"},
   rights : Windows, quota : Windows \cup {Unset}]

ASSUME PeriodsAssumption ==
  /\ IsFiniteSet(Purchases) /\ IsFiniteSet(GrantKeys) /\ Purchases \intersect GrantKeys = {}
  /\ Queued \subseteq Purchases /\ Retried \subseteq Purchases
  /\ MaxToday \in Nat /\ MaxDays \in Nat \ {0}
  /\ Unset \notin Nat \cup Windows \cup PeriodRows

Window(from, until) == [from |-> from, until |-> until]

Period(from, days, quota) ==
  [from |-> from, until |-> from + days, status |-> "active",
   rights |-> Window(from, from + days),
   quota |-> IF quota THEN Window(from, from + days) ELSE Unset]

PeriodsInit ==
  /\ today = 0
  /\ offer = [status |-> "draft", purchasable |-> FALSE, days |-> 1]
  /\ bought = [p \in Purchases |-> IF p \in Queued THEN 1 ELSE Unset]
  /\ periods = [x \in Ids |-> IF x \in Queued THEN Period(1, 1, TRUE) ELSE Unset]
  /\ views = [p \in Retried |-> Unset]

----------------------------------------------------------------------------
PublishPlan ==
  /\ offer.status = "draft"
  /\ offer' = [offer EXCEPT !.status = "published", !.purchasable = TRUE]
  /\ UNCHANGED <<today, bought, periods, views>>

Offered == offer.status = "published"

Update(days, purchasable) ==
  /\ purchasable => Offered
  /\ offer' = [offer EXCEPT !.days = days, !.purchasable = purchasable]
  /\ UNCHANGED <<today, bought, periods, views>>

Archive ==
  /\ offer.status \in {"draft", "published"}
  /\ offer' = [offer EXCEPT !.status = "archived", !.purchasable = FALSE]
  /\ UNCHANGED <<today, bought, periods, views>>

Buy(p) ==
  /\ bought[p] = Unset
  /\ Offered /\ offer.purchasable
  /\ bought' = [bought EXCEPT ![p] = offer.days]
  /\ UNCHANGED <<today, offer, periods, views>>

\* Valid from today, or from the day the administrator names.
Grant(k, from) ==
  /\ periods[k] = Unset
  /\ Offered
  /\ periods' = [periods EXCEPT ![k] = Period(from, offer.days, FALSE)]
  /\ UNCHANGED <<today, offer, bought, views>>

EffectivelyActive(period) ==
  period.status = "active" /\ period.from <= today /\ today < period.until

Revoke(x) ==
  /\ periods[x] # Unset
  /\ EffectivelyActive(periods[x])
  /\ periods' = [periods EXCEPT ![x].status = "revoked"]
  /\ UNCHANGED <<today, offer, bought, views>>

----------------------------------------------------------------------------
Future(view) ==
  {x \in Ids : view[x] # Unset /\ view[x].status = "active" /\ view[x].from > today}

\* Orders of valid_from; the database is free where two are equal.
Lines(view) ==
  {line \in SetToSeqs(Future(view)) :
     \A i, j \in DOMAIN line : i < j => view[line[i]].from <= view[line[j]].from}

\* Where each period of the line begins when none may begin before the one
\* ahead of it ends, nor the first before `start`.
Begins(view, line, start) ==
  LET begin[i \in DOMAIN line] ==
        LET ahead == IF i = 1 THEN start
                     ELSE begin[i - 1] + view[line[i - 1]].until - view[line[i - 1]].from
        IN IF ahead > view[line[i]].from THEN ahead ELSE view[line[i]].from
  IN begin

Later(window, shift) == Window(window.from + shift, window.until + shift)

MovedQuotaNever(quota, shift) == quota

MovedQuota(quota, shift) == IF quota = Unset THEN Unset ELSE Later(quota, shift)

\* Rows are written where the period moves, from the rows that were read.
PushedBack(view, line, start) ==
  LET begin == Begins(view, line, start)
      Moved(x) ==
        LET i == CHOOSE n \in DOMAIN line : line[n] = x
            shift == begin[i] - view[x].from
        IN IF shift = 0 THEN periods[x]
           ELSE [periods[x] EXCEPT !.from = view[x].from + shift, !.until = view[x].until + shift,
                                   !.rights = Later(view[x].rights, shift),
                                   !.quota = MovedQuota(view[x].quota, shift)]
  IN [x \in Ids |-> IF x \in Future(view) THEN Moved(x) ELSE periods[x]]

\* A query or a retry reads the paid purchase and keeps that snapshot.
Look(p) ==
  /\ bought[p] # Unset /\ periods[p] = Unset /\ views[p] = Unset
  /\ views' = [views EXCEPT ![p] = periods]
  /\ UNCHANGED <<today, offer, bought, periods>>

Activate(p, view) ==
  /\ bought[p] # Unset /\ periods[p] = Unset
  /\ \E line \in Lines(view) :
       periods' = [PushedBack(view, line, today + bought[p]) EXCEPT
                     ![p] = Period(today, bought[p], TRUE)]

\* A notice authorizes in a transaction of its own, with the user row locked.
AuthorizeFresh(p) == Activate(p, periods) /\ UNCHANGED <<today, offer, bought, views>>

\* The unique key refuses a purchase that was authorized in between.
AuthorizeSeen(p) ==
  /\ views[p] # Unset
  /\ views' = [views EXCEPT ![p] = Unset]
  /\ IF periods[p] = Unset THEN Activate(p, views[p]) ELSE UNCHANGED periods
  /\ UNCHANGED <<today, offer, bought>>

Pass ==
  /\ today < MaxToday
  /\ today' = today + 1
  /\ UNCHANGED <<offer, bought, periods, views>>

PeriodsNext ==
  \/ PublishPlan \/ Archive \/ Pass
  \/ \E days \in Durations, purchasable \in BOOLEAN : Update(days, purchasable)
  \/ \E k \in GrantKeys, from \in 0..MaxToday : Grant(k, from)
  \/ \E x \in Ids : Revoke(x)
  \/ \E p \in Purchases : Buy(p) \/ AuthorizeFresh(p)
  \/ \E p \in Retried : Look(p) \/ AuthorizeSeen(p)

PeriodsSpec == PeriodsInit /\ [][PeriodsNext]_periodVars

----------------------------------------------------------------------------
\* Rows have their columns, and only a published plan is for sale.
PeriodsTypeOK ==
  /\ today \in 0..MaxToday
  /\ offer \in [status : {"draft", "published", "archived"}, purchasable : BOOLEAN, days : Durations]
  /\ bought \in [Purchases -> Durations \cup {Unset}]
  /\ periods \in [Ids -> PeriodRows \cup {Unset}]
  /\ views \in [Retried -> [Ids -> PeriodRows \cup {Unset}] \cup {Unset}]
  /\ offer.purchasable => offer.status = "published"

\* A paid period lasts as long as it was sold for, whatever became of the plan
\* and however often later purchases pushed it back, and the entitlements and
\* the quota always cover exactly the period they belong to.
PaidTimeIsKept ==
  \A x \in Ids : periods[x] # Unset =>
    LET window == Window(periods[x].from, periods[x].until)
    IN /\ periods[x].rights = window
       /\ x \in Purchases => periods[x].quota = window /\ window.until - window.from = bought[x]
=============================================================================
