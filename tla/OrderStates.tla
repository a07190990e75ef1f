----------------------------- MODULE OrderStates -----------------------------
(***************************************************************************)
(* The three status columns of travel_orders, the combinations the code    *)
(* gives them and OrderStateService._allowed.  Source: orders/services.py, *)
(* orders/models.py.                                                       *)
(***************************************************************************)
EXTENDS Integers

\* The values the check constraints of each column admit.
OrderColumns ==
  {"PENDING_CONFIRMATION", "PAYING", "PAID_PENDING_FULFILLMENT", "CONFIRMED", "FAILED",
   "TICKET_FAILED_AWAITING_REFUND", "REFUNDING", "REFUNDED", "CLOSED"}
  \X {"pending", "paying", "paid", "failed", "refunding", "refunded"}
  \X {"pending_confirmation", "confirming", "confirmed", "failed", "not_supported"}

Pending         == <<"PENDING_CONFIRMATION", "pending", "pending_confirmation">>
Paying          == <<"PAYING", "paying", "pending_confirmation">>
\* Mutant of Paid: a first column its check constraint does not know.
PaidUnknown     == <<"PAID", "paid", "pending_confirmation">>

Paid            == <<"PAID_PENDING_FULFILLMENT", "paid", "pending_confirmation">>
Confirming      == <<"PAID_PENDING_FULFILLMENT", "paid", "confirming">>
Confirmed       == <<"CONFIRMED", "paid", "confirmed">>
Failed          == <<"FAILED", "failed", "failed">>
Unsupported     == <<"FAILED", "failed", "not_supported">>
TicketFailed    == <<"TICKET_FAILED_AWAITING_REFUND", "paid", "failed">>
Refunding       == <<"REFUNDING", "refunding", "pending_confirmation">>
RefundingFailed == <<"REFUNDING", "refunding", "failed">>
Refunded        == <<"REFUNDED", "refunded", "not_supported">>
RefundedFailed  == <<"REFUNDED", "refunded", "failed">>

Allowed ==
       {Pending} \X {Paying, Unsupported}
  \cup {Paying} \X {Paid, Unsupported}
  \cup {Paid} \X {Confirming, Confirmed, Refunding, Failed, TicketFailed}
  \cup {Confirming} \X {Paid, Confirmed, Failed, TicketFailed}
  \cup {TicketFailed} \X {RefundingFailed}
  \cup {RefundingFailed} \X {RefundedFailed, TicketFailed}
  \cup {Refunding} \X {Refunded, Failed}

CanMove(current, target) == <<current, target>> \in Allowed

\* A flush writes the columns that differ from the values the session loaded.
Flushed(current, loaded, target) == IF target # loaded THEN target ELSE current

FlushOrder(current, loaded, target) ==
  <<Flushed(current[1], loaded[1], target[1]),
    Flushed(current[2], loaded[2], target[2]),
    Flushed(current[3], loaded[3], target[3])>>
==============================================================================
