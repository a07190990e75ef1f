--------------------------- MODULE MCEventDelivery ---------------------------
(***************************************************************************)
(* Instances of EventDelivery for TLC: a generation job (one deferred      *)
(* route with a terminal handler), and an event that has an immediate      *)
(* route before the deferred one, as post.hidden and payment_record.paid   *)
(* do.                                                                     *)
(***************************************************************************)
EXTENDS EventDelivery

CONSTANTS requested, payment, generation

RequestedRoutes == [e \in {requested} |-> <<generation>>]

MixedRoutes == [e \in {requested} |-> <<payment, generation>>]
=============================================================================
