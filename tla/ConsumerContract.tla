-------------------------- MODULE ConsumerContract --------------------------
(***************************************************************************)
(* What the event backbone promises to the rest of the program: a business *)
(* transaction emits an event once, and each consumer applies the effect   *)
(* of an emitted event at most once, whatever the publisher, the broker    *)
(* and the worker processes go through in between                          *)
(* (events/publisher.py:89-93, events/consumer.py:67-72).                  *)
(***************************************************************************)
EXTENDS Integers

CONSTANTS
  Events,     \* event_id values
  Consumers   \* consumer names

VARIABLES
  emitted,    \* events a business transaction has committed
  applied     \* per consumer and event, how often the effect was committed

contractVars == <<emitted, applied>>

ContractInit ==
  /\ emitted = {}
  /\ applied = [k \in Consumers \X Events |-> 0]

EmitEvent(e) ==
  /\ e \notin emitted
  /\ emitted' = emitted \cup {e}
  /\ UNCHANGED applied

ApplyEffect(c, e) ==
  /\ e \in emitted
  /\ applied[<<c, e>>] = 0
  /\ applied' = [applied EXCEPT ![<<c, e>>] = 1]
  /\ UNCHANGED emitted

ContractNext ==
  \E e \in Events : EmitEvent(e) \/ \E c \in Consumers : ApplyEffect(c, e)

Contract == ContractInit /\ [][ContractNext]_contractVars
=============================================================================
