------------------------ MODULE OrderFulfillmentProofs ------------------------
(***************************************************************************)
(* For any number of message copies, refund requests, retries, crashes and *)
(* unanswered calls: the types of OrderFulfillment, one booking at most,   *)
(* no issued ticket with returned money, attempt and order in step,        *)
(* refunds that agree with order and money, and the order's transitions.   *)
(***************************************************************************)
EXTENDS OrderFulfillment, TLAPS

(***************************************************************************)
(* The inductive invariant                                                 *)
(***************************************************************************)

\* The states of an order whose refund has been requested; none leads back.
AfterRefund == {Refunding, RefundingFailed, Refunded, RefundedFailed, TicketFailed, Failed}

\* A claim is taken when there is no attempt, and there is one from then on:
\* one delivery at most can be about to call the supplier, before any booking.
ClaimedOnce ==
  /\ attempt = "none" => booked = 0 /\ \A m \in Messages : pc[m] # "claimed"
  /\ \A m \in Messages : pc[m] = "claimed" => booked = 0
  /\ \A m, n \in Messages : pc[m] = "claimed" /\ pc[n] = "claimed" => m = n
  /\ BookOnce

\* An order has a ticket or an attempt, and the order's state follows it.
InStep ==
  /\ order \in {Paid, Confirming, Confirmed} \cup AfterRefund
  /\ ticket = "none" \/ attempt = "none"
  /\ \A m \in Messages : /\ pc[m] = "start" => ticket = "none"
                         /\ pc[m] = "issue" => ticket # "none"
  /\ attempt = "running" <=> order = Confirming
  /\ attempt = "succeeded" => order = Confirmed
  /\ attempt = "queued" => order \in {Paid, Refunding, Refunded, Failed}
  /\ attempt = "failed" => order = Failed
  /\ ticket = "issued" => order = Confirmed

\* Money moves only for a requested refund, and a request closes the order to
\* fulfilment.
RefundCloses ==
  /\ \A k \in RefundKeys : refund[k] # "none" => order \in AfterRefund
  /\ \A m \in RefundMessages : pc[m] \in {"refund", "answered"} => refund[m[1]] # "none"
  /\ \A k \in returned : refund[k] # "none"

IInv == TypeOK /\ ClaimedOnce /\ InStep /\ RefundCloses

(***************************************************************************)
(* Facts about the order's columns                                         *)
(***************************************************************************)

LEMMA NamedOrders ==
  /\ {Paid, Confirming, Confirmed} \cup AfterRefund \subseteq OrderColumns
  /\ Confirming \notin AfterRefund /\ Confirmed \notin AfterRefund /\ Paid \notin AfterRefund
  /\ Paid # Confirming /\ Paid # Confirmed /\ Confirming # Confirmed
  /\ \A o \in {Paid, Confirming, Confirmed} \cup AfterRefund :
       /\ o[3] = "confirming" <=> o = Confirming
       /\ o[1] = "PAID_PENDING_FULFILLMENT" /\ o[2] = "paid" <=> o \in {Paid, Confirming}
       /\ o[3] = "failed" <=> o \in {RefundingFailed, RefundedFailed, TicketFailed, Failed}
  BY DEF Paid, Confirming, Confirmed, AfterRefund, Refunding, RefundingFailed, Refunded,
         RefundedFailed, TicketFailed, Failed, OrderColumns

\* What RequestRefund and RecordRefund write.
LEMMA RefundOrders ==
  /\ <<"REFUNDING", "refunding", "failed">> = RefundingFailed
  /\ <<"REFUNDING", "refunding", "pending_confirmation">> = Refunding
  /\ <<"REFUNDED", "refunded", "failed">> = RefundedFailed
  /\ <<"REFUNDED", "refunded", "not_supported">> = Refunded
  BY DEF Refunding, RefundingFailed, Refunded, RefundedFailed

LEMMA OutcomeAfterRefund ==
  ASSUME NEW m \in RefundMessages, IInv
  PROVE  Outcome(m) \in {RefundedFailed, Refunded, TicketFailed, Failed}
  BY RefundOrders DEF Outcome

\* The columns of the invariant in terms of the order's named states.
LEMMA Reading ==
  ASSUME InStep
  PROVE  /\ AwaitsFulfillment <=> order \in {Paid, Confirming}
         /\ order[3] = "confirming" <=> order = Confirming
  BY NamedOrders DEF InStep, AwaitsFulfillment

(***************************************************************************)
(* Types                                                                   *)
(***************************************************************************)

LEMMA RefundKey == \A m \in RefundMessages : m \in Messages /\ m[1] \in RefundKeys
  BY FulfillmentAssumption DEF RefundMessages, Messages

LEMMA InitTyped == Init => TypeOK
<1> SUFFICES ASSUME Init PROVE TypeOK
  OBVIOUS
<1>1. order \in OrderColumns /\ ticket \in {"none", "pending"}
  BY NamedOrders DEF Init
<1>2. denied \subseteq RefundKeys \X BOOLEAN /\ overlapped \in BOOLEAN
  BY DEF Init
<1>3. QED
  BY <1>1, <1>2 DEF Init, TypeOK

\* Steps of the payment message that write at most order, ticket and attempt.
LEMMA PaidStepTyped ==
  ASSUME TypeOK, NEW m \in Messages, PaidStep(m)
  PROVE  TypeOK'
<1> USE DEF TypeOK, Goto, Note, Raise, orderVars, refundVars, worldVars, taskVars, faultVars
<1>1. CASE LoadTicket(m)
  BY <1>1 DEF LoadTicket
<1>2. CASE IssueTicket(m)
  BY <1>2, NamedOrders DEF IssueTicket, AfterRefund
<1>3. CASE TicketNotDue(m) \/ SkipAttempt(m)
  BY <1>3 DEF TicketNotDue, SkipAttempt
<1>4. CASE ValidationSilent(m)
  BY <1>4, FulfillmentAssumption DEF ValidationSilent
<1>5. CASE ClaimAttempt(m)
  BY <1>5, NamedOrders DEF ClaimAttempt
<1>6. CASE ResumeRaises(m)
  BY <1>6 DEF ResumeRaises
<1>7. CASE AskSupplier(m)
  BY <1>7 DEF AskSupplier
<1>8. CASE SupplierSilent(m)
  BY <1>8 DEF SupplierSilent
<1>9. CASE Complete(m)
  BY <1>9, NamedOrders DEF Complete, AfterRefund
<1>10. CASE ReleaseClaim(m)
  BY <1>10, NamedOrders DEF ReleaseClaim, ReleasedAttempt
<1>11. QED
  BY <1>1, <1>2, <1>3, <1>4, <1>5, <1>6, <1>7, <1>8, <1>9, <1>10 DEF PaidStep

LEMMA RefundStepTyped ==
  ASSUME TypeOK, NEW m \in Messages, RefundStep(m)
  PROVE  TypeOK'
<1> USE DEF TypeOK, Goto, Note, Raise, orderVars, refundVars, worldVars, taskVars, faultVars
<1>0. m \in RefundMessages => m[1] \in RefundKeys
  BY RefundKey
<1>1. CASE BeginRefund(m)
  BY <1>0, <1>1 DEF BeginRefund
<1>2. CASE AskProvider(m)
  <2>1. \E answer \in {"Y", "N"} : Note(m, answer)
    BY <1>2 DEF AskProvider
  <2>2. returned' \subseteq RefundKeys /\ denied' \subseteq RefundKeys \X BOOLEAN
    <3>1. returned' \subseteq RefundKeys
      BY <1>0, <1>2 DEF AskProvider
    <3>2. (m[1] \in returned) \in BOOLEAN
      OBVIOUS
    <3>3. <<m[1], m[1] \in returned>> \in RefundKeys \X BOOLEAN
      BY <1>0, <1>2, <3>2 DEF AskProvider
    <3>4. denied' \subseteq denied \cup {<<m[1], m[1] \in returned>>}
      BY <1>2 DEF AskProvider
    <3>5. QED
      BY <3>1, <3>3, <3>4
  <2>3. QED
    BY <1>2, <2>1, <2>2 DEF AskProvider
<1>3. CASE ProviderSilent(m)
  BY <1>0, <1>3 DEF ProviderSilent
<1>4. CASE RecordRefund(m)
  <2>1. CASE Overwrites(m) \/ CanMove(order, Outcome(m))
    <3>1. order' = Outcome(m) /\ m \in RefundMessages
      BY <1>4, <2>1 DEF RecordRefund
    <3>2. Outcome(m) \in {RefundedFailed, Refunded, TicketFailed, Failed}
      BY RefundOrders DEF Outcome
    <3>3. order' \in OrderColumns
      BY <3>1, <3>2, NamedOrders DEF AfterRefund
    <3>4. QED
      BY <1>0, <1>4, <2>1, <3>3 DEF RecordRefund
  <2>2. CASE ~(Overwrites(m) \/ CanMove(order, Outcome(m)))
    BY <1>4, <2>2 DEF RecordRefund
  <2>3. QED
    BY <2>1, <2>2
<1>5. QED
  BY <1>1, <1>2, <1>3, <1>4 DEF RefundStep

LEMMA StepTyped == TypeOK /\ [Next]_vars => TypeOK'
<1> SUFFICES ASSUME TypeOK, [Next]_vars PROVE TypeOK'
  OBVIOUS
<1>1. ASSUME NEW m \in Messages, TaskStep(m) PROVE TypeOK'
  BY <1>1, PaidStepTyped, RefundStepTyped DEF TaskStep
<1>2. ASSUME NEW m \in Messages, Crash(m) PROVE TypeOK'
  BY <1>2 DEF Crash, Goto, TypeOK, orderVars, refundVars, worldVars, taskVars, faultVars
<1>3. ASSUME NEW k \in RefundKeys, RequestRefund(k) PROVE TypeOK'
  <2>1. order' \in {Refunding, RefundingFailed}
    BY <1>3, RefundOrders DEF RequestRefund
  <2>2. order' \in OrderColumns
    BY <2>1, NamedOrders DEF AfterRefund
  <2>3. QED
    BY <1>3, <2>2 DEF RequestRefund, TypeOK, worldVars, taskVars, faultVars
<1>4. ASSUME UNCHANGED vars PROVE TypeOK'
  BY <1>4 DEF vars, TypeOK, orderVars, refundVars, worldVars, taskVars, faultVars
<1>5. QED
  BY <1>1, <1>2, <1>3, <1>4 DEF Next

\* Every variable of the fulfilment keeps its type.
THEOREM TypeCorrect == Spec => []TypeOK
  BY InitTyped, StepTyped, PTL DEF Spec

(***************************************************************************)
(* One booking                                                             *)
(***************************************************************************)

\* A step that takes no claim and books nothing.
LEMMA NoNewClaim ==
  ASSUME ClaimedOnce, booked' = booked,
         attempt = "none" <=> attempt' = "none",
         \A m \in Messages : pc'[m] = "claimed" => pc[m] = "claimed"
  PROVE  ClaimedOnce'
  BY DEF ClaimedOnce, BookOnce

\* Where a step sends one message, when it is not to a claim.
LEMMA GotoElsewhere ==
  ASSUME TypeOK, NEW m \in Messages, NEW label, Goto(m, label), label # "claimed"
  PROVE  /\ pc'[m] = label
         /\ \A n \in Messages : n # m => pc'[n] = pc[n]
         /\ \A n \in Messages : pc'[n] = "claimed" => pc[n] = "claimed"
  BY DEF TypeOK, Goto

LEMMA RaiseElsewhere ==
  ASSUME TypeOK, NEW m \in Messages, Raise(m)
  PROVE  /\ pc'[m] \in {"ready", "dead"}
         /\ \A n \in Messages : n # m => pc'[n] = pc[n]
         /\ \A n \in Messages : pc'[n] = "claimed" => pc[n] = "claimed"
  BY DEF TypeOK, Raise, Goto

\* The supplier is called from the claim, which is given up by it.
LEMMA CallClaimed ==
  ASSUME TypeOK, ClaimedOnce, NEW m \in Messages, NEW label, pc[m] = "claimed",
         Goto(m, label), label # "claimed", booked' \in {booked, booked + 1},
         attempt' = attempt
  PROVE  ClaimedOnce'
<1>1. booked = 0 /\ attempt # "none"
  BY DEF ClaimedOnce
<1>2. \A n \in Messages : pc'[n] # "claimed"
  BY GotoElsewhere DEF ClaimedOnce
<1>3. QED
  BY <1>1, <1>2 DEF ClaimedOnce, BookOnce

LEMMA PaidStepClaimed ==
  ASSUME IInv, NEW m \in Messages, PaidStep(m)
  PROVE  ClaimedOnce'
<1> USE DEF orderVars, refundVars, worldVars, taskVars, faultVars
<1>a. TypeOK /\ ClaimedOnce
  BY DEF IInv
<1>1. CASE LoadTicket(m)
  <2>1. Goto(m, "start") \/ Goto(m, "issue")
    BY <1>1 DEF LoadTicket
  <2>2. \A n \in Messages : pc'[n] = "claimed" => pc[n] = "claimed"
    BY <1>a, <2>1, GotoElsewhere
  <2>3. QED
    BY <1>a, <1>1, <2>2, NoNewClaim DEF LoadTicket
<1>2. CASE IssueTicket(m)
  BY <1>a, <1>2, GotoElsewhere, NoNewClaim DEF IssueTicket
<1>3. CASE TicketNotDue(m) \/ SkipAttempt(m)
  BY <1>a, <1>3, GotoElsewhere, NoNewClaim DEF TicketNotDue, SkipAttempt
<1>4. CASE ValidationSilent(m)
  BY <1>a, <1>4, RaiseElsewhere, NoNewClaim DEF ValidationSilent
<1>5. CASE ClaimAttempt(m)
  <2>1. attempt = "none" /\ attempt' = "running" /\ booked' = booked
    BY <1>5 DEF ClaimAttempt, OfferBound
  <2>2. booked = 0 /\ \A n \in Messages : pc[n] # "claimed"
    BY <1>a, <2>1 DEF ClaimedOnce
  <2>3. pc' = [pc EXCEPT ![m] = "claimed"]
    BY <1>5 DEF ClaimAttempt, Goto
  <2>4. \A n \in Messages : pc'[n] = "claimed" => n = m
    BY <1>a, <2>2, <2>3 DEF TypeOK
  <2>5. QED
    BY <2>1, <2>2, <2>4 DEF ClaimedOnce, BookOnce
<1>6. CASE ResumeRaises(m)
  BY <1>a, <1>6, RaiseElsewhere, NoNewClaim DEF ResumeRaises
<1>7. CASE AskSupplier(m)
  BY <1>a, <1>7, CallClaimed DEF AskSupplier
<1>8. CASE SupplierSilent(m)
  BY <1>a, <1>8, CallClaimed DEF SupplierSilent
<1>9. CASE Complete(m)
  <2>1. attempt = "none" <=> attempt' = "none"
    BY <1>9 DEF Complete
  <2>2. \A n \in Messages : pc'[n] = "claimed" => pc[n] = "claimed"
    BY <1>a, <1>9, GotoElsewhere DEF Complete
  <2>3. QED
    BY <1>a, <1>9, <2>1, <2>2, NoNewClaim DEF Complete
<1>10. CASE ReleaseClaim(m)
  <2>1. attempt = "none" <=> attempt' = "none"
    BY <1>10 DEF ReleaseClaim, ReleasedAttempt
  <2>2. \A n \in Messages : pc'[n] = "claimed" => pc[n] = "claimed"
    BY <1>a, <1>10, RaiseElsewhere DEF ReleaseClaim
  <2>3. QED
    BY <1>a, <1>10, <2>1, <2>2, NoNewClaim DEF ReleaseClaim
<1>11. QED
  BY <1>1, <1>2, <1>3, <1>4, <1>5, <1>6, <1>7, <1>8, <1>9, <1>10 DEF PaidStep

\* No step of a refund message leads to a claim or touches what claims are about.
LEMMA RefundStepFrame ==
  ASSUME TypeOK, NEW m \in Messages, RefundStep(m)
  PROVE  /\ m \in RefundMessages
         /\ UNCHANGED <<ticket, attempt, booked>>
         /\ pc'[m] \in {"refund", "answered", "done", "ready", "dead"}
         /\ \A n \in Messages : n # m => pc'[n] = pc[n]
<1> USE DEF orderVars, refundVars, worldVars, taskVars, faultVars
<1>1. CASE BeginRefund(m)
  <2>1. Goto(m, "done") \/ Goto(m, "refund")
    BY <1>1 DEF BeginRefund
  <2>2. QED
    BY <1>1, <2>1, GotoElsewhere DEF BeginRefund
<1>2. CASE AskProvider(m)
  BY <1>2, GotoElsewhere DEF AskProvider
<1>3. CASE ProviderSilent(m)
  BY <1>3, RaiseElsewhere DEF ProviderSilent
<1>4. CASE RecordRefund(m)
  <2>1. Goto(m, "done") \/ Raise(m)
    BY <1>4 DEF RecordRefund
  <2>2. QED
    BY <1>4, <2>1, GotoElsewhere, RaiseElsewhere DEF RecordRefund
<1>5. QED
  BY <1>1, <1>2, <1>3, <1>4 DEF RefundStep

LEMMA StepClaimed == IInv /\ [Next]_vars => ClaimedOnce'
<1> SUFFICES ASSUME IInv, [Next]_vars PROVE ClaimedOnce'
  OBVIOUS
<1> USE DEF orderVars, refundVars, worldVars, taskVars, faultVars
<1>a. TypeOK /\ ClaimedOnce
  BY DEF IInv
<1>1. ASSUME NEW m \in Messages, PaidStep(m) PROVE ClaimedOnce'
  BY <1>1, PaidStepClaimed
<1>2. ASSUME NEW m \in Messages, RefundStep(m) PROVE ClaimedOnce'
  BY <1>a, <1>2, RefundStepFrame, NoNewClaim
<1>3. ASSUME NEW m \in Messages, Crash(m) PROVE ClaimedOnce'
  BY <1>a, <1>3, GotoElsewhere, NoNewClaim DEF Crash
<1>4. ASSUME NEW k \in RefundKeys, RequestRefund(k) PROVE ClaimedOnce'
  BY <1>a, <1>4, NoNewClaim DEF RequestRefund
<1>5. ASSUME UNCHANGED vars PROVE ClaimedOnce'
  BY <1>a, <1>5, NoNewClaim DEF vars
<1>6. QED
  BY <1>1, <1>2, <1>3, <1>4, <1>5 DEF Next, TaskStep

(***************************************************************************)
(* Order, ticket and attempt in step                                       *)
(***************************************************************************)

\* A step that writes neither order, ticket nor attempt and sends no message
\* to a fulfilment label.
LEMMA StillInStep ==
  ASSUME InStep, UNCHANGED <<order, ticket, attempt>>,
         \A n \in Messages : pc'[n] \in {"start", "issue"} => pc'[n] = pc[n]
  PROVE  InStep'
  BY DEF InStep

LEMMA PaidStepInStep ==
  ASSUME IInv, NEW m \in Messages, PaidStep(m)
  PROVE  InStep' /\ (order \in AfterRefund => order' \in AfterRefund)
<1> USE DEF orderVars, refundVars, worldVars, taskVars, faultVars
<1>a. TypeOK /\ InStep
  BY DEF IInv
<1>1. CASE LoadTicket(m)
  <2>1. CASE ticket = "none"
    <3>1. pc' = [pc EXCEPT ![m] = "start"] /\ UNCHANGED <<order, ticket, attempt>>
      BY <1>1, <2>1 DEF LoadTicket, Goto
    <3>2. QED
      BY <1>a, <2>1, <3>1 DEF InStep, TypeOK
  <2>2. CASE ticket # "none"
    <3>1. pc' = [pc EXCEPT ![m] = "issue"] /\ UNCHANGED <<order, ticket, attempt>>
      BY <1>1, <2>2 DEF LoadTicket, Goto
    <3>2. QED
      BY <1>a, <2>2, <3>1 DEF InStep, TypeOK
  <2>3. QED
    BY <2>1, <2>2
<1>2. CASE IssueTicket(m)
  <2>1. order \in {Paid, Confirming} /\ pc[m] = "issue"
    BY <1>a, <1>2, Reading DEF IssueTicket, TicketDue
  <2>2. ticket # "none" /\ attempt = "none"
    BY <1>a, <2>1 DEF InStep
  <2>3. \/ ticket' = "issued" /\ order' = Confirmed
        \/ ticket' = "failed" /\ order' = TicketFailed
    BY <1>2 DEF IssueTicket
  <2>4. attempt' = "none" /\ pc'[m] = "done" /\ \A n \in Messages : n # m => pc'[n] = pc[n]
    BY <1>a, <1>2, <2>2, GotoElsewhere DEF IssueTicket
  <2>5. order' \in {Confirmed} \cup AfterRefund /\ order' # Confirming
    BY <2>3, NamedOrders DEF AfterRefund
  <2>6. order \notin AfterRefund
    BY <2>1, NamedOrders
  <2>7. \A n \in Messages : pc[n] # "start"
    BY <1>a, <2>2 DEF InStep
  <2>8. QED
    BY <2>2, <2>3, <2>4, <2>5, <2>6, <2>7 DEF InStep
<1>3. CASE TicketNotDue(m) \/ SkipAttempt(m)
  BY <1>a, <1>3, GotoElsewhere, StillInStep DEF TicketNotDue, SkipAttempt
<1>4. CASE ValidationSilent(m)
  BY <1>a, <1>4, RaiseElsewhere, StillInStep DEF ValidationSilent
<1>5. CASE ClaimAttempt(m)
  <2>1. order = Paid /\ attempt = "none" /\ pc[m] = "start"
    <3>1. order \in {Paid, Confirming} /\ attempt = "none" /\ pc[m] = "start"
      BY <1>a, <1>5, Reading DEF ClaimAttempt, Startable, OfferBound
    <3>2. QED
      BY <1>a, <3>1 DEF InStep
  <2>2. ticket = "none" /\ ticket' = "none"
    BY <1>a, <1>5, <2>1 DEF InStep, ClaimAttempt
  <2>3. order' = Confirming /\ attempt' = "running"
    BY <1>5 DEF ClaimAttempt
  <2>4. pc' = [pc EXCEPT ![m] = "claimed"]
    BY <1>5 DEF ClaimAttempt, Goto
  <2>5. order \notin AfterRefund
    BY <2>1, NamedOrders
  <2>6. QED
    BY <1>a, <2>2, <2>3, <2>4, <2>5 DEF InStep, TypeOK
<1>6. CASE ResumeRaises(m)
  BY <1>a, <1>6, RaiseElsewhere, StillInStep DEF ResumeRaises
<1>7. CASE AskSupplier(m)
  BY <1>a, <1>7, GotoElsewhere, StillInStep DEF AskSupplier
<1>8. CASE SupplierSilent(m)
  BY <1>a, <1>8, GotoElsewhere, StillInStep DEF SupplierSilent
<1>9. CASE Complete(m)
  <2>1. \A n \in Messages : pc'[n] \in {"start", "issue"} => pc'[n] = pc[n]
    BY <1>a, <1>9, GotoElsewhere DEF Complete
  <2>2. CASE ~(order[3] = "confirming" /\ attempt = "running")
    BY <1>a, <1>9, <2>1, <2>2, StillInStep DEF Complete
  <2>3. CASE order[3] = "confirming" /\ attempt = "running"
    <3>1. order = Confirming /\ ticket = "none" /\ ticket' = "none"
      BY <1>a, <1>9, <2>3 DEF InStep, Complete
    <3>2. \/ order' = Confirmed /\ attempt' = "succeeded"
          \/ order' = Failed /\ attempt' = "failed"
      BY <1>9, <2>3 DEF Complete
    <3>3. order' \in {Confirmed} \cup AfterRefund /\ order' # Confirming /\ order \notin AfterRefund
      BY <3>1, <3>2, NamedOrders DEF AfterRefund
    <3>4. \A n \in Messages : pc[n] # "issue"
      BY <1>a, <3>1 DEF InStep
    <3>5. QED
      BY <2>1, <3>1, <3>2, <3>3, <3>4 DEF InStep
  <2>4. QED
    BY <2>2, <2>3
<1>10. CASE ReleaseClaim(m)
  <2>1. \A n \in Messages : pc'[n] \in {"start", "issue"} => pc'[n] = pc[n]
    BY <1>a, <1>10, RaiseElsewhere DEF ReleaseClaim
  <2>2. CASE order[3] # "confirming"
    BY <1>a, <1>10, <2>1, <2>2, StillInStep DEF ReleaseClaim
  <2>3. CASE order[3] = "confirming"
    <3>1. order = Confirming
      BY <1>a, <2>3, Reading
    <3>2. attempt = "running" /\ ticket = "none" /\ ticket' = "none"
      BY <1>a, <1>10, <3>1 DEF InStep, ReleaseClaim
    <3>3. order' = Paid /\ attempt' = "queued"
      BY <1>10, <2>3, <3>2 DEF ReleaseClaim, ReleasedAttempt
    <3>4. order \notin AfterRefund /\ Paid # Confirming
      BY <3>1, NamedOrders
    <3>5. \A n \in Messages : pc[n] # "issue"
      BY <1>a, <3>2 DEF InStep
    <3>6. QED
      BY <2>1, <3>2, <3>3, <3>4, <3>5 DEF InStep
  <2>4. QED
    BY <2>2, <2>3
<1>11. QED
  BY <1>1, <1>2, <1>3, <1>4, <1>5, <1>6, <1>7, <1>8, <1>9, <1>10 DEF PaidStep

\* An order that a refund moves on is neither confirmed nor being confirmed.
LEMMA ClosedInStep ==
  ASSUME InStep, UNCHANGED <<ticket, attempt>>, order \in {Paid} \cup AfterRefund,
         order' \in AfterRefund,
         attempt = "queued" => order' \in {Refunding, Refunded, Failed},
         attempt = "failed" => order' = Failed,
         \A n \in Messages : pc'[n] \in {"start", "issue"} => pc'[n] = pc[n]
  PROVE  InStep'
<1>1. order # Confirming /\ order # Confirmed /\ order' # Confirming
  BY NamedOrders
<1>2. attempt # "running" /\ attempt # "succeeded" /\ ticket # "issued"
  BY <1>1 DEF InStep
<1>3. QED
  BY <1>1, <1>2 DEF InStep

\* What RecordRefund may do to an order whose refund was requested.
LEMMA RefundMoves ==
  ASSUME NEW o \in AfterRefund, NEW t \in {RefundedFailed, Refunded, TicketFailed, Failed},
         CanMove(o, t) \/ (o[3] # "failed" /\ t = Failed)
  PROVE  \/ o \in {Refunding, Refunded} /\ t \in {Refunded, Failed}
         \/ o = RefundingFailed /\ t \in {RefundedFailed, TicketFailed}
<1>1. CASE o[3] # "failed" /\ t = Failed
  BY <1>1, NamedOrders DEF AfterRefund
<1>2. CASE CanMove(o, t)
  <2> USE DEF Paid, Confirming, Confirmed, Refunding, RefundingFailed, Refunded, RefundedFailed,
              TicketFailed, Failed, Pending, Paying, Unsupported
  <2>1. o # TicketFailed
    BY <1>2 DEF CanMove, Allowed
  <2>2. o # Failed /\ o # RefundedFailed /\ o # Refunded
    BY <1>2 DEF CanMove, Allowed
  <2>3. o = Refunding => t \in {Refunded, Failed}
    BY <1>2 DEF CanMove, Allowed
  <2>4. o = RefundingFailed => t \in {RefundedFailed, TicketFailed}
    BY <1>2 DEF CanMove, Allowed
  <2>5. QED
    BY <2>1, <2>2, <2>3, <2>4 DEF AfterRefund
<1>3. QED
  BY <1>1, <1>2

LEMMA RecordRefundInStep ==
  ASSUME IInv, NEW m \in Messages, RecordRefund(m)
  PROVE  InStep' /\ (order \in AfterRefund => order' \in AfterRefund)
<1>a. TypeOK /\ InStep
  BY DEF IInv
<1>b. UNCHANGED <<ticket, attempt>> /\ \A n \in Messages : pc'[n] \in {"start", "issue"} => pc'[n] = pc[n]
  BY <1>a, RefundStepFrame DEF RefundStep
<1>1. CASE Overwrites(m) \/ CanMove(order, Outcome(m))
  <2>1. order \in AfterRefund
    BY <1>a, RefundKey DEF RecordRefund, IInv, RefundCloses
  <2>2. Outcome(m) \in {RefundedFailed, Refunded, TicketFailed, Failed} /\ order' = Outcome(m)
    BY <1>1, OutcomeAfterRefund DEF RecordRefund
  <2>3. Overwrites(m) => order[3] # "failed" /\ Outcome(m) = Failed
    BY DEF Overwrites, Outcome
  <2>4. \/ order \in {Refunding, Refunded} /\ order' \in {Refunded, Failed}
        \/ order = RefundingFailed /\ order' \in {RefundedFailed, TicketFailed}
    BY <1>1, <2>1, <2>2, <2>3, RefundMoves
  <2>5. order' \in AfterRefund
    BY <2>2 DEF AfterRefund
  <2>6. attempt = "queued" => order' \in {Refunding, Refunded, Failed}
    <3>1. RefundingFailed \notin {Paid, Refunding, Refunded, Failed}
      BY DEF RefundingFailed, Paid, Refunding, Refunded, Failed
    <3>2. QED
      BY <1>a, <2>4, <3>1 DEF InStep
  <2>7. attempt # "failed"
    <3>1. Failed \notin {Refunding, Refunded, RefundingFailed}
      BY DEF RefundingFailed, Refunding, Refunded, Failed
    <3>2. QED
      BY <1>a, <2>4, <3>1 DEF InStep
  <2>8. QED
    BY <1>a, <1>b, <2>1, <2>5, <2>6, <2>7, ClosedInStep
<1>2. CASE ~(Overwrites(m) \/ CanMove(order, Outcome(m)))
  <2>1. order' = order
    BY <1>2 DEF RecordRefund
  <2>2. QED
    BY <1>a, <1>b, <2>1, StillInStep
<1>3. QED
  BY <1>1, <1>2

LEMMA RequestRefundInStep ==
  ASSUME IInv, NEW k \in RefundKeys, RequestRefund(k)
  PROVE  InStep' /\ order' \in AfterRefund
<1> USE DEF worldVars, taskVars, faultVars
<1>1. order \in {Paid, TicketFailed} /\ UNCHANGED <<ticket, attempt, pc>>
  BY DEF RequestRefund, Refundable
<1>2. \/ order = Paid /\ order' = Refunding
      \/ order = TicketFailed /\ order' = RefundingFailed
  BY <1>1, NamedOrders, RefundOrders DEF RequestRefund, AfterRefund
<1>3. TicketFailed \notin {Paid, Refunding, Refunded, Failed} /\ Paid # Failed
  BY DEF TicketFailed, Paid, Refunding, Refunded, Failed
<1>4. attempt = "queued" => order' \in {Refunding, Refunded, Failed}
  BY <1>2, <1>3 DEF IInv, InStep
<1>5. attempt # "failed"
  BY <1>1, <1>3 DEF IInv, InStep
<1>6. order' \in AfterRefund /\ order \in {Paid} \cup AfterRefund
  BY <1>2 DEF AfterRefund
<1>7. QED
  BY <1>1, <1>4, <1>5, <1>6, ClosedInStep DEF IInv

LEMMA StepInStep ==
  IInv /\ [Next]_vars => InStep' /\ (order \in AfterRefund => order' \in AfterRefund)
<1> SUFFICES ASSUME IInv, [Next]_vars
             PROVE  InStep' /\ (order \in AfterRefund => order' \in AfterRefund)
  OBVIOUS
<1> USE DEF orderVars, refundVars, worldVars, taskVars, faultVars
<1>a. TypeOK /\ InStep
  BY DEF IInv
<1>1. ASSUME NEW m \in Messages, PaidStep(m)
      PROVE  InStep' /\ (order \in AfterRefund => order' \in AfterRefund)
  BY <1>1, PaidStepInStep
<1>2. ASSUME NEW m \in Messages, RefundStep(m)
      PROVE  InStep' /\ (order \in AfterRefund => order' \in AfterRefund)
  <2>1. CASE RecordRefund(m)
    BY <2>1, RecordRefundInStep
  <2>2. CASE BeginRefund(m) \/ AskProvider(m) \/ ProviderSilent(m)
    <3>1. order' = order
      BY <2>2 DEF BeginRefund, AskProvider, ProviderSilent
    <3>2. QED
      BY <1>a, <1>2, <3>1, RefundStepFrame, StillInStep
  <2>3. QED
    BY <1>2, <2>1, <2>2 DEF RefundStep
<1>3. ASSUME NEW m \in Messages, Crash(m)
      PROVE  InStep' /\ (order \in AfterRefund => order' \in AfterRefund)
  BY <1>a, <1>3, GotoElsewhere, StillInStep DEF Crash
<1>4. ASSUME NEW k \in RefundKeys, RequestRefund(k)
      PROVE  InStep' /\ (order \in AfterRefund => order' \in AfterRefund)
  BY <1>4, RequestRefundInStep
<1>5. ASSUME UNCHANGED vars
      PROVE  InStep' /\ (order \in AfterRefund => order' \in AfterRefund)
  BY <1>a, <1>5, StillInStep DEF vars
<1>6. QED
  BY <1>1, <1>2, <1>3, <1>4, <1>5 DEF Next, TaskStep

(***************************************************************************)
(* A refund closes the order                                               *)
(***************************************************************************)

\* A step that requests no refund and moves no money for an unknown one.
LEMMA StillCloses ==
  ASSUME RefundCloses, order \in AfterRefund => order' \in AfterRefund,
         \A k \in RefundKeys : refund'[k] = "none" <=> refund[k] = "none",
         \A m \in RefundMessages : pc'[m] \in {"refund", "answered"} => refund[m[1]] # "none",
         \A k \in returned' : k \in RefundKeys /\ refund[k] # "none"
  PROVE  RefundCloses'
  BY RefundKey DEF RefundCloses

LEMMA StepCloses == IInv /\ [Next]_vars => RefundCloses'
<1> SUFFICES ASSUME IInv, [Next]_vars PROVE RefundCloses'
  OBVIOUS
<1> USE DEF orderVars, refundVars, worldVars, taskVars, faultVars
<1>a. TypeOK /\ RefundCloses /\ (order \in AfterRefund => order' \in AfterRefund)
  BY StepInStep DEF IInv
<1>b. \A k \in returned : k \in RefundKeys /\ refund[k] # "none"
  BY <1>a DEF TypeOK, RefundCloses
<1>c. \A m \in RefundMessages : m[1] \in RefundKeys /\ m \in Messages
  BY RefundKey
<1>1. ASSUME NEW m \in Messages, PaidStep(m) PROVE RefundCloses'
  <2>1. m \in PaidMessages /\ UNCHANGED <<refund, returned>>
    BY <1>1 DEF PaidStep, LoadTicket, IssueTicket, TicketNotDue, ValidationSilent, ClaimAttempt,
                ResumeRaises, SkipAttempt, AskSupplier, SupplierSilent, Complete, ReleaseClaim
  <2>2. \E label : pc' = [pc EXCEPT ![m] = label]
    BY <1>1 DEF PaidStep, LoadTicket, IssueTicket, TicketNotDue, ValidationSilent, ClaimAttempt,
                ResumeRaises, SkipAttempt, AskSupplier, SupplierSilent, Complete, ReleaseClaim,
                Goto, Raise
  <2>3. \A n \in RefundMessages : pc'[n] = pc[n]
    BY <1>a, <1>c, <2>1, <2>2, FulfillmentAssumption DEF TypeOK
  <2>4. QED
    BY <1>a, <1>b, <2>1, <2>3, StillCloses DEF RefundCloses
<1>2. ASSUME NEW m \in Messages, RefundStep(m) PROVE RefundCloses'
  <2>1. m \in RefundMessages /\ m[1] \in RefundKeys
    BY <1>a, <1>2, <1>c, RefundStepFrame
  <2>2. \A n \in Messages : n # m => pc'[n] = pc[n]
    BY <1>a, <1>2, RefundStepFrame
  <2>3. refund[m[1]] # "none"
    BY <1>a, <1>2, <2>1 DEF RefundStep, BeginRefund, AskProvider, ProviderSilent, RecordRefund, RefundCloses
  <2>4. \A n \in RefundMessages : pc'[n] \in {"refund", "answered"} => refund[n[1]] # "none"
    BY <1>a, <1>c, <2>2, <2>3 DEF RefundCloses
  <2>5. \A k \in RefundKeys : refund'[k] = "none" <=> refund[k] = "none"
    BY <1>a, <1>2, <2>1, <2>3 DEF RefundStep, BeginRefund, AskProvider, ProviderSilent, RecordRefund, TypeOK
  <2>6. returned' \subseteq returned \cup {m[1]}
    BY <1>2 DEF RefundStep, BeginRefund, AskProvider, ProviderSilent, RecordRefund
  <2>7. QED
    BY <1>a, <1>b, <2>1, <2>3, <2>4, <2>5, <2>6, StillCloses
<1>3. ASSUME NEW m \in Messages, Crash(m) PROVE RefundCloses'
  <2>1. pc' = [pc EXCEPT ![m] = "ready"] /\ UNCHANGED <<order, refund, returned>>
    BY <1>3 DEF Crash, Goto
  <2>2. \A n \in RefundMessages : pc'[n] \in {"refund", "answered"} => refund[n[1]] # "none"
    BY <1>a, <1>c, <2>1 DEF TypeOK, RefundCloses
  <2>3. QED
    BY <1>a, <1>b, <2>1, <2>2, StillCloses
<1>4. ASSUME NEW k \in RefundKeys, RequestRefund(k) PROVE RefundCloses'
  <2>1. order' \in AfterRefund
    BY <1>4, RequestRefundInStep
  <2>2. refund' = [refund EXCEPT ![k] = "requested"] /\ UNCHANGED <<pc, returned>>
    BY <1>4 DEF RequestRefund
  <2>3. \A j \in RefundKeys : refund[j] # "none" => refund'[j] # "none"
    BY <1>a, <2>2 DEF TypeOK
  <2>4. QED
    BY <1>a, <1>b, <1>c, <2>1, <2>2, <2>3 DEF RefundCloses
<1>5. ASSUME UNCHANGED vars PROVE RefundCloses'
  BY <1>a, <1>b, <1>5, StillCloses DEF vars, RefundCloses
<1>6. QED
  BY <1>1, <1>2, <1>3, <1>4, <1>5 DEF Next, TaskStep

(***************************************************************************)
(* Refunds.  Until two deliveries of one refund overlap, the one delivery  *)
(* at work on a refund finds it processing when it records the answer; a   *)
(* late answer of a second delivery would overwrite a settled refund.      *)
(***************************************************************************)

\* One refund is open exactly while the order is refunding, what a delivery
\* works on is processing, and no other delivery of it is at work.
OneAtWork ==
  /\ \A j, k \in RefundKeys : refund[j] \in Active /\ refund[k] \in Active => j = k
  /\ order[1] = "REFUNDING" <=> \E k \in RefundKeys : refund[k] \in Active
  /\ \A m \in RefundMessages : pc[m] \in {"refund", "answered"} => refund[m[1]] = "processing"
  /\ \A m \in RefundMessages, n \in RefundMessages :
       pc[m] \in {"refund", "answered"} /\ pc[n] \in {"refund", "answered"} /\ m[1] = n[1] => m = n

UnderWay == ~overlapped => OneAtWork

\* What a delivery holds is what the provider said: money moved, or a denial,
\* and without an overlap a denial of the money as it stands.
AnswersHeld ==
  \A m \in RefundMessages :
    pc[m] = "answered" =>
      /\ noted[m] = "Y" => m[1] \in returned
      /\ noted[m] # "Y" => \E moved \in BOOLEAN : <<m[1], moved>> \in denied
      /\ noted[m] # "Y" /\ ~overlapped => <<m[1], m[1] \in returned>> \in denied

LEMMA RefundingOrders ==
  \A o \in {Paid, Confirming, Confirmed} \cup AfterRefund :
    o[1] = "REFUNDING" <=> o \in {Refunding, RefundingFailed}
  BY DEF Paid, Confirming, Confirmed, AfterRefund, Refunding, RefundingFailed, Refunded,
         RefundedFailed, TicketFailed, Failed

\* Fulfilment neither begins nor ends a refund.
LEMMA PaidKeepsRefunds ==
  ASSUME IInv, NEW m \in Messages, PaidStep(m)
  PROVE  /\ order[1] = "REFUNDING" <=> order'[1] = "REFUNDING"
         /\ UNCHANGED <<refund, returned, denied, overlapped>>
         /\ \A n \in RefundMessages : pc'[n] = pc[n] /\ noted'[n] = noted[n]
<1> USE DEF orderVars, refundVars, worldVars, taskVars, faultVars
<1>a. TypeOK /\ InStep
  BY DEF IInv
<1>1. m \in PaidMessages /\ UNCHANGED <<refund, returned, denied, overlapped>>
  BY DEF PaidStep, LoadTicket, IssueTicket, TicketNotDue, ValidationSilent, ClaimAttempt,
         ResumeRaises, SkipAttempt, AskSupplier, SupplierSilent, Complete, ReleaseClaim
<1>2. /\ \E label : pc' = [pc EXCEPT ![m] = label]
      /\ noted' = noted \/ \E value : noted' = [noted EXCEPT ![m] = value]
  BY DEF PaidStep, LoadTicket, IssueTicket, TicketNotDue, ValidationSilent, ClaimAttempt,
         ResumeRaises, SkipAttempt, AskSupplier, SupplierSilent, Complete, ReleaseClaim,
         Goto, Raise, Note
<1>3. \A n \in RefundMessages : n # m /\ n \in Messages
  BY <1>1, FulfillmentAssumption DEF Messages
<1>4. \A n \in RefundMessages : pc'[n] = pc[n] /\ noted'[n] = noted[n]
  BY <1>a, <1>2, <1>3 DEF TypeOK
<1>5. order' = order \/ (order \in {Paid, Confirming}
                         /\ order' \in {Paid, Confirming, Confirmed, TicketFailed, Failed})
  BY <1>a, Reading DEF PaidStep, LoadTicket, IssueTicket, TicketNotDue, TicketDue, ValidationSilent,
         ClaimAttempt, Startable, ResumeRaises, SkipAttempt, AskSupplier, SupplierSilent, Complete,
         ReleaseClaim
<1>6. order[1] = "REFUNDING" <=> order'[1] = "REFUNDING"
  BY <1>5 DEF Paid, Confirming, Confirmed, TicketFailed, Failed
<1>7. QED
  BY <1>1, <1>4, <1>6

LEMMA InitUnderWay == Init => UnderWay /\ AnswersHeld /\ FailedWasDenied
<1> SUFFICES ASSUME Init PROVE UnderWay /\ AnswersHeld /\ FailedWasDenied
  OBVIOUS
<1>1. \A k \in RefundKeys : refund[k] = "none"
  BY DEF Init
<1>2. order[1] # "REFUNDING"
  BY DEF Init, Paid
<1>3. \A m \in RefundMessages : pc[m] = "ready"
  BY DEF Init, Messages
<1>4. OneAtWork
  BY <1>1, <1>2, <1>3 DEF OneAtWork, Active
<1>5. AnswersHeld /\ FailedWasDenied
  BY <1>1, <1>3 DEF AnswersHeld, FailedWasDenied
<1>6. QED
  BY <1>4, <1>5 DEF UnderWay

\* A step that begins and ends no refund and puts no delivery to work.
LEMMA StillUnderWay ==
  ASSUME OneAtWork, order[1] = "REFUNDING" <=> order'[1] = "REFUNDING",
         \A k \in RefundKeys : refund'[k] \in Active <=> refund[k] \in Active,
         \A m \in RefundMessages :
           pc'[m] \in {"refund", "answered"} =>
             pc[m] \in {"refund", "answered"} /\ refund'[m[1]] = "processing"
  PROVE  OneAtWork'
  BY DEF OneAtWork, Active

LEMMA RequestUnderWay ==
  ASSUME IInv, OneAtWork, NEW k \in RefundKeys, RequestRefund(k)
  PROVE  OneAtWork'
<1>1. refund' = [refund EXCEPT ![k] = "requested"] /\ pc' = pc /\ order'[1] = "REFUNDING"
  BY DEF RequestRefund, taskVars
<1>2. \A j \in RefundKeys : refund'[j] \in Active <=> j = k
  BY <1>1 DEF RequestRefund, IInv, TypeOK, Active
<1>3. \A m \in RefundMessages : pc[m] \notin {"refund", "answered"}
  BY RefundKey DEF RequestRefund, OneAtWork, Active
<1>4. QED
  BY <1>1, <1>2, <1>3 DEF OneAtWork

LEMMA BeginUnderWay ==
  ASSUME IInv, OneAtWork, NEW m \in RefundMessages, BeginRefund(m), ~overlapped'
  PROVE  OneAtWork'
<1>a. TypeOK /\ m \in Messages /\ m[1] \in RefundKeys /\ order' = order
  BY RefundKey DEF IInv, BeginRefund, orderVars
<1>1. CASE Settled(refund[m[1]])
  <2>1. refund' = refund /\ pc' = [pc EXCEPT ![m] = "done"]
    BY <1>1 DEF BeginRefund, Goto
  <2>2. \A n \in RefundMessages : pc'[n] \in {"refund", "answered"} => pc'[n] = pc[n]
    BY <1>a, <2>1 DEF TypeOK
  <2>3. QED
    BY <1>a, <2>1, <2>2, StillUnderWay DEF OneAtWork
<1>2. CASE ~Settled(refund[m[1]])
  <2>1. refund' = [refund EXCEPT ![m[1]] = "processing"] /\ pc' = [pc EXCEPT ![m] = "refund"]
    BY <1>2 DEF BeginRefund, Goto
  <2>2. \A n \in RefundMessages : n[1] = m[1] => pc[n] \notin {"refund", "answered"}
    BY <1>2 DEF BeginRefund, AtWork
  <2>3. refund[m[1]] \in Active
    BY <1>a, <1>2 DEF BeginRefund, Settled, TypeOK, Active
  <2>4. \A k \in RefundKeys : refund'[k] \in Active <=> refund[k] \in Active
    BY <1>a, <2>1, <2>3 DEF TypeOK, Active
  <2>5. \A n \in RefundMessages : pc'[n] \in {"refund", "answered"} => refund'[n[1]] = "processing"
    BY <1>a, <2>1, RefundKey DEF TypeOK, OneAtWork
  <2>6. \A n \in RefundMessages : n # m => pc'[n] = pc[n]
    BY <1>a, <2>1, RefundKey DEF TypeOK
  <2>7. QED
    BY <1>a, <2>2, <2>4, <2>5, <2>6 DEF OneAtWork
<1>3. QED
  BY <1>1, <1>2

LEMMA RecordUnderWay ==
  ASSUME IInv, OneAtWork, NEW m \in RefundMessages, RecordRefund(m)
  PROVE  OneAtWork'
<1>a. TypeOK /\ InStep /\ m \in Messages /\ m[1] \in RefundKeys
  BY RefundKey DEF IInv
<1>1. refund[m[1]] = "processing" /\ pc[m] = "answered"
  BY DEF RecordRefund, OneAtWork
<1>2. order[1] = "REFUNDING" /\ \A k \in RefundKeys : refund[k] \in Active => k = m[1]
  BY <1>a, <1>1 DEF OneAtWork, Active
<1>3. \A n \in RefundMessages : n # m => pc[n] \notin {"refund", "answered"}
  BY <1>1, <1>2, RefundKey DEF OneAtWork, Active
<1>4. CASE Overwrites(m) \/ CanMove(order, Outcome(m))
  <2>1. order' = Outcome(m) /\ pc' = [pc EXCEPT ![m] = "done"]
        /\ refund' = [refund EXCEPT ![m[1]] = IF noted[m] = "Y" THEN "refunded" ELSE "failed"]
    BY <1>4 DEF RecordRefund, Goto
  <2>2. order'[1] # "REFUNDING"
    BY <2>1 DEF Outcome, TicketFailed, Failed
  <2>3. \A k \in RefundKeys : refund'[k] \notin Active
    BY <1>a, <1>2, <2>1 DEF TypeOK, Active
  <2>4. \A n \in RefundMessages : pc'[n] \notin {"refund", "answered"}
    BY <1>a, <1>3, <2>1, RefundKey DEF TypeOK
  <2>5. QED
    BY <2>2, <2>3, <2>4 DEF OneAtWork
<1>5. CASE ~(Overwrites(m) \/ CanMove(order, Outcome(m)))
  <2>1. UNCHANGED <<order, refund>> /\ Raise(m)
    BY <1>5 DEF RecordRefund, refundVars
  <2>2. \A n \in RefundMessages : pc'[n] \notin {"refund", "answered"}
    BY <1>a, <1>3, <2>1, RefundKey DEF TypeOK, Raise, Goto
  <2>3. QED
    BY <2>1, <2>2, StillUnderWay
<1>6. QED
  BY <1>4, <1>5

LEMMA OverlapStays == [Next]_vars /\ ~overlapped' /\ TypeOK => ~overlapped
<1> SUFFICES ASSUME [Next]_vars, TypeOK PROVE overlapped' = overlapped \/ overlapped' = TRUE
  BY DEF TypeOK
<1>1. ASSUME NEW m \in Messages, PaidStep(m) PROVE overlapped' = overlapped
  BY <1>1 DEF PaidStep, LoadTicket, IssueTicket, TicketNotDue, ValidationSilent, ClaimAttempt,
         ResumeRaises, SkipAttempt, AskSupplier, SupplierSilent, Complete, ReleaseClaim
<1>2. ASSUME NEW m \in Messages, BeginRefund(m) PROVE overlapped' = overlapped \/ overlapped' = TRUE
  BY <1>2 DEF BeginRefund, TypeOK
<1>3. ASSUME NEW m \in Messages, AskProvider(m) \/ ProviderSilent(m) \/ RecordRefund(m) \/ Crash(m)
      PROVE  overlapped' = overlapped
  BY <1>3 DEF AskProvider, ProviderSilent, RecordRefund, Crash
<1>4. ASSUME NEW k \in RefundKeys, RequestRefund(k) PROVE overlapped' = overlapped
  BY <1>4 DEF RequestRefund
<1>5. CASE UNCHANGED vars
  BY <1>5 DEF vars
<1>6. QED
  BY <1>1, <1>2, <1>3, <1>4, <1>5 DEF Next, TaskStep, RefundStep

LEMMA StepUnderWay == IInv /\ UnderWay /\ [Next]_vars => UnderWay'
<1> SUFFICES ASSUME IInv, OneAtWork, ~overlapped', [Next]_vars PROVE OneAtWork'
  BY OverlapStays DEF UnderWay, IInv
<1> USE DEF orderVars, refundVars, worldVars, taskVars, faultVars
<1>a. TypeOK /\ \A n \in RefundMessages : n \in Messages /\ n[1] \in RefundKeys
  BY RefundKey DEF IInv
<1>1. ASSUME NEW m \in Messages, PaidStep(m) PROVE OneAtWork'
  BY <1>1, PaidKeepsRefunds, StillUnderWay DEF OneAtWork
<1>2. ASSUME NEW m \in Messages, BeginRefund(m) PROVE OneAtWork'
  BY <1>2, BeginUnderWay DEF BeginRefund
<1>3. ASSUME NEW m \in Messages, AskProvider(m) \/ ProviderSilent(m) PROVE OneAtWork'
  <2>1. m \in RefundMessages /\ pc[m] = "refund" /\ order' = order /\ refund' = refund
    BY <1>3 DEF AskProvider, ProviderSilent
  <2>2. \A n \in RefundMessages : n # m => pc'[n] = pc[n]
    BY <1>a, <1>3 DEF AskProvider, ProviderSilent, Goto, Raise, TypeOK
  <2>3. QED
    BY <2>1, <2>2, StillUnderWay DEF OneAtWork
<1>4. ASSUME NEW m \in Messages, RecordRefund(m) PROVE OneAtWork'
  BY <1>4, RecordUnderWay DEF RecordRefund
<1>5. ASSUME NEW m \in Messages, Crash(m) PROVE OneAtWork'
  <2>1. pc' = [pc EXCEPT ![m] = "ready"] /\ UNCHANGED <<order, refund>>
    BY <1>5 DEF Crash, Goto
  <2>2. \A n \in RefundMessages : pc'[n] \in {"refund", "answered"} => pc'[n] = pc[n]
    BY <1>a, <2>1 DEF TypeOK
  <2>3. QED
    BY <2>1, <2>2, StillUnderWay DEF OneAtWork
<1>6. ASSUME NEW k \in RefundKeys, RequestRefund(k) PROVE OneAtWork'
  BY <1>6, RequestUnderWay
<1>7. ASSUME UNCHANGED vars PROVE OneAtWork'
  BY <1>7, StillUnderWay DEF vars, OneAtWork
<1>8. QED
  BY <1>1, <1>2, <1>3, <1>4, <1>5, <1>6, <1>7 DEF Next, TaskStep, RefundStep

\* A step that gets and records no answer.
LEMMA StillHeld ==
  ASSUME AnswersHeld, UNCHANGED <<returned, denied>>, overlapped' \in BOOLEAN,
         overlapped => overlapped',
         \A m \in RefundMessages : pc'[m] = "answered" => pc'[m] = pc[m] /\ noted'[m] = noted[m]
  PROVE  AnswersHeld'
  BY DEF AnswersHeld

\* A step that settles no refund.
LEMMA StillDenied ==
  ASSUME FailedWasDenied, UNCHANGED <<returned, denied>>, overlapped' \in BOOLEAN,
         overlapped => overlapped',
         \A k \in RefundKeys : refund'[k] \in {"refunded", "failed"} => refund'[k] = refund[k]
  PROVE  FailedWasDenied'
  BY DEF FailedWasDenied

\* The provider's answer, held by the delivery that asked.
LEMMA AnswerHeld ==
  ASSUME IInv, UnderWay, AnswersHeld, NEW m \in RefundMessages, AskProvider(m)
  PROVE  AnswersHeld'
<1>a. TypeOK /\ m \in Messages /\ pc[m] = "refund" /\ overlapped' = overlapped
      /\ \A n \in RefundMessages : n \in Messages /\ n[1] \in RefundKeys
  BY RefundKey DEF IInv, AskProvider
<1>b. /\ pc' = [pc EXCEPT ![m] = "answered"]
      /\ \/ noted' = [noted EXCEPT ![m] = "Y"] /\ returned' = returned \cup {m[1]} /\ denied' = denied
         \/ /\ noted' = [noted EXCEPT ![m] = "N"] /\ returned' = returned
            /\ denied' = denied \cup {<<m[1], m[1] \in returned>>}
  BY DEF AskProvider, Goto, Note
<1>1. ASSUME NEW n \in RefundMessages, n # m, pc'[n] = "answered", noted'[n] # "Y" 
      PROVE  /\ \E moved \in BOOLEAN : <<n[1], moved>> \in denied'
             /\ ~overlapped => <<n[1], n[1] \in returned'>> \in denied'
  <2>1. pc[n] = "answered" /\ noted[n] # "Y"
    BY <1>a, <1>b, <1>1 DEF TypeOK
  <2>2. (\E moved \in BOOLEAN : <<n[1], moved>> \in denied) /\ denied \subseteq denied'
    BY <1>b, <2>1 DEF AnswersHeld
  <2>3. ASSUME ~overlapped PROVE <<n[1], n[1] \in returned'>> \in denied'
    <3>1. n[1] # m[1]
      BY <1>a, <1>1, <2>1, <2>3 DEF UnderWay, OneAtWork
    <3>2. (n[1] \in returned') <=> (n[1] \in returned)
      BY <1>b, <3>1
    <3>3. <<n[1], n[1] \in returned>> \in denied'
      BY <2>1, <2>2, <2>3 DEF AnswersHeld
    <3>4. QED
      BY <3>2, <3>3
  <2>4. QED
    BY <2>2, <2>3
<1>2. ASSUME NEW n \in RefundMessages, n # m, pc'[n] = "answered", noted'[n] = "Y" PROVE n[1] \in returned'
  <2>1. pc[n] = "answered" /\ noted[n] = "Y"
    BY <1>a, <1>b, <1>2 DEF TypeOK
  <2>2. QED
    BY <1>b, <2>1 DEF AnswersHeld
<1>3. noted'[m] = "Y" => m[1] \in returned'
  BY <1>a, <1>b DEF TypeOK
<1>4. ASSUME noted'[m] # "Y" PROVE <<m[1], m[1] \in returned'>> \in denied'
  <2>1. returned' = returned /\ denied' = denied \cup {<<m[1], m[1] \in returned>>}
    BY <1>a, <1>b, <1>4 DEF TypeOK
  <2>2. (m[1] \in returned') <=> (m[1] \in returned)
    BY <2>1
  <2>3. <<m[1], m[1] \in returned>> \in denied'
    BY <2>1
  <2>4. QED
    BY <2>2, <2>3
<1>5. ASSUME noted'[m] # "Y" PROVE \E moved \in BOOLEAN : <<m[1], moved>> \in denied'
  <2>1. (m[1] \in returned') \in BOOLEAN
    OBVIOUS
  <2>2. QED
    BY <1>4, <1>5, <2>1, Zenon
<1>6. QED
  BY <1>a, <1>1, <1>2, <1>3, <1>4, <1>5 DEF AnswersHeld

LEMMA StepHeld == IInv /\ UnderWay /\ AnswersHeld /\ [Next]_vars => AnswersHeld'
<1> SUFFICES ASSUME IInv, UnderWay, AnswersHeld, [Next]_vars PROVE AnswersHeld'
  OBVIOUS
<1> USE DEF orderVars, refundVars, worldVars, taskVars, faultVars
<1>a. TypeOK /\ \A n \in RefundMessages : n \in Messages /\ n[1] \in RefundKeys
  BY RefundKey DEF IInv
<1>b. overlapped' \in BOOLEAN /\ (overlapped => overlapped')
  BY OverlapStays, StepTyped DEF IInv, TypeOK
<1>1. ASSUME NEW m \in Messages, PaidStep(m) PROVE AnswersHeld'
  BY <1>b, <1>1, PaidKeepsRefunds, StillHeld
<1>2. ASSUME NEW m \in Messages, BeginRefund(m) PROVE AnswersHeld'
  <2>1. /\ m \in RefundMessages /\ UNCHANGED <<returned, denied, noted>>
        /\ \E label \in {"done", "refund"} : pc' = [pc EXCEPT ![m] = label]
    BY <1>2 DEF BeginRefund, Goto
  <2>2. QED
    BY <1>a, <1>b, <2>1, StillHeld DEF TypeOK
<1>3. ASSUME NEW m \in Messages, AskProvider(m) PROVE AnswersHeld'
  BY <1>3, AnswerHeld DEF AskProvider
<1>4. ASSUME NEW m \in Messages, ProviderSilent(m) PROVE AnswersHeld'
  <2>1. /\ m \in RefundMessages /\ UNCHANGED <<denied, noted, overlapped>> /\ pc[m] = "refund"
        /\ returned' \subseteq returned \cup {m[1]} /\ returned \subseteq returned'
        /\ \E label \in {"ready", "dead"} : pc' = [pc EXCEPT ![m] = label]
    BY <1>4 DEF ProviderSilent, Raise, Goto
  <2>2. ASSUME NEW n \in RefundMessages, pc'[n] = "answered"
        PROVE  /\ pc[n] = "answered" /\ n # m
               /\ ~overlapped => (n[1] \in returned' <=> n[1] \in returned)
    BY <1>a, <2>1, <2>2 DEF TypeOK, UnderWay, OneAtWork
  <2>3. ASSUME NEW n \in RefundMessages, pc'[n] = "answered", noted'[n] # "Y", ~overlapped
        PROVE  <<n[1], n[1] \in returned'>> \in denied'
    <3>1. <<n[1], n[1] \in returned>> \in denied'
      BY <2>1, <2>2, <2>3 DEF AnswersHeld
    <3>2. (n[1] \in returned') <=> (n[1] \in returned)
      BY <2>2, <2>3
    <3>3. QED
      BY <3>1, <3>2
  <2>4. QED
    BY <2>1, <2>2, <2>3 DEF AnswersHeld
<1>5. ASSUME NEW m \in Messages, RecordRefund(m) PROVE AnswersHeld'
  <2>1. /\ m \in RefundMessages /\ UNCHANGED <<returned, denied, noted>>
        /\ \E label \in {"done", "ready", "dead"} : pc' = [pc EXCEPT ![m] = label]
    BY <1>5 DEF RecordRefund, Goto, Raise
  <2>2. QED
    BY <1>a, <1>b, <2>1, StillHeld DEF TypeOK
<1>6. ASSUME NEW m \in Messages, Crash(m) PROVE AnswersHeld'
  <2>1. pc' = [pc EXCEPT ![m] = "ready"] /\ UNCHANGED <<returned, denied, noted>>
    BY <1>6 DEF Crash, Goto
  <2>2. QED
    BY <1>a, <1>b, <2>1, StillHeld DEF TypeOK
<1>7. ASSUME NEW k \in RefundKeys, RequestRefund(k) PROVE AnswersHeld'
  BY <1>b, <1>7, StillHeld DEF RequestRefund
<1>8. ASSUME UNCHANGED vars PROVE AnswersHeld'
  BY <1>b, <1>8, StillHeld DEF vars
<1>9. QED
  BY <1>1, <1>2, <1>3, <1>4, <1>5, <1>6, <1>7, <1>8 DEF Next, TaskStep, RefundStep

\* Recording writes what the delivery holds.
LEMMA RecordDenied ==
  ASSUME IInv, AnswersHeld, FailedWasDenied, NEW m \in RefundMessages, RecordRefund(m)
  PROVE  FailedWasDenied'
<1>a. /\ TypeOK /\ m[1] \in RefundKeys /\ pc[m] = "answered"
      /\ UNCHANGED <<returned, denied, overlapped>>
  BY RefundKey DEF IInv, RecordRefund, worldVars
<1>1. refund' = refund
      \/ refund' = [refund EXCEPT ![m[1]] = IF noted[m] = "Y" THEN "refunded" ELSE "failed"]
  BY DEF RecordRefund, refundVars
<1>2. CASE refund' = refund
  BY <1>a, <1>2 DEF FailedWasDenied
<1>3. CASE refund' = [refund EXCEPT ![m[1]] = IF noted[m] = "Y" THEN "refunded" ELSE "failed"]
  <2>1. \A k \in RefundKeys : k # m[1] => refund'[k] = refund[k]
    BY <1>a, <1>3 DEF TypeOK
  <2>2. noted[m] = "Y" => refund'[m[1]] = "refunded" /\ m[1] \in returned
    BY <1>a, <1>3 DEF TypeOK, AnswersHeld
  <2>3. noted[m] # "Y" => /\ refund'[m[1]] = "failed"
                          /\ \E moved \in BOOLEAN : <<m[1], moved>> \in denied
                          /\ ~overlapped => <<m[1], m[1] \in returned>> \in denied
    BY <1>a, <1>3 DEF TypeOK, AnswersHeld
  <2>4. QED
    BY <1>a, <2>1, <2>2, <2>3 DEF FailedWasDenied
<1>4. QED
  BY <1>1, <1>2, <1>3

\* A settled refund has no delivery at work that could move its money.
LEMMA CallDenied ==
  ASSUME IInv, UnderWay, FailedWasDenied, NEW m \in RefundMessages, AskProvider(m) \/ ProviderSilent(m)
  PROVE  FailedWasDenied'
<1>1. /\ m[1] \in RefundKeys /\ pc[m] = "refund" /\ UNCHANGED <<refund, overlapped>>
      /\ denied \subseteq denied' /\ returned \subseteq returned' /\ returned' \subseteq returned \cup {m[1]}
  BY RefundKey DEF AskProvider, ProviderSilent, refundVars
<1>2. ~overlapped => refund[m[1]] = "processing"
  BY <1>1 DEF UnderWay, OneAtWork
<1>3. \A k \in RefundKeys : refund'[k] = "failed" /\ ~overlapped => (k \in returned' <=> k \in returned)
  BY <1>1, <1>2
<1>4. ASSUME NEW k \in RefundKeys, refund'[k] = "failed", ~overlapped PROVE <<k, k \in returned'>> \in denied'
  <2>1. <<k, k \in returned>> \in denied'
    BY <1>1, <1>4 DEF FailedWasDenied
  <2>2. QED
    BY <1>3, <1>4, <2>1
<1>5. QED
  BY <1>1, <1>4 DEF FailedWasDenied

LEMMA StepDenied ==
  IInv /\ UnderWay /\ AnswersHeld /\ FailedWasDenied /\ [Next]_vars => FailedWasDenied'
<1> SUFFICES ASSUME IInv, UnderWay, AnswersHeld, FailedWasDenied, [Next]_vars PROVE FailedWasDenied'
  OBVIOUS
<1> USE DEF orderVars, refundVars, worldVars, taskVars, faultVars
<1>b. TypeOK /\ overlapped' \in BOOLEAN /\ (overlapped => overlapped')
  BY OverlapStays, StepTyped DEF IInv, TypeOK
<1>1. ASSUME NEW m \in Messages, PaidStep(m) PROVE FailedWasDenied'
  BY <1>b, <1>1, PaidKeepsRefunds, StillDenied
<1>2. ASSUME NEW m \in Messages, BeginRefund(m) PROVE FailedWasDenied'
  <2>1. /\ UNCHANGED <<returned, denied>>
        /\ refund' = refund \/ refund' = [refund EXCEPT ![m[1]] = "processing"]
    BY <1>2 DEF BeginRefund
  <2>2. QED
    BY <1>b, <2>1, StillDenied DEF TypeOK
<1>3. ASSUME NEW m \in Messages, AskProvider(m) \/ ProviderSilent(m) PROVE FailedWasDenied'
  BY <1>3, CallDenied DEF AskProvider, ProviderSilent
<1>4. ASSUME NEW m \in Messages, RecordRefund(m) PROVE FailedWasDenied'
  BY <1>4, RecordDenied DEF RecordRefund
<1>5. ASSUME NEW m \in Messages, Crash(m) PROVE FailedWasDenied'
  BY <1>b, <1>5, StillDenied DEF Crash
<1>6. ASSUME NEW k \in RefundKeys, RequestRefund(k) PROVE FailedWasDenied'
  <2>1. refund' = [refund EXCEPT ![k] = "requested"] /\ UNCHANGED <<returned, denied>>
    BY <1>6 DEF RequestRefund
  <2>2. QED
    BY <1>b, <2>1, StillDenied DEF TypeOK
<1>7. ASSUME UNCHANGED vars PROVE FailedWasDenied'
  BY <1>b, <1>7, StillDenied DEF vars
<1>8. QED
  BY <1>1, <1>2, <1>3, <1>4, <1>5, <1>6, <1>7 DEF Next, TaskStep, RefundStep

(***************************************************************************)
(* The theorems                                                            *)
(***************************************************************************)

LEMMA InitInv == Init => IInv
<1> SUFFICES ASSUME Init PROVE IInv
  OBVIOUS
<1>1. TypeOK
  BY InitTyped
<1>2. \A m \in Messages : pc[m] = "ready"
  BY DEF Init
<1>3. ClaimedOnce
  BY <1>2 DEF Init, ClaimedOnce, BookOnce
<1>4. InStep
  BY <1>2, NamedOrders DEF Init, InStep
<1>5. RefundCloses
  BY <1>2 DEF Init, RefundCloses, RefundMessages, Messages
<1>6. QED
  BY <1>1, <1>3, <1>4, <1>5 DEF IInv

LEMMA Invariance == Spec => []IInv
<1>1. IInv /\ [Next]_vars => IInv'
  BY StepTyped, StepClaimed, StepInStep, StepCloses DEF IInv
<1>2. QED
  BY <1>1, InitInv, PTL DEF Spec

LEMMA RefundInvariance == Spec => [](UnderWay /\ AnswersHeld /\ FailedWasDenied)
<1>1. Init => IInv /\ UnderWay /\ AnswersHeld /\ FailedWasDenied
  BY InitInv, InitUnderWay
<1>2. IInv /\ IInv' /\ UnderWay /\ AnswersHeld /\ FailedWasDenied /\ [Next]_vars
        => (UnderWay /\ AnswersHeld /\ FailedWasDenied)'
  BY StepUnderWay, StepHeld, StepDenied
<1>3. QED
  BY <1>1, <1>2, Invariance, PTL DEF Spec

\* Whatever is delivered twice, dies or goes unanswered, the supplier books an
\* order once at most.
THEOREM BookedOnce == Spec => []BookOnce
<1>1. IInv => BookOnce
  BY DEF IInv, ClaimedOnce
<1>2. QED
  BY <1>1, Invariance, PTL

\* No order has both an issued ticket and its money back.
THEOREM TicketOrMoney == Spec => []TicketExcludesRefund
<1>1. IInv => TicketExcludesRefund
  <2> SUFFICES ASSUME IInv, ticket = "issued" PROVE order = Confirmed /\ returned = {}
    BY DEF TicketExcludesRefund
  <2>1. order = Confirmed
    BY DEF IInv, InStep
  <2>2. \A k \in RefundKeys : refund[k] = "none"
    BY <2>1, NamedOrders DEF IInv, RefundCloses
  <2>3. returned = {}
    BY <2>2 DEF IInv, RefundCloses, TypeOK
  <2>4. QED
    BY <2>1, <2>3
<1>2. QED
  BY <1>1, Invariance, PTL

\* The attempt row always tells what the order's fulfilment status tells.
THEOREM AttemptConsistent == Spec => []AttemptMatchesOrder
<1>1. IInv => AttemptMatchesOrder
  BY NamedOrders DEF IInv, InStep, AttemptMatchesOrder
<1>2. QED
  BY <1>1, Invariance, PTL

\* One booking at most, ticket or money, and rows that agree.
THEOREM TradeSound == Spec => []TradeIsSound
BY BookedOnce, TicketOrMoney, AttemptConsistent, PTL DEF TradeIsSound

\* While no two deliveries of one refund overlap, one refund is under way
\* exactly while the order is refunding, whatever the provider answers.
THEOREM OneRefundActive == Spec => []OneActiveRefund
<1>1. UnderWay => OneActiveRefund
  BY DEF UnderWay, OneAtWork, OneActiveRefund
<1>2. QED
  BY <1>1, RefundInvariance, PTL

\* However often the request is delivered, answered or left unanswered, a refund
\* is reported done when its money has moved and failed when the provider has
\* denied it; refund, order and denial agree until two deliveries overlap.
THEOREM RefundsSound == Spec => []RefundsAreSound
<1>1. FailedWasDenied /\ OneActiveRefund => RefundsAreSound
  BY DEF RefundsAreSound
<1>2. QED
  BY <1>1, RefundInvariance, OneRefundActive, PTL

\* Fulfilment moves a paid order only, and a refund one that is refunding.
LEMMA OrderMoves ==
  IInv /\ UnderWay /\ ~overlapped /\ [Next]_vars => order' = order \/ CanMove(order, order')
<1> SUFFICES ASSUME IInv, OneAtWork, [Next]_vars PROVE order' = order \/ CanMove(order, order')
  BY DEF UnderWay
<1> USE DEF orderVars, refundVars, worldVars, taskVars, faultVars
<1>a. TypeOK /\ InStep
  BY DEF IInv
<1>1. ASSUME NEW m \in Messages,
             \/ LoadTicket(m) \/ TicketNotDue(m) \/ ValidationSilent(m) \/ ResumeRaises(m) \/ SkipAttempt(m)
             \/ AskSupplier(m) \/ SupplierSilent(m) \/ BeginRefund(m) \/ AskProvider(m) \/ ProviderSilent(m)
             \/ Crash(m)
      PROVE  order' = order
  BY <1>1 DEF LoadTicket, TicketNotDue, ValidationSilent, ResumeRaises, SkipAttempt, AskSupplier,
    SupplierSilent, BeginRefund, AskProvider, ProviderSilent, Crash
<1>2. ASSUME NEW m \in Messages, IssueTicket(m) PROVE CanMove(order, order')
  BY <1>2 DEF IssueTicket
<1>3. ASSUME NEW m \in Messages, ClaimAttempt(m) PROVE CanMove(order, order')
  <2>1. order = Paid
    BY <1>a, <1>3, Reading DEF ClaimAttempt, Startable, OfferBound, InStep
  <2>2. QED
    BY <1>3, <2>1 DEF ClaimAttempt, CanMove, Allowed
<1>4. ASSUME NEW m \in Messages, Complete(m) PROVE order' = order \/ CanMove(order, order')
  BY <1>a, <1>4, Reading DEF Complete, CanMove, Allowed
<1>5. ASSUME NEW m \in Messages, ReleaseClaim(m) PROVE order' = order \/ CanMove(order, order')
  BY <1>a, <1>5, Reading DEF ReleaseClaim, CanMove, Allowed
<1>6. ASSUME NEW k \in RefundKeys, RequestRefund(k) PROVE CanMove(order, order')
  BY <1>6 DEF RequestRefund
<1>7. ASSUME NEW m \in Messages, RecordRefund(m) PROVE order' = order \/ CanMove(order, order')
  <2>1. m \in RefundMessages /\ refund[m[1]] = "processing" /\ m[1] \in RefundKeys
    BY <1>7, RefundKey DEF RecordRefund, OneAtWork
  <2>2. order[1] = "REFUNDING"
    BY <2>1 DEF OneAtWork, Active
  <2>3. order \in {Refunding, RefundingFailed}
    BY <1>a, <2>2, RefundingOrders DEF InStep
  <2>4. CASE CanMove(order, Outcome(m))
    BY <1>7, <2>4 DEF RecordRefund
  <2>5. CASE Overwrites(m) /\ ~CanMove(order, Outcome(m))
    <3>1. order = Refunding
      BY <2>3, <2>5 DEF Overwrites, RefundingFailed
    <3>2. Outcome(m) = Failed
      BY <2>5 DEF Overwrites, Outcome
    <3>3. QED
      BY <2>5, <3>1, <3>2 DEF CanMove, Allowed
  <2>6. CASE ~(Overwrites(m) \/ CanMove(order, Outcome(m)))
    BY <1>7, <2>6 DEF RecordRefund
  <2>7. QED
    BY <2>4, <2>5, <2>6
<1>8. CASE UNCHANGED vars
  BY <1>8 DEF vars
<1>9. QED
  BY <1>1, <1>2, <1>3, <1>4, <1>5, <1>6, <1>7, <1>8 DEF Next, TaskStep, PaidStep, RefundStep

\* Until two deliveries of one refund overlap, the order takes the transitions of
\* OrderStateService._allowed and no others, also where process writes
\* its columns without asking.
THEOREM OrderAllowed == Spec => OrderFollowsAllowed
<1>1. IInv /\ UnderWay /\ [Next]_vars
        => [order' # order /\ ~overlapped => CanMove(order, order')]_order
  BY OrderMoves
<1>2. QED
  BY <1>1, Invariance, RefundInvariance, PTL DEF Spec, OrderFollowsAllowed
==============================================================================
