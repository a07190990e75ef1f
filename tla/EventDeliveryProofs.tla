------------------------- MODULE EventDeliveryProofs -------------------------
(***************************************************************************)
(* Proofs about EventDelivery for every set of events, consumers, routes   *)
(* and worker processes, and every bound.                                  *)
(***************************************************************************)
EXTENDS EventDelivery, SequenceTheorems, TLAPS

(***************************************************************************)
(* The inductive invariant, part one: types, and what a task knows about   *)
(* the message it handles.                                                 *)
(***************************************************************************)

AtRoute == {"check", "insert", "handler", "claim", "work", "result", "skip", "terminal"}

MessageOK ==
  \A m \in Copies :
    /\ place[m] # "unused" => event[m] \in Events /\ outbox[event[m]] # "absent"
    /\ pc[m] # "idle" => place[m] = "unacked"
    /\ owner[m] # NoWorker => place[m] = "unacked"
    /\ pc[m] \in AtRoute => route[m] \in Routes(event[m])
    /\ pc[m] = "failed" /\ route[m] > 0 => route[m] \in Routes(event[m])

PublisherOK ==
  \A w \in Workers : \A e \in batch[w] \cup confirmed[w] : outbox[e] # "absent"

BaseInv == TypeOK /\ MessageOK /\ PublisherOK

\* A task at a route works on a key made of a consumer and an event.
LEMMA KeyType ==
  ASSUME TypeOK, MessageOK, NEW m \in Copies, pc[m] \in AtRoute
  PROVE  /\ event[m] \in Events
         /\ RoutesOf[event[m]] \in Seq(Consumers)
         /\ route[m] \in 1..Len(RoutesOf[event[m]])
         /\ RoutesOf[event[m]][route[m]] \in Consumers
         /\ Key(m) \in Consumers \X Events
         /\ Key(m)[1] = RoutesOf[event[m]][route[m]]
         /\ Key(m)[2] = event[m]
<1>1. pc[m] # "idle" BY DEF AtRoute
<1>2. event[m] \in Events BY <1>1 DEF MessageOK
<1>3. RoutesOf[event[m]] \in Seq(Consumers) BY <1>2, BackboneAssumption
<1>4. route[m] \in 1..Len(RoutesOf[event[m]]) BY DEF MessageOK, Routes
<1>5. RoutesOf[event[m]][route[m]] \in Consumers
  BY <1>3, <1>4, ElementOfSeq
<1>6. QED BY <1>2, <1>3, <1>4, <1>5 DEF Key

LEMMA BaseInit == Init => BaseInv
BY DEF Init, BaseInv, TypeOK, MessageOK, PublisherOK, AtRoute, Labels

\* Leaving consume_once moves one task only, to the next route or to "ack".
LEMMA NextRouteMoves ==
  ASSUME BaseInv, NEW m \in Copies, pc[m] \in AtRoute, NextRoute(m)
  PROVE  /\ pc' \in [Copies -> Labels]
         /\ route' \in [Copies -> Nat]
         /\ owner' = owner
         /\ \A k \in Copies : k # m => pc'[k] = pc[k] /\ route'[k] = route[k]
         /\ \/ pc'[m] = "ack"
            \/ pc'[m] = "check" /\ route'[m] \in Routes(event[m])
<1>1. RoutesOf[event[m]] \in Seq(Consumers) /\ route[m] \in Routes(event[m])
  BY KeyType DEF BaseInv, Routes
<1>2. Len(RoutesOf[event[m]]) \in Nat BY <1>1
<1>3. pc \in [Copies -> Labels] /\ route \in [Copies -> Nat] BY DEF BaseInv, TypeOK
<1>4. CASE route[m] < Len(RoutesOf[event[m]])
  <2>1. /\ route' = [route EXCEPT ![m] = @ + 1]
        /\ pc' = [pc EXCEPT ![m] = "check"]
        /\ UNCHANGED owner
    BY <1>4 DEF NextRoute
  <2>2. route[m] + 1 \in Routes(event[m]) BY <1>1, <1>2, <1>3, <1>4 DEF Routes
  <2>3. QED BY <1>3, <2>1, <2>2 DEF Labels
<1>5. CASE ~(route[m] < Len(RoutesOf[event[m]]))
  BY <1>3, <1>5 DEF NextRoute, Goto, Labels
<1>6. QED BY <1>4, <1>5

\* A task that moves to another label, at the same or at a legal route, and
\* touches no message and no outbox row, keeps the base invariant.
LEMMA TaskMoves ==
  ASSUME BaseInv, NEW m \in Copies, pc[m] # "idle",
         UNCHANGED <<outboxVars, messageVars, owner>>,
         pc' \in [Copies -> Labels], route' \in [Copies -> Nat],
         \A k \in Copies : k # m => pc'[k] = pc[k] /\ route'[k] = route[k],
         pc'[m] \in AtRoute => route'[m] \in Routes(event[m]),
         pc'[m] = "failed" => route'[m] = 0 \/ route'[m] \in Routes(event[m]),
         processed' \in SUBSET (Consumers \X Events),
         claim' \in [Consumers \X Events -> {"queued", "running", "done", "failed"}],
         applied' \in [Consumers \X Events -> Nat],
         dlq' \in SUBSET Events, faults' \in Nat
  PROVE  BaseInv'
<1>1. TypeOK' BY DEF BaseInv, TypeOK, outboxVars, messageVars
<1>2. MessageOK' BY DEF BaseInv, MessageOK, TypeOK, outboxVars, messageVars
<1>3. PublisherOK' BY DEF BaseInv, PublisherOK, outboxVars
<1>4. QED BY <1>1, <1>2, <1>3 DEF BaseInv

StoreTyped ==
  /\ processed \in SUBSET (Consumers \X Events)
  /\ claim \in [Consumers \X Events -> {"queued", "running", "done", "failed"}]
  /\ applied \in [Consumers \X Events -> Nat]
  /\ dlq \in SUBSET Events /\ faults \in Nat

LEMMA GotoKeepsBase ==
  ASSUME BaseInv, NEW m \in Copies, pc[m] # "idle", NEW label \in Labels, Goto(m, label),
         label \in AtRoute => route[m] \in Routes(event[m]),
         label = "failed" => route[m] = 0 \/ route[m] \in Routes(event[m]),
         UNCHANGED <<outboxVars, messageVars>>, StoreTyped'
  PROVE  BaseInv'
<1>1. pc \in [Copies -> Labels] /\ route \in [Copies -> Nat] BY DEF BaseInv, TypeOK
<1>2. /\ pc' \in [Copies -> Labels] /\ pc'[m] = label
      /\ owner' = owner /\ route' = route
      /\ \A k \in Copies : k # m => pc'[k] = pc[k]
  BY <1>1 DEF Goto
<1>3. UNCHANGED <<outboxVars, messageVars, owner>> BY <1>2
<1>4. QED BY <1>1, <1>2, <1>3, TaskMoves DEF StoreTyped

LEMMA NextRouteKeepsBase ==
  ASSUME BaseInv, NEW m \in Copies, pc[m] \in AtRoute, NextRoute(m),
         UNCHANGED <<outboxVars, messageVars>>, StoreTyped'
  PROVE  BaseInv'
<1>1. /\ pc' \in [Copies -> Labels] /\ route' \in [Copies -> Nat] /\ owner' = owner
      /\ \A k \in Copies : k # m => pc'[k] = pc[k] /\ route'[k] = route[k]
      /\ pc'[m] = "ack" \/ (pc'[m] = "check" /\ route'[m] \in Routes(event[m]))
  BY NextRouteMoves
<1>2. UNCHANGED <<outboxVars, messageVars, owner>> BY <1>1
<1>3. pc[m] # "idle" /\ "ack" \notin AtRoute BY DEF AtRoute
<1>4. QED BY <1>1, <1>2, <1>3, TaskMoves DEF StoreTyped

LEMMA BaseStep == BaseInv /\ [Next]_vars => BaseInv'
<1> SUFFICES ASSUME BaseInv, [Next]_vars PROVE BaseInv'
  OBVIOUS
<1>0. TypeOK /\ MessageOK /\ PublisherOK BY DEF BaseInv
<1>a. StoreTyped BY <1>0 DEF TypeOK, StoreTyped
<1>1. ASSUME NEW e \in Events, Emit(e) PROVE BaseInv'
  BY <1>0, <1>1 DEF Emit, BaseInv, TypeOK, MessageOK, PublisherOK, messageVars, taskVars, storeVars
<1>2. ASSUME NEW w \in Workers, SelectPending(w) PROVE BaseInv'
  BY <1>0, <1>2 DEF SelectPending, BaseInv, TypeOK, MessageOK, PublisherOK, messageVars, taskVars, storeVars
<1>3. ASSUME NEW w \in Workers, NEW e \in Events, PublishConfirmed(w, e) PROVE BaseInv'
  BY <1>0, <1>3 DEF PublishConfirmed, NextCopy, Enqueue, BaseInv, TypeOK, MessageOK, PublisherOK, taskVars, storeVars, AtRoute
<1>4. ASSUME NEW w \in Workers, NEW e \in Events, PublishFails(w, e) PROVE BaseInv'
  <2>1. CASE UNCHANGED messageVars
    BY <1>0, <1>4, <2>1 DEF PublishFails, BaseInv, TypeOK, MessageOK, PublisherOK, messageVars, taskVars, storeVars
  <2>2. CASE \E m \in Copies : NextCopy(m) /\ Enqueue(m, e)
    <3>1. PICK m \in Copies : NextCopy(m) /\ Enqueue(m, e) BY <2>2
    <3>2. TypeOK' BY <1>0, <1>4, <3>1 DEF PublishFails, Enqueue, TypeOK, taskVars, storeVars
    <3>3. MessageOK'
      BY <1>0, <1>4, <3>1 DEF PublishFails, NextCopy, Enqueue, TypeOK, MessageOK, PublisherOK, taskVars, AtRoute
    <3>4. PublisherOK' BY <1>0, <1>4 DEF PublishFails, PublisherOK, TypeOK
    <3>5. QED BY <3>2, <3>3, <3>4 DEF BaseInv
  <2>3. QED BY <1>4, <2>1, <2>2 DEF PublishFails
<1>5. ASSUME NEW w \in Workers, CommitPublished(w) PROVE BaseInv'
  BY <1>0, <1>5 DEF CommitPublished, BaseInv, TypeOK, MessageOK, PublisherOK, messageVars, taskVars, storeVars
<1>6. ASSUME NEW m \in Copies, NEW w \in Workers, Deliver(m, w) PROVE BaseInv'
  <2>1. event[m] \in Events /\ RoutesOf[event[m]] \in Seq(Consumers)
    BY <1>0, <1>6, BackboneAssumption DEF Deliver, MessageOK
  <2>2. RoutesOf[event[m]] # <<>> => 1 \in Routes(event[m])
    BY <2>1, EmptySeq, LenProperties DEF Routes
  <2>3. TypeOK'
    <3>1. pc' \in [Copies -> Labels] /\ route' \in [Copies -> Nat]
      <4>1. PICK label \in {"failed", "check"}, i \in {0, 1} :
               pc' = [pc EXCEPT ![m] = label] /\ route' = [route EXCEPT ![m] = i]
        BY <1>6 DEF Deliver
      <4>2. label \in Labels /\ i \in Nat BY DEF Labels
      <4>3. QED BY <1>0, <4>1, <4>2 DEF TypeOK
    <3>2. QED BY <1>0, <1>6, <3>1 DEF Deliver, TypeOK, outboxVars, storeVars
  <2>4. MessageOK'
    <3>1. /\ outbox' = outbox /\ event' = event
          /\ place' = [place EXCEPT ![m] = "unacked"]
          /\ owner' = [owner EXCEPT ![m] = w]
      BY <1>6 DEF Deliver, outboxVars
    <3>2. \A k \in Copies : k # m => pc'[k] = pc[k] /\ route'[k] = route[k]
      BY <1>0, <1>6 DEF Deliver, TypeOK
    <3>3. \/ pc'[m] = "failed" /\ route'[m] = 0
          \/ pc'[m] = "check" /\ route'[m] \in Routes(event[m])
      BY <1>0, <1>6, <2>2 DEF Deliver, TypeOK
    <3>4. place[m] = "ready" BY <1>6 DEF Deliver
    <3>5. QED BY <1>0, <3>1, <3>2, <3>3, <3>4 DEF TypeOK, MessageOK, AtRoute
  <2>5. PublisherOK' BY <1>0, <1>6 DEF Deliver, PublisherOK, outboxVars
  <2>6. QED BY <2>3, <2>4, <2>5 DEF BaseInv
<1>7. ASSUME NEW m \in Copies, CheckProcessed(m) PROVE BaseInv'
  <2>1. pc[m] \in AtRoute /\ pc[m] # "idle" /\ route[m] \in Routes(event[m])
    BY <1>0, <1>7 DEF CheckProcessed, AtRoute, MessageOK
  <2>2. StoreTyped' /\ UNCHANGED <<outboxVars, messageVars>>
    BY <1>a, <1>7 DEF CheckProcessed, StoreTyped, storeVars
  <2>3. CASE Key(m) \in processed BY <1>7, <2>1, <2>2, <2>3, NextRouteKeepsBase DEF CheckProcessed
  <2>4. CASE Key(m) \notin processed
    <3>1. PICK label \in {"claim", "insert"} : Goto(m, label) BY <1>7, <2>4 DEF CheckProcessed
    <3>2. label \in Labels /\ label # "failed" BY DEF Labels
    <3>3. QED BY <2>1, <2>2, <3>1, <3>2, GotoKeepsBase
  <2>5. QED BY <2>3, <2>4
<1>8. ASSUME NEW m \in Copies, InsertMarker(m) PROVE BaseInv'
  <2>1. pc[m] \in AtRoute /\ pc[m] # "idle" /\ route[m] \in Routes(event[m])
    BY <1>0, <1>8 DEF InsertMarker, AtRoute, MessageOK
  <2>2. StoreTyped' /\ UNCHANGED <<outboxVars, messageVars>>
    BY <1>a, <1>8 DEF InsertMarker, StoreTyped, storeVars
  <2>3. NextRoute(m) \/ Goto(m, "handler") BY <1>8 DEF InsertMarker
  <2>4. "handler" \in Labels /\ "handler" # "failed" BY DEF Labels
  <2>5. QED BY <2>1, <2>2, <2>3, <2>4, GotoKeepsBase, NextRouteKeepsBase
<1>9. ASSUME NEW m \in Copies, HandlerCommits(m) \/ CommitReplyLost(m) PROVE BaseInv'
  <2>1. pc[m] \in AtRoute /\ pc[m] # "idle" /\ route[m] \in Routes(event[m])
    BY <1>0, <1>9 DEF HandlerCommits, CommitReplyLost, AtRoute, MessageOK
  <2>2. Key(m) \in Consumers \X Events BY <1>0, <2>1, KeyType
  <2>3. StoreTyped' /\ UNCHANGED <<outboxVars, messageVars>>
    BY <1>a, <1>9, <2>2 DEF HandlerCommits, CommitReplyLost, CommitEffect, StoreTyped
  <2>4. NextRoute(m) \/ Goto(m, "failed") BY <1>9 DEF HandlerCommits, CommitReplyLost
  <2>5. "failed" \in Labels BY DEF Labels
  <2>6. QED BY <2>1, <2>3, <2>4, <2>5, GotoKeepsBase, NextRouteKeepsBase
<1>10. ASSUME NEW m \in Copies, HandlerRaises(m) \/ WorkSucceeds(m) PROVE BaseInv'
  <2>1. pc[m] \in AtRoute /\ pc[m] # "idle" /\ route[m] \in Routes(event[m])
    BY <1>0, <1>10 DEF HandlerRaises, WorkSucceeds, AtRoute, MessageOK
  <2>2. StoreTyped' /\ UNCHANGED <<outboxVars, messageVars>>
    BY <1>a, <1>10 DEF HandlerRaises, WorkSucceeds, StoreTyped, storeVars
  <2>3. Goto(m, "failed") \/ Goto(m, "result") BY <1>10 DEF HandlerRaises, WorkSucceeds
  <2>4. "failed" \in Labels /\ "result" \in Labels BY DEF Labels
  <2>5. QED BY <2>1, <2>2, <2>3, <2>4, GotoKeepsBase
<1>11. ASSUME NEW m \in Copies, ClaimWork(m) \/ WorkFails(m) PROVE BaseInv'
  <2>1. pc[m] \in AtRoute /\ pc[m] # "idle" /\ route[m] \in Routes(event[m])
    BY <1>0, <1>11 DEF ClaimWork, WorkFails, AtRoute, MessageOK
  <2>2. StoreTyped' /\ UNCHANGED <<outboxVars, messageVars>>
    BY <1>a, <1>11 DEF ClaimWork, WorkFails, StoreTyped
  <2>3. Goto(m, "failed") \/ Goto(m, "work") \/ Goto(m, "skip") BY <1>11 DEF ClaimWork, WorkFails
  <2>4. "failed" \in Labels /\ "work" \in Labels /\ "skip" \in Labels BY DEF Labels
  <2>5. QED BY <2>1, <2>2, <2>3, <2>4, GotoKeepsBase
<1>12. ASSUME NEW m \in Copies, CommitDeferred(m) PROVE BaseInv'
  <2>1. pc[m] \in AtRoute BY <1>12 DEF CommitDeferred, AtRoute
  <2>2. Key(m) \in Consumers \X Events BY <1>0, <2>1, KeyType
  <2>3. StoreTyped' /\ UNCHANGED <<outboxVars, messageVars>>
    BY <1>a, <1>12, <2>2 DEF CommitDeferred, StoreTyped, storeVars
  <2>4. QED BY <1>12, <2>1, <2>3, NextRouteKeepsBase DEF CommitDeferred
<1>13. ASSUME NEW m \in Copies, RejectDelivery(m) PROVE BaseInv'
  BY <1>0, <1>13 DEF RejectDelivery, BaseInv, TypeOK, MessageOK, PublisherOK, outboxVars, storeVars, AtRoute, Labels, Routes
<1>14. ASSUME NEW m \in Copies, ExpireDelay(m) PROVE BaseInv'
  BY <1>0, <1>14 DEF ExpireDelay, BaseInv, TypeOK, MessageOK, PublisherOK, outboxVars, taskVars, storeVars, AtRoute, Labels, Routes
<1>15. ASSUME NEW m \in Copies, GiveUp(m) PROVE BaseInv'
  <2>1. pc[m] # "idle" /\ (HasTerminal(m) => route[m] \in Routes(event[m]))
    BY <1>0, <1>15 DEF GiveUp, MessageOK, HasTerminal
  <2>2. StoreTyped' /\ UNCHANGED <<outboxVars, messageVars>>
    BY <1>a, <1>15 DEF GiveUp, StoreTyped, storeVars
  <2>3. \/ Goto(m, "terminal") /\ HasTerminal(m)
        \/ Goto(m, "deadletter")
    BY <1>15 DEF GiveUp
  <2>4. "terminal" \in Labels /\ "deadletter" \in Labels /\ "deadletter" \notin AtRoute
    BY DEF Labels, AtRoute
  <2>5. QED BY <2>1, <2>2, <2>3, <2>4, GotoKeepsBase
<1>16. ASSUME NEW m \in Copies, TerminalHandler(m) PROVE BaseInv'
  <2>1. pc[m] # "idle" BY <1>16 DEF TerminalHandler
  <2>2. StoreTyped' /\ UNCHANGED <<outboxVars, messageVars>>
    BY <1>a, <1>16 DEF TerminalHandler, StoreTyped
  <2>3. "deadletter" \in Labels /\ "deadletter" \notin AtRoute BY DEF Labels, AtRoute
  <2>4. QED BY <1>16, <2>1, <2>2, <2>3, GotoKeepsBase DEF TerminalHandler
<1>17. ASSUME NEW m \in Copies, PublishDeadLetter(m) \/ GiveUpRaises(m) PROVE BaseInv'
  <2>1. pc[m] # "idle" BY <1>17 DEF PublishDeadLetter, GiveUpRaises
  <2>2. event[m] \in Events BY <1>0, <2>1 DEF MessageOK
  <2>3. StoreTyped' /\ UNCHANGED <<outboxVars, messageVars>>
    BY <1>a, <1>17, <2>2 DEF PublishDeadLetter, GiveUpRaises, StoreTyped, storeVars
  <2>4. Goto(m, "ack") \/ Goto(m, "hung") BY <1>17 DEF PublishDeadLetter, GiveUpRaises
  <2>5. /\ "ack" \in Labels /\ "ack" \notin AtRoute
        /\ "hung" \in Labels /\ "hung" \notin AtRoute
    BY DEF Labels, AtRoute
  <2>6. QED BY <2>1, <2>3, <2>4, <2>5, GotoKeepsBase
<1>18. ASSUME NEW m \in Copies, Ack(m) PROVE BaseInv'
  BY <1>0, <1>18 DEF Ack, BaseInv, TypeOK, MessageOK, PublisherOK, outboxVars, storeVars, AtRoute, Labels, Routes
<1>19. ASSUME NEW w \in Workers, Crash(w) PROVE BaseInv'
  BY <1>0, <1>19, BackboneAssumption DEF Crash, BaseInv, TypeOK, MessageOK, PublisherOK, storeVars, AtRoute, Labels, Routes
<1>20. CASE UNCHANGED vars
  BY <1>0, <1>20 DEF BaseInv, TypeOK, MessageOK, PublisherOK, vars, outboxVars, messageVars, taskVars, storeVars, Routes
<1>21. QED
  BY <1>1, <1>2, <1>3, <1>4, <1>5, <1>6, <1>7, <1>8, <1>9, <1>10, <1>11, <1>12, <1>13,
     <1>14, <1>15, <1>16, <1>17, <1>18, <1>19, <1>20
  DEF Next, PublisherStep, TaskStep, BrokerStep, Fault

\* Every variable keeps its type in every behaviour, for any routes, workers
\* and bounds.
THEOREM TypeCorrect == Spec => []TypeOK
<1>1. Spec => []BaseInv BY BaseInit, BaseStep, PTL DEF Spec
<1>2. BaseInv => TypeOK BY DEF BaseInv
<1>3. QED BY <1>1, <1>2, PTL

(***************************************************************************)
(* Part two: who may touch a key.  A task past its uncommitted INSERT is   *)
(* alone on its key and the key is not processed; a task between claim and *)
(* result is alone on its key and the row is "running".  Neither conjunct  *)
(* of ImmediateExactlyOnce or ClaimIsExclusive is inductive without them.  *)
(***************************************************************************)

AtImmediate == {"insert", "handler"}
AtWork == {"work", "result"}
AtDeferred == {"claim", "work", "result", "skip"}

KindOK ==
  \A m \in Copies :
    /\ pc[m] \in AtImmediate => ~IsDeferred(m)
    /\ pc[m] \in AtDeferred => IsDeferred(m)

HoldOK ==
  \A m \in Copies : pc[m] = "handler" =>
    /\ Key(m) \notin processed
    /\ \A k \in Copies : pc[k] = "handler" /\ Key(k) = Key(m) => k = m

WorkOK ==
  \A m \in Copies : pc[m] \in AtWork =>
    /\ claim[Key(m)] = "running"
    /\ \A k \in Copies : pc[k] \in AtWork /\ Key(k) = Key(m) => k = m

EffectOK ==
  \A key \in Consumers \X Events :
    /\ applied[key] \in {0, 1}
    /\ applied[key] = 1 => key \in processed
    /\ key[1] \notin Deferred /\ key \in processed => applied[key] = 1

SafeInv == KindOK /\ HoldOK /\ WorkOK /\ EffectOK

LEMMA SafeInit == Init => SafeInv
BY DEF Init, SafeInv, KindOK, HoldOK, WorkOK, EffectOK, AtImmediate, AtWork, AtDeferred

\* The key of a task depends on its own message and route only.
LEMMA KeyStable ==
  ASSUME NEW k \in Copies, event'[k] = event[k], route'[k] = route[k]
  PROVE  Key(k)' = Key(k) /\ IsDeferred(k)' = IsDeferred(k)
BY DEF Key, IsDeferred

\* Steps that leave the tables alone, keep the keys of the tasks that hold or
\* run something, and move nobody into such a place.
LEMMA QuietSafe ==
  ASSUME SafeInv, UNCHANGED storeVars,
         \A k \in Copies : pc'[k] \in AtImmediate \cup AtDeferred =>
            pc'[k] = pc[k] /\ event'[k] = event[k] /\ route'[k] = route[k]
  PROVE  SafeInv'
<1>1. \A k \in Copies : pc'[k] \in AtImmediate \cup AtDeferred =>
        pc'[k] = pc[k] /\ Key(k)' = Key(k) /\ IsDeferred(k)' = IsDeferred(k)
  BY KeyStable
<1>2. processed' = processed /\ claim' = claim /\ applied' = applied BY DEF storeVars
<1>3. AtWork \subseteq AtDeferred /\ "handler" \in AtImmediate BY DEF AtWork, AtDeferred, AtImmediate
<1>4. KindOK' BY <1>1 DEF SafeInv, KindOK
<1>5. HoldOK' BY <1>1, <1>2, <1>3 DEF SafeInv, HoldOK
<1>6. WorkOK' BY <1>1, <1>2, <1>3 DEF SafeInv, WorkOK
<1>7. EffectOK' BY <1>2 DEF SafeInv, EffectOK
<1>8. QED BY <1>4, <1>5, <1>6, <1>7 DEF SafeInv

\* The frame of a step of one task: the others keep their label and key.
OnlyTask(m) ==
  /\ event' = event
  /\ \A k \in Copies : k # m => pc'[k] = pc[k] /\ route'[k] = route[k]

LEMMA GotoFrame ==
  ASSUME TypeOK, NEW m \in Copies, NEW label, Goto(m, label), UNCHANGED messageVars
  PROVE  /\ OnlyTask(m) /\ pc'[m] = label /\ route'[m] = route[m]
         /\ \A k \in Copies : Key(k)' = Key(k) /\ IsDeferred(k)' = IsDeferred(k)
<1>1. OnlyTask(m) /\ pc'[m] = label /\ route'[m] = route[m] /\ route' = route
  BY DEF Goto, OnlyTask, TypeOK, messageVars
<1>2. QED BY <1>1, KeyStable DEF OnlyTask

LEMMA NextRouteFrame ==
  ASSUME BaseInv, NEW m \in Copies, pc[m] \in AtRoute, NextRoute(m), UNCHANGED messageVars
  PROVE  /\ OnlyTask(m) /\ pc'[m] \notin AtImmediate \cup AtDeferred
         /\ \A k \in Copies : k # m => Key(k)' = Key(k) /\ IsDeferred(k)' = IsDeferred(k)
<1>1. OnlyTask(m) /\ pc'[m] \notin AtImmediate \cup AtDeferred
  BY NextRouteMoves DEF OnlyTask, messageVars, AtImmediate, AtDeferred
<1>2. QED BY <1>1, KeyStable DEF OnlyTask

\* A task that leaves every guarded place keeps SafeInv when the tables do
\* not change.
LEMMA LeaveSafe ==
  ASSUME SafeInv, NEW m \in Copies, OnlyTask(m), UNCHANGED storeVars,
         pc'[m] \notin AtImmediate \cup AtDeferred
  PROVE  SafeInv'
BY QuietSafe DEF OnlyTask

\* The effect of a step that commits the marker of one immediate task.
LEMMA ImmediateCommitSafe ==
  ASSUME BaseInv, SafeInv, NEW m \in Copies, pc[m] = "handler", CommitEffect(m),
         claim' = claim, OnlyTask(m), pc'[m] \notin AtImmediate \cup AtDeferred,
         \A k \in Copies : k # m => Key(k)' = Key(k) /\ IsDeferred(k)' = IsDeferred(k)
  PROVE  SafeInv'
<1>1. Key(m) \in Consumers \X Events /\ Key(m)[1] \notin Deferred
  BY KeyType DEF BaseInv, SafeInv, KindOK, AtImmediate, AtRoute, IsDeferred
<1>2. AtWork \subseteq AtDeferred /\ "handler" \in AtImmediate BY DEF AtWork, AtDeferred, AtImmediate
<1>3. KindOK' BY DEF SafeInv, KindOK, OnlyTask
<1>4. HoldOK' BY <1>2 DEF SafeInv, HoldOK, OnlyTask, CommitEffect
<1>5. WorkOK' BY <1>2 DEF SafeInv, WorkOK, OnlyTask
<1>6. EffectOK'
  <2>1. applied[Key(m)] = 0 BY <1>1 DEF SafeInv, EffectOK, HoldOK
  <2>2. QED BY <1>1, <2>1 DEF SafeInv, EffectOK, CommitEffect, BaseInv, TypeOK
<1>7. QED BY <1>3, <1>4, <1>5, <1>6 DEF SafeInv

LEMMA SafeStep == BaseInv /\ SafeInv /\ [Next]_vars => SafeInv'
<1> SUFFICES ASSUME BaseInv, SafeInv, [Next]_vars PROVE SafeInv'
  OBVIOUS
<1>0. TypeOK /\ MessageOK /\ KindOK /\ HoldOK /\ WorkOK /\ EffectOK BY DEF BaseInv, SafeInv
<1>a. AtWork \subseteq AtDeferred /\ "handler" \in AtImmediate BY DEF AtWork, AtDeferred, AtImmediate
<1>1. ASSUME NEW e \in Events, Emit(e) PROVE SafeInv'
  BY <1>1, QuietSafe DEF Emit, messageVars, taskVars
<1>2. ASSUME NEW w \in Workers, SelectPending(w) \/ CommitPublished(w) PROVE SafeInv'
  BY <1>2, QuietSafe DEF SelectPending, CommitPublished, messageVars, taskVars
<1>3. ASSUME NEW w \in Workers, NEW e \in Events, PublishConfirmed(w, e) \/ PublishFails(w, e)
      PROVE SafeInv'
  <2>1. UNCHANGED storeVars /\ UNCHANGED taskVars
    BY <1>3 DEF PublishConfirmed, PublishFails
  <2>2. UNCHANGED event \/ \E n \in Copies : NextCopy(n) /\ Enqueue(n, e)
    BY <1>3 DEF PublishConfirmed, PublishFails, messageVars
  <2>3. ASSUME NEW k \in Copies, pc'[k] \in AtImmediate \cup AtDeferred
        PROVE  pc'[k] = pc[k] /\ event'[k] = event[k] /\ route'[k] = route[k]
    <3>1. pc'[k] = pc[k] /\ route'[k] = route[k] BY <2>1 DEF taskVars
    <3>2. place[k] # "unused" BY <1>0, <2>3, <3>1 DEF MessageOK, AtImmediate, AtDeferred
    <3>3. event'[k] = event[k] BY <1>0, <2>2, <3>2 DEF NextCopy, Enqueue, TypeOK
    <3>4. QED BY <3>1, <3>3
  <2>4. QED BY <2>1, <2>3, QuietSafe
<1>4. ASSUME NEW m \in Copies, NEW w \in Workers, Deliver(m, w) PROVE SafeInv'
  <2>1. OnlyTask(m) BY <1>0, <1>4 DEF Deliver, OnlyTask, TypeOK
  <2>2. pc'[m] \notin AtImmediate \cup AtDeferred
    BY <1>0, <1>4 DEF Deliver, TypeOK, AtImmediate, AtDeferred
  <2>3. QED BY <1>4, <2>1, <2>2, LeaveSafe DEF Deliver
<1>5. ASSUME NEW m \in Copies, CheckProcessed(m) PROVE SafeInv'
  <2>1. pc[m] \in AtRoute BY <1>5 DEF CheckProcessed, AtRoute
  <2>2. UNCHANGED messageVars /\ UNCHANGED storeVars BY <1>5 DEF CheckProcessed
  <2>3. CASE NextRoute(m) BY <2>1, <2>2, <2>3, NextRouteFrame, LeaveSafe
  <2>4. CASE Goto(m, IF IsDeferred(m) THEN "claim" ELSE "insert")
    <3>1. /\ OnlyTask(m) /\ pc'[m] = IF IsDeferred(m) THEN "claim" ELSE "insert"
          /\ \A k \in Copies : Key(k)' = Key(k) /\ IsDeferred(k)' = IsDeferred(k)
      BY <1>0, <2>2, <2>4, GotoFrame
    <3>2. KindOK' BY <1>0, <3>1 DEF KindOK, OnlyTask, AtImmediate, AtDeferred
    <3>3. HoldOK' BY <1>0, <2>2, <3>1 DEF HoldOK, OnlyTask, storeVars
    <3>4. WorkOK' BY <1>0, <2>2, <3>1 DEF WorkOK, OnlyTask, storeVars, AtWork
    <3>5. EffectOK' BY <1>0, <2>2 DEF EffectOK, storeVars
    <3>6. QED BY <3>2, <3>3, <3>4, <3>5 DEF SafeInv
  <2>5. QED BY <1>5, <2>3, <2>4 DEF CheckProcessed
<1>6. ASSUME NEW m \in Copies, InsertMarker(m) PROVE SafeInv'
  <2>1. pc[m] \in AtRoute /\ pc[m] \in AtImmediate BY <1>6 DEF InsertMarker, AtRoute, AtImmediate
  <2>2. UNCHANGED messageVars /\ UNCHANGED storeVars BY <1>6 DEF InsertMarker
  <2>3. CASE NextRoute(m) BY <2>1, <2>2, <2>3, NextRouteFrame, LeaveSafe
  <2>4. CASE Goto(m, "handler") /\ Key(m) \notin processed
    <3>1. /\ OnlyTask(m) /\ pc'[m] = "handler"
          /\ \A k \in Copies : Key(k)' = Key(k) /\ IsDeferred(k)' = IsDeferred(k)
      BY <1>0, <2>2, <2>4, GotoFrame
    <3>2. \A k \in Copies : k # m /\ pc[k] = "handler" => Key(k) # Key(m)
      BY <1>6 DEF InsertMarker, KeyHeld
    <3>3. KindOK' BY <1>0, <2>1, <3>1 DEF KindOK, OnlyTask, AtImmediate, AtDeferred
    <3>4. HoldOK' BY <1>0, <2>2, <2>4, <3>1, <3>2 DEF HoldOK, OnlyTask, storeVars
    <3>5. WorkOK' BY <1>0, <2>2, <3>1 DEF WorkOK, OnlyTask, storeVars, AtWork
    <3>6. EffectOK' BY <1>0, <2>2 DEF EffectOK, storeVars
    <3>7. QED BY <3>3, <3>4, <3>5, <3>6 DEF SafeInv
  <2>5. QED BY <1>6, <2>3, <2>4 DEF InsertMarker, KeyTaken
<1>7. ASSUME NEW m \in Copies, HandlerCommits(m) PROVE SafeInv'
  <2>1. pc[m] \in AtRoute BY <1>7 DEF HandlerCommits, AtRoute
  <2>2. /\ OnlyTask(m) /\ pc'[m] \notin AtImmediate \cup AtDeferred
        /\ \A k \in Copies : k # m => Key(k)' = Key(k) /\ IsDeferred(k)' = IsDeferred(k)
    BY <1>7, <2>1, NextRouteFrame DEF HandlerCommits
  <2>3. QED BY <1>7, <2>2, ImmediateCommitSafe DEF HandlerCommits
<1>8. ASSUME NEW m \in Copies, CommitReplyLost(m) PROVE SafeInv'
  <2>1. /\ OnlyTask(m) /\ pc'[m] = "failed"
        /\ \A k \in Copies : Key(k)' = Key(k) /\ IsDeferred(k)' = IsDeferred(k)
    BY <1>0, <1>8, GotoFrame DEF CommitReplyLost
  <2>2. "failed" \notin AtImmediate \cup AtDeferred BY DEF AtImmediate, AtDeferred
  <2>3. QED BY <1>8, <2>1, <2>2, ImmediateCommitSafe DEF CommitReplyLost
<1>9. ASSUME NEW m \in Copies, HandlerRaises(m) PROVE SafeInv'
  <2>1. OnlyTask(m) /\ pc'[m] = "failed" BY <1>0, <1>9, GotoFrame DEF HandlerRaises
  <2>2. QED BY <1>9, <2>1, LeaveSafe DEF HandlerRaises, AtImmediate, AtDeferred
<1>10. ASSUME NEW m \in Copies, ClaimWork(m) PROVE SafeInv'
  <2>1. pc[m] = "claim" /\ pc[m] \in AtDeferred /\ Key(m) \in Consumers \X Events
    BY <1>0, <1>10, KeyType DEF ClaimWork, AtDeferred, AtRoute
  <2>2. UNCHANGED <<messageVars, processed, applied>> BY <1>10 DEF ClaimWork
  <2>3. CASE Claimable(m)
    <3>1. claim' = [claim EXCEPT ![Key(m)] = "running"] /\ Goto(m, "work")
      BY <1>10, <2>3 DEF ClaimWork
    <3>2. /\ OnlyTask(m) /\ pc'[m] = "work"
          /\ \A k \in Copies : Key(k)' = Key(k) /\ IsDeferred(k)' = IsDeferred(k)
      BY <1>0, <2>2, <3>1, GotoFrame
    <3>3. \A k \in Copies : pc[k] \in AtWork => Key(k) # Key(m)
      BY <1>0, <2>3 DEF WorkOK, Claimable
    <3>4. KindOK' BY <1>0, <2>1, <3>2 DEF KindOK, OnlyTask, AtImmediate, AtDeferred
    <3>5. HoldOK' BY <1>0, <2>2, <3>2 DEF HoldOK, OnlyTask
    <3>6. WorkOK' BY <1>0, <2>1, <3>1, <3>2, <3>3 DEF WorkOK, OnlyTask, TypeOK, AtWork
    <3>7. EffectOK' BY <1>0, <2>2 DEF EffectOK
    <3>8. QED BY <3>4, <3>5, <3>6, <3>7 DEF SafeInv
  <2>4. CASE ~Claimable(m)
    <3>1. claim' = claim /\ Goto(m, "skip") BY <1>10, <2>4 DEF ClaimWork
    <3>2. /\ OnlyTask(m) /\ pc'[m] = "skip"
          /\ \A k \in Copies : Key(k)' = Key(k) /\ IsDeferred(k)' = IsDeferred(k)
      BY <1>0, <2>2, <3>1, GotoFrame
    <3>3. KindOK' BY <1>0, <2>1, <3>2 DEF KindOK, OnlyTask, AtImmediate, AtDeferred
    <3>4. HoldOK' BY <1>0, <2>2, <3>2 DEF HoldOK, OnlyTask
    <3>5. WorkOK' BY <1>0, <3>1, <3>2 DEF WorkOK, OnlyTask, AtWork
    <3>6. EffectOK' BY <1>0, <2>2 DEF EffectOK
    <3>7. QED BY <3>3, <3>4, <3>5, <3>6 DEF SafeInv
  <2>5. QED BY <2>3, <2>4
<1>11. ASSUME NEW m \in Copies, WorkSucceeds(m) PROVE SafeInv'
  <2>1. /\ OnlyTask(m) /\ pc[m] = "work" /\ pc'[m] = "result" /\ UNCHANGED storeVars
        /\ \A k \in Copies : Key(k)' = Key(k) /\ IsDeferred(k)' = IsDeferred(k)
    BY <1>0, <1>11, GotoFrame DEF WorkSucceeds
  <2>2. KindOK' BY <1>0, <2>1 DEF KindOK, OnlyTask, AtImmediate, AtDeferred
  <2>3. HoldOK' BY <1>0, <2>1 DEF HoldOK, OnlyTask, storeVars
  <2>4. WorkOK' BY <1>0, <2>1 DEF WorkOK, OnlyTask, AtWork, storeVars
  <2>5. EffectOK' BY <1>0, <2>1 DEF EffectOK, storeVars
  <2>6. QED BY <2>2, <2>3, <2>4, <2>5 DEF SafeInv
<1>12. ASSUME NEW m \in Copies, WorkFails(m) PROVE SafeInv'
  <2>1. /\ OnlyTask(m) /\ pc[m] = "work" /\ pc'[m] = "failed"
        /\ \A k \in Copies : Key(k)' = Key(k) /\ IsDeferred(k)' = IsDeferred(k)
    BY <1>0, <1>12, GotoFrame DEF WorkFails
  <2>2. "failed" \notin AtWork /\ "failed" \notin AtImmediate \cup AtDeferred /\ "work" \in AtWork
    BY DEF AtImmediate, AtDeferred, AtWork
  <2>3. /\ claim' = [claim EXCEPT ![Key(m)] = "queued"]
        /\ processed' = processed /\ applied' = applied
    BY <1>12 DEF WorkFails
  <2>4. \A k \in Copies : k # m /\ pc[k] \in AtWork => claim'[Key(k)] = claim[Key(k)]
    BY <1>0, <2>1, <2>2, <2>3 DEF WorkOK, TypeOK
  <2>5. KindOK' BY <1>0, <2>1, <2>2 DEF KindOK, OnlyTask
  <2>6. HoldOK' BY <1>0, <2>1, <2>3 DEF HoldOK, OnlyTask
  <2>7. WorkOK' BY <1>0, <2>1, <2>2, <2>4 DEF WorkOK, OnlyTask
  <2>8. EffectOK' BY <1>0, <2>3 DEF EffectOK
  <2>9. QED BY <2>5, <2>6, <2>7, <2>8 DEF SafeInv
<1>13. ASSUME NEW m \in Copies, CommitDeferred(m) PROVE SafeInv'
  <2>1. pc[m] \in AtRoute /\ pc[m] \in AtDeferred BY <1>13 DEF CommitDeferred, AtRoute, AtDeferred
  <2>2. /\ Key(m) \in Consumers \X Events /\ Key(m)[1] \in Deferred
        /\ \A k \in Copies : pc[k] = "handler" => Key(k)[1] \notin Deferred
    BY <1>0, <2>1, KeyType DEF KindOK, IsDeferred, AtImmediate, AtRoute
  <2>3. /\ OnlyTask(m) /\ pc'[m] \notin AtImmediate \cup AtDeferred
        /\ \A k \in Copies : k # m => Key(k)' = Key(k) /\ IsDeferred(k)' = IsDeferred(k)
    BY <1>13, <2>1, NextRouteFrame DEF CommitDeferred
  <2>4. CASE KeyTaken(m) BY <1>13, <2>3, <2>4, LeaveSafe DEF CommitDeferred
  <2>5. CASE ~KeyTaken(m)
    <3>1. processed' = processed \cup {Key(m)} BY <1>13, <2>5 DEF CommitDeferred
    <3>2. applied[Key(m)] = 0 BY <1>0, <2>2, <2>5 DEF EffectOK, KeyTaken
    <3>3. KindOK' BY <1>0, <2>3 DEF KindOK, OnlyTask
    <3>4. HoldOK' BY <1>0, <1>a, <2>2, <2>3, <3>1 DEF HoldOK, OnlyTask
    <3>5. \A k \in Copies : k # m /\ pc[k] \in AtWork => claim'[Key(k)] = claim[Key(k)]
      <4>1. CASE pc[m] = "result"
        <5>1. claim' = [claim EXCEPT ![Key(m)] = "done"] BY <1>13, <2>5, <4>1 DEF CommitDeferred
        <5>2. \A k \in Copies : k # m /\ pc[k] \in AtWork => Key(k) # Key(m)
          BY <1>0, <4>1 DEF WorkOK, AtWork
        <5>3. QED BY <1>0, <5>1, <5>2 DEF TypeOK
      <4>2. CASE pc[m] # "result"
        BY <1>13, <2>5, <4>2 DEF CommitDeferred
      <4>3. QED BY <4>1, <4>2
    <3>6. WorkOK' BY <1>0, <1>a, <2>3, <3>5 DEF WorkOK, OnlyTask
    <3>7. EffectOK'
      <4>1. applied' = applied \/ applied' = [applied EXCEPT ![Key(m)] = @ + 1]
        BY <1>13, <2>5 DEF CommitDeferred
      <4>2. QED BY <1>0, <2>2, <3>1, <3>2, <4>1 DEF EffectOK, TypeOK
    <3>8. QED BY <3>3, <3>4, <3>6, <3>7 DEF SafeInv
  <2>6. QED BY <2>4, <2>5
<1>14. ASSUME NEW m \in Copies, RejectDelivery(m) \/ Ack(m) PROVE SafeInv'
  <2>1. OnlyTask(m) /\ pc'[m] = "idle" /\ UNCHANGED storeVars
    BY <1>0, <1>14 DEF RejectDelivery, Ack, OnlyTask, TypeOK
  <2>2. QED BY <2>1, LeaveSafe DEF AtImmediate, AtDeferred
<1>15. ASSUME NEW m \in Copies, ExpireDelay(m) PROVE SafeInv'
  BY <1>15, QuietSafe DEF ExpireDelay, taskVars
<1>16. ASSUME NEW m \in Copies, GiveUp(m) \/ PublishDeadLetter(m) \/ GiveUpRaises(m)
       PROVE SafeInv'
  <2>1. PICK label \in {"terminal", "deadletter", "ack", "hung"} : Goto(m, label)
    BY <1>16 DEF GiveUp, PublishDeadLetter, GiveUpRaises
  <2>2. OnlyTask(m) /\ pc'[m] = label
    BY <1>0, <1>16, <2>1, GotoFrame DEF GiveUp, PublishDeadLetter, GiveUpRaises
  <2>3. QED BY <1>16, <2>2, LeaveSafe
        DEF GiveUp, PublishDeadLetter, GiveUpRaises, AtImmediate, AtDeferred
<1>17. ASSUME NEW m \in Copies, TerminalHandler(m) PROVE SafeInv'
  <2>1. /\ OnlyTask(m) /\ pc'[m] = "deadletter"
        /\ \A k \in Copies : Key(k)' = Key(k) /\ IsDeferred(k)' = IsDeferred(k)
    BY <1>0, <1>17, GotoFrame DEF TerminalHandler
  <2>2. "deadletter" \notin AtWork /\ "deadletter" \notin AtImmediate \cup AtDeferred
    BY DEF AtImmediate, AtDeferred, AtWork
  <2>3. /\ claim' = [claim EXCEPT ![Key(m)] = IF Claimable(m) THEN "failed" ELSE @]
        /\ processed' = processed /\ applied' = applied
    BY <1>17 DEF TerminalHandler
  <2>4. \A k \in Copies : pc[k] \in AtWork => claim'[Key(k)] = claim[Key(k)]
    <3>1. SUFFICES ASSUME NEW k \in Copies, pc[k] \in AtWork PROVE claim'[Key(k)] = claim[Key(k)]
      OBVIOUS
    <3>2. claim[Key(k)] = "running" /\ Key(k) \in Consumers \X Events
      BY <1>0, <3>1, KeyType DEF WorkOK, AtWork, AtRoute
    <3>3. QED BY <1>0, <2>3, <3>2 DEF Claimable, TypeOK
  <2>5. KindOK' BY <1>0, <2>1, <2>2 DEF KindOK, OnlyTask
  <2>6. HoldOK' BY <1>0, <2>1, <2>3 DEF HoldOK, OnlyTask
  <2>7. WorkOK' BY <1>0, <2>1, <2>2, <2>4 DEF WorkOK, OnlyTask
  <2>8. EffectOK' BY <1>0, <2>3 DEF EffectOK
  <2>9. QED BY <2>5, <2>6, <2>7, <2>8 DEF SafeInv
<1>18. ASSUME NEW w \in Workers, Crash(w) PROVE SafeInv'
  <2>1. \A k \in Copies : pc'[k] # "idle" => pc'[k] = pc[k]
    BY <1>18 DEF Crash
  <2>2. "idle" \notin AtImmediate \cup AtDeferred BY DEF AtImmediate, AtDeferred
  <2>3. QED BY <1>18, <2>1, <2>2, QuietSafe DEF Crash
<1>19. CASE UNCHANGED vars
  BY <1>19, QuietSafe DEF vars, messageVars, taskVars
<1>20. QED
  BY <1>1, <1>2, <1>3, <1>4, <1>5, <1>6, <1>7, <1>8, <1>9, <1>10, <1>11, <1>12, <1>13,
     <1>14, <1>15, <1>16, <1>17, <1>18, <1>19
  DEF Next, PublisherStep, TaskStep, BrokerStep, Fault

LEMMA Safe == Spec => [](BaseInv /\ SafeInv)
<1>1. Init => BaseInv /\ SafeInv BY BaseInit, SafeInit
<1>2. BaseInv /\ SafeInv /\ [Next]_vars => (BaseInv /\ SafeInv)' BY BaseStep, SafeStep
<1>3. QED BY <1>1, <1>2, PTL DEF Spec

\* A handler that shares the transaction of its processed_events row commits
\* its effect exactly once for an event, under any duplicates and crashes.
THEOREM ImmediateEffects == Spec => []ImmediateExactlyOnce
<1>1. SafeInv => ImmediateExactlyOnce BY DEF SafeInv, EffectOK, ImmediateExactlyOnce
<1>2. QED BY <1>1, Safe, PTL

\* The work of a deferred handler is never run by two deliveries at once.
THEOREM ExclusiveClaims == Spec => []ClaimIsExclusive
<1>1. SafeInv => ClaimIsExclusive BY DEF SafeInv, WorkOK, AtWork, ClaimIsExclusive
<1>2. QED BY <1>1, Safe, PTL

(***************************************************************************)
(* Part three: nothing is lost and no route is overtaken.  What a loop has *)
(* confirmed is in a message, a task has the routes before its own behind  *)
(* it, and a task about to acknowledge has settled its event.              *)
(***************************************************************************)

Working == AtRoute \ {"terminal"}

Stored(e) == \E m \in Copies : event[m] = e

StoredOK ==
  /\ \A m \in Copies : place[m] = "unused" => event[m] = NoEvent
  /\ \A w \in Workers : \A e \in confirmed[w] : Stored(e)
  /\ PublishedIsStored

Behind(m) ==
  \A i \in Routes(event[m]) : i < route[m] => <<RoutesOf[event[m]][i], event[m]>> \in processed

Passed(m) ==
  /\ pc[m] \in Working => Behind(m)
  /\ pc[m] = "ack" \/ place[m] = "acked" => Handled(event[m]) \/ event[m] \in dlq

ProgressOK == (\A m \in Copies : Passed(m)) /\ RouteOrder

LEMMA DeliveryInit == Init => StoredOK /\ ProgressOK
BY DEF Init, StoredOK, PublishedIsStored, ProgressOK, Passed, Working, AtRoute, RouteOrder

\* An event stays in the message it was published with.
LEMMA StoredStays ==
  ASSUME BaseInv, StoredOK, NEW e \in Events, Stored(e),
         event' = event \/ \E m \in Copies, f \in Events : NextCopy(m) /\ Enqueue(m, f)
  PROVE  Stored(e)'
<1>1. CASE event' = event BY <1>1 DEF Stored
<1>2. CASE \E m \in Copies, f \in Events : NextCopy(m) /\ Enqueue(m, f)
  <2>1. PICK m \in Copies, f \in Events : NextCopy(m) /\ Enqueue(m, f) BY <1>2
  <2>2. PICK k \in Copies : event[k] = e BY DEF Stored
  <2>3. k # m BY <2>1, <2>2, BackboneAssumption DEF StoredOK, NextCopy
  <2>4. event'[k] = e BY <2>1, <2>2, <2>3 DEF Enqueue, BaseInv, TypeOK
  <2>5. QED BY <2>4 DEF Stored
<1>3. QED BY <1>1, <1>2

LEMMA StoredQuiet ==
  ASSUME StoredOK, UNCHANGED <<event, outbox, confirmed>>,
         \A m \in Copies : place'[m] = "unused" => place[m] = "unused"
  PROVE  StoredOK'
BY DEF StoredOK, PublishedIsStored, Stored

LEMMA StoredStep == BaseInv /\ StoredOK /\ [Next]_vars => StoredOK'
<1> SUFFICES ASSUME BaseInv, StoredOK, [Next]_vars PROVE StoredOK'
  OBVIOUS
<1>0. TypeOK /\ PublisherOK BY DEF BaseInv
<1>1. ASSUME NEW e \in Events, Emit(e) PROVE StoredOK'
  BY <1>0, <1>1 DEF Emit, StoredOK, PublishedIsStored, Stored, messageVars, TypeOK
<1>2. ASSUME NEW w \in Workers, SelectPending(w) PROVE StoredOK'
  BY <1>2, StoredQuiet DEF SelectPending, messageVars
<1>3. ASSUME NEW w \in Workers, NEW e \in Events, PublishConfirmed(w, e) PROVE StoredOK'
  <2>1. PICK m \in Copies : NextCopy(m) /\ Enqueue(m, e) BY <1>3 DEF PublishConfirmed
  <2>2. \A f \in Events : Stored(f) => Stored(f)' BY <2>1, StoredStays
  <2>3. Stored(e)' BY <1>0, <2>1 DEF Enqueue, Stored, TypeOK
  <2>4. \A k \in Copies : place'[k] = "unused" => event'[k] = NoEvent
    BY <1>0, <2>1 DEF Enqueue, StoredOK, TypeOK
  <2>5. \A v \in Workers : \A f \in confirmed'[v] : f = e \/ f \in confirmed[v]
    BY <1>0, <1>3 DEF PublishConfirmed, TypeOK
  <2>6. \A v \in Workers : \A f \in confirmed'[v] : Stored(f)'
    BY <1>0, <2>2, <2>3, <2>5 DEF StoredOK, TypeOK
  <2>7. PublishedIsStored'
    BY <1>3, <2>2 DEF PublishConfirmed, StoredOK, PublishedIsStored, Stored
  <2>8. QED BY <2>4, <2>6, <2>7 DEF StoredOK
<1>4. ASSUME NEW w \in Workers, NEW e \in Events, PublishFails(w, e) PROVE StoredOK'
  <2>1. CASE UNCHANGED messageVars
    BY <1>4, <2>1, StoredQuiet DEF PublishFails, messageVars
  <2>2. CASE \E m \in Copies : NextCopy(m) /\ Enqueue(m, e)
    <3>1. PICK m \in Copies : NextCopy(m) /\ Enqueue(m, e) BY <2>2
    <3>2. \A f \in Events : Stored(f) => Stored(f)' BY <3>1, StoredStays
    <3>3. \A k \in Copies : place'[k] = "unused" => event'[k] = NoEvent
      BY <1>0, <3>1 DEF Enqueue, StoredOK, TypeOK
    <3>4. \A v \in Workers : \A f \in confirmed'[v] : Stored(f)'
      BY <1>0, <1>4, <3>2 DEF PublishFails, StoredOK, TypeOK
    <3>5. PublishedIsStored'
      BY <1>4, <3>2 DEF PublishFails, StoredOK, PublishedIsStored, Stored
    <3>6. QED BY <3>3, <3>4, <3>5 DEF StoredOK
  <2>3. QED BY <1>4, <2>1, <2>2 DEF PublishFails
<1>5. ASSUME NEW w \in Workers, CommitPublished(w) PROVE StoredOK'
  BY <1>0, <1>5 DEF CommitPublished, StoredOK, PublishedIsStored, Stored, messageVars, TypeOK
<1>6. ASSUME NEW m \in Copies, TaskStep(m) PROVE StoredOK'
  <2>1. UNCHANGED <<event, outbox, confirmed>>
        /\ \A k \in Copies : place'[k] = "unused" => place[k] = "unused"
    BY <1>0, <1>6 DEF TaskStep, CheckProcessed, InsertMarker, HandlerCommits, HandlerRaises, ClaimWork,
      WorkSucceeds, WorkFails, CommitDeferred, RejectDelivery, GiveUp, TerminalHandler,
      PublishDeadLetter, Ack, outboxVars, messageVars, TypeOK
  <2>2. QED BY <2>1, StoredQuiet
<1>7. ASSUME NEW m \in Copies, BrokerStep(m) PROVE StoredOK'
  BY <1>0, <1>7, StoredQuiet DEF BrokerStep, ExpireDelay, Deliver, outboxVars, TypeOK
<1>8. ASSUME NEW w \in Workers, Crash(w) PROVE StoredOK'
  <2>1. \A v \in Workers : confirmed'[v] \subseteq confirmed[v] BY <1>0, <1>8 DEF Crash, TypeOK
  <2>2. \A k \in Copies : place'[k] = "unused" => place[k] = "unused" BY <1>8 DEF Crash
  <2>3. QED BY <1>8, <2>1, <2>2 DEF Crash, StoredOK, PublishedIsStored, Stored
<1>9. ASSUME NEW m \in Copies, CommitReplyLost(m) \/ GiveUpRaises(m) PROVE StoredOK'
  BY <1>9, StoredQuiet DEF CommitReplyLost, GiveUpRaises, outboxVars, messageVars
<1>10. CASE UNCHANGED vars
  BY <1>10, StoredQuiet DEF vars, outboxVars, messageVars
<1>11. QED BY <1>1, <1>2, <1>3, <1>4, <1>5, <1>6, <1>7, <1>8, <1>9, <1>10 DEF Next, PublisherStep, Fault

\* A message that stays where it is, or is left by its task, keeps what it has
\* passed.
LEMMA StillPassed ==
  ASSUME NEW k \in Copies, Passed(k), event'[k] = event[k], route'[k] = route[k],
         pc'[k] = pc[k] \/ pc'[k] \notin Working \cup {"ack"},
         place'[k] = "acked" => place[k] = "acked",
         processed \subseteq processed', dlq \subseteq dlq'
  PROVE  Passed(k)'
<1>1. Behind(k) => Behind(k)' BY DEF Behind, Routes
<1>2. Handled(event[k]) => Handled(event[k])' BY DEF Handled, Routes
<1>3. QED BY <1>1, <1>2 DEF Passed, Handled, Routes

LEMMA OthersPass ==
  ASSUME ProgressOK, NEW m \in Copies, OnlyTask(m), Passed(m)', RouteOrder',
         \A k \in Copies : k # m => place'[k] = place[k],
         processed \subseteq processed', dlq \subseteq dlq'
  PROVE  ProgressOK'
BY StillPassed DEF ProgressOK, OnlyTask

\* A marker for a route is committed when those before it are.
LEMMA OrderGrows ==
  ASSUME BaseInv, ProgressOK, NEW m \in Copies, pc[m] \in Working,
         processed' = processed \/ processed' = processed \cup {Key(m)}
  PROVE  RouteOrder'
<1>1. CASE processed' = processed BY <1>1 DEF ProgressOK, RouteOrder
<1>2. CASE processed' = processed \cup {Key(m)}
  <2>1. Behind(m) BY DEF ProgressOK, Passed
  <2>2. /\ event[m] \in Events /\ route[m] \in Routes(event[m])
        /\ Key(m) = <<RoutesOf[event[m]][route[m]], event[m]>>
    BY KeyType DEF BaseInv, Working, Routes, Key
  <2>3. SUFFICES ASSUME NEW e \in Events, NEW i \in Routes(e), NEW j \in Routes(e), i < j,
                        <<RoutesOf[e][j], e>> \in processed'
                 PROVE  <<RoutesOf[e][i], e>> \in processed'
    BY DEF RouteOrder
  <2>4. CASE <<RoutesOf[e][j], e>> \in processed
    BY <1>2, <2>3, <2>4 DEF ProgressOK, RouteOrder
  <2>5. CASE <<RoutesOf[e][j], e>> = Key(m)
    <3>1. e = event[m] /\ RoutesOf[e][j] = RoutesOf[e][route[m]] BY <2>2, <2>5
    <3>2. j = route[m] BY <2>2, <2>3, <3>1, BackboneAssumption DEF Routes
    <3>3. QED BY <1>2, <2>1, <2>3, <3>1, <3>2 DEF Behind
  <2>6. QED BY <1>2, <2>3, <2>4, <2>5
<1>3. QED BY <1>1, <1>2

\* consume_once has returned with the marker in the table: the next route has
\* one more behind it, and after the last one the event is handled.
LEMMA Advances ==
  ASSUME BaseInv, ProgressOK, NEW m \in Copies, pc[m] \in Working, NextRoute(m),
         UNCHANGED messageVars, Key(m) \in processed', processed \subseteq processed'
  PROVE  Passed(m)'
<1>1. /\ event[m] \in Events /\ RoutesOf[event[m]] \in Seq(Consumers)
      /\ route[m] \in 1..Len(RoutesOf[event[m]])
      /\ Key(m) = <<RoutesOf[event[m]][route[m]], event[m]>>
  BY KeyType DEF BaseInv, Working, Key
<1>2. Len(RoutesOf[event[m]]) \in Nat BY <1>1
<1>3. \A i \in Routes(event[m]) : i =< route[m] => <<RoutesOf[event[m]][i], event[m]>> \in processed'
  <2>1. Behind(m) BY DEF ProgressOK, Passed
  <2>2. QED BY <1>1, <1>2, <2>1 DEF Behind, Routes
<1>4. event' = event /\ place'[m] # "acked"
  BY DEF messageVars, BaseInv, MessageOK, Working, AtRoute
<1>5. pc \in [Copies -> Labels] /\ route \in [Copies -> Nat] BY DEF BaseInv, TypeOK
<1>6. CASE route[m] < Len(RoutesOf[event[m]])
  <2>1. route'[m] = route[m] + 1 /\ pc'[m] = "check" BY <1>5, <1>6 DEF NextRoute
  <2>2. Behind(m)' BY <1>1, <1>2, <1>3, <1>4, <2>1 DEF Behind, Routes
  <2>3. QED BY <1>4, <2>1, <2>2 DEF Passed
<1>7. CASE ~(route[m] < Len(RoutesOf[event[m]]))
  <2>1. pc'[m] = "ack" BY <1>5, <1>7 DEF NextRoute, Goto
  <2>2. Handled(event[m])' BY <1>1, <1>2, <1>3, <1>4, <1>7 DEF Handled, Routes
  <2>3. QED BY <1>4, <2>1, <2>2 DEF Passed, Working, AtRoute
<1>8. QED BY <1>6, <1>7

\* A task that goes to another statement of the same route.
LEMMA SameRoute ==
  ASSUME BaseInv, ProgressOK, NEW m \in Copies, pc[m] \in Working, NEW label \in Working, Goto(m, label),
         UNCHANGED messageVars, processed' = processed, dlq' = dlq
  PROVE  ProgressOK'
<1>1. OnlyTask(m) /\ pc'[m] = label /\ route'[m] = route[m]
  BY GotoFrame DEF BaseInv
<1>2. place' = place /\ event' = event BY DEF messageVars
<1>3. place[m] # "acked" BY DEF BaseInv, MessageOK, Working, AtRoute
<1>4. Passed(m)' BY <1>1, <1>2, <1>3 DEF ProgressOK, Passed, Behind, Routes, Working, AtRoute
<1>5. QED BY <1>1, <1>2, <1>4, OrderGrows, OthersPass

\* A task that has failed owes nothing but its answer to the broker.
LEMMA LeavesRoute ==
  ASSUME BaseInv, ProgressOK, NEW m \in Copies, OnlyTask(m), pc'[m] \notin Working \cup {"ack"},
         place'[m] # "acked", \A k \in Copies : k # m => place'[k] = place[k],
         processed' = processed \/ (pc[m] \in Working /\ processed' = processed \cup {Key(m)}),
         dlq' = dlq
  PROVE  ProgressOK'
<1>1. Passed(m)' BY DEF Passed
<1>2. RouteOrder' BY OrderGrows DEF ProgressOK, RouteOrder
<1>3. QED BY <1>1, <1>2, OthersPass

LEMMA ProgressStep == BaseInv /\ ProgressOK /\ [Next]_vars => ProgressOK'
<1> SUFFICES ASSUME BaseInv, ProgressOK, [Next]_vars PROVE ProgressOK'
  OBVIOUS
<1>0. TypeOK /\ MessageOK BY DEF BaseInv
<1>1. ASSUME UNCHANGED <<event, route, pc, place, processed, dlq>> PROVE ProgressOK'
  BY <1>1, StillPassed DEF ProgressOK, RouteOrder
<1>2. ASSUME NEW w \in Workers, NEW e \in Events, PublishConfirmed(w, e) \/ PublishFails(w, e)
      PROVE  ProgressOK'
  <2>1. UNCHANGED <<route, pc, processed, dlq>>
    BY <1>2 DEF PublishConfirmed, PublishFails, taskVars, storeVars
  <2>2. CASE UNCHANGED messageVars BY <1>1, <2>1, <2>2 DEF messageVars
  <2>3. CASE \E m \in Copies : NextCopy(m) /\ Enqueue(m, e)
    <3>1. PICK m \in Copies : NextCopy(m) /\ Enqueue(m, e) BY <2>3
    <3>2. \A k \in Copies : k # m => event'[k] = event[k] /\ place'[k] = place[k]
      BY <1>0, <3>1 DEF Enqueue, TypeOK
    <3>3. pc'[m] = "idle" /\ place'[m] = "ready"
      BY <1>0, <2>1, <3>1 DEF NextCopy, Enqueue, MessageOK, TypeOK
    <3>4. Passed(m)' BY <3>3 DEF Passed, Working, AtRoute
    <3>5. \A k \in Copies : k # m => Passed(k)' BY <2>1, <3>2, StillPassed DEF ProgressOK
    <3>6. QED BY <2>1, <3>4, <3>5 DEF ProgressOK, RouteOrder
  <2>4. QED BY <1>2, <2>2, <2>3 DEF PublishConfirmed, PublishFails
<1>3. ASSUME NEW w \in Workers, SelectPending(w) \/ CommitPublished(w) PROVE ProgressOK'
  BY <1>1, <1>3 DEF SelectPending, CommitPublished, messageVars, taskVars, storeVars
<1>4. ASSUME NEW e \in Events, Emit(e) PROVE ProgressOK'
  BY <1>1, <1>4 DEF Emit, messageVars, taskVars, storeVars
<1>5. ASSUME NEW m \in Copies, NEW w \in Workers, Deliver(m, w) PROVE ProgressOK'
  <2>1. OnlyTask(m) BY <1>0, <1>5 DEF Deliver, OnlyTask, TypeOK
  <2>2. place' = [place EXCEPT ![m] = "unacked"] /\ processed' = processed /\ dlq' = dlq
    BY <1>5 DEF Deliver, storeVars
  <2>3. /\ pc'[m] = "failed" \/ (pc'[m] = "check" /\ route'[m] = 1)
    BY <1>0, <1>5 DEF Deliver, TypeOK
  <2>4. event[m] \in Events /\ RoutesOf[event[m]] \in Seq(Consumers)
    BY <1>0, <1>5, BackboneAssumption DEF Deliver, MessageOK
  <2>5. event' = event BY <1>5 DEF Deliver
  <2>6. route'[m] = 1 => Behind(m)' BY <2>4, <2>5 DEF Behind, Routes
  <2>7. Passed(m)' BY <1>0, <2>2, <2>3, <2>6 DEF Passed, Working, AtRoute, TypeOK
  <2>8. RouteOrder' BY <2>2 DEF ProgressOK, RouteOrder
  <2>9. \A k \in Copies : k # m => place'[k] = place[k] BY <1>0, <2>2 DEF TypeOK
  <2>10. QED BY <2>1, <2>2, <2>7, <2>8, <2>9, OthersPass
<1>6. ASSUME NEW m \in Copies, pc[m] \in Working, NextRoute(m), UNCHANGED messageVars, dlq' = dlq,
             Key(m) \in processed', processed' = processed \/ processed' = processed \cup {Key(m)}
      PROVE  ProgressOK'
  <2>1. OnlyTask(m) BY <1>6, NextRouteFrame DEF Working
  <2>2. Passed(m)' BY <1>6, Advances
  <2>3. RouteOrder' BY <1>6, OrderGrows
  <2>4. place' = place BY <1>6 DEF messageVars
  <2>5. QED BY <1>6, <2>1, <2>2, <2>3, <2>4, OthersPass
<1>7. ASSUME NEW m \in Copies, NEW label, Goto(m, label), label \notin Working \cup {"ack"},
             pc[m] # "idle", UNCHANGED messageVars, dlq' = dlq,
             processed' = processed \/ (pc[m] \in Working /\ processed' = processed \cup {Key(m)})
      PROVE  ProgressOK'
  <2>1. OnlyTask(m) /\ pc'[m] = label BY <1>0, <1>7, GotoFrame
  <2>2. place' = place /\ place[m] # "acked" BY <1>0, <1>7 DEF messageVars, MessageOK
  <2>3. QED BY <1>7, <2>1, <2>2, LeavesRoute
<1>8. ASSUME NEW m \in Copies, CheckProcessed(m) PROVE ProgressOK'
  <2>1. pc[m] \in Working /\ UNCHANGED messageVars /\ processed' = processed /\ dlq' = dlq
    BY <1>8 DEF CheckProcessed, storeVars, Working, AtRoute
  <2>2. CASE Key(m) \in processed BY <1>6, <1>8, <2>1, <2>2 DEF CheckProcessed
  <2>3. CASE Key(m) \notin processed
    <3>1. PICK label \in {"claim", "insert"} : Goto(m, label) BY <1>8, <2>3 DEF CheckProcessed
    <3>2. label \in Working BY DEF Working, AtRoute
    <3>3. QED BY <2>1, <3>1, <3>2, SameRoute
  <2>4. QED BY <2>2, <2>3
<1>9. ASSUME NEW m \in Copies, InsertMarker(m) PROVE ProgressOK'
  <2>1. pc[m] \in Working /\ UNCHANGED messageVars /\ processed' = processed /\ dlq' = dlq
    BY <1>9 DEF InsertMarker, storeVars, Working, AtRoute
  <2>2. CASE KeyTaken(m) BY <1>6, <1>9, <2>1, <2>2 DEF InsertMarker, KeyTaken
  <2>3. CASE ~KeyTaken(m)
    <3>1. Goto(m, "handler") /\ "handler" \in Working
      BY <1>9, <2>3 DEF InsertMarker, Working, AtRoute
    <3>2. QED BY <2>1, <3>1, SameRoute
  <2>4. QED BY <2>2, <2>3
<1>10. ASSUME NEW m \in Copies, HandlerCommits(m) PROVE ProgressOK'
  <2>1. pc[m] \in Working BY <1>10 DEF HandlerCommits, Working, AtRoute
  <2>2. QED BY <1>6, <1>10, <2>1 DEF HandlerCommits, CommitEffect
<1>11. ASSUME NEW m \in Copies, CommitReplyLost(m) PROVE ProgressOK'
  <2>1. pc[m] \in Working /\ "failed" \notin Working \cup {"ack"} /\ pc[m] # "idle"
    BY <1>11 DEF CommitReplyLost, Working, AtRoute
  <2>2. QED BY <1>7, <1>11, <2>1 DEF CommitReplyLost, CommitEffect
<1>12. ASSUME NEW m \in Copies, HandlerRaises(m) \/ WorkFails(m) PROVE ProgressOK'
  <2>1. "failed" \notin Working \cup {"ack"} /\ pc[m] # "idle"
    BY <1>12 DEF HandlerRaises, WorkFails, Working, AtRoute
  <2>2. QED BY <1>7, <1>12, <2>1 DEF HandlerRaises, WorkFails, storeVars
<1>13. ASSUME NEW m \in Copies, ClaimWork(m) \/ WorkSucceeds(m) PROVE ProgressOK'
  <2>1. PICK label \in {"work", "skip", "result"} : Goto(m, label)
    BY <1>13 DEF ClaimWork, WorkSucceeds
  <2>2. pc[m] \in Working /\ label \in Working
    BY <1>13 DEF ClaimWork, WorkSucceeds, Working, AtRoute
  <2>3. QED BY <1>13, <2>1, <2>2, SameRoute DEF ClaimWork, WorkSucceeds, storeVars
<1>14. ASSUME NEW m \in Copies, CommitDeferred(m) PROVE ProgressOK'
  <2>1. pc[m] \in Working BY <1>14 DEF CommitDeferred, Working, AtRoute
  <2>2. QED BY <1>6, <1>14, <2>1 DEF CommitDeferred, KeyTaken, storeVars
<1>15. ASSUME NEW m \in Copies, RejectDelivery(m) PROVE ProgressOK'
  <2>1. OnlyTask(m) /\ pc'[m] = "idle" /\ place'[m] = "delayed"
        /\ \A k \in Copies : k # m => place'[k] = place[k]
    BY <1>0, <1>15 DEF RejectDelivery, OnlyTask, TypeOK
  <2>2. "idle" \notin Working \cup {"ack"} BY DEF Working, AtRoute
  <2>3. QED BY <1>15, <2>1, <2>2, LeavesRoute DEF RejectDelivery, storeVars
<1>16. ASSUME NEW m \in Copies, ExpireDelay(m) PROVE ProgressOK'
  <2>1. \A k \in Copies : place'[k] = "acked" => place[k] = "acked" BY <1>0, <1>16 DEF ExpireDelay, TypeOK
  <2>2. UNCHANGED <<event, route, pc, processed, dlq>> BY <1>16 DEF ExpireDelay, taskVars, storeVars
  <2>3. QED BY <2>1, <2>2, StillPassed DEF ProgressOK, RouteOrder
<1>17. ASSUME NEW m \in Copies, GiveUp(m) PROVE ProgressOK'
  <2>1. PICK label \in {"terminal", "deadletter"} : Goto(m, label) BY <1>17 DEF GiveUp
  <2>2. label \notin Working \cup {"ack"} /\ pc[m] # "idle" BY <1>17 DEF GiveUp, Working, AtRoute
  <2>3. QED BY <1>7, <1>17, <2>1, <2>2 DEF GiveUp, storeVars
<1>18. ASSUME NEW m \in Copies, TerminalHandler(m) PROVE ProgressOK'
  <2>1. "deadletter" \notin Working \cup {"ack"} /\ pc[m] # "idle"
    BY <1>18 DEF TerminalHandler, Working, AtRoute
  <2>2. QED BY <1>7, <1>18, <2>1 DEF TerminalHandler
<1>19. ASSUME NEW m \in Copies, PublishDeadLetter(m) PROVE ProgressOK'
  <2>1. OnlyTask(m) /\ pc'[m] = "ack" /\ event' = event /\ place' = place /\ processed' = processed
    BY <1>0, <1>19, GotoFrame DEF PublishDeadLetter, messageVars, storeVars
  <2>2. dlq' = dlq \cup {event[m]} BY <1>19 DEF PublishDeadLetter
  <2>3. Passed(m)' BY <2>1, <2>2 DEF Passed, Working, AtRoute
  <2>4. RouteOrder' BY <2>1 DEF ProgressOK, RouteOrder
  <2>5. QED BY <2>1, <2>2, <2>3, <2>4, OthersPass
<1>20. ASSUME NEW m \in Copies, GiveUpRaises(m) PROVE ProgressOK'
  <2>1. "hung" \notin Working \cup {"ack"} /\ pc[m] # "idle" BY <1>20 DEF GiveUpRaises, Working, AtRoute
  <2>2. QED BY <1>7, <1>20, <2>1 DEF GiveUpRaises, storeVars
<1>21. ASSUME NEW m \in Copies, Ack(m) PROVE ProgressOK'
  <2>1. OnlyTask(m) /\ pc'[m] = "idle" /\ event' = event /\ processed' = processed /\ dlq' = dlq
        /\ \A k \in Copies : k # m => place'[k] = place[k]
    BY <1>0, <1>21 DEF Ack, OnlyTask, TypeOK, storeVars
  <2>2. Handled(event[m]) \/ event[m] \in dlq BY <1>21 DEF Ack, ProgressOK, Passed
  <2>3. Passed(m)' BY <2>1, <2>2 DEF Passed, Working, AtRoute, Handled, Routes
  <2>4. RouteOrder' BY <2>1 DEF ProgressOK, RouteOrder
  <2>5. QED BY <2>1, <2>3, <2>4, OthersPass
<1>22. ASSUME NEW w \in Workers, Crash(w) PROVE ProgressOK'
  <2>1. \A k \in Copies : /\ pc'[k] = pc[k] \/ pc'[k] = "idle"
                          /\ place'[k] = "acked" => place[k] = "acked"
    BY <1>22 DEF Crash
  <2>2. "idle" \notin Working \cup {"ack"} BY DEF Working, AtRoute
  <2>3. UNCHANGED <<event, route, processed, dlq>> BY <1>22 DEF Crash, storeVars
  <2>4. QED BY <2>1, <2>2, <2>3, StillPassed DEF ProgressOK, RouteOrder
<1>23. CASE UNCHANGED vars
  BY <1>1, <1>23 DEF vars, messageVars, taskVars, storeVars
<1>24. QED
  BY <1>2, <1>3, <1>4, <1>5, <1>8, <1>9, <1>10, <1>11, <1>12, <1>13, <1>14, <1>15, <1>16,
     <1>17, <1>18, <1>19, <1>20, <1>21, <1>22, <1>23
  DEF Next, PublisherStep, TaskStep, BrokerStep, Fault

LEMMA Delivered == Spec => [](StoredOK /\ ProgressOK)
<1>1. Init => BaseInv /\ StoredOK /\ ProgressOK BY BaseInit, DeliveryInit
<1>2. BaseInv /\ StoredOK /\ ProgressOK /\ [Next]_vars => (BaseInv /\ StoredOK /\ ProgressOK)'
  BY BaseStep, StoredStep, ProgressStep
<1>3. QED BY <1>1, <1>2, PTL DEF Spec

\* No message is lost between the row and the last route of its event, whatever
\* is published twice, crashes or fails, and no route overtakes another.
THEOREM DeliverySound == Spec => []DeliveryIsSound
<1>1. StoredOK /\ ProgressOK => DeliveryIsSound
  BY DEF StoredOK, ProgressOK, Passed, AckMeansSettled, DeliveryIsSound
<1>2. QED BY <1>1, Delivered, PTL

(***************************************************************************)
(* Refinement: every step is a step of ConsumerContract or stutters.       *)
(***************************************************************************)

LEMMA RefinesInit == Init => Promise!ContractInit
BY DEF Init, Promise!ContractInit, Emitted

LEMMA RefinesStep ==
  BaseInv /\ SafeInv /\ [Next]_vars => [Promise!ContractNext]_(Promise!contractVars)
<1> SUFFICES ASSUME BaseInv, SafeInv, [Next]_vars
             PROVE  Promise!ContractNext \/ (Emitted' = Emitted /\ applied' = applied)
  BY DEF Promise!contractVars
<1>0. TypeOK /\ MessageOK /\ KindOK /\ HoldOK /\ EffectOK BY DEF BaseInv, SafeInv
<1>1. ASSUME NEW e \in Events, Emit(e) PROVE Promise!EmitEvent(e)
  BY <1>0, <1>1 DEF Emit, Promise!EmitEvent, Emitted, TypeOK, storeVars
<1>2. ASSUME NEW w \in Workers, CommitPublished(w)
      PROVE  Emitted' = Emitted /\ applied' = applied
  <2>1. \A e \in confirmed[w] : outbox[e] # "absent" BY DEF BaseInv, PublisherOK
  <2>2. QED BY <1>0, <1>2, <2>1 DEF CommitPublished, Emitted, TypeOK, storeVars
<1>3. ASSUME NEW m \in Copies, pc[m] \in AtRoute, Key(m) \notin processed,
             applied' = [applied EXCEPT ![Key(m)] = @ + 1], outbox' = outbox
      PROVE  Promise!ContractNext
  <2>1. /\ Key(m)[1] \in Consumers /\ Key(m)[2] \in Events
        /\ Key(m) = <<Key(m)[1], Key(m)[2]>> /\ Key(m) \in Consumers \X Events
        /\ Key(m)[2] = event[m]
    BY <1>0, <1>3, KeyType DEF Key
  <2>2. applied[Key(m)] = 0 BY <1>0, <1>3, <2>1 DEF EffectOK
  <2>3. Key(m)[2] \in Emitted
    BY <1>0, <1>3, <2>1 DEF MessageOK, Emitted, AtRoute
  <2>4. applied' = [applied EXCEPT ![Key(m)] = 1] BY <1>3, <2>2
  <2>5. Emitted' = Emitted BY <1>3 DEF Emitted
  <2>6. Promise!ApplyEffect(Key(m)[1], Key(m)[2])
    BY <2>1, <2>2, <2>3, <2>4, <2>5 DEF Promise!ApplyEffect
  <2>7. QED BY <2>1, <2>6 DEF Promise!ContractNext
<1>4. ASSUME NEW m \in Copies, HandlerCommits(m) \/ CommitReplyLost(m)
      PROVE  Promise!ContractNext
  <2>1. pc[m] \in AtRoute /\ Key(m) \notin processed
    BY <1>0, <1>4 DEF HandlerCommits, CommitReplyLost, HoldOK, AtRoute
  <2>2. QED BY <1>3, <1>4, <2>1 DEF HandlerCommits, CommitReplyLost, CommitEffect, outboxVars
<1>5. ASSUME NEW m \in Copies, CommitDeferred(m)
      PROVE  Promise!ContractNext \/ (Emitted' = Emitted /\ applied' = applied)
  <2>1. outbox' = outbox BY <1>5 DEF CommitDeferred, outboxVars
  <2>2. CASE applied' = applied BY <2>1, <2>2 DEF Emitted
  <2>3. CASE applied' # applied
    <3>1. /\ Key(m) \notin processed /\ pc[m] \in AtRoute
          /\ applied' = [applied EXCEPT ![Key(m)] = @ + 1]
      BY <1>5, <2>3 DEF CommitDeferred, KeyTaken, storeVars, AtRoute
    <3>2. QED BY <1>3, <2>1, <3>1
  <2>4. QED BY <2>2, <2>3
<1>6. ASSUME UNCHANGED <<outbox, applied>> PROVE Emitted' = Emitted /\ applied' = applied
  BY <1>6 DEF Emitted
<1>7. CASE \E w \in Workers : PublisherStep(w)
  BY <1>2, <1>6, <1>7 DEF PublisherStep, SelectPending, PublishConfirmed, storeVars
<1>8. CASE \E m \in Copies : TaskStep(m) \/ BrokerStep(m)
  BY <1>4, <1>5, <1>6, <1>8
  DEF TaskStep, BrokerStep, CheckProcessed, InsertMarker, HandlerRaises, ClaimWork,
      WorkSucceeds, WorkFails, RejectDelivery, GiveUp, TerminalHandler, PublishDeadLetter,
      Ack, ExpireDelay, Deliver, outboxVars, storeVars
<1>9. CASE Fault
  BY <1>4, <1>6, <1>9 DEF Fault, Crash, PublishFails, GiveUpRaises, outboxVars, storeVars
<1>10. CASE UNCHANGED vars BY <1>6, <1>10 DEF vars, outboxVars, storeVars
<1>11. QED BY <1>1, <1>7, <1>8, <1>9, <1>10 DEF Next, Promise!ContractNext

\* The backbone implements the contract: an event is emitted once and every
\* consumer, immediate or deferred, applies it at most once.
THEOREM ContractKept == Spec => KeepsContract
<1>1. Spec => [](BaseInv /\ SafeInv) BY Safe
<1>2. QED BY <1>1, RefinesInit, RefinesStep, PTL
          DEF Spec, KeepsContract, Promise!Contract

\* Whatever is delivered again, crashes or races, a consumer acts on an event
\* once, and no two deliveries work on it together.
THEOREM EffectsSound == Spec => []EffectsAreSound
BY ImmediateEffects, ExclusiveClaims, PTL DEF EffectsAreSound
=============================================================================
