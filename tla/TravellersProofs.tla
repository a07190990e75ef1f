------------------------ MODULE TravellersProofs --------------------------
(***************************************************************************)
(* Proofs about what travellers do: the safety properties of every         *)
(* component that MCTravellers composes, for any numbers of people, keys,  *)
(* requests, rows and days.  Each part names the inductive invariant of    *)
(* its component, shows that every action keeps it, and ends with the      *)
(* theorems.                                                               *)
(*                                                                         *)
(* Companion plans come first.  Requests that lock the plan row keep       *)
(* count, status and applications in step.  Those that read without a lock *)
(* write a single column, and the invariant says which columns may differ  *)
(* for it: an application that is withdrawn behind an acceptance leaves    *)
(* the count too high, never too low, and a review written late only       *)
(* cancels.                                                                *)
(***************************************************************************)
EXTENDS MCTravellers, FiniteSetTheorems, TLAPS

\* Before there is a plan nobody is accepted; who was accepted was accepted by
\* an approved plan; a refused plan is cancelled.
Reviewing ==
  /\ ~Exists => Accepted = {}
  /\ Exists => /\ plan.count > 1 => plan.review # "pending_review"
               /\ plan.review = "rejected" => plan.status = "cancelled"

HasItinerary == Exists /\ Protects(plan.status) => plan.linked /\ itinerary # None

InGroup ==
  Exists => /\ \A u \in Users : applications[u] = "accepted" => members[u] # "none"
            /\ plan.group => members[plan.owner] # "none"

\* Only an existing plan is under review.
ReviewsRun == \A r \in Requests : requests[r].op = "review" => Exists

PlanInv == TypeOK /\ Reviewing /\ SeatsAreKept /\ HasItinerary /\ InGroup /\ ReviewsRun

\* The variables PlanInv speaks of, the requests apart.
planVars == <<plan, itinerary, applications, members>>

----------------------------------------------------------------------------
(* Counting the accepted *)

LEMMA AcceptedFinite == IsFiniteSet(Accepted) /\ Cardinality(Accepted) \in Nat
<1>1. IsFiniteSet(Users) /\ Accepted \subseteq Users BY CompanionAssumption DEF Accepted
<1>2. IsFiniteSet(Accepted) BY <1>1, FS_Subset
<1>3. QED BY <1>2, FS_CardinalityType

\* Someone new is accepted.
LEMMA OneMore ==
  ASSUME applications \in [Users -> ApplicationStatuses], NEW u \in Users, applications[u] # "accepted",
         applications' = [applications EXCEPT ![u] = "accepted"]
  PROVE  Cardinality(Accepted') = Cardinality(Accepted) + 1
<1>1. Accepted' = Accepted \cup {u} BY DEF Accepted
<1>2. u \notin Accepted BY DEF Accepted
<1>3. QED BY <1>1, <1>2, AcceptedFinite, FS_AddElement

\* One of the accepted is not accepted any more.
LEMMA OneLess ==
  ASSUME applications \in [Users -> ApplicationStatuses], NEW u \in Users, NEW s, s # "accepted",
         applications[u] = "accepted", applications' = [applications EXCEPT ![u] = s]
  PROVE  /\ Cardinality(Accepted') = Cardinality(Accepted) - 1
         /\ Cardinality(Accepted) > 0
<1>1. Accepted' = Accepted \ {u} BY DEF Accepted
<1>2. u \in Accepted BY DEF Accepted
<1>3. Cardinality(Accepted') = Cardinality(Accepted) - 1
  BY <1>1, <1>2, AcceptedFinite, FS_RemoveElement
<1>4. Accepted # {} BY <1>2
<1>5. Cardinality(Accepted) # 0 BY <1>4, AcceptedFinite, FS_EmptySet
<1>6. QED BY <1>3, <1>5, AcceptedFinite

\* Whoever gets another status than accepted adds nobody.
LEMMA NoMore ==
  ASSUME applications \in [Users -> ApplicationStatuses], NEW u \in Users, NEW s, s # "accepted",
         applications' = [applications EXCEPT ![u] = s]
  PROVE  /\ Accepted' \subseteq Accepted
         /\ Cardinality(Accepted') \in Nat
         /\ Cardinality(Accepted') =< Cardinality(Accepted)
<1>1. Accepted' \subseteq Accepted BY DEF Accepted
<1>2. IsFiniteSet(Accepted') BY <1>1, AcceptedFinite, FS_Subset
<1>3. QED BY <1>1, <1>2, AcceptedFinite, FS_Subset, FS_CardinalityType
----------------------------------------------------------------------------
(* Publishing *)

\* A new plan has one traveller, its owner, and no group yet.
LEMMA CreateKeeps ==
  ASSUME PlanInv,
         \/ \E u \in Users : CreateFromItinerary(u)
         \/ \E u \in Hosts : CreateActivity(u)
  PROVE  PlanInv'
<1>1. ~Exists /\ Accepted = {} /\ UNCHANGED applications
  BY DEF PlanInv, Reviewing, CreateFromItinerary, CreateActivity
<1>2. PICK u \in Users, n \in Sizes :
        plan' = [owner |-> u, status |-> "open", review |-> "pending_review", size |-> n,
                 count |-> 1, group |-> FALSE, linked |-> TRUE]
  BY CompanionAssumption DEF CreateFromItinerary, CreateActivity, NewPlan
<1>3. n \in 2..12 /\ plan' \in Plans /\ plan'.count = 1 /\ plan'.size = n
  BY <1>2, CompanionAssumption DEF Plans, PlanStatuses
<1>4. plan' # None /\ itinerary' \in Users /\ itinerary' # None
  <2>1. plan' # None BY <1>3, NoneIsNoPlan
  <2>2. CASE \E v \in Users : CreateFromItinerary(v)
    BY <2>1, <2>2, CompanionAssumption DEF PlanInv, TypeOK, CreateFromItinerary, CanEdit
  <2>3. CASE \E v \in Hosts : CreateActivity(v)
    BY <2>1, <2>3, CompanionAssumption DEF CreateActivity
  <2>4. QED BY <2>2, <2>3
<1>5. TypeOK'
  BY <1>3, <1>4 DEF PlanInv, TypeOK, CreateFromItinerary, CreateActivity
<1>6. Accepted' = {} /\ Cardinality(Accepted') = 0
  BY <1>1, FS_EmptySet DEF Accepted
<1>7. SeatsAreKept' BY <1>2, <1>3, <1>6 DEF SeatsAreKept
<1>8. Reviewing' BY <1>2, <1>3, <1>4 DEF Reviewing, Exists
<1>9. HasItinerary' BY <1>2, <1>4 DEF HasItinerary
<1>10. InGroup' BY <1>2, <1>6 DEF InGroup, Accepted
<1>11. ReviewsRun' BY <1>4 DEF ReviewsRun, Exists
<1>12. QED BY <1>5, <1>7, <1>8, <1>9, <1>10, <1>11 DEF PlanInv

LEMMA DeleteKeeps == ASSUME PlanInv, DeleteItinerary PROVE PlanInv'
<1>1. /\ UNCHANGED <<applications, members, blocks, requests>> /\ itinerary' = None
      /\ plan' = IF Exists THEN [plan EXCEPT !.linked = FALSE] ELSE plan
      /\ collaborators' = [u \in Users |-> NoCollaborator]
      /\ Exists => ~Protects(plan.status)
  BY DEF DeleteItinerary
<1>2. Exists => plan \in Plans BY DEF PlanInv, TypeOK, Exists
<1>3. plan' \in Plans \cup {None} BY <1>1, <1>2 DEF Plans, Exists
<1>4. TypeOK' BY <1>1, <1>3 DEF PlanInv, TypeOK, Collaborators, NoCollaborator
<1>5. CASE ~Exists
  <2>1. plan' = plan BY <1>1, <1>5
  <2>2. QED BY <1>1, <1>4, <1>5, <2>1 DEF PlanInv, Reviewing, SeatsAreKept, HasItinerary, InGroup, ReviewsRun, Exists, Accepted
<1>6. CASE Exists
  <2>1. /\ plan' \in Plans /\ plan'.owner = plan.owner /\ plan'.status = plan.status /\ plan'.review = plan.review
        /\ plan'.size = plan.size /\ plan'.count = plan.count /\ plan'.group = plan.group
    BY <1>1, <1>2, <1>6 DEF Plans
  <2>2. Exists' /\ Accepted' = Accepted /\ ~Protects(plan'.status)
    BY <1>1, <1>6, <2>1, NoneIsNoPlan DEF Exists, Accepted
  <2>3. QED
    BY <1>1, <1>4, <1>6, <2>1, <2>2 DEF PlanInv, Reviewing, SeatsAreKept, HasItinerary, InGroup, ReviewsRun
<1>7. QED BY <1>5, <1>6

----------------------------------------------------------------------------
(* Seats *)

\* Actions that leave plan, itinerary and members alone and accept nobody.
LEMMA ApplicationsKeep ==
  ASSUME PlanInv, TypeOK', ReviewsRun', UNCHANGED <<plan, itinerary, members>>,
         NEW u \in Users, NEW s, s # "accepted", applications' = [applications EXCEPT ![u] = s]
  PROVE  PlanInv'
<1>1. applications \in [Users -> ApplicationStatuses] BY DEF PlanInv, TypeOK
<1>2. /\ Accepted' \subseteq Accepted /\ Cardinality(Accepted') \in Nat
      /\ Cardinality(Accepted') =< Cardinality(Accepted)
  BY <1>1, NoMore
<1>3. Exists => plan.count \in 1..12 BY DEF PlanInv, TypeOK, Exists, Plans
<1>4. SeatsAreKept' BY <1>2, <1>3, AcceptedFinite DEF PlanInv, SeatsAreKept, Exists
<1>5. Reviewing' BY <1>2 DEF PlanInv, Reviewing, Exists
<1>6. HasItinerary' BY DEF PlanInv, HasItinerary, Exists
<1>7. InGroup' BY <1>1 DEF PlanInv, InGroup, Exists
<1>8. QED BY <1>4, <1>5, <1>6, <1>7 DEF PlanInv

LEMMA ApplyKeeps ==
  ASSUME PlanInv, NEW u \in Users, Apply(u) \/ Reject(u)
  PROVE  PlanInv'
<1>1. TypeOK' BY DEF PlanInv, TypeOK, Apply, Reject, ApplicationStatuses
<1>2. UNCHANGED <<plan, itinerary, members>> BY DEF Apply, Reject
<1>3. \E s \in {"pending", "rejected"} : applications' = [applications EXCEPT ![u] = s]
  BY DEF Apply, Reject
<1>4. PICK s \in {"pending", "rejected"} : applications' = [applications EXCEPT ![u] = s]
  BY <1>3
<1>5. s # "accepted" BY <1>4
<1>6. ReviewsRun' BY <1>2 DEF PlanInv, ReviewsRun, Exists, Apply, Reject
<1>7. QED BY <1>1, <1>2, <1>4, <1>5, <1>6, ApplicationsKeep

LEMMA AcceptKeeps == ASSUME PlanInv, NEW u \in Users, Accept(u) PROVE PlanInv'
<1>1. /\ Exists /\ plan \in Plans /\ plan.count < plan.size /\ plan.review = "approved" /\ plan.status = "open"
      /\ applications[u] = "pending" /\ applications' = [applications EXCEPT ![u] = "accepted"]
      /\ members' = [members EXCEPT ![plan.owner] = "in", ![u] = "in"]
      /\ UNCHANGED <<itinerary, blocks, requests>>
  BY DEF PlanInv, TypeOK, Accept, Recruiting, Exists, JoinGroup
<1>2. plan' = [plan EXCEPT !.group = TRUE, !.count = plan.count + 1,
                 !.status = IF plan.count + 1 = plan.size THEN "full" ELSE plan.status]
  BY DEF Accept, TakeSeat
<1>3. plan.count \in 1..12 /\ plan.size \in 2..12 /\ plan.owner \in Users
  BY <1>1, CompanionAssumption DEF Plans
<1>4. /\ plan'.owner = plan.owner /\ plan'.count = plan.count + 1 /\ plan'.size = plan.size
      /\ plan'.review = "approved" /\ plan'.group /\ plan'.linked = plan.linked
      /\ plan'.status = IF plan.count + 1 = plan.size THEN "full" ELSE "open"
  BY <1>1, <1>2 DEF Plans
<1>5. plan' \in Plans
  <2>1. plan.count + 1 \in 1..12 BY <1>1, <1>3
  <2>2. QED BY <1>1, <1>2, <2>1 DEF Plans, PlanStatuses
<1>6. collaborators' \in [Users -> Collaborators]
  BY DEF PlanInv, TypeOK, Accept, GrantEditor, Collaborators
<1>7. TypeOK' BY <1>1, <1>3, <1>5, <1>6 DEF PlanInv, TypeOK, ApplicationStatuses
<1>8. Exists' BY <1>5, NoneIsNoPlan DEF Exists
<1>9. Cardinality(Accepted') = Cardinality(Accepted) + 1
  BY <1>1, OneMore DEF PlanInv, TypeOK
<1>10. SeatsAreKept'
  BY <1>1, <1>3, <1>4, <1>9, AcceptedFinite DEF PlanInv, SeatsAreKept
<1>11. Reviewing' BY <1>4, <1>8 DEF Reviewing
<1>12. HasItinerary' BY <1>1, <1>4 DEF PlanInv, HasItinerary, Protects
<1>13. InGroup' BY <1>1, <1>3, <1>4 DEF PlanInv, TypeOK, InGroup
<1>14. ReviewsRun' BY <1>8 DEF ReviewsRun
<1>15. QED BY <1>7, <1>10, <1>11, <1>12, <1>13, <1>14 DEF PlanInv

\* Removal and leaving free the seat of an accepted traveller.
LEMMA FreeKeeps ==
  ASSUME PlanInv, NEW u \in Users, RemoveMember(u) \/ LeavePlan(u)
  PROVE  PlanInv'
<1>1. /\ Exists /\ plan \in Plans /\ applications[u] = "accepted" /\ RevokeMember(u)
      /\ UNCHANGED <<itinerary, blocks, requests>>
  BY DEF PlanInv, TypeOK, RemoveMember, LeavePlan, Exists
<1>2. PICK s \in {"rejected", "withdrawn"} : applications' = [applications EXCEPT ![u] = s]
  BY DEF RemoveMember, LeavePlan
<1>3. /\ Cardinality(Accepted') = Cardinality(Accepted) - 1
      /\ Cardinality(Accepted) > 0
  <2>1. s # "accepted" BY <1>2
  <2>2. applications \in [Users -> ApplicationStatuses] BY DEF PlanInv, TypeOK
  <2>3. QED BY <1>1, <1>2, <2>1, <2>2, OneLess
<1>4. /\ plan.count \in 1..12 /\ plan.size \in 2..12
      /\ 1 + Cardinality(Accepted) =< plan.count /\ plan.count =< plan.size
      /\ plan.status = "full" => plan.count = plan.size
      /\ plan.status = "open" => plan.count < plan.size
  BY <1>1, CompanionAssumption DEF PlanInv, SeatsAreKept, Plans
<1>5. plan.count > 1 BY <1>3, <1>4, AcceptedFinite
<1>6. plan' = [plan EXCEPT !.count = plan.count - 1,
                 !.status = IF plan.status = "full" THEN "open" ELSE plan.status]
  BY <1>1, <1>5 DEF RevokeMember, FreeSeat
<1>7. /\ plan'.owner = plan.owner /\ plan'.count = plan.count - 1 /\ plan'.size = plan.size
      /\ plan'.review = plan.review /\ plan'.group = plan.group /\ plan'.linked = plan.linked
      /\ plan'.status = IF plan.status = "full" THEN "open" ELSE plan.status
  BY <1>1, <1>6 DEF Plans
<1>8. plan' \in Plans
  <2>1. plan.count - 1 \in 1..12 BY <1>4, <1>5
  <2>2. QED BY <1>1, <1>6, <2>1 DEF Plans, PlanStatuses
<1>9. /\ collaborators' \in [Users -> Collaborators]
      /\ members' \in [Users -> {"none", "in", "left"}]
      /\ \A v \in Users : members[v] # "none" => members'[v] # "none"
  BY <1>1 DEF PlanInv, TypeOK, RevokeMember, Collaborators
<1>10. TypeOK' BY <1>1, <1>2, <1>8, <1>9 DEF PlanInv, TypeOK, ApplicationStatuses
<1>11. Exists' BY <1>8, NoneIsNoPlan DEF Exists
<1>12. SeatsAreKept' BY <1>3, <1>4, <1>5, <1>7, AcceptedFinite DEF SeatsAreKept
<1>13. Reviewing' BY <1>1, <1>4, <1>5, <1>7, <1>11 DEF PlanInv, Reviewing
<1>14. HasItinerary' BY <1>1, <1>7 DEF PlanInv, HasItinerary, Protects
<1>15. InGroup'
  <2>1. \A v \in Users : applications'[v] = "accepted" => applications[v] = "accepted"
    BY <1>2 DEF PlanInv, TypeOK
  <2>2. plan.owner \in Users BY <1>1 DEF Plans
  <2>3. QED BY <1>1, <1>7, <1>9, <2>1, <2>2 DEF PlanInv, InGroup
<1>16. ReviewsRun' BY <1>11 DEF ReviewsRun
<1>17. QED BY <1>10, <1>12, <1>13, <1>14, <1>15, <1>16 DEF PlanInv

----------------------------------------------------------------------------
(* The owner manages the plan *)

\* A new size is never below the count; a plan whose review is not done or was
\* refused cannot be full, so the status that is kept fits the size.
LEMMA UpdateKeeps == ASSUME PlanInv, NEW n \in Sizes, UpdatePlan(n) PROVE PlanInv'
<1>1. /\ Exists /\ plan \in Plans /\ n >= plan.count /\ plan.status \notin {"cancelled", "completed"}
      /\ UNCHANGED <<itinerary, applications, members, collaborators, blocks, requests>>
  BY DEF PlanInv, TypeOK, UpdatePlan, Exists, Fits
<1>2. plan' = [plan EXCEPT !.size = n,
                 !.status = IF n = plan.count THEN "full"
                            ELSE IF plan.status = "full" /\ plan.review = "approved" THEN "open"
                            ELSE plan.status]
  BY DEF UpdatePlan
<1>3. /\ plan.count \in 1..12 /\ plan.size \in 2..12 /\ n \in 2..12
      /\ plan.review \in {"pending_review", "approved", "rejected"}
  BY <1>1, CompanionAssumption DEF Plans
<1>4. /\ plan'.owner = plan.owner /\ plan'.count = plan.count /\ plan'.size = n
      /\ plan'.review = plan.review /\ plan'.group = plan.group /\ plan'.linked = plan.linked
      /\ plan'.status = IF n = plan.count THEN "full"
                        ELSE IF plan.status = "full" /\ plan.review = "approved" THEN "open"
                        ELSE plan.status
  BY <1>1, <1>2 DEF Plans
<1>5. plan' \in Plans BY <1>1, <1>2 DEF Plans, PlanStatuses
<1>6. TypeOK' BY <1>1, <1>5 DEF PlanInv, TypeOK
<1>7. Exists' /\ Accepted' = Accepted BY <1>1, <1>5, NoneIsNoPlan DEF Exists, Accepted
<1>8. plan.status = "full" => plan.review = "approved"
  BY <1>1, <1>3 DEF PlanInv, Reviewing, SeatsAreKept
<1>9. SeatsAreKept'
  BY <1>1, <1>3, <1>4, <1>7, <1>8, AcceptedFinite DEF PlanInv, SeatsAreKept
<1>10. Reviewing' BY <1>1, <1>4, <1>7 DEF PlanInv, Reviewing
<1>11. HasItinerary' BY <1>1, <1>4, <1>5 DEF PlanInv, HasItinerary, Protects, Plans, PlanStatuses
<1>12. InGroup' BY <1>1, <1>4 DEF PlanInv, InGroup
<1>13. ReviewsRun' BY <1>7 DEF ReviewsRun
<1>14. QED BY <1>6, <1>9, <1>10, <1>11, <1>12, <1>13 DEF PlanInv

\* Steps that set status and review only: closing, reopening, cancelling,
\* completing and the review.
LEMMA StatusKeeps ==
  ASSUME PlanInv, TypeOK', Exists, UNCHANGED <<itinerary, applications, members>>,
         NEW status \in PlanStatuses, NEW review \in {"pending_review", "approved", "rejected"},
         plan' = [plan EXCEPT !.status = status, !.review = review],
         status # plan.status =>
           \/ status \in {"cancelled", "completed"}
           \/ status = "closed" /\ Protects(plan.status)
           \/ status = "open" /\ Protects(plan.status) /\ plan.count < plan.size,
         plan.count > 1 => review # "pending_review",
         review = "rejected" => status = "cancelled"
  PROVE  PlanInv'
<1>1. plan \in Plans BY DEF PlanInv, TypeOK, Exists
<1>2. /\ plan'.owner = plan.owner /\ plan'.count = plan.count /\ plan'.size = plan.size
      /\ plan'.group = plan.group /\ plan'.linked = plan.linked
      /\ plan'.status = status /\ plan'.review = review
  BY <1>1 DEF Plans
<1>3. plan' \in Plans BY <1>1 DEF Plans
<1>4. Exists' /\ Accepted' = Accepted BY <1>3, NoneIsNoPlan DEF Exists, Accepted
<1>5. SeatsAreKept' BY <1>2, <1>4 DEF PlanInv, SeatsAreKept
<1>6. Reviewing' BY <1>2, <1>4 DEF Reviewing
<1>7. HasItinerary' BY <1>2 DEF PlanInv, HasItinerary, Protects
<1>8. InGroup' BY <1>2 DEF PlanInv, InGroup
<1>9. ReviewsRun' BY <1>4 DEF ReviewsRun
<1>10. QED BY <1>5, <1>6, <1>7, <1>8, <1>9 DEF PlanInv

LEMMA TransitionKeeps ==
  ASSUME PlanInv, NEW target \in {"open", "closed", "cancelled"}, Transition(target)
  PROVE  PlanInv'
<1>1. /\ Exists /\ plan \in Plans /\ plan.review = "approved"
      /\ plan' = [plan EXCEPT !.status = target]
      /\ UNCHANGED <<itinerary, applications, members, collaborators, blocks, requests>>
  BY DEF PlanInv, TypeOK, Transition, Exists
<1>2. plan' = [plan EXCEPT !.status = target, !.review = plan.review] BY <1>1 DEF Plans
<1>3. target \in PlanStatuses BY DEF PlanStatuses
<1>4. plan' \in Plans BY <1>1, <1>3 DEF Plans
<1>5. TypeOK' BY <1>1, <1>4 DEF PlanInv, TypeOK
<1>6. target # plan.status =>
        \/ target \in {"cancelled", "completed"}
        \/ target = "closed" /\ Protects(plan.status)
        \/ target = "open" /\ Protects(plan.status) /\ plan.count < plan.size
  BY DEF Transition, Reopens, Protects
<1>7. plan.review \in {"pending_review", "approved", "rejected"} BY <1>1
<1>8. QED BY <1>1, <1>2, <1>3, <1>5, <1>6, <1>7, StatusKeeps

LEMMA CompleteKeeps == ASSUME PlanInv, Complete PROVE PlanInv'
<1>1. /\ Exists /\ plan \in Plans /\ plan.review = "approved"
      /\ plan' = [plan EXCEPT !.status = "completed"]
      /\ UNCHANGED <<itinerary, applications, members, blocks, requests>>
  BY DEF PlanInv, TypeOK, Complete, Exists
<1>2. plan' = [plan EXCEPT !.status = "completed", !.review = plan.review] BY <1>1 DEF Plans
<1>3. plan' \in Plans BY <1>1 DEF Plans, PlanStatuses
<1>4. collaborators' \in [Users -> Collaborators] BY DEF PlanInv, TypeOK, Complete, Collaborators
<1>5. TypeOK' BY <1>1, <1>3, <1>4 DEF PlanInv, TypeOK
<1>6. "completed" \in PlanStatuses /\ plan.review \in {"pending_review", "approved", "rejected"}
  BY <1>1 DEF PlanStatuses
<1>7. QED BY <1>1, <1>2, <1>5, <1>6, StatusKeeps

----------------------------------------------------------------------------
(* Requests without a lock *)

\* Steps that touch neither the plan, the itinerary, the applications nor the
\* members.
LEMMA AsideKeeps == ASSUME PlanInv, TypeOK', ReviewsRun', UNCHANGED planVars PROVE PlanInv'
<1>1. Accepted' = Accepted BY DEF Accepted, planVars
<1>2. Exists' = Exists BY DEF Exists, planVars
<1>3. QED
  BY <1>1, <1>2 DEF PlanInv, planVars, Reviewing, SeatsAreKept, HasItinerary, InGroup

LEMMA BlockKeeps == ASSUME PlanInv, NEW f \in Foes, Block(f) \/ Unblock(f) PROVE PlanInv'
<1>1. TypeOK' BY DEF PlanInv, TypeOK, Block, Unblock
<1>2. UNCHANGED planVars BY DEF Block, Unblock, planVars
<1>3. ReviewsRun' BY <1>2 DEF PlanInv, ReviewsRun, Exists, Block, Unblock, planVars
<1>4. QED BY <1>1, <1>2, <1>3, AsideKeeps

\* What a request may hold.
Held ==
  {Idle} \cup [op : {"withdraw", "quit", "join"}, user : Users]
         \cup [op : {"review"}, verdict : {"approved", "rejected"}]
         \cup [op : {"set"}, user : Users, seen : Collaborators, want : Collaborators]

LEMMA BeginKeeps ==
  ASSUME PlanInv, NEW r \in Requests, NEW request \in Held, Begin(r, request),
         request.op = "review" => Exists
  PROVE  PlanInv'
<1>1. requests' \in [Requests -> Held] BY DEF PlanInv, TypeOK, Begin, Held
<1>2. TypeOK' BY <1>1 DEF PlanInv, TypeOK, Begin, rows, Held
<1>3. UNCHANGED planVars BY DEF Begin, rows, planVars
<1>4. ReviewsRun' BY <1>3 DEF PlanInv, TypeOK, ReviewsRun, Exists, Begin, planVars
<1>5. QED BY <1>2, <1>3, <1>4, AsideKeeps

\* Requests that read, whoever may be invited.
AnyLoads == \E r \in Requests :
  \/ \E verdict \in {"approved", "rejected"} : LoadReview(r, verdict)
  \/ \E u \in Users :
       \/ LoadApplication(r, u) \/ LoadMember(r, u) \/ LoadInvitation(r, u)
  \/ \E u \in Users, role \in {"viewer", "editor"} :
       \/ LoadInvite(r, u, role)
       \/ \E status \in {"pending", "revoked", collaborators[u].status} :
            LoadCollaborator(r, u, role, status)

LEMMA LoadsKeep == ASSUME PlanInv, AnyLoads PROVE PlanInv'
<1>1. PICK r \in Requests, request \in Held : Begin(r, request) /\ (request.op = "review" => Exists)
  <2>1. PICK r \in Requests :
          \/ \E verdict \in {"approved", "rejected"} : LoadReview(r, verdict)
          \/ \E u \in Users : LoadApplication(r, u) \/ LoadMember(r, u) \/ LoadInvitation(r, u)
          \/ \E u \in Users, role \in {"viewer", "editor"} :
               \/ LoadInvite(r, u, role)
               \/ \E status \in {"pending", "revoked", collaborators[u].status} :
                    LoadCollaborator(r, u, role, status)
    BY DEF AnyLoads
  <2>2. CASE \E verdict \in {"approved", "rejected"} : LoadReview(r, verdict)
    BY <2>2 DEF LoadReview, Reviewable, Held
  <2>3. CASE \E u \in Users : LoadApplication(r, u) \/ LoadMember(r, u) \/ LoadInvitation(r, u)
    BY <2>3 DEF LoadApplication, LoadMember, LoadInvitation, Held
  <2>4. CASE \E u \in Users, role \in {"viewer", "editor"} : LoadInvite(r, u, role)
    <3>1. PICK u \in Users, role \in {"viewer", "editor"} : LoadInvite(r, u, role) BY <2>4
    <3>2. u \in Users /\ collaborators[u] \in Collaborators /\ [role |-> role, status |-> "pending"] \in Collaborators
      BY CompanionAssumption DEF PlanInv, TypeOK, Collaborators
    <3>3. QED BY <3>1, <3>2 DEF LoadInvite, Held
  <2>5. CASE \E u \in Users, role \in {"viewer", "editor"} :
               \E status \in {"pending", "revoked", collaborators[u].status} : LoadCollaborator(r, u, role, status)
    <3>0. PICK u \in Users, role \in {"viewer", "editor"} :
            \E status \in {"pending", "revoked", collaborators[u].status} : LoadCollaborator(r, u, role, status)
      BY <2>5
    <3>1. PICK status \in {"pending", "revoked", collaborators[u].status} : LoadCollaborator(r, u, role, status)
      BY <3>0
    <3>2. u \in Users /\ collaborators[u] \in Collaborators
      BY CompanionAssumption DEF PlanInv, TypeOK
    <3>3. [role |-> role, status |-> status] \in Collaborators BY <3>2 DEF Collaborators
    <3>4. QED BY <3>1, <3>2, <3>3 DEF LoadCollaborator, Held
  <2>6. QED BY <2>1, <2>2, <2>3, <2>4, <2>5
<1>2. QED BY <1>1, BeginKeeps

LEMMA EndTyped ==
  ASSUME PlanInv, NEW r \in Requests, End(r)
  PROVE  /\ requests' \in [Requests -> Held]
         /\ \A q \in Requests : requests'[q].op = "review" => Exists
BY DEF PlanInv, TypeOK, End, Held, Idle, ReviewsRun

\* A withdrawal written over an acceptance takes the traveller from the
\* accepted, and the seat stays counted.
LEMMA WithdrawnKeeps == ASSUME PlanInv, NEW r \in Requests, WriteWithdrawn(r) PROVE PlanInv'
<1>1. requests[r].user \in Users BY DEF PlanInv, TypeOK, WriteWithdrawn, Idle
<1>2. TypeOK' BY <1>1, EndTyped DEF PlanInv, TypeOK, WriteWithdrawn, ApplicationStatuses, Held
<1>3. applications' = [applications EXCEPT ![requests[r].user] = "withdrawn"]
      /\ UNCHANGED <<plan, itinerary, members>>
  BY DEF WriteWithdrawn
<1>4. ReviewsRun' BY <1>3, EndTyped DEF WriteWithdrawn, ReviewsRun, Exists
<1>5. QED BY <1>1, <1>2, <1>3, <1>4, ApplicationsKeep

\* Who leaves the conversation keeps a row in it.
LEMMA LeftKeeps == ASSUME PlanInv, NEW r \in Requests, WriteLeft(r) PROVE PlanInv'
<1>1. requests[r].user \in Users BY DEF PlanInv, TypeOK, WriteLeft, Idle
<1>2. TypeOK' BY <1>1, EndTyped DEF PlanInv, TypeOK, WriteLeft, Held
<1>3. UNCHANGED <<plan, itinerary, applications>> BY DEF WriteLeft
<1>4. \A u \in Users : members[u] # "none" => members'[u] # "none"
  BY <1>1 DEF PlanInv, TypeOK, WriteLeft
<1>5. Accepted' = Accepted /\ Exists' = Exists BY <1>3 DEF Accepted, Exists
<1>6. Exists => plan.owner \in Users BY DEF PlanInv, TypeOK, Exists, Plans
<1>7. InGroup' BY <1>3, <1>4, <1>5, <1>6 DEF PlanInv, InGroup
<1>8. ReviewsRun' BY <1>5, EndTyped DEF WriteLeft, ReviewsRun
<1>9. QED BY <1>2, <1>3, <1>5, <1>7, <1>8 DEF PlanInv, Reviewing, SeatsAreKept, HasItinerary

\* Only a review that was pending is decided, so there is a plan.
LEMMA ReviewKeeps == ASSUME PlanInv, NEW r \in Requests, WriteReview(r) PROVE PlanInv'
<1>1. Exists /\ plan \in Plans BY DEF PlanInv, TypeOK, Exists, ReviewsRun, WriteReview
<1>2. requests[r].verdict \in {"approved", "rejected"} BY DEF PlanInv, TypeOK, WriteReview, Idle
<1>3. PICK verdict \in {"approved", "rejected"} : plan' = Reviewed(verdict)
  BY <1>2 DEF WriteReview
<1>4. UNCHANGED <<itinerary, applications, members, collaborators, blocks>>
  BY DEF WriteReview
<1>5. plan' \in Plans BY <1>1, <1>3 DEF Reviewed, Plans, PlanStatuses
<1>6. TypeOK' BY <1>4, <1>5, EndTyped DEF PlanInv, TypeOK, WriteReview, Held
<1>7. CASE verdict = "rejected"
  <2>1. plan' = [plan EXCEPT !.status = "cancelled", !.review = "rejected"]
    BY <1>1, <1>3, <1>7 DEF Reviewed, Plans
  <2>2. "cancelled" \in PlanStatuses BY DEF PlanStatuses
  <2>3. QED BY <1>1, <1>4, <1>6, <2>1, <2>2, StatusKeeps
<1>8. CASE verdict = "approved"
  <2>1. plan' = [plan EXCEPT !.status = plan.status, !.review = "approved"]
    BY <1>1, <1>3, <1>8 DEF Reviewed, Plans
  <2>2. plan.status \in PlanStatuses BY <1>1 DEF Plans
  <2>3. QED BY <1>1, <1>4, <1>6, <2>1, <2>2, StatusKeeps
<1>9. QED BY <1>7, <1>8

\* Invitations change the collaborators only.
LEMMA InvitationKeeps ==
  ASSUME PlanInv, NEW r \in Requests, WriteJoined(r) \/ WriteCollaborator(r)
  PROVE  PlanInv'
<1>1. End(r) /\ UNCHANGED <<plan, itinerary, applications, members, blocks>>
  BY DEF WriteJoined, WriteCollaborator
<1>2. collaborators' \in [Users -> Collaborators]
  <2>1. CASE WriteJoined(r)
    <3>1. \A c \in Collaborators : [c EXCEPT !.status = "accepted"] \in Collaborators
      BY DEF Collaborators
    <3>2. \A u \in Users :
            [collaborators EXCEPT ![u] = [collaborators[u] EXCEPT !.status = "accepted"]] \in [Users -> Collaborators]
      BY <3>1 DEF PlanInv, TypeOK
    <3>3. requests[r].user \in Users BY <2>1 DEF WriteJoined, PlanInv, TypeOK, Idle
    <3>4. QED BY <2>1, <3>2, <3>3 DEF WriteJoined, PlanInv, TypeOK
  <2>2. CASE WriteCollaborator(r)
    <3>1. requests[r].seen \in Collaborators /\ requests[r].want \in Collaborators
      BY <2>2 DEF WriteCollaborator, PlanInv, TypeOK, Idle
    <3>2. \A current \in Collaborators : Merged(requests[r].seen, requests[r].want, current) \in Collaborators
      BY <3>1 DEF Merged, Collaborators
    <3>3. QED BY <2>2, <3>2 DEF WriteCollaborator, PlanInv, TypeOK
  <2>3. QED BY <2>1, <2>2
<1>3. TypeOK' BY <1>1, <1>2, EndTyped DEF PlanInv, TypeOK, Held
<1>4. ReviewsRun' BY <1>1, EndTyped DEF ReviewsRun, Exists
<1>5. QED BY <1>1, <1>3, <1>4, AsideKeeps DEF planVars

----------------------------------------------------------------------------
(* The invariant *)

LEMMA PlanInit == Init => PlanInv
<1> SUFFICES ASSUME Init PROVE PlanInv OBVIOUS
<1>1. plan = None /\ Accepted = {} BY DEF Init, Accepted
<1>2. TypeOK
  BY CompanionAssumption DEF Init, TypeOK, ApplicationStatuses, Collaborators, NoCollaborator
<1>3. ReviewsRun BY DEF Init, ReviewsRun, Idle
<1>4. QED BY <1>1, <1>2, <1>3 DEF PlanInv, Reviewing, SeatsAreKept, HasItinerary, InGroup, Exists

\* The steps of a plan, whoever may be invited.
PlanMoves == Publishing \/ Seats \/ Managing \/ AnyLoads \/ Writes

LEMMA PlanMovesKeep == PlanInv /\ (PlanMoves \/ UNCHANGED vars) => PlanInv'
<1> SUFFICES ASSUME PlanInv, PlanMoves \/ UNCHANGED vars PROVE PlanInv' OBVIOUS
<1>1. CASE Publishing BY <1>1, CreateKeeps, DeleteKeeps DEF Publishing
<1>2. CASE Seats BY <1>2, ApplyKeeps, AcceptKeeps, FreeKeeps DEF Seats
<1>3. CASE Managing
  BY <1>3, UpdateKeeps, TransitionKeeps, CompleteKeeps, BlockKeeps DEF Managing
<1>4. CASE AnyLoads BY <1>4, LoadsKeep
<1>5. CASE Writes
  BY <1>5, WithdrawnKeeps, LeftKeeps, ReviewKeeps, InvitationKeeps DEF Writes
<1>6. CASE UNCHANGED vars
  <2>1. TypeOK' BY <1>6 DEF PlanInv, TypeOK, vars
  <2>2. ReviewsRun' BY <1>6 DEF PlanInv, ReviewsRun, Exists, vars
  <2>3. UNCHANGED planVars BY <1>6 DEF vars, planVars
  <2>4. QED BY <2>1, <2>2, <2>3, AsideKeeps
<1>7. QED BY <1>1, <1>2, <1>3, <1>4, <1>5, <1>6 DEF PlanMoves

LEMMA NextMoves == Next => PlanMoves
<1>1. Invited \subseteq Users BY CompanionAssumption
<1>2. Loads => AnyLoads BY <1>1 DEF Loads, AnyLoads
<1>3. QED BY <1>2 DEF Next, PlanMoves

LEMMA PlanStep == PlanInv /\ [Next]_vars => PlanInv'
BY NextMoves, PlanMovesKeep

LEMMA PlanInvariant == Spec => []PlanInv
BY PlanInit, PlanStep, PTL DEF Spec

\* Every operation on a plan keeps its rows and its requests of their type.
THEOREM TypeCorrect == Spec => []TypeOK
<1>1. PlanInv => TypeOK BY DEF PlanInv
<1>2. QED BY <1>1, PlanInvariant, PTL

\* For any number of travellers, party sizes and concurrent requests: accepted
\* members and owner are counted, the count stays within the party, and status
\* and seats agree.
THEOREM SeatsKept == Spec => []SeatsAreKept
<1>1. PlanInv => SeatsAreKept BY DEF PlanInv
<1>2. QED BY <1>1, PlanInvariant, PTL

LEMMA PlanIsUsable == PlanInv => PlanCanBeUsed
<1>1. SUFFICES ASSUME PlanInv PROVE PlanCanBeUsed OBVIOUS
<1>2. Exists /\ Protects(plan.status) => plan.linked /\ itinerary # None
  BY <1>1 DEF PlanInv, HasItinerary
<1>3. Listed(FALSE) => Listed(TRUE) BY <1>1 DEF PlanInv, SeatsAreKept, Listed
<1>4. ASSUME NEW u \in Users, GroupShown(u) PROVE members[u] # "none"
  <2>1. Exists /\ plan.group /\ IsMember(u)
    BY <1>4 DEF GroupShown, Detail, Workspace, IsMember
  <2>2. QED BY <1>1, <2>1 DEF PlanInv, InGroup, IsMember
<1>5. QED BY <1>2, <1>3, <1>4 DEF PlanCanBeUsed

\* A plan that still takes members keeps its itinerary, a listed plan has a
\* seat, and whoever is shown the group has a place in it.
THEOREM PlanUsable == Spec => []PlanCanBeUsed
BY PlanIsUsable, PlanInvariant, PTL

----------------------------------------------------------------------------
(* A party of two: the smaller instance of the plan moves as the plan does. *)

\* The plan of the smaller instance: a party of two, and nobody is blocked.
PartyOfTwo == (Exists => plan.size = 2) /\ blocks = {}

LEMMA GuestBegins == Guest!Init => Init /\ PartyOfTwo
BY DEF Guest!Init, Guest!NoCollaborator, Guest!Idle, Init, NoCollaborator, Idle, PartyOfTwo, Exists

LEMMA GuestMoves == Guest!Next => PlanMoves
<1>1. Guest!Publishing => Publishing
  <2>1. ASSUME NEW user, NEW n, Guest!NewPlan(user, n) PROVE NewPlan(user, n)
    BY <2>1 DEF Guest!NewPlan, NewPlan
  <2>2. ASSUME NEW user \in Users, Guest!CreateFromItinerary(user) PROVE CreateFromItinerary(user)
    BY <2>1, <2>2, TravellersAssumption
    DEF Guest!CreateFromItinerary, Guest!Exists, Guest!CanEdit, CreateFromItinerary, Exists, CanEdit
  <2>3. ASSUME NEW user \in Hosts, Guest!CreateActivity(user) PROVE CreateActivity(user)
    BY <2>1, <2>3, TravellersAssumption DEF Guest!CreateActivity, Guest!Exists, CreateActivity, Exists
  <2>4. Guest!DeleteItinerary => DeleteItinerary
    BY DEF Guest!DeleteItinerary, Guest!Exists, Guest!Protects, Guest!NoCollaborator,
           DeleteItinerary, Exists, Protects, NoCollaborator
  <2>5. QED BY <2>2, <2>3, <2>4 DEF Guest!Publishing, Publishing
<1>2. Guest!Seats => Seats
  <2>1. ASSUME NEW user \in Users, Guest!Apply(user) PROVE Apply(user)
    BY <2>1 DEF Guest!Apply, Guest!Recruiting, Guest!Exists, Guest!Blocked, Apply, Recruiting, Exists, Blocked
  <2>2. ASSUME NEW user \in Users, Guest!Accept(user) PROVE Accept(user)
    BY <2>2
    DEF Guest!Accept, Guest!Recruiting, Guest!Exists, Guest!Blocked, Guest!Accepted, Guest!TakeSeat,
        Guest!JoinGroup, Guest!GrantEditor,
        Accept, Recruiting, Exists, Blocked, Accepted, TakeSeat, JoinGroup, GrantEditor
  <2>3. ASSUME NEW user \in Users, Guest!Reject(user) PROVE Reject(user)
    BY <2>3 DEF Guest!Reject, Guest!Exists, Reject, Exists
  <2>4. ASSUME NEW user \in Users, Guest!RemoveMember(user) \/ Guest!LeavePlan(user)
        PROVE  RemoveMember(user) \/ LeavePlan(user)
    BY <2>4
    DEF Guest!RemoveMember, Guest!LeavePlan, Guest!Exists, Guest!RevokeMember, Guest!FreeSeat, Guest!NoCollaborator,
        RemoveMember, LeavePlan, Exists, RevokeMember, FreeSeat, NoCollaborator
  <2>5. QED BY <2>1, <2>2, <2>3, <2>4 DEF Guest!Seats, Seats
<1>3. Guest!Managing => Managing
  <2>1. Guest!UpdatePlan(2) => UpdatePlan(2)
    BY DEF Guest!UpdatePlan, Guest!Exists, Guest!Fits, UpdatePlan, Exists, Fits
  <2>2. ASSUME NEW target, Guest!Transition(target) PROVE Transition(target)
    BY <2>2 DEF Guest!Transition, Guest!Exists, Guest!Reopens, Transition, Exists, Reopens
  <2>3. Guest!Complete => Complete BY DEF Guest!Complete, Guest!Exists, Complete, Exists
  <2>4. QED BY <2>1, <2>2, <2>3, TravellersAssumption DEF Guest!Managing, Managing
<1>4. Guest!Loads => AnyLoads
  <2>1. ASSUME NEW r \in Requests, NEW request, Guest!Begin(r, request) PROVE Begin(r, request)
    BY <2>1 DEF Guest!Begin, Guest!Idle, Guest!rows, Begin, Idle, rows
  <2>2. ASSUME NEW r \in Requests, NEW verdict, Guest!LoadReview(r, verdict) PROVE LoadReview(r, verdict)
    BY <2>1, <2>2 DEF Guest!LoadReview, Guest!Reviewable, Guest!Exists, LoadReview, Reviewable, Exists
  <2>3. ASSUME NEW r \in Requests, NEW user \in Users,
               Guest!LoadApplication(r, user) \/ Guest!LoadMember(r, user) \/ Guest!LoadInvitation(r, user)
        PROVE  LoadApplication(r, user) \/ LoadMember(r, user) \/ LoadInvitation(r, user)
    BY <2>1, <2>3
    DEF Guest!LoadApplication, Guest!LoadMember, Guest!LoadInvitation, LoadApplication, LoadMember, LoadInvitation
  <2>4. ASSUME NEW r \in Requests, NEW role, Guest!LoadInvite(r, ann, role) PROVE LoadInvite(r, ann, role)
    BY <2>1, <2>4 DEF Guest!LoadInvite, LoadInvite
  <2>5. ASSUME NEW r \in Requests, NEW role, NEW status, Guest!LoadCollaborator(r, ann, role, status)
        PROVE  LoadCollaborator(r, ann, role, status)
    BY <2>1, <2>5 DEF Guest!LoadCollaborator, Guest!NoCollaborator, LoadCollaborator, NoCollaborator
  <2>6. QED
    BY <2>2, <2>3, <2>4, <2>5, TravellersAssumption DEF Guest!Loads, AnyLoads
<1>5. Guest!Writes => Writes
  <2>1. ASSUME NEW r, Guest!End(r) PROVE End(r) BY <2>1 DEF Guest!End, Guest!Idle, End, Idle
  <2>2. ASSUME NEW r \in Requests, Guest!WriteWithdrawn(r) \/ Guest!WriteLeft(r) \/ Guest!WriteReview(r)
        PROVE  WriteWithdrawn(r) \/ WriteLeft(r) \/ WriteReview(r)
    BY <2>1, <2>2
    DEF Guest!WriteWithdrawn, Guest!WriteLeft, Guest!WriteReview, Guest!Reviewed,
        WriteWithdrawn, WriteLeft, WriteReview, Reviewed
  <2>3. ASSUME NEW r \in Requests, Guest!WriteJoined(r) PROVE WriteJoined(r)
    BY <2>1, <2>3 DEF Guest!WriteJoined, Guest!NoCollaborator, WriteJoined, NoCollaborator
  <2>4. ASSUME NEW r \in Requests, Guest!WriteCollaborator(r) PROVE WriteCollaborator(r)
    BY <2>1, <2>4
    DEF Guest!WriteCollaborator, Guest!Merged, Guest!NoCollaborator, WriteCollaborator, Merged, NoCollaborator
  <2>5. QED BY <2>2, <2>3, <2>4 DEF Guest!Writes, Writes
<1>6. QED BY <1>1, <1>2, <1>3, <1>4, <1>5 DEF Guest!Next, PlanMoves

LEMMA PartyKeeps == ASSUME PlanInv, PartyOfTwo, Guest!Next PROVE PartyOfTwo'
<1>1. plan \in Plans \cup {None} /\ (Exists => plan \in Plans) BY DEF PlanInv, TypeOK, Exists
<1>2. blocks' = {}
  BY DEF Guest!Next, Guest!Publishing, Guest!CreateFromItinerary, Guest!CreateActivity, Guest!DeleteItinerary,
    Guest!Seats, Guest!Apply, Guest!Accept, Guest!Reject, Guest!RemoveMember, Guest!LeavePlan,
    Guest!Managing, Guest!UpdatePlan, Guest!Transition, Guest!Complete,
    Guest!Loads, Guest!LoadReview, Guest!LoadApplication, Guest!LoadMember, Guest!LoadInvitation,
    Guest!LoadInvite, Guest!LoadCollaborator, Guest!Begin, Guest!rows,
    Guest!Writes, Guest!WriteWithdrawn, Guest!WriteLeft, Guest!WriteReview, Guest!WriteJoined,
    Guest!WriteCollaborator, PartyOfTwo
<1>3. plan'.size = 2 \/ plan' = plan \/ (Exists /\ plan'.size = plan.size)
  <2>1. CASE Guest!Publishing
    BY <1>1, <2>1
    DEF Guest!Publishing, Guest!CreateFromItinerary, Guest!CreateActivity, Guest!NewPlan, Guest!DeleteItinerary,
        Guest!Exists, Exists, Plans
  <2>2. CASE Guest!Seats
    BY <1>1, <2>2
    DEF Guest!Seats, Guest!Apply, Guest!Accept, Guest!Reject, Guest!RemoveMember, Guest!LeavePlan,
        Guest!RevokeMember, Guest!FreeSeat, Guest!TakeSeat, Guest!Recruiting, Guest!Exists, Exists, Plans
  <2>3. CASE Guest!Managing
    BY <1>1, <2>3
    DEF Guest!Managing, Guest!UpdatePlan, Guest!Transition, Guest!Complete, Guest!Exists, Exists, Plans
  <2>4. CASE Guest!Loads
    BY <2>4
    DEF Guest!Loads, Guest!LoadReview, Guest!LoadApplication, Guest!LoadMember, Guest!LoadInvitation,
        Guest!LoadInvite, Guest!LoadCollaborator, Guest!Begin, Guest!rows
  <2>5. CASE Guest!Writes
    <3>1. ASSUME NEW r \in Requests, Guest!WriteReview(r) PROVE Exists /\ plan'.size = plan.size
      <4>1. Exists BY <3>1 DEF Guest!WriteReview, PlanInv, ReviewsRun
      <4>2. QED BY <1>1, <3>1, <4>1 DEF Guest!WriteReview, Guest!Reviewed, Plans
    <3>2. QED
      BY <2>5, <3>1
      DEF Guest!Writes, Guest!WriteWithdrawn, Guest!WriteLeft, Guest!WriteJoined, Guest!WriteCollaborator
  <2>6. QED BY <2>1, <2>2, <2>3, <2>4, <2>5 DEF Guest!Next
<1>4. QED BY <1>2, <1>3 DEF PartyOfTwo, Exists

LEMMA GuestTypes == ASSUME PlanInv, PartyOfTwo PROVE Guest!TypeOK
<1>1. plan \in Guest!Plans \cup {None}
  BY DEF PlanInv, TypeOK, PartyOfTwo, Exists, Plans, PlanStatuses, Guest!Plans, Guest!PlanStatuses
<1>2. QED
  BY <1>1
  DEF PlanInv, TypeOK, PartyOfTwo, ApplicationStatuses, Collaborators, Idle,
      Guest!TypeOK, Guest!ApplicationStatuses, Guest!Collaborators, Guest!Idle

----------------------------------------------------------------------------
(***************************************************************************)
(* Orders.  What is finite and not empty has a first member under any      *)
(* strict order: among the sets of predecessors one is least.              *)
(***************************************************************************)

LEMMA FirstExists ==
  ASSUME NEW S, IsFiniteSet(S), S # {}, NEW R,
         \A x \in S : <<x, x>> \notin R,
         \A x, y, z \in S : <<x, y>> \in R /\ <<y, z>> \in R => <<x, z>> \in R
  PROVE  \E x \in S : \A y \in S : <<y, x>> \notin R
<1> DEFINE Ahead(x) == {y \in S : <<y, x>> \in R}
           T == {Ahead(x) : x \in S}
<1>1. IsWellFoundedOn(StrictSubsetOrdering(S), SUBSET S)
  BY FS_FiniteSubsetsOfFinite, FS_StrictSubsetOrderingWellFounded
<1>2. T \subseteq SUBSET S /\ T # {}
  <2>1. \A x \in S : Ahead(x) \in SUBSET S OBVIOUS
  <2>2. PICK x \in S : TRUE OBVIOUS
  <2>3. Ahead(x) \in T OBVIOUS
  <2> HIDE DEF Ahead
  <2>4. QED BY <2>1, <2>3
<1>3. \E A \in T : \A B \in T : ~ (<<B, A>> \in StrictSubsetOrdering(S))
  BY <1>1, <1>2, WFMin
<1>4. PICK x \in S : \A B \in T : <<B, Ahead(x)>> \notin StrictSubsetOrdering(S)
  BY <1>3
<1>5. ASSUME NEW y \in S, <<y, x>> \in R PROVE FALSE
  <2>1. Ahead(y) \subseteq Ahead(x) BY <1>5
  <2>2. y \in Ahead(x) /\ y \notin Ahead(y) BY <1>5
  <2>3. <<Ahead(y), Ahead(x)>> \in StrictSubsetOrdering(S) BY <2>1, <2>2 DEF StrictSubsetOrdering
  <2>4. QED BY <1>4, <2>3
<1>6. QED BY <1>5

\* The greatest of some numbers up to a bound, and the least.
LEMMA GreatestExists ==
  ASSUME NEW n \in Nat, NEW S \in SUBSET (0..n), S # {}
  PROVE  \E x \in S : \A y \in S : y <= x
<1> DEFINE R == {p \in S \X S : p[2] < p[1]}
<1>1. IsFiniteSet(S) /\ S \subseteq Int
  <2>1. IsFiniteSet(0..n) BY FS_Interval
  <2>2. IsFiniteSet(S) BY <2>1, FS_Subset
  <2>3. QED BY <2>2
<1>2. \A x, y \in S : <<x, y>> \in R <=> y < x OBVIOUS
<1> HIDE DEF R
<1>3. \A x \in S : <<x, x>> \notin R BY <1>1, <1>2
<1>4. \A x, y, z \in S : <<x, y>> \in R /\ <<y, z>> \in R => <<x, z>> \in R BY <1>1, <1>2
<1>5. PICK x \in S : \A y \in S : <<y, x>> \notin R BY <1>1, <1>3, <1>4, FirstExists
<1>6. ASSUME NEW y \in S PROVE y <= x
  <2>1. x \in Int /\ y \in Int BY <1>1
  <2>2. ~(x < y) BY <1>2, <1>5
  <2>3. QED BY <2>1, <2>2
<1>7. QED BY <1>6

LEMMA LeastExists ==
  ASSUME NEW n \in Nat, NEW S \in SUBSET (0..n), S # {}
  PROVE  \E x \in S : \A y \in S : x <= y
<1> DEFINE R == {p \in S \X S : p[1] < p[2]}
<1>1. IsFiniteSet(S) /\ S \subseteq Int
  <2>1. IsFiniteSet(0..n) BY FS_Interval
  <2>2. IsFiniteSet(S) BY <2>1, FS_Subset
  <2>3. QED BY <2>2
<1>2. \A x, y \in S : <<x, y>> \in R <=> x < y OBVIOUS
<1> HIDE DEF R
<1>3. \A x \in S : <<x, x>> \notin R BY <1>1, <1>2
<1>4. \A x, y, z \in S : <<x, y>> \in R /\ <<y, z>> \in R => <<x, z>> \in R BY <1>1, <1>2
<1>5. PICK x \in S : \A y \in S : <<y, x>> \notin R BY <1>1, <1>3, <1>4, FirstExists
<1>6. ASSUME NEW y \in S PROVE x <= y
  <2>1. x \in Int /\ y \in Int BY <1>1
  <2>2. ~(y < x) BY <1>2, <1>5
  <2>3. QED BY <2>1, <2>2
<1>7. QED BY <1>6

----------------------------------------------------------------------------
(***************************************************************************)
(* Field notes: a copy is inserted and counted in one transaction.         *)
(***************************************************************************)

LEMMA NotesKeep == ASSUME NotesTypeOK, CopiesAreCounted, NotesNext PROVE NotesTypeOK' /\ CopiesAreCounted'
<1>1. CASE \E n \in Notes : CreateFieldNote(n) \/ PublishNote(n) \/ RejectNote(n) \/ Hide(n)
  BY <1>1 DEF NotesTypeOK, CopiesAreCounted, NoteStatuses, CreateFieldNote, PublishNote, RejectNote, Hide
<1>2. ASSUME NEW c \in Copiers, NEW n \in Notes, NEW k \in CopyKeys, StartCopy(c, n, k)
      PROVE  NotesTypeOK' /\ CopiesAreCounted'
  BY <1>2 DEF NotesTypeOK, CopiesAreCounted, StartCopy, Phase, Copying
<1>3. ASSUME NEW c \in Copiers, InsertCopy(c) PROVE NotesTypeOK' /\ CopiesAreCounted'
  <2> DEFINE n == copier[c].note
             k == copier[c].key
  <2>1. /\ copier[c].phase = "insert" /\ n \in Notes /\ k \in CopyKeys
        /\ copier[c] \in [phase : {"insert", "found"}, note : Notes, key : CopyKeys, seen : 0..MaxCopies]
    BY <1>3 DEF NotesTypeOK, InsertCopy, Copying
  <2>2. CASE <<n, k>> \in copied
    BY <1>3, <2>1, <2>2 DEF NotesTypeOK, CopiesAreCounted, InsertCopy, Phase, Copying
  <2>3. CASE <<n, k>> \notin copied
    <3>1. /\ made[n] < MaxCopies /\ copied' = copied \union {<<n, k>>} /\ made' = [made EXCEPT ![n] = @ + 1]
          /\ note' = [note EXCEPT ![n].copies = note[n].copies + 1]
          /\ copier' = [copier EXCEPT ![c] = [phase |-> "idle"]]
      BY <1>3, <2>3 DEF InsertCopy, Phase, Counted
    <3>2. note[n].copies = made[n] /\ made[n] + 1 \in 0..MaxCopies
      BY <2>1, <3>1, NotesAssumption DEF NotesTypeOK, CopiesAreCounted
    <3>3. note' \in [Notes -> [status : NoteStatuses, copies : 0..MaxCopies]] /\ made' \in [Notes -> 0..MaxCopies]
      BY <2>1, <3>1, <3>2 DEF NotesTypeOK
    <3>4. copier' \in [Copiers -> Copying] /\ copied' \subseteq CopyOperations
      BY <2>1, <3>1 DEF NotesTypeOK, Copying, CopyOperations
    <3>5. CopiesAreCounted' BY <2>1, <3>1, <3>2 DEF NotesTypeOK, CopiesAreCounted
    <3>6. QED BY <3>3, <3>4, <3>5 DEF NotesTypeOK
  <2>4. QED BY <2>2, <2>3
<1>4. ASSUME NEW c \in Copiers, AnswerFound(c) PROVE NotesTypeOK' /\ CopiesAreCounted'
  BY <1>4 DEF NotesTypeOK, CopiesAreCounted, AnswerFound, Phase, Copying
<1>5. ASSUME NEW n \in Notes, NEW k \in CopyKeys, DeleteCopy(n, k) PROVE NotesTypeOK' /\ CopiesAreCounted'
  BY <1>5 DEF NotesTypeOK, CopiesAreCounted, DeleteCopy
<1>6. QED BY <1>1, <1>2, <1>3, <1>4, <1>5 DEF NotesNext

NotesInv == NotesTypeOK /\ CopiesAreCounted

LEMMA NotesStart == NotesInit => NotesInv
BY NotesAssumption DEF NotesInit, NotesInv, NotesTypeOK, CopiesAreCounted, NoteStatuses, Copying

LEMMA NotesStep == NotesInv /\ [NotesNext]_noteVars => NotesInv'
<1>1. NotesInv /\ UNCHANGED noteVars => NotesInv'
  BY DEF NotesInv, NotesTypeOK, CopiesAreCounted, noteVars
<1>2. QED BY <1>1, NotesKeep DEF NotesInv

\* Notes, copies, itineraries and readers keep their types.
THEOREM NotesTypeCorrect == NotesSpec => []NotesTypeOK
<1>1. NotesInv => NotesTypeOK BY DEF NotesInv
<1>2. QED BY <1>1, NotesStart, NotesStep, PTL DEF NotesSpec

\* The count of a note is the number of itineraries made from it, for any
\* readers and keys (copy_field_note, delete_itinerary).
THEOREM CopiesCounted == NotesSpec => []CopiesAreCounted
<1>1. NotesInv => CopiesAreCounted BY DEF NotesInv
<1>2. QED BY <1>1, NotesStart, NotesStep, PTL DEF NotesSpec

----------------------------------------------------------------------------
(***************************************************************************)
(* Travel offers: jobs and the columns an order was made with never        *)
(* change, so an order says for ever what its search found, and the answer *)
(* to a request names it.                                                  *)
(***************************************************************************)

\* An order, and a request that goes on, stand for an offer that was found.
WasFound(s, j) == jobs[s] # Nobody /\ j \in DOMAIN jobs[s].offers

FromAnOffer ==
  /\ \A k \in OrderKeys : orders[k] # Nobody => WasFound(orders[k].search, orders[k].journey)
  /\ \A c \in Clicks : clicks[c] # Nobody =>
       /\ WasFound(clicks[c].search, clicks[c].journey)
       /\ clicks[c].phase = "insert" => clicks[c].party = jobs[clicks[c].search].party
       /\ clicks[c].phase = "answered" => orders[clicks[c].key] # Nobody

OffersInv == OffersTypeOK /\ FromAnOffer /\ SoldAsOffered

LEMMA OfferFacts == ASSUME OffersTypeOK PROVE
  /\ \A s \in Searches : jobs[s] # Nobody => jobs[s] \in JobRows
  /\ \A k \in OrderKeys : orders[k] # Nobody => orders[k] \in OrderRows
  /\ \A c \in Clicks : clicks[c] # Nobody => clicks[c] \in OrderRequests
BY DEF OffersTypeOK

\* Steps that leave orders and requests alone.
LEMMA MarketKeeps ==
  ASSUME OffersInv, OffersTypeOK', UNCHANGED <<orders, clicks>>,
         \A s \in Searches : jobs[s] # Nobody => jobs'[s] = jobs[s]
  PROVE  OffersInv'
<1>1. FromAnOffer' BY OfferFacts DEF OffersInv, FromAnOffer, WasFound, OrderRows, OrderRequests
<1>2. SoldAsOffered' BY OfferFacts DEF OffersInv, FromAnOffer, WasFound, SoldAsOffered, OrderRows, OrderRequests
<1>3. QED BY <1>1, <1>2 DEF OffersInv

LEMMA SupplyKeeps == ASSUME OffersInv, NEW j \in Journeys, NEW sale \in Sales, Supply(j, sale) PROVE OffersInv'
<1>1. OffersTypeOK' BY OffersAssumption DEF OffersInv, OffersTypeOK, Supply
<1>2. QED BY <1>1, MarketKeeps DEF OffersInv, OffersTypeOK, Supply

LEMMA SearchKeeps ==
  ASSUME OffersInv, NEW s \in Searches, NEW n \in PartySizes, NEW js \in SUBSET Journeys, CreateSearch(s, n, js)
  PROVE  OffersInv'
<1>1. Found(js) \in [js -> Sales] BY DEF OffersInv, OffersTypeOK, Found, OfferOf
<1>2. [party |-> n, offers |-> Found(js)] \in JobRows BY <1>1 DEF JobRows
<1>3. OffersTypeOK' BY <1>2 DEF OffersInv, OffersTypeOK, CreateSearch
<1>4. QED BY <1>3, MarketKeeps DEF OffersInv, OffersTypeOK, CreateSearch

LEMMA ExpireKeeps == ASSUME OffersInv, NEW s \in Searches, OffersExpire(s) PROVE OffersInv'
<1>1. OffersTypeOK' BY DEF OffersInv, OffersTypeOK, OffersExpire
<1>2. QED BY <1>1, MarketKeeps DEF OffersInv, OffersTypeOK, OffersExpire

LEMMA AgainKeeps ==
  ASSUME OffersInv, NEW c \in Clicks, NEW k \in OrderKeys, NEW s \in Searches, NEW j \in Journeys,
         NEW n \in PartySizes, OrderAgain(c, k, s, j, n)
  PROVE  OffersInv'
<1> DEFINE request == Request("answered", k, s, j, n)
<1>1. /\ clicks' = [clicks EXCEPT ![c] = request] /\ UNCHANGED <<market, changes, jobs, expired, orders>>
      /\ orders[k] # Nobody /\ orders[k].search = s /\ orders[k].journey = j
  BY DEF OrderAgain, BoundTo
<1>2. /\ request \in OrderRequests /\ request.key = k /\ request.search = s /\ request.journey = j
      /\ request.party = n /\ request.phase = "answered"
  BY DEF OrderRequests, Request
<1> HIDE DEF request
<1>3. OffersTypeOK' BY <1>1, <1>2 DEF OffersInv, OffersTypeOK
<1>4. FromAnOffer' BY <1>1, <1>2, OffersAssumption DEF OffersInv, OffersTypeOK, FromAnOffer, WasFound
<1>5. SoldAsOffered' BY <1>1, <1>2, OffersAssumption DEF OffersInv, OffersTypeOK, SoldAsOffered
<1>6. QED BY <1>3, <1>4, <1>5 DEF OffersInv

LEMMA LoadOfferKeeps ==
  ASSUME OffersInv, NEW c \in Clicks, NEW k \in OrderKeys, NEW s \in Searches, NEW j \in Journeys,
         NEW n \in PartySizes, LoadOffer(c, k, s, j, n)
  PROVE  OffersInv'
<1> DEFINE request == Request("insert", k, s, j, n)
<1>1. /\ clicks' = [clicks EXCEPT ![c] = request] /\ UNCHANGED <<market, changes, jobs, expired, orders>> /\ WasFound(s, j)
      /\ n = jobs[s].party
  BY DEF LoadOffer, Orderable, WasFound
<1>2. /\ request \in OrderRequests /\ request.key = k /\ request.search = s /\ request.journey = j
      /\ request.party = n /\ request.phase = "insert"
  BY DEF OrderRequests, Request
<1> HIDE DEF request
<1>3. OffersTypeOK' BY <1>1, <1>2 DEF OffersInv, OffersTypeOK
<1>4. FromAnOffer' BY <1>1, <1>2, OffersAssumption DEF OffersInv, OffersTypeOK, FromAnOffer, WasFound
<1>5. SoldAsOffered' BY <1>1, <1>2, OffersAssumption DEF OffersInv, OffersTypeOK, SoldAsOffered
<1>6. QED BY <1>3, <1>4, <1>5 DEF OffersInv

LEMMA InsertOrderKeeps == ASSUME OffersInv, NEW c \in Clicks, InsertOrder(c) PROVE OffersInv'
<1> DEFINE k == clicks[c].key
           s == clicks[c].search
           j == clicks[c].journey
           n == clicks[c].party
<1>1. /\ clicks[c] # Nobody /\ clicks[c].phase = "insert" /\ UNCHANGED <<market, changes, jobs, expired>>
      /\ clicks[c] \in OrderRequests
  BY OfferFacts DEF InsertOrder, OffersInv
<1>2. /\ k \in OrderKeys /\ s \in Searches /\ j \in Journeys /\ WasFound(s, j)
      /\ n \in PartySizes /\ n = jobs[s].party
  BY <1>1 DEF OrderRequests, OffersInv, FromAnOffer
<1>3. CASE orders[k] # Nobody
  <2>1. clicks' = [clicks EXCEPT ![c] = Nobody] /\ UNCHANGED orders BY <1>3 DEF InsertOrder
  <2>2. OffersTypeOK' BY <1>1, <2>1 DEF OffersInv, OffersTypeOK
  <2>3. FromAnOffer' BY <1>1, <2>1 DEF OffersInv, OffersTypeOK, FromAnOffer, WasFound
  <2>4. SoldAsOffered' BY <1>1, <2>1 DEF OffersInv, OffersTypeOK, SoldAsOffered
  <2>5. QED BY <2>2, <2>3, <2>4 DEF OffersInv
<1>4. CASE orders[k] = Nobody
  <2> DEFINE order == NewOrder(s, j, n)
  <2>1. orders' = [orders EXCEPT ![k] = order] /\ clicks' = [clicks EXCEPT ![c].phase = "answered"]
    BY <1>4 DEF InsertOrder
  <2>2. jobs[s] \in JobRows BY <1>2, OfferFacts DEF OffersInv, WasFound
  <2>3. jobs[s].offers[j] \in Sales /\ jobs[s].party \in PartySizes
    BY <1>2, <2>2 DEF JobRows, WasFound
  <2>4. order \in OrderRows BY <1>2, <2>3 DEF OrderRows, NewOrder, Sales, TicketStatuses
  <2>5. order # Nobody BY <2>4, OffersAssumption
  <2>6. /\ order.search = s /\ order.journey = j /\ order.price = jobs[s].offers[j].price
        /\ order.party = jobs[s].party /\ order.ticket = "pending"
    BY <1>2 DEF NewOrder
  <2>7. /\ clicks'[c] \in OrderRequests /\ clicks'[c].key = k /\ clicks'[c].search = s /\ clicks'[c].journey = j
        /\ clicks' = [clicks EXCEPT ![c] = clicks'[c]]
    BY <1>1, <2>1 DEF OffersInv, OffersTypeOK, OrderRequests
  <2> HIDE DEF order
  <2>8. OffersTypeOK' BY <1>1, <2>1, <2>4, <2>7 DEF OffersInv, OffersTypeOK
  <2>9. FromAnOffer'
    BY <1>1, <1>2, <1>4, <2>1, <2>5, <2>6, <2>7, OfferFacts DEF OffersInv, OffersTypeOK, FromAnOffer, WasFound, OrderRequests
  <2>10. SoldAsOffered'
    BY <1>1, <1>2, <1>4, <2>1, <2>5, <2>6, <2>7, OfferFacts
    DEF OffersInv, OffersTypeOK, FromAnOffer, SoldAsOffered, OrderRequests
  <2>11. QED BY <2>8, <2>9, <2>10 DEF OffersInv
<1>5. QED BY <1>3, <1>4

\* Payment, ticket and refusal change no other column of one order.
LEMMA OrderStepKeeps ==
  ASSUME OffersInv, NEW k \in OrderKeys, NEW r \in OrderRows, orders[k] # Nobody,
         orders' = [orders EXCEPT ![k] = r], UNCHANGED <<market, changes, jobs, expired, clicks>>,
         r.search = orders[k].search, r.journey = orders[k].journey, r.price = orders[k].price,
         r.party = orders[k].party,
         r.ticket = "issued" => r.paid /\ r.sold.seats /\ (r.journey \in SeatsOnly \/ r.sold.price = r.price)
  PROVE  OffersInv'
<1>1. r # Nobody BY OffersAssumption
<1>2. OffersTypeOK' BY DEF OffersInv, OffersTypeOK
<1>3. orders'[k] = r /\ \A i \in OrderKeys : i # k => orders'[i] = orders[i] BY DEF OffersInv, OffersTypeOK
<1>4. FromAnOffer' BY <1>1, <1>3, OfferFacts DEF OffersInv, FromAnOffer, WasFound, OrderRequests
<1>5. SoldAsOffered' BY <1>1, <1>3, OfferFacts DEF OffersInv, FromAnOffer, SoldAsOffered, OrderRequests
<1>6. QED BY <1>2, <1>4, <1>5 DEF OffersInv

LEMMA OrdersKeep ==
  ASSUME OffersInv, NEW k \in OrderKeys, PayOrder(k) \/ IssuePaidTicket(k) \/ IssuerRefuses(k)
  PROVE  OffersInv'
<1> DEFINE o == orders[k]
<1>1. o # Nobody /\ o \in OrderRows BY OfferFacts DEF OffersInv, PayOrder, IssuePaidTicket, IssuerRefuses, TicketDue
<1>2. o.ticket = "issued" => o.paid /\ o.sold.seats /\ (o.journey \in SeatsOnly \/ o.sold.price = o.price)
  BY <1>1 DEF OffersInv, SoldAsOffered
<1>3. market[o.journey] \in Sales BY <1>1 DEF OffersInv, OffersTypeOK, OrderRows
<1>4. CASE PayOrder(k)
  <2> DEFINE r == [o EXCEPT !.paid = TRUE]
  <2>1. orders' = [orders EXCEPT ![k] = r] /\ UNCHANGED <<market, changes, jobs, expired, clicks>>
    BY <1>4 DEF PayOrder
  <2>2. /\ r \in OrderRows /\ r.search = o.search /\ r.journey = o.journey /\ r.price = o.price /\ r.party = o.party
        /\ r.ticket = o.ticket /\ r.sold = o.sold /\ r.paid
    BY <1>1 DEF OrderRows
  <2> HIDE DEF r
  <2>3. QED BY <1>1, <1>2, <2>1, <2>2, OrderStepKeeps
<1>5. CASE IssuerRefuses(k) \/ (IssuePaidTicket(k) /\ ~SameOffer(k))
  <2> DEFINE r == [o EXCEPT !.ticket = "failed"]
  <2>1. orders' = [orders EXCEPT ![k] = r] /\ UNCHANGED <<market, changes, jobs, expired, clicks>>
    BY <1>5 DEF IssuerRefuses, IssuePaidTicket
  <2>2. /\ r \in OrderRows /\ r.search = o.search /\ r.journey = o.journey /\ r.price = o.price /\ r.party = o.party
        /\ r.ticket = "failed"
    BY <1>1 DEF OrderRows, TicketStatuses
  <2> HIDE DEF r
  <2>3. QED BY <1>1, <2>1, <2>2, OrderStepKeeps
<1>6. CASE IssuePaidTicket(k) /\ SameOffer(k)
  <2> DEFINE r == [o EXCEPT !.ticket = "issued", !.sold = market[o.journey]]
  <2>1. orders' = [orders EXCEPT ![k] = r] /\ UNCHANGED <<market, changes, jobs, expired, clicks>> /\ o.paid
    BY <1>6, <1>1 DEF IssuePaidTicket, TicketDue, OffersInv, OffersTypeOK
  <2>2. /\ r \in OrderRows /\ r.search = o.search /\ r.journey = o.journey /\ r.price = o.price /\ r.party = o.party
        /\ r.paid = o.paid /\ r.sold = market[o.journey]
    BY <1>1, <1>3 DEF OrderRows, TicketStatuses
  <2>3. market[o.journey].seats /\ (o.journey \in SeatsOnly \/ market[o.journey].price = o.price)
    BY <1>3, <1>6 DEF SameOffer, Current, OfferOf, Sales
  <2> HIDE DEF r
  <2>4. QED BY <1>1, <2>1, <2>2, <2>3, OrderStepKeeps
<1>7. QED BY <1>4, <1>5, <1>6

LEMMA OffersStart == OffersInit => OffersInv
<1> SUFFICES ASSUME OffersInit PROVE OffersInv OBVIOUS
<1>1. OffersTypeOK
  <2>1. [price : Prices, seats : {TRUE}] \subseteq Sales BY DEF Sales
  <2>2. market \in [Journeys -> Sales] BY <2>1 DEF OffersInit
  <2>3. QED BY <2>2, OffersAssumption DEF OffersInit, OffersTypeOK
<1>2. FromAnOffer /\ SoldAsOffered BY DEF OffersInit, FromAnOffer, SoldAsOffered
<1>3. QED BY <1>1, <1>2 DEF OffersInv

LEMMA OffersStep == OffersInv /\ [OffersNext]_offerVars => OffersInv'
<1> SUFFICES ASSUME OffersInv, [OffersNext]_offerVars PROVE OffersInv' OBVIOUS
<1>1. CASE UNCHANGED offerVars
  BY <1>1 DEF offerVars, OffersInv, OffersTypeOK, FromAnOffer, WasFound, SoldAsOffered
<1>2. QED
  BY <1>1, SupplyKeeps, SearchKeeps, ExpireKeeps, AgainKeeps, LoadOfferKeeps, InsertOrderKeeps, OrdersKeep
  DEF OffersNext

\* Searches, the market, orders and requests for them keep their types.
THEOREM OffersTypeCorrect == OffersSpec => []OffersTypeOK
<1>1. OffersInv => OffersTypeOK BY DEF OffersInv
<1>2. QED BY <1>1, OffersStart, OffersStep, PTL DEF OffersSpec

\* A request is answered with the order for its offer, an order keeps price and
\* passengers, and a ticket is issued for what was paid, for any requests, keys
\* and changes of the supplier (create_from_offer, issue_paid_ticket).
THEOREM OrdersAreHonest == OffersSpec => []SoldAsOffered
<1>1. OffersInv => SoldAsOffered BY DEF OffersInv
<1>2. QED BY <1>1, OffersStart, OffersStep, PTL DEF OffersSpec

----------------------------------------------------------------------------
(***************************************************************************)
(* Chat: whoever is about to store a message holds its key, and nobody has *)
(* stored it yet.                                                          *)
(***************************************************************************)

\* The requests R that send and the people W whose page is followed are
\* parameters, since the conversation is also checked with fewer of them.
KeyTaken(R, r) == \E s \in R \ {r} :
  sends[s].phase = "flushed" /\ sends[s].by = sends[r].by /\ sends[s].key = sends[r].key

KeyFree(R, r) == ~KeyTaken(R, r) /\ ~Twin(sends[r].by, sends[r].key)

KeysHeld(R) == \A r \in R : sends[r].phase = "flushed" => KeyFree(R, r)

\* Stamps begin at one; zero is "nothing read".
LogStamped == \A m \in log : m.at > 0

Stamped(R) == LogStamped /\ \A r \in R : sends[r].phase = "flushed" => sends[r].at > 0

SeatRows == [state : {"none", "in", "left"}, joined : Stamps, read : Stamps]

Screens == [socket : {"off", "on"}, again : BOOLEAN, shown : SUBSET Stamps]

LogTyped == seat \in [People -> SeatRows] /\ log \subseteq [by : People, key : ClientKeys, at : Stamps]

ChatTyped(R, W) ==
  /\ chatKind \in {"none", "direct", "group"} /\ ended \in BOOLEAN
  /\ LogTyped
  /\ foes \subseteq ChatFoes
  /\ stamp \in 1..MaxMessages + 1
  /\ sends \in [R -> SendPhases]
  /\ screen \in [W -> Screens]

ChatInv(R, W) == ChatTyped(R, W) /\ SentOnce /\ KeysHeld(R) /\ Stamped(R)

\* The moves of Chat that speak of all requests or of all pages.
FlushAmong(R, r) ==
  /\ sends[r].phase = "checked" /\ KeyFree(R, r)
  /\ stamp =< MaxMessages
  /\ stamp' = stamp + 1
  /\ sends' = [sends EXCEPT ![r] = [phase |-> "flushed", by |-> sends[r].by, key |-> sends[r].key, at |-> stamp]]
  /\ UNCHANGED <<chatKind, ended, seat, foes, log, screen>>

DeliverAmong(W, r, to) ==
  /\ sends[r].phase = "stored"
  /\ screen' = [u \in W |-> IF u \in to THEN [screen[u] EXCEPT !.shown = @ \cup {sends[r].at}] ELSE screen[u]]
  /\ sends' = [sends EXCEPT ![r] = NotSending]
  /\ UNCHANGED <<chatKind, ended, seat, foes, log, stamp>>

ListAmong(W, u, cursor) ==
  /\ seat' = IF Visible(cursor) = {} THEN seat ELSE [seat EXCEPT ![u].read = ReadUpTo(cursor)]
  /\ screen' = IF u \notin W THEN screen
               ELSE [screen EXCEPT ![u].shown = @ \cup {m.at : m \in Visible(cursor)}, ![u].again = FALSE]
  /\ UNCHANGED <<chatKind, ended, foes, log, stamp, sends>>

SendMoves(R, W) == \E r \in R :
  \/ \E u \in People, k \in ClientKeys : Check(r, u, k)
  \/ FlushAmong(R, r) \/ FlushTwin(r) \/ StoreMessage(r) \/ Abort(r)
  \/ \E to : DeliverAmong(W, r, to)

ReadMoves(W) ==
  \/ \E u \in People, cursor \in Stamps : ListAmong(W, u, cursor)
  \/ \E u \in W : Connect(u) \/ Disconnect(u)

ChatMoves(R, W) == MembersChange \/ SendMoves(R, W) \/ ReadMoves(W)

SendFields == [phase : {"checked"}, by : People, key : ClientKeys]

FlushedFields == [phase : {"flushed", "stored"}, by : People, key : ClientKeys, at : Stamps]

LEMMA SendFacts == ASSUME NEW R, sends \in [R -> SendPhases], NEW r \in R PROVE
  /\ sends[r].phase \in {"idle", "checked", "flushed", "stored"}
  /\ sends[r].phase = "checked" => sends[r] \in SendFields
  /\ sends[r].phase \in {"flushed", "stored"} => sends[r] \in FlushedFields
BY DEF SendPhases, NotSending, SendFields, FlushedFields

\* Members, blocks and pages are none of the keys' business.
LEMMA LogUntouched ==
  ASSUME NEW R, NEW W, ChatInv(R, W), ChatTyped(R, W)', UNCHANGED <<log, sends>>
  PROVE  ChatInv(R, W)'
BY DEF ChatInv, SentOnce, KeysHeld, Stamped, LogStamped, KeyFree, KeyTaken, Twin

LEMMA MembersKeep == ASSUME NEW R, NEW W, ChatInv(R, W), MembersChange PROVE ChatInv(R, W)'
<1> USE DEF ChatInv
<1>1. CASE CompletePlan
  <2>1. ChatTyped(R, W)' BY <1>1 DEF CompletePlan, ChatTyped, LogTyped
  <2>2. QED BY <1>1, <2>1, LogUntouched DEF CompletePlan
<1>2. ASSUME NEW u \in People, ActivateSeat(u) PROVE ChatInv(R, W)'
  <2>1. stamp - 1 \in Stamps BY ChatAssumption DEF ChatTyped, Stamps
  <2>2. ChatTyped(R, W)' BY <1>2, <2>1 DEF ActivateSeat, ChatTyped, LogTyped, SeatRows
  <2>3. QED BY <1>2, <2>2, LogUntouched DEF ActivateSeat
<1>3. ASSUME NEW u \in People, LeaveConversation(u) PROVE ChatInv(R, W)'
  <2>1. ChatTyped(R, W)' BY <1>3 DEF LeaveConversation, ChatTyped, LogTyped, SeatRows
  <2>2. QED BY <1>3, <2>1, LogUntouched DEF LeaveConversation
<1>4. ASSUME NEW u \in People, NEW v \in People, OpenDirect(u, v) PROVE ChatInv(R, W)'
  <2>1. 0 \in Stamps BY ChatAssumption DEF Stamps
  <2>2. ChatTyped(R, W)' BY <1>4, <2>1 DEF OpenDirect, ChatTyped, LogTyped, SeatRows, Empty
  <2>3. QED BY <1>4, <2>2, LogUntouched DEF OpenDirect
<1>5. ASSUME NEW f \in ChatFoes, BlockUser(f) \/ UnblockUser(f) PROVE ChatInv(R, W)'
  <2>1. ChatTyped(R, W)' BY <1>5 DEF BlockUser, UnblockUser, ChatTyped, LogTyped
  <2>2. QED BY <1>5, <2>1, LogUntouched DEF BlockUser, UnblockUser
<1>6. QED BY <1>1, <1>2, <1>3, <1>4, <1>5 DEF MembersChange

\* Sends that end or begin without having flushed.
LEMMA SendingKeeps ==
  ASSUME NEW R, NEW W, ChatInv(R, W), NEW r \in R, NEW new \in SendPhases, new.phase # "flushed",
         sends' = [sends EXCEPT ![r] = new], UNCHANGED <<chatKind, ended, seat, foes, log, stamp>>,
         screen' \in [W -> Screens]
  PROVE  ChatInv(R, W)'
<1>1. ChatTyped(R, W)' BY DEF ChatInv, ChatTyped, LogTyped
<1>2. sends'[r] = new /\ \A s \in R : s # r => sends'[s] = sends[s] BY DEF ChatInv, ChatTyped
<1>3. KeysHeld(R)' BY <1>2 DEF ChatInv, KeysHeld, KeyFree, KeyTaken, Twin
<1>4. SentOnce' /\ Stamped(R)' BY <1>2 DEF ChatInv, SentOnce, Stamped, LogStamped
<1>5. QED BY <1>1, <1>3, <1>4 DEF ChatInv

LEMMA CheckKeeps ==
  ASSUME NEW R, NEW W, ChatInv(R, W), NEW r \in R, NEW u \in People, NEW k \in ClientKeys, Check(r, u, k)
  PROVE  ChatInv(R, W)'
<1> DEFINE new == [phase |-> "checked", by |-> u, key |-> k]
<1>1. new \in SendPhases /\ new.phase # "flushed" BY DEF SendPhases
<1>2. screen' \in [W -> Screens] BY DEF Check, ChatInv, ChatTyped
<1>3. sends' = [sends EXCEPT ![r] = new] /\ UNCHANGED <<chatKind, ended, seat, foes, log, stamp>> BY DEF Check
<1> HIDE DEF new
<1>4. QED BY <1>1, <1>2, <1>3, SendingKeeps

LEMMA SendEndsKeeps ==
  ASSUME NEW R, NEW W, ChatInv(R, W), NEW r \in R, FlushTwin(r) \/ Abort(r)
  PROVE  ChatInv(R, W)'
<1>1. NotSending \in SendPhases /\ NotSending.phase = "idle" BY DEF SendPhases, NotSending
<1>2. QED BY <1>1, SendingKeeps DEF FlushTwin, Abort, ChatInv, ChatTyped

LEMMA FlushKeeps == ASSUME NEW R, NEW W, ChatInv(R, W), NEW r \in R, FlushAmong(R, r) PROVE ChatInv(R, W)'
<1> DEFINE new == [phase |-> "flushed", by |-> sends[r].by, key |-> sends[r].key, at |-> stamp]
<1>1. /\ sends[r].phase = "checked" /\ sends[r] \in SendFields /\ KeyFree(R, r) /\ stamp <= MaxMessages
      /\ stamp' = stamp + 1 /\ sends' = [sends EXCEPT ![r] = new]
      /\ UNCHANGED <<chatKind, ended, seat, foes, log, screen>>
  BY SendFacts DEF FlushAmong, ChatInv, ChatTyped
<1>2. stamp \in 1..MaxMessages /\ stamp \in Stamps /\ stamp' \in 1..MaxMessages + 1
  BY <1>1, ChatAssumption DEF ChatInv, ChatTyped, Stamps
<1>3. /\ new \in SendPhases /\ new.phase = "flushed" /\ new.by = sends[r].by /\ new.key = sends[r].key
      /\ new.at = stamp
  BY <1>1, <1>2 DEF SendPhases, SendFields
<1> HIDE DEF new
<1>4. ChatTyped(R, W)' BY <1>1, <1>2, <1>3 DEF ChatInv, ChatTyped, LogTyped
<1>5. sends'[r] = new /\ \A s \in R : s # r => sends'[s] = sends[s] BY <1>1 DEF ChatInv, ChatTyped
<1>6. KeysHeld(R)' BY <1>1, <1>3, <1>5 DEF ChatInv, KeysHeld, KeyFree, KeyTaken, Twin
<1>7. SentOnce' /\ Stamped(R)' BY <1>1, <1>2, <1>3, <1>5 DEF ChatInv, SentOnce, Stamped, LogStamped
<1>8. QED BY <1>4, <1>6, <1>7 DEF ChatInv

LEMMA StoreMessageKeeps ==
  ASSUME NEW R, NEW W, ChatInv(R, W), NEW r \in R, StoreMessage(r)
  PROVE  ChatInv(R, W)'
<1> DEFINE stored == [by |-> sends[r].by, key |-> sends[r].key, at |-> sends[r].at]
           new == [sends[r] EXCEPT !.phase = "stored"]
<1>1. /\ sends[r].phase = "flushed" /\ sends[r] \in FlushedFields /\ KeyFree(R, r) /\ sends[r].at > 0
      /\ log' = log \cup {stored} /\ sends' = [sends EXCEPT ![r] = new]
      /\ UNCHANGED <<chatKind, ended, seat, foes, stamp, screen>>
  BY SendFacts DEF StoreMessage, ChatInv, KeysHeld, Stamped, ChatTyped
<1>2. stored \in [by : People, key : ClientKeys, at : Stamps] /\ new \in SendPhases /\ new.phase = "stored"
  BY <1>1 DEF FlushedFields, SendPhases
<1>3. stored.by = sends[r].by /\ stored.key = sends[r].key /\ stored.at = sends[r].at OBVIOUS
<1> HIDE DEF stored, new
<1>4. ChatTyped(R, W)' BY <1>1, <1>2 DEF ChatInv, ChatTyped, LogTyped
<1>5. sends'[r] = new /\ \A s \in R : s # r => sends'[s] = sends[s] BY <1>1 DEF ChatInv, ChatTyped
<1>6. SentOnce' BY <1>1, <1>3 DEF ChatInv, SentOnce, KeyFree, Twin
<1>7. ASSUME NEW s \in R, sends'[s].phase = "flushed" PROVE KeyFree(R, s)' /\ sends'[s].at > 0
  <2>1. s # r /\ sends'[s] = sends[s] /\ KeyFree(R, s) /\ sends[s].at > 0
    BY <1>2, <1>5, <1>7 DEF ChatInv, KeysHeld, Stamped
  <2>2. ~(sends[r].by = sends[s].by /\ sends[r].key = sends[s].key) BY <1>1, <2>1 DEF KeyFree, KeyTaken
  <2>3. ~Twin(sends[s].by, sends[s].key)' BY <1>1, <1>3, <2>1, <2>2 DEF KeyFree, Twin
  <2>4. ~KeyTaken(R, s)' BY <1>2, <1>5, <2>1 DEF KeyFree, KeyTaken
  <2>5. QED BY <2>1, <2>3, <2>4 DEF KeyFree, Twin
<1>8. Stamped(R)' BY <1>1, <1>3, <1>7 DEF ChatInv, Stamped, LogStamped
<1>9. QED BY <1>4, <1>6, <1>7, <1>8 DEF ChatInv, KeysHeld

LEMMA DeliverKeeps ==
  ASSUME NEW R, NEW W, ChatInv(R, W), NEW r \in R, NEW to, DeliverAmong(W, r, to)
  PROVE  ChatInv(R, W)'
<1>1. NotSending \in SendPhases /\ NotSending.phase = "idle" BY DEF SendPhases, NotSending
<1>2. sends[r].at \in Stamps BY SendFacts DEF DeliverAmong, ChatInv, ChatTyped, FlushedFields
<1>3. screen' \in [W -> Screens] BY <1>2 DEF DeliverAmong, ChatInv, ChatTyped, Screens
<1>4. QED BY <1>1, <1>3, SendingKeeps DEF DeliverAmong, ChatInv

----------------------------------------------------------------------------
(* Reading *)

\* What is stored has a newest message.
LEMMA LatestIs == ASSUME LogTyped, log # {} PROVE
  Latest(log) \in log /\ \A n \in log : n.at <= Latest(log).at
<1> DEFINE S == {m.at : m \in log}
<1>1. S \in SUBSET (0..MaxMessages) /\ S # {} BY DEF LogTyped, Stamps
<1>2. PICK x \in S : \A y \in S : y <= x BY <1>1, ChatAssumption, GreatestExists
<1>3. PICK m \in log : m.at = x BY <1>2
<1>4. \A n \in log : n.at <= m.at BY <1>2, <1>3
<1>5. QED BY <1>3, <1>4 DEF Latest

LEMMA ListKeeps ==
  ASSUME NEW R, NEW W, ChatInv(R, W), NEW u \in People, NEW cursor \in Stamps, ListAmong(W, u, cursor)
  PROVE  ChatInv(R, W)'
<1>1. Visible(cursor) \subseteq log BY DEF Visible
<1>2. Visible(cursor) # {} => Latest(log).at \in Stamps
  BY <1>1, LatestIs DEF ChatInv, ChatTyped, LogTyped
<1>3. seat' \in [People -> SeatRows]
  BY <1>2 DEF ListAmong, ReadUpTo, ChatInv, ChatTyped, LogTyped, SeatRows
<1>4. {m.at : m \in Visible(cursor)} \subseteq Stamps BY <1>1 DEF ChatInv, ChatTyped, LogTyped
<1>5. screen' \in [W -> Screens] BY <1>4 DEF ListAmong, ChatInv, ChatTyped, Screens
<1>6. ChatTyped(R, W)' BY <1>3, <1>5 DEF ListAmong, ChatInv, ChatTyped, LogTyped
<1>7. QED BY <1>6, LogUntouched DEF ListAmong

LEMMA SocketKeeps ==
  ASSUME NEW R, NEW W, ChatInv(R, W), NEW u \in W, Connect(u) \/ Disconnect(u)
  PROVE  ChatInv(R, W)'
<1>1. ChatTyped(R, W)' BY DEF Connect, Disconnect, ChatInv, ChatTyped, LogTyped, Screens
<1>2. QED BY <1>1, LogUntouched DEF Connect, Disconnect

LEMMA ReadingClears ==
  ASSUME LogTyped, LogStamped,
         NEW u \in People, NEW cursor \in Stamps, ListMessages(u, cursor), Visible(cursor) # {}
  PROVE  Unread(u)' = {} /\ GroupUnread(u)' = 0
<1>1. log # {} BY DEF Visible
<1>2. Latest(log) \in log /\ \A n \in log : n.at <= Latest(log).at BY <1>1, LatestIs
<1>3. seat'[u].read = Latest(log).at /\ log' = log BY DEF ListMessages, ReadUpTo, LogTyped, SeatRows
<1>4. Latest(log).at > 0 /\ Latest(log).at \in Int BY <1>2, ChatAssumption DEF LogStamped, LogTyped, Stamps
<1>5. UnreadAfter(u)' = Latest(log).at BY <1>3, <1>4 DEF UnreadAfter
<1>6. \A n \in log : n.at \in Int BY ChatAssumption DEF LogTyped, Stamps
<1>7. Unread(u)' = {} BY <1>2, <1>3, <1>4, <1>5, <1>6 DEF Unread
<1>8. QED BY <1>7, FS_EmptySet DEF GroupUnread

----------------------------------------------------------------------------
(* The invariant *)

LEMMA ChatStarts == ChatInit => ChatInv(Sends, Watchers)
<1> SUFFICES ASSUME ChatInit PROVE ChatInv(Sends, Watchers) OBVIOUS
<1>1. 0 \in Stamps /\ 1 \in 1..MaxMessages + 1 BY ChatAssumption DEF Stamps
<1>2. ChatTyped(Sends, Watchers)
  BY <1>1 DEF ChatInit, ChatTyped, LogTyped, SeatRows, Screens, Empty, SendPhases
<1>3. QED BY <1>2 DEF ChatInit, ChatInv, SentOnce, KeysHeld, Stamped, LogStamped, NotSending

LEMMA ChatMovesKeep ==
  ASSUME NEW R, NEW W, ChatInv(R, W), ChatMoves(R, W) \/ UNCHANGED chatVars
  PROVE  ChatInv(R, W)'
<1>1. CASE UNCHANGED chatVars
  <2>1. ChatTyped(R, W)' BY <1>1 DEF ChatInv, ChatTyped, LogTyped, chatVars
  <2>2. QED BY <1>1, <2>1, LogUntouched DEF chatVars
<1>2. CASE SendMoves(R, W)
  BY <1>2, CheckKeeps, FlushKeeps, SendEndsKeeps, StoreMessageKeeps, DeliverKeeps DEF SendMoves
<1>3. CASE ReadMoves(W) BY <1>3, ListKeeps, SocketKeeps DEF ReadMoves
<1>4. QED BY <1>1, <1>2, <1>3, MembersKeep DEF ChatMoves

LEMMA ChatNextMoves == ChatNext => ChatMoves(Sends, Watchers)
<1>1. ASSUME NEW u, NEW cursor, ListMessages(u, cursor) PROVE ListAmong(Watchers, u, cursor)
  BY <1>1 DEF ListMessages, ListAmong
<1>2. Watchers \subseteq People /\ 0 \in Stamps BY ChatAssumption DEF Stamps
<1>3. Reading => ReadMoves(Watchers) BY <1>1, <1>2 DEF Reading, Recover, ReadMoves
<1>4. ASSUME NEW r \in Sends, Flush(r) PROVE FlushAmong(Sends, r)
  BY <1>4 DEF Flush, UniqueKey, KeyHeld, FlushAmong, KeyFree, KeyTaken
<1>5. ASSUME NEW r \in Sends, PublishMessage(r) PROVE \E to : DeliverAmong(Watchers, r, to)
  BY <1>5 DEF PublishMessage, Deliver, DeliverAmong
<1>6. Sending => SendMoves(Sends, Watchers) BY <1>4, <1>5 DEF Sending, SendMoves
<1>7. QED BY <1>3, <1>6 DEF ChatNext, ChatMoves

LEMMA ChatKeeps == ChatInv(Sends, Watchers) /\ [ChatNext]_chatVars => ChatInv(Sends, Watchers)'
BY ChatNextMoves, ChatMovesKeep

LEMMA ChatTypes == ChatInv(Sends, Watchers) => ChatTypeOK
BY DEF ChatInv, ChatTyped, LogTyped, SeatRows, Screens, ChatTypeOK

\* Members, blocks, messages, requests and pages keep their types.
THEOREM ChatTypeCorrect == ChatSpec => []ChatTypeOK
BY ChatTypes, ChatStarts, ChatKeeps, PTL DEF ChatSpec

\* However sends repeat, overlap, fail and crash, one message is stored for a
\* key (create_message), for any people and keys.
THEOREM OneMessage == ChatSpec => []SentOnce
<1>1. ChatInv(Sends, Watchers) => SentOnce BY DEF ChatInv
<1>2. QED BY <1>1, ChatStarts, ChatKeeps, PTL DEF ChatSpec

\* Reading a page that is not empty leaves nothing unread, in the list of
\* conversations and in the bell (list_messages, unread_count).
THEOREM BellGoesOut == ChatSpec => OpeningClears
<1>1. ChatInv(Sends, Watchers) =>
        [\A u \in People : (\E cursor \in Stamps : ListMessages(u, cursor) /\ Visible(cursor) # {})
           => Unread(u)' = {} /\ GroupUnread(u)' = 0]_chatVars
  BY ReadingClears DEF ChatInv, ChatTyped, Stamped
<1>2. QED BY <1>1, ChatStarts, ChatKeeps, PTL DEF ChatSpec, OpeningClears

----------------------------------------------------------------------------
(* The smaller instance of the chat moves as a chat of one request does. *)

\* One request at a time, and a page of one reader.
LEMMA PagesBegin == Pages!ChatInit => ChatInv({send1}, {uma})
<1> SUFFICES ASSUME Pages!ChatInit PROVE ChatInv({send1}, {uma}) OBVIOUS
<1>1. 0 \in Stamps /\ 1 \in 1..MaxMessages + 1 BY ChatAssumption DEF Stamps
<1>2. ChatTyped({send1}, {uma})
  BY <1>1 DEF Pages!ChatInit, Pages!Empty, Pages!NotSending, ChatTyped, LogTyped, SeatRows, Screens, SendPhases, NotSending
<1>3. QED
  BY <1>2 DEF Pages!ChatInit, Pages!NotSending, ChatInv, SentOnce, KeysHeld, Stamped, LogStamped

LEMMA PagesMoves == Pages!ChatNext => ChatMoves({send1}, {uma})
<1>1. Pages!MembersChange => MembersChange
  <2>1. ASSUME NEW x, Pages!ActivateSeat(x) \/ Pages!LeaveConversation(x) PROVE ActivateSeat(x) \/ LeaveConversation(x)
    BY <2>1 DEF Pages!ActivateSeat, Pages!LeaveConversation, Pages!In, ActivateSeat, LeaveConversation, In
  <2>2. ASSUME NEW x, NEW y, Pages!OpenDirect(x, y) PROVE OpenDirect(x, y)
    BY <2>2 DEF Pages!OpenDirect, Pages!ChatBlocked, Pages!Empty, OpenDirect, ChatBlocked, Empty
  <2>3. ASSUME NEW f, Pages!BlockUser(f) \/ Pages!UnblockUser(f) PROVE BlockUser(f) \/ UnblockUser(f)
    BY <2>3 DEF Pages!BlockUser, Pages!UnblockUser, BlockUser, UnblockUser
  <2>4. Pages!CompletePlan => CompletePlan BY DEF Pages!CompletePlan, CompletePlan
  <2>5. QED BY <2>1, <2>2, <2>3, <2>4 DEF Pages!MembersChange, MembersChange
<1>2. Pages!Sending => SendMoves({send1}, {uma})
  <2> DEFINE r == send1
  <2>1. ASSUME NEW x \in People, NEW k \in ClientKeys, Pages!Check(r, x, k) PROVE Check(r, x, k)
    BY <2>1
    DEF Pages!Check, Pages!NotSending, Pages!Twin, Pages!MaySend, Pages!In, Pages!ChatBlocked,
        Check, NotSending, Twin, MaySend, In, ChatBlocked
  <2>2. Pages!Flush(r) => FlushAmong({send1}, r)
    BY DEF Pages!Flush, Pages!UniqueKey, Pages!KeyHeld, Pages!Twin, FlushAmong, KeyFree, KeyTaken, Twin
  <2>3. Pages!FlushTwin(r) \/ Pages!StoreMessage(r) \/ Pages!Abort(r) => FlushTwin(r) \/ StoreMessage(r) \/ Abort(r)
    BY DEF Pages!FlushTwin, Pages!StoreMessage, Pages!Abort, Pages!Twin, Pages!NotSending,
           FlushTwin, StoreMessage, Abort, Twin, NotSending
  <2>4. Pages!PublishMessage(r) => \E to : DeliverAmong({uma}, r, to)
    BY DEF Pages!PublishMessage, Pages!Deliver, Pages!NotSending, DeliverAmong, NotSending
  <2>5. QED BY <2>1, <2>2, <2>3, <2>4 DEF Pages!Sending, SendMoves
<1>3. Pages!Reading => ReadMoves({uma})
  <2>1. Pages!Stamps = Stamps /\ \A cursor : Pages!Visible(cursor) = Visible(cursor)
    <3>1. ASSUME NEW S PROVE Pages!Cardinality(S) = Cardinality(S) BY DEF Pages!Cardinality, Cardinality
    <3>2. ASSUME NEW cursor PROVE Pages!Visible(cursor) = Visible(cursor)
      <4> DEFINE rest == {m \in log : m.at > cursor}
                 before(m) == {n \in rest : n.at < m.at}
      <4>1. Visible(cursor) = {m \in rest : Cardinality(before(m)) < HistoryPage} BY DEF Visible
      <4>2. Pages!Visible(cursor) = {m \in rest : Pages!Cardinality(before(m)) < HistoryPage} BY DEF Pages!Visible
      <4>3. \A m : Pages!Cardinality(before(m)) = Cardinality(before(m)) BY <3>1
      <4> HIDE DEF rest, before
      <4>4. QED BY <4>1, <4>2, <4>3
    <3>3. QED BY <3>2 DEF Pages!Stamps, Stamps
  <2>2. ASSUME NEW x, NEW cursor, Pages!ListMessages(x, cursor) PROVE ListAmong({uma}, x, cursor)
    <3> DEFINE shown == {m.at : m \in Visible(cursor)}
               seen == {m.at : m \in Pages!Visible(cursor)}
               up == Pages!ReadUpTo(cursor)
    <3>1. up = ReadUpTo(cursor) BY DEF Pages!ReadUpTo, Pages!Latest, ReadUpTo, Latest
    <3>2. seen = shown BY <2>1
    <3>3. /\ seat' = IF Pages!Visible(cursor) = {} THEN seat ELSE [seat EXCEPT ![x].read = up]
          /\ screen' = IF x \notin {uma} THEN screen
                       ELSE [screen EXCEPT ![x].shown = @ \cup seen, ![x].again = FALSE]
          /\ UNCHANGED <<chatKind, ended, foes, log, stamp, sends>>
      BY <2>2 DEF Pages!ListMessages
    <3> HIDE DEF seen, up
    <3>4. /\ seat' = IF Visible(cursor) = {} THEN seat ELSE [seat EXCEPT ![x].read = ReadUpTo(cursor)]
          /\ screen' = IF x \notin {uma} THEN screen
                       ELSE [screen EXCEPT ![x].shown = @ \cup seen, ![x].again = FALSE]
      BY <2>1, <3>1, <3>3
    <3>5. QED BY <3>2, <3>3, <3>4 DEF ListAmong
  <2>3. Pages!Connect(uma) \/ Pages!Disconnect(uma) => Connect(uma) \/ Disconnect(uma)
    BY DEF Pages!Connect, Pages!Disconnect, Pages!In, Connect, Disconnect, In
  <2>4. 0 \in Stamps BY ChatAssumption DEF Stamps
  <2>5. QED BY <2>1, <2>2, <2>3, <2>4, TravellersAssumption DEF Pages!Reading, Pages!Recover, ReadMoves
<1>4. QED BY <1>1, <1>2, <1>3 DEF Pages!ChatNext, ChatMoves

LEMMA PagesTypes == ChatInv({send1}, {uma}) => Pages!ChatTypeOK
BY DEF ChatInv, ChatTyped, LogTyped, SeatRows, Screens, Stamps, SendPhases, NotSending,
       Pages!ChatTypeOK, Pages!Stamps, Pages!SendPhases, Pages!NotSending

----------------------------------------------------------------------------
(***************************************************************************)
(* Experiences: a booking takes its places under the row lock of its       *)
(* session, and an edit, however old its reading, writes neither places    *)
(* nor more places than there are.                                         *)
(***************************************************************************)

\* A booking is of a session that exists; what editors hold exists.
Existing ==
  /\ \A s \in Sessions : sessions[s] = Vacant => \A t \in Travelers : bookings[s][t] = Vacant
  /\ \A e \in Editors : editing[e] # Vacant =>
       /\ editing[e].what = "session" => sessions[editing[e].of] # Vacant
       /\ editing[e].what = "booking" => bookings[editing[e].of][editing[e].traveler] # Vacant

PlacesCounted ==
  \A s \in Sessions : sessions[s] # Vacant =>
    Cardinality(Taken(s)) = sessions[s].reserved /\ sessions[s].reserved <= sessions[s].capacity

Attended == \A r \in reviewed : bookings[r[1]][r[2]] # Vacant /\ bookings[r[1]][r[2]].status = "verified"

ExperiencesInv == ExperiencesTypeOK /\ Existing /\ PlacesCounted /\ Attended

SessionEdits == [what : {"session"}, of : Sessions,
  set : [status : SessionStatuses \union {"kept"}, capacity : 0..MaxCapacity]]

BookingEdits == [what : {"booking"}, of : Sessions, traveler : Travelers]

LEMMA ExperienceRows == ASSUME ExperiencesTypeOK PROVE
  /\ \A s \in Sessions : sessions[s] # Vacant => sessions[s] \in SessionRows
  /\ \A s \in Sessions, t \in Travelers : bookings[s][t] # Vacant => bookings[s][t] \in BookingRows
  /\ \A e \in Editors : editing[e] # Vacant =>
       /\ editing[e] \in EditRequests
       /\ editing[e].what = "session" => editing[e] \in SessionEdits
       /\ editing[e].what = "booking" => editing[e] \in BookingEdits
BY DEF ExperiencesTypeOK, EditRequests, SessionEdits, BookingEdits

\* Steps that change neither bookings nor reserved places: an editor is in
\* work, a session is written, a provider or a status changes.
LEMMA SessionsKeep ==
  ASSUME ExperiencesInv, ExperiencesTypeOK', UNCHANGED <<bookings, reviewed>>,
         \A s \in Sessions : IF sessions[s] # Vacant
           THEN /\ sessions'[s] # Vacant /\ sessions'[s].reserved = sessions[s].reserved
                /\ sessions'[s].reserved <= sessions'[s].capacity
           ELSE sessions'[s] = Vacant,
         \A e \in Editors : editing'[e] \in {editing[e], Vacant}
           \/ /\ editing'[e].what = "session" => sessions[editing'[e].of] # Vacant /\ editing'[e].of \in Sessions
              /\ editing'[e].what = "booking" => bookings[editing'[e].of][editing'[e].traveler] # Vacant
  PROVE  ExperiencesInv'
<1>1. PlacesCounted' BY DEF ExperiencesInv, PlacesCounted, Taken
<1>2. Attended' BY DEF ExperiencesInv, Attended
<1>3. ASSUME NEW e \in Editors, editing'[e] # Vacant PROVE
        /\ editing'[e].what = "session" => sessions'[editing'[e].of] # Vacant
        /\ editing'[e].what = "booking" => bookings'[editing'[e].of][editing'[e].traveler] # Vacant
  <2>1. CASE editing'[e] = editing[e]
    BY <1>3, <2>1, ExperienceRows DEF ExperiencesInv, Existing, SessionEdits
  <2>2. QED BY <1>3, <2>1
<1>4. Existing' BY <1>3 DEF ExperiencesInv, Existing
<1>5. QED BY <1>1, <1>2, <1>4 DEF ExperiencesInv

\* A session as it is meets what SessionsKeep asks.
LEMMA SessionAsItIs == ASSUME ExperiencesInv, NEW s \in Sessions, sessions[s] # Vacant
  PROVE sessions[s].reserved <= sessions[s].capacity
BY DEF ExperiencesInv, PlacesCounted

LEMMA ProviderKeeps ==
  ASSUME ExperiencesInv,
         \/ ApplyProvider
         \/ \E e \in Editors : LoadProvider(e)
         \/ \E e \in Editors, status \in {"approved", "rejected"} : WriteDecision(e, status)
         \/ \E status \in {"draft", "published"} : CreateExperience(status)
         \/ \E status \in {"draft", "published", "archived"} : UpdateExperience(status)
         \/ \E s \in Sessions : SessionStarts(s)
  PROVE  ExperiencesInv'
<1>1. CASE ApplyProvider
  <2>1. ExperiencesTypeOK' BY <1>1 DEF ApplyProvider, ExperiencesInv, ExperiencesTypeOK, ProviderStatuses
  <2>2. QED BY <1>1, <2>1, SessionsKeep, SessionAsItIs DEF ApplyProvider
<1>2. ASSUME NEW e \in Editors, LoadProvider(e) PROVE ExperiencesInv'
  <2> DEFINE request == [what |-> "provider"]
  <2>1. request \in EditRequests BY DEF EditRequests
  <2>2. editing' = [editing EXCEPT ![e] = request] /\ UNCHANGED <<provider, experience, sessions, bookings, reviewed, past>>
    BY <1>2 DEF LoadProvider, Starts
  <2>3. ExperiencesTypeOK' BY <2>1, <2>2 DEF ExperiencesInv, ExperiencesTypeOK
  <2>4. \A d \in Editors : editing'[d] \in {editing[d], Vacant} \/ editing'[d].what = "provider"
    BY <2>2 DEF ExperiencesInv, ExperiencesTypeOK
  <2>5. QED BY <2>2, <2>3, <2>4, SessionsKeep, SessionAsItIs
<1>3. ASSUME NEW e \in Editors, NEW status \in {"approved", "rejected"}, WriteDecision(e, status) PROVE ExperiencesInv'
  <2>1. editing' = [editing EXCEPT ![e] = Vacant] /\ UNCHANGED <<experience, sessions, bookings, reviewed, past>>
    BY <1>3 DEF WriteDecision, Ends
  <2>2. provider' \in [status : ProviderStatuses, staffed : BOOLEAN]
    BY <1>3 DEF WriteDecision, ExperiencesInv, ExperiencesTypeOK, ProviderStatuses
  <2>3. ExperiencesTypeOK' BY <2>1, <2>2 DEF ExperiencesInv, ExperiencesTypeOK
  <2>4. \A d \in Editors : editing'[d] \in {editing[d], Vacant} BY <2>1 DEF ExperiencesInv, ExperiencesTypeOK
  <2>5. QED BY <2>1, <2>3, <2>4, SessionsKeep, SessionAsItIs
<1>4. ASSUME NEW status \in {"draft", "published", "archived"}, CreateExperience(status) \/ UpdateExperience(status)
      PROVE  ExperiencesInv'
  <2>1. ExperiencesTypeOK' /\ UNCHANGED <<sessions, bookings, reviewed, editing>>
    BY <1>4 DEF CreateExperience, UpdateExperience, ExperiencesInv, ExperiencesTypeOK, ExperienceStatuses
  <2>2. QED BY <2>1, SessionsKeep, SessionAsItIs
<1>5. ASSUME NEW s \in Sessions, SessionStarts(s) PROVE ExperiencesInv'
  <2>1. ExperiencesTypeOK' /\ UNCHANGED <<sessions, bookings, reviewed, editing>>
    BY <1>5 DEF SessionStarts, ExperiencesInv, ExperiencesTypeOK
  <2>2. QED BY <2>1, SessionsKeep, SessionAsItIs
<1>6. QED BY <1>1, <1>2, <1>3, <1>4, <1>5

LEMMA CreateSessionKeeps ==
  ASSUME ExperiencesInv, NEW s \in Sessions, NEW n \in Capacities, CreateSession(s, n) PROVE ExperiencesInv'
<1> DEFINE new == [status |-> "scheduled", capacity |-> n, reserved |-> 0]
<1>1. /\ sessions[s] = Vacant /\ sessions' = [sessions EXCEPT ![s] = new]
      /\ UNCHANGED <<provider, experience, bookings, reviewed, past, editing>>
  BY DEF CreateSession
<1>2. new \in SessionRows /\ new # Vacant /\ new.reserved = 0 /\ 0 <= new.capacity
  BY ExperiencesAssumption DEF SessionRows, SessionStatuses, Capacities
<1> HIDE DEF new
<1>3. ExperiencesTypeOK' BY <1>1, <1>2 DEF ExperiencesInv, ExperiencesTypeOK
<1>4. Taken(s)' = {} BY <1>1 DEF ExperiencesInv, Existing, Taken
<1>5. \A t \in Sessions : t # s => sessions'[t] = sessions[t] BY <1>1 DEF ExperiencesInv, ExperiencesTypeOK
<1>6. sessions'[s] = new BY <1>1 DEF ExperiencesInv, ExperiencesTypeOK
<1>7. \A t \in Sessions : Taken(t)' = Taken(t) BY <1>1 DEF Taken
<1>8. PlacesCounted' BY <1>2, <1>4, <1>5, <1>6, <1>7, FS_EmptySet DEF ExperiencesInv, PlacesCounted
<1>9. Existing' BY <1>1, <1>2, <1>5, <1>6, ExperienceRows DEF ExperiencesInv, Existing, SessionEdits
<1>10. Attended' BY <1>1 DEF ExperiencesInv, Attended
<1>11. QED BY <1>3, <1>8, <1>9, <1>10 DEF ExperiencesInv

LEMMA LoadSessionKeeps ==
  ASSUME ExperiencesInv, NEW e \in Editors, NEW s \in Sessions, NEW status \in SessionStatuses, NEW n \in Capacities,
         LoadSession(e, s, status, n)
  PROVE  ExperiencesInv'
<1> DEFINE request == [what |-> "session", of |-> s, set |-> Changes(sessions[s], status, n)]
<1>1. /\ sessions[s] # Vacant /\ editing' = [editing EXCEPT ![e] = request]
      /\ UNCHANGED <<provider, experience, sessions, bookings, reviewed, past>>
  BY DEF LoadSession, Starts
<1>2. Changes(sessions[s], status, n) \in [status : SessionStatuses \union {"kept"}, capacity : 0..MaxCapacity]
  BY ExperiencesAssumption DEF Changes, Capacities
<1>3. request \in EditRequests BY <1>2 DEF EditRequests
<1>4. ExperiencesTypeOK' BY <1>1, <1>3 DEF ExperiencesInv, ExperiencesTypeOK
<1>5. \A d \in Editors : editing'[d] = editing[d] \/ (editing'[d].what = "session" /\ editing'[d].of = s)
  BY <1>1 DEF ExperiencesInv, ExperiencesTypeOK
<1>6. QED BY <1>1, <1>4, <1>5, SessionsKeep, SessionAsItIs

LEMMA EditedRow ==
  ASSUME NEW old \in SessionRows,
         NEW set \in [status : SessionStatuses \union {"kept"}, capacity : 0..MaxCapacity]
  PROVE  Edited(old, set) \in SessionRows /\ Edited(old, set).reserved = old.reserved
<1> DEFINE status == IF set.status = "kept" THEN old.status ELSE set.status
           capacity == IF set.capacity = 0 THEN old.capacity ELSE set.capacity
<1>1. old.status \in SessionStatuses /\ old.capacity \in Capacities /\ old.reserved \in 0..MaxCapacity
  BY DEF SessionRows
<1>2. set.status \in SessionStatuses \union {"kept"} /\ set.capacity \in 0..MaxCapacity OBVIOUS
<1>3. status \in SessionStatuses BY <1>1, <1>2
<1>4. capacity \in Capacities BY <1>1, <1>2, ExperiencesAssumption DEF Capacities
<1>5. Edited(old, set) = [old EXCEPT !.status = status, !.capacity = capacity]
  <2>1. [old EXCEPT !.status = IF set.status = "kept" THEN @ ELSE set.status].capacity = old.capacity
    BY DEF SessionRows
  <2>2. QED BY <2>1 DEF Edited
<1> HIDE DEF status, capacity
<1>6. Edited(old, set) = [status |-> status, capacity |-> capacity, reserved |-> old.reserved]
  BY <1>5 DEF SessionRows
<1>7. QED BY <1>1, <1>3, <1>4, <1>6 DEF SessionRows

LEMMA WriteSessionKeeps == ASSUME ExperiencesInv, NEW e \in Editors, WriteSession(e) PROVE ExperiencesInv'
<1> DEFINE s == editing[e].of
           set == editing[e].set
           new == Edited(sessions[s], set)
<1>1. /\ editing[e] # Vacant /\ editing[e].what = "session" /\ editing' = [editing EXCEPT ![e] = Vacant]
      /\ sessions' = IF Holds(new) THEN [sessions EXCEPT ![s] = new] ELSE sessions
      /\ UNCHANGED <<provider, experience, bookings, reviewed, past>>
  BY DEF WriteSession, Works, Free, Ends
<1>2. editing[e] \in SessionEdits /\ sessions[s] # Vacant
  BY <1>1, ExperienceRows DEF ExperiencesInv, Existing
<1>3. s \in Sessions /\ set \in [status : SessionStatuses \union {"kept"}, capacity : 0..MaxCapacity]
      /\ sessions[s] \in SessionRows
  BY <1>2, ExperienceRows DEF SessionEdits, ExperiencesInv
<1>4. new \in SessionRows /\ new.reserved = sessions[s].reserved
  BY <1>3, EditedRow
<1>5. new # Vacant BY <1>4, ExperiencesAssumption
<1>6. Holds(new) => new.reserved <= new.capacity BY DEF Holds
<1> HIDE DEF new, set, s
<1>7. ExperiencesTypeOK' BY <1>1, <1>3, <1>4 DEF ExperiencesInv, ExperiencesTypeOK
<1>8. \A d \in Editors : editing'[d] \in {editing[d], Vacant} BY <1>1 DEF ExperiencesInv, ExperiencesTypeOK
<1>9. \A t \in Sessions : IF sessions[t] # Vacant
        THEN /\ sessions'[t] # Vacant /\ sessions'[t].reserved = sessions[t].reserved
             /\ sessions'[t].reserved <= sessions'[t].capacity
        ELSE sessions'[t] = Vacant
  BY <1>1, <1>2, <1>4, <1>5, <1>6, SessionAsItIs DEF ExperiencesInv, ExperiencesTypeOK, s
<1>10. QED BY <1>1, <1>7, <1>8, <1>9, SessionsKeep

----------------------------------------------------------------------------
LEMMA BookKeeps ==
  ASSUME ExperiencesInv, NEW t \in Travelers, NEW s \in Sessions, NEW n \in Parties, Book(t, s, n) PROVE ExperiencesInv'
<1> DEFINE row1 == [count |-> n, status |-> "reserved"]
           old == sessions[s]
           new == [old EXCEPT !.reserved = old.reserved + n]
           places == {t} \X (1..n)
<1>1. /\ old # Vacant /\ bookings[s][t] = Vacant /\ old.capacity - old.reserved >= n
      /\ sessions' = [sessions EXCEPT ![s] = new] /\ bookings' = [bookings EXCEPT ![s][t] = row1]
      /\ UNCHANGED <<provider, experience, reviewed, past, editing>>
  BY DEF Book, HasPlaces, ExperiencesInv, ExperiencesTypeOK
<1>2. old \in SessionRows BY <1>1, ExperienceRows DEF ExperiencesInv
<1>3. n \in Nat /\ n <= MaxParty /\ old.reserved \in Nat /\ old.capacity \in Nat /\ old.capacity <= MaxCapacity
  BY <1>2, ExperiencesAssumption DEF SessionRows, Parties, Capacities
<1>4. old.reserved + n \in 0..MaxCapacity BY <1>1, <1>3, ExperiencesAssumption
<1>5. /\ new \in SessionRows /\ new.reserved = old.reserved + n /\ new.capacity = old.capacity
  BY <1>2, <1>4 DEF SessionRows
<1>6. new # Vacant BY <1>5, ExperiencesAssumption
<1>7. row1 \in BookingRows /\ row1.count = n BY DEF BookingRows
<1>8. row1 # Vacant BY <1>7, ExperiencesAssumption
<1> HIDE DEF new, row1
<1>9. /\ sessions'[s] = new /\ \A x \in Sessions : x # s => sessions'[x] = sessions[x]
      /\ bookings'[s][t] = row1
      /\ \A x \in Sessions, y \in Travelers : x # s \/ y # t => bookings'[x][y] = bookings[x][y]
  BY <1>1 DEF ExperiencesInv, ExperiencesTypeOK
<1>10. ExperiencesTypeOK'
  <2>1. sessions' \in [Sessions -> SessionRows \union {Vacant}] BY <1>1, <1>5 DEF ExperiencesInv, ExperiencesTypeOK
  <2>2. bookings' \in [Sessions -> [Travelers -> BookingRows \union {Vacant}]]
    BY <1>1, <1>7 DEF ExperiencesInv, ExperiencesTypeOK
  <2>3. QED BY <1>1, <2>1, <2>2 DEF ExperiencesInv, ExperiencesTypeOK
<1>11. Taken(s)' = Taken(s) \cup places
  <2>1. \A i \in Int : i \in Parties /\ i <= n <=> i \in 1..n BY <1>3, ExperiencesAssumption DEF Parties
  <2>2. \A p \in Travelers \X Parties : p \in Taken(s)' <=> p \in Taken(s) \/ (p[1] = t /\ p[2] <= n)
    BY <1>1, <1>7, <1>8, <1>9 DEF Taken
  <2>3. \A p \in Travelers \X Parties : p[2] \in Int BY DEF Parties
  <2>4. Taken(s) \subseteq Travelers \X Parties /\ Taken(s)' \subseteq Travelers \X Parties BY DEF Taken
  <2>5. places \subseteq Travelers \X Parties BY <2>1
  <2>6. \A p \in Travelers \X Parties : p[1] = t /\ p[2] <= n <=> p \in places BY <2>1, <2>3
  <2> HIDE DEF places
  <2>7. QED BY <2>2, <2>4, <2>5, <2>6
<1>12. IsFiniteSet(Taken(s))
  <2>1. IsFiniteSet(Parties) BY FS_Interval, ExperiencesAssumption DEF Parties
  <2>2. IsFiniteSet(Travelers \X Parties) BY <2>1, FS_Product, ExperiencesAssumption
  <2>3. QED BY <2>2, FS_Subset DEF Taken
<1>13. IsFiniteSet(places) /\ Cardinality(places) = n
  <2>1. IsFiniteSet(1..n) /\ Cardinality(1..n) = n BY <1>3, FS_Interval
  <2>2. IsFiniteSet({t}) /\ Cardinality({t}) = 1 BY FS_Singleton
  <2>3. IsFiniteSet(places) /\ Cardinality(places) = 1 * n BY <2>1, <2>2, FS_Product
  <2>4. QED BY <1>3, <2>3
<1>14. Taken(s) \cap places = {} BY <1>1 DEF Taken
<1>15. Cardinality(Taken(s)') = old.reserved + n
  <2>1. Cardinality(Taken(s)) = old.reserved BY <1>1 DEF ExperiencesInv, PlacesCounted
  <2> HIDE DEF places
  <2>2. Cardinality(Taken(s) \cup places) = Cardinality(Taken(s)) + Cardinality(places) - Cardinality({})
    BY <1>12, <1>13, <1>14, FS_Union
  <2>3. QED BY <1>3, <1>11, <1>13, <2>1, <2>2, FS_EmptySet
<1>16. \A x \in Sessions : x # s => Taken(x)' = Taken(x) BY <1>9 DEF Taken
<1>17. PlacesCounted'
  BY <1>1, <1>3, <1>5, <1>9, <1>15, <1>16 DEF ExperiencesInv, PlacesCounted
<1>18. Existing'
  BY <1>1, <1>6, <1>8, <1>9, ExperienceRows DEF ExperiencesInv, Existing, SessionEdits, BookingEdits
<1>19. Attended' BY <1>1, <1>9 DEF ExperiencesInv, ExperiencesTypeOK, Attended, ReviewRows
<1>20. QED BY <1>10, <1>17, <1>18, <1>19 DEF ExperiencesInv

LEMMA LoadBookingKeeps ==
  ASSUME ExperiencesInv, NEW e \in Editors, NEW s \in Sessions, NEW t \in Travelers, LoadBooking(e, s, t)
  PROVE  ExperiencesInv'
<1> DEFINE request == [what |-> "booking", of |-> s, traveler |-> t]
<1>1. /\ bookings[s][t] # Vacant /\ editing' = [editing EXCEPT ![e] = request]
      /\ UNCHANGED <<provider, experience, sessions, bookings, reviewed, past>>
  BY DEF LoadBooking, Starts
<1>2. request \in EditRequests BY DEF EditRequests
<1>3. ExperiencesTypeOK' BY <1>1, <1>2 DEF ExperiencesInv, ExperiencesTypeOK
<1>4. \A d \in Editors : editing'[d] = editing[d]
        \/ (editing'[d].what = "booking" /\ editing'[d].of = s /\ editing'[d].traveler = t)
  BY <1>1 DEF ExperiencesInv, ExperiencesTypeOK
<1>5. QED BY <1>1, <1>3, <1>4, SessionsKeep, SessionAsItIs

LEMMA VerifiedKeeps == ASSUME ExperiencesInv, NEW e \in Editors, WriteVerified(e) PROVE ExperiencesInv'
<1> DEFINE s == editing[e].of
           t == editing[e].traveler
           new == [bookings[s][t] EXCEPT !.status = "verified"]
<1>1. /\ editing[e] # Vacant /\ editing[e].what = "booking" /\ editing' = [editing EXCEPT ![e] = Vacant]
      /\ UNCHANGED <<provider, experience, sessions, reviewed, past>>
  BY DEF WriteVerified, Works, Free, Ends
<1>2. editing[e] \in BookingEdits /\ bookings[s][t] # Vacant BY <1>1, ExperienceRows DEF ExperiencesInv, Existing
<1>3. s \in Sessions /\ t \in Travelers /\ bookings[s][t] \in BookingRows
  BY <1>2, ExperienceRows DEF BookingEdits, ExperiencesInv
<1>4. bookings' = [bookings EXCEPT ![s][t] = new] BY <1>3 DEF WriteVerified, ExperiencesInv, ExperiencesTypeOK
<1>5. new \in BookingRows /\ new.count = bookings[s][t].count /\ new.status = "verified" BY <1>3 DEF BookingRows
<1>6. new # Vacant BY <1>5, ExperiencesAssumption
<1> HIDE DEF new, s, t
<1>7. bookings' \in [Sessions -> [Travelers -> BookingRows \union {Vacant}]]
  BY <1>3, <1>4, <1>5 DEF ExperiencesInv, ExperiencesTypeOK
<1>8. ExperiencesTypeOK' BY <1>1, <1>7 DEF ExperiencesInv, ExperiencesTypeOK
<1>9. /\ bookings'[s][t] = new
      /\ \A x \in Sessions, y \in Travelers : x # s \/ y # t => bookings'[x][y] = bookings[x][y]
  BY <1>3, <1>4 DEF ExperiencesInv, ExperiencesTypeOK
<1>10. \A x \in Sessions, y \in Travelers : /\ bookings'[x][y] # Vacant <=> bookings[x][y] # Vacant
                                            /\ bookings[x][y] # Vacant => bookings'[x][y].count = bookings[x][y].count
  BY <1>2, <1>5, <1>6, <1>9 DEF s, t
<1>11. \A x \in Sessions : Taken(x)' = Taken(x) BY <1>10 DEF Taken
<1>12. PlacesCounted' BY <1>1, <1>11 DEF ExperiencesInv, PlacesCounted
<1>13. \A d \in Editors : editing'[d] \in {editing[d], Vacant} BY <1>1 DEF ExperiencesInv, ExperiencesTypeOK
<1>14. Existing' BY <1>1, <1>10, <1>13, ExperienceRows DEF ExperiencesInv, Existing, BookingEdits, SessionEdits
<1>15. Attended' BY <1>1, <1>5, <1>6, <1>9 DEF ExperiencesInv, ExperiencesTypeOK, Attended, ReviewRows
<1>16. QED BY <1>8, <1>12, <1>14, <1>15 DEF ExperiencesInv

LEMMA ReviewBookingKeeps ==
  ASSUME ExperiencesInv, NEW s \in Sessions, NEW t \in Travelers, ReviewBooking(s, t) PROVE ExperiencesInv'
<1>1. /\ bookings[s][t] # Vacant /\ bookings[s][t].status = "verified" /\ reviewed' = reviewed \union {<<s, t>>}
      /\ UNCHANGED <<provider, experience, sessions, bookings, past, editing>>
  BY DEF ReviewBooking
<1>2. ExperiencesTypeOK' BY <1>1 DEF ExperiencesInv, ExperiencesTypeOK, ReviewRows
<1>3. Existing' /\ PlacesCounted' BY <1>1 DEF ExperiencesInv, Existing, PlacesCounted, Taken
<1>4. Attended' BY <1>1 DEF ExperiencesInv, Attended
<1>5. QED BY <1>2, <1>3, <1>4 DEF ExperiencesInv

LEMMA ExperiencesStart == ExperiencesInit => ExperiencesInv
BY ExperiencesAssumption DEF ExperiencesInit, ExperiencesInv, ExperiencesTypeOK, Existing, PlacesCounted,
  Attended, ProviderStatuses, ExperienceStatuses

LEMMA ExperiencesStep == ExperiencesInv /\ [ExperiencesNext]_experienceVars => ExperiencesInv'
<1> SUFFICES ASSUME ExperiencesInv, [ExperiencesNext]_experienceVars PROVE ExperiencesInv' OBVIOUS
<1>1. CASE UNCHANGED experienceVars
  BY <1>1 DEF experienceVars, ExperiencesInv, ExperiencesTypeOK, Existing, PlacesCounted, Attended, Taken
<1>2. CASE Offering BY <1>2, ProviderKeeps, CreateSessionKeeps, LoadSessionKeeps, WriteSessionKeeps DEF Offering
<1>3. CASE Attending BY <1>3, BookKeeps, LoadBookingKeeps, VerifiedKeeps, ReviewBookingKeeps DEF Attending
<1>4. QED BY <1>1, <1>2, <1>3 DEF ExperiencesNext

LEMMA PlacesFollow == ExperiencesInv => PlacesAreKept
BY DEF ExperiencesInv, PlacesCounted, Attended, PlacesAreKept

\* Providers, sessions, bookings and what editors hold keep their types.
THEOREM ExperiencesTypeCorrect == ExperiencesSpec => []ExperiencesTypeOK
<1>1. ExperiencesInv => ExperiencesTypeOK BY DEF ExperiencesInv
<1>2. QED BY <1>1, ExperiencesStart, ExperiencesStep, PTL DEF ExperiencesSpec

\* Reserved places are booked places, within the capacity, and whoever reviewed
\* was there, for any travelers, parties and editors (book, verify,
\* update_workspace_session, review_booking).
THEOREM PlacesKept == ExperiencesSpec => []PlacesAreKept
BY PlacesFollow, ExperiencesStart, ExperiencesStep, PTL DEF ExperiencesSpec

----------------------------------------------------------------------------
(***************************************************************************)
(* Knowledge: a worker that writes a store took work that was granted, the *)
(* statuses that lead there are written by who was granted them, an        *)
(* external source is never removed, and whoever writes a status that only *)
(* a handler may leave has published its event.                            *)
(***************************************************************************)

WasReviewed == "approved" \in granted /\ (kind = "post" => "published" \in granted)

\* What a worker may be doing.  An external source is never removed.
Handled(job) ==
  \/ job = NotWorking
  \/ job.on \in Topics /\ job.phase = "commit"
  \/ job.on \in {"index", "remove", "rebuild"} /\ job.phase \in {"dense", "bm25"}

NoRemoval == kind = "web" => pending["remove"] = 0 /\ \A w \in Workers : work[w].on # "remove"

\* What is handled when the granted decisions alone let it be.
WorkIsGranted(job) ==
  (job.on # "remove" /\ job.phase \in {"dense", "bm25"}) \/ (kind # "post" /\ job.on \in {"index", "remove"})
  => WasReviewed

WorkIsSound == \A w \in Workers : Handled(work[w]) /\ WorkIsGranted(work[w])

\* The statuses of a source that has been approved at some time.
Sent == {"indexing", "indexed", "failed", "removing"}

RowIsGranted ==
  /\ kind = "post" /\ row.status = "published" => "published" \in granted
  /\ kind = "post" /\ row.review = "approved" => "approved" \in granted
  /\ kind # "post" /\ row.status \in Sent => "approved" \in granted

\* A removal was opened for an indexed source, whatever it is when it is written.
DesksAreGranted == \A d \in Desks : desks[d].to = "removing" => "approved" \in granted

KnowledgeInv ==
  /\ KnowledgeTypeOK /\ WorkIsSound /\ RowIsGranted /\ DesksAreGranted /\ NoRemoval
  /\ KnowledgeIsReviewed /\ WorkIsOnItsWay

\* What the rules of a kind may do: the columns they decide, and the events
\* that go with a status nobody but a handler may leave.
RuleIsSound(rule) ==
  /\ rule.asks \subseteq Topics /\ (kind = "web" => "remove" \notin rule.asks)
  /\ \/ /\ rule.column = "status" /\ rule.to \in Statuses
        /\ rule.to = "indexing" => "index" \in rule.asks
        /\ rule.to = "removing" => "remove" \in rule.asks
        /\ rule.to = "removing" => rule.from = {"indexed"}
        /\ kind # "post" => rule.to \notin {"indexed", "failed"}
        /\ rule.to = "published" => kind = "post"
     \/ rule.column = "review" /\ rule.to \in {"approved", "rejected"}
     \/ rule.column = "candidate" /\ rule.to \in Candidates
     \/ rule.column \in Jobs /\ rule.to = "queued" /\ rule.column \in rule.asks

LEMMA SoundRules == ASSUME kind \in Kinds, NEW rule \in Rules PROVE RuleIsSound(rule) /\ rule # NoDecision
<1>1. CASE kind = "post"
  <2>1. rule \in SubmitRules \cup PostRules \cup ReviewRules \cup RebuildRules BY <1>1 DEF Rules
  <2>2. "pending_review" \in Statuses /\ "published" \in Statuses /\ "rejected" \in Statuses /\ "hidden" \in Statuses
    BY <1>1 DEF Statuses, PostStatuses
  <2>3. QED BY <1>1, <2>1, <2>2 DEF SubmitRules, PostRules, PublishRules, RejectRules, HideRules, ReviewRules,
                RebuildRules, Rule, RuleIsSound, NoDecision, Topics, Jobs
<1>2. CASE kind \in {"poi", "structured"}
  <2>1. \/ rule \in ProposeRules \cup OfficialRules
        \/ rule \in PoiRules
        \/ rule \in PoiImportRules \cup PoiRetryRules \cup StructuredImportRules \cup StructuredRetryRules \cup RebuildRules
    BY <1>2 DEF Rules
  <2>2. "pending_review" \in Statuses /\ "indexing" \in Statuses /\ "rejected" \in Statuses
        /\ "removing" \in Statuses /\ "inactive" \in Statuses
    BY <1>2 DEF Statuses, OfficialStatuses
  <2>3. CASE rule \in ProposeRules \cup OfficialRules
    BY <1>2, <2>2, <2>3 DEF ProposeRules, OfficialRules, Rule, RuleIsSound, NoDecision, Topics
  <2>4. CASE rule \in PoiRules
    BY <1>2, <2>4 DEF PoiRules, Rule, RuleIsSound, NoDecision, Topics, Candidates
  <2>5. CASE rule \in PoiImportRules \cup PoiRetryRules \cup StructuredImportRules \cup StructuredRetryRules \cup RebuildRules
    BY <1>2, <2>5 DEF PoiImportRules, PoiRetryRules, StructuredImportRules, StructuredRetryRules, RebuildRules,
         Rule, RuleIsSound, NoDecision, Topics, Jobs
  <2>6. QED BY <2>1, <2>3, <2>4, <2>5
<1>3. CASE kind = "web"
  <2>1. rule \in WebRules \cup WebCandidateRules \cup SearchRules BY <1>3 DEF Rules
  <2>2. "indexing" \in Statuses /\ "rejected" \in Statuses BY <1>3 DEF Statuses, WebStatuses
  <2>3. QED BY <1>3, <2>1, <2>2 DEF WebRules, WebCandidateRules, SearchRules, Rule, RuleIsSound, NoDecision,
                Topics, Jobs, Candidates
<1>4. QED BY <1>1, <1>2, <1>3 DEF Kinds

\* The row as the handlers and decisions leave it, column by column.
Columns == [status : Statuses, review : Reviews, candidate : Candidates,
            import : JobStatuses, search : JobStatuses, rebuild : JobStatuses]

\* A step that keeps the kind, the types and what was granted, and that hands
\* nothing to a worker.
LEMMA StepKeeps ==
  ASSUME KnowledgeInv, KnowledgeTypeOK', kind' = kind,
         granted \subseteq granted', RowIsGranted', DesksAreGranted',
         \A w \in Workers : work'[w] \in {work[w], NotWorking},
         kind = "web" => pending'["remove"] = 0,
         (dense' \/ bm25') => dense \/ bm25,
         WorkIsOnItsWay'
  PROVE  KnowledgeInv'
<1>1. WasReviewed => WasReviewed' BY DEF WasReviewed
<1>2. WorkIsSound'
  <2>1. SUFFICES ASSUME NEW w \in Workers PROVE Handled(work'[w]) /\ WorkIsGranted(work[w])'
    BY DEF WorkIsSound, Handled, NotWorking
  <2>2. CASE work'[w] = work[w] BY <1>1, <2>2 DEF KnowledgeInv, WorkIsSound, WorkIsGranted
  <2>3. CASE work'[w] = NotWorking BY <2>3 DEF Handled, NotWorking, WorkIsGranted
  <2>4. QED BY <2>2, <2>3
<1>3. NoRemoval' BY DEF KnowledgeInv, NoRemoval, NotWorking
<1>4. KnowledgeIsReviewed' BY <1>1 DEF KnowledgeInv, KnowledgeIsReviewed, WasReviewed
<1>5. QED BY <1>2, <1>3, <1>4 DEF KnowledgeInv

LEMMA OpenKeeps ==
  ASSUME KnowledgeInv, NEW d \in Desks, NEW rule \in Rules, Open(d, rule) PROVE KnowledgeInv'
<1>1. /\ desks' = [desks EXCEPT ![d] = rule] /\ row[rule.column] \in rule.from
      /\ UNCHANGED <<kind, row, pending, dead, work, dense, bm25, granted, faults>>
  BY DEF Open
<1>2. KnowledgeTypeOK' BY <1>1 DEF KnowledgeInv, KnowledgeTypeOK, Rules, Statuses
<1>3. RowIsGranted' BY <1>1 DEF KnowledgeInv, RowIsGranted
<1>4. rule.to = "removing" => "approved" \in granted
  <2>1. RuleIsSound(rule) /\ kind \in Kinds /\ row.status \in Statuses
    BY SoundRules DEF KnowledgeInv, KnowledgeTypeOK
  <2>2. rule.to = "removing" => row.status = "indexed" BY <1>1, <2>1 DEF RuleIsSound, Candidates
  <2>3. row.status = "indexed" => kind # "post" BY <2>1 DEF Statuses, PostStatuses
  <2>4. QED BY <2>2, <2>3 DEF KnowledgeInv, RowIsGranted, Sent
<1>5. DesksAreGranted' BY <1>1, <1>4 DEF KnowledgeInv, KnowledgeTypeOK, DesksAreGranted
<1>6. WorkIsOnItsWay' BY <1>1 DEF KnowledgeInv, WorkIsOnItsWay, Underway
<1>7. QED BY <1>1, <1>2, <1>3, <1>5, <1>6, StepKeeps DEF KnowledgeInv, NoRemoval

\* A row whose columns differ from those of an existing row in one or two.
LEMMA SetColumn ==
  ASSUME NEW old \in Columns, NEW col \in {"status", "review", "candidate", "import", "search", "rebuild"}, NEW val,
         col = "status" => val \in Statuses,
         col = "review" => val \in Reviews,
         col = "candidate" => val \in Candidates,
         col \in Jobs => val \in JobStatuses
  PROVE  /\ [old EXCEPT ![col] = val] \in Columns
         /\ [old EXCEPT ![col] = val].status = IF col = "status" THEN val ELSE old.status
         /\ [old EXCEPT ![col] = val].review = IF col = "review" THEN val ELSE old.review
         /\ \A j \in Jobs : [old EXCEPT ![col] = val][j] = IF col = j THEN val ELSE old[j]
<1>1. CASE col = "status" BY <1>1 DEF Columns, Jobs
<1>2. CASE col = "review" BY <1>2 DEF Columns, Jobs
<1>3. CASE col = "candidate" BY <1>3 DEF Columns, Jobs
<1>4. CASE col = "import" BY <1>4 DEF Columns, Jobs
<1>5. CASE col = "search" BY <1>5 DEF Columns, Jobs
<1>6. CASE col = "rebuild" BY <1>6 DEF Columns, Jobs
<1>7. QED BY <1>1, <1>2, <1>3, <1>4, <1>5, <1>6

LEMMA DecidedRow ==
  ASSUME KnowledgeInv, NEW rule \in Rules, ~Refused(rule)
  PROVE  /\ Decided(rule) \in Columns
         /\ Decided(rule).status \in {row.status, "pending_review"} \/ (rule.column = "status" /\ Decided(rule).status = rule.to)
         /\ Decided(rule).review \in {row.review, "pending"} \/ (rule.column = "review" /\ Decided(rule).review = rule.to)
         /\ \A j \in Jobs : Decided(rule)[j] = row[j] \/ (rule.column = j /\ j \in rule.asks)
<1> DEFINE next == [row EXCEPT ![rule.column] = rule.to]
<1>1. RuleIsSound(rule) /\ kind \in Kinds /\ row \in Columns
  BY SoundRules DEF KnowledgeInv, KnowledgeTypeOK, Columns
<1>2. rule.column \in {"status", "review", "candidate", "import", "search", "rebuild"}
      /\ (rule.column = "status" => rule.to \in Statuses)
      /\ (rule.column = "review" => rule.to \in Reviews)
      /\ (rule.column = "candidate" => rule.to \in Candidates)
      /\ (rule.column \in Jobs => rule.to \in JobStatuses)
  BY <1>1 DEF RuleIsSound, Jobs, Reviews, JobStatuses
<1>3. /\ next \in Columns
      /\ next.status = IF rule.column = "status" THEN rule.to ELSE row.status
      /\ next.review = IF rule.column = "review" THEN rule.to ELSE row.review
      /\ \A j \in Jobs : next[j] = IF rule.column = j THEN rule.to ELSE row[j]
  BY <1>1, <1>2, SetColumn
<1> HIDE DEF next
<1>4. "pending_review" \in Statuses
  BY <1>1 DEF Kinds, Statuses, PostStatuses, WebStatuses, OfficialStatuses
<1>5. CASE AsksReview(rule)
  <2>1. ~ProposesSource(rule) BY <1>5 DEF AsksReview, ProposesSource
  <2>2. Decided(rule) = [next EXCEPT !.review = "pending"] BY <1>5, <2>1 DEF Decided, next
  <2>3. /\ Decided(rule) \in Columns /\ Decided(rule).status = next.status /\ Decided(rule).review = "pending"
        /\ \A j \in Jobs : Decided(rule)[j] = next[j]
    BY <2>2, <1>3 DEF Columns, Reviews, Jobs
  <2>4. rule.column = "status" BY <1>1, <1>5 DEF RuleIsSound, AsksReview, Jobs, Candidates
  <2>5. QED BY <2>3, <2>4, <1>3, <1>5 DEF AsksReview, Jobs
<1>6. CASE ~AsksReview(rule) /\ ProposesSource(rule)
  <2>1. Decided(rule) = [next EXCEPT !.status = "pending_review"] BY <1>6 DEF Decided, next
  <2>2. /\ Decided(rule) \in Columns /\ Decided(rule).status = "pending_review" /\ Decided(rule).review = next.review
        /\ \A j \in Jobs : Decided(rule)[j] = next[j]
    BY <2>1, <1>3, <1>4 DEF Columns, Jobs
  <2>3. QED BY <2>2, <1>3, <1>6 DEF ProposesSource, Jobs
<1>7. CASE ~AsksReview(rule) /\ ~ProposesSource(rule)
  <2>1. Decided(rule) = next BY <1>7 DEF Decided, next
  <2>2. \A j \in Jobs : Decided(rule)[j] = row[j] \/ (rule.column = j /\ j \in rule.asks)
    BY <2>1, <1>1, <1>3 DEF RuleIsSound, Jobs
  <2>3. QED BY <2>1, <2>2, <1>3
<1>8. QED BY <1>5, <1>6, <1>7

LEMMA CloseKeeps == ASSUME KnowledgeInv, NEW d \in Desks, Close(d) PROVE KnowledgeInv'
<1> DEFINE rule == desks[d]
<1>1. /\ rule # NoDecision /\ \A q \in rule.asks : pending[q] < MaxPending
      /\ desks' = [desks EXCEPT ![d] = NoDecision]
      /\ UNCHANGED <<kind, dead, work, dense, bm25, faults>>
  BY DEF Close
<1>2. rule \in Rules /\ RuleIsSound(rule) BY <1>1, SoundRules DEF KnowledgeInv, KnowledgeTypeOK
<1>3. desks' \in [Desks -> Rules' \union {NoDecision}]
  BY <1>1 DEF KnowledgeInv, KnowledgeTypeOK, Rules
<1>4. granted \subseteq granted' => DesksAreGranted'
  BY <1>1 DEF KnowledgeInv, KnowledgeTypeOK, DesksAreGranted, NoDecision, Rule
<1>5. CASE Refused(rule)
  <2>1. UNCHANGED <<row, pending, granted>> BY <1>5 DEF Close
  <2>2. KnowledgeTypeOK' BY <1>1, <1>3, <2>1 DEF KnowledgeInv, KnowledgeTypeOK, Statuses
  <2>3. RowIsGranted' BY <1>1, <2>1 DEF KnowledgeInv, RowIsGranted
  <2>4. WorkIsOnItsWay' BY <1>1, <2>1 DEF KnowledgeInv, WorkIsOnItsWay, Underway
  <2>5. QED BY <1>1, <1>4, <2>1, <2>2, <2>3, <2>4, StepKeeps DEF KnowledgeInv, NoRemoval
<1>6. CASE ~Refused(rule)
  <2>1. /\ row' = Decided(rule) /\ granted' = granted \cup Grants(rule)
        /\ pending' = [q \in Topics |-> pending[q] + IF q \in rule.asks THEN 1 ELSE 0]
    BY <1>6 DEF Close
  <2> HIDE DEF rule
  <2>2. row' \in Columns
        /\ (row'.status \in {row.status, "pending_review"} \/ (rule.column = "status" /\ row'.status = rule.to))
        /\ (row'.review \in {row.review, "pending"} \/ (rule.column = "review" /\ row'.review = rule.to))
        /\ \A j \in Jobs : row'[j] = row[j] \/ (rule.column = j /\ j \in rule.asks)
    BY <1>2, <1>6, <2>1, DecidedRow
  <2>3. \A q \in Topics : pending[q] \in 0..MaxPending BY DEF KnowledgeInv, KnowledgeTypeOK
  <2>4. pending' \in [Topics -> 0..MaxPending] BY <1>1, <2>1, <2>3, KnowledgeAssumption
  <2>5. Grants(rule) \subseteq {"published", "approved"} BY DEF Grants
  <2>6. KnowledgeTypeOK'
    BY <1>1, <1>3, <2>1, <2>2, <2>4, <2>5 DEF KnowledgeInv, KnowledgeTypeOK, Statuses, Columns
  <2>7. RowIsGranted'
    <3>1. rule.to = "published" => "published" \in granted' BY <2>1 DEF Grants
    <3>2. rule.to = "indexing" \/ (rule.column = "review" /\ rule.to = "approved") => "approved" \in granted'
      BY <2>1 DEF Grants
    <3>3. rule.to = "removing" => "approved" \in granted
      BY <1>2 DEF KnowledgeInv, DesksAreGranted, rule
    <3>4. CASE kind = "post" BY <1>1, <2>1, <2>2, <3>1, <3>2, <3>4 DEF KnowledgeInv, RowIsGranted
    <3>5. CASE kind # "post"
      <4>1. SUFFICES ASSUME row'.status \in Sent PROVE "approved" \in granted'
        BY <1>1, <3>5 DEF RowIsGranted
      <4>2. CASE row'.status = row.status
        BY <2>1, <3>5, <4>1, <4>2 DEF KnowledgeInv, RowIsGranted
      <4>3. CASE rule.column = "status" /\ row'.status = rule.to
        <5>1. rule.to \in {"indexing", "removing"} BY <1>2, <3>5, <4>1, <4>3 DEF RuleIsSound, Sent, Jobs
        <5>2. QED BY <2>1, <3>2, <3>3, <5>1
      <4>4. QED BY <2>2, <4>1, <4>2, <4>3 DEF Sent
    <3>6. QED BY <3>4, <3>5
  <2>8. \A q \in Topics : /\ Underway(q) => Underway(q)'
                          /\ q \in rule.asks => Underway(q)'
    BY <1>1, <2>1, <2>3, KnowledgeAssumption DEF Underway
  <2>9. WorkIsOnItsWay'
    <3>1. kind' # "post" /\ row'.status = "indexing" => Underway("index")'
      BY <1>1, <1>2, <2>2, <2>8 DEF KnowledgeInv, WorkIsOnItsWay, RuleIsSound, Topics, Jobs
    <3>2. row'.status = "removing" => Underway("remove")'
      BY <1>1, <1>2, <2>2, <2>8 DEF KnowledgeInv, WorkIsOnItsWay, RuleIsSound, Topics, Jobs
    <3>3. \A j \in Jobs : row'[j] = "queued" => Underway(j)'
      BY <2>2, <2>8 DEF KnowledgeInv, WorkIsOnItsWay, Jobs, Topics
    <3>4. QED BY <3>1, <3>2, <3>3 DEF WorkIsOnItsWay
  <2>10. kind = "web" => pending'["remove"] = 0
    BY <1>2, <2>1 DEF KnowledgeInv, NoRemoval, RuleIsSound, Topics
  <2>11. QED BY <1>1, <1>4, <2>1, <2>6, <2>7, <2>9, <2>10, StepKeeps
<1>7. QED BY <1>5, <1>6

\* A worker is done with its delivery: the others go on.
LEMMA DoneFacts ==
  ASSUME KnowledgeInv, NEW w \in Workers, Done(w)
  PROVE  /\ \A x \in Workers : work'[x] \in {work[x], NotWorking}
         /\ work' \in [Workers -> [on : Topics \cup {"-"}, phase : {"idle", "dense", "bm25", "commit"}]]
         /\ \A q \in Topics \ {work[w].on} : Underway(q) =>
              q \in dead \/ pending[q] > 0 \/ \E x \in Workers : work'[x].on = q
<1>1. work' = [work EXCEPT ![w] = NotWorking] BY DEF Done
<1>2. work \in [Workers -> [on : Topics \cup {"-"}, phase : {"idle", "dense", "bm25", "commit"}]]
  BY DEF KnowledgeInv, KnowledgeTypeOK
<1>3. NotWorking \in [on : Topics \cup {"-"}, phase : {"idle", "dense", "bm25", "commit"}] BY DEF NotWorking
<1>4. \A x \in Workers : work'[x] = IF x = w THEN NotWorking ELSE work[x] BY <1>1, <1>2
<1>5. \A q \in Topics \ {work[w].on} : Underway(q) =>
        q \in dead \/ pending[q] > 0 \/ \E x \in Workers : work'[x].on = q
  BY <1>4 DEF Underway
<1>6. QED BY <1>1, <1>2, <1>3, <1>4, <1>5

LEMMA TakeKeeps == ASSUME KnowledgeInv, NEW w \in Workers, NEW q \in Topics, Take(w, q) PROVE KnowledgeInv'
<1> DEFINE job == [on |-> q, phase |-> FirstPhase(q)]
<1>1. /\ work[w] = NotWorking /\ pending[q] > 0 /\ pending' = [pending EXCEPT ![q] = pending[q] - 1]
      /\ work' = IF Wanted(q) THEN [work EXCEPT ![w] = job] ELSE work
      /\ UNCHANGED <<kind, row, dead, desks, dense, bm25, granted, faults>>
  BY DEF Take
<1>2. pending \in [Topics -> 0..MaxPending] /\ pending[q] \in 0..MaxPending
      /\ work \in [Workers -> [on : Topics \cup {"-"}, phase : {"idle", "dense", "bm25", "commit"}]]
  BY DEF KnowledgeInv, KnowledgeTypeOK
<1>3. pending[q] - 1 \in 0..MaxPending /\ pending[q] - 1 < pending[q] BY <1>1, <1>2, KnowledgeAssumption
<1>4. \A p \in Topics : pending'[p] = IF p = q THEN pending[q] - 1 ELSE pending[p] BY <1>1, <1>2
<1>5. pending' \in [Topics -> 0..MaxPending] BY <1>1, <1>2, <1>3
<1>6. FirstPhase(q) \in {"dense", "commit"} /\ (FirstPhase(q) = "dense" => q \in {"index", "remove", "rebuild"})
  BY DEF FirstPhase
<1>7. job \in [on : Topics \cup {"-"}, phase : {"idle", "dense", "bm25", "commit"}] /\ Handled(job) /\ job # NotWorking
  BY <1>6 DEF Handled, NotWorking
<1> HIDE DEF job
<1>8. \A x \in Workers : work'[x] = IF x = w /\ Wanted(q) THEN job ELSE work[x] BY <1>1, <1>2
<1>9. work' \in [Workers -> [on : Topics \cup {"-"}, phase : {"idle", "dense", "bm25", "commit"}]]
  BY <1>1, <1>2, <1>7
<1>10. KnowledgeTypeOK' BY <1>1, <1>5, <1>9 DEF KnowledgeInv, KnowledgeTypeOK, Rules, Statuses
<1>11. Wanted(q) => WorkIsGranted(job)
  <2>1. kind = "post" /\ Recallable => WasReviewed BY DEF KnowledgeInv, RowIsGranted, WasReviewed, Recallable
  <2>2. kind # "post" /\ row.status \in Sent => WasReviewed BY DEF KnowledgeInv, RowIsGranted, WasReviewed
  <2>3. job.on = q /\ job.phase = FirstPhase(q) BY DEF job
  <2>4. CASE q = "index" BY <2>1, <2>2, <2>3, <2>4 DEF WorkIsGranted, Wanted, Recallable, Sent
  <2>5. CASE q = "remove" BY <2>2, <2>3, <2>5 DEF WorkIsGranted, Wanted, Sent
  <2>6. CASE q = "rebuild" BY <2>1, <2>2, <2>3, <2>6 DEF WorkIsGranted, FirstPhase, Rebuilt, Sent
  <2>7. CASE q \notin {"index", "remove", "rebuild"} BY <1>6, <2>3, <2>7 DEF WorkIsGranted
  <2>8. QED BY <2>4, <2>5, <2>6, <2>7
<1>12. WasReviewed' <=> WasReviewed BY <1>1 DEF WasReviewed
<1>13. job.on = q /\ job.phase = FirstPhase(q) BY DEF job
<1>14. WorkIsSound'
  <2>1. SUFFICES ASSUME NEW x \in Workers
                 PROVE  Handled(work'[x]) /\ WorkIsGranted(work[x])'
    BY DEF WorkIsSound, Handled, NotWorking
  <2>2. CASE work'[x] = work[x] BY <1>1, <1>12, <2>2 DEF KnowledgeInv, WorkIsSound, WorkIsGranted
  <2>3. CASE Wanted(q) /\ work'[x] = job BY <1>1, <1>7, <1>11, <1>12, <2>3 DEF WorkIsGranted
  <2>4. QED BY <2>2, <2>3, <1>8
<1>15. NoRemoval'
  <2>1. SUFFICES ASSUME kind = "web"
                 PROVE  pending'["remove"] = 0 /\ \A x \in Workers : work'[x].on # "remove"
    BY <1>1 DEF NoRemoval
  <2>2. pending["remove"] = 0 /\ (\A x \in Workers : work[x].on # "remove") BY <2>1 DEF KnowledgeInv, NoRemoval
  <2>3. q # "remove" BY <2>2, <1>1
  <2>4. "remove" \in Topics BY DEF Topics
  <2>5. QED BY <2>2, <2>3, <2>4, <1>4, <1>8, <1>13
<1>16. \A p \in Topics : Underway(p) /\ (p # q \/ Wanted(q)) => Underway(p)'
  <2>1. SUFFICES ASSUME NEW p \in Topics, Underway(p), p # q \/ Wanted(q) PROVE Underway(p)'
    OBVIOUS
  <2>2. CASE pending[p] > 0 /\ p # q BY <2>2, <1>4 DEF Underway
  <2>3. CASE p = q BY <2>1, <2>3, <1>8, <1>13 DEF Underway
  <2>4. CASE p \in dead BY <2>4, <1>1 DEF Underway
  <2>5. CASE p # q /\ \E x \in Workers : work[x].on = p
    <3>1. PICK x \in Workers : work[x].on = p BY <2>5
    <3>2. x # w BY <1>1, <3>1 DEF NotWorking, Topics
    <3>3. QED BY <3>1, <3>2, <1>8 DEF Underway
  <2>6. QED BY <2>1, <2>2, <2>3, <2>4, <2>5 DEF Underway
<1>17. WorkIsOnItsWay'
  <2>1. kind \in Kinds /\ row.status \in Statuses BY DEF KnowledgeInv, KnowledgeTypeOK
  <2>2. kind' # "post" /\ row'.status = "indexing" => Underway("index")'
    BY <1>1, <1>16 DEF KnowledgeInv, WorkIsOnItsWay, Topics, Wanted
  <2>3. row'.status = "removing" => Underway("remove")'
    BY <1>1, <1>16 DEF KnowledgeInv, WorkIsOnItsWay, Topics, Wanted
  <2>4. \A j \in Jobs : row'[j] = "queued" => Underway(j)'
    BY <1>1, <1>16 DEF KnowledgeInv, WorkIsOnItsWay, Topics, Jobs, Wanted
  <2>5. QED BY <2>2, <2>3, <2>4 DEF WorkIsOnItsWay
<1>18. KnowledgeIsReviewed' BY <1>1 DEF KnowledgeInv, KnowledgeIsReviewed
<1>19. RowIsGranted' /\ DesksAreGranted' BY <1>1 DEF KnowledgeInv, RowIsGranted, DesksAreGranted
<1>20. QED BY <1>10, <1>14, <1>15, <1>17, <1>18, <1>19 DEF KnowledgeInv

\* A store is written or emptied.
LEMMA StoreIndexKeeps ==
  ASSUME KnowledgeInv, NEW w \in Workers, NEW holds \in BOOLEAN, Store(w, holds),
         work[w].phase \in {"dense", "bm25"}, holds => work[w].on # "remove"
  PROVE  KnowledgeInv'
<1> DEFINE job == [work[w] EXCEPT !.phase = IF work[w].phase = "dense" THEN "bm25" ELSE "commit"]
<1>1. /\ work' = [work EXCEPT ![w] = job]
      /\ UNCHANGED <<kind, row, pending, dead, desks, granted, faults>>
      /\ dense' \in {dense, holds} /\ bm25' \in {bm25, holds}
  BY DEF Store, Advance
<1>2. work \in [Workers -> [on : Topics \cup {"-"}, phase : {"idle", "dense", "bm25", "commit"}]]
      /\ work[w] \in [on : Topics \cup {"-"}, phase : {"idle", "dense", "bm25", "commit"}]
      /\ dense \in BOOLEAN /\ bm25 \in BOOLEAN
  BY DEF KnowledgeInv, KnowledgeTypeOK
<1>3. /\ job \in [on : Topics \cup {"-"}, phase : {"idle", "dense", "bm25", "commit"}]
      /\ job.on = work[w].on /\ job.phase \in {"bm25", "commit"}
  BY <1>2
<1>4. work[w].on \in {"index", "remove", "rebuild"} BY DEF KnowledgeInv, WorkIsSound, Handled, NotWorking
<1>5. Handled(job) BY <1>3, <1>4 DEF Handled, Topics
<1> HIDE DEF job
<1>6. \A x \in Workers : work'[x] = IF x = w THEN job ELSE work[x] BY <1>1, <1>2
<1>7. work' \in [Workers -> [on : Topics \cup {"-"}, phase : {"idle", "dense", "bm25", "commit"}]] BY <1>1, <1>2, <1>3
<1>8. dense' \in BOOLEAN /\ bm25' \in BOOLEAN BY <1>1, <1>2
<1>9. KnowledgeTypeOK' BY <1>1, <1>7, <1>8 DEF KnowledgeInv, KnowledgeTypeOK, Rules, Statuses
<1>10. WasReviewed' <=> WasReviewed BY <1>1 DEF WasReviewed
<1>11. WorkIsGranted(work[w]) /\ (work[w].on # "remove" => WasReviewed)
  BY DEF KnowledgeInv, WorkIsSound, WorkIsGranted
<1>12. WorkIsSound'
  <2>1. SUFFICES ASSUME NEW x \in Workers
                 PROVE  Handled(work'[x]) /\ WorkIsGranted(work[x])'
    BY DEF WorkIsSound, Handled, NotWorking
  <2>2. CASE x # w BY <1>1, <1>6, <1>10, <2>2 DEF KnowledgeInv, WorkIsSound, WorkIsGranted
  <2>3. CASE x = w BY <1>1, <1>3, <1>5, <1>6, <1>10, <1>11, <2>3 DEF WorkIsGranted
  <2>4. QED BY <2>2, <2>3
<1>13. \A x \in Workers : work'[x].on = work[x].on BY <1>3, <1>6
<1>14. NoRemoval' BY <1>1, <1>13 DEF KnowledgeInv, NoRemoval
<1>15. WorkIsOnItsWay' BY <1>1, <1>13 DEF KnowledgeInv, WorkIsOnItsWay, Underway
<1>16. KnowledgeIsReviewed'
  <2>1. KnowledgeIsReviewed <=> (dense \/ bm25 => WasReviewed) BY DEF KnowledgeIsReviewed, WasReviewed
  <2>2. KnowledgeIsReviewed' <=> (dense' \/ bm25' => WasReviewed') BY DEF KnowledgeIsReviewed, WasReviewed
  <2>3. KnowledgeIsReviewed BY DEF KnowledgeInv
  <2>4. dense' \/ bm25' => dense \/ bm25 \/ holds BY <1>1
  <2>5. QED BY <2>1, <2>2, <2>3, <2>4, <1>10, <1>11
<1>17. RowIsGranted' /\ DesksAreGranted' BY <1>1 DEF KnowledgeInv, RowIsGranted, DesksAreGranted
<1>18. QED BY <1>9, <1>12, <1>14, <1>15, <1>16, <1>17 DEF KnowledgeInv

\* A delivery ends and the row is written.
LEMMA WorkEndsKeeps ==
  ASSUME KnowledgeInv, NEW w \in Workers, Done(w), row' \in Columns,
         UNCHANGED <<kind, desks, dense, bm25>>, dead \subseteq dead', dead' \subseteq Topics,
         faults' \in 0..MaxFaults, pending' \in [Topics -> 0..MaxPending],
         granted \subseteq granted', granted' \subseteq {"published", "approved"}, RowIsGranted',
         \A q \in Topics : pending'[q] >= pending[q],
         kind = "web" => pending'["remove"] = 0,
         \A q \in Topics : work[w].on = q => q \in dead' \/ pending'[q] > 0
           \/ (q \in Jobs /\ row'[q] # "queued")
           \/ (q = "index" /\ (kind = "post" \/ row'.status # "indexing"))
           \/ (q = "remove" /\ row'.status # "removing"),
         row'.status = "indexing" => row.status = "indexing" \/ pending'["index"] > 0,
         row'.status = "removing" => row.status = "removing",
         \A j \in Jobs : row'[j] = "queued" => row[j] = "queued"
  PROVE  KnowledgeInv'
<1>1. \A x \in Workers : work'[x] \in {work[x], NotWorking} BY DoneFacts
<1>2. KnowledgeTypeOK' BY DoneFacts DEF KnowledgeInv, KnowledgeTypeOK, Rules, Statuses, Columns
<1>3. \A q \in Topics : pending[q] \in 0..MaxPending /\ pending'[q] \in 0..MaxPending
  BY DEF KnowledgeInv, KnowledgeTypeOK
<1>4. \A q \in Topics : Underway(q) => \/ Underway(q)'
                                       \/ q \in Jobs /\ row'[q] # "queued"
                                       \/ q = "index" /\ (kind = "post" \/ row'.status # "indexing")
                                       \/ q = "remove" /\ row'.status # "removing"
  <2>1. SUFFICES ASSUME NEW q \in Topics, Underway(q)
                 PROVE  \/ Underway(q)'
                        \/ q \in Jobs /\ row'[q] # "queued"
                        \/ q = "index" /\ (kind = "post" \/ row'.status # "indexing")
                        \/ q = "remove" /\ row'.status # "removing"
    OBVIOUS
  <2>2. CASE q = work[w].on BY <2>2 DEF Underway
  <2>3. CASE q # work[w].on
    <3>1. q \in dead \/ pending[q] > 0 \/ \E x \in Workers : work'[x].on = q BY <2>1, <2>3, DoneFacts
    <3>2. pending[q] > 0 => pending'[q] > 0 BY <1>3, KnowledgeAssumption
    <3>3. QED BY <3>1, <3>2 DEF Underway
  <2>4. QED BY <2>2, <2>3
<1>5. WorkIsOnItsWay'
  <2>1. kind' # "post" /\ row'.status = "indexing" => Underway("index")'
    BY <1>4 DEF KnowledgeInv, WorkIsOnItsWay, Topics, Jobs, Underway
  <2>2. row'.status = "removing" => Underway("remove")'
    BY <1>4 DEF KnowledgeInv, WorkIsOnItsWay, Topics, Jobs
  <2>3. \A j \in Jobs : row'[j] = "queued" => Underway(j)'
    BY <1>4 DEF KnowledgeInv, WorkIsOnItsWay, Topics, Jobs
  <2>4. QED BY <2>1, <2>2, <2>3 DEF WorkIsOnItsWay
<1>6. DesksAreGranted' BY DEF KnowledgeInv, DesksAreGranted
<1>7. QED BY <1>1, <1>2, <1>5, <1>6, StepKeeps

LEMMA ResultFacts ==
  ASSUME KnowledgeInv, NEW q \in {"index", "remove", "rebuild"}, NEW good \in BOOLEAN,
         kind = "web" => q # "remove"
  PROVE  /\ Result(q, good) \in Columns
         /\ Result(q, good).review = row.review
         /\ Result(q, good).status \in {row.status, "indexed", "failed", "inactive"}
         /\ kind = "post" \/ (q = "rebuild" /\ good) => Result(q, good).status = row.status
         /\ kind # "post" /\ q # "rebuild" => Result(q, good).status # row.status \/ row.status \notin {"indexing", "removing"}
         /\ \A j \in Jobs : Result(q, good)[j] = "queued" => row[j] = "queued" /\ j # q
<1>1. kind \in Kinds /\ row \in Columns BY DEF KnowledgeInv, KnowledgeTypeOK, Columns
<1>2. kind # "post" => {"indexed", "failed"} \subseteq Statuses
  BY <1>1 DEF Kinds, Statuses, OfficialStatuses, WebStatuses
<1>3. kind \in {"poi", "structured"} => "inactive" \in Statuses BY DEF Statuses, OfficialStatuses
<1>4. CASE q = "rebuild"
  <2>1. Result(q, good) = RebuiltIndex(good) BY <1>4 DEF Result
  <2>2. CASE good \/ kind = "post"
    <3>1. RebuiltIndex(good) = [row EXCEPT !.rebuild = IF good THEN "succeeded" ELSE "failed"]
      BY <2>2, <1>1 DEF RebuiltIndex, Columns
    <3>2. QED BY <1>1, <1>4, <2>1, <3>1 DEF Columns, Jobs, JobStatuses
  <2>3. CASE ~good /\ kind # "post"
    <3>1. RebuiltIndex(good) = [row EXCEPT !.rebuild = "failed", !.status = "failed"]
      BY <2>3, <1>1 DEF RebuiltIndex, Columns
    <3>2. "failed" \in Statuses /\ "failed" \in JobStatuses BY <1>2, <2>3 DEF JobStatuses
    <3>3. /\ RebuiltIndex(good) \in Columns /\ RebuiltIndex(good).review = row.review
          /\ RebuiltIndex(good).status = "failed"
          /\ \A j \in Jobs : RebuiltIndex(good)[j] = IF j = "rebuild" THEN "failed" ELSE row[j]
      BY <1>1, <3>1, <3>2 DEF Columns, Jobs
    <3>4. QED BY <1>4, <2>1, <2>3, <3>3 DEF Jobs
  <2>4. QED BY <2>2, <2>3
<1>5. CASE q # "rebuild" /\ kind = "post"
  <2>1. Result(q, good) = row BY <1>5 DEF Result, IndexedPost
  <2>2. QED BY <1>1, <1>5, <2>1 DEF Jobs
<1>6. CASE q = "index" /\ kind # "post"
  <2>1. Result(q, good) = [row EXCEPT !.status = IF good THEN "indexed" ELSE "failed"]
    BY <1>1, <1>6 DEF Result, IndexedWeb, IndexedOfficial, Kinds
  <2>2. QED BY <1>1, <1>2, <1>6, <2>1 DEF Columns, Jobs
<1>7. CASE q = "remove" /\ kind # "post"
  <2>1. Result(q, good) = [row EXCEPT !.status = IF good THEN "inactive" ELSE "indexed"]
    BY <1>1, <1>7 DEF Result, RemovedSource
  <2>2. QED BY <1>1, <1>2, <1>3, <1>7, <2>1 DEF Columns, Jobs, Kinds
<1>8. QED BY <1>4, <1>5, <1>6, <1>7

\* A handler writes its result.
LEMMA FinishKeeps ==
  ASSUME KnowledgeInv, NEW w \in Workers, NEW good \in BOOLEAN, work[w].on \in {"index", "remove", "rebuild"},
         row' = Result(work[w].on, good), Done(w), faults' \in 0..MaxFaults,
         work[w].on = "rebuild" => good \/ WasReviewed,
         UNCHANGED <<kind, pending, dead, desks, dense, bm25, granted>>
  PROVE  KnowledgeInv'
<1> DEFINE q == work[w].on
<1>1. kind = "web" => q # "remove" BY DEF KnowledgeInv, NoRemoval
<1>2. /\ row' \in Columns
      /\ row'.review = row.review
      /\ row'.status \in {row.status, "indexed", "failed", "inactive"}
      /\ kind = "post" \/ (q = "rebuild" /\ good) => row'.status = row.status
      /\ kind # "post" /\ q # "rebuild" => row'.status # row.status \/ row.status \notin {"indexing", "removing"}
      /\ \A j \in Jobs : row'[j] = "queued" => row[j] = "queued" /\ j # q
  BY <1>1, ResultFacts
<1>3. RowIsGranted'
  <2>1. CASE kind = "post" BY <1>2, <2>1 DEF KnowledgeInv, RowIsGranted
  <2>2. CASE kind # "post" /\ q = "rebuild" /\ good BY <1>2, <2>2 DEF KnowledgeInv, RowIsGranted
  <2>3. CASE kind # "post" /\ ~(q = "rebuild" /\ good)
    <3>1. WasReviewed BY <2>3 DEF KnowledgeInv, WorkIsSound, WorkIsGranted
    <3>2. QED BY <2>3, <3>1 DEF RowIsGranted, WasReviewed
  <2>4. QED BY <2>1, <2>2, <2>3
<1>4. kind = "post" => row.status # "removing"
  BY DEF KnowledgeInv, KnowledgeTypeOK, Statuses, PostStatuses
<1>5. dead' \subseteq Topics /\ pending' \in [Topics -> 0..MaxPending] /\ granted' \subseteq {"published", "approved"}
      /\ \A p \in Topics : pending[p] \in 0..MaxPending
  BY DEF KnowledgeInv, KnowledgeTypeOK
<1>6. \A p \in Topics : pending'[p] >= pending[p] BY <1>5, KnowledgeAssumption
<1>7. kind = "web" => pending'["remove"] = 0 BY DEF KnowledgeInv, NoRemoval
<1>8. \A p \in Topics : q = p => p \in dead' \/ pending'[p] > 0
           \/ (p \in Jobs /\ row'[p] # "queued")
           \/ (p = "index" /\ (kind = "post" \/ row'.status # "indexing"))
           \/ (p = "remove" /\ row'.status # "removing")
  BY <1>2, <1>4 DEF Jobs
<1>9. (row'.status = "indexing" => row.status = "indexing") /\ (row'.status = "removing" => row.status = "removing")
  BY <1>2
<1>10. QED BY <1>2, <1>3, <1>5, <1>6, <1>7, <1>8, <1>9, WorkEndsKeeps

LEMMA CommitKeeps == ASSUME KnowledgeInv, NEW w \in Workers, Commit(w) PROVE KnowledgeInv'
<1>1. faults' \in 0..MaxFaults BY DEF Commit, KnowledgeInv, KnowledgeTypeOK
<1>2. QED BY <1>1, FinishKeeps DEF Commit

LEMMA FaultIsCounted == ASSUME KnowledgeInv, faults < MaxFaults, faults' = faults + 1 PROVE faults' \in 0..MaxFaults
  BY KnowledgeAssumption DEF KnowledgeInv, KnowledgeTypeOK

LEMMA StoreFailsKeeps == ASSUME KnowledgeInv, NEW w \in Workers, StoreFails(w) PROVE KnowledgeInv'
<1>1. work[w].on \in {"index", "remove", "rebuild"}
  BY DEF StoreFails, KnowledgeInv, WorkIsSound, Handled, NotWorking
<1>2. faults' \in 0..MaxFaults BY FaultIsCounted DEF StoreFails
<1>3. work[w].on = "rebuild" => WasReviewed BY DEF StoreFails, KnowledgeInv, WorkIsSound, WorkIsGranted
<1>4. QED BY <1>1, <1>2, <1>3, FinishKeeps DEF StoreFails

LEMMA ImportKeeps ==
  ASSUME KnowledgeInv, NEW w \in Workers, kind \in {"poi", "structured"}, Import(w) PROVE KnowledgeInv'
<1>1. /\ work[w].on = "import" /\ pending["index"] < MaxPending /\ Done(w)
      /\ row' = [row EXCEPT !.import = "succeeded", !.status = IF row.status = "none" THEN "indexing" ELSE row.status]
      /\ pending' = [pending EXCEPT !["index"] = pending["index"] + IF row.status \in {"none", "indexing"} THEN 1 ELSE 0]
      /\ granted' = granted \cup IF row.status = "none" THEN {"approved"} ELSE {}
      /\ UNCHANGED <<kind, dead, desks, dense, bm25, faults>>
  BY DEF Import, Imported, ImportEvents, KnowledgeInv, KnowledgeTypeOK
<1>2. /\ row \in Columns /\ pending \in [Topics -> 0..MaxPending] /\ dead \subseteq Topics /\ faults \in 0..MaxFaults
      /\ granted \subseteq {"published", "approved"}
  BY DEF KnowledgeInv, KnowledgeTypeOK, Columns
<1>3. "indexing" \in Statuses BY DEF Statuses, OfficialStatuses
<1>4. /\ row' \in Columns /\ row'.review = row.review
      /\ row'.status = IF row.status = "none" THEN "indexing" ELSE row.status
      /\ row'.import = "succeeded" /\ row'.search = row.search /\ row'.rebuild = row.rebuild
  BY <1>1, <1>2, <1>3 DEF Columns, JobStatuses
<1>5. "index" \in Topics /\ pending["index"] \in 0..MaxPending BY <1>2 DEF Topics
<1>6. \A q \in Topics : pending'[q] = IF q = "index" /\ row.status \in {"none", "indexing"} THEN pending[q] + 1 ELSE pending[q]
  BY <1>1, <1>2, <1>5
<1>7. \A q \in Topics : pending[q] \in 0..MaxPending BY <1>2
<1>8. pending' \in [Topics -> 0..MaxPending] BY <1>1, <1>2, <1>5, KnowledgeAssumption
<1>9. \A q \in Topics : pending'[q] >= pending[q] BY <1>6, <1>7, KnowledgeAssumption
<1>10. row'.status = "indexing" => pending'["index"] > 0 BY <1>4, <1>5, <1>6, KnowledgeAssumption
<1>11. granted \subseteq granted' /\ granted' \subseteq {"published", "approved"} /\ RowIsGranted'
  BY <1>1, <1>2, <1>4 DEF KnowledgeInv, RowIsGranted
<1>12. row'["import"] # "queued" /\ \A j \in Jobs : row'[j] = "queued" => row[j] = "queued"
  BY <1>4 DEF Jobs
<1>13. row'.status = "removing" => row.status = "removing" BY <1>4
<1>14. kind # "web" OBVIOUS
<1>15. QED BY <1>1, <1>2, <1>4, <1>8, <1>9, <1>10, <1>11, <1>12, <1>13, <1>14, WorkEndsKeeps DEF Jobs

\* A job is over, and nothing else changes but the candidate.
LEMMA JobEndKeeps ==
  ASSUME KnowledgeInv, NEW w \in Workers, NEW j \in Jobs, work[w].on = j, Done(w), row' \in Columns,
         row'.status = row.status, row'.review = row.review, row'[j] # "queued",
         \A i \in Jobs : i # j => row'[i] = row[i],
         faults' \in 0..MaxFaults, UNCHANGED <<kind, pending, dead, desks, dense, bm25, granted>>
  PROVE  KnowledgeInv'
<1>1. /\ granted' \subseteq {"published", "approved"} /\ dead' \subseteq Topics /\ pending' \in [Topics -> 0..MaxPending]
      /\ \A q \in Topics : pending[q] \in 0..MaxPending
  BY DEF KnowledgeInv, KnowledgeTypeOK
<1>2. \A q \in Topics : pending'[q] >= pending[q] BY <1>1, KnowledgeAssumption
<1>3. RowIsGranted' BY DEF KnowledgeInv, RowIsGranted
<1>4. kind = "web" => pending'["remove"] = 0 BY DEF KnowledgeInv, NoRemoval
<1>5. QED BY <1>1, <1>2, <1>3, <1>4, WorkEndsKeeps

LEMMA ImportFailsKeeps == ASSUME KnowledgeInv, NEW w \in Workers, ImportFails(w) PROVE KnowledgeInv'
<1>1. /\ work[w].on = "import" /\ row' = [row EXCEPT !.import = "failed"] /\ Done(w)
      /\ UNCHANGED <<kind, pending, dead, desks, dense, bm25, granted, faults>>
  BY DEF ImportFails
<1>2. row \in Columns /\ faults \in 0..MaxFaults BY DEF KnowledgeInv, KnowledgeTypeOK, Columns
<1>3. /\ row' \in Columns /\ row'.status = row.status /\ row'.review = row.review
      /\ row'["import"] # "queued" /\ \A i \in Jobs : i # "import" => row'[i] = row[i]
  BY <1>1, <1>2 DEF Columns, JobStatuses, Jobs
<1>4. "import" \in Jobs BY DEF Jobs
<1>5. QED BY <1>1, <1>2, <1>3, <1>4, JobEndKeeps

LEMMA SearchWebKeeps == ASSUME KnowledgeInv, NEW w \in Workers, SearchWeb(w) PROVE KnowledgeInv'
<1>1. row \in Columns /\ faults \in 0..MaxFaults BY DEF KnowledgeInv, KnowledgeTypeOK, Columns
<1>2. /\ work[w].on = "search" /\ Done(w)
      /\ row' = [row EXCEPT !.search = "succeeded", !.candidate = IF row.candidate = "none" THEN "waiting" ELSE row.candidate]
      /\ UNCHANGED <<kind, pending, dead, desks, dense, bm25, granted, faults>>
  BY <1>1 DEF SearchWeb, Columns
<1>3. /\ row' \in Columns /\ row'.status = row.status /\ row'.review = row.review
      /\ row'["search"] # "queued" /\ \A i \in Jobs : i # "search" => row'[i] = row[i]
  BY <1>1, <1>2 DEF Columns, JobStatuses, Jobs, Candidates
<1>4. "search" \in Jobs BY DEF Jobs
<1>5. QED BY <1>1, <1>2, <1>3, <1>4, JobEndKeeps

LEMMA RedeliverKeeps == ASSUME KnowledgeInv, NEW w \in Workers, Redeliver(w) PROVE KnowledgeInv'
<1> DEFINE q == work[w].on
<1>1. /\ work[w] # NotWorking /\ pending[q] < MaxPending /\ Done(w)
      /\ pending' = [pending EXCEPT ![q] = pending[q] + 1]
      /\ UNCHANGED <<kind, row, dead, desks, dense, bm25, granted>>
  BY DEF Redeliver
<1>2. faults' \in 0..MaxFaults BY FaultIsCounted DEF Redeliver
<1>3. q \in Topics BY <1>1 DEF KnowledgeInv, WorkIsSound, Handled, Topics
<1>4. /\ row' \in Columns /\ pending \in [Topics -> 0..MaxPending] /\ dead \subseteq Topics
      /\ pending[q] \in 0..MaxPending /\ granted' \subseteq {"published", "approved"}
  BY <1>1, <1>3 DEF KnowledgeInv, KnowledgeTypeOK, Columns
<1> HIDE DEF q
<1>5. pending' \in [Topics -> 0..MaxPending] BY <1>1, <1>3, <1>4, KnowledgeAssumption
<1>6. \A p \in Topics : pending'[p] = IF p = q THEN pending[p] + 1 ELSE pending[p] BY <1>1, <1>4
<1>7. \A p \in Topics : pending[p] \in 0..MaxPending BY <1>4
<1>8. \A p \in Topics : pending'[p] >= pending[p] BY <1>6, <1>7, KnowledgeAssumption
<1>9. pending'[q] > 0 BY <1>3, <1>6, <1>7, KnowledgeAssumption
<1>10. kind = "web" => pending'["remove"] = 0
  BY <1>6 DEF KnowledgeInv, NoRemoval, q, Topics
<1>11. RowIsGranted' BY <1>1 DEF KnowledgeInv, RowIsGranted
<1>12. QED BY <1>1, <1>2, <1>4, <1>5, <1>8, <1>9, <1>10, <1>11, WorkEndsKeeps DEF q

LEMMA DeadLetterKeeps == ASSUME KnowledgeInv, NEW w \in Workers, DeadLetter(w) PROVE KnowledgeInv'
<1>1. faults' \in 0..MaxFaults /\ Done(w) /\ work[w] # NotWorking /\ UNCHANGED <<kind, pending, desks, dense, bm25, granted>>
  BY FaultIsCounted DEF DeadLetter
<1>2. /\ row \in Columns /\ pending \in [Topics -> 0..MaxPending] /\ dead \subseteq Topics
      /\ granted \subseteq {"published", "approved"}
  BY DEF KnowledgeInv, KnowledgeTypeOK, Columns
<1>3. CASE work[w].on = "search"
  <2>1. row' = [row EXCEPT !.search = IF row.search = "queued" THEN "failed" ELSE row.search] /\ dead' = dead
    BY <1>3, <1>2 DEF DeadLetter
  <2>2. /\ row' \in Columns /\ row'.status = row.status /\ row'.review = row.review
        /\ row'["search"] # "queued" /\ \A i \in Jobs : i # "search" => row'[i] = row[i]
    BY <1>2, <2>1 DEF Columns, JobStatuses, Jobs
  <2>3. "search" \in Jobs BY DEF Jobs
  <2>4. QED BY <1>1, <1>3, <2>1, <2>2, <2>3, JobEndKeeps
<1>4. CASE work[w].on # "search"
  <2>1. dead' = dead \cup {work[w].on} /\ row' = row BY <1>4 DEF DeadLetter
  <2>2. work[w].on \in Topics BY <1>1 DEF KnowledgeInv, WorkIsSound, Handled, Topics
  <2>3. \A p \in Topics : pending'[p] >= pending[p]
    BY <1>1, <1>2, KnowledgeAssumption
  <2>4. kind = "web" => pending'["remove"] = 0 BY <1>1 DEF KnowledgeInv, NoRemoval
  <2>5. RowIsGranted' BY <1>1, <2>1 DEF KnowledgeInv, RowIsGranted
  <2>6. QED BY <1>1, <1>2, <2>1, <2>2, <2>3, <2>4, <2>5, WorkEndsKeeps
<1>5. QED BY <1>3, <1>4

LEMMA DiscoverKeeps == ASSUME KnowledgeInv, DiscoverPoi PROVE KnowledgeInv'
<1>1. row' = [row EXCEPT !.candidate = "waiting"] /\ UNCHANGED <<kind, pending, dead, desks, work, dense, bm25, granted, faults>>
  BY DEF DiscoverPoi
<1>2. row \in Columns BY DEF KnowledgeInv, KnowledgeTypeOK, Columns
<1>3. /\ row' \in Columns /\ row'.status = row.status /\ row'.review = row.review
      /\ \A i \in Jobs : row'[i] = row[i]
  BY <1>1, <1>2 DEF Columns, Jobs, Candidates
<1>4. KnowledgeTypeOK' BY <1>1, <1>3 DEF KnowledgeInv, KnowledgeTypeOK, Rules, Statuses, Columns
<1>5. RowIsGranted' /\ DesksAreGranted' BY <1>1, <1>3 DEF KnowledgeInv, RowIsGranted, DesksAreGranted
<1>6. WorkIsOnItsWay' BY <1>1, <1>3 DEF KnowledgeInv, WorkIsOnItsWay, Underway
<1>7. QED BY <1>1, <1>4, <1>5, <1>6, StepKeeps DEF KnowledgeInv, NoRemoval

LEMMA KnowledgeStarts == KnowledgeInit => KnowledgeInv
<1> SUFFICES ASSUME KnowledgeInit PROVE KnowledgeInv
  OBVIOUS
<1>1. kind \in Kinds /\ row.status \in {"draft", "none"} BY DEF KnowledgeInit
<1>2. row.status \in Statuses BY DEF KnowledgeInit, Kinds, Statuses, PostStatuses, OfficialStatuses, WebStatuses
<1>3. row \in [status : Statuses, review : Reviews, candidate : Candidates,
               import : JobStatuses, search : JobStatuses, rebuild : JobStatuses]
  BY <1>2 DEF KnowledgeInit, Reviews, Candidates, JobStatuses
<1>4. /\ pending \in [Topics -> 0..MaxPending] /\ dead \subseteq Topics
      /\ faults \in 0..MaxFaults /\ dense \in BOOLEAN /\ bm25 \in BOOLEAN
  <2>1. 0 \in 0..MaxPending /\ 0 \in 0..MaxFaults BY KnowledgeAssumption
  <2>2. pending \in [Topics -> 0..MaxPending] BY <2>1 DEF KnowledgeInit
  <2>3. faults \in 0..MaxFaults BY <2>1 DEF KnowledgeInit
  <2>4. dense \in BOOLEAN /\ bm25 \in BOOLEAN BY DEF KnowledgeInit
  <2>5. QED BY <2>2, <2>3, <2>4 DEF KnowledgeInit
<1>5. desks \in [Desks -> Rules \cup {NoDecision}] BY DEF KnowledgeInit
<1>6. work \in [Workers -> [on : Topics \cup {"-"}, phase : {"idle", "dense", "bm25", "commit"}]]
  BY DEF KnowledgeInit, NotWorking
<1>7. KnowledgeTypeOK BY <1>1, <1>3, <1>4, <1>5, <1>6 DEF KnowledgeInit, KnowledgeTypeOK
<1>8. WorkIsSound /\ NoRemoval /\ RowIsGranted /\ DesksAreGranted
  BY DEF KnowledgeInit, WorkIsSound, WorkIsGranted, NoRemoval, Handled, NotWorking, Topics, RowIsGranted, Sent,
         DesksAreGranted, NoDecision, Rule
<1>9. KnowledgeIsReviewed /\ WorkIsOnItsWay
  BY DEF KnowledgeInit, KnowledgeIsReviewed, WorkIsOnItsWay, Jobs
<1>10. QED BY <1>7, <1>8, <1>9 DEF KnowledgeInv

LEMMA KnowledgeKeeps == KnowledgeInv /\ [KnowledgeNext]_knowledgeVars => KnowledgeInv'
<1> SUFFICES ASSUME KnowledgeInv, [KnowledgeNext]_knowledgeVars PROVE KnowledgeInv'
  OBVIOUS
<1>1. CASE Deciding BY <1>1, OpenKeeps, CloseKeeps DEF Deciding
<1>2. CASE Handling
  <2>1. PICK w \in Workers :
          \/ \E q \in Topics : Take(w, q)
          \/ Ingest(w) \/ RemovePost(w) \/ RemoveSource(w) \/ Commit(w)
          \/ ImportPoi(w) \/ ImportStructured(w) \/ ImportFails(w) \/ SearchWeb(w)
          \/ StoreFails(w) \/ Redeliver(w) \/ DeadLetter(w)
    BY <1>2 DEF Handling
  <2>2. CASE \E q \in Topics : Take(w, q) BY <2>2, TakeKeeps
  <2>3. CASE Ingest(w) \/ RemovePost(w) \/ RemoveSource(w)
    BY <2>3, StoreIndexKeeps DEF Ingest, RemovePost, RemoveSource
  <2>4. CASE ImportPoi(w) \/ ImportStructured(w) BY <2>4, ImportKeeps DEF ImportPoi, ImportStructured
  <2>5. QED BY <2>1, <2>2, <2>3, <2>4, CommitKeeps, ImportFailsKeeps, SearchWebKeeps, StoreFailsKeeps,
              RedeliverKeeps, DeadLetterKeeps
<1>3. CASE DiscoverPoi BY <1>3, DiscoverKeeps
<1>4. CASE UNCHANGED knowledgeVars
  <2>1. KnowledgeTypeOK' /\ WorkIsSound' /\ NoRemoval'
    BY <1>4 DEF knowledgeVars, KnowledgeInv, KnowledgeTypeOK, Rules, Statuses, WorkIsSound, WorkIsGranted, NoRemoval,
                Handled, WasReviewed
  <2>2. KnowledgeIsReviewed' /\ WorkIsOnItsWay'
    BY <1>4 DEF knowledgeVars, KnowledgeInv, KnowledgeIsReviewed, WorkIsOnItsWay, Underway
  <2>3. RowIsGranted' /\ DesksAreGranted'
    BY <1>4 DEF knowledgeVars, KnowledgeInv, RowIsGranted, DesksAreGranted
  <2>4. QED BY <2>1, <2>2, <2>3 DEF KnowledgeInv
<1>5. QED BY <1>1, <1>2, <1>3, <1>4 DEF KnowledgeNext

\* The row, its events, the workers and the stores keep their types.
THEOREM KnowledgeTypeCorrect == KnowledgeSpec => []KnowledgeTypeOK
<1>1. KnowledgeInv => KnowledgeTypeOK BY DEF KnowledgeInv
<1>2. QED BY <1>1, KnowledgeStarts, KnowledgeKeeps, PTL DEF KnowledgeSpec

\* Nothing reaches the assistant's stores but a source some administrator sent
\* there or a post that was published and whose review was approved, for any
\* desks and workers, whatever is indexed, imported or rebuilt (admin/router.py,
\* domain_handlers.py).
THEOREM KnowledgeReviewed == KnowledgeSpec => []KnowledgeIsReviewed
<1>1. KnowledgeInv => KnowledgeIsReviewed BY DEF KnowledgeInv
<1>2. QED BY <1>1, KnowledgeStarts, KnowledgeKeeps, PTL DEF KnowledgeSpec

\* What only a handler can change further has its event on the way, in a worker
\* or dead-lettered (admin/router.py, domain_handlers.py).
THEOREM WorkArrives == KnowledgeSpec => []WorkIsOnItsWay
<1>1. KnowledgeInv => WorkIsOnItsWay BY DEF KnowledgeInv
<1>2. QED BY <1>1, KnowledgeStarts, KnowledgeKeeps, PTL DEF KnowledgeSpec


----------------------------------------------------------------------------
(***************************************************************************)
(* The assistant: a key has its question, its run and its answer from one  *)
(* stream at a time; what a request has found is still so, and an answered *)
(* stream has a charge behind it.                                          *)
(***************************************************************************)

\* A stream that has set its run to running and has not ended yet.
Answering(r) == asks[r].stream /\ asks[r].phase \in {"answer", "save", "release", "fail"}

\* A request whose charge is kept, or that needs none of its own.
Backer(r) == asks[r].phase # "new" /\ (~asks[r].stream \/ (asks[r].charge # Nothing /\ asks[r].phase # "release"))

Backed(k) == \E r \in AskRequests : K(r) = k /\ Backer(r)

\* What a request has found, and what it will find.
AskIsSound(r) ==
  /\ asks[r].phase # "new" => asks[r].key \in QuestionKeys
  /\ asks[r].phase \in {"new", "check", "consume"} => asks[r].charge = Nothing
  /\ asks[r].phase # "done" => asks[r].shown = Nothing
  /\ asks[r].phase = "question" => ~asks[r].stream
  /\ asks[r].phase = "fail" => asks[r].stream
  /\ conversation =>
       /\ asks[r].shown \in AskRequests => asks[r].shown = messages[K(r)].answer
       /\ asks[r].stream /\ asks[r].charge = Nothing /\ asks[r].phase \in {"find", "insert"} => messages[K(r)].asked
       /\ Answering(r) => runs[K(r)] = "running"

\* A stream about to be answered, or a run that may be answered and is not
\* begun, has its charge; nobody stores a question but with its run or by :ask.
KeyIsSound(k) ==
  /\ runs[k] \in {"queued", "completed"} => Backed(k)
  /\ conversation /\ (\E r \in AskRequests : K(r) = k /\ Answering(r) /\ asks[r].phase \in {"answer", "save"}) => Backed(k)
  /\ messages[k].asked /\ runs[k] = "none" =>
       \E r \in AskRequests : K(r) = k /\ asks[r].phase # "new" /\ ~asks[r].stream
  /\ ~conversation => runs[k] = "none" /\ messages[k] = NoMessages

OneAnswers ==
  conversation => \A r, x \in AskRequests : Answering(r) /\ Answering(x) /\ K(r) = K(x) => r = x

ChargesCounted == \A p \in Periods : used[p] = Used(p) /\ used[p] <= Limit(p)

AsksSound ==
  /\ \A r \in AskRequests : AskIsSound(r)
  /\ \A k \in QuestionKeys : KeyIsSound(k)
  /\ OneAnswers

AssistantInv == AssistantTypeOK /\ AsksSound /\ ChargesCounted

\* A request moves on, and touches at most the question and the run of its key.
LEMMA AskMoves ==
  ASSUME AssistantInv, NEW r \in AskRequests, NEW k \in QuestionKeys,
         \A x \in AskRequests : x # r => asks'[x] = asks[x],
         conversation' = conversation, ~conversation => UNCHANGED <<runs, messages>>,
         asks[r].phase = "new" \/ (K(r) = k /\ asks'[r].stream = asks[r].stream),
         asks'[r].key = k, asks'[r].phase # "new",
         \A j \in QuestionKeys : j # k => runs'[j] = runs[j],
         \A j \in QuestionKeys : messages[j].asked => messages'[j].asked,
         \A j \in QuestionKeys : j # k => messages'[j].asked = messages[j].asked,
         \A j \in QuestionKeys : messages[j].answer # Nothing => messages'[j].answer = messages[j].answer,
         messages'[k].asked /\ runs'[k] = "none" => runs[k] = "none" /\ (messages[k].asked \/ ~asks'[r].stream),
         AskIsSound(r)',
         conversation => (runs'[k] = runs[k] \/ \A x \in AskRequests : x # r /\ Answering(x) => K(x) # k),
         conversation => (Answering(r)' => Answering(r) \/ runs[k] # "running"),
         conversation => (Backer(r) => Backer(r)') \/ (Answering(r) /\ runs'[k] = runs[k] /\ asks'[r].phase \notin {"answer", "save"}),
         runs'[k] \in {"queued", "completed"} => runs'[k] = runs[k] \/ Backed(k) \/ Backer(r)',
         conversation /\ Answering(r)' /\ asks'[r].phase \in {"answer", "save"} => Backed(k)
  PROVE  AsksSound'
<1>0. Backer(r) \/ Answering(r) => K(r) = k BY DEF Backer, Answering
<1>1. \A x \in AskRequests : AskIsSound(x)'
  <2>1. SUFFICES ASSUME NEW x \in AskRequests, x # r PROVE AskIsSound(x)'
    OBVIOUS
  <2>2. asks'[x] = asks[x] /\ AskIsSound(x) BY <2>1 DEF AssistantInv, AsksSound
  <2>3. asks[x].key \in QuestionKeys \/ asks[x].phase = "new" BY <2>2 DEF AskIsSound
  <2>4. asks[x].shown \in AskRequests => asks[x].shown # Nothing BY AssistantAssumption
  <2>5. conversation /\ Answering(x) => runs'[K(x)] = runs[K(x)] /\ asks[x].key \in QuestionKeys
    BY <2>1, <2>3 DEF Answering, K
  <2>6. conversation /\ asks[x].shown \in AskRequests => asks[x].shown = messages'[asks[x].key].answer
    BY <2>2, <2>3, <2>4 DEF AskIsSound, K
  <2>7. QED BY <2>2, <2>3, <2>5, <2>6 DEF AskIsSound, K, Answering
<1>2. OneAnswers'
  <2>1. SUFFICES ASSUME conversation, NEW x \in AskRequests, NEW y \in AskRequests,
                        Answering(x)', Answering(y)', asks'[x].key = asks'[y].key
                 PROVE  x = y
    BY DEF OneAnswers, K
  <2>2. \A z \in AskRequests : z # r => (Answering(z)' <=> Answering(z)) /\ asks'[z].key = asks[z].key
    BY DEF Answering
  <2>3. \A z \in AskRequests : Answering(z) => runs[K(z)] = "running"
    BY <2>1 DEF AssistantInv, AsksSound, AskIsSound
  <2>4. \A z \in AskRequests : Answering(r)' /\ z # r /\ Answering(z) /\ K(z) = k => Answering(r)
    BY <2>1, <2>3
  <2>5. \A y1, y2 \in AskRequests : Answering(y1) /\ Answering(y2) /\ K(y1) = K(y2) => y1 = y2
    BY <2>1 DEF AssistantInv, AsksSound, OneAnswers
  <2>6. QED BY <1>0, <2>1, <2>2, <2>4, <2>5 DEF K
<1>3. ASSUME NEW j \in QuestionKeys, Backed(j), Backer(r) => Backer(r)' \/ j # k PROVE Backed(j)'
  <2>1. PICK x \in AskRequests : K(x) = j /\ Backer(x) BY <1>3 DEF Backed
  <2>2. CASE x = r
    <3>1. j = k /\ Backer(r)' BY <1>0, <1>3, <2>1, <2>2
    <3>2. QED BY <3>1 DEF Backed, K
  <2>3. CASE x # r
    <3>1. Backer(x)' /\ asks'[x].key = j BY <2>1, <2>3 DEF Backer, K
    <3>2. QED BY <3>1 DEF Backed, K
  <2>4. QED BY <2>2, <2>3
<1>4. \A j \in QuestionKeys : KeyIsSound(j)'
  <2>1. SUFFICES ASSUME NEW j \in QuestionKeys PROVE KeyIsSound(j)'
    OBVIOUS
  <2>2. KeyIsSound(j) BY DEF AssistantInv, AsksSound
  <2>3. messages'[j].asked /\ runs'[j] = "none" =>
          \E x \in AskRequests : asks'[x].key = j /\ asks'[x].phase # "new" /\ ~asks'[x].stream
    <3>1. SUFFICES ASSUME messages'[j].asked, runs'[j] = "none"
                   PROVE  \E x \in AskRequests : asks'[x].key = j /\ asks'[x].phase # "new" /\ ~asks'[x].stream
      OBVIOUS
    <3>2. CASE j = k /\ ~asks'[r].stream BY <3>2
    <3>3. CASE messages[j].asked /\ runs[j] = "none"
      <4>1. PICK x \in AskRequests : K(x) = j /\ asks[x].phase # "new" /\ ~asks[x].stream
        BY <2>2, <3>3 DEF KeyIsSound
      <4>2. QED BY <4>1 DEF K
    <3>4. QED BY <3>1, <3>2, <3>3
  <2>4. ~conversation => runs'[j] = "none" /\ messages'[j] = NoMessages BY <2>2 DEF KeyIsSound
  <2>5. Backer(r)' /\ j = k => Backed(j)' BY DEF Backed, K
  <2>6. runs'[j] \in {"queued", "completed"} => Backed(j)'
    <3>1. SUFFICES ASSUME runs'[j] \in {"queued", "completed"} PROVE Backed(j)'
      OBVIOUS
    <3>2. conversation BY <2>4, <3>1
    <3>3. Backed(j) \/ (j = k /\ Backer(r)') BY <2>2, <3>1 DEF KeyIsSound
    <3>4. CASE Backer(r) => Backer(r)' \/ j # k BY <1>3, <2>5, <3>3, <3>4
    <3>5. CASE j = k /\ Answering(r) /\ runs'[k] = runs[k]
      <4>1. runs[k] = "running" BY <1>0, <3>2, <3>5 DEF AssistantInv, AsksSound, AskIsSound
      <4>2. QED BY <4>1, <3>1, <3>5
    <3>6. QED BY <3>2, <3>4, <3>5
  <2>7. ASSUME conversation, NEW x \in AskRequests, asks'[x].key = j, Answering(x)', asks'[x].phase \in {"answer", "save"}
        PROVE  Backed(j)'
    <3>1. Backed(j)
      <4>1. CASE x = r BY <2>7, <4>1
      <4>2. CASE x # r BY <2>2, <2>7, <4>2 DEF KeyIsSound, K, Answering
      <4>3. QED BY <4>1, <4>2
    <3>2. CASE Backer(r) => Backer(r)' \/ j # k BY <1>3, <3>1, <3>2
    <3>3. CASE j = k /\ Answering(r) /\ asks'[r].phase \notin {"answer", "save"}
      <4>1. x # r /\ Answering(x) /\ K(x) = k BY <2>7, <3>3 DEF Answering, K
      <4>2. QED BY <1>0, <4>1, <2>7, <3>3 DEF AssistantInv, AsksSound, OneAnswers
    <3>4. QED BY <2>7, <3>2, <3>3
  <2>8. QED BY <2>3, <2>4, <2>6, <2>7 DEF KeyIsSound, K
<1>5. QED BY <1>1, <1>2, <1>4 DEF AsksSound

\* A request that charges nothing leaves the periods right.
LEMMA SameCharges ==
  ASSUME AssistantInv, NEW r \in AskRequests,
         \A x \in AskRequests : x # r => asks'[x] = asks[x], asks'[r].charge = asks[r].charge, used' = used
  PROVE  ChargesCounted'
<1>1. \A p \in Periods : Used(p)' = Used(p)
  <2>1. \A p \in Periods : {x \in AskRequests : asks'[x].charge = p} = {x \in AskRequests : asks[x].charge = p}
    OBVIOUS
  <2>2. QED BY <2>1 DEF Used
<1>2. QED BY <1>1 DEF AssistantInv, ChargesCounted, Limit

\* What a request has become when only its phase changes.
LEMMA ToFacts ==
  ASSUME AssistantInv, NEW r \in AskRequests, NEW p \in Phases, To(r, p)
  PROVE  /\ asks' \in [AskRequests -> AskRows]
         /\ \A x \in AskRequests : x # r => asks'[x] = asks[x]
         /\ asks'[r].phase = p /\ asks'[r].key = asks[r].key /\ asks'[r].stream = asks[r].stream
         /\ asks'[r].charge = asks[r].charge /\ asks'[r].shown = asks[r].shown /\ asks'[r].seen = asks[r].seen
<1>1. asks \in [AskRequests -> AskRows] /\ asks[r] \in AskRows BY DEF AssistantInv, AssistantTypeOK
<1>2. [asks[r] EXCEPT !.phase = p] \in AskRows BY <1>1 DEF AskRows
<1>3. asks' = [asks EXCEPT ![r] = [asks[r] EXCEPT !.phase = p]] BY <1>1 DEF To
<1>4. QED BY <1>1, <1>2, <1>3 DEF AskRows

LEMMA ShowFacts ==
  ASSUME AssistantInv, NEW r \in AskRequests, NEW what \in AskRequests \cup {"empty"}, Show(r, what)
  PROVE  /\ asks' \in [AskRequests -> AskRows]
         /\ \A x \in AskRequests : x # r => asks'[x] = asks[x]
         /\ asks'[r].phase = "done" /\ asks'[r].key = asks[r].key /\ asks'[r].stream = asks[r].stream
         /\ asks'[r].charge = asks[r].charge /\ asks'[r].shown = what
<1>1. asks \in [AskRequests -> AskRows] /\ asks[r] \in AskRows BY DEF AssistantInv, AssistantTypeOK
<1>2. [asks[r] EXCEPT !.phase = "done", !.shown = what] \in AskRows BY <1>1 DEF AskRows, Phases
<1>3. asks' = [asks EXCEPT ![r] = [asks[r] EXCEPT !.phase = "done", !.shown = what]] BY <1>1 DEF Show
<1>4. QED BY <1>1, <1>2, <1>3 DEF AskRows

\* A request moves on and neither the conversation nor the runs change.
LEMMA AskOnly ==
  ASSUME AssistantInv, NEW r \in AskRequests, NEW k \in QuestionKeys, asks' \in [AskRequests -> AskRows],
         \A x \in AskRequests : x # r => asks'[x] = asks[x],
         UNCHANGED <<now, memberUntil, used, conversation, messages, runs>>, lost' \in 0..MaxLost,
         asks[r].phase = "new" \/ (K(r) = k /\ asks'[r].stream = asks[r].stream),
         asks'[r].key = k, asks'[r].phase # "new", asks'[r].charge = asks[r].charge,
         AskIsSound(r)', Answering(r)' => Answering(r),
         asks'[r].stream /\ asks'[r].phase \in {"answer", "save"} => asks[r].phase \in {"answer", "save"},
         conversation => (Backer(r) => Backer(r)') \/ (Answering(r) /\ asks'[r].phase \notin {"answer", "save"})
  PROVE  AssistantInv'
<1>1. AssistantTypeOK' BY DEF AssistantInv, AssistantTypeOK
<1>2. ChargesCounted' BY SameCharges
<1>3. conversation /\ Answering(r)' /\ asks'[r].phase \in {"answer", "save"} => Backed(k)
  <2>1. SUFFICES ASSUME conversation, Answering(r)', asks'[r].phase \in {"answer", "save"} PROVE Backed(k)
    OBVIOUS
  <2>2. Answering(r) /\ asks[r].phase \in {"answer", "save"} /\ K(r) = k BY <2>1 DEF Answering
  <2>3. QED BY <2>1, <2>2 DEF AssistantInv, AsksSound, KeyIsSound
<1>4. messages'[k].asked /\ runs'[k] = "none" => runs[k] = "none" /\ messages[k].asked OBVIOUS
<1>5. AsksSound' BY <1>3, <1>4, AskMoves
<1>6. QED BY <1>1, <1>2, <1>5 DEF AssistantInv

LEMMA AskFacts ==
  ASSUME AssistantInv, NEW r \in AskRequests
  PROVE  /\ asks[r] \in AskRows /\ AskIsSound(r) /\ lost \in 0..MaxLost
         /\ asks[r].phase # "new" => K(r) \in QuestionKeys
  BY DEF AssistantInv, AssistantTypeOK, AsksSound, AskIsSound, K

LEMMA SendKeeps ==
  ASSUME AssistantInv, NEW r \in AskRequests, NEW k \in QuestionKeys, NEW stream \in BOOLEAN, Send(r, k, stream)
  PROVE  AssistantInv'
<1>1. asks \in [AskRequests -> AskRows] /\ asks[r] \in AskRows BY DEF AssistantInv, AssistantTypeOK
<1>2. [asks[r] EXCEPT !.phase = "check", !.key = k, !.stream = stream] \in AskRows BY <1>1 DEF AskRows, Phases
<1>3. /\ asks[r].phase = "new"
      /\ asks' = [asks EXCEPT ![r] = [asks[r] EXCEPT !.phase = "check", !.key = k, !.stream = stream]]
      /\ UNCHANGED <<now, memberUntil, used, conversation, messages, runs, lost>>
  BY <1>1 DEF Send, At
<1>4. /\ asks' \in [AskRequests -> AskRows]
      /\ \A x \in AskRequests : x # r => asks'[x] = asks[x]
      /\ asks'[r].phase = "check" /\ asks'[r].key = k /\ asks'[r].charge = asks[r].charge /\ asks'[r].shown = asks[r].shown
  BY <1>1, <1>2, <1>3 DEF AskRows
<1>5. AskIsSound(r)' BY <1>3, <1>4, AskFacts, AssistantAssumption DEF AskIsSound, Answering
<1>6. ~Backer(r) /\ ~Answering(r)' BY <1>3, <1>4 DEF Backer, Answering
<1>7. QED BY <1>3, <1>4, <1>5, <1>6, AskFacts, AskOnly

LEMMA CheckAskKeeps == ASSUME AssistantInv, NEW r \in AskRequests, CheckAsk(r) PROVE AssistantInv'
<1>1. /\ asks[r].phase = "check" /\ ~asks[r].stream
      /\ UNCHANGED <<now, memberUntil, used, conversation, messages, runs, lost>>
  BY DEF CheckAsk, At
<1>2. K(r) \in QuestionKeys /\ lost \in 0..MaxLost /\ AskIsSound(r) BY <1>1, AskFacts
<1>3. CASE messages[K(r)].answer # Nothing
  <2>1. messages[K(r)].answer \in AskRequests BY <1>2, <1>3 DEF AssistantInv, AssistantTypeOK
  <2>2. Show(r, messages[K(r)].answer) BY <1>3 DEF CheckAsk
  <2>3. /\ asks' \in [AskRequests -> AskRows]
        /\ \A x \in AskRequests : x # r => asks'[x] = asks[x]
        /\ asks'[r].phase = "done" /\ asks'[r].key = asks[r].key /\ asks'[r].stream = asks[r].stream
        /\ asks'[r].charge = asks[r].charge /\ asks'[r].shown = messages[K(r)].answer
    BY <2>1, <2>2, ShowFacts
  <2>4. AskIsSound(r)' BY <1>1, <1>2, <2>3 DEF AskIsSound, Answering, K
  <2>5. Backer(r)' /\ ~Answering(r)' BY <1>1, <2>3 DEF Backer, Answering
  <2>6. QED BY <1>1, <1>2, <2>3, <2>4, <2>5, AskOnly DEF K
<1>4. CASE messages[K(r)].answer = Nothing
  <2>1. PICK p \in {"consume", "done"} : To(r, p) BY <1>4 DEF CheckAsk
  <2>2. p \in Phases BY DEF Phases
  <2>3. /\ asks' \in [AskRequests -> AskRows]
        /\ \A x \in AskRequests : x # r => asks'[x] = asks[x]
        /\ asks'[r].phase = p /\ asks'[r].key = asks[r].key /\ asks'[r].stream = asks[r].stream
        /\ asks'[r].charge = asks[r].charge /\ asks'[r].shown = asks[r].shown
    BY <2>1, <2>2, ToFacts
  <2>4. AskIsSound(r)' BY <1>1, <1>2, <2>3, AssistantAssumption DEF AskIsSound, Answering, K
  <2>5. Backer(r)' /\ ~Answering(r)' BY <1>1, <2>3 DEF Backer, Answering
  <2>6. QED BY <1>1, <1>2, <2>3, <2>4, <2>5, AskOnly DEF K
<1>5. QED BY <1>3, <1>4

\* A phase changes, before the run is started or after the request is over.
LEMMA PhaseOnly ==
  ASSUME AssistantInv, NEW r \in AskRequests, NEW p \in Phases \ {"new", "question", "answer", "save", "release", "fail", "check"},
         To(r, p), asks[r].phase # "new",
         UNCHANGED <<now, memberUntil, used, conversation, messages, runs>>, lost' \in 0..MaxLost,
         p = "consume" => asks[r].charge = Nothing,
         p \in {"find", "insert"} /\ asks[r].stream /\ asks[r].charge = Nothing => ~conversation \/ messages[K(r)].asked,
         asks[r].phase = "done" => p = "done"
  PROVE  AssistantInv'
<1>1. p \in Phases OBVIOUS
<1>2. K(r) \in QuestionKeys /\ AskIsSound(r) BY AskFacts
<1>3. /\ asks' \in [AskRequests -> AskRows]
      /\ \A x \in AskRequests : x # r => asks'[x] = asks[x]
      /\ asks'[r].phase = p /\ asks'[r].key = asks[r].key /\ asks'[r].stream = asks[r].stream
      /\ asks'[r].charge = asks[r].charge /\ asks'[r].shown = asks[r].shown
  BY <1>1, ToFacts
<1>4. AskIsSound(r)' BY <1>2, <1>3 DEF AskIsSound, Answering, K
<1>5. (Backer(r) => Backer(r)') /\ ~Answering(r)' BY <1>3 DEF Backer, Answering
<1>6. QED BY <1>2, <1>3, <1>4, <1>5, AskOnly DEF K

LEMMA CheckStreamKeeps == ASSUME AssistantInv, NEW r \in AskRequests, CheckStream(r) PROVE AssistantInv'
<1>1. asks[r].phase = "check" /\ UNCHANGED <<now, memberUntil, used, conversation, messages, runs, lost>>
  BY DEF CheckStream, At
<1>2. lost \in 0..MaxLost /\ asks[r].charge = Nothing BY <1>1, AskFacts DEF AskIsSound
<1>3. PICK p \in {"find", "consume", "done"} : To(r, p) /\ (p = "find" => messages[K(r)].asked)
  BY DEF CheckStream
<1>4. p \in Phases \ {"new", "question", "answer", "save", "release", "fail", "check"} BY DEF Phases
<1>5. QED BY <1>1, <1>2, <1>3, <1>4, PhaseOnly

LEMMA EventsKeeps == ASSUME AssistantInv, NEW r \in AskRequests, Events(r) PROVE AssistantInv'
<1>1. asks[r].phase = "events" /\ UNCHANGED <<now, memberUntil, used, conversation, messages, runs, lost>>
  BY DEF Events, At
<1>2. K(r) \in QuestionKeys /\ lost \in 0..MaxLost /\ AskIsSound(r) BY <1>1, AskFacts
<1>3. CASE Show(r, "empty")
  <2>1. /\ asks' \in [AskRequests -> AskRows]
        /\ \A x \in AskRequests : x # r => asks'[x] = asks[x]
        /\ asks'[r].phase = "done" /\ asks'[r].key = asks[r].key /\ asks'[r].stream = asks[r].stream
        /\ asks'[r].charge = asks[r].charge /\ asks'[r].shown = "empty"
    BY <1>3, ShowFacts
  <2>2. AskIsSound(r)' BY <1>1, <1>2, <2>1, AssistantAssumption DEF AskIsSound, Answering, K
  <2>3. (Backer(r) => Backer(r)') /\ ~Answering(r)' BY <2>1 DEF Backer, Answering
  <2>4. QED BY <1>1, <1>2, <2>1, <2>2, <2>3, AskOnly DEF K
<1>4. CASE \E p \in {"done", "start"} : To(r, p)
  <2>1. PICK p \in {"done", "start"} : To(r, p) BY <1>4
  <2>2. p \in Phases \ {"new", "question", "answer", "save", "release", "fail", "check"} BY DEF Phases
  <2>3. QED BY <1>1, <1>2, <2>1, <2>2, PhaseOnly
<1>5. QED BY <1>3, <1>4 DEF Events

LEMMA UsedIsFinite == ASSUME NEW p PROVE IsFiniteSet({x \in AskRequests : asks[x].charge = p})
  BY AssistantAssumption, FS_Subset

LEMMA PeriodFacts ==
  ASSUME AssistantInv
  PROVE  /\ ActivePeriod \in Periods /\ Nothing \notin Periods
         /\ \A p \in Periods : used[p] \in Nat /\ Limit(p) \in Nat /\ Limit(p) <= FreeLimit + MemberLimit
<1>1. now \in Periods /\ Membership \in Periods BY DEF AssistantInv, AssistantTypeOK, Periods
<1>2. \A p \in Periods : used[p] \in 0..(FreeLimit + MemberLimit) BY DEF AssistantInv, AssistantTypeOK
<1>3. QED BY <1>1, <1>2, AssistantAssumption DEF ActivePeriod, Limit

LEMMA UsedTyped ==
  ASSUME AssistantInv, ChargesCounted', NEW p \in Periods, NEW n \in Nat, used' = [used EXCEPT ![p] = n]
  PROVE  used' \in [Periods -> 0..(FreeLimit + MemberLimit)]
<1>1. used \in [Periods -> 0..(FreeLimit + MemberLimit)] BY DEF AssistantInv, AssistantTypeOK
<1>2. used'[p] = n /\ used'[p] <= Limit(p) BY <1>1 DEF ChargesCounted, Limit
<1>3. n \in 0..(FreeLimit + MemberLimit) BY <1>2, PeriodFacts, AssistantAssumption
<1>4. QED BY <1>1, <1>3

LEMMA ConsumeKeeps == ASSUME AssistantInv, NEW r \in AskRequests, Consume(r) PROVE AssistantInv'
<1> DEFINE p == ActivePeriod
           next == IF asks[r].stream THEN "find" ELSE "question"
<1>1. asks[r].phase = "consume" /\ UNCHANGED <<now, memberUntil, conversation, messages, runs, lost>>
  BY DEF Consume, At
<1>2. /\ K(r) \in QuestionKeys /\ lost \in 0..MaxLost /\ AskIsSound(r) /\ asks[r] \in AskRows
      /\ asks[r].charge = Nothing
  BY <1>1, AskFacts DEF AskIsSound
<1>3. CASE ~(used[p] < Limit(p))
  <2>1. To(r, "done") /\ used' = used BY <1>3 DEF Consume
  <2>2. "done" \in Phases \ {"new", "question", "answer", "save", "release", "fail", "check"} BY DEF Phases
  <2>3. QED BY <1>1, <1>2, <2>1, <2>2, PhaseOnly
<1>4. CASE used[p] < Limit(p)
  <2>1. asks \in [AskRequests -> AskRows] BY DEF AssistantInv, AssistantTypeOK
  <2>2. p \in Periods /\ Nothing \notin Periods BY PeriodFacts
  <2>3. next \in Phases BY DEF Phases
  <2>4. [asks[r] EXCEPT !.charge = p, !.phase = next] \in AskRows BY <1>2, <2>2, <2>3 DEF AskRows
  <2>5. /\ used' = [used EXCEPT ![p] = used[p] + 1]
        /\ asks' = [asks EXCEPT ![r] = [asks[r] EXCEPT !.charge = p, !.phase = next]]
    BY <1>4, <2>1 DEF Consume
  <2> HIDE DEF p, next
  <2>6. /\ asks' \in [AskRequests -> AskRows]
        /\ \A x \in AskRequests : x # r => asks'[x] = asks[x]
        /\ asks'[r].phase = next /\ asks'[r].key = asks[r].key /\ asks'[r].stream = asks[r].stream
        /\ asks'[r].charge = p /\ asks'[r].shown = asks[r].shown
    BY <1>2, <2>1, <2>4, <2>5 DEF AskRows
  <2>7. next \in {"find", "question"} /\ (next = "question" => ~asks[r].stream) BY DEF next
  <2>8. AskIsSound(r)' BY <1>1, <1>2, <2>2, <2>6, <2>7 DEF AskIsSound, Answering, K
  <2>9. (Backer(r) => Backer(r)') /\ ~Answering(r)' BY <2>2, <2>6, <2>7 DEF Backer, Answering
  <2>10. messages'[K(r)].asked /\ runs'[K(r)] = "none" => runs[K(r)] = "none" /\ messages[K(r)].asked BY <1>1
  <2>11. AsksSound' BY <1>1, <1>2, <2>6, <2>7, <2>8, <2>9, <2>10, AskMoves DEF K
  <2>12. ChargesCounted'
    <3>1. SUFFICES ASSUME NEW i \in Periods PROVE used'[i] = Used(i)' /\ used'[i] <= Limit(i)
      BY DEF ChargesCounted, Limit
    <3>2. used[i] = Used(i) /\ used[i] <= Limit(i) /\ used \in [Periods -> 0..(FreeLimit + MemberLimit)]
      BY DEF AssistantInv, ChargesCounted, AssistantTypeOK
    <3>3. CASE i # p
      <4>1. {x \in AskRequests : asks'[x].charge = i} = {x \in AskRequests : asks[x].charge = i}
        BY <1>2, <2>2, <2>6, <3>3
      <4>2. QED BY <2>5, <3>2, <3>3, <4>1 DEF Used
    <3>4. CASE i = p
      <4>1. {x \in AskRequests : asks'[x].charge = i} = {x \in AskRequests : asks[x].charge = i} \cup {r}
        BY <2>6, <3>4
      <4>2. r \notin {x \in AskRequests : asks[x].charge = i} BY <1>2, <2>2, <3>4
      <4>3. Used(i)' = Used(i) + 1
        <5> DEFINE S == {x \in AskRequests : asks[x].charge = i}
        <5>1. IsFiniteSet(S) BY UsedIsFinite
        <5>2. Cardinality(S \cup {r}) = Cardinality(S) + 1 BY <4>2, <5>1, FS_AddElement
        <5>3. QED BY <4>1, <5>2 DEF Used
      <4>4. used'[i] = used[i] + 1 BY <2>5, <3>2, <3>4
      <4>5. QED BY <1>4, <3>2, <3>4, <4>3, <4>4, PeriodFacts DEF p
    <3>5. QED BY <3>3, <3>4
  <2>13. used[p] + 1 \in Nat BY <2>2, PeriodFacts
  <2>14. used' \in [Periods -> 0..(FreeLimit + MemberLimit)] BY <2>2, <2>5, <2>12, <2>13, UsedTyped
  <2>15. AssistantTypeOK' BY <1>1, <2>6, <2>14 DEF AssistantInv, AssistantTypeOK
  <2>16. QED BY <2>11, <2>12, <2>15 DEF AssistantInv
<1>5. QED BY <1>3, <1>4

LEMMA ReleaseKeeps == ASSUME AssistantInv, NEW r \in AskRequests, Release(r) PROVE AssistantInv'
<1>0. PICK p \in Periods \cup {Nothing} : p = asks[r].charge
  BY AskFacts DEF AskRows
<1> DEFINE next == IF asks[r].stream /\ asks[r].seen # "none" THEN "fail" ELSE "done"
<1>1. asks[r].phase = "release" /\ UNCHANGED <<now, memberUntil, conversation, messages, runs, lost>>
      /\ used' = IF p # Nothing /\ used[p] > 0 THEN [used EXCEPT ![p] = used[p] - 1] ELSE used
  BY <1>0 DEF Release, At
<1>2. /\ K(r) \in QuestionKeys /\ lost \in 0..MaxLost /\ AskIsSound(r) /\ asks[r] \in AskRows
  BY <1>1, AskFacts
<1>3. asks \in [AskRequests -> AskRows] BY DEF AssistantInv, AssistantTypeOK
<1>5. Nothing \notin Periods BY AssistantAssumption
<1>6. next \in {"fail", "done"} /\ next \in Phases /\ (next = "fail" => asks[r].stream) BY DEF Phases
<1>7. [asks[r] EXCEPT !.charge = Nothing, !.phase = next] \in AskRows BY <1>2, <1>6 DEF AskRows
<1>8. asks' = [asks EXCEPT ![r] = [asks[r] EXCEPT !.charge = Nothing, !.phase = next]]
  BY <1>3 DEF Release
<1> HIDE DEF next
<1>9. /\ asks' \in [AskRequests -> AskRows]
      /\ \A x \in AskRequests : x # r => asks'[x] = asks[x]
      /\ asks'[r].phase = next /\ asks'[r].key = asks[r].key /\ asks'[r].stream = asks[r].stream
      /\ asks'[r].charge = Nothing /\ asks'[r].shown = asks[r].shown
  BY <1>2, <1>3, <1>7, <1>8 DEF AskRows
<1>10. AskIsSound(r)' BY <1>1, <1>2, <1>6, <1>9, AssistantAssumption DEF AskIsSound, Answering, K
<1>11. (Backer(r) => Backer(r)') /\ (Answering(r)' => Answering(r)) BY <1>1, <1>6, <1>9 DEF Backer, Answering
<1>12. messages'[K(r)].asked /\ runs'[K(r)] = "none" => runs[K(r)] = "none" /\ messages[K(r)].asked BY <1>1
<1>13. AsksSound' BY <1>1, <1>2, <1>6, <1>9, <1>10, <1>11, <1>12, AskMoves DEF K
<1>14. CASE p = Nothing
  <2>1. used' = used BY <1>1, <1>14
  <2>2. ChargesCounted' BY <1>0, <1>9, <1>14, <2>1, SameCharges
  <2>3. AssistantTypeOK' BY <1>1, <1>9, <2>1 DEF AssistantInv, AssistantTypeOK
  <2>4. QED BY <1>13, <2>2, <2>3 DEF AssistantInv
<1>15. CASE p \in Periods
  <2>1. used[p] = Used(p) /\ used[p] \in Nat BY <1>15, PeriodFacts DEF AssistantInv, ChargesCounted
  <2>2. {x \in AskRequests : asks'[x].charge = p} = {x \in AskRequests : asks[x].charge = p} \ {r}
    BY <1>5, <1>9, <1>15
  <2>3. r \in {x \in AskRequests : asks[x].charge = p} BY <1>0
  <2>4. Used(p)' = Used(p) - 1
    <3> DEFINE S == {x \in AskRequests : asks[x].charge = p}
    <3>1. IsFiniteSet(S) BY UsedIsFinite
    <3>2. Cardinality(S \ {r}) = Cardinality(S) - 1 BY <2>3, <3>1, FS_RemoveElement
    <3>3. QED BY <2>2, <3>2 DEF Used
  <2>5. Cardinality({x \in AskRequests : asks[x].charge = p}) \in Nat BY UsedIsFinite, FS_CardinalityType
  <2>6. Cardinality({x \in AskRequests : asks[x].charge = p}) # 0
    BY <2>3, UsedIsFinite, FS_EmptySet
  <2>7. used[p] > 0 BY <2>1, <2>5, <2>6 DEF Used
  <2>8. used' = [used EXCEPT ![p] = used[p] - 1] /\ used[p] - 1 \in Nat BY <1>1, <1>5, <1>15, <2>1, <2>7
  <2>9. ChargesCounted'
    <3>1. SUFFICES ASSUME NEW i \in Periods PROVE used'[i] = Used(i)' /\ used'[i] <= Limit(i)
      BY DEF ChargesCounted, Limit
    <3>2. used[i] = Used(i) /\ used[i] <= Limit(i) /\ used \in [Periods -> 0..(FreeLimit + MemberLimit)]
      BY DEF AssistantInv, ChargesCounted, AssistantTypeOK
    <3>3. CASE i # p
      <4>1. {x \in AskRequests : asks'[x].charge = i} = {x \in AskRequests : asks[x].charge = i}
        BY <1>0, <1>5, <1>9, <3>3
      <4>2. QED BY <2>8, <3>2, <3>3, <4>1 DEF Used
    <3>4. CASE i = p
      <4>1. used'[i] = used[i] - 1 BY <2>8, <3>2, <3>4
      <4>2. QED BY <2>1, <2>4, <3>2, <3>4, <4>1, PeriodFacts
    <3>5. QED BY <3>3, <3>4
  <2>10. used' \in [Periods -> 0..(FreeLimit + MemberLimit)] BY <1>15, <2>8, <2>9, UsedTyped
  <2>11. AssistantTypeOK' BY <1>1, <1>9, <2>10 DEF AssistantInv, AssistantTypeOK
  <2>12. QED BY <1>13, <2>9, <2>11 DEF AssistantInv
<1>16. QED BY <1>14, <1>15

LEMMA FindRunKeeps == ASSUME AssistantInv, NEW r \in AskRequests, FindRun(r) PROVE AssistantInv'
<1> DEFINE seen == runs[K(r)]
           next == IF runs[K(r)] = "none" THEN "insert" ELSE "events"
<1>1. asks[r].phase = "find" /\ UNCHANGED <<now, memberUntil, used, conversation, messages, runs, lost>>
  BY DEF FindRun, At
<1>2. /\ K(r) \in QuestionKeys /\ lost \in 0..MaxLost /\ AskIsSound(r) /\ asks[r] \in AskRows
  BY <1>1, AskFacts
<1>3. asks \in [AskRequests -> AskRows] /\ seen \in RunStatuses BY <1>2 DEF AssistantInv, AssistantTypeOK
<1>4. next \in {"insert", "events"} /\ next \in Phases BY DEF Phases
<1>5. [asks[r] EXCEPT !.seen = seen, !.phase = next] \in AskRows BY <1>2, <1>3, <1>4 DEF AskRows
<1>6. asks' = [asks EXCEPT ![r] = [asks[r] EXCEPT !.seen = seen, !.phase = next]]
  BY <1>3 DEF FindRun
<1> HIDE DEF seen, next
<1>7. /\ asks' \in [AskRequests -> AskRows]
      /\ \A x \in AskRequests : x # r => asks'[x] = asks[x]
      /\ asks'[r].phase = next /\ asks'[r].key = asks[r].key /\ asks'[r].stream = asks[r].stream
      /\ asks'[r].charge = asks[r].charge /\ asks'[r].shown = asks[r].shown
  BY <1>2, <1>3, <1>5, <1>6 DEF AskRows
<1>8. AskIsSound(r)' BY <1>1, <1>2, <1>4, <1>7 DEF AskIsSound, Answering, K
<1>9. (Backer(r) => Backer(r)') /\ ~Answering(r)' BY <1>4, <1>7 DEF Backer, Answering
<1>10. QED BY <1>1, <1>2, <1>4, <1>7, <1>8, <1>9, AskOnly DEF K

\* :ask stores its question; an existing question stays.
LEMMA AskedFacts ==
  ASSUME AssistantInv, NEW k \in QuestionKeys, Asked(k)
  PROVE  /\ messages' \in [QuestionKeys -> [asked : BOOLEAN, answer : AskRequests \cup {Nothing}]]
         /\ \A j \in QuestionKeys : j # k => messages'[j] = messages[j]
         /\ messages'[k].asked /\ messages'[k].answer = messages[k].answer
<1>1. messages \in [QuestionKeys -> [asked : BOOLEAN, answer : AskRequests \cup {Nothing}]]
      /\ messages[k] \in [asked : BOOLEAN, answer : AskRequests \cup {Nothing}]
  BY DEF AssistantInv, AssistantTypeOK
<1>2. messages' = [messages EXCEPT ![k] = [messages[k] EXCEPT !.asked = TRUE]] BY <1>1 DEF Asked
<1>3. [messages[k] EXCEPT !.asked = TRUE] \in [asked : BOOLEAN, answer : AskRequests \cup {Nothing}] BY <1>1
<1>4. QED BY <1>1, <1>2, <1>3

\* A request whose conversation is gone gives its charge back.
LEMMA GoneKeeps ==
  ASSUME AssistantInv, NEW r \in AskRequests, ~conversation, To(r, "release"), asks[r].phase \notin {"new", "done"},
         UNCHANGED <<now, memberUntil, used, conversation, messages, runs, lost>>
  PROVE  AssistantInv'
<1>1. "release" \in Phases BY DEF Phases
<1>2. K(r) \in QuestionKeys /\ lost \in 0..MaxLost /\ AskIsSound(r) BY AskFacts
<1>3. /\ asks' \in [AskRequests -> AskRows]
      /\ \A x \in AskRequests : x # r => asks'[x] = asks[x]
      /\ asks'[r].phase = "release" /\ asks'[r].key = asks[r].key /\ asks'[r].stream = asks[r].stream
      /\ asks'[r].charge = asks[r].charge /\ asks'[r].shown = asks[r].shown
  BY <1>1, ToFacts
<1>4. AskIsSound(r)' BY <1>2, <1>3 DEF AskIsSound, K
<1>5. AssistantTypeOK' BY <1>3 DEF AssistantInv, AssistantTypeOK
<1>6. ChargesCounted' BY <1>3, SameCharges
<1>7. runs[K(r)] = "none" /\ messages[K(r)] = NoMessages BY <1>2 DEF AssistantInv, AsksSound, KeyIsSound
<1>8. AsksSound' BY <1>2, <1>3, <1>4, <1>7, AskMoves DEF K, NoMessages
<1>9. QED BY <1>5, <1>6, <1>8 DEF AssistantInv

LEMMA SaveQuestionKeeps == ASSUME AssistantInv, NEW r \in AskRequests, SaveQuestion(r) PROVE AssistantInv'
<1>1. asks[r].phase = "question" /\ UNCHANGED <<now, memberUntil, used, conversation, runs, lost>>
  BY DEF SaveQuestion, At
<1>2. K(r) \in QuestionKeys /\ lost \in 0..MaxLost /\ AskIsSound(r) /\ ~asks[r].stream
  BY <1>1, AskFacts DEF AskIsSound
<1>3. CASE ~conversation BY <1>1, <1>3, GoneKeeps DEF SaveQuestion
<1>4. CASE conversation
  <2>1. Asked(K(r)) /\ To(r, "answer") BY <1>4 DEF SaveQuestion
  <2>2. "answer" \in Phases BY DEF Phases
  <2>3. /\ asks' \in [AskRequests -> AskRows]
        /\ \A x \in AskRequests : x # r => asks'[x] = asks[x]
        /\ asks'[r].phase = "answer" /\ asks'[r].key = asks[r].key /\ asks'[r].stream = asks[r].stream
        /\ asks'[r].charge = asks[r].charge /\ asks'[r].shown = asks[r].shown
    BY <2>1, <2>2, ToFacts
  <2>4. /\ messages' \in [QuestionKeys -> [asked : BOOLEAN, answer : AskRequests \cup {Nothing}]]
        /\ \A j \in QuestionKeys : j # K(r) => messages'[j] = messages[j]
        /\ messages'[K(r)].asked /\ messages'[K(r)].answer = messages[K(r)].answer
    BY <1>2, <2>1, AskedFacts
  <2>5. AskIsSound(r)' BY <1>1, <1>2, <2>3, AssistantAssumption DEF AskIsSound, Answering, K
  <2>6. Backer(r)' /\ ~Answering(r)' BY <1>2, <2>3 DEF Backer, Answering
  <2>7. AssistantTypeOK' BY <1>1, <2>3, <2>4 DEF AssistantInv, AssistantTypeOK
  <2>8. ChargesCounted' BY <1>1, <2>3, SameCharges
  <2>9. \A j \in QuestionKeys : messages[j].answer # Nothing => messages'[j].answer = messages[j].answer
    BY <2>4
  <2>10. AsksSound' BY <1>1, <1>2, <1>4, <2>3, <2>4, <2>5, <2>6, <2>9, AskMoves DEF K
  <2>11. QED BY <2>7, <2>8, <2>10 DEF AssistantInv
<1>5. QED BY <1>3, <1>4

LEMMA InsertRunKeeps == ASSUME AssistantInv, NEW r \in AskRequests, InsertRun(r) PROVE AssistantInv'
<1>1. asks[r].phase = "insert" /\ UNCHANGED <<now, memberUntil, used, conversation, lost>>
  BY DEF InsertRun, At
<1>2. K(r) \in QuestionKeys /\ lost \in 0..MaxLost /\ AskIsSound(r) /\ asks[r] \in AskRows
  BY <1>1, AskFacts
<1>3. CASE ~conversation BY <1>1, <1>3, GoneKeeps DEF InsertRun
<1>4. CASE conversation /\ runs[K(r)] # "none"
  <2>1. To(r, "done") /\ UNCHANGED <<messages, runs>> BY <1>4 DEF InsertRun
  <2>2. "done" \in Phases \ {"new", "question", "answer", "save", "release", "fail", "check"} BY DEF Phases
  <2>3. QED BY <1>1, <1>2, <2>1, <2>2, PhaseOnly
<1>5. CASE conversation /\ runs[K(r)] = "none"
  <2>1. asks \in [AskRequests -> AskRows] /\ runs \in [QuestionKeys -> RunStatuses]
    BY DEF AssistantInv, AssistantTypeOK
  <2>2. [asks[r] EXCEPT !.seen = "queued", !.phase = "events"] \in AskRows BY <1>2 DEF AskRows, RunStatuses, Phases
  <2>3. /\ Asked(K(r)) /\ runs' = [runs EXCEPT ![K(r)] = "queued"]
        /\ asks' = [asks EXCEPT ![r] = [asks[r] EXCEPT !.seen = "queued", !.phase = "events"]]
    BY <1>5, <2>1 DEF InsertRun
  <2>4. /\ asks' \in [AskRequests -> AskRows]
        /\ \A x \in AskRequests : x # r => asks'[x] = asks[x]
        /\ asks'[r].phase = "events" /\ asks'[r].key = asks[r].key /\ asks'[r].stream = asks[r].stream
        /\ asks'[r].charge = asks[r].charge /\ asks'[r].shown = asks[r].shown
    BY <1>2, <2>1, <2>2, <2>3 DEF AskRows
  <2>5. /\ messages' \in [QuestionKeys -> [asked : BOOLEAN, answer : AskRequests \cup {Nothing}]]
        /\ \A j \in QuestionKeys : j # K(r) => messages'[j] = messages[j]
        /\ messages'[K(r)].asked /\ messages'[K(r)].answer = messages[K(r)].answer
    BY <1>2, <2>3, AskedFacts
  <2>6. runs' \in [QuestionKeys -> RunStatuses] /\ runs'[K(r)] = "queued"
        /\ \A j \in QuestionKeys : j # K(r) => runs'[j] = runs[j]
    BY <1>2, <2>1, <2>3 DEF RunStatuses
  <2>7. AskIsSound(r)' BY <1>1, <1>2, <2>4, AssistantAssumption DEF AskIsSound, Answering, K
  <2>8. (Backer(r) => Backer(r)') /\ ~Answering(r)' BY <2>4 DEF Backer, Answering
  <2>9. Backed(K(r)) \/ Backer(r)'
    <3>1. CASE ~asks[r].stream \/ asks[r].charge # Nothing BY <2>4, <3>1 DEF Backer
    <3>2. CASE asks[r].stream /\ asks[r].charge = Nothing
      <4>1. messages[K(r)].asked BY <1>1, <1>2, <1>5, <3>2 DEF AskIsSound
      <4>2. \E x \in AskRequests : K(x) = K(r) /\ asks[x].phase # "new" /\ ~asks[x].stream
        BY <1>2, <1>5, <4>1 DEF AssistantInv, AsksSound, KeyIsSound
      <4>3. QED BY <4>2 DEF Backed, Backer
    <3>3. QED BY <3>1, <3>2
  <2>10. \A x \in AskRequests : Answering(x) => K(x) # K(r)
    BY <1>5 DEF AssistantInv, AsksSound, AskIsSound
  <2>11. AssistantTypeOK' BY <1>1, <2>4, <2>5, <2>6 DEF AssistantInv, AssistantTypeOK
  <2>12. ChargesCounted' BY <1>1, <2>4, SameCharges
  <2>13. \A j \in QuestionKeys : messages[j].answer # Nothing => messages'[j].answer = messages[j].answer
    BY <2>5
  <2>14. AsksSound'
    BY <1>1, <1>2, <1>5, <2>4, <2>5, <2>6, <2>7, <2>8, <2>9, <2>10, <2>13, AskMoves DEF K
  <2>15. QED BY <2>11, <2>12, <2>14 DEF AssistantInv
<1>6. QED BY <1>3, <1>4, <1>5

LEMMA StartRunKeeps == ASSUME AssistantInv, NEW r \in AskRequests, StartRun(r) PROVE AssistantInv'
<1>1. asks[r].phase = "start" /\ UNCHANGED <<now, memberUntil, used, conversation, messages, lost>>
  BY DEF StartRun, At
<1>2. K(r) \in QuestionKeys /\ lost \in 0..MaxLost /\ AskIsSound(r) BY <1>1, AskFacts
<1>3. CASE ~Startable(K(r))
  <2>1. To(r, "done") /\ runs' = runs BY <1>3 DEF StartRun
  <2>2. "done" \in Phases \ {"new", "question", "answer", "save", "release", "fail", "check"} BY DEF Phases
  <2>3. QED BY <1>1, <1>2, <2>1, <2>2, PhaseOnly
<1>4. CASE Startable(K(r))
  <2>1. runs[K(r)] = "queued" /\ runs' = [runs EXCEPT ![K(r)] = "running"] /\ To(r, "answer")
    BY <1>4 DEF StartRun, Startable
  <2>2. "answer" \in Phases BY DEF Phases
  <2>3. /\ asks' \in [AskRequests -> AskRows]
        /\ \A x \in AskRequests : x # r => asks'[x] = asks[x]
        /\ asks'[r].phase = "answer" /\ asks'[r].key = asks[r].key /\ asks'[r].stream = asks[r].stream
        /\ asks'[r].charge = asks[r].charge /\ asks'[r].shown = asks[r].shown
    BY <2>1, <2>2, ToFacts
  <2>4. runs' \in [QuestionKeys -> RunStatuses] /\ runs'[K(r)] = "running"
        /\ \A j \in QuestionKeys : j # K(r) => runs'[j] = runs[j]
    BY <1>2, <2>1 DEF AssistantInv, AssistantTypeOK, RunStatuses
  <2>5. conversation /\ Backed(K(r)) BY <1>2, <2>1 DEF AssistantInv, AsksSound, KeyIsSound
  <2>6. AskIsSound(r)' BY <1>1, <1>2, <2>3, <2>4, AssistantAssumption DEF AskIsSound, Answering, K
  <2>7. Backer(r) => Backer(r)' BY <2>3 DEF Backer
  <2>8. \A x \in AskRequests : Answering(x) => K(x) # K(r)
    BY <2>1, <2>5 DEF AssistantInv, AsksSound, AskIsSound
  <2>9. AssistantTypeOK' BY <1>1, <2>3, <2>4 DEF AssistantInv, AssistantTypeOK
  <2>10. ChargesCounted' BY <1>1, <2>3, SameCharges
  <2>11. AsksSound' BY <1>1, <1>2, <2>1, <2>3, <2>4, <2>5, <2>6, <2>7, <2>8, AskMoves DEF K
  <2>12. QED BY <2>9, <2>10, <2>11 DEF AssistantInv
<1>5. QED BY <1>3, <1>4

LEMMA RunAgentKeeps == ASSUME AssistantInv, NEW r \in AskRequests, RunAgent(r) PROVE AssistantInv'
<1>1. asks[r].phase = "answer" /\ UNCHANGED <<now, memberUntil, used, conversation, messages, runs, lost>>
  BY DEF RunAgent, At
<1>2. K(r) \in QuestionKeys /\ lost \in 0..MaxLost /\ AskIsSound(r) BY <1>1, AskFacts
<1>3. PICK p \in {"save", "release"} : To(r, p) BY DEF RunAgent
<1>4. p \in Phases BY DEF Phases
<1>5. /\ asks' \in [AskRequests -> AskRows]
      /\ \A x \in AskRequests : x # r => asks'[x] = asks[x]
      /\ asks'[r].phase = p /\ asks'[r].key = asks[r].key /\ asks'[r].stream = asks[r].stream
      /\ asks'[r].charge = asks[r].charge /\ asks'[r].shown = asks[r].shown
  BY <1>3, <1>4, ToFacts
<1>6. Answering(r)' <=> Answering(r) BY <1>1, <1>5 DEF Answering
<1>7. AskIsSound(r)' BY <1>1, <1>2, <1>5, <1>6 DEF AskIsSound, K
<1>8. (Backer(r) => Backer(r)') \/ (Answering(r) /\ p \notin {"answer", "save"})
  BY <1>1, <1>5 DEF Backer, Answering
<1>9. QED BY <1>1, <1>2, <1>5, <1>6, <1>7, <1>8, AskOnly DEF K

LEMMA CompleteRunKeeps == ASSUME AssistantInv, NEW r \in AskRequests, CompleteRun(r) PROVE AssistantInv'
<1>1. asks[r].phase = "save" /\ UNCHANGED <<now, memberUntil, used, conversation, lost>>
  BY DEF CompleteRun, SaveAnswer, At
<1>2. K(r) \in QuestionKeys /\ lost \in 0..MaxLost /\ AskIsSound(r) BY <1>1, AskFacts
<1>3. CASE ~conversation BY <1>1, <1>3, GoneKeeps DEF CompleteRun, SaveAnswer
<1>4. CASE conversation
  <2>1. messages \in [QuestionKeys -> [asked : BOOLEAN, answer : AskRequests \cup {Nothing}]]
        /\ messages[K(r)] \in [asked : BOOLEAN, answer : AskRequests \cup {Nothing}]
        /\ runs \in [QuestionKeys -> RunStatuses]
    BY <1>2 DEF AssistantInv, AssistantTypeOK
  <2>2. Stored(r) \in AskRequests /\ (messages[K(r)].answer # Nothing => Stored(r) = messages[K(r)].answer)
    BY <2>1 DEF Stored
  <2>3. /\ messages' = [messages EXCEPT ![K(r)] = [messages[K(r)] EXCEPT !.answer = Stored(r)]]
        /\ Show(r, Stored(r))
        /\ runs' = IF asks[r].stream THEN [runs EXCEPT ![K(r)] = "completed"] ELSE runs
    BY <1>4, <2>1 DEF CompleteRun, SaveAnswer
  <2>4. /\ asks' \in [AskRequests -> AskRows]
        /\ \A x \in AskRequests : x # r => asks'[x] = asks[x]
        /\ asks'[r].phase = "done" /\ asks'[r].key = asks[r].key /\ asks'[r].stream = asks[r].stream
        /\ asks'[r].charge = asks[r].charge /\ asks'[r].shown = Stored(r)
    BY <2>2, <2>3, ShowFacts
  <2>5. [messages[K(r)] EXCEPT !.answer = Stored(r)] \in [asked : BOOLEAN, answer : AskRequests \cup {Nothing}]
    BY <2>1, <2>2
  <2>6. /\ messages' \in [QuestionKeys -> [asked : BOOLEAN, answer : AskRequests \cup {Nothing}]]
        /\ \A j \in QuestionKeys : j # K(r) => messages'[j] = messages[j]
        /\ messages'[K(r)].asked = messages[K(r)].asked /\ messages'[K(r)].answer = Stored(r)
    BY <1>2, <2>1, <2>3, <2>5
  <2>7. /\ runs' \in [QuestionKeys -> RunStatuses]
        /\ \A j \in QuestionKeys : j # K(r) => runs'[j] = runs[j]
        /\ runs'[K(r)] = IF asks[r].stream THEN "completed" ELSE runs[K(r)]
    BY <1>2, <2>1, <2>3 DEF RunStatuses
  <2>8. AskIsSound(r)' BY <1>1, <1>2, <2>4, <2>6 DEF AskIsSound, Answering, K
  <2>9. (Backer(r) => Backer(r)') /\ ~Answering(r)' BY <2>4 DEF Backer, Answering
  <2>10. asks[r].stream => Backed(K(r)) /\ \A x \in AskRequests : x # r /\ Answering(x) => K(x) # K(r)
    <3>1. SUFFICES ASSUME asks[r].stream
                   PROVE  Backed(K(r)) /\ \A x \in AskRequests : x # r /\ Answering(x) => K(x) # K(r)
      OBVIOUS
    <3>2. Answering(r) BY <1>1, <3>1 DEF Answering
    <3>3. QED BY <1>1, <1>2, <1>4, <3>2 DEF AssistantInv, AsksSound, KeyIsSound, OneAnswers
  <2>11. AssistantTypeOK' BY <1>1, <2>4, <2>6, <2>7 DEF AssistantInv, AssistantTypeOK
  <2>12. ChargesCounted' BY <1>1, <2>4, SameCharges
  <2>13. \A j \in QuestionKeys : /\ messages'[j].asked = messages[j].asked
                                 /\ messages[j].answer # Nothing => messages'[j].answer = messages[j].answer
    BY <2>2, <2>6
  <2>14. messages'[K(r)].asked /\ runs'[K(r)] = "none" => runs[K(r)] = "none" /\ messages[K(r)].asked
    BY <2>6, <2>7
  <2>15. AsksSound'
    BY <1>1, <1>2, <1>4, <2>4, <2>7, <2>8, <2>9, <2>10, <2>13, <2>14, AskMoves DEF K
  <2>16. QED BY <2>11, <2>12, <2>15 DEF AssistantInv
<1>5. QED BY <1>3, <1>4

LEMMA FailRunKeeps == ASSUME AssistantInv, NEW r \in AskRequests, FailRun(r) PROVE AssistantInv'
<1>1. /\ asks[r].phase = "fail" /\ To(r, "done") /\ UNCHANGED <<now, memberUntil, used, conversation, messages, lost>>
      /\ runs' = IF runs[K(r)] \in {"queued", "running"} THEN [runs EXCEPT ![K(r)] = "failed"] ELSE runs
  BY DEF FailRun, At
<1>2. K(r) \in QuestionKeys /\ lost \in 0..MaxLost /\ AskIsSound(r) BY <1>1, AskFacts
<1>3. "done" \in Phases BY DEF Phases
<1>4. /\ asks' \in [AskRequests -> AskRows]
      /\ \A x \in AskRequests : x # r => asks'[x] = asks[x]
      /\ asks'[r].phase = "done" /\ asks'[r].key = asks[r].key /\ asks'[r].stream = asks[r].stream
      /\ asks'[r].charge = asks[r].charge /\ asks'[r].shown = asks[r].shown
  BY <1>1, <1>3, ToFacts
<1>5. /\ runs' \in [QuestionKeys -> RunStatuses]
      /\ \A j \in QuestionKeys : j # K(r) => runs'[j] = runs[j]
      /\ runs'[K(r)] = IF runs[K(r)] \in {"queued", "running"} THEN "failed" ELSE runs[K(r)]
  BY <1>1, <1>2 DEF AssistantInv, AssistantTypeOK, RunStatuses
<1>6. AskIsSound(r)' BY <1>1, <1>2, <1>4, AssistantAssumption DEF AskIsSound, Answering, K
<1>7. (Backer(r) => Backer(r)') /\ ~Answering(r)' BY <1>4 DEF Backer, Answering
<1>8. conversation /\ runs'[K(r)] # runs[K(r)] => \A x \in AskRequests : x # r /\ Answering(x) => K(x) # K(r)
  <2>1. SUFFICES ASSUME conversation, runs'[K(r)] # runs[K(r)], NEW x \in AskRequests, x # r, Answering(x), K(x) = K(r)
                 PROVE  FALSE
    OBVIOUS
  <2>2. runs[K(r)] = "running" BY <2>1 DEF AssistantInv, AsksSound, AskIsSound
  <2>3. Answering(r) BY <1>1, <1>2 DEF Answering, AskIsSound
  <2>4. QED BY <2>1, <2>3 DEF AssistantInv, AsksSound, OneAnswers
<1>9. AssistantTypeOK' BY <1>1, <1>4, <1>5 DEF AssistantInv, AssistantTypeOK
<1>10. ChargesCounted' BY <1>1, <1>4, SameCharges
<1>11. messages'[K(r)].asked /\ runs'[K(r)] = "none" => runs[K(r)] = "none" /\ messages[K(r)].asked
  BY <1>1, <1>5
<1>12. ~conversation => runs' = runs BY <1>1, <1>2 DEF AssistantInv, AsksSound, KeyIsSound
<1>13. AsksSound'
  BY <1>1, <1>2, <1>4, <1>5, <1>6, <1>7, <1>8, <1>11, <1>12, AskMoves DEF K
<1>14. QED BY <1>9, <1>10, <1>13 DEF AssistantInv

LEMMA LoseKeeps == ASSUME AssistantInv, NEW r \in AskRequests, Lose(r) PROVE AssistantInv'
<1>1. /\ asks[r].phase \notin {"new", "done"} /\ To(r, "done") /\ lost < MaxLost /\ lost' = lost + 1
      /\ UNCHANGED <<now, memberUntil, used, conversation, messages, runs>>
  BY DEF Lose
<1>2. "done" \in Phases \ {"new", "question", "answer", "save", "release", "fail", "check"} BY DEF Phases
<1>3. lost' \in 0..MaxLost BY <1>1, AskFacts, AssistantAssumption
<1>4. QED BY <1>1, <1>2, <1>3, PhaseOnly

\* The conversation is deleted, and what was shown of it with it.
LEMMA DeleteConversationKeeps == ASSUME AssistantInv, DeleteConversation PROVE AssistantInv'
<1>1. /\ ~conversation' /\ messages' = [k \in QuestionKeys |-> NoMessages] /\ runs' = [k \in QuestionKeys |-> "none"]
      /\ UNCHANGED <<now, memberUntil, used, asks, lost>>
  BY DEF DeleteConversation
<1>2. messages' \in [QuestionKeys -> [asked : BOOLEAN, answer : AskRequests \cup {Nothing}]]
  BY <1>1 DEF NoMessages
<1>3. runs' \in [QuestionKeys -> RunStatuses] BY <1>1 DEF RunStatuses
<1>4. conversation' \in BOOLEAN BY DEF DeleteConversation
<1>5. AssistantTypeOK' BY <1>1, <1>2, <1>3, <1>4 DEF AssistantInv, AssistantTypeOK
<1>6. \A r \in AskRequests : AskIsSound(r)' BY <1>1 DEF AssistantInv, AsksSound, AskIsSound
<1>7. \A k \in QuestionKeys : KeyIsSound(k)' BY <1>1 DEF KeyIsSound, NoMessages
<1>8. OneAnswers' BY <1>1 DEF OneAnswers
<1>9. ChargesCounted' BY <1>1 DEF AssistantInv, ChargesCounted, Used, Limit
<1>10. QED BY <1>5, <1>6, <1>7, <1>8, <1>9 DEF AssistantInv, AsksSound

LEMMA SameAsks ==
  ASSUME AssistantInv, AssistantTypeOK', UNCHANGED <<used, conversation, messages, runs, asks>> PROVE AssistantInv'
<1>1. AsksSound'
  BY DEF AssistantInv, AsksSound, AskIsSound, KeyIsSound, OneAnswers, Answering, Backed, Backer, K
<1>2. ChargesCounted' BY DEF AssistantInv, ChargesCounted, Used, Limit
<1>3. QED BY <1>1, <1>2 DEF AssistantInv

LEMMA NextMonthKeeps == ASSUME AssistantInv, NextMonth PROVE AssistantInv'
<1>1. now < LastMonth /\ now' = now + 1 /\ UNCHANGED <<memberUntil, used, conversation, messages, runs, asks, lost>>
  BY DEF NextMonth
<1>2. now \in 0..LastMonth BY DEF AssistantInv, AssistantTypeOK, Months
<1>3. now' \in Months BY <1>1, <1>2, AssistantAssumption DEF Months
<1>4. AssistantTypeOK' BY <1>1, <1>3 DEF AssistantInv, AssistantTypeOK
<1>5. QED BY <1>1, <1>4, SameAsks

LEMMA AssistantStart == AssistantInit => AssistantInv
<1> SUFFICES ASSUME AssistantInit PROVE AssistantInv
  OBVIOUS
<1>1. now \in Months BY AssistantAssumption DEF AssistantInit, Months
<1>2. 0 \in 0..(FreeLimit + MemberLimit) /\ 0 \in 0..MaxLost BY AssistantAssumption
<1>3. used \in [Periods -> 0..(FreeLimit + MemberLimit)] BY <1>2 DEF AssistantInit
<1>4. messages \in [QuestionKeys -> [asked : BOOLEAN, answer : AskRequests \cup {Nothing}]]
  BY DEF AssistantInit, NoMessages
<1>5. runs \in [QuestionKeys -> RunStatuses] BY DEF AssistantInit, RunStatuses
<1>6. asks \in [AskRequests -> AskRows] BY DEF AssistantInit, AskRows, Phases, RunStatuses
<1>7. lost \in 0..MaxLost /\ conversation \in BOOLEAN BY <1>2 DEF AssistantInit
<1>8. AssistantTypeOK BY <1>1, <1>3, <1>4, <1>5, <1>6, <1>7 DEF AssistantInit, AssistantTypeOK
<1>9. \A r \in AskRequests : AskIsSound(r) BY AssistantAssumption DEF AssistantInit, AskIsSound, Answering
<1>10. \A k \in QuestionKeys : KeyIsSound(k) BY DEF AssistantInit, KeyIsSound, NoMessages, Answering
<1>11. OneAnswers BY DEF AssistantInit, OneAnswers, Answering
<1>12. ChargesCounted
  <2>1. SUFFICES ASSUME NEW p \in Periods PROVE used[p] = Used(p) /\ used[p] <= Limit(p)
    BY DEF ChargesCounted
  <2>2. {r \in AskRequests : asks[r].charge = p} = {} BY AssistantAssumption DEF AssistantInit
  <2>3. Used(p) = 0 BY <2>2, FS_EmptySet DEF Used
  <2>4. used[p] = 0 BY DEF AssistantInit
  <2>5. QED BY <2>3, <2>4, AssistantAssumption DEF Limit
<1>13. QED BY <1>8, <1>9, <1>10, <1>11, <1>12 DEF AssistantInv, AsksSound

LEMMA AssistantStep == AssistantInv /\ [AssistantNext]_assistantVars => AssistantInv'
<1> SUFFICES ASSUME AssistantInv, [AssistantNext]_assistantVars PROVE AssistantInv'
  OBVIOUS
<1>1. CASE \E r \in AskRequests, k \in QuestionKeys, stream \in BOOLEAN : Send(r, k, stream) BY <1>1, SendKeeps
<1>2. CASE \E r \in AskRequests : Handle(r) \/ Lose(r)
  BY <1>2, CheckAskKeeps, CheckStreamKeeps, ConsumeKeeps, ReleaseKeeps, SaveQuestionKeeps, FindRunKeeps, InsertRunKeeps,
     EventsKeeps, StartRunKeeps, RunAgentKeeps, CompleteRunKeeps, FailRunKeeps, LoseKeeps DEF Handle
<1>3. CASE DeleteConversation \/ NextMonth BY <1>3, DeleteConversationKeeps, NextMonthKeeps
<1>4. CASE UNCHANGED assistantVars
  <2>1. AssistantTypeOK' BY <1>4 DEF AssistantInv, AssistantTypeOK, assistantVars
  <2>2. QED BY <1>4, <2>1, SameAsks DEF assistantVars
<1>5. QED BY <1>1, <1>2, <1>3, <1>4 DEF AssistantNext

LEMMA AnswersFollow == AssistantInv => AnswersAreKept
<1> SUFFICES ASSUME AssistantInv PROVE AnswersAreKept
  OBVIOUS
<1>1. \A k \in QuestionKeys : runs[k] = "completed" =>
        \E r \in AskRequests : K(r) = k /\ (asks[r].charge # Nothing \/ ~asks[r].stream)
  BY DEF AssistantInv, AsksSound, KeyIsSound, Backed, Backer
<1>2. QED BY <1>1 DEF AssistantInv, AsksSound, AskIsSound, ChargesCounted, AnswersAreKept

\* Questions, runs, requests, charges and the conversation keep their types.
THEOREM AssistantTypeCorrect == AssistantSpec => []AssistantTypeOK
<1>1. AssistantInv => AssistantTypeOK BY DEF AssistantInv
<1>2. QED BY <1>1, AssistantStart, AssistantStep, PTL DEF AssistantSpec

\* Everyone who is shown an answer sees the stored one, an answered stream has
\* its charge, and a period counts the charges that were kept.
THEOREM AnswersKept == AssistantSpec => []AnswersAreKept
BY AnswersFollow, AssistantStart, AssistantStep, PTL DEF AssistantSpec

----------------------------------------------------------------------------
(***************************************************************************)
(* Lists: every list orders its rows without ties, so a cursor divides     *)
(* them: what was shown is not behind it, what is due is, where it names   *)
(* the last row.                                                           *)
(***************************************************************************)

ListedStates == [status : {"none", "listed", "unlisted", "deleted"}, at : 0..MaxClock, copies : 0..MaxCopied]

Keys == [n : Rows, at : 0..MaxClock, copies : 0..MaxCopied]

Walks == [state : {"more", "ended", "refused"}, cursor : SUBSET Keys, shown : SUBSET Rows, due : SUBSET Rows,
          twice : SUBSET Rows]

\* What a reader was shown is not behind the cursor; what he is still to be
\* shown is, where the cursor names the last row.
WalkIsSound == walk # NoWalk =>
  /\ walk \in Walks /\ walk.twice = {}
  /\ walk.due \subseteq ListedRows
  /\ walk.state = "more" =>
       /\ walk.cursor = {} => walk.shown = {}
       /\ \A n \in walk.shown : listed[n].status # "none"
       /\ \A n \in walk.shown, k \in walk.cursor : Key(n) = k \/ Precedes(Key(n), k)
       /\ list \notin Overreaching => \A n \in walk.due : n \in walk.shown \/ \A k \in walk.cursor : Precedes(k, Key(n))
  /\ list \notin Overreaching /\ walk.state = "ended" => walk.due \subseteq walk.shown

ListingsInv == ListingsTypeOK /\ WalkIsSound

LEMMA KeyTyped == ASSUME ListingsTypeOK, NEW n \in Rows PROVE Key(n) \in Keys /\ Key(n).n = n
<1>1. listed[n] \in ListedStates BY DEF ListingsTypeOK, ListedStates
<1>2. listed[n].at \in 0..MaxClock /\ listed[n].copies \in 0..MaxCopied BY <1>1 DEF ListedStates
<1>3. QED BY <1>2 DEF Key, Keys

\* Every list has a strict order in which two rows never tie.
LEMMA OrderLaws ==
  ASSUME NEW j \in Keys, NEW k \in Keys, NEW l \in Keys
  PROVE  /\ ~Precedes(k, k)
         /\ Precedes(j, k) /\ Precedes(k, l) => Precedes(j, l)
         /\ j.n # k.n => Precedes(j, k) \/ Precedes(k, j)
<1>1. \A h \in {j, k, l} : h.n \in Int /\ h.at \in Int /\ h.copies \in Int
  <2>1. Rows \subseteq Int BY ListingsAssumption
  <2>2. 0..MaxClock \subseteq Int /\ 0..MaxCopied \subseteq Int OBVIOUS
  <2>3. QED BY <2>1, <2>2 DEF Keys
<1>2. CASE list \in {"comments", "messages", "users"}
  <2>1. \A x, y \in {j, k, l} : Precedes(x, y) <=> OldestFirst(x, y) BY <1>2 DEF Precedes
  <2>2. QED BY <1>1, <2>1 DEF OldestFirst
<1>3. CASE list = "plans"
  <2>1. \A x, y \in {j, k, l} : Precedes(x, y) <=> ByDate(x, y) BY <1>3 DEF Precedes
  <2>2. QED BY <1>1, <2>1 DEF ByDate
<1>4. CASE list = "recommended"
  <2>1. \A x, y \in {j, k, l} : Precedes(x, y) <=> MostCopiedFirst(x, y) BY <1>4 DEF Precedes
  <2>2. QED BY <1>1, <2>1 DEF MostCopiedFirst, NewestFirst
<1>5. CASE list \notin {"comments", "messages", "users", "plans", "recommended"}
  <2>1. \A x, y \in {j, k, l} : Precedes(x, y) <=> NewestFirst(x, y) BY <1>5 DEF Precedes
  <2>2. QED BY <1>1, <2>1 DEF NewestFirst
<1>6. QED BY <1>2, <1>3, <1>4, <1>5

LEMMA SoonerFinite ==
  ASSUME NEW ns \in SUBSET Rows, NEW n
  PROVE  IsFiniteSet(Sooner(n, ns)) /\ Cardinality(Sooner(n, ns)) \in Nat
<1>1. Sooner(n, ns) \subseteq Rows BY DEF Sooner
<1>2. QED BY <1>1, ListingsAssumption, FS_Subset, FS_CardinalityType

\* The rows of a page come before those that are left.
LEMMA PageLeads ==
  ASSUME ListingsTypeOK, NEW ns \in SUBSET Rows, NEW n \in FirstOf(ns), NEW m \in ns \ FirstOf(ns)
  PROVE  Precedes(Key(n), Key(m))
<1>1. n \in ns /\ n # m /\ Cardinality(Sooner(n, ns)) < Page /\ ~(Cardinality(Sooner(m, ns)) < Page)
  BY DEF FirstOf
<1>2. Key(n) \in Keys /\ Key(m) \in Keys /\ Key(n).n # Key(m).n BY <1>1, KeyTyped
<1>3. ASSUME Precedes(Key(m), Key(n)) PROVE FALSE
  <2>1. \A x \in Sooner(m, ns) : x \in Sooner(n, ns)
    <3>1. SUFFICES ASSUME NEW x \in ns, x # m, Precedes(Key(x), Key(m)) PROVE x \in Sooner(n, ns)
      BY DEF Sooner
    <3>2. Key(x) \in Keys BY KeyTyped
    <3>3. Precedes(Key(x), Key(n)) BY <1>2, <1>3, <3>1, <3>2, OrderLaws
    <3>4. x # n BY <1>2, <3>3, OrderLaws
    <3>5. QED BY <3>3, <3>4 DEF Sooner
  <2>2. Cardinality(Sooner(m, ns)) <= Cardinality(Sooner(n, ns)) BY <2>1, SoonerFinite, FS_Subset
  <2>3. QED BY <1>1, <2>2, SoonerFinite, ListingsAssumption
<1>4. QED BY <1>2, <1>3, OrderLaws

LEMMA EndsExist ==
  ASSUME ListingsTypeOK, NEW ns \in SUBSET Rows, ns # {}
  PROVE  /\ \E n \in ns : Sooner(n, ns) = {}
         /\ \E n \in ns : Sooner(n, ns) = ns \ {n}
<1> DEFINE R == {p \in ns \X ns : Precedes(Key(p[1]), Key(p[2]))}
           Q == {p \in ns \X ns : Precedes(Key(p[2]), Key(p[1]))}
<1>1. IsFiniteSet(ns) BY ListingsAssumption, FS_Subset
<1>2. \A n \in ns : Key(n) \in Keys /\ Key(n).n = n BY KeyTyped
<1>3. \A n, m \in ns : (<<n, m>> \in R <=> Precedes(Key(n), Key(m))) /\ (<<n, m>> \in Q <=> Precedes(Key(m), Key(n)))
  OBVIOUS
<1> HIDE DEF R, Q
<1>4. \A n \in ns : <<n, n>> \notin R /\ <<n, n>> \notin Q BY <1>2, <1>3, OrderLaws
<1>5. \A x, y, z \in ns : <<x, y>> \in R /\ <<y, z>> \in R => <<x, z>> \in R BY <1>2, <1>3, OrderLaws
<1>6. \A x, y, z \in ns : <<x, y>> \in Q /\ <<y, z>> \in Q => <<x, z>> \in Q BY <1>2, <1>3, OrderLaws
<1>7. \E n \in ns : \A m \in ns : <<m, n>> \notin R BY <1>1, <1>4, <1>5, FirstExists
<1>8. \E n \in ns : \A m \in ns : <<m, n>> \notin Q BY <1>1, <1>4, <1>6, FirstExists
<1>9. \E n \in ns : Sooner(n, ns) = {} BY <1>3, <1>7 DEF Sooner
<1>10. \E n \in ns : Sooner(n, ns) = ns \ {n}
  <2>1. PICK n \in ns : \A m \in ns : ~Precedes(Key(n), Key(m)) BY <1>3, <1>8
  <2>2. \A m \in ns \ {n} : Precedes(Key(m), Key(n)) BY <1>2, <2>1, OrderLaws
  <2>3. Sooner(n, ns) = ns \ {n} BY <2>2 DEF Sooner
  <2>4. QED BY <2>3
<1>11. QED BY <1>9, <1>10

\* The next cursor: it exists, lies behind the old one and behind the page, and
\* where it names the last row, before what is left.
LEMMA CursorFacts ==
  ASSUME ListingsTypeOK, NEW ns \in SUBSET Rows, HasMore(ns), ns # {}
  PROVE  /\ Cursor(FirstOf(ns), ns) # {} /\ Cursor(FirstOf(ns), ns) \subseteq {Key(n) : n \in ns}
         /\ \A k \in Cursor(FirstOf(ns), ns) :
              /\ \A n \in FirstOf(ns) : Key(n) = k \/ Precedes(Key(n), k)
              /\ list \notin Overreaching => \A m \in ns \ FirstOf(ns) : Precedes(k, Key(m))
<1> DEFINE page == FirstOf(ns)
           left == ns \ page
<1>1. page \in SUBSET Rows /\ left \in SUBSET Rows /\ page \subseteq ns BY DEF FirstOf
<1>2. left # {} BY <1>1 DEF HasMore
<1>3. page # {}
  <2>1. PICK n \in ns : Sooner(n, ns) = {} BY EndsExist
  <2>2. Cardinality(Sooner(n, ns)) = 0 BY <2>1, FS_EmptySet
  <2>3. n \in page BY <2>2, ListingsAssumption DEF FirstOf
  <2>4. QED BY <2>3
<1>4. \A n \in page, m \in left : Precedes(Key(n), Key(m)) BY PageLeads
<1> HIDE DEF page, left
<1>5. CASE list \in Overreaching
  <2>1. Cursor(page, ns) = {Key(n) : n \in {m \in left : Sooner(m, left) = {}}}
    BY <1>5 DEF Cursor, NextOf, left
  <2>2. \E n \in left : Sooner(n, left) = {} BY <1>1, <1>2, EndsExist
  <2>3. Cursor(page, ns) # {} BY <2>1, <2>2
  <2>4. Cursor(page, ns) \subseteq {Key(n) : n \in ns} BY <2>1 DEF left
  <2>5. \A k \in Cursor(page, ns) : \A n \in page : Precedes(Key(n), k) BY <1>4, <2>1
  <2>6. QED BY <1>5, <2>3, <2>4, <2>5 DEF page
<1>6. CASE list \notin Overreaching
  <2>1. Cursor(page, ns) = {Key(n) : n \in {m \in page : Sooner(m, page) = page \ {m}}}
    BY <1>6 DEF Cursor, LastOf
  <2>2. \E n \in page : Sooner(n, page) = page \ {n} BY <1>1, <1>3, EndsExist
  <2>3. Cursor(page, ns) # {} BY <2>1, <2>2
  <2>4. Cursor(page, ns) \subseteq {Key(n) : n \in ns} BY <1>1, <2>1
  <2>5. \A k \in Cursor(page, ns) : \A n \in page : Key(n) = k \/ Precedes(Key(n), k)
    <3>1. SUFFICES ASSUME NEW m \in page, Sooner(m, page) = page \ {m}, NEW n \in page
                   PROVE  Key(n) = Key(m) \/ Precedes(Key(n), Key(m))
      BY <2>1
    <3>2. QED BY <3>1 DEF Sooner
  <2>6. \A k \in Cursor(page, ns) : \A m \in left : Precedes(k, Key(m)) BY <1>4, <2>1
  <2>7. QED BY <2>3, <2>4, <2>5, <2>6 DEF page, left
<1>7. QED BY <1>5, <1>6

\* Rows come, go, and are copied; what the reader was shown and where he goes
\* on stays as it was.
LEMMA RowsChange ==
  ASSUME ListingsInv, ListingsTypeOK', list' = list,
         walk = NoWalk => walk' = NoWalk,
         walk # NoWalk => /\ walk' \in Walks /\ walk'.state = walk.state /\ walk'.cursor = walk.cursor
                          /\ walk'.shown = walk.shown /\ walk'.twice = walk.twice
                          /\ walk'.due \subseteq walk.due /\ walk'.due \subseteq ListedRows',
         \A n \in Rows : listed[n].status # "none" =>
           /\ listed'[n].status # "none" /\ listed'[n].at = listed[n].at
           /\ \/ listed'[n].copies = listed[n].copies
              \/ list = "recommended" /\ listed'[n].copies > listed[n].copies
  PROVE  ListingsInv'
<1>1. SUFFICES ASSUME walk' # NoWalk
               PROVE  /\ walk'.twice = {}
                      /\ walk'.state = "more" =>
                           /\ walk'.cursor = {} => walk'.shown = {}
                           /\ \A n \in walk'.shown : listed'[n].status # "none"
                           /\ \A n \in walk'.shown, k \in walk'.cursor : Key(n)' = k \/ Precedes(Key(n)', k)
                           /\ list \notin Overreaching =>
                                \A n \in walk'.due : n \in walk'.shown \/ \A k \in walk'.cursor : Precedes(k, Key(n)')
                      /\ list \notin Overreaching /\ walk'.state = "ended" => walk'.due \subseteq walk'.shown
  BY DEF ListingsInv, WalkIsSound, Precedes, OldestFirst, ByDate, MostCopiedFirst, NewestFirst
<1>2. walk # NoWalk /\ walk \in Walks BY <1>1 DEF ListingsInv, WalkIsSound
<1>3. \A n \in walk.due : n \in Rows /\ listed[n].status # "none"
  BY <1>2 DEF ListingsInv, WalkIsSound, ListedRows
<1>4. \A n \in Rows : listed[n].status # "none" /\ list \notin Overreaching => Key(n)' = Key(n)
  BY DEF Key, Overreaching
<1>5. ASSUME NEW n \in Rows, NEW k \in Keys, listed[n].status # "none", Key(n) = k \/ Precedes(Key(n), k)
      PROVE  Key(n)' = k \/ Precedes(Key(n)', k)
  <2>1. Key(n) \in Keys BY KeyTyped DEF ListingsInv
  <2>2. Key(n)' \in Keys
    <3>1. listed'[n] \in ListedStates BY DEF ListingsTypeOK, ListedStates
    <3>2. QED BY <3>1 DEF Key, Keys, ListedStates
  <2>3. CASE Key(n)' = Key(n) BY <1>5, <2>3
  <2>4. CASE list = "recommended" /\ listed'[n].copies > listed[n].copies
    <3>1. MostCopiedFirst(Key(n)', Key(n)) BY <2>4 DEF MostCopiedFirst, Key
    <3>2. Precedes(Key(n)', Key(n)) BY <2>4, <3>1 DEF Precedes
    <3>3. QED BY <1>5, <2>1, <2>2, <3>2, OrderLaws
  <2>5. QED BY <1>5, <2>3, <2>4 DEF Key
<1>6. \A k \in walk.cursor : k \in Keys BY <1>2 DEF Walks
<1>7. walk.shown \subseteq Rows BY <1>2 DEF Walks
<1>8. ASSUME walk'.state = "more"
      PROVE  /\ walk'.cursor = {} => walk'.shown = {}
             /\ \A n \in walk'.shown : listed'[n].status # "none"
             /\ \A n \in walk'.shown, k \in walk'.cursor : Key(n)' = k \/ Precedes(Key(n)', k)
             /\ list \notin Overreaching =>
                  \A n \in walk'.due : n \in walk'.shown \/ \A k \in walk'.cursor : Precedes(k, Key(n)')
  <2>1. /\ walk.cursor = {} => walk.shown = {}
        /\ \A n \in walk.shown : listed[n].status # "none"
        /\ \A n \in walk.shown, k \in walk.cursor : Key(n) = k \/ Precedes(Key(n), k)
        /\ list \notin Overreaching => \A n \in walk.due : n \in walk.shown \/ \A k \in walk.cursor : Precedes(k, Key(n))
    BY <1>2, <1>8 DEF ListingsInv, WalkIsSound
  <2>2. walk'.cursor = {} => walk'.shown = {} BY <1>2, <2>1
  <2>3. \A n \in walk'.shown : listed'[n].status # "none" BY <1>2, <1>7, <2>1
  <2>4. \A n \in walk'.shown, k \in walk'.cursor : Key(n)' = k \/ Precedes(Key(n)', k)
    BY <1>2, <1>5, <1>6, <1>7, <2>1
  <2>5. list \notin Overreaching =>
          \A n \in walk'.due : n \in walk'.shown \/ \A k \in walk'.cursor : Precedes(k, Key(n)')
    BY <1>2, <1>3, <1>4, <2>1
  <2>6. QED BY <2>2, <2>3, <2>4, <2>5
<1>9. walk'.twice = {} /\ (list \notin Overreaching /\ walk'.state = "ended" => walk'.due \subseteq walk'.shown)
  BY <1>2 DEF ListingsInv, WalkIsSound
<1>10. QED BY <1>8, <1>9

LEMMA WalkShape == ASSUME ListingsInv PROVE walk = NoWalk \/ walk \in Walks
  BY DEF ListingsInv, WalkIsSound

\* What a row may become.
LEMMA EntryFacts ==
  ASSUME ListingsInv, NEW n \in Rows, NEW new \in ListedStates, listed' = [listed EXCEPT ![n] = new],
         UNCHANGED <<list, clock>>, walk'.state = walk.state
  PROVE  ListingsTypeOK' /\ \A m \in Rows : listed'[m] = IF m = n THEN new ELSE listed[m]
  BY DEF ListingsInv, ListingsTypeOK, ListedStates

LEMMA ReaderRests ==
  ASSUME ListingsInv, ListingsTypeOK', UNCHANGED <<list, walk>>,
         \A n \in Rows : listed[n].status # "none" =>
           /\ listed'[n].status # "none" /\ listed'[n].at = listed[n].at
           /\ \/ listed'[n].copies = listed[n].copies
              \/ list = "recommended" /\ listed'[n].copies > listed[n].copies,
         ListedRows \subseteq ListedRows'
  PROVE  ListingsInv'
<1>1. walk # NoWalk => walk \in Walks /\ walk.due \subseteq ListedRows BY DEF ListingsInv, WalkIsSound
<1>2. QED BY <1>1, RowsChange

LEMMA AppearKeeps == ASSUME ListingsInv, NEW n \in Rows, NEW at \in 1..MaxClock, Appear(n, at) PROVE ListingsInv'
<1> DEFINE new == [status |-> "listed", at |-> at, copies |-> 0]
<1>1. listed[n].status = "none" /\ listed' = [listed EXCEPT ![n] = new] /\ UNCHANGED <<list, clock, walk>>
  BY DEF Appear, NoRow
<1>2. at \in 0..MaxClock /\ 0 \in 0..MaxCopied BY ListingsAssumption
<1>3. new \in ListedStates BY <1>2 DEF ListedStates
<1>4. ListingsTypeOK' /\ \A m \in Rows : listed'[m] = IF m = n THEN new ELSE listed[m] BY <1>1, <1>3, EntryFacts
<1>5. ListedRows \subseteq ListedRows' BY <1>1, <1>4 DEF ListedRows
<1>6. QED BY <1>1, <1>4, <1>5, ReaderRests

LEMMA LeavesKeeps ==
  ASSUME ListingsInv, NEW n \in Rows, NEW status \in {"unlisted", "deleted"}, Leaves(n, status) PROVE ListingsInv'
<1> DEFINE new == [listed[n] EXCEPT !.status = status]
<1>1. listed \in [Rows -> ListedStates] /\ listed[n] \in ListedStates BY DEF ListingsInv, ListingsTypeOK, ListedStates
<1>2. /\ listed[n].status = "listed" /\ listed' = [listed EXCEPT ![n] = new] /\ UNCHANGED <<list, clock>>
      /\ walk' = IF walk = NoWalk THEN walk ELSE [walk EXCEPT !.due = walk.due \ {n}]
  BY <1>1 DEF Leaves
<1>3. new \in ListedStates /\ new.status = status /\ new.at = listed[n].at /\ new.copies = listed[n].copies
  BY <1>1 DEF ListedStates
<1> HIDE DEF new
<1>4. walk # NoWalk => /\ walk' \in Walks /\ walk'.state = walk.state /\ walk'.cursor = walk.cursor
                       /\ walk'.shown = walk.shown /\ walk'.twice = walk.twice
                       /\ walk'.due = walk.due \ {n} /\ walk.due \subseteq ListedRows
  BY <1>2, WalkShape DEF Walks, ListingsInv, WalkIsSound
<1>5. walk'.state = walk.state BY <1>2, <1>4
<1>6. ListingsTypeOK' /\ \A m \in Rows : listed'[m] = IF m = n THEN new ELSE listed[m]
  BY <1>2, <1>3, <1>5, EntryFacts
<1>7. ListedRows \ {n} \subseteq ListedRows' BY <1>6 DEF ListedRows
<1>8. QED BY <1>2, <1>3, <1>4, <1>6, <1>7, RowsChange

LEMMA ReopenKeeps == ASSUME ListingsInv, NEW n \in Rows, ReopenPlan(n) PROVE ListingsInv'
<1> DEFINE new == [listed[n] EXCEPT !.status = "listed"]
<1>1. listed \in [Rows -> ListedStates] /\ listed[n] \in ListedStates BY DEF ListingsInv, ListingsTypeOK, ListedStates
<1>2. listed' = [listed EXCEPT ![n] = new] /\ UNCHANGED <<list, clock, walk>> BY <1>1 DEF ReopenPlan
<1>3. new \in ListedStates /\ new.status = "listed" /\ new.at = listed[n].at /\ new.copies = listed[n].copies
  BY <1>1 DEF ListedStates
<1> HIDE DEF new
<1>4. ListingsTypeOK' /\ \A m \in Rows : listed'[m] = IF m = n THEN new ELSE listed[m] BY <1>2, <1>3, EntryFacts
<1>5. ListedRows \subseteq ListedRows' BY <1>3, <1>4 DEF ListedRows
<1>6. QED BY <1>2, <1>3, <1>4, <1>5, ReaderRests

LEMMA CopyNoteKeeps == ASSUME ListingsInv, NEW n \in Rows, CopyNote(n) PROVE ListingsInv'
<1> DEFINE new == [listed[n] EXCEPT !.copies = listed[n].copies + 1]
<1>1. listed \in [Rows -> ListedStates] /\ listed[n] \in ListedStates BY DEF ListingsInv, ListingsTypeOK, ListedStates
<1>2. /\ list = "recommended" /\ listed[n].status = "listed" /\ listed[n].copies < MaxCopied
      /\ listed' = [listed EXCEPT ![n] = new] /\ UNCHANGED <<list, clock, walk>>
  BY <1>1 DEF CopyNote
<1>3. listed[n].copies \in 0..MaxCopied BY <1>1 DEF ListedStates
<1>4. listed[n].copies + 1 \in 0..MaxCopied /\ listed[n].copies + 1 > listed[n].copies
  BY <1>2, <1>3, ListingsAssumption
<1>5. new \in ListedStates /\ new.status = "listed" /\ new.at = listed[n].at /\ new.copies > listed[n].copies
  BY <1>1, <1>2, <1>4 DEF ListedStates
<1> HIDE DEF new
<1>6. ListingsTypeOK' /\ \A m \in Rows : listed'[m] = IF m = n THEN new ELSE listed[m] BY <1>2, <1>5, EntryFacts
<1>7. ListedRows \subseteq ListedRows' BY <1>5, <1>6 DEF ListedRows
<1>8. QED BY <1>2, <1>5, <1>6, <1>7, ReaderRests

LEMMA TickKeeps == ASSUME ListingsInv, Tick PROVE ListingsInv'
<1>1. clock < MaxClock /\ clock' = clock + 1 /\ UNCHANGED <<list, listed, walk>> BY DEF Tick
<1>2. clock \in 1..MaxClock BY DEF ListingsInv, ListingsTypeOK
<1>3. clock' \in 1..MaxClock BY <1>1, <1>2, ListingsAssumption
<1>4. ListingsTypeOK' BY <1>1, <1>3 DEF ListingsInv, ListingsTypeOK
<1>5. ListedRows \subseteq ListedRows' BY <1>1 DEF ListedRows
<1>6. QED BY <1>1, <1>4, <1>5, ReaderRests

LEMMA StartWalkKeeps == ASSUME ListingsInv, StartWalk PROVE ListingsInv'
<1>1. /\ walk' = [state |-> "more", cursor |-> {}, shown |-> {}, due |-> ListedRows, twice |-> {}]
      /\ UNCHANGED <<list, clock, listed>>
  BY DEF StartWalk
<1>2. walk' \in Walks BY <1>1 DEF Walks, ListedRows
<1>3. ListingsTypeOK' BY <1>1 DEF ListingsInv, ListingsTypeOK
<1>4. walk'.due \subseteq ListedRows' BY <1>1 DEF ListedRows
<1>5. WalkIsSound' BY <1>1, <1>2, <1>4 DEF WalkIsSound
<1>6. QED BY <1>3, <1>5 DEF ListingsInv

LEMMA NextPageKeeps == ASSUME ListingsInv, NextPage PROVE ListingsInv'
<1> DEFINE rest == After(walk.cursor)
           page == FirstOf(rest)
           next == IF HasMore(rest) THEN Cursor(page, rest) ELSE {}
<1>1. /\ walk.state = "more" /\ UNCHANGED <<list, clock, listed>>
      /\ walk' = [state |-> IF HasMore(rest) THEN "more" ELSE "ended", cursor |-> next,
                  shown |-> walk.shown \union page, due |-> walk.due,
                  twice |-> walk.twice \union (page \intersect walk.shown)]
  BY DEF NextPage
<1>2. walk # NoWalk /\ walk \in Walks /\ ListingsTypeOK BY <1>1, WalkShape DEF NoWalk, ListingsInv
<1>3. /\ walk.twice = {} /\ walk.due \subseteq ListedRows
      /\ walk.cursor = {} => walk.shown = {}
      /\ \A n \in walk.shown : listed[n].status # "none"
      /\ \A n \in walk.shown, k \in walk.cursor : Key(n) = k \/ Precedes(Key(n), k)
      /\ list \notin Overreaching => \A n \in walk.due : n \in walk.shown \/ \A k \in walk.cursor : Precedes(k, Key(n))
  BY <1>1, <1>2 DEF ListingsInv, WalkIsSound
<1>4. /\ rest \in SUBSET Rows /\ page \subseteq rest
      /\ \A n \in rest : listed[n].status = "listed" /\ \A k \in walk.cursor : Precedes(k, Key(n))
  BY DEF After, ListedRows, FirstOf
<1>5. walk.cursor \subseteq Keys /\ walk.shown \subseteq Rows /\ walk.due \subseteq Rows BY <1>2 DEF Walks
<1>6. \A n \in Rows : Key(n) \in Keys /\ Key(n).n = n BY <1>2, KeyTyped
<1>7. HasMore(rest) => rest # {}
  BY DEF HasMore, FirstOf
<1>8. HasMore(rest) =>
        /\ next # {} /\ next \subseteq {Key(n) : n \in rest}
        /\ \A k \in next :
             /\ \A n \in page : Key(n) = k \/ Precedes(Key(n), k)
             /\ list \notin Overreaching => \A m \in rest \ page : Precedes(k, Key(m))
  BY <1>2, <1>4, <1>7, CursorFacts
<1>9. ~HasMore(rest) => page = rest BY DEF HasMore
<1> HIDE DEF rest, page, next
<1>10. page \intersect walk.shown = {}
  <2>1. SUFFICES ASSUME NEW n \in page, n \in walk.shown PROVE FALSE
    OBVIOUS
  <2>2. PICK k \in walk.cursor : TRUE BY <1>3, <2>1
  <2>3. Precedes(k, Key(n)) /\ (Key(n) = k \/ Precedes(Key(n), k)) BY <1>3, <1>4, <2>1, <2>2
  <2>4. k \in Keys /\ Key(n) \in Keys BY <1>5, <1>6, <2>1, <2>2
  <2>5. QED BY <2>3, <2>4, OrderLaws
<1>11. walk' \in Walks
  <2>1. next \in SUBSET Keys BY <1>4, <1>6, <1>8 DEF next
  <2>2. QED BY <1>1, <1>2, <1>4, <1>5, <2>1 DEF Walks
<1>12. walk'.twice = {} BY <1>1, <1>3, <1>10
<1>13. ListingsTypeOK' BY <1>1, <1>2 DEF ListingsTypeOK
<1>14. ASSUME HasMore(rest)
       PROVE  /\ \A n \in walk'.shown, k \in next : Key(n) = k \/ Precedes(Key(n), k)
              /\ list \notin Overreaching => \A n \in walk'.due : n \in walk'.shown \/ \A k \in next : Precedes(k, Key(n))
  <2>1. ASSUME NEW n \in walk.shown, NEW k \in next PROVE Precedes(Key(n), k)
    <3>1. PICK m \in rest : k = Key(m) BY <1>8, <1>14, <2>1
    <3>2. PICK old \in walk.cursor : TRUE BY <1>3, <2>1
    <3>3. Precedes(old, k) /\ (Key(n) = old \/ Precedes(Key(n), old)) BY <1>3, <1>4, <2>1, <3>1, <3>2
    <3>4. k \in Keys /\ old \in Keys /\ Key(n) \in Keys BY <1>4, <1>5, <1>6, <2>1, <3>1, <3>2
    <3>5. QED BY <3>3, <3>4, OrderLaws
  <2>2. \A n \in walk'.shown, k \in next : Key(n) = k \/ Precedes(Key(n), k)
    BY <1>1, <1>8, <1>14, <2>1
  <2>3. ASSUME list \notin Overreaching, NEW n \in walk.due, n \notin walk.shown, n \notin page
        PROVE  \A k \in next : Precedes(k, Key(n))
    <3>1. n \in rest BY <1>3, <2>3 DEF rest, After
    <3>2. QED BY <1>8, <1>14, <2>3, <3>1
  <2>4. QED BY <1>1, <2>2, <2>3
<1>15. list \notin Overreaching /\ ~HasMore(rest) => walk.due \subseteq walk.shown \union page
  BY <1>3, <1>9 DEF rest, After
<1>16. HasMore(rest) => next # {} BY <1>8
<1>17. \A n \in walk'.shown : listed[n].status # "none" BY <1>1, <1>3, <1>4
<1>18. walk'.state = "more" => HasMore(rest) BY <1>1
<1>19. walk'.state = "ended" => ~HasMore(rest) BY <1>1
<1>20. walk'.due = walk.due /\ walk'.shown = walk.shown \union page /\ walk'.cursor = next BY <1>1
<1>21. WalkIsSound'
  <2>1. /\ walk'.twice = {} /\ walk'.due \subseteq ListedRows /\ walk' \in Walks BY <1>3, <1>11, <1>12, <1>20
  <2>2. walk'.state = "more" =>
          /\ walk'.cursor # {}
          /\ \A n \in walk'.shown : listed[n].status # "none"
          /\ \A n \in walk'.shown, k \in walk'.cursor : Key(n) = k \/ Precedes(Key(n), k)
          /\ list \notin Overreaching =>
               \A n \in walk'.due : n \in walk'.shown \/ \A k \in walk'.cursor : Precedes(k, Key(n))
    BY <1>14, <1>16, <1>17, <1>18, <1>20
  <2>3. list \notin Overreaching /\ walk'.state = "ended" => walk'.due \subseteq walk'.shown
    BY <1>15, <1>19, <1>20
  <2>4. QED BY <1>1, <2>1, <2>2, <2>3
       DEF WalkIsSound, Precedes, OldestFirst, ByDate, MostCopiedFirst, NewestFirst, Key, ListedRows
<1>22. QED BY <1>13, <1>21 DEF ListingsInv

LEMMA CursorRefusedKeeps == ASSUME ListingsInv, CursorRefused PROVE ListingsInv'
<1>1. walk' = [walk EXCEPT !.state = "refused"] /\ walk.state = "more" /\ UNCHANGED <<list, clock, listed>>
  BY DEF CursorRefused
<1>2. walk # NoWalk /\ walk \in Walks BY <1>1, WalkShape DEF NoWalk
<1>3. walk' \in Walks /\ walk'.state = "refused" /\ walk'.twice = walk.twice /\ walk'.due = walk.due
  BY <1>1, <1>2 DEF Walks
<1>4. ListingsTypeOK' BY <1>1, <1>3 DEF ListingsInv, ListingsTypeOK
<1>5. WalkIsSound' BY <1>1, <1>2, <1>3 DEF ListingsInv, WalkIsSound, ListedRows
<1>6. QED BY <1>4, <1>5 DEF ListingsInv

LEMMA ListingsStart == ListingsInit => ListingsInv
<1> SUFFICES ASSUME ListingsInit PROVE ListingsInv
  OBVIOUS
<1>1. NoRow \in ListedStates BY ListingsAssumption DEF NoRow, ListedStates
<1>2. clock \in 1..MaxClock BY ListingsAssumption DEF ListingsInit
<1>3. ListingsTypeOK BY <1>1, <1>2 DEF ListingsInit, ListingsTypeOK, ListedStates, NoWalk
<1>4. WalkIsSound BY DEF ListingsInit, WalkIsSound
<1>5. QED BY <1>3, <1>4 DEF ListingsInv

LEMMA ListingsStep == ListingsInv /\ [ListingsNext]_listingVars => ListingsInv'
<1> SUFFICES ASSUME ListingsInv, [ListingsNext]_listingVars PROVE ListingsInv'
  OBVIOUS
<1>1. CASE \E n \in Rows, at \in 1..MaxClock : Appear(n, at) BY <1>1, AppearKeeps
<1>2. CASE \E n \in Rows : HidePost(n) \/ MarkRead(n) \/ RemoveFavorite(n) \/ ClosePlan(n) \/ ReopenPlan(n) \/ CopyNote(n)
  BY <1>2, LeavesKeeps, ReopenKeeps, CopyNoteKeeps DEF HidePost, MarkRead, RemoveFavorite, ClosePlan
<1>3. CASE Tick \/ StartWalk \/ NextPage \/ CursorRefused
  BY <1>3, TickKeeps, StartWalkKeeps, NextPageKeeps, CursorRefusedKeeps
<1>4. CASE UNCHANGED listingVars
  <2>1. ListingsTypeOK' /\ UNCHANGED <<list, walk, listed>>
    BY <1>4 DEF listingVars, ListingsInv, ListingsTypeOK
  <2>2. ListedRows \subseteq ListedRows' BY <2>1 DEF ListedRows
  <2>3. QED BY <2>1, <2>2, ReaderRests
<1>5. QED BY <1>1, <1>2, <1>3, <1>4 DEF ListingsNext

LEMMA PagesFollow == ListingsInv => PagesAreSound
BY DEF ListingsInv, WalkIsSound, PagesAreSound, ShowsAll, NoWalk

\* Rows, readers, cursors and the clock keep their types.
THEOREM ListingsTypeCorrect == ListingsSpec => []ListingsTypeOK
<1>1. ListingsInv => ListingsTypeOK BY DEF ListingsInv
<1>2. QED BY <1>1, ListingsStart, ListingsStep, PTL DEF ListingsSpec

\* Page after page a reader sees no row twice, and misses none that was listed
\* all the time, where the cursor names the last row he was shown.
THEOREM PagesSound == ListingsSpec => []PagesAreSound
BY PagesFollow, ListingsStart, ListingsStep, PTL DEF ListingsSpec

----------------------------------------------------------------------------
(***************************************************************************)
(* Membership periods: entitlements and quota move with the period they    *)
(* belong to, in the rows and in what a query or a retry has read of them. *)
(***************************************************************************)

\* A line names every period that has not begun, each once.
LEMMA LineFacts ==
  ASSUME NEW view, NEW line \in Lines(view)
  PROVE  /\ Cardinality(Future(view)) \in Nat
         /\ line \in [1..Cardinality(Future(view)) -> Future(view)]
         /\ DOMAIN line = 1..Cardinality(Future(view))
         /\ \A x \in Future(view) : \E i \in DOMAIN line : line[i] = x
<1> DEFINE F == Future(view)
           n == Cardinality(F)
<1>1. IsFiniteSet(Ids) BY PeriodsAssumption, FS_Union DEF Ids
<1>2. IsFiniteSet(F) /\ n \in Nat
  <2>1. F \subseteq Ids BY DEF Future
  <2>2. QED BY <1>1, <2>1, FS_Subset, FS_CardinalityType
<1>3. line \in [1..n -> F] /\ \A i, j \in 1..n : i # j => line[i] # line[j]
  BY DEF Lines, SetToSeqs
<1> HIDE DEF F
<1>4. line \in Injection(1..n, F) BY <1>3 DEF Injection, IsInjective
<1>5. Cardinality(1..n) = n BY <1>2, FS_Interval
<1>6. line \in Surjection(1..n, F) BY <1>2, <1>4, <1>5, FS_Injection
<1>7. \A x \in F : \E i \in 1..n : line[i] = x BY <1>6 DEF Surjection
<1>8. QED BY <1>2, <1>3, <1>7 DEF F

\* One period after the other: where each begins is defined.
Chained(begin, at, length, start, n) ==
  \A i \in 1..n : begin[i] = LET ahead == IF i = 1 THEN start ELSE begin[i - 1] + length[i - 1]
                             IN IF ahead > at[i] THEN ahead ELSE at[i]

LEMMA ChainExists ==
  ASSUME NEW n \in Nat, NEW at \in [1..n -> Nat], NEW length \in [1..n -> Nat], NEW start \in Nat
  PROVE  \E begin \in [1..n -> Nat] : Chained(begin, at, length, start, n)
<1> DEFINE Chains(m) == \E begin \in [1..m -> Nat] : Chained(begin, at, length, start, m)
           S == {m \in 0..n : ~Chains(m)}
<1>1. Chains(0)
  <2>1. [i \in 1..0 |-> 0] \in [1..0 -> Nat] OBVIOUS
  <2>2. Chained([i \in 1..0 |-> 0], at, length, start, 0) BY DEF Chained
  <2>3. QED BY <2>1, <2>2
<1>2. ASSUME NEW m \in 1..n, Chains(m - 1) PROVE Chains(m)
  <2>1. PICK f \in [1..(m - 1) -> Nat] : Chained(f, at, length, start, m - 1) BY <1>2
  <2> DEFINE ahead == IF m = 1 THEN start ELSE f[m - 1] + length[m - 1]
             last == IF ahead > at[m] THEN ahead ELSE at[m]
             g == [i \in 1..m |-> IF i = m THEN last ELSE f[i]]
  <2>2. last \in Nat
    <3>1. m # 1 => m - 1 \in 1..(m - 1) /\ m - 1 \in 1..n OBVIOUS
    <3>2. ahead \in Nat BY <3>1
    <3>3. QED BY <3>2
  <2>3. \A i \in 1..m : i # m => i \in 1..(m - 1) OBVIOUS
  <2>4. g \in [1..m -> Nat] BY <2>2, <2>3
  <2>5. Chained(g, at, length, start, m)
    <3>1. SUFFICES ASSUME NEW i \in 1..m
                   PROVE  g[i] = LET before == IF i = 1 THEN start ELSE g[i - 1] + length[i - 1]
                                 IN IF before > at[i] THEN before ELSE at[i]
      BY DEF Chained
    <3>2. i # 1 => g[i - 1] = f[i - 1] OBVIOUS
    <3>3. CASE i = m BY <3>2, <3>3
    <3>4. CASE i # m BY <2>1, <2>3, <3>2, <3>4 DEF Chained
    <3>5. QED BY <3>3, <3>4
  <2>6. QED BY <2>4, <2>5
<1> HIDE DEF Chains
<1>3. S = {}
  <2>1. SUFFICES ASSUME S # {} PROVE FALSE
    OBVIOUS
  <2>2. PICK m \in S : \A y \in S : m <= y BY <2>1, LeastExists
  <2>3. m \in 0..n /\ m # 0 BY <1>1, <2>2
  <2>4. m - 1 \in 0..n /\ ~(m <= m - 1) BY <2>3
  <2>5. Chains(m - 1) BY <2>2, <2>4
  <2>6. QED BY <1>2, <2>2, <2>3, <2>5
<1>4. n \in 0..n OBVIOUS
<1>5. Chains(n) BY <1>3, <1>4
<1>6. QED BY <1>5 DEF Chains

\* Where no period may begin before the one ahead of it ends, all have a day.
LEMMA BeginsAreDays ==
  ASSUME NEW view, NEW line \in Lines(view), NEW start \in Nat,
         \A x \in Future(view) : view[x] \in PeriodRows /\ view[x].from <= view[x].until
  PROVE  \A i \in DOMAIN line : Begins(view, line, start)[i] \in Nat
<1> DEFINE n == Cardinality(Future(view))
           at == [i \in 1..n |-> view[line[i]].from]
           length == [i \in 1..n |-> view[line[i]].until - view[line[i]].from]
           OneByOne(begin) == [i \in DOMAIN line |->
             LET ahead == IF i = 1 THEN start
                          ELSE begin[i - 1] + view[line[i - 1]].until - view[line[i - 1]].from
             IN IF ahead > view[line[i]].from THEN ahead ELSE view[line[i]].from]
           B == CHOOSE begin : begin = OneByOne(begin)
<1>1. n \in Nat /\ line \in [1..n -> Future(view)] /\ DOMAIN line = 1..n BY LineFacts
<1>2. \A i \in 1..n : view[line[i]].from \in Nat /\ view[line[i]].until \in Nat /\ view[line[i]].from <= view[line[i]].until
  BY <1>1 DEF PeriodRows
<1>3. at \in [1..n -> Nat] /\ length \in [1..n -> Nat] BY <1>2
<1>4. PICK f \in [1..n -> Nat] : Chained(f, at, length, start, n)
  <2> HIDE DEF at, length, n
  <2>1. QED BY <1>1, <1>3, ChainExists
<1>5. f = OneByOne(f)
  <2>1. \A i \in 1..n : f[i] = OneByOne(f)[i]
    <3>1. SUFFICES ASSUME NEW i \in 1..n PROVE f[i] = OneByOne(f)[i]
      OBVIOUS
    <3>2. i # 1 => i - 1 \in 1..n BY <1>1
    <3>3. i # 1 => f[i - 1] + length[i - 1] = f[i - 1] + view[line[i - 1]].until - view[line[i - 1]].from
      BY <1>2, <3>2
    <3>4. QED BY <1>1, <1>4, <3>2, <3>3 DEF Chained
  <2>2. QED BY <1>1, <2>1
<1>6. B = OneByOne(B) BY <1>5
<1>7. Begins(view, line, start) = B BY DEF Begins
<1> HIDE DEF B, n, at, length
<1>8. \A i \in 1..n : /\ i = 1 => B[i] \in Nat
                      /\ i # 1 /\ B[i - 1] \in Nat => B[i] \in Nat
  <2>1. SUFFICES ASSUME NEW i \in 1..n
                 PROVE  (i = 1 => B[i] \in Nat) /\ (i # 1 /\ B[i - 1] \in Nat => B[i] \in Nat)
    OBVIOUS
  <2>2. i # 1 => i - 1 \in 1..n BY <1>1
  <2>3. B[i] = LET ahead == IF i = 1 THEN start
                            ELSE B[i - 1] + view[line[i - 1]].until - view[line[i - 1]].from
               IN IF ahead > view[line[i]].from THEN ahead ELSE view[line[i]].from
    BY <1>1, <1>6
  <2>4. CASE i = 1
    <3>1. B[i] = IF start > view[line[i]].from THEN start ELSE view[line[i]].from BY <2>3, <2>4
    <3>2. QED BY <1>2, <2>4, <3>1
  <2>5. ASSUME i # 1, B[i - 1] \in Nat PROVE B[i] \in Nat
    <3> DEFINE before == B[i - 1]
               from == view[line[i - 1]].from
               until == view[line[i - 1]].until
               here == view[line[i]].from
    <3>1. B[i] = IF before + until - from > here THEN before + until - from ELSE here BY <2>3, <2>5
    <3>2. before \in Nat /\ from \in Nat /\ until \in Nat /\ from <= until /\ here \in Nat
      BY <1>2, <2>2, <2>5
    <3> HIDE DEF before, from, until, here
    <3>3. before + until - from \in Nat BY <3>2
    <3>4. QED BY <3>1, <3>2, <3>3
  <2>6. QED BY <2>4, <2>5
<1>9. {i \in 1..n : B[i] \notin Nat} = {}
  <2> DEFINE S == {i \in 1..n : B[i] \notin Nat}
  <2>1. SUFFICES ASSUME S # {} PROVE FALSE
    OBVIOUS
  <2>2. S \in SUBSET (0..n) BY <1>1
  <2>3. PICK i \in S : \A j \in S : i <= j BY <1>1, <2>1, <2>2, LeastExists
  <2>4. i \in 1..n /\ B[i] \notin Nat BY <2>3
  <2>5. i # 1 => i - 1 \in 1..n /\ ~(i <= i - 1) BY <1>1, <2>4
  <2>6. QED BY <1>8, <2>3, <2>4, <2>5
<1>10. QED BY <1>1, <1>7, <1>9

RowKept(x, period) ==
  /\ period.from <= period.until
  /\ period.rights = Window(period.from, period.until)
  /\ period.quota \in {Window(period.from, period.until), Unset}
  /\ x \in Purchases => /\ period.quota # Unset
                        /\ bought[x] \in Nat
                        /\ period.until - period.from = bought[x]

RowsKept(view) == \A x \in Ids : view[x] # Unset => RowKept(x, view[x])

\* What a query or a retry has read was right, and no period is ever deleted.
PeriodsKept ==
  /\ RowsKept(periods)
  /\ \A p \in Retried : views[p] # Unset =>
       /\ RowsKept(views[p])
       /\ \A x \in Ids : views[p][x] # Unset => periods[x] # Unset

PeriodsInv == PeriodsTypeOK /\ PeriodsKept

LEMMA UnsetIsNoPeriod == Unset \notin PeriodRows /\ Unset \notin Windows /\ Unset \notin Nat
  BY PeriodsAssumption

LEMMA PeriodIsKept ==
  ASSUME NEW x \in Ids, NEW from \in Nat, NEW days \in Nat, NEW quota \in BOOLEAN,
         x \in Purchases => quota /\ bought[x] = days
  PROVE  Period(from, days, quota) \in PeriodRows /\ RowKept(x, Period(from, days, quota))
<1>1. from + days \in Nat /\ from <= from + days /\ (from + days) - from = days OBVIOUS
<1>2. Window(from, from + days) \in Windows BY <1>1 DEF Window, Windows
<1>3. Period(from, days, quota) \in PeriodRows BY <1>1, <1>2 DEF Period, PeriodRows
<1> DEFINE last == from + days
<1>4. /\ Period(from, days, quota).from = from
      /\ Period(from, days, quota).until = last
      /\ Period(from, days, quota).rights = Window(from, last)
      /\ Period(from, days, quota).quota = IF quota THEN Window(from, last) ELSE Unset
  BY DEF Period
<1>5. Window(from, last) # Unset BY <1>2, UnsetIsNoPeriod
<1> HIDE DEF last
<1>6. RowKept(x, Period(from, days, quota)) BY <1>1, <1>4, <1>5 DEF RowKept, last
<1>7. QED BY <1>3, <1>6

Rewritten(old, first, last, rights, quota) ==
  [old EXCEPT !.from = first, !.until = last, !.rights = rights, !.quota = quota]

LEMMA RewrittenPeriod ==
  ASSUME NEW old \in PeriodRows, NEW first, NEW last, NEW rights, NEW quota
  PROVE  Rewritten(old, first, last, rights, quota)
           = [from |-> first, until |-> last, status |-> old.status, rights |-> rights, quota |-> quota]
<1>1. PICK a, b, s, r, q : old = [from |-> a, until |-> b, status |-> s, rights |-> r, quota |-> q]
  <2>1. old = [from |-> old.from, until |-> old.until, status |-> old.status,
               rights |-> old.rights, quota |-> old.quota]
    BY DEF PeriodRows
  <2>2. QED BY <2>1
<1>2. old.status = s BY <1>1
<1> DEFINE new == [from |-> first, until |-> last, status |-> s, rights |-> rights, quota |-> quota]
           old1 == [old EXCEPT !.from = first]
           old2 == [old1 EXCEPT !.until = last]
           old3 == [old2 EXCEPT !.rights = rights]
           old4 == [old3 EXCEPT !.quota = quota]
<1>3. old4 = new
  <2>1. old1 = [from |-> first, until |-> b, status |-> s, rights |-> r, quota |-> q] BY <1>1
  <2> HIDE DEF old1
  <2>2. old2 = [from |-> first, until |-> last, status |-> s, rights |-> r, quota |-> q] BY <2>1
  <2> HIDE DEF old2
  <2>3. old3 = [from |-> first, until |-> last, status |-> s, rights |-> rights, quota |-> q] BY <2>2
  <2> HIDE DEF old3
  <2>4. QED BY <2>3
<1>4. Rewritten(old, first, last, rights, quota) = old4 BY DEF Rewritten
<1> HIDE DEF old1, old2, old3, old4
<1>5. QED BY <1>2, <1>3, <1>4

\* A period that is moved takes its rights and its quota along.
LEMMA MovedIsKept ==
  ASSUME NEW x \in Ids, NEW old \in PeriodRows, NEW seen \in PeriodRows, RowKept(x, seen),
         NEW shift \in Int, seen.from + shift \in Nat
  PROVE  LET moved == [old EXCEPT !.from = seen.from + shift, !.until = seen.until + shift,
                                  !.rights = Later(seen.rights, shift),
                                  !.quota = MovedQuota(seen.quota, shift)]
         IN moved \in PeriodRows /\ RowKept(x, moved)
<1> DEFINE from == seen.from
           until == seen.until
           first == from + shift
           last == until + shift
           moved == Rewritten(old, first, last, Later(seen.rights, shift), MovedQuota(seen.quota, shift))
<1>1. /\ from \in Nat /\ until \in Nat /\ from <= until /\ first \in Nat
      /\ seen.rights = Window(from, until)
      /\ seen.quota \in {Window(from, until), Unset}
      /\ x \in Purchases => seen.quota # Unset /\ bought[x] \in Nat /\ until - from = bought[x]
  BY DEF RowKept, PeriodRows
<1>2. moved = [from |-> first, until |-> last, status |-> old.status,
               rights |-> Later(seen.rights, shift), quota |-> MovedQuota(seen.quota, shift)]
  BY RewrittenPeriod
<1>3. first = from + shift /\ last = until + shift OBVIOUS
<1>4. old.status \in {"active", "revoked"} BY DEF PeriodRows
<1> HIDE DEF from, until, first, last, moved
<1>5. last \in Nat /\ first <= last /\ last - first = until - from BY <1>1, <1>3
<1>6. Later(Window(from, until), shift) = Window(first, last) BY <1>3 DEF Later, Window
<1>7. Window(first, last) \in Windows BY <1>1, <1>5 DEF Window, Windows
<1>8. Window(first, last) # Unset BY <1>7, UnsetIsNoPeriod
<1>9. /\ MovedQuota(seen.quota, shift) \in {Window(first, last), Unset}
      /\ seen.quota # Unset => MovedQuota(seen.quota, shift) # Unset
  BY <1>1, <1>6, <1>8 DEF MovedQuota
<1>10. moved \in PeriodRows BY <1>1, <1>2, <1>4, <1>5, <1>6, <1>7, <1>9 DEF PeriodRows
<1>11. RowKept(x, moved) BY <1>1, <1>2, <1>5, <1>6, <1>9 DEF RowKept
<1>12. QED BY <1>10, <1>11 DEF moved, first, last, from, until, Rewritten

\* So every period a later purchase pushes back is kept.
LEMMA PushedBackIsKept ==
  ASSUME NEW view \in [Ids -> PeriodRows \cup {Unset}], RowsKept(view),
         periods \in [Ids -> PeriodRows \cup {Unset}], RowsKept(periods),
         \A x \in Ids : view[x] # Unset => periods[x] # Unset,
         NEW line \in Lines(view), NEW start \in Nat
  PROVE  LET pushed == PushedBack(view, line, start)
         IN /\ pushed \in [Ids -> PeriodRows \cup {Unset}]
            /\ RowsKept(pushed)
            /\ \A x \in Ids : periods[x] # Unset => pushed[x] # Unset
<1> DEFINE begin == Begins(view, line, start)
           Place(x) == CHOOSE n \in DOMAIN line : line[n] = x
           Moved(x) ==
             LET shift == begin[Place(x)] - view[x].from
             IN IF shift = 0 THEN periods[x]
                ELSE [periods[x] EXCEPT !.from = view[x].from + shift, !.until = view[x].until + shift,
                                        !.rights = Later(view[x].rights, shift),
                                        !.quota = MovedQuota(view[x].quota, shift)]
           pushed == [x \in Ids |-> IF x \in Future(view) THEN Moved(x) ELSE periods[x]]
<1>1. PushedBack(view, line, start) = pushed BY DEF PushedBack
<1>2. \A x \in Future(view) : /\ x \in Ids /\ view[x] # Unset /\ view[x] \in PeriodRows
                              /\ periods[x] \in PeriodRows /\ periods[x] # Unset /\ RowKept(x, view[x])
  BY DEF Future, RowsKept
<1>3. \A i \in DOMAIN line : begin[i] \in Nat
  BY <1>2, BeginsAreDays DEF RowKept
<1>4. \A x \in Future(view) : begin[Place(x)] \in Nat
  <2>1. TAKE x \in Future(view)
  <2>2. \E n \in DOMAIN line : line[n] = x BY LineFacts
  <2>3. Place(x) \in DOMAIN line BY <2>2
  <2> HIDE DEF Place, begin
  <2>4. QED BY <1>3, <2>3
<1> HIDE DEF begin, Place
<1>5. \A x \in Future(view) : Moved(x) \in PeriodRows /\ RowKept(x, Moved(x))
  <2>1. TAKE x \in Future(view)
  <2> DEFINE shift == begin[Place(x)] - view[x].from
  <2>2. view[x].from \in Nat /\ begin[Place(x)] \in Nat BY <1>2, <1>4 DEF PeriodRows
  <2>3. shift \in Int /\ view[x].from + shift \in Nat BY <2>2
  <2>4. x \in Ids /\ view[x] \in PeriodRows /\ periods[x] \in PeriodRows
        /\ RowKept(x, view[x]) /\ RowKept(x, periods[x])
    BY <1>2 DEF RowsKept
  <2> HIDE DEF shift
  <2> DEFINE new == [periods[x] EXCEPT !.from = view[x].from + shift, !.until = view[x].until + shift,
                                       !.rights = Later(view[x].rights, shift),
                                       !.quota = MovedQuota(view[x].quota, shift)]
  <2>5. new \in PeriodRows /\ RowKept(x, new) BY <2>3, <2>4, MovedIsKept
  <2>6. Moved(x) = IF shift = 0 THEN periods[x] ELSE new BY DEF shift
  <2> HIDE DEF new, Moved
  <2>7. QED BY <2>4, <2>5, <2>6
<1> HIDE DEF Moved
<1>6. pushed \in [Ids -> PeriodRows \cup {Unset}] BY <1>5
<1>7. RowsKept(pushed) BY <1>5 DEF RowsKept
<1>8. \A x \in Ids : periods[x] # Unset => pushed[x] # Unset BY <1>5, UnsetIsNoPeriod
<1>9. QED BY <1>1, <1>6, <1>7, <1>8

LEMMA PeriodsStart == PeriodsInit => PeriodsInv
<1> SUFFICES ASSUME PeriodsInit PROVE PeriodsInv
  OBVIOUS
<1> USE DEF PeriodsInit
<1>1. 0 \in 0..MaxToday /\ 1 \in Durations BY PeriodsAssumption DEF Durations
<1>2. \A x \in Queued : /\ x \in Ids /\ x \in Purchases /\ bought[x] = 1
                        /\ Period(1, 1, TRUE) \in PeriodRows /\ RowKept(x, Period(1, 1, TRUE))
  <2>1. TAKE x \in Queued
  <2>2. x \in Ids /\ x \in Purchases /\ bought[x] = 1 BY PeriodsAssumption DEF Ids
  <2>3. QED BY <2>2, PeriodIsKept
<1>3. bought \in [Purchases -> Durations \cup {Unset}] BY <1>1
<1>4. periods \in [Ids -> PeriodRows \cup {Unset}] BY <1>2
<1>5. views \in [Retried -> [Ids -> PeriodRows \cup {Unset}] \cup {Unset}] OBVIOUS
<1>6. PeriodsTypeOK BY <1>1, <1>3, <1>4, <1>5 DEF PeriodsTypeOK
<1>7. RowsKept(periods) BY <1>2 DEF RowsKept
<1>8. \A p \in Retried : views[p] = Unset OBVIOUS
<1>9. QED BY <1>6, <1>7, <1>8 DEF PeriodsInv, PeriodsKept

\* Nothing but the plan or the day changes.
LEMMA PlanKeeps ==
  ASSUME PeriodsInv, UNCHANGED <<bought, periods, views>>, today' \in 0..MaxToday,
         offer' \in [status : {"draft", "published", "archived"}, purchasable : BOOLEAN, days : Durations],
         offer'.purchasable => offer'.status = "published"
  PROVE  PeriodsInv'
BY DEF PeriodsInv, PeriodsTypeOK, PeriodsKept, RowsKept, RowKept

LEMMA PublishPlanKeeps == ASSUME PeriodsInv, PublishPlan PROVE PeriodsInv'
<1>1. offer' = [status |-> "published", purchasable |-> TRUE, days |-> offer.days]
  BY DEF PublishPlan, PeriodsInv, PeriodsTypeOK
<1>2. offer.days \in Durations /\ today \in 0..MaxToday BY DEF PeriodsInv, PeriodsTypeOK
<1>3. QED BY <1>1, <1>2, PlanKeeps DEF PublishPlan

LEMMA ArchiveKeeps == ASSUME PeriodsInv, Archive PROVE PeriodsInv'
<1>1. offer' = [status |-> "archived", purchasable |-> FALSE, days |-> offer.days]
  BY DEF Archive, PeriodsInv, PeriodsTypeOK
<1>2. offer.days \in Durations /\ today \in 0..MaxToday BY DEF PeriodsInv, PeriodsTypeOK
<1>3. QED BY <1>1, <1>2, PlanKeeps DEF Archive

LEMMA UpdatePlanKeeps ==
  ASSUME PeriodsInv, NEW days \in Durations, NEW purchasable \in BOOLEAN, Update(days, purchasable)
  PROVE  PeriodsInv'
<1>1. offer' = [status |-> offer.status, purchasable |-> purchasable, days |-> days]
  BY DEF Update, PeriodsInv, PeriodsTypeOK
<1>2. offer.status \in {"draft", "published", "archived"} /\ today \in 0..MaxToday
  BY DEF PeriodsInv, PeriodsTypeOK
<1>3. purchasable => offer.status = "published" BY DEF Update, Offered
<1>4. QED BY <1>1, <1>2, <1>3, PlanKeeps DEF Update

LEMMA PassKeeps == ASSUME PeriodsInv, Pass PROVE PeriodsInv'
<1>1. today' \in 0..MaxToday BY PeriodsAssumption DEF Pass, PeriodsInv, PeriodsTypeOK
<1>2. QED BY <1>1, PlanKeeps DEF Pass, PeriodsInv, PeriodsTypeOK

\* A purchase that is not bought yet has no period, in no view either.
LEMMA BuyKeeps == ASSUME PeriodsInv, NEW p \in Purchases, Buy(p) PROVE PeriodsInv'
<1> USE DEF Buy
<1>1. offer.days \in Durations BY DEF PeriodsInv, PeriodsTypeOK
<1>2. PeriodsTypeOK' BY <1>1 DEF PeriodsInv, PeriodsTypeOK
<1>3. ASSUME NEW view, RowsKept(view), NEW x \in Ids, view[x] # Unset
      PROVE  RowKept(x, view[x])'
    BY <1>3, UnsetIsNoPeriod DEF RowsKept, RowKept, PeriodsInv, PeriodsTypeOK
<1>4. PeriodsKept' BY <1>3 DEF PeriodsInv, PeriodsKept, RowsKept
<1>5. QED BY <1>2, <1>4 DEF PeriodsInv

\* A period is granted or written over, and what was read before stays as it was.
LEMMA WriteKeeps ==
  ASSUME PeriodsInv, UNCHANGED <<today, offer, bought>>,
         periods' \in [Ids -> PeriodRows \cup {Unset}],
         \A x \in Ids : periods'[x] # Unset => RowKept(x, periods'[x]),
         \A x \in Ids : periods[x] # Unset => periods'[x] # Unset,
         \/ UNCHANGED views
         \/ \E p \in Retried : views' = [views EXCEPT ![p] = Unset]
  PROVE  PeriodsInv'
<1>1. /\ views' \in [Retried -> [Ids -> PeriodRows \cup {Unset}] \cup {Unset}]
      /\ \A p \in Retried : views'[p] # Unset => views'[p] = views[p]
  BY DEF PeriodsInv, PeriodsTypeOK
<1>2. PeriodsTypeOK' BY <1>1 DEF PeriodsInv, PeriodsTypeOK
<1>3. RowsKept(periods)' BY DEF RowsKept, RowKept
<1>4. ASSUME NEW p \in Retried, views'[p] # Unset
      PROVE  /\ RowsKept(views[p])'
             /\ \A x \in Ids : views'[p][x] # Unset => periods'[x] # Unset
  BY <1>1, <1>4 DEF PeriodsInv, PeriodsKept, RowsKept, RowKept
<1>5. PeriodsKept' BY <1>1, <1>3, <1>4 DEF PeriodsKept
<1>6. QED BY <1>2, <1>5 DEF PeriodsInv

LEMMA GrantKeeps ==
  ASSUME PeriodsInv, NEW k \in GrantKeys, NEW from \in 0..MaxToday, Grant(k, from)
  PROVE  PeriodsInv'
<1> DEFINE gift == Period(from, offer.days, FALSE)
<1>1. k \in Ids /\ k \notin Purchases BY PeriodsAssumption DEF Ids
<1>2. from \in Nat /\ offer.days \in Nat
  BY PeriodsAssumption DEF PeriodsInv, PeriodsTypeOK, Durations
<1>3. gift \in PeriodRows /\ RowKept(k, gift) BY <1>1, <1>2, PeriodIsKept
<1> HIDE DEF gift
<1>4. periods' = [periods EXCEPT ![k] = gift] /\ UNCHANGED <<today, offer, bought, views>>
  BY DEF Grant, gift
<1>5. periods \in [Ids -> PeriodRows \cup {Unset}] /\ RowsKept(periods)
  BY DEF PeriodsInv, PeriodsTypeOK, PeriodsKept
<1>6. \A x \in Ids : periods'[x] # Unset => RowKept(x, periods'[x])
  BY <1>3, <1>4, <1>5 DEF RowsKept
<1>7. \A x \in Ids : periods[x] # Unset => periods'[x] # Unset BY <1>3, <1>4, <1>5, UnsetIsNoPeriod
<1>8. QED BY <1>3, <1>4, <1>5, <1>6, <1>7, WriteKeeps

LEMMA RevokeKeeps == ASSUME PeriodsInv, NEW x \in Ids, Revoke(x) PROVE PeriodsInv'
<1>1. periods \in [Ids -> PeriodRows \cup {Unset}] /\ RowsKept(periods)
  BY DEF PeriodsInv, PeriodsTypeOK, PeriodsKept
<1>2. periods[x] \in PeriodRows /\ RowKept(x, periods[x]) BY <1>1 DEF Revoke, RowsKept
<1> DEFINE revoked == [periods[x] EXCEPT !.status = "revoked"]
<1>3. /\ revoked.from = periods[x].from /\ revoked.until = periods[x].until
      /\ revoked.rights = periods[x].rights /\ revoked.quota = periods[x].quota
      /\ revoked \in PeriodRows
  BY <1>2 DEF PeriodRows
<1> HIDE DEF revoked
<1>4. RowKept(x, revoked) BY <1>2, <1>3 DEF RowKept
<1>5. periods' = [periods EXCEPT ![x] = revoked] /\ UNCHANGED <<today, offer, bought, views>>
  BY DEF Revoke, revoked
<1>6. \A y \in Ids : periods'[y] # Unset => RowKept(y, periods'[y])
  BY <1>1, <1>4, <1>5 DEF RowsKept
<1>7. \A y \in Ids : periods[y] # Unset => periods'[y] # Unset BY <1>1, <1>3, <1>5, UnsetIsNoPeriod
<1>8. QED BY <1>1, <1>3, <1>5, <1>6, <1>7, WriteKeeps

LEMMA LookKeeps == ASSUME PeriodsInv, NEW p \in Retried, Look(p) PROVE PeriodsInv'
<1> USE DEF Look
<1>1. /\ periods \in [Ids -> PeriodRows \cup {Unset}]
      /\ views \in [Retried -> [Ids -> PeriodRows \cup {Unset}] \cup {Unset}]
  BY DEF PeriodsInv, PeriodsTypeOK
<1>2. views' \in [Retried -> [Ids -> PeriodRows \cup {Unset}] \cup {Unset}] BY <1>1
<1>3. PeriodsTypeOK' BY <1>2 DEF PeriodsInv, PeriodsTypeOK
<1>4. \A q \in Retried : views'[q] = IF q = p THEN periods ELSE views[q] BY <1>1
<1>5. PeriodsKept' BY <1>4 DEF PeriodsInv, PeriodsKept, RowsKept, RowKept
<1>6. QED BY <1>3, <1>5 DEF PeriodsInv

\* A paid period begins, whichever moment the rows it pushes back are from.
LEMMA ActivateKeeps ==
  ASSUME PeriodsInv, NEW p \in Purchases, NEW view \in [Ids -> PeriodRows \cup {Unset}],
         RowsKept(view), \A x \in Ids : view[x] # Unset => periods[x] # Unset,
         Activate(p, view), UNCHANGED <<today, offer, bought>>,
         \/ UNCHANGED views
         \/ \E q \in Retried : views' = [views EXCEPT ![q] = Unset]
  PROVE  PeriodsInv'
<1> DEFINE start == today + bought[p]
           begun == Period(today, bought[p], TRUE)
<1>1. PICK line \in Lines(view) : periods' = [PushedBack(view, line, start) EXCEPT ![p] = begun]
  BY DEF Activate
<1>2. today \in Nat /\ bought[p] \in Nat
  BY PeriodsAssumption DEF Activate, PeriodsInv, PeriodsTypeOK, Durations
<1>3. p \in Ids BY DEF Ids
<1>4. begun \in PeriodRows /\ RowKept(p, begun) BY <1>2, <1>3, PeriodIsKept
<1>5. start \in Nat BY <1>2
<1> DEFINE pushed == PushedBack(view, line, start)
<1> HIDE DEF start, begun
<1>6. periods \in [Ids -> PeriodRows \cup {Unset}] /\ RowsKept(periods)
  BY DEF PeriodsInv, PeriodsTypeOK, PeriodsKept
<1>7. /\ pushed \in [Ids -> PeriodRows \cup {Unset}]
      /\ RowsKept(pushed)
      /\ \A x \in Ids : periods[x] # Unset => pushed[x] # Unset
  BY <1>5, <1>6, PushedBackIsKept
<1> HIDE DEF pushed
<1>8. periods' = [pushed EXCEPT ![p] = begun] BY <1>1 DEF pushed
<1>9. \A x \in Ids : periods'[x] # Unset => RowKept(x, periods'[x])
  BY <1>4, <1>7, <1>8 DEF RowsKept
<1>10. \A x \in Ids : periods[x] # Unset => periods'[x] # Unset BY <1>4, <1>7, <1>8, UnsetIsNoPeriod
<1>11. periods' \in [Ids -> PeriodRows \cup {Unset}] BY <1>4, <1>7, <1>8
<1>12. QED BY <1>9, <1>10, <1>11, WriteKeeps

LEMMA AuthorizeFreshKeeps ==
  ASSUME PeriodsInv, NEW p \in Purchases, AuthorizeFresh(p) PROVE PeriodsInv'
<1>1. periods \in [Ids -> PeriodRows \cup {Unset}] /\ RowsKept(periods)
  BY DEF PeriodsInv, PeriodsTypeOK, PeriodsKept
<1>2. QED BY <1>1, ActivateKeeps DEF AuthorizeFresh

LEMMA AuthorizeSeenKeeps ==
  ASSUME PeriodsInv, NEW p \in Retried, AuthorizeSeen(p) PROVE PeriodsInv'
<1>1. p \in Purchases BY PeriodsAssumption
<1>2. /\ views[p] # Unset /\ views' = [views EXCEPT ![p] = Unset]
      /\ UNCHANGED <<today, offer, bought>>
  BY DEF AuthorizeSeen
<1>3. CASE periods[p] = Unset
  <2>1. Activate(p, views[p]) BY <1>3 DEF AuthorizeSeen
  <2>2. /\ views[p] \in [Ids -> PeriodRows \cup {Unset}] /\ RowsKept(views[p])
        /\ \A x \in Ids : views[p][x] # Unset => periods[x] # Unset
    BY <1>2 DEF PeriodsInv, PeriodsTypeOK, PeriodsKept
  <2>3. QED BY <1>1, <1>2, <2>1, <2>2, ActivateKeeps
<1>4. CASE periods[p] # Unset
  <2>1. UNCHANGED periods BY <1>4 DEF AuthorizeSeen
  <2>2. periods \in [Ids -> PeriodRows \cup {Unset}] /\ RowsKept(periods)
    BY DEF PeriodsInv, PeriodsTypeOK, PeriodsKept
  <2>3. QED BY <1>2, <2>1, <2>2, WriteKeeps DEF RowsKept
<1>5. QED BY <1>3, <1>4

LEMMA PeriodsStep == ASSUME PeriodsInv, [PeriodsNext]_periodVars PROVE PeriodsInv'
<1>1. CASE PublishPlan BY <1>1, PublishPlanKeeps
<1>2. CASE Archive BY <1>2, ArchiveKeeps
<1>3. CASE Pass BY <1>3, PassKeeps
<1>4. ASSUME NEW days \in Durations, NEW purchasable \in BOOLEAN, Update(days, purchasable)
      PROVE  PeriodsInv'
  BY <1>4, UpdatePlanKeeps
<1>5. ASSUME NEW k \in GrantKeys, NEW from \in 0..MaxToday, Grant(k, from) PROVE PeriodsInv'
  BY <1>5, GrantKeeps
<1>6. ASSUME NEW x \in Ids, Revoke(x) PROVE PeriodsInv' BY <1>6, RevokeKeeps
<1>7. ASSUME NEW p \in Purchases, Buy(p) \/ AuthorizeFresh(p) PROVE PeriodsInv'
  BY <1>7, BuyKeeps, AuthorizeFreshKeeps
<1>8. ASSUME NEW p \in Retried, Look(p) \/ AuthorizeSeen(p) PROVE PeriodsInv'
  BY <1>8, LookKeeps, AuthorizeSeenKeeps
<1>9. CASE UNCHANGED periodVars
  BY <1>9 DEF periodVars, PeriodsInv, PeriodsTypeOK, PeriodsKept, RowsKept, RowKept
<1>10. QED BY <1>1, <1>2, <1>3, <1>4, <1>5, <1>6, <1>7, <1>8, <1>9 DEF PeriodsNext

LEMMA PeriodsFollow == PeriodsInv => PaidTimeIsKept
BY UnsetIsNoPeriod DEF PeriodsInv, PeriodsKept, RowsKept, RowKept, PaidTimeIsKept, Window

\* Plans, purchases, periods, the day and what a retry has read keep their
\* types.
THEOREM PeriodsTypeCorrect == PeriodsSpec => []PeriodsTypeOK
<1>1. PeriodsInv => PeriodsTypeOK BY DEF PeriodsInv
<1>2. QED BY <1>1, PeriodsStart, PeriodsStep, PTL DEF PeriodsSpec

\* A paid period lasts as long as it was sold for, however often it is pushed
\* back, with the entitlements and the quota of exactly that period
\* (membership_purchases/service.py, memberships/service.py).
THEOREM PaidTimeKept == PeriodsSpec => []PaidTimeIsKept
BY PeriodsFollow, PeriodsStart, PeriodsStep, PTL DEF PeriodsSpec

----------------------------------------------------------------------------
(***************************************************************************)
(* The components side by side: whichever runs, the others rest, so that   *)
(* every component moves alone or not at all.                              *)
(***************************************************************************)

\* Two of the parts are a chat; the one with pages has one request and reader.
ChatPart(p) == IF p = "page" THEN ChatInv({send1}, {uma}) ELSE ChatInv(Sends, Watchers)

TravellersInv ==
  /\ part \in Parts
  /\ PlanInv /\ (part = "invites" => PartyOfTwo)
  /\ ChatPart(part)
  /\ KnowledgeInv /\ AssistantInv /\ ExperiencesInv /\ OffersInv /\ NotesInv /\ ListingsInv /\ PeriodsInv

Alone ==
  /\ part' = part
  /\ PlanMoves \/ UNCHANGED vars
  /\ part = "invites" => [Guest!Next]_vars
  /\ IF part = "page" THEN ChatMoves({send1}, {uma}) \/ UNCHANGED chatVars
                      ELSE ChatMoves(Sends, Watchers) \/ UNCHANGED chatVars
  /\ [KnowledgeNext]_knowledgeVars
  /\ [AssistantNext]_assistantVars
  /\ [ExperiencesNext]_experienceVars
  /\ [OffersNext]_offerVars
  /\ [NotesNext]_noteVars
  /\ [ListingsNext]_listingVars
  /\ [PeriodsNext]_periodVars

LEMMA EachAlone == [Step]_everything => Alone
<1>1. CASE UNCHANGED everything BY <1>1 DEF everything, companionVars, Alone
<1>2. CASE part = "plans" /\ Next /\ Rest("plans") BY <1>2, NextMoves DEF Rest, Alone, companionVars
<1>3. CASE part = "invites" /\ Guest!Next /\ Rest("invites")
  BY <1>3, GuestMoves DEF Rest, Alone, companionVars
<1>4. CASE part = "chat" /\ ChatNext /\ Rest("chat") BY <1>4, ChatNextMoves DEF Rest, Alone, companionVars
<1>5. CASE part = "page" /\ Pages!ChatNext /\ Rest("page") BY <1>5, PagesMoves DEF Rest, Alone, companionVars
<1>6. CASE part \in {"knowledge", "deciders"} /\ KnowledgeNext /\ Rest(part) BY <1>6 DEF Rest, Alone, companionVars
<1>7. CASE part = "assistant" /\ AssistantNext /\ Rest("assistant") BY <1>7 DEF Rest, Alone, companionVars
<1>8. CASE part = "experiences" /\ ExperiencesNext /\ Rest("experiences")
  BY <1>8 DEF Rest, Alone, companionVars
<1>9. CASE part = "offers" /\ OffersNext /\ Rest("offers") BY <1>9 DEF Rest, Alone, companionVars
<1>10. CASE part = "notes" /\ NotesNext /\ Rest("notes") BY <1>10 DEF Rest, Alone, companionVars
<1>11. CASE part = "lists" /\ ListingsNext /\ Rest("lists") BY <1>11 DEF Rest, Alone, companionVars
<1>12. CASE part = "periods" /\ PeriodsNext /\ Rest("periods") BY <1>12 DEF Rest, Alone, companionVars
<1>13. QED
  BY <1>1, <1>2, <1>3, <1>4, <1>5, <1>6, <1>7, <1>8, <1>9, <1>10, <1>11, <1>12 DEF Step

LEMMA TravellersBegin == TravellersInit => TravellersInv
<1> SUFFICES ASSUME TravellersInit PROVE TravellersInv OBVIOUS
<1>1. PlanInv /\ (part = "invites" => PartyOfTwo) BY GuestBegins, PlanInit DEF TravellersInit
<1>2. ChatPart(part) BY PagesBegin, ChatStarts DEF TravellersInit, ChatPart
<1>3. KnowledgeInv /\ AssistantInv /\ ExperiencesInv
  BY KnowledgeStarts, AssistantStart, ExperiencesStart DEF TravellersInit
<1>4. OffersInv /\ NotesInv /\ ListingsInv /\ PeriodsInv
  BY OffersStart, NotesStart, ListingsStart, PeriodsStart DEF TravellersInit
<1>5. QED BY <1>1, <1>2, <1>3, <1>4 DEF TravellersInit, TravellersInv

LEMMA TravellersStep == TravellersInv /\ [Step]_everything => TravellersInv'
<1> SUFFICES ASSUME TravellersInv, [Step]_everything PROVE TravellersInv' OBVIOUS
<1>1. Alone BY EachAlone
<1>2. PlanInv' BY <1>1, PlanMovesKeep DEF Alone, TravellersInv
<1>3. (part = "invites" => PartyOfTwo)'
  <2>1. CASE part = "invites"
    <3>1. PlanInv /\ PartyOfTwo BY <2>1 DEF TravellersInv
    <3>2. CASE Guest!Next BY <3>1, <3>2, PartyKeeps
    <3>3. CASE UNCHANGED vars BY <3>1, <3>3 DEF vars, PartyOfTwo, Exists
    <3>4. QED BY <1>1, <2>1, <3>2, <3>3 DEF Alone
  <2>2. CASE part # "invites" BY <1>1, <2>2 DEF Alone
  <2>3. QED BY <2>1, <2>2
<1>4. ChatPart(part)'
  <2>1. part' = part BY <1>1 DEF Alone
  <2>2. CASE part = "page"
    <3>1. ChatInv({send1}, {uma}) BY <2>2 DEF TravellersInv, ChatPart
    <3>2. ChatMoves({send1}, {uma}) \/ UNCHANGED chatVars BY <1>1, <2>2 DEF Alone
    <3>3. ChatInv({send1}, {uma})' BY <3>1, <3>2, ChatMovesKeep
    <3>4. QED BY <2>1, <2>2, <3>3 DEF ChatPart
  <2>3. CASE part # "page"
    <3>1. ChatInv(Sends, Watchers) BY <2>3 DEF TravellersInv, ChatPart
    <3>2. ChatMoves(Sends, Watchers) \/ UNCHANGED chatVars BY <1>1, <2>3 DEF Alone
    <3>3. ChatInv(Sends, Watchers)' BY <3>1, <3>2, ChatMovesKeep
    <3>4. QED BY <2>1, <2>3, <3>3 DEF ChatPart
  <2>4. QED BY <2>2, <2>3
<1>5. KnowledgeInv' /\ AssistantInv' /\ ExperiencesInv'
  BY <1>1, KnowledgeKeeps, AssistantStep, ExperiencesStep DEF Alone, TravellersInv
<1>6. OffersInv' /\ NotesInv' BY <1>1, OffersStep, NotesStep DEF Alone, TravellersInv
<1>7. ListingsInv' /\ PeriodsInv' BY <1>1, ListingsStep, PeriodsStep DEF Alone, TravellersInv
<1>8. QED BY <1>1, <1>2, <1>3, <1>4, <1>5, <1>6, <1>7 DEF Alone, TravellersInv

LEMMA TravellersAlways == Travellers => []TravellersInv
BY TravellersBegin, TravellersStep, PTL DEF Travellers

\* Whichever component runs, every variable of it keeps its type.
THEOREM TravellersTyped == Travellers => []TravellersTypeOK
<1>1. TravellersInv => TravellersTypeOK
  <2> SUFFICES ASSUME TravellersInv PROVE TravellersTypeOK OBVIOUS
  <2>1. TypeOK /\ (part = "invites" => Guest!TypeOK) BY GuestTypes DEF TravellersInv, PlanInv
  <2>2. CASE part = "page"
    <3>1. Pages!ChatTypeOK BY <2>2, PagesTypes DEF TravellersInv, ChatPart
    <3>2. QED BY <2>2, <3>1 DEF TravellersTypeOK
  <2>3. CASE part # "page"
    <3>1. ChatTypeOK BY <2>3, ChatTypes DEF TravellersInv, ChatPart
    <3>2. KnowledgeTypeOK /\ AssistantTypeOK /\ ExperiencesTypeOK /\ OffersTypeOK
      BY DEF TravellersInv, KnowledgeInv, AssistantInv, ExperiencesInv, OffersInv
    <3>3. NotesTypeOK /\ ListingsTypeOK /\ PeriodsTypeOK
      BY DEF TravellersInv, NotesInv, ListingsInv, PeriodsInv
    <3>4. part \in {"plans", "invites", "chat", "page", "knowledge", "deciders", "assistant",
                    "experiences", "offers", "notes", "lists", "periods"}
      BY TravellersAssumption DEF TravellersInv
    <3>5. QED BY <2>1, <2>3, <3>1, <3>2, <3>3, <3>4 DEF TravellersTypeOK
  <2>4. QED BY <2>2, <2>3
<1>2. QED BY <1>1, TravellersAlways, PTL

\* Whichever component runs: seats suffice and a plan can be used, one message
\* is stored for a key, the assistant's stores hold what was reviewed, answers
\* and charges agree, places, offers, copies and pages are what was counted,
\* sold, made and listed, and paid time lasts.
THEOREM TravellersSound ==
  Travellers => [](/\ SeatsAreKept /\ PlanCanBeUsed /\ SentOnce
                   /\ KnowledgeIsReviewed /\ WorkIsOnItsWay /\ AnswersAreKept
                   /\ PlacesAreKept /\ SoldAsOffered /\ CopiesAreCounted
                   /\ PagesAreSound /\ PaidTimeIsKept)
<1>1. TravellersInv => SeatsAreKept /\ PlanCanBeUsed
  BY PlanIsUsable DEF TravellersInv, PlanInv
<1>2. TravellersInv => SentOnce BY DEF TravellersInv, ChatPart, ChatInv
<1>3. TravellersInv => KnowledgeIsReviewed /\ WorkIsOnItsWay /\ SoldAsOffered /\ CopiesAreCounted
  BY DEF TravellersInv, KnowledgeInv, OffersInv, NotesInv
<1>4. TravellersInv => AnswersAreKept /\ PlacesAreKept /\ PagesAreSound /\ PaidTimeIsKept
  BY AnswersFollow, PlacesFollow, PagesFollow, PeriodsFollow DEF TravellersInv
<1>5. QED BY <1>1, <1>2, <1>3, <1>4, TravellersAlways, PTL

\* Whichever component runs: opening a conversation clears the bell.
THEOREM TravellersBellGoesOut == Travellers => OpeningClears
<1>1. TravellersInv =>
        [\A u \in People : (\E cursor \in Stamps : ListMessages(u, cursor) /\ Visible(cursor) # {})
           => Unread(u)' = {} /\ GroupUnread(u)' = 0]_chatVars
  BY ReadingClears DEF TravellersInv, ChatPart, ChatInv, ChatTyped, Stamped
<1>2. QED BY <1>1, TravellersAlways, PTL DEF OpeningClears
=============================================================================
