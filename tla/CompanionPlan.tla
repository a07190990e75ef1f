--------------------------- MODULE CompanionPlan ---------------------------
(***************************************************************************)
(* One companion plan: its applications and seats, the group conversation  *)
(* of its members, and the collaborators of the itinerary it publishes.    *)
(* Sources: community/service.py, chat/service.py, itineraries/service.py, *)
(* admin/router.py.                                                        *)
(*                                                                         *)
(* Applying, deciding, removing, leaving, updating, closing and completing *)
(* lock the plan row with their first or second statement and read the     *)
(* rest behind it, so each is one step.  Withdrawing an application, the   *)
(* review, leaving the conversation and every change of a collaborator     *)
(* take no lock: they read their row, and write the columns they changed   *)
(* later.  Each of those is a request with two steps.                      *)
(*                                                                         *)
(* A request that is refused changes nothing and is no step.               *)
(***************************************************************************)
EXTENDS Integers, FiniteSets

CONSTANTS
  Users,     \* travellers
  Hosts,     \* travellers who own an itinerary or publish an activity
  Sizes,     \* values of party_size
  Foes,      \* <<blocker, blocked>> pairs that may be blocked
  Invited,   \* users the owner of the itinerary may invite by himself
  Requests,  \* requests that hold what they read without a lock
  None       \* no such row

ASSUME CompanionAssumption ==
  /\ IsFiniteSet(Users) /\ Hosts \subseteq Users /\ None \notin Users
  /\ Sizes \subseteq 2..12
  /\ Foes \subseteq Users \X Users /\ Invited \subseteq Users

VARIABLES
  plan,          \* the companion_requests row, or None
  itinerary,     \* the owner of the itinerary, or None
  applications,  \* companion_applications: status by applicant
  members,       \* conversation_members of the group
  collaborators, \* trip_collaborators: role and status by user
  blocks,        \* user_blocks
  requests       \* what each unlocked request has read and means to write

rows == <<plan, itinerary, applications, members, collaborators, blocks>>
vars == <<plan, itinerary, applications, members, collaborators, blocks, requests>>

PlanStatuses == {"open", "full", "closed", "cancelled", "completed"}

Plans == [owner : Users, status : PlanStatuses,
          review : {"pending_review", "approved", "rejected"},
          size : Sizes, count : 1..12, group : BOOLEAN, linked : BOOLEAN]

ASSUME NoneIsNoPlan == None \notin Plans

ApplicationStatuses == {"none", "pending", "accepted", "rejected", "withdrawn"}

Collaborators == [role : {"viewer", "editor"}, status : {"none", "pending", "accepted", "revoked"}]

NoCollaborator == [role |-> "viewer", status |-> "none"]

Idle == [op |-> "idle"]

TypeOK ==
  /\ plan \in Plans \cup {None}
  /\ itinerary \in Users \cup {None}
  /\ applications \in [Users -> ApplicationStatuses]
  /\ members \in [Users -> {"none", "in", "left"}]
  /\ collaborators \in [Users -> Collaborators]
  /\ blocks \subseteq Foes
  /\ requests \in [Requests ->
       {Idle} \cup [op : {"withdraw", "quit", "join"}, user : Users]
              \cup [op : {"review"}, verdict : {"approved", "rejected"}]
              \cup [op : {"set"}, user : Users, seen : Collaborators, want : Collaborators]]

Init ==
  /\ plan = None
  /\ itinerary \in Hosts \cup {None}
  /\ applications = [u \in Users |-> "none"]
  /\ members = [u \in Users |-> "none"]
  /\ collaborators = [u \in Users |-> NoCollaborator]
  /\ blocks = {}
  /\ requests = [r \in Requests |-> Idle]

Exists == plan # None

\* A user who may publish the itinerary: its owner or an accepted editor.
CanEdit(u) ==
  \/ itinerary = u
  \/ itinerary # None /\ collaborators[u] = [role |-> "editor", status |-> "accepted"]

Accepted == {u \in Users : applications[u] = "accepted"}

Blocked(u, v) == <<u, v>> \in blocks \/ <<v, u>> \in blocks

----------------------------------------------------------------------------
(* Publishing *)

NewPlan(u, n) ==
  plan' = [owner |-> u, status |-> "open", review |-> "pending_review", size |-> n,
           count |-> 1, group |-> FALSE, linked |-> TRUE]

CreateFromItinerary(u) ==
  /\ ~Exists /\ CanEdit(u)
  /\ \E n \in Sizes : NewPlan(u, n)
  /\ UNCHANGED <<itinerary, applications, members, collaborators, blocks, requests>>

\* An activity brings a one-day itinerary of its own.
CreateActivity(u) ==
  /\ ~Exists /\ itinerary = None
  /\ itinerary' = u
  /\ \E n \in Sizes : NewPlan(u, n)
  /\ UNCHANGED <<applications, members, collaborators, blocks, requests>>

Protects(status) == status \in {"open", "full", "closed"}

\* The owner deletes the itinerary: plans keep their row without it, the
\* collaborators go.
DeleteItinerary ==
  /\ itinerary # None
  /\ Exists => ~Protects(plan.status)
  /\ itinerary' = None
  /\ plan' = IF Exists THEN [plan EXCEPT !.linked = FALSE] ELSE plan
  /\ collaborators' = [u \in Users |-> NoCollaborator]
  /\ UNCHANGED <<applications, members, blocks, requests>>

----------------------------------------------------------------------------
(* Seats *)

Recruiting ==
  /\ Exists
  /\ plan.count < plan.size
  /\ plan.review = "approved" /\ plan.status = "open"

Apply(u) ==
  /\ Recruiting
  /\ u # plan.owner
  /\ applications[u] \notin {"pending", "accepted"}
  /\ ~Blocked(u, plan.owner)
  /\ applications' = [applications EXCEPT ![u] = "pending"]
  /\ UNCHANGED <<plan, itinerary, members, collaborators, blocks, requests>>

\* The editor right of a member; the owner of the itinerary needs none.
GrantEditor(u) ==
  /\ plan.linked
  /\ collaborators' = IF itinerary = u THEN collaborators
                      ELSE [collaborators EXCEPT ![u] = [role |-> "editor", status |-> "accepted"]]

\* Mutant of JoinGroup: the owner is not let into the group he makes.
JoinAlone(u) == members' = [members EXCEPT ![u] = "in"]

\* The group is made for the first member; later the owner is let in again.
JoinGroup(u) == members' = [members EXCEPT ![plan.owner] = "in", ![u] = "in"]

TakeSeat ==
  plan' = [plan EXCEPT !.group = TRUE, !.count = @ + 1,
                       !.status = IF plan.count + 1 = plan.size THEN "full" ELSE @]

Accept(u) ==
  /\ Recruiting
  /\ applications[u] = "pending"
  /\ \A v \in Accepted \cup {plan.owner} : ~Blocked(u, v)
  /\ TakeSeat
  /\ JoinGroup(u)
  /\ GrantEditor(u)
  /\ applications' = [applications EXCEPT ![u] = "accepted"]
  /\ UNCHANGED <<itinerary, blocks, requests>>

Reject(u) ==
  /\ Exists /\ applications[u] = "pending"
  /\ applications' = [applications EXCEPT ![u] = "rejected"]
  /\ UNCHANGED <<plan, itinerary, members, collaborators, blocks, requests>>

FreeSeat ==
  plan' = [plan EXCEPT !.count = IF @ > 1 THEN @ - 1 ELSE 1,
                       !.status = IF @ = "full" THEN "open" ELSE @]

RevokeMember(u) ==
  /\ collaborators' = IF plan.linked /\ collaborators[u] # NoCollaborator
                      THEN [collaborators EXCEPT ![u].status = "revoked"] ELSE collaborators
  /\ members' = IF members[u] = "in" THEN [members EXCEPT ![u] = "left"] ELSE members
  /\ FreeSeat

RemoveMember(u) ==
  /\ Exists /\ u # plan.owner /\ applications[u] = "accepted"
  /\ RevokeMember(u)
  /\ applications' = [applications EXCEPT ![u] = "rejected"]
  /\ UNCHANGED <<itinerary, blocks, requests>>

LeavePlan(u) ==
  /\ Exists /\ u # plan.owner /\ applications[u] = "accepted"
  /\ RevokeMember(u)
  /\ applications' = [applications EXCEPT ![u] = "withdrawn"]
  /\ UNCHANGED <<itinerary, blocks, requests>>

----------------------------------------------------------------------------
(* The owner manages the plan *)

\* Mutant of Fits: the party may shrink below its members.
FitsAny(n) == TRUE

Fits(n) == n >= plan.count

UpdatePlan(n) ==
  /\ Exists /\ plan.status \notin {"cancelled", "completed"}
  /\ Fits(n)
  /\ plan' = [plan EXCEPT !.size = n,
                !.status = IF n = plan.count THEN "full"
                           ELSE IF plan.status = "full" /\ plan.review = "approved" THEN "open"
                           ELSE @]
  /\ UNCHANGED <<itinerary, applications, members, collaborators, blocks, requests>>

Reopens == plan.status = "closed" /\ plan.count < plan.size

Transition(target) ==
  /\ Exists /\ plan.review = "approved"
  /\ \/ target \in {"closed", "cancelled"} /\ plan.status = "open"
     \/ target = "open" /\ Reopens
  /\ plan' = [plan EXCEPT !.status = target]
  /\ UNCHANGED <<itinerary, applications, members, collaborators, blocks, requests>>

Complete ==
  /\ Exists /\ plan.review = "approved" /\ plan.status \notin {"cancelled", "completed"}
  /\ plan' = [plan EXCEPT !.status = "completed"]
  /\ collaborators' = [u \in Users |->
       IF plan.linked /\ u # plan.owner /\ collaborators[u].status = "accepted"
       THEN [collaborators[u] EXCEPT !.status = "revoked"] ELSE collaborators[u]]
  /\ UNCHANGED <<itinerary, applications, members, blocks, requests>>

Block(f) == f \notin blocks /\ blocks' = blocks \cup {f} /\ UNCHANGED <<plan, itinerary, applications, members, collaborators, requests>>

Unblock(f) == f \in blocks /\ blocks' = blocks \ {f} /\ UNCHANGED <<plan, itinerary, applications, members, collaborators, requests>>

----------------------------------------------------------------------------
(* Requests that read without a lock and write later *)

Begin(r, request) == requests[r] = Idle /\ requests' = [requests EXCEPT ![r] = request] /\ UNCHANGED rows

End(r) == requests' = [requests EXCEPT ![r] = Idle]

LoadApplication(r, u) == applications[u] = "pending" /\ Begin(r, [op |-> "withdraw", user |-> u])

WriteWithdrawn(r) ==
  /\ requests[r].op = "withdraw"
  /\ applications' = [applications EXCEPT ![requests[r].user] = "withdrawn"]
  /\ End(r)
  /\ UNCHANGED <<plan, itinerary, members, collaborators, blocks>>

LoadMember(r, u) == members[u] = "in" /\ Begin(r, [op |-> "quit", user |-> u])

WriteLeft(r) ==
  /\ requests[r].op = "quit"
  /\ members' = [members EXCEPT ![requests[r].user] = "left"]
  /\ End(r)
  /\ UNCHANGED <<plan, itinerary, applications, collaborators, blocks>>

Reviewable == Exists /\ plan.review = "pending_review"

LoadReview(r, verdict) == Reviewable /\ Begin(r, [op |-> "review", verdict |-> verdict])

\* A refusal also cancels, whatever the plan has become since.
Reviewed(verdict) ==
  [plan EXCEPT !.review = verdict, !.status = IF verdict = "rejected" THEN "cancelled" ELSE @]

WriteReview(r) ==
  /\ requests[r].op = "review"
  /\ plan' = Reviewed(requests[r].verdict)
  /\ End(r)
  /\ UNCHANGED <<itinerary, applications, members, collaborators, blocks>>

\* accept_collaborator: the invited user takes the invitation.
LoadInvitation(r, u) ==
  itinerary # None /\ collaborators[u].status = "pending" /\ Begin(r, [op |-> "join", user |-> u])

WriteJoined(r) ==
  /\ requests[r].op = "join"
  /\ collaborators' = LET who == requests[r].user IN
       IF collaborators[who] = NoCollaborator THEN collaborators
       ELSE [collaborators EXCEPT ![who].status = "accepted"]
  /\ End(r)
  /\ UNCHANGED <<plan, itinerary, applications, members, blocks>>

\* invite_collaborator makes the row or returns it to pending.
LoadInvite(r, u, role) ==
  /\ itinerary \notin {None, u}
  /\ Begin(r, [op |-> "set", user |-> u, seen |-> collaborators[u],
               want |-> [role |-> role, status |-> "pending"]])

\* update_collaborator sets the role, the status or both.
LoadCollaborator(r, u, role, status) ==
  /\ itinerary # None /\ collaborators[u] # NoCollaborator
  /\ Begin(r, [op |-> "set", user |-> u, seen |-> collaborators[u],
               want |-> [role |-> role, status |-> status]])

\* The columns that differ from what was read are written; an insert fails on
\* the unique key, an update on a row that is gone.
Merged(seen, want, now) ==
  IF (seen = NoCollaborator) # (now = NoCollaborator) THEN now
  ELSE IF seen = NoCollaborator THEN want
  ELSE [role |-> IF want.role # seen.role THEN want.role ELSE now.role,
        status |-> IF want.status # seen.status THEN want.status ELSE now.status]

WriteCollaborator(r) ==
  /\ requests[r].op = "set"
  /\ collaborators' = LET q == requests[r] IN
       IF itinerary = None THEN collaborators
       ELSE [collaborators EXCEPT ![q.user] = Merged(q.seen, q.want, @)]
  /\ End(r)
  /\ UNCHANGED <<plan, itinerary, applications, members, blocks>>

----------------------------------------------------------------------------
(* What the pages show *)

\* The plan is in the public list, optionally only with seats to offer.
Listed(hasSlots) ==
  /\ Exists /\ plan.review = "approved" /\ plan.status = "open"
  /\ hasSlots => plan.count < plan.size

IsMember(u) == u = plan.owner \/ applications[u] = "accepted"

\* The detail page: nothing, the public summary, or the protected itinerary and
\* the group for members.
Detail(u) ==
  IF ~Exists THEN "none"
  ELSE IF IsMember(u) THEN "member"
  ELSE IF plan.review = "approved" /\ plan.status = "open" THEN "public" ELSE "none"

\* The companion panel of the itinerary, for those who may edit it: their role.
Workspace(u) ==
  IF ~(Exists /\ CanEdit(u) /\ plan.linked /\ Protects(plan.status)) THEN "none"
  ELSE IF plan.owner = u THEN "owner"
  ELSE IF applications[u] = "accepted" THEN "member" ELSE "collaborator"

\* Both pages link the group for these users.
GroupShown(u) ==
  Exists /\ plan.group /\ (Detail(u) = "member" \/ Workspace(u) \in {"owner", "member"})

----------------------------------------------------------------------------
Publishing == (\E u \in Users : CreateFromItinerary(u)) \/ (\E u \in Hosts : CreateActivity(u)) \/ DeleteItinerary

Seats == \E u \in Users : Apply(u) \/ Accept(u) \/ Reject(u) \/ RemoveMember(u) \/ LeavePlan(u)

Managing ==
  \/ \E n \in Sizes : UpdatePlan(n)
  \/ \E target \in {"open", "closed", "cancelled"} : Transition(target)
  \/ Complete
  \/ \E f \in Foes : Block(f) \/ Unblock(f)

Loads == \E r \in Requests :
  \/ \E verdict \in {"approved", "rejected"} : LoadReview(r, verdict)
  \/ \E u \in Users :
       \/ LoadApplication(r, u) \/ LoadMember(r, u) \/ LoadInvitation(r, u)
  \/ \E u \in Invited, role \in {"viewer", "editor"} :
       \/ LoadInvite(r, u, role)
       \/ \E status \in {"pending", "revoked", collaborators[u].status} :
            LoadCollaborator(r, u, role, status)

Writes == \E r \in Requests :
  WriteWithdrawn(r) \/ WriteLeft(r) \/ WriteReview(r) \/ WriteJoined(r) \/ WriteCollaborator(r)

Next == Publishing \/ Seats \/ Managing \/ Loads \/ Writes

Spec == Init /\ [][Next]_vars

----------------------------------------------------------------------------
\* The seats always suffice: whatever applicants, owner and administrators do
\* at once, the accepted members and the owner are counted, the count stays
\* within the party, a plan is full exactly when its last seat is taken, and
\* an open plan has a seat to offer (accept, remove, leave, update, withdraw).
SeatsAreKept ==
  Exists =>
    /\ 1 + Cardinality(Accepted) =< plan.count
    /\ plan.count =< plan.size
    /\ plan.status = "full" => plan.count = plan.size
    /\ plan.status = "open" => plan.count < plan.size

\* A plan that may still have members work on its itinerary keeps it, so that
\* acceptance can always grant the editor right (delete_itinerary against the
\* review, transitions and completion of the plan), and what the pages show can
\* be used: a listed plan has a seat, also when the reader did not ask for one,
\* and whoever is shown the group conversation has a place in it, although
\* applications, members and the plan are changed by different requests
\* (list_public_companion_plans, get_itinerary_companion_workspace).
PlanCanBeUsed ==
  /\ Exists /\ Protects(plan.status) => plan.linked /\ itinerary # None
  /\ Listed(FALSE) => Listed(TRUE)
  /\ \A u \in Users : GroupShown(u) => members[u] # "none"
=============================================================================
