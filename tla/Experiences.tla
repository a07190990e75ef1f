---------------------------- MODULE Experiences -----------------------------
(***************************************************************************)
(* A provider, one experience it offers, and the places of its sessions.   *)
(* Sources: providers/service.py, providers/models.py, providers/router.py,*)
(* admin/router.py.                                                        *)
(*                                                                         *)
(* Booking reads the session under a row lock.  The review of a provider,  *)
(* the edit of a session and the verification of a booking read their row  *)
(* without one and write later what they decided then: in between they are *)
(* in work.  A write changes only the columns that differ from the read.   *)
(***************************************************************************)
EXTENDS Integers, FiniteSets

CONSTANTS
  Sessions,
  Travelers,    \* users who book
  Editors,      \* requests of administrators and of the provider's staff
  MaxCapacity,  \* bound: places of a session
  MaxParty,     \* bound: travelers of a booking
  Vacant        \* no row, or no request in work

VARIABLES
  provider,   \* providers: status, and whether the applicant has the role
  experience, \* status of experience_services
  sessions,   \* experience_sessions
  bookings,   \* experience_bookings: bookings[s][u]
  reviewed,   \* bookings that have an experience_reviews row
  past,       \* sessions that have started
  editing     \* editing[e]: what a request read and will write

experienceVars == <<provider, experience, sessions, bookings, reviewed, past, editing>>

ProviderStatuses == {"none", "pending_review", "approved", "rejected"}

ExperienceStatuses == {"none", "draft", "published", "archived"}

SessionStatuses == {"scheduled", "cancelled", "completed"}

Parties == 1..MaxParty

Capacities == 1..MaxCapacity

SessionRows == [status : SessionStatuses, capacity : Capacities, reserved : 0..MaxCapacity]

BookingRows == [count : Parties, status : {"reserved", "verified"}]

\* uq_experience_reviews_booking: one review of a booking.
ReviewRows == Sessions \X Travelers

\* What an editor has read and will write; see Changes.
EditRequests ==
  [what : {"provider"}] \union [what : {"booking"}, of : Sessions, traveler : Travelers]
  \union [what : {"session"}, of : Sessions,
          set : [status : SessionStatuses \union {"kept"}, capacity : 0..MaxCapacity]]

ASSUME ExperiencesAssumption ==
  /\ IsFiniteSet(Travelers) /\ MaxCapacity \in Nat /\ MaxParty \in Nat
  /\ Vacant \notin SessionRows \union BookingRows \union EditRequests

ExperiencesTypeOK ==
  /\ provider \in [status : ProviderStatuses, staffed : BOOLEAN]
  /\ experience \in ExperienceStatuses
  /\ sessions \in [Sessions -> SessionRows \union {Vacant}]
  /\ bookings \in [Sessions -> [Travelers -> BookingRows \union {Vacant}]]
  /\ reviewed \subseteq ReviewRows /\ past \subseteq Sessions
  /\ editing \in [Editors -> EditRequests \union {Vacant}]

ExperiencesInit ==
  /\ provider = [status |-> "none", staffed |-> FALSE]
  /\ experience = "none"
  /\ sessions = [s \in Sessions |-> Vacant]
  /\ bookings = [s \in Sessions |-> [u \in Travelers |-> Vacant]]
  /\ reviewed = {} /\ past = {}
  /\ editing = [e \in Editors |-> Vacant]

----------------------------------------------------------------------------
ApplyProvider ==
  /\ provider.status = "none"
  /\ provider' = [provider EXCEPT !.status = "pending_review"]
  /\ UNCHANGED <<experience, sessions, bookings, reviewed, past, editing>>

Free(e) == editing[e] = Vacant

Works(e, what) == ~Free(e) /\ editing[e].what = what

Starts(e, request) == Free(e) /\ editing' = [editing EXCEPT ![e] = request]

Ends(e) == editing' = [editing EXCEPT ![e] = Vacant]

LoadProvider(e) ==
  /\ provider.status = "pending_review"
  /\ Starts(e, [what |-> "provider"])
  /\ UNCHANGED <<provider, experience, sessions, bookings, reviewed, past>>

\* Two administrators may have read the same pending application.  A second
\* row of the role violates its unique key, and the review is rolled back.
WriteDecision(e, status) ==
  /\ Works(e, "provider") /\ Ends(e)
  /\ provider' = IF status = "approved"
                 THEN [status |-> "approved", staffed |-> TRUE]
                 ELSE [provider EXCEPT !.status = "rejected"]
  /\ UNCHANGED <<experience, sessions, bookings, reviewed, past>>

InScope == provider.staffed

CreateExperience(status) ==
  /\ InScope /\ provider.status = "approved" /\ experience = "none"
  /\ experience' = status
  /\ UNCHANGED <<provider, sessions, bookings, reviewed, past, editing>>

UpdateExperience(status) ==
  /\ InScope /\ experience \notin {"none", status}
  /\ experience' = status
  /\ UNCHANGED <<provider, sessions, bookings, reviewed, past, editing>>

CreateSession(s, capacity) ==
  /\ InScope /\ experience # "none" /\ sessions[s] = Vacant
  /\ sessions' = [sessions EXCEPT ![s] = [status |-> "scheduled", capacity |-> capacity, reserved |-> 0]]
  /\ UNCHANGED <<provider, experience, bookings, reviewed, past, editing>>

SessionStarts(s) ==
  /\ sessions[s] # Vacant /\ s \notin past
  /\ past' = past \union {s}
  /\ UNCHANGED <<provider, experience, sessions, bookings, reviewed, editing>>

\* The columns a request changes, of those it may set.
Changes(row, status, capacity) ==
  [status |-> IF status = row.status THEN "kept" ELSE status,
   capacity |-> IF capacity = row.capacity THEN 0 ELSE capacity]

LoadSession(e, s, status, capacity) ==
  /\ InScope /\ sessions[s] # Vacant /\ s \notin past
  /\ capacity >= sessions[s].reserved
  /\ Starts(e, [what |-> "session", of |-> s, set |-> Changes(sessions[s], status, capacity)])
  /\ UNCHANGED <<provider, experience, sessions, bookings, reviewed, past>>

\* Mutant of Edited: the columns a request leaves out are written as well.
EditedWhole(row, set) == [row EXCEPT !.status = set.status, !.capacity = set.capacity]

Edited(row, set) ==
  [row EXCEPT !.status = IF set.status = "kept" THEN @ ELSE set.status,
              !.capacity = IF set.capacity = 0 THEN @ ELSE set.capacity]

\* Mutant of Holds: the table has no such constraint.
HoldsAny(row) == TRUE

\* ck_experience_sessions_reserved_count: the write fails when places were
\* booked that the new capacity does not have.
Holds(row) == row.reserved <= row.capacity

WriteSession(e) ==
  /\ Works(e, "session") /\ Ends(e)
  /\ LET row == Edited(sessions[editing[e].of], editing[e].set)
     IN sessions' = IF Holds(row) THEN [sessions EXCEPT ![editing[e].of] = row] ELSE sessions
  /\ UNCHANGED <<provider, experience, bookings, reviewed, past>>

----------------------------------------------------------------------------
HasPlaces(s, n) == sessions[s].capacity - sessions[s].reserved >= n

Book(u, s, n) ==
  /\ sessions[s] # Vacant /\ sessions[s].status = "scheduled"
  /\ bookings[s][u] = Vacant /\ HasPlaces(s, n)
  /\ sessions' = [sessions EXCEPT ![s].reserved = @ + n]
  /\ bookings' = [bookings EXCEPT ![s][u] = [count |-> n, status |-> "reserved"]]
  /\ UNCHANGED <<provider, experience, reviewed, past, editing>>

LoadBooking(e, s, u) ==
  /\ InScope /\ bookings[s][u] # Vacant /\ bookings[s][u].status = "reserved"
  /\ Starts(e, [what |-> "booking", of |-> s, traveler |-> u])
  /\ UNCHANGED <<provider, experience, sessions, bookings, reviewed, past>>

WriteVerified(e) ==
  /\ Works(e, "booking") /\ Ends(e)
  /\ bookings' = [bookings EXCEPT ![editing[e].of][editing[e].traveler].status = "verified"]
  /\ UNCHANGED <<provider, experience, sessions, reviewed, past>>

ReviewBooking(s, u) ==
  /\ bookings[s][u] # Vacant /\ bookings[s][u].status = "verified" /\ <<s, u>> \notin reviewed
  /\ reviewed' = reviewed \union {<<s, u>>}
  /\ UNCHANGED <<provider, experience, sessions, bookings, past, editing>>

\* Requests of the provider and of administrators.
Offering ==
  \/ ApplyProvider
  \/ \E e \in Editors : LoadProvider(e)
  \/ \E e \in Editors, status \in {"approved", "rejected"} : WriteDecision(e, status)
  \/ \E status \in {"draft", "published"} : CreateExperience(status)
  \/ \E status \in {"draft", "published", "archived"} : UpdateExperience(status)
  \/ \E s \in Sessions, n \in Capacities : CreateSession(s, n)
  \/ \E s \in Sessions : SessionStarts(s)
  \/ \E e \in Editors, s \in Sessions, status \in SessionStatuses, n \in Capacities :
       LoadSession(e, s, status, n)
  \/ \E e \in Editors : WriteSession(e)

\* Requests of travelers, and what they show at the session.
Attending ==
  \/ \E u \in Travelers, s \in Sessions, n \in Parties : Book(u, s, n)
  \/ \E e \in Editors, s \in Sessions, u \in Travelers : LoadBooking(e, s, u)
  \/ \E e \in Editors : WriteVerified(e)
  \/ \E s \in Sessions, u \in Travelers : ReviewBooking(s, u)

ExperiencesNext == Offering \/ Attending

ExperiencesSpec == ExperiencesInit /\ [][ExperiencesNext]_experienceVars

----------------------------------------------------------------------------
\* The places that the bookings of a session take.
Taken(s) == {place \in Travelers \X Parties :
  bookings[s][place[1]] # Vacant /\ place[2] <= bookings[s][place[1]].count}

\* However bookings, edits of the capacity, cancellations and verifications
\* overlap, a session has reserved exactly the travelers of its bookings, and
\* no more than its places; whoever reviewed a session was verified there.
PlacesAreKept ==
  /\ \A s \in Sessions : sessions[s] # Vacant =>
       /\ Cardinality(Taken(s)) = sessions[s].reserved
       /\ sessions[s].reserved <= sessions[s].capacity
  /\ \A r \in reviewed : bookings[r[1]][r[2]].status = "verified"
=============================================================================
