------------------------- MODULE ItineraryVersions -------------------------
(***************************************************************************)
(* One itinerary: its days and stops, the versioned operations of its      *)
(* owner and editors, restoring, applying AI previews, deleting, and the   *)
(* route calculations the worker makes beside them.  Source:               *)
(* itineraries/service.py.                                                 *)
(*                                                                         *)
(* An operation locks the itinerary row with its first statement and holds *)
(* it to the commit, so it is one step.  The worker takes no lock: it      *)
(* reads the day, asks the map service, and writes what it planned.        *)
(*                                                                         *)
(* A day has the id <<version that made it, date>> and a stop is known in  *)
(* its day by the version that made it and its place then; rows that a     *)
(* restore or a preview writes are new rows.  display_order of stops is    *)
(* their place in a sequence.  A request that is refused (FORBIDDEN, an    *)
(* operation id that is recorded, VERSION_CONFLICT, NOT_FOUND,             *)
(* MAP_UNAVAILABLE, PREVIEW_INVALID) changes nothing and is no step.       *)
(***************************************************************************)
EXTENDS Integers, Sequences, FiniteSets, SequencesExt

CONSTANTS
  Dates,      \* calendar dates, as integers
  Ranges,     \* <<start_date, end_date>> an itinerary may be created with
  Pois,       \* verified points of interest
  Drafts,     \* stops a preview may have on a date
  Operations, \* values of X-Operation-ID
  Workers,    \* worker tasks
  MaxVersion, \* bound on versions
  MaxStops,   \* bound on the stops an operation adds to a day
  MaxCrashes  \* bound on worker crashes

ASSUME ItineraryAssumption ==
  /\ Dates \subseteq Int /\ IsFiniteSet(Dates)
  /\ \A r \in Ranges : r[1] \in Dates /\ r[2] \in Dates /\ r[1] =< r[2]
  /\ \A d \in Dates, e \in Dates : d..e \subseteq Dates
  /\ Drafts \subseteq Seq(Pois)
  /\ MaxVersion \in Nat \ {0} /\ MaxStops \in Nat /\ MaxCrashes \in Nat

VARIABLES
  version,    \* the version column; 0 once the itinerary is deleted
  plan,       \* title, date range, days, stops and route segments
  versions,   \* itinerary_versions: snapshot of each version
  operations, \* trip_operations: base and result version of each operation id
  previews,   \* previews generated for the itinerary
  jobs,       \* route_calculation_jobs rows
  tasks,      \* route calculation events not yet processed, by job
  worker,     \* what each worker task has read
  crashes     \* worker crashes so far

editVars == <<version, plan, versions, operations, jobs>>
workerVars == <<worker, crashes>>
vars == <<version, plan, versions, operations, previews, jobs, tasks, worker, crashes>>

Versions == 1..MaxVersion

NoBase == 0

Stops == [born : Versions, at : Nat, poi : Pois, note : {"none", "text"}]

Days == [born : Versions, order : Nat, events : Seq(Stops), route : Seq(Pois)]

IsPlan(p) ==
  /\ p = [title |-> p.title, from |-> p.from, to |-> p.to, days |-> p.days]
  /\ p.title \in {"own", "preview"} /\ p.from \in Dates /\ p.to \in Dates
  /\ p.days = [d \in DOMAIN p.days |-> p.days[d]] /\ DOMAIN p.days \subseteq Dates
  /\ \A d \in DOMAIN p.days : p.days[d] \in Days

IsPreview(p) ==
  /\ p = [base |-> p.base, from |-> p.from, to |-> p.to, draft |-> p.draft]
  /\ p.base \in 0..MaxVersion /\ p.from \in Dates /\ p.to \in Dates
  /\ p.draft \in [p.from..p.to -> Drafts]

NoPlan == [title |-> "none", days |-> <<>>]

Unused == [base |-> 0, result |-> 0, preview |-> {}]

JobIds == Versions \X Dates

Ids(events) == [i \in DOMAIN events |-> <<events[i].born, events[i].at>>]

EventIds == Seq(Versions \X Nat)

JobRows == [id : JobIds, born : Versions, events : EventIds,
            status : {"queued", "completed", "failed"}]

Idle == [at |-> "idle"]
Calculations == [at : {"calculating"}, row : JobRows, events : Seq(Stops)]

Exists == version # 0

TypeOK ==
  /\ version \in 0..MaxVersion
  /\ plan = NoPlan \/ IsPlan(plan)
  /\ DOMAIN versions \subseteq Versions /\ \A v \in DOMAIN versions : IsPlan(versions[v])
  /\ \A o \in Operations :
       /\ operations[o].base \in 0..MaxVersion /\ operations[o].result \in 0..MaxVersion
       /\ \A p \in operations[o].preview : IsPreview(p)
  /\ \A p \in previews : IsPreview(p)
  /\ jobs \subseteq JobRows
  /\ tasks \subseteq JobIds
  /\ worker \in [Workers -> Calculations \cup {Idle}]
  /\ crashes \in 0..MaxCrashes

\* A day row without stops, and a stop a person adds.
NewDay(v, order, events) == [born |-> v, order |-> order, events |-> events, route |-> <<>>]

NewStop(v, i, poi) == [born |-> v, at |-> i, poi |-> poi, note |-> "none"]

\* create_itinerary makes no days, create_manual_plan one for each date, and a
\* generation job without a target an itinerary that its preview will fill.
Created(r, days) ==
  /\ plan = [title |-> "own", from |-> r[1], to |-> r[2], days |-> days]
  /\ version = 1
  /\ versions = <<plan>>

DraftsFor(r, base) ==
  [base : {base}, from : {r[1]}, to : {r[2]}, draft : [r[1]..r[2] -> Drafts]]

Init ==
  /\ \E r \in Ranges :
       \/ Created(r, <<>>) /\ previews = {}
       \/ Created(r, [d \in r[1]..r[2] |-> NewDay(1, d - r[1], <<>>)]) /\ previews = {}
       \/ Created(r, <<>>) /\ \E p \in DraftsFor(r, NoBase) : previews = {p}
  /\ operations = [o \in Operations |-> Unused]
  /\ jobs = {} /\ tasks = {}
  /\ worker = [w \in Workers |-> Idle]
  /\ crashes = 0

(***************************************************************************)
(* The frame of every operation                                            *)
(***************************************************************************)

\* Mutant of BaseMatches: the If-Match-Version header is not compared.
AnyBase(b) == b \in Versions

BaseMatches(b) == b = version

\* _record_version: the snapshot under the new version number.
Recorded(v, after) == versions \o <<after>>

\* An operation o on version b that leaves the plan `after`, and the rows `rows`
\* of route_calculation_jobs; p is the preview it applies, if it applies one.
Apply(o, b, after, rows, p) ==
  /\ Exists /\ operations[o] = Unused /\ BaseMatches(b)
  /\ version < MaxVersion
  /\ version' = version + 1
  /\ plan' = after
  /\ versions' = Recorded(version + 1, after)
  /\ operations' = [operations EXCEPT ![o] = [base |-> b, result |-> version + 1, preview |-> p]]
  /\ jobs' = rows
  /\ UNCHANGED <<previews, workerVars>>

\* The jobs left when a day row is deleted, by hand or by the foreign key.
WithoutDay(d) == {j \in jobs : j.id[2] # d}

\* A calculation asked for in this operation, for the stops it leaves on d.
NewJob(d, day) ==
  [id |-> <<version + 1, d>>, born |-> day.born, events |-> Ids(day.events), status |-> "queued"]

SetDay(d, day) == [plan EXCEPT !.days[d] = day]

(***************************************************************************)
(* _mutate                                                                 *)
(***************************************************************************)

NextOrder == IF DOMAIN plan.days = {} THEN 0 ELSE 1 + Max({plan.days[d].order : d \in DOMAIN plan.days})

AddDay(o, b, d) ==
  /\ Exists /\ d \notin DOMAIN plan.days
  /\ Apply(o, b,
       [plan EXCEPT !.from = Min({@, d}), !.to = Max({@, d}),
          !.days = [e \in DOMAIN plan.days \cup {d} |->
                      IF e = d THEN NewDay(version + 1, NextOrder, <<>>) ELSE plan.days[e]]],
       jobs, {})
  /\ UNCHANGED tasks

\* The remaining days are numbered from 0 in the order of their dates.
Renumbered(left, d) == Cardinality({e \in left : e < d})

RemoveDay(o, b, d) ==
  /\ Exists /\ d \in DOMAIN plan.days
  /\ LET left == DOMAIN plan.days \ {d} IN
     Apply(o, b,
       [plan EXCEPT !.from = IF left = {} THEN @ ELSE Min(left),
          !.to = IF left = {} THEN @ ELSE Max(left),
          !.days = [e \in left |-> [plan.days[e] EXCEPT !.order = Renumbered(left, e)]]],
       WithoutDay(d), {})
  /\ UNCHANGED tasks

AddEvent(o, b, d, poi) ==
  /\ Exists /\ d \in DOMAIN plan.days
  /\ LET day == plan.days[d]
         n == Len(day.events) + 1 IN
     /\ n =< MaxStops
     /\ Apply(o, b, SetDay(d, [day EXCEPT !.events = Append(@, NewStop(version + 1, n, poi)),
                                 !.route = <<>>]), jobs, {})
  /\ UNCHANGED tasks

RemoveEvent(o, b, d, i) ==
  /\ Exists /\ d \in DOMAIN plan.days /\ i \in DOMAIN plan.days[d].events
  /\ Apply(o, b, SetDay(d, [plan.days[d] EXCEPT !.events = RemoveAt(@, i), !.route = <<>>]), jobs, {})
  /\ UNCHANGED tasks

\* Notes and times; the route stays.
UpdateEvent(o, b, d, i, note) ==
  /\ Exists /\ d \in DOMAIN plan.days /\ i \in DOMAIN plan.days[d].events
  /\ Apply(o, b, SetDay(d, [plan.days[d] EXCEPT !.events[i].note = note]), jobs, {})
  /\ UNCHANGED tasks

\* Beyond the first or last place nothing moves, but the operation is recorded.
ReorderEvent(o, b, d, i, j) ==
  /\ Exists /\ d \in DOMAIN plan.days /\ i \in DOMAIN plan.days[d].events
  /\ j \in {i - 1, i + 1}
  /\ LET day == plan.days[d] IN
     Apply(o, b,
       IF j \in DOMAIN day.events
       THEN SetDay(d, [day EXCEPT !.events = [@ EXCEPT ![i] = day.events[j], ![j] = day.events[i]],
                         !.route = <<>>])
       ELSE plan, jobs, {})
  /\ UNCHANGED tasks

RecalculateRoute(o, b, d) ==
  /\ Exists /\ d \in DOMAIN plan.days
  /\ Apply(o, b, plan, jobs \cup {NewJob(d, plan.days[d])}, {})
  /\ tasks' = tasks \cup {<<version + 1, d>>}

\* Days and stops are new rows; segments are stored again; the range stays.
RestoreVersion(o, b, v) ==
  /\ Exists /\ v \in DOMAIN versions
  /\ LET source == versions[v] IN
     Apply(o, b,
       [plan EXCEPT !.title = source.title,
          !.days = [d \in DOMAIN source.days |->
            [source.days[d] EXCEPT !.born = version + 1,
               !.events = [i \in DOMAIN @ |-> [@[i] EXCEPT !.born = version + 1, !.at = i]]]]],
       {}, {})
  /\ UNCHANGED tasks

(***************************************************************************)
(* Previews.  A generation job reads version and snapshot of its target;   *)
(* its draft has one entry for each date of the range it read.             *)
(***************************************************************************)

Generate ==
  /\ Exists /\ previews = {}
  /\ \E d \in DOMAIN plan.days : plan.days[d].events # <<>>
  /\ \E p \in DraftsFor(<<plan.from, plan.to>>, version) : previews' = {p}
  /\ UNCHANGED <<editVars, tasks, workerVars>>

\* Mutant of SeenByPreview: the preview's own base_version is not compared.
BaseIgnored(p) == TRUE

SeenByPreview(p) == p.base = NoBase \/ p.base = version

\* The stops of a draft, each noted with its title.
Activities(v, stops) == [i \in DOMAIN stops |-> [NewStop(v, i, stops[i]) EXCEPT !.note = "text"]]

ApplyPreview(o, b, p) ==
  /\ Exists /\ p \in previews
  /\ SeenByPreview(p)
  /\ p.from = plan.from /\ p.to = plan.to
  /\ LET days == [d \in p.from..p.to |->
                    NewDay(version + 1, d - p.from, Activities(version + 1, p.draft[d]))]
         asked == {d \in DOMAIN days : days[d].events # <<>>} IN
     /\ Apply(o, b, [plan EXCEPT !.title = "preview", !.days = days],
          {NewJob(d, days[d]) : d \in asked}, {p})
     /\ tasks' = tasks \cup {<<version + 1, d>> : d \in asked}

\* delete_itinerary, when no open companion plan protects it; outbox rows stay.
Delete ==
  /\ Exists
  /\ version' = 0 /\ plan' = NoPlan /\ versions' = <<>>
  /\ operations' = [o \in Operations |-> Unused]
  /\ jobs' = {}
  /\ UNCHANGED <<previews, tasks, workerVars>>

(***************************************************************************)
(* process_route_calculation, in the worker's transaction                  *)
(***************************************************************************)

\* Mutant of Vanished: a job that is gone is an error, and delivered again.
NeverVanished(k) == FALSE

Vanished(k) == \A j \in jobs : j.id # k

Free(k) == \A w \in Workers : worker[w] # Idle => worker[w].row.id # k

\* Reads job and day; a job's day exists, its row would be gone with the day.
Load(w, k) ==
  /\ k \in tasks /\ Free(k) /\ worker[w] = Idle
  /\ \E j \in jobs :
       /\ j.id = k
       /\ worker' = [worker EXCEPT ![w] =
            [at |-> "calculating", row |-> j, events |-> plan.days[k[2]].events]]
  /\ UNCHANGED <<editVars, previews, tasks, crashes>>

Skip(w, k) ==
  /\ k \in tasks /\ Free(k) /\ worker[w] = Idle
  /\ Vanished(k)
  /\ tasks' = tasks \ {k}
  /\ UNCHANGED <<editVars, previews, workerVars>>

\* Updating a deleted job raises, and so does inserting segments of a deleted day.
\* Once the worker holds the job row, a request that deletes the day waits for it
\* or one of the two is rolled back as a deadlock victim: the orders are those of
\* Finish before the request and of Raise after it.
RowExists(row) == row \in jobs

Finish(w, status, after) ==
  LET row == worker[w].row IN
  /\ RowExists(row)
  /\ plan' = after
  /\ jobs' = (jobs \ {row}) \cup {[row EXCEPT !.status = status]}
  /\ tasks' = tasks \ {row.id}
  /\ worker' = [worker EXCEPT ![w] = Idle]
  /\ UNCHANGED <<version, versions, operations, previews, crashes>>

Stale(row, events) == Ids(events) # row.events

\* The route along the stops; one stop has none.
Along(events) == IF Len(events) < 2 THEN <<>> ELSE [i \in DOMAIN events |-> events[i].poi]

Complete(w) ==
  /\ worker[w] # Idle
  /\ LET row == worker[w].row IN
     /\ ~Stale(row, worker[w].events)
     /\ Finish(w, "completed",
          IF row \in jobs THEN SetDay(row.id[2], [plan.days[row.id[2]] EXCEPT !.route = Along(worker[w].events)])
          ELSE plan)

\* The stops are not those of the request, or the map service does not answer.
Fail(w) ==
  /\ worker[w] # Idle
  /\ Stale(worker[w].row, worker[w].events) \/ Len(worker[w].events) >= 2
  /\ Finish(w, "failed", plan)

\* The error makes the broker deliver the event again.
Raise(w) ==
  /\ worker[w] # Idle /\ ~RowExists(worker[w].row)
  /\ worker' = [worker EXCEPT ![w] = Idle]
  /\ UNCHANGED <<editVars, previews, tasks, crashes>>

Crash(w) ==
  /\ worker[w] # Idle /\ crashes < MaxCrashes
  /\ crashes' = crashes + 1
  /\ worker' = [worker EXCEPT ![w] = Idle]
  /\ UNCHANGED <<editVars, previews, tasks>>

(***************************************************************************)
(* The specification                                                       *)
(***************************************************************************)

EditDay(o, b, d) ==
  \/ AddDay(o, b, d) \/ RemoveDay(o, b, d) \/ RecalculateRoute(o, b, d)
  \/ \E poi \in Pois : AddEvent(o, b, d, poi)

EditStop(o, b, d, i) ==
  \/ RemoveEvent(o, b, d, i)
  \/ \E note \in {"none", "text"} : UpdateEvent(o, b, d, i, note)
  \/ \E j \in 0..(MaxStops + 1) : ReorderEvent(o, b, d, i, j)

Edit ==
  \E o \in Operations, b \in Versions :
    \/ \E d \in Dates : EditDay(o, b, d) \/ \E i \in 1..MaxStops : EditStop(o, b, d, i)
    \/ \E v \in Versions : RestoreVersion(o, b, v)
    \/ \E p \in previews : ApplyPreview(o, b, p)

Settle(w) == Complete(w) \/ Fail(w) \/ Raise(w)

WorkerStep == \E w \in Workers : Settle(w) \/ Crash(w) \/ \E k \in tasks : Load(w, k) \/ Skip(w, k)

Next == Edit \/ Generate \/ Delete \/ WorkerStep

Spec == Init /\ [][Next]_vars

\* The broker delivers every event until it is processed; a worker goes on.
FairSpec ==
  /\ Spec
  /\ \A k \in JobIds : WF_vars(\E w \in Workers : Load(w, k) \/ Skip(w, k))
  /\ \A w \in Workers : WF_vars(Settle(w))

(***************************************************************************)
(* Properties                                                              *)
(***************************************************************************)

\* What a version must keep of the plan: routes come later and are not versioned.
Content(p) == [p EXCEPT !.days = [d \in DOMAIN p.days |-> [p.days[d] EXCEPT !.route = <<>>]]]

\* Whatever edits, restores and calculations were made, every version up to the
\* current one is recorded, and the current record is the itinerary as it is.
CurrentIsRecorded ==
  Exists => /\ DOMAIN versions = 1..version
            /\ Content(versions[version]) = Content(plan)

\* Every version but the first was made by exactly one operation, on the version
\* before it: no edit is lost, applied twice, or made over one its author had
\* not seen.
OperationsMakeVersions ==
  LET applied == {o \in Operations : operations[o] # Unused} IN
  Exists => /\ \A o \in applied : operations[o].result = operations[o].base + 1
            /\ {operations[o].result : o \in applied} = 2..version
            /\ Cardinality(applied) = version - 1

\* Versions, operations and the plan tell one history.
VersionsAreRecorded == CurrentIsRecorded /\ OperationsMakeVersions

\* A preview generated from a version replaces that version only.
PreviewOnItsBase ==
  \A o \in Operations : \A p \in operations[o].preview :
    p.base # NoBase => p.base = operations[o].base

\* display_order of the days runs from 0 without gaps.
OrdersAreContiguous ==
  Exists => {plan.days[d].order : d \in DOMAIN plan.days} = 0..(Cardinality(DOMAIN plan.days) - 1)

\* What is recorded is of its type, for the version it was meant for, and in order.
VersionsAreUsable == TypeOK /\ PreviewOnItsBase /\ OrdersAreContiguous

\* Every calculation asked for ends: completed, failed, or gone with its day.
RouteSettles == \A k \in JobIds : k \in tasks ~> k \notin tasks
=============================================================================
