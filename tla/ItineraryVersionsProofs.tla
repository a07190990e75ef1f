----------------------- MODULE ItineraryVersionsProofs -----------------------
(***************************************************************************)
(* For any dates, places, operations, workers and bounds: every version is *)
(* recorded as the itinerary was, and made by exactly one operation; what  *)
(* is recorded is of its type, and days are numbered without gaps.         *)
(***************************************************************************)
EXTENDS ItineraryVersions, SequenceTheorems, FiniteSetTheorems, TLAPS

(***************************************************************************)
(* What a step may do to the itinerary and its history: one versioned      *)
(* operation, a new route on a day, the deletion, or nothing.              *)
(***************************************************************************)

Applied ==
  /\ \E o \in Operations : \E b, after, rows, p : Apply(o, b, after, rows, p)
  /\ DOMAIN plan' = DOMAIN plan

Rerouted ==
  /\ \E d, r : plan' = SetDay(d, [plan.days[d] EXCEPT !.route = r])
  /\ UNCHANGED <<version, versions, operations>>

Quiet == UNCHANGED <<version, plan, versions, operations>>

LEMMA EditDayApplies ==
  ASSUME NEW o \in Operations, NEW b, NEW d, EditDay(o, b, d)
  PROVE  Applied
<1>1. CASE AddDay(o, b, d)
  <2>1. \E after, rows, p : Apply(o, b, after, rows, p) BY <1>1 DEF AddDay
  <2>2. DOMAIN plan' = DOMAIN plan BY <1>1 DEF AddDay, Apply
  <2>3. QED BY <2>1, <2>2 DEF Applied
<1>2. CASE RemoveDay(o, b, d)
  <2>1. \E after, rows, p : Apply(o, b, after, rows, p) BY <1>2 DEF RemoveDay
  <2>2. DOMAIN plan' = DOMAIN plan BY <1>2 DEF RemoveDay, Apply
  <2>3. QED BY <2>1, <2>2 DEF Applied
<1>3. CASE RecalculateRoute(o, b, d) BY <1>3 DEF RecalculateRoute, Apply, Applied
<1>4. CASE \E poi \in Pois : AddEvent(o, b, d, poi) BY <1>4 DEF AddEvent, SetDay, Apply, Applied
<1>5. QED BY <1>1, <1>2, <1>3, <1>4 DEF EditDay

LEMMA EditStopApplies ==
  ASSUME NEW o \in Operations, NEW b, NEW d, NEW i, EditStop(o, b, d, i)
  PROVE  Applied
<1>1. CASE RemoveEvent(o, b, d, i) BY <1>1 DEF RemoveEvent, SetDay, Apply, Applied
<1>2. CASE \E note \in {"none", "text"} : UpdateEvent(o, b, d, i, note)
  BY <1>2 DEF UpdateEvent, SetDay, Apply, Applied
<1>3. CASE \E j \in 0..(MaxStops + 1) : ReorderEvent(o, b, d, i, j)
  <2>1. PICK j : ReorderEvent(o, b, d, i, j) BY <1>3
  <2>2. CASE j \in DOMAIN plan.days[d].events BY <2>1, <2>2 DEF ReorderEvent, SetDay, Apply, Applied
  <2>3. CASE j \notin DOMAIN plan.days[d].events BY <2>1, <2>3 DEF ReorderEvent, Apply, Applied
  <2>4. QED BY <2>2, <2>3
<1>4. QED BY <1>1, <1>2, <1>3 DEF EditStop

LEMMA EditApplies == ASSUME Edit PROVE Applied
<1>1. PICK o \in Operations, b \in Versions :
        \/ \E d \in Dates : EditDay(o, b, d) \/ \E i \in 1..MaxStops : EditStop(o, b, d, i)
        \/ \E v \in Versions : RestoreVersion(o, b, v)
        \/ \E p \in previews : ApplyPreview(o, b, p)
  BY DEF Edit
<1>2. CASE \E d \in Dates : EditDay(o, b, d) \/ \E i \in 1..MaxStops : EditStop(o, b, d, i)
  BY <1>2, EditDayApplies, EditStopApplies
<1>3. ASSUME NEW v, RestoreVersion(o, b, v) PROVE Applied
  <2>1. \E after, rows, p : Apply(o, b, after, rows, p) BY <1>3 DEF RestoreVersion
  <2>2. DOMAIN plan' = DOMAIN plan BY <1>3 DEF RestoreVersion, Apply
  <2>3. QED BY <2>1, <2>2 DEF Applied
<1>4. ASSUME NEW p, ApplyPreview(o, b, p) PROVE Applied
  <2>1. \E after, rows, q : Apply(o, b, after, rows, q) BY <1>4 DEF ApplyPreview
  <2>2. DOMAIN plan' = DOMAIN plan BY <1>4 DEF ApplyPreview, Apply
  <2>3. QED BY <2>1, <2>2 DEF Applied
<1>5. QED BY <1>1, <1>2, <1>3, <1>4

LEMMA WorkerMoves == ASSUME WorkerStep PROVE Rerouted \/ Quiet
<1>1. PICK w \in Workers : Settle(w) \/ Crash(w) \/ \E k \in tasks : Load(w, k) \/ Skip(w, k)
  BY DEF WorkerStep
<1>2. CASE Complete(w) BY <1>2 DEF Complete, Finish, RowExists, Rerouted
<1>3. CASE Fail(w) BY <1>3 DEF Fail, Finish, Quiet
<1>4. CASE Raise(w) BY <1>4 DEF Raise, editVars, Quiet
<1>5. CASE Crash(w) BY <1>5 DEF Crash, editVars, Quiet
<1>6. CASE \E k \in tasks : Load(w, k) \/ Skip(w, k) BY <1>6 DEF Load, Skip, editVars, Quiet
<1>7. QED BY <1>1, <1>2, <1>3, <1>4, <1>5, <1>6 DEF Settle

LEMMA StepKinds == ASSUME [Next]_vars PROVE Applied \/ Rerouted \/ Delete \/ Quiet
<1>1. CASE Edit BY <1>1, EditApplies
<1>2. CASE Generate BY <1>2 DEF Generate, editVars, Quiet
<1>3. CASE Delete BY <1>3
<1>4. CASE WorkerStep BY <1>4, WorkerMoves
<1>5. CASE UNCHANGED vars BY <1>5 DEF vars, Quiet
<1>6. QED BY <1>1, <1>2, <1>3, <1>4, <1>5 DEF Next

(***************************************************************************)
(* Every version is recorded.  The history is a sequence, so that the      *)
(* record of a new version gets its number; and the plan keeps its fields, *)
(* so that a new route changes nothing else.                               *)
(***************************************************************************)

History ==
  /\ version \in Nat
  /\ Exists => /\ \E S : versions \in Seq(S)
               /\ "days" \in DOMAIN plan
  /\ CurrentIsRecorded

LEMMA InitHistory == Init => History
<1> SUFFICES ASSUME Init PROVE History OBVIOUS
<1>1. PICK r, days : Created(r, days) BY DEF Init
<1>2. versions = <<plan>> /\ version = 1 /\ "days" \in DOMAIN plan BY <1>1 DEF Created
<1>3. versions \in Seq({plan}) BY <1>2
<1>4. DOMAIN versions = 1..version /\ versions[version] = plan BY <1>2
<1>5. QED BY <1>2, <1>3, <1>4 DEF History, CurrentIsRecorded

LEMMA AppliedHistory == ASSUME History, Applied PROVE History'
<1>1. PICK o \in Operations : \E b, after, rows, p : Apply(o, b, after, rows, p)
  BY DEF Applied
<1> PICK b, after, rows, p : Apply(o, b, after, rows, p) BY <1>1
<1>2. Exists /\ version' = version + 1 /\ plan' = after /\ versions' = versions \o <<after>>
  BY <1>1 DEF Apply, Recorded
<1>3. PICK S : versions \in Seq(S) BY <1>2 DEF History
<1>4. DOMAIN versions = 1..version /\ version \in Nat BY <1>2 DEF History, CurrentIsRecorded
<1>5. Len(versions) = version BY <1>3, <1>4, LenProperties
<1> DEFINE T == S \cup {after}
<1>6. versions \in Seq(T) /\ <<after>> \in Seq(T) BY <1>3
<1>7. versions' \in Seq(T) BY <1>2, <1>6, ConcatProperties
<1>8. Len(versions') = version + 1 BY <1>2, <1>5, <1>6, ConcatProperties
<1>9. DOMAIN versions' = 1..version' BY <1>2, <1>7, <1>8, LenProperties
<1>10. versions'[version'] = plan' BY <1>2, <1>4, <1>5, <1>6, ConcatProperties
<1>11. "days" \in DOMAIN plan' BY <1>2 DEF History, Applied
<1>12. QED BY <1>2, <1>4, <1>7, <1>9, <1>10, <1>11 DEF History, CurrentIsRecorded, Exists

\* A new route leaves what a version keeps of the plan.
LEMMA RouteIsNotContent ==
  ASSUME NEW p, "days" \in DOMAIN p, NEW d, NEW r
  PROVE  Content([p EXCEPT !.days[d] = [p.days[d] EXCEPT !.route = r]]) = Content(p)
<1> DEFINE days == [p.days EXCEPT ![d] = [p.days[d] EXCEPT !.route = r]]
           q == [p EXCEPT !.days[d] = [p.days[d] EXCEPT !.route = r]]
           bare(f) == [e \in DOMAIN f |-> [f[e] EXCEPT !.route = <<>>]]
<1>1. q = [p EXCEPT !.days = days] OBVIOUS
<1>2. q.days = days BY <1>1
<1>3. bare(days) = bare(p.days) OBVIOUS
<1>4. [q EXCEPT !.days = bare(days)] = [p EXCEPT !.days = bare(days)] BY <1>1
<1>5. QED BY <1>2, <1>3, <1>4 DEF Content

LEMMA ReroutedHistory == ASSUME History, Rerouted PROVE History'
<1>1. PICK d, r : plan' = SetDay(d, [plan.days[d] EXCEPT !.route = r]) BY DEF Rerouted
<1>2. UNCHANGED <<version, versions>> BY DEF Rerouted
<1>3. Exists => Content(plan') = Content(plan)
  BY <1>1, RouteIsNotContent DEF History, SetDay
<1>4. DOMAIN plan' = DOMAIN plan BY <1>1 DEF SetDay
<1>5. QED BY <1>2, <1>3, <1>4 DEF History, CurrentIsRecorded, Exists

LEMMA StepHistory == History /\ [Next]_vars => History'
<1> SUFFICES ASSUME History, [Next]_vars PROVE History' OBVIOUS
<1>1. CASE Applied BY <1>1, AppliedHistory
<1>2. CASE Rerouted BY <1>2, ReroutedHistory
<1>3. CASE Delete BY <1>3 DEF Delete, History, CurrentIsRecorded, Exists
<1>4. CASE Quiet BY <1>4 DEF Quiet, History, CurrentIsRecorded, Exists, Content
<1>5. QED BY <1>1, <1>2, <1>3, <1>4, StepKinds

\* Whatever is edited, restored, applied and calculated, every version up to the
\* current one is recorded, and the current record is the itinerary as it is.
THEOREM VersionsRecorded == Spec => []CurrentIsRecorded
<1>1. History => CurrentIsRecorded BY DEF History
<1>2. QED BY <1>1, InitHistory, StepHistory, PTL DEF Spec

(***************************************************************************)
(* Operations and versions                                                 *)
(***************************************************************************)

Made == {o \in Operations : operations[o] # Unused}

Ledger ==
  /\ version \in Nat
  /\ operations = [o \in Operations |-> operations[o]]
  /\ IsFiniteSet(Made)
  /\ OperationsMakeVersions

LEMMA InitLedger == Init => Ledger
<1> SUFFICES ASSUME Init PROVE Ledger OBVIOUS
<1>1. version = 1 BY DEF Init, Created
<1>2. operations = [o \in Operations |-> Unused] BY DEF Init
<1>3. Made = {} BY <1>2 DEF Made
<1>4. {operations[o].result : o \in Made} = 2..version BY <1>1, <1>3
<1>5. QED BY <1>1, <1>2, <1>3, <1>4, FS_EmptySet DEF Ledger, OperationsMakeVersions, Made

LEMMA AppliedLedger == ASSUME Ledger, Applied PROVE Ledger'
<1>1. PICK o \in Operations : \E b, after, rows, p : Apply(o, b, after, rows, p) BY DEF Applied
<1> PICK b, after, rows, p : Apply(o, b, after, rows, p) BY <1>1
<1> DEFINE entry == [base |-> b, result |-> version + 1, preview |-> p]
<1>2. Exists /\ operations[o] = Unused /\ b = version /\ version' = version + 1
  BY <1>1 DEF Apply, BaseMatches
<1>3. operations' = [operations EXCEPT ![o] = entry] BY <1>1 DEF Apply
<1>4. version \in Nat /\ version # 0 BY <1>2 DEF Ledger, Exists
<1>5. entry # Unused BY <1>4 DEF Unused
<1>6. \A q \in Operations : operations'[q] = IF q = o THEN entry ELSE operations[q]
  BY <1>3 DEF Ledger
<1>7. Made' = Made \cup {o} /\ o \notin Made BY <1>2, <1>5, <1>6 DEF Made
<1>8. /\ \A q \in Made : operations[q].result = operations[q].base + 1
      /\ {operations[q].result : q \in Made} = 2..version
      /\ Cardinality(Made) = version - 1
  BY <1>2 DEF Ledger, OperationsMakeVersions, Made
<1>9. \A q \in Made' : operations'[q].result = operations'[q].base + 1
  BY <1>2, <1>6, <1>7, <1>8 DEF Made
<1>10. {operations'[q].result : q \in Made'} = {operations[q].result : q \in Made} \cup {version + 1}
  <2>1. \A q \in Made : operations'[q].result = operations[q].result BY <1>6, <1>7 DEF Made
  <2>2. operations'[o].result = version + 1 BY <1>6
  <2>3. QED BY <1>7, <2>1, <2>2
<1>11. {operations'[q].result : q \in Made'} = 2..version'
  <2>1. 2..(version + 1) = (2..version) \cup {version + 1} BY <1>4
  <2>2. QED BY <1>2, <1>8, <1>10, <2>1
<1>12. IsFiniteSet(Made') /\ Cardinality(Made') = version' - 1
  <2>1. IsFiniteSet(Made) BY DEF Ledger
  <2>2. IsFiniteSet(Made \cup {o}) /\ Cardinality(Made \cup {o}) = Cardinality(Made) + 1
    BY <1>7, <2>1, FS_AddElement
  <2>3. Cardinality(Made') = version BY <1>4, <1>7, <1>8, <2>2
  <2>4. QED BY <1>2, <1>4, <1>7, <2>2, <2>3
<1>13. operations' = [q \in Operations |-> operations'[q]] BY <1>3 DEF Ledger
<1>14. QED BY <1>2, <1>4, <1>9, <1>11, <1>12, <1>13 DEF Ledger, OperationsMakeVersions, Made

LEMMA StepLedger == Ledger /\ [Next]_vars => Ledger'
<1> SUFFICES ASSUME Ledger, [Next]_vars PROVE Ledger' OBVIOUS
<1>1. CASE Applied BY <1>1, AppliedLedger
<1>2. CASE Rerouted \/ Quiet
  BY <1>2 DEF Rerouted, Quiet, Ledger, OperationsMakeVersions, Made, Exists
<1>3. CASE Delete
  <2>1. version' = 0 /\ operations' = [o \in Operations |-> Unused] BY <1>3 DEF Delete
  <2>2. Made' = {} BY <2>1 DEF Made
  <2>3. QED BY <2>1, <2>2, FS_EmptySet DEF Ledger, OperationsMakeVersions, Exists
<1>4. QED BY <1>1, <1>2, <1>3, StepKinds

\* No edit is lost, applied twice, or made over a version its author had not
\* seen: the versions after the first and the recorded operations correspond.
THEOREM VersionsMade == Spec => []OperationsMakeVersions
<1>1. Ledger => OperationsMakeVersions BY DEF Ledger
<1>2. QED BY <1>1, InitLedger, StepLedger, PTL DEF Spec

\* The recorded versions, the recorded operations and the itinerary itself tell
\* one history.
THEOREM VersionsSound == Spec => []VersionsAreRecorded
BY VersionsRecorded, VersionsMade, PTL DEF VersionsAreRecorded


(***************************************************************************)
(* Numbering a finite set of dates in their order                          *)
(***************************************************************************)

Below(S, x) == {y \in S : y < x}

\* Numbered by how many are below them, the members of a finite set of integers
\* get the numbers from 0 without gaps (this is how days are renumbered).
LEMMA RanksFill ==
  ASSUME NEW S \in SUBSET Int, IsFiniteSet(S)
  PROVE  {Cardinality(Below(S, x)) : x \in S} = 0..(Cardinality(S) - 1)
<1> DEFINE n == Cardinality(S)
           rank == [x \in S |-> Cardinality(Below(S, x))]
           T == 0..(n - 1)
<1>1. n \in Nat BY FS_CardinalityType
<1>2. ASSUME NEW x \in S PROVE IsFiniteSet(Below(S, x)) /\ rank[x] \in T
  <2>1. IsFiniteSet(S \ {x}) /\ Cardinality(S \ {x}) = n - 1 BY FS_RemoveElement
  <2>2. Below(S, x) \subseteq S \ {x} BY DEF Below
  <2>3. IsFiniteSet(Below(S, x)) /\ Cardinality(Below(S, x)) <= n - 1
    BY <2>1, <2>2, FS_Subset
  <2>4. Cardinality(Below(S, x)) \in Nat BY <2>3, FS_CardinalityType
  <2>5. QED BY <1>1, <2>3, <2>4
<1>3. ASSUME NEW x \in S, NEW y \in S, x < y PROVE rank[x] < rank[y]
  <2>1. IsFiniteSet(Below(S, x) \cup {x})
        /\ Cardinality(Below(S, x) \cup {x}) = Cardinality(Below(S, x)) + 1
    BY <1>2, FS_AddElement DEF Below
  <2>2. Below(S, x) \cup {x} \subseteq Below(S, y)
    <3>1. ASSUME NEW z \in S, z < x PROVE z < y
      <4>1. x \in Int /\ y \in Int /\ z \in Int OBVIOUS
      <4>2. QED BY <1>3, <3>1, <4>1
    <3>2. \A z \in Below(S, x) : z \in Below(S, y) BY <3>1 DEF Below
    <3>3. x \in Below(S, y) BY <1>3 DEF Below
    <3>4. QED BY <3>2, <3>3
  <2>3. Cardinality(Below(S, x) \cup {x}) <= Cardinality(Below(S, y))
    BY <1>2, <2>1, <2>2, FS_Subset
  <2>4. rank[x] \in Int /\ rank[y] \in Int BY <1>1, <1>2
  <2>5. QED BY <2>1, <2>3, <2>4
<1>4. rank \in Injection(S, T)
  <2>1. rank \in [S -> T] BY <1>2
  <2>2. ASSUME NEW x \in S, NEW y \in S, rank[x] = rank[y] PROVE x = y
    <3>1. x \in Int /\ y \in Int /\ rank[x] \in Int BY <1>1, <1>2
    <3>2. QED BY <1>3, <2>2, <3>1
  <2>3. QED BY <2>1, <2>2 DEF Injection, IsInjective
<1>5. IsFiniteSet(T) /\ Cardinality(T) = n
  <2>1. IsFiniteSet(T) /\ Cardinality(T) = IF 0 > n - 1 THEN 0 ELSE n - 1 - 0 + 1
    BY <1>1, FS_Interval
  <2>2. QED BY <1>1, <2>1
<1>6. rank \in Surjection(S, T) BY <1>4, <1>5, FS_Injection
<1>7. \A k \in T : \E x \in S : rank[x] = k BY <1>6 DEF Surjection
<1>8. QED BY <1>2, <1>7

\* A finite set of integers that is not empty has a last and a first member.
LEMMA LastOf == ASSUME NEW S \in SUBSET Int, IsFiniteSet(S), S # {}
  PROVE Max(S) \in S
<1> DEFINE n == Cardinality(S)
<1>1. n \in Nat \ {0} BY FS_CardinalityType, FS_EmptySet
<1>2. PICK x \in S : Cardinality(Below(S, x)) = n - 1
  <2>1. n - 1 \in 0..(n - 1) BY <1>1
  <2>2. QED BY <2>1, RanksFill
<1>3. ASSUME NEW y \in S PROVE x >= y
  <2>1. IsFiniteSet(S \ {x}) /\ Cardinality(S \ {x}) = n - 1 BY FS_RemoveElement
  <2>2. Below(S, x) \subseteq S \ {x} BY DEF Below
  <2>3. Below(S, x) = S \ {x} BY <1>2, <2>1, <2>2, FS_Subset
  <2>4. y \in Int /\ x \in Int OBVIOUS
  <2>5. y # x => y < x BY <2>3 DEF Below
  <2>6. QED BY <2>4, <2>5
<1>4. QED BY <1>3 DEF Max

LEMMA FirstOf == ASSUME NEW S \in SUBSET Int, IsFiniteSet(S), S # {}
  PROVE Min(S) \in S
<1> DEFINE n == Cardinality(S)
<1>1. n \in Nat \ {0} BY FS_CardinalityType, FS_EmptySet
<1>2. PICK x \in S : Cardinality(Below(S, x)) = 0
  <2>1. 0 \in 0..(n - 1) BY <1>1
  <2>2. QED BY <2>1, RanksFill
<1>3. ASSUME NEW y \in S PROVE x =< y
  <2>1. IsFiniteSet(Below(S, x)) BY FS_Subset DEF Below
  <2>2. Below(S, x) = {} BY <1>2, <2>1, FS_EmptySet
  <2>3. y \in Int /\ x \in Int OBVIOUS
  <2>4. QED BY <2>2, <2>3 DEF Below
<1>4. QED BY <1>3 DEF Min

\* The last of the numbers up to n - 1.
LEMMA LastNumber == ASSUME NEW n \in Nat, NEW S, S = 0..(n - 1), S # {} PROVE Max(S) = n - 1
<1>1. n - 1 \in S /\ \A y \in S : n - 1 >= y OBVIOUS
<1>2. Max(S) \in S /\ \A y \in S : Max(S) >= y BY <1>1 DEF Max
<1>3. QED BY <1>1, <1>2

(***************************************************************************)
(* What is recorded is of its type, for its version, and in order.  A day  *)
(* a job is for must exist, or the worker would read a day that is not     *)
(* there; and every recorded version must be usable, or a restore could    *)
(* bring an unusable one back.                                             *)
(***************************************************************************)

Contiguous(p) ==
  {p.days[d].order : d \in DOMAIN p.days} = 0..(Cardinality(DOMAIN p.days) - 1)

Usable(p) == IsPlan(p) /\ Contiguous(p)

JobsHaveDays == \A j \in jobs : j.id[2] \in DOMAIN plan.days

AllUsable ==
  /\ TypeOK
  /\ IF Exists THEN Usable(plan) ELSE plan = NoPlan
  /\ \A v \in DOMAIN versions : Usable(versions[v])
  /\ JobsHaveDays
  /\ PreviewOnItsBase

Sound == History /\ Ledger /\ AllUsable

\* A versioned operation that leaves a usable plan leaves everything usable.
LEMMA ApplyUsable ==
  ASSUME Sound,
         NEW o \in Operations, NEW b \in Versions, NEW after, NEW rows, NEW p,
         Apply(o, b, after, rows, p),
         Usable(after),
         rows \subseteq JobRows, \A j \in rows : j.id[2] \in DOMAIN after.days,
         \A q \in p : IsPreview(q) /\ SeenByPreview(q),
         tasks' \subseteq JobIds
  PROVE  AllUsable'
<1>1. /\ Exists /\ b = version /\ version < MaxVersion /\ version' = version + 1
      /\ plan' = after /\ versions' = versions \o <<after>> /\ jobs' = rows
      /\ UNCHANGED <<previews, worker, crashes>>
  BY DEF Apply, BaseMatches, Recorded, workerVars
<1>2. version \in 1..MaxVersion /\ version' \in 1..MaxVersion /\ MaxVersion \in Nat
  BY <1>1, ItineraryAssumption DEF Sound, AllUsable, TypeOK, Exists
<1>3. \A q \in Operations : operations'[q] =
        IF q = o THEN [base |-> b, result |-> version + 1, preview |-> p] ELSE operations[q]
  BY DEF Apply, Sound, Ledger
<1>4. DOMAIN versions' \subseteq Versions /\ \A v \in DOMAIN versions' : Usable(versions'[v])
  <2>1. PICK S : versions \in Seq(S) BY <1>1 DEF Sound, History
  <2>2. DOMAIN versions = 1..version BY <1>1 DEF Sound, History, CurrentIsRecorded
  <2>3. Len(versions) = version BY <1>2, <2>1, <2>2, LenProperties
  <2> DEFINE T == S \cup {after}
  <2>4. versions \in Seq(T) /\ <<after>> \in Seq(T) /\ Len(<<after>>) = 1 BY <2>1
  <2>5. /\ versions' \in Seq(T) /\ Len(versions') = version + 1
        /\ \A v \in 1..(version + 1) :
             versions'[v] = IF v <= version THEN versions[v] ELSE <<after>>[v - version]
    BY <1>1, <2>3, <2>4, ConcatProperties
  <2>6. DOMAIN versions' = 1..(version + 1) BY <2>5, LenProperties
  <2>7. ASSUME NEW v \in 1..(version + 1) PROVE Usable(versions'[v])
    <3>1. CASE v <= version BY <1>2, <2>2, <2>5, <3>1 DEF Sound, AllUsable
    <3>2. CASE v = version + 1
      <4>1. versions'[v] = after BY <1>2, <2>5, <3>2
      <4>2. QED BY <4>1
    <3>3. QED BY <1>2, <3>1, <3>2
  <2>8. QED BY <1>1, <1>2, <2>6, <2>7 DEF Versions
<1>5. TypeOK'
  <2>1. ASSUME NEW q \in Operations
        PROVE  /\ operations'[q].base \in 0..MaxVersion /\ operations'[q].result \in 0..MaxVersion
               /\ \A r \in operations'[q].preview : IsPreview(r)
    <3>1. CASE q = o
      <4>1. operations'[q] = [base |-> b, result |-> version + 1, preview |-> p] BY <1>3, <3>1
      <4>2. b \in 0..MaxVersion /\ version + 1 \in 0..MaxVersion BY <1>1, <1>2
      <4>3. QED BY <4>1, <4>2
    <3>2. CASE q # o BY <1>3, <3>2 DEF Sound, AllUsable, TypeOK
    <3>3. QED BY <3>1, <3>2
  <2>2. \A v \in DOMAIN versions' : IsPlan(versions'[v]) BY <1>4 DEF Usable
  <2>3. QED BY <1>1, <1>2, <1>4, <2>1, <2>2 DEF Sound, AllUsable, TypeOK, Usable
<1>6. PreviewOnItsBase'
  BY <1>1, <1>3 DEF Sound, AllUsable, PreviewOnItsBase, SeenByPreview
<1>7. JobsHaveDays' BY <1>1 DEF JobsHaveDays
<1>8. Exists' BY <1>2 DEF Exists
<1>9. QED BY <1>1, <1>4, <1>5, <1>6, <1>7, <1>8 DEF AllUsable

\* A day in the place of another, with its number, leaves the plan usable.
LEMMA SetDayUsable ==
  ASSUME Usable(plan), NEW d \in DOMAIN plan.days, NEW day \in Days,
         day.order = plan.days[d].order
  PROVE  Usable(SetDay(d, day)) /\ DOMAIN SetDay(d, day).days = DOMAIN plan.days
<1> DEFINE q == SetDay(d, day)
<1>1. plan = [title |-> plan.title, from |-> plan.from, to |-> plan.to, days |-> plan.days]
  BY DEF Usable, IsPlan
<1>2. plan.days = [e \in DOMAIN plan.days |-> plan.days[e]] BY DEF Usable, IsPlan
<1>3. q = [title |-> plan.title, from |-> plan.from, to |-> plan.to,
           days |-> [plan.days EXCEPT ![d] = day]]
  BY <1>1 DEF SetDay
<1>4. /\ q.title = plan.title /\ q.from = plan.from /\ q.to = plan.to
      /\ q.days = [plan.days EXCEPT ![d] = day]
  BY <1>3
<1>5. DOMAIN q.days = DOMAIN plan.days /\ q.days = [e \in DOMAIN q.days |-> q.days[e]]
  BY <1>2, <1>4
<1>6. \A e \in DOMAIN plan.days : q.days[e] = IF e = d THEN day ELSE plan.days[e]
  BY <1>2, <1>4
<1>7. IsPlan(q) BY <1>3, <1>4, <1>5, <1>6 DEF Usable, IsPlan
<1>8. {q.days[e].order : e \in DOMAIN q.days} = {plan.days[e].order : e \in DOMAIN plan.days}
  BY <1>5, <1>6
<1>9. QED BY <1>5, <1>7, <1>8 DEF Usable, Contiguous

\* An operation that puts a day in the place of another.
LEMMA EditUsable ==
  ASSUME Sound, NEW o \in Operations, NEW b \in Versions,
         NEW d \in DOMAIN plan.days, NEW day \in Days, day.order = plan.days[d].order,
         Apply(o, b, SetDay(d, day), jobs, {}), UNCHANGED tasks
  PROVE  AllUsable'
<1>1. Usable(plan) BY DEF Apply, Sound, AllUsable
<1>2. Usable(SetDay(d, day)) /\ DOMAIN SetDay(d, day).days = DOMAIN plan.days
  BY <1>1, SetDayUsable
<1>3. jobs \subseteq JobRows /\ tasks' \subseteq JobIds /\ JobsHaveDays
  BY DEF Sound, AllUsable, TypeOK
<1>4. QED BY <1>2, <1>3, ApplyUsable DEF JobsHaveDays

(***************************************************************************)
(* The operations                                                          *)
(***************************************************************************)

\* The day an operation finds.
LEMMA DayFound ==
  ASSUME Sound, Exists, NEW d \in DOMAIN plan.days
  PROVE  /\ plan.days[d] \in Days /\ d \in Dates
         /\ plan.days[d].events \in Seq(Stops) /\ plan.days[d].route \in Seq(Pois)
         /\ plan.days[d].order \in Nat /\ plan.days[d].born \in Versions
<1>1. plan.days[d] \in Days /\ d \in Dates BY DEF Sound, AllUsable, Usable, IsPlan
<1>2. QED BY <1>1 DEF Days

\* The number of the version an operation makes.
LEMMA NewVersion ==
  ASSUME Sound, version < MaxVersion PROVE version + 1 \in Versions /\ version \in Nat
BY ItineraryAssumption DEF Sound, AllUsable, TypeOK, Versions

\* Other stops, and no route, leave a day a day.
LEMMA OtherStops ==
  ASSUME NEW day \in Days, NEW events \in Seq(Stops)
  PROVE  LET new == [day EXCEPT !.events = events, !.route = <<>>]
         IN  new \in Days /\ new.order = day.order
<1> DEFINE new == [day EXCEPT !.events = events, !.route = <<>>]
<1>1. day = [born |-> day.born, order |-> day.order, events |-> day.events, route |-> day.route]
      /\ day.born \in Versions /\ day.order \in Nat
  BY DEF Days
<1> DEFINE one == [day EXCEPT !.events = events]
<1>2. one = [born |-> day.born, order |-> day.order, events |-> events, route |-> day.route] BY <1>1
<1> HIDE DEF one
<1>3. [one EXCEPT !.route = <<>>]
        = [born |-> day.born, order |-> day.order, events |-> events, route |-> <<>>]
  BY <1>2
<1>4. new = [born |-> day.born, order |-> day.order, events |-> events, route |-> <<>>]
  BY <1>3 DEF one
<1>5. <<>> \in Seq(Pois) BY EmptySeq
<1> HIDE DEF new
<1>6. new \in Days BY <1>1, <1>4, <1>5 DEF Days
<1>7. new.order = day.order BY <1>4
<1>8. QED BY <1>6, <1>7 DEF new

LEMMA AddEventUsable ==
  ASSUME Sound, NEW o \in Operations, NEW b \in Versions, NEW d, NEW poi \in Pois,
         AddEvent(o, b, d, poi)
  PROVE  AllUsable'
<1> DEFINE day == plan.days[d]
           n == Len(day.events) + 1
           stop == NewStop(version + 1, n, poi)
           new == [day EXCEPT !.events = Append(@, stop), !.route = <<>>]
<1>1. Exists /\ d \in DOMAIN plan.days /\ version < MaxVersion BY DEF AddEvent, Apply
<1>2. day \in Days /\ day.events \in Seq(Stops) BY <1>1, DayFound
<1>3. n \in Nat BY <1>2, LenProperties
<1>4. stop \in Stops BY <1>1, <1>3, NewVersion DEF NewStop, Stops
<1>5. Append(day.events, stop) \in Seq(Stops) BY <1>2, <1>4, AppendProperties
<1>6. new \in Days /\ new.order = day.order BY <1>2, <1>5, OtherStops
<1>7. Apply(o, b, SetDay(d, new), jobs, {}) /\ UNCHANGED tasks BY DEF AddEvent
<1>8. QED BY <1>1, <1>6, <1>7, EditUsable

LEMMA RemoveEventUsable ==
  ASSUME Sound, NEW o \in Operations, NEW b \in Versions, NEW d, NEW i,
         RemoveEvent(o, b, d, i)
  PROVE  AllUsable'
<1> DEFINE day == plan.days[d]
           left == RemoveAt(day.events, i)
           new == [day EXCEPT !.events = RemoveAt(@, i), !.route = <<>>]
<1>1. Exists /\ d \in DOMAIN plan.days /\ i \in DOMAIN day.events BY DEF RemoveEvent
<1>2. day \in Days /\ day.events \in Seq(Stops) BY <1>1, DayFound
<1>3. /\ DOMAIN day.events = 1..Len(day.events) /\ Len(day.events) \in Nat
      /\ \A k \in 1..Len(day.events) : day.events[k] \in Stops
  BY <1>2, LenProperties, ElementOfSeq
<1>4. i \in Int /\ i - 1 \in Int /\ i + 1 \in Int /\ Len(day.events) \in Int BY <1>1, <1>3
<1>5. SubSeq(day.events, 1, i - 1) \in Seq(Stops)
  <2>1. \A k \in 1..(i - 1) : day.events[k] \in Stops BY <1>1, <1>3
  <2>2. QED BY <1>4, <2>1, SubSeqProperties
<1>6. SubSeq(day.events, i + 1, Len(day.events)) \in Seq(Stops)
  <2>1. \A k \in (i + 1)..Len(day.events) : day.events[k] \in Stops BY <1>1, <1>3
  <2>2. QED BY <1>4, <2>1, SubSeqProperties
<1>7. left \in Seq(Stops) BY <1>5, <1>6, ConcatProperties DEF RemoveAt
<1>8. new \in Days /\ new.order = day.order BY <1>2, <1>7, OtherStops
<1>9. Apply(o, b, SetDay(d, new), jobs, {}) /\ UNCHANGED tasks BY DEF RemoveEvent
<1>10. QED BY <1>1, <1>8, <1>9, EditUsable

LEMMA UpdateEventUsable ==
  ASSUME Sound, NEW o \in Operations, NEW b \in Versions, NEW d, NEW i,
         NEW note \in {"none", "text"}, UpdateEvent(o, b, d, i, note)
  PROVE  AllUsable'
<1> DEFINE day == plan.days[d]
           stop == [day.events[i] EXCEPT !.note = note]
           new == [day EXCEPT !.events[i].note = note]
<1>1. Exists /\ d \in DOMAIN plan.days /\ i \in DOMAIN day.events BY DEF UpdateEvent
<1>2. day \in Days /\ day.events \in Seq(Stops) BY <1>1, DayFound
<1>3. i \in 1..Len(day.events) /\ day.events[i] \in Stops BY <1>1, <1>2, LenProperties, ElementOfSeq
<1>4. stop \in Stops BY <1>3 DEF Stops
<1>5. [day.events EXCEPT ![i] = stop] \in Seq(Stops) BY <1>2, <1>3, <1>4, ExceptSeq
<1>6. new = [day EXCEPT !.events = [day.events EXCEPT ![i] = stop]] OBVIOUS
<1>7. new \in Days /\ new.order = day.order BY <1>2, <1>5, <1>6 DEF Days
<1>8. Apply(o, b, SetDay(d, new), jobs, {}) /\ UNCHANGED tasks BY DEF UpdateEvent
<1>9. QED BY <1>1, <1>7, <1>8, EditUsable

LEMMA ReorderEventUsable ==
  ASSUME Sound, NEW o \in Operations, NEW b \in Versions, NEW d, NEW i, NEW j,
         ReorderEvent(o, b, d, i, j)
  PROVE  AllUsable'
<1> DEFINE day == plan.days[d]
           swapped == [day.events EXCEPT ![i] = day.events[j], ![j] = day.events[i]]
           new == [day EXCEPT !.events = [@ EXCEPT ![i] = day.events[j], ![j] = day.events[i]],
                              !.route = <<>>]
<1>1. Exists /\ d \in DOMAIN plan.days /\ i \in DOMAIN day.events /\ UNCHANGED tasks
  BY DEF ReorderEvent
<1>2. day \in Days /\ day.events \in Seq(Stops) BY <1>1, DayFound
<1>3. CASE j \in DOMAIN day.events
  <2>1. i \in 1..Len(day.events) /\ j \in 1..Len(day.events) BY <1>1, <1>2, <1>3, LenProperties
  <2>2. day.events[i] \in Stops /\ day.events[j] \in Stops BY <1>2, <2>1, ElementOfSeq
  <2> DEFINE half == [day.events EXCEPT ![i] = day.events[j]]
  <2>3. half \in Seq(Stops) /\ Len(half) = Len(day.events) BY <1>2, <2>1, <2>2, ExceptSeq
  <2>4. [half EXCEPT ![j] = day.events[i]] \in Seq(Stops) BY <2>1, <2>2, <2>3, ExceptSeq
  <2>5. swapped = [half EXCEPT ![j] = day.events[i]] OBVIOUS
  <2>6. new \in Days /\ new.order = day.order BY <1>2, <2>4, <2>5, OtherStops
  <2>7. Apply(o, b, SetDay(d, new), jobs, {}) BY <1>3 DEF ReorderEvent
  <2>8. QED BY <1>1, <2>6, <2>7, EditUsable
<1>4. CASE j \notin DOMAIN day.events
  <2>1. Apply(o, b, plan, jobs, {}) BY <1>4 DEF ReorderEvent
  <2>2. /\ Usable(plan) /\ jobs \subseteq JobRows /\ tasks' \subseteq JobIds
        /\ \A k \in jobs : k.id[2] \in DOMAIN plan.days
    BY <1>1 DEF Sound, AllUsable, TypeOK, JobsHaveDays
  <2>3. QED BY <2>1, <2>2, ApplyUsable
<1>5. QED BY <1>3, <1>4

\* The job of a calculation is for the day and its stops.
LEMMA NewJobFits ==
  ASSUME version + 1 \in Versions, NEW d \in Dates, NEW day \in Days
  PROVE  /\ NewJob(d, day) \in JobRows /\ NewJob(d, day).id = <<version + 1, d>>
         /\ <<version + 1, d>> \in JobIds
<1> DEFINE n == Len(day.events)
<1>1. day.events \in Seq(Stops) /\ day.born \in Versions BY DEF Days
<1>2. n \in Nat /\ DOMAIN day.events = 1..n /\ \A i \in 1..n : day.events[i] \in Stops
  BY <1>1, LenProperties, ElementOfSeq
<1>3. \A i \in 1..n : <<day.events[i].born, day.events[i].at>> \in Versions \X Nat
  BY <1>2 DEF Stops
<1>4. Ids(day.events) \in [1..n -> Versions \X Nat] BY <1>2, <1>3 DEF Ids
<1>5. Ids(day.events) \in EventIds BY <1>2, <1>4, SeqDef DEF EventIds
<1>6. <<version + 1, d>> \in JobIds BY DEF JobIds
<1>7. QED BY <1>1, <1>5, <1>6 DEF NewJob, JobRows

LEMMA RecalculateUsable ==
  ASSUME Sound, NEW o \in Operations, NEW b \in Versions, NEW d, RecalculateRoute(o, b, d)
  PROVE  AllUsable'
<1> DEFINE job == NewJob(d, plan.days[d])
           rows == jobs \cup {job}
<1>1. /\ Exists /\ d \in DOMAIN plan.days /\ version < MaxVersion
      /\ Apply(o, b, plan, rows, {}) /\ tasks' = tasks \cup {<<version + 1, d>>}
  BY DEF RecalculateRoute, Apply
<1>2. /\ job \in JobRows /\ job.id = <<version + 1, d>> /\ <<version + 1, d>> \in JobIds
  BY <1>1, DayFound, NewVersion, NewJobFits
<1>3. rows \subseteq JobRows /\ tasks' \subseteq JobIds
  BY <1>1, <1>2 DEF Sound, AllUsable, TypeOK
<1>4. \A j \in rows : j.id[2] \in DOMAIN plan.days
  BY <1>1, <1>2 DEF Sound, AllUsable, JobsHaveDays
<1>5. Usable(plan) BY <1>1 DEF Sound, AllUsable
<1>6. QED BY <1>1, <1>3, <1>4, <1>5, ApplyUsable

\* A plan rewritten with days that are numbered without gaps.
LEMMA PlanOf ==
  ASSUME NEW p, NEW title \in {"own", "preview"}, NEW from \in Dates, NEW to \in Dates,
         NEW D, D \subseteq Dates, NEW days, days = [d \in D |-> days[d]],
         \A d \in D : days[d] \in Days,
         {days[d].order : d \in D} = 0..(Cardinality(D) - 1),
         p = [title |-> title, from |-> from, to |-> to, days |-> days]
  PROVE  Usable(p) /\ DOMAIN p.days = D
<1>1. p.title = title /\ p.from = from /\ p.to = to /\ p.days = days OBVIOUS
<1>2. DOMAIN days = D OBVIOUS
<1>3. IsPlan(p) BY <1>1, <1>2 DEF IsPlan
<1>4. QED BY <1>1, <1>2, <1>3 DEF Usable, Contiguous

\* Written over some fields, a plan keeps the others.
LEMMA Redated ==
  ASSUME IsPlan(plan), NEW from, NEW to, NEW days
  PROVE  [plan EXCEPT !.from = from, !.to = to, !.days = days]
           = [title |-> plan.title, from |-> from, to |-> to, days |-> days]
<1>1. plan = [title |-> plan.title, from |-> plan.from, to |-> plan.to, days |-> plan.days]
  BY DEF IsPlan
<1> DEFINE one == [plan EXCEPT !.from = from]
           two == [one EXCEPT !.to = to]
<1>2. one = [title |-> plan.title, from |-> from, to |-> plan.to, days |-> plan.days] BY <1>1
<1>3. two = [title |-> plan.title, from |-> from, to |-> to, days |-> plan.days]
  <2> HIDE DEF one
  <2>1. QED BY <1>2
<1> HIDE DEF two
<1>4. [two EXCEPT !.days = days] = [title |-> plan.title, from |-> from, to |-> to, days |-> days]
  BY <1>3
<1>5. QED BY <1>4 DEF two

LEMMA Retitled ==
  ASSUME IsPlan(plan), NEW title, NEW days
  PROVE  [plan EXCEPT !.title = title, !.days = days]
           = [title |-> title, from |-> plan.from, to |-> plan.to, days |-> days]
<1>1. plan = [title |-> plan.title, from |-> plan.from, to |-> plan.to, days |-> plan.days]
  BY DEF IsPlan
<1> DEFINE one == [plan EXCEPT !.title = title]
<1>2. one = [title |-> title, from |-> plan.from, to |-> plan.to, days |-> plan.days] BY <1>1
<1> HIDE DEF one
<1>3. [one EXCEPT !.days = days] = [title |-> title, from |-> plan.from, to |-> plan.to, days |-> days]
  BY <1>2
<1>4. QED BY <1>3 DEF one

\* The range of dates after one is added or removed.
LEMMA BoundsAreDates ==
  ASSUME NEW D \in SUBSET Dates, D # {} PROVE Min(D) \in Dates /\ Max(D) \in Dates
<1>1. D \in SUBSET Int /\ IsFiniteSet(D) BY ItineraryAssumption, FS_Subset
<1>2. QED BY <1>1, FirstOf, LastOf

LEMMA AddDayUsable ==
  ASSUME Sound, NEW o \in Operations, NEW b \in Versions, NEW d \in Dates, AddDay(o, b, d)
  PROVE  AllUsable'
<1> DEFINE D == DOMAIN plan.days
           E == D \cup {d}
           new == NewDay(version + 1, NextOrder, <<>>)
           days == [e \in E |-> IF e = d THEN new ELSE plan.days[e]]
           from == Min({plan.from, d})
           to == Max({plan.to, d})
           after == [plan EXCEPT !.from = from, !.to = to, !.days = days]
           n == Cardinality(D)
           orders == {plan.days[e].order : e \in D}
<1>1. Exists /\ d \notin D /\ version < MaxVersion /\ Apply(o, b, after, jobs, {}) /\ UNCHANGED tasks
  BY DEF AddDay, Apply
<1>2. Usable(plan) /\ IsPlan(plan) BY <1>1 DEF Sound, AllUsable, Usable
<1>3. D \subseteq Dates /\ IsFiniteSet(D) /\ n \in Nat
  BY <1>2, ItineraryAssumption, FS_Subset, FS_CardinalityType DEF IsPlan
<1>4. orders = 0..(n - 1) BY <1>2 DEF Usable, Contiguous
<1>5. NextOrder = n
  <2>1. CASE D = {} BY <2>1, FS_EmptySet DEF NextOrder
  <2>2. CASE D # {}
    <3>1. orders # {} BY <2>2
    <3>2. Max(orders) = n - 1 BY <1>3, <1>4, <3>1, LastNumber
    <3>3. QED BY <1>3, <2>2, <3>2 DEF NextOrder
  <2>3. QED BY <2>1, <2>2
<1>6. new \in Days /\ new.order = n
  <2>1. version + 1 \in Versions BY <1>1, NewVersion
  <2>2. <<>> \in Seq(Stops) /\ <<>> \in Seq(Pois) BY EmptySeq
  <2>3. QED BY <1>3, <1>5, <2>1, <2>2 DEF NewDay, Days
<1>7. \A e \in E : days[e] \in Days BY <1>2, <1>6 DEF IsPlan
<1>8. {days[e].order : e \in E} = 0..(Cardinality(E) - 1)
  <2>1. IsFiniteSet(E) /\ Cardinality(E) = n + 1 BY <1>1, <1>3, FS_AddElement
  <2>2. {days[e].order : e \in E} = orders \cup {n} BY <1>1, <1>6
  <2>3. orders \cup {n} = 0..n BY <1>3, <1>4
  <2> HIDE DEF days, orders, n, E
  <2>4. QED BY <1>3, <2>1, <2>2, <2>3
<1>9. from \in Dates /\ to \in Dates BY <1>2, BoundsAreDates DEF IsPlan
<1>10. E \subseteq Dates BY <1>3
<1>11. days = [e \in E |-> days[e]] OBVIOUS
<1>12. Usable(after) /\ DOMAIN after.days = E
  <2> HIDE DEF days, from, to, E
  <2>1. after = [title |-> plan.title, from |-> from, to |-> to, days |-> days]
    BY <1>2, Redated, Zenon
  <2>2. plan.title \in {"own", "preview"} BY <1>2 DEF IsPlan
  <2> HIDE DEF after
  <2>3. QED BY <1>7, <1>8, <1>9, <1>10, <1>11, <2>1, <2>2, PlanOf
<1>13. /\ jobs \subseteq JobRows /\ tasks' \subseteq JobIds
       /\ \A j \in jobs : j.id[2] \in DOMAIN plan.days
  BY <1>1 DEF Sound, AllUsable, TypeOK, JobsHaveDays
<1> HIDE DEF after
<1>14. \A j \in jobs : j.id[2] \in DOMAIN after.days BY <1>12, <1>13
<1>15. QED BY <1>1, <1>12, <1>13, <1>14, ApplyUsable

LEMMA RemoveDayUsable ==
  ASSUME Sound, NEW o \in Operations, NEW b \in Versions, NEW d \in Dates, RemoveDay(o, b, d)
  PROVE  AllUsable'
<1> DEFINE D == DOMAIN plan.days
           left == D \ {d}
           days == [e \in left |-> [plan.days[e] EXCEPT !.order = Renumbered(left, e)]]
           from == IF left = {} THEN plan.from ELSE Min(left)
           to == IF left = {} THEN plan.to ELSE Max(left)
           after == [plan EXCEPT !.from = from, !.to = to, !.days = days]
<1>1. Exists /\ d \in D /\ Apply(o, b, after, WithoutDay(d), {}) /\ UNCHANGED tasks
  BY DEF RemoveDay
<1>2. IsPlan(plan) BY <1>1 DEF Sound, AllUsable, Usable
<1>3. left \in SUBSET Dates /\ left \in SUBSET Int /\ IsFiniteSet(left)
  BY <1>2, ItineraryAssumption, FS_Subset DEF IsPlan
<1>4. \A e \in left : Renumbered(left, e) = Cardinality(Below(left, e)) BY DEF Renumbered, Below
<1>5. {Cardinality(Below(left, e)) : e \in left} = 0..(Cardinality(left) - 1) BY <1>3, RanksFill
<1>6. ASSUME NEW e \in left PROVE days[e] \in Days /\ days[e].order = Cardinality(Below(left, e))
  <2>1. plan.days[e] \in Days BY <1>2 DEF IsPlan
  <2>2. Cardinality(Below(left, e)) \in Nat
    <3>1. IsFiniteSet(Below(left, e)) BY <1>3, FS_Subset DEF Below
    <3>2. QED BY <3>1, FS_CardinalityType
  <2>3. QED BY <1>4, <2>1, <2>2 DEF Days
<1>7. {days[e].order : e \in left} = 0..(Cardinality(left) - 1)
  <2> HIDE DEF days
  <2>1. QED BY <1>5, <1>6
<1>8. from \in Dates /\ to \in Dates BY <1>2, <1>3, BoundsAreDates DEF IsPlan
<1>9. days = [e \in left |-> days[e]] OBVIOUS
<1>10. Usable(after) /\ DOMAIN after.days = left
  <2> HIDE DEF days, from, to, left
  <2>1. after = [title |-> plan.title, from |-> from, to |-> to, days |-> days]
    BY <1>2, Redated, Zenon
  <2>2. plan.title \in {"own", "preview"} BY <1>2 DEF IsPlan
  <2> HIDE DEF after
  <2>3. QED BY <1>3, <1>6, <1>7, <1>8, <1>9, <2>1, <2>2, PlanOf
<1>11. /\ WithoutDay(d) \subseteq JobRows /\ tasks' \subseteq JobIds
       /\ \A j \in WithoutDay(d) : j.id[2] \in left
  BY <1>1 DEF Sound, AllUsable, TypeOK, JobsHaveDays, WithoutDay
<1> HIDE DEF after
<1>12. \A j \in WithoutDay(d) : j.id[2] \in DOMAIN after.days BY <1>10, <1>11
<1>13. QED BY <1>1, <1>10, <1>11, <1>12, ApplyUsable

LEMMA RestoreUsable ==
  ASSUME Sound, NEW o \in Operations, NEW b \in Versions, NEW v, RestoreVersion(o, b, v)
  PROVE  AllUsable'
<1> DEFINE source == versions[v]
           D == DOMAIN source.days
           events(d) == [i \in DOMAIN source.days[d].events |->
                           [source.days[d].events[i] EXCEPT !.born = version + 1, !.at = i]]
           days == [d \in D |-> [source.days[d] EXCEPT !.born = version + 1,
                      !.events = [i \in DOMAIN @ |-> [@[i] EXCEPT !.born = version + 1, !.at = i]]]]
           after == [plan EXCEPT !.title = source.title, !.days = days]
<1>1. /\ Exists /\ v \in DOMAIN versions /\ version < MaxVersion
      /\ Apply(o, b, after, {}, {}) /\ UNCHANGED tasks
  BY DEF RestoreVersion, Apply
<1>2. IsPlan(plan) /\ IsPlan(source) /\ Contiguous(source)
  BY <1>1 DEF Sound, AllUsable, Usable
<1>3. version + 1 \in Versions BY <1>1, NewVersion
<1>4. D \subseteq Dates BY <1>2 DEF IsPlan
<1>5. ASSUME NEW d \in D PROVE days[d] \in Days /\ days[d].order = source.days[d].order
  <2>1. source.days[d] \in Days BY <1>2 DEF IsPlan
  <2>2. /\ source.days[d] = [born |-> source.days[d].born, order |-> source.days[d].order,
                             events |-> source.days[d].events, route |-> source.days[d].route]
        /\ source.days[d].order \in Nat /\ source.days[d].route \in Seq(Pois)
        /\ source.days[d].events \in Seq(Stops)
    BY <2>1 DEF Days
  <2> DEFINE old == source.days[d].events
             n == Len(old)
  <2>3. n \in Nat /\ DOMAIN old = 1..n /\ \A i \in 1..n : old[i] \in Stops
    BY <2>2, LenProperties, ElementOfSeq
  <2>4. ASSUME NEW i \in 1..n PROVE [old[i] EXCEPT !.born = version + 1, !.at = i] \in Stops
    <3>1. old[i] = [born |-> old[i].born, at |-> old[i].at, poi |-> old[i].poi, note |-> old[i].note]
          /\ old[i].poi \in Pois /\ old[i].note \in {"none", "text"}
      BY <2>3 DEF Stops
    <3> DEFINE fresh == [old[i] EXCEPT !.born = version + 1]
    <3>2. fresh = [born |-> version + 1, at |-> old[i].at, poi |-> old[i].poi, note |-> old[i].note]
      BY <3>1
    <3> HIDE DEF fresh
    <3>3. [fresh EXCEPT !.at = i]
            = [born |-> version + 1, at |-> i, poi |-> old[i].poi, note |-> old[i].note]
      BY <3>2
    <3> USE DEF fresh
    <3>4. QED BY <1>3, <2>3, <3>1, <3>3 DEF Stops
  <2>5. events(d) \in [1..n -> Stops] BY <2>3, <2>4
  <2>6. events(d) \in Seq(Stops)
    <3> HIDE DEF events
    <3>1. QED BY <2>3, <2>5, SeqDef
  <2>7. days[d] = [born |-> version + 1, order |-> source.days[d].order,
                   events |-> events(d), route |-> source.days[d].route]
    BY <2>2
  <2> HIDE DEF days, events
  <2>8. QED BY <1>3, <2>2, <2>6, <2>7 DEF Days
<1>6. {days[d].order : d \in D} = 0..(Cardinality(D) - 1)
  <2> HIDE DEF days
  <2>1. {days[d].order : d \in D} = {source.days[d].order : d \in D} BY <1>5
  <2>2. QED BY <1>2, <2>1 DEF Contiguous
<1>7. source.title \in {"own", "preview"} BY <1>2 DEF IsPlan
<1>8. days = [d \in D |-> days[d]] OBVIOUS
<1>9. Usable(after)
  <2> HIDE DEF days, D
  <2>1. after = [title |-> source.title, from |-> plan.from, to |-> plan.to, days |-> days]
    BY <1>2, Retitled, Zenon
  <2>2. plan.from \in Dates /\ plan.to \in Dates BY <1>2 DEF IsPlan
  <2> HIDE DEF after
  <2>3. QED BY <1>4, <1>5, <1>6, <1>7, <1>8, <2>1, <2>2, PlanOf
<1>10. tasks' \subseteq JobIds BY <1>1 DEF Sound, AllUsable, TypeOK
<1> HIDE DEF after
<1>11. QED BY <1>1, <1>9, <1>10, ApplyUsable

\* The days of a range, numbered from its start.
LEMMA RangeContiguous ==
  ASSUME NEW from \in Int, NEW to \in Int
  PROVE  {d - from : d \in from..to} = 0..(Cardinality(from..to) - 1)
<1>1. Cardinality(from..to) = IF from > to THEN 0 ELSE to - from + 1 BY FS_Interval
<1>2. CASE from > to BY <1>1, <1>2
<1>3. CASE ~(from > to)
  <2>1. Cardinality(from..to) - 1 = to - from BY <1>1, <1>3
  <2>2. ASSUME NEW k \in 0..(to - from) PROVE \E d \in from..to : d - from = k
    <3>1. from + k \in from..to /\ (from + k) - from = k OBVIOUS
    <3>2. QED BY <3>1
  <2>3. \A d \in from..to : d - from \in 0..(to - from) OBVIOUS
  <2>4. QED BY <2>1, <2>2, <2>3
<1>4. QED BY <1>2, <1>3

LEMMA PreviewUsable ==
  ASSUME Sound, NEW o \in Operations, NEW b \in Versions, NEW p, ApplyPreview(o, b, p)
  PROVE  AllUsable'
<1> DEFINE new(d) == NewDay(version + 1, d - p.from, Activities(version + 1, p.draft[d]))
           days == [d \in p.from..p.to |-> new(d)]
           asked == {d \in DOMAIN days : days[d].events # <<>>}
           rows == {NewJob(d, days[d]) : d \in asked}
           after == [plan EXCEPT !.title = "preview", !.days = days]
<1>1. /\ Exists /\ p \in previews /\ SeenByPreview(p) /\ version < MaxVersion
      /\ Apply(o, b, after, rows, {p})
      /\ tasks' = tasks \cup {<<version + 1, d>> : d \in asked}
  BY DEF ApplyPreview, Apply
<1>2. IsPlan(plan) /\ IsPreview(p) BY <1>1 DEF Sound, AllUsable, TypeOK, Usable
<1>3. version + 1 \in Versions BY <1>1, NewVersion
<1>4. /\ p.from \in Int /\ p.to \in Int /\ p.from..p.to \subseteq Dates
      /\ p.from..p.to \subseteq Int /\ \A d \in p.from..p.to : p.draft[d] \in Seq(Pois)
  BY <1>2, ItineraryAssumption DEF IsPreview
<1>5. ASSUME NEW d \in p.from..p.to PROVE days[d] \in Days /\ days[d].order = d - p.from
  <2> DEFINE stops == p.draft[d]
             n == Len(stops)
             events == Activities(version + 1, stops)
  <2>1. n \in Nat /\ DOMAIN stops = 1..n /\ \A i \in 1..n : stops[i] \in Pois
    BY <1>4, LenProperties, ElementOfSeq
  <2>2. \A i \in 1..n : [NewStop(version + 1, i, stops[i]) EXCEPT !.note = "text"] \in Stops
    BY <1>3, <2>1 DEF NewStop, Stops
  <2>3. events \in [1..n -> Stops] BY <2>1, <2>2 DEF Activities
  <2>4. events \in Seq(Stops) BY <2>1, <2>3, SeqDef
  <2>5. d - p.from \in Nat BY <1>4
  <2>6. <<>> \in Seq(Pois) BY EmptySeq
  <2> HIDE DEF events
  <2>7. days[d] = NewDay(version + 1, d - p.from, events) BY DEF events
  <2>8. QED BY <1>3, <2>4, <2>5, <2>6, <2>7 DEF NewDay, Days
<1>6. {days[d].order : d \in p.from..p.to} = 0..(Cardinality(p.from..p.to) - 1)
  <2> HIDE DEF days
  <2>1. {days[d].order : d \in p.from..p.to} = {d - p.from : d \in p.from..p.to} BY <1>5
  <2>2. QED BY <1>4, <2>1, RangeContiguous
<1>7. Usable(after) /\ DOMAIN after.days = p.from..p.to
  <2>1. days = [d \in p.from..p.to |-> days[d]] OBVIOUS
  <2> HIDE DEF days
  <2>2. after = [title |-> "preview", from |-> plan.from, to |-> plan.to, days |-> days]
    BY <1>2, Retitled, Zenon
  <2>3. plan.from \in Dates /\ plan.to \in Dates BY <1>2 DEF IsPlan
  <2> DEFINE D == p.from..p.to
  <2>4. D \subseteq Dates /\ \A d \in D : days[d] \in Days BY <1>4, <1>5
  <2>5. days = [d \in D |-> days[d]] /\ {days[d].order : d \in D} = 0..(Cardinality(D) - 1)
    BY <1>6, <2>1
  <2> HIDE DEF after, D
  <2>6. Usable(after) /\ DOMAIN after.days = D BY <2>2, <2>3, <2>4, <2>5, PlanOf
  <2>7. QED BY <2>6 DEF D
<1>8. \A d \in asked : /\ d \in p.from..p.to
                       /\ NewJob(d, days[d]) \in JobRows /\ NewJob(d, days[d]).id = <<version + 1, d>>
                       /\ <<version + 1, d>> \in JobIds
  BY <1>3, <1>4, <1>5, NewJobFits
<1>9. rows \subseteq JobRows /\ tasks' \subseteq JobIds
  BY <1>1, <1>8 DEF Sound, AllUsable, TypeOK
<1>10. \A j \in rows : j.id[2] \in p.from..p.to
  <2> HIDE DEF days, asked
  <2>1. ASSUME NEW d \in asked PROVE NewJob(d, days[d]).id[2] \in p.from..p.to
    <3>1. NewJob(d, days[d]).id = <<version + 1, d>> /\ d \in p.from..p.to BY <1>8
    <3>2. QED BY <3>1
  <2>2. QED BY <2>1
<1>11. \A q \in {p} : IsPreview(q) /\ SeenByPreview(q) BY <1>1, <1>2
<1> HIDE DEF after, rows
<1>12. \A j \in rows : j.id[2] \in DOMAIN after.days BY <1>7, <1>10
<1>13. QED BY <1>1, <1>7, <1>9, <1>11, <1>12, ApplyUsable

(***************************************************************************)
(* The worker, the generation of previews, the deletion and the start      *)
(***************************************************************************)

\* What a step that writes no version, operation or preview row must see to.
LEMMA RowsUsable ==
  ASSUME Sound, UNCHANGED <<version, versions, operations>>,
         IF Exists THEN Usable(plan') ELSE plan' = NoPlan,
         \A p \in previews' : IsPreview(p),
         jobs' \subseteq JobRows, \A j \in jobs' : j.id[2] \in DOMAIN plan'.days,
         tasks' \subseteq JobIds,
         worker' \in [Workers -> Calculations \cup {Idle}], crashes' \in 0..MaxCrashes
  PROVE  AllUsable'
<1>1. TypeOK' BY DEF Sound, AllUsable, TypeOK, Usable
<1>2. PreviewOnItsBase' BY DEF Sound, AllUsable, PreviewOnItsBase
<1>3. JobsHaveDays' BY DEF JobsHaveDays
<1>4. (IF Exists THEN Usable(plan) ELSE plan = NoPlan)' BY DEF Exists
<1>5. \A v \in DOMAIN versions' : Usable(versions'[v]) BY DEF Sound, AllUsable
<1>6. QED BY <1>1, <1>2, <1>3, <1>4, <1>5 DEF AllUsable

\* What every step finds.
LEMMA Found ==
  ASSUME Sound
  PROVE  /\ IF Exists THEN Usable(plan) ELSE plan = NoPlan
         /\ \A p \in previews : IsPreview(p)
         /\ jobs \subseteq JobRows /\ \A j \in jobs : j.id[2] \in DOMAIN plan.days
         /\ tasks \subseteq JobIds
         /\ worker \in [Workers -> Calculations \cup {Idle}] /\ crashes \in 0..MaxCrashes
BY DEF Sound, AllUsable, TypeOK, JobsHaveDays

LEMMA SetIdle ==
  ASSUME Sound, NEW w \in Workers, worker' = [worker EXCEPT ![w] = Idle]
  PROVE  worker' \in [Workers -> Calculations \cup {Idle}]
BY Found

\* The row a worker holds, written back with its outcome.
LEMMA SettledRow ==
  ASSUME NEW row \in JobRows, NEW status \in {"completed", "failed"}
  PROVE  LET new == [row EXCEPT !.status = status] IN new \in JobRows /\ new.id = row.id
BY DEF JobRows

LEMMA FinishUsable ==
  ASSUME Sound, NEW w \in Workers, NEW status \in {"completed", "failed"}, NEW after,
         Finish(w, status, after),
         IF Exists THEN Usable(after) ELSE after = NoPlan, DOMAIN after.days = DOMAIN plan.days
  PROVE  AllUsable'
<1> DEFINE row == worker[w].row
           new == [row EXCEPT !.status = status]
<1>1. /\ row \in jobs /\ plan' = after /\ jobs' = (jobs \ {row}) \cup {new}
      /\ tasks' = tasks \ {row.id} /\ worker' = [worker EXCEPT ![w] = Idle]
      /\ UNCHANGED <<version, versions, operations, previews, crashes>>
  BY DEF Finish, RowExists
<1>2. row \in JobRows BY <1>1, Found
<1>3. new \in JobRows /\ new.id = row.id BY <1>2, SettledRow
<1> HIDE DEF row, new
<1>4. jobs' \subseteq JobRows BY <1>1, <1>3, Found
<1>5. \A j \in jobs' : j.id[2] \in DOMAIN plan'.days BY <1>1, <1>3, Found
<1>6. tasks' \subseteq JobIds BY <1>1, Found
<1>7. worker' \in [Workers -> Calculations \cup {Idle}] BY <1>1, SetIdle
<1>8. IF Exists THEN Usable(plan') ELSE plan' = NoPlan BY <1>1
<1>9. \A p \in previews' : IsPreview(p) BY <1>1, Found
<1>10. crashes' \in 0..MaxCrashes /\ UNCHANGED <<version, versions, operations>> BY <1>1, Found
<1>11. QED BY <1>4, <1>5, <1>6, <1>7, <1>8, <1>9, <1>10, RowsUsable

LEMMA CompleteUsable == ASSUME Sound, NEW w \in Workers, Complete(w) PROVE AllUsable'
<1> DEFINE row == worker[w].row
           d == row.id[2]
           events == worker[w].events
           along == Along(events)
           new == [plan.days[d] EXCEPT !.route = along]
           after == SetDay(d, new)
<1>1. worker[w] # Idle /\ row \in jobs /\ Finish(w, "completed", after)
  BY DEF Complete, Finish, RowExists
<1>2. d \in DOMAIN plan.days BY <1>1, Found
<1>3. Exists /\ Usable(plan)
  <2>1. DOMAIN NoPlan.days = {} BY DEF NoPlan
  <2>2. QED BY <1>2, <2>1, Found
<1>4. worker[w] \in Calculations BY <1>1, Found
<1>5. events \in Seq(Stops) BY <1>4 DEF Calculations
<1>6. along \in Seq(Pois)
  <2> DEFINE n == Len(events)
  <2>1. n \in Nat /\ DOMAIN events = 1..n /\ \A i \in 1..n : events[i] \in Stops
    BY <1>5, LenProperties, ElementOfSeq
  <2>2. CASE n < 2
    <3>1. along = <<>> BY <2>2 DEF Along
    <3>2. QED BY <3>1, EmptySeq
  <2>3. CASE ~(n < 2)
    <3>1. along = [i \in 1..n |-> events[i].poi] BY <2>1, <2>3 DEF Along
    <3>2. \A i \in 1..n : events[i].poi \in Pois BY <2>1 DEF Stops
    <3> HIDE DEF along
    <3>3. along \in [1..n -> Pois] BY <3>1, <3>2
    <3>4. QED BY <2>1, <3>3, SeqDef
  <2>4. QED BY <2>2, <2>3
<1>7. new \in Days /\ new.order = plan.days[d].order
  <2>1. plan.days[d] \in Days BY <1>2, <1>3, DayFound
  <2> HIDE DEF along, d
  <2>2. QED BY <1>6, <2>1 DEF Days
<1>8. Usable(after) /\ DOMAIN after.days = DOMAIN plan.days BY <1>2, <1>3, <1>7, SetDayUsable
<1> HIDE DEF after
<1>9. QED BY <1>1, <1>3, <1>8, FinishUsable

LEMMA LoadUsable == ASSUME Sound, NEW w \in Workers, NEW k, Load(w, k) PROVE AllUsable'
<1>1. PICK j \in jobs : j.id = k /\ worker' = [worker EXCEPT ![w] =
         [at |-> "calculating", row |-> j, events |-> plan.days[k[2]].events]]
  BY DEF Load
<1>2. UNCHANGED <<version, plan, versions, operations, jobs, previews, tasks, crashes>>
  BY DEF Load, editVars
<1>3. k[2] \in DOMAIN plan.days /\ j \in JobRows BY <1>1, Found
<1>4. Exists
  <2>1. DOMAIN NoPlan.days = {} BY DEF NoPlan
  <2>2. QED BY <1>3, <2>1, Found
<1>5. plan.days[k[2]].events \in Seq(Stops) BY <1>3, <1>4, DayFound
<1>6. worker' \in [Workers -> Calculations \cup {Idle}]
  <2> DEFINE read == [at |-> "calculating", row |-> j, events |-> plan.days[k[2]].events]
  <2>1. read \in Calculations BY <1>3, <1>5 DEF Calculations
  <2> HIDE DEF read
  <2>2. worker' = [worker EXCEPT ![w] = read] BY <1>1 DEF read
  <2>3. QED BY <2>1, <2>2, Found
<1>7. QED BY <1>2, <1>6, Found, RowsUsable

LEMMA WorkerUsable == ASSUME Sound, WorkerStep PROVE AllUsable'
<1>1. PICK w \in Workers : Settle(w) \/ Crash(w) \/ \E k \in tasks : Load(w, k) \/ Skip(w, k)
  BY DEF WorkerStep
<1>2. CASE Complete(w) BY <1>2, CompleteUsable
<1>3. CASE Fail(w)
  <2>1. Finish(w, "failed", plan) BY <1>3 DEF Fail
  <2>2. QED BY <2>1, Found, FinishUsable
<1>4. CASE Raise(w)
  <2>1. /\ worker' = [worker EXCEPT ![w] = Idle]
        /\ UNCHANGED <<version, plan, versions, operations, jobs, previews, tasks, crashes>>
    BY <1>4 DEF Raise, editVars
  <2>2. QED BY <2>1, SetIdle, Found, RowsUsable
<1>5. CASE Crash(w)
  <2>1. /\ worker' = [worker EXCEPT ![w] = Idle] /\ crashes < MaxCrashes /\ crashes' = crashes + 1
        /\ UNCHANGED <<version, plan, versions, operations, jobs, previews, tasks>>
    BY <1>5 DEF Crash, editVars
  <2>2. crashes' \in 0..MaxCrashes BY <2>1, Found, ItineraryAssumption
  <2>3. QED BY <2>1, <2>2, SetIdle, Found, RowsUsable
<1>6. ASSUME NEW k \in tasks, Skip(w, k) PROVE AllUsable'
  <2>1. /\ tasks' = tasks \ {k}
        /\ UNCHANGED <<version, plan, versions, operations, jobs, previews, worker, crashes>>
    BY <1>6 DEF Skip, editVars, workerVars
  <2>2. tasks' \subseteq JobIds BY <2>1, Found
  <2>3. QED BY <2>1, <2>2, Found, RowsUsable
<1>7. QED BY <1>1, <1>2, <1>3, <1>4, <1>5, <1>6, LoadUsable DEF Settle

LEMMA DraftsArePreviews ==
  ASSUME NEW r, r[1] \in Dates, r[2] \in Dates, NEW base \in 0..MaxVersion,
         NEW p \in DraftsFor(r, base)
  PROVE  IsPreview(p)
BY DEF DraftsFor, IsPreview

LEMMA GenerateUsable == ASSUME Sound, Generate PROVE AllUsable'
<1>1. Exists /\ UNCHANGED <<version, plan, versions, operations, jobs, tasks, worker, crashes>>
  BY DEF Generate, editVars, workerVars
<1>2. PICK p \in DraftsFor(<<plan.from, plan.to>>, version) : previews' = {p} BY DEF Generate
<1>3. plan.from \in Dates /\ plan.to \in Dates BY <1>1, Found DEF Usable, IsPlan
<1>4. version \in 0..MaxVersion BY DEF Sound, AllUsable, TypeOK
<1>5. IsPreview(p)
  <2> DEFINE r == <<plan.from, plan.to>>
  <2>1. r[1] \in Dates /\ r[2] \in Dates BY <1>3
  <2> HIDE DEF r
  <2>2. QED BY <1>2, <1>4, <2>1, DraftsArePreviews DEF r
<1>6. \A q \in previews' : IsPreview(q) BY <1>2, <1>5
<1>7. QED BY <1>1, <1>6, Found, RowsUsable

LEMMA DeleteUsable == ASSUME Sound, Delete PROVE AllUsable'
<1>1. /\ version' = 0 /\ plan' = NoPlan /\ versions' = <<>> /\ jobs' = {}
      /\ operations' = [o \in Operations |-> Unused]
      /\ UNCHANGED <<previews, tasks, worker, crashes>>
  BY DEF Delete, workerVars
<1>2. DOMAIN versions' = {} BY <1>1
<1>3. \A o \in Operations : operations'[o] = Unused BY <1>1
<1>4. TypeOK'
  <2>1. 0 \in 0..MaxVersion BY ItineraryAssumption
  <2>2. QED BY <1>1, <1>2, <1>3, <2>1, Found DEF TypeOK, Unused
<1>5. PreviewOnItsBase' BY <1>3 DEF PreviewOnItsBase, Unused
<1>6. JobsHaveDays' BY <1>1 DEF JobsHaveDays
<1>7. (IF Exists THEN Usable(plan) ELSE plan = NoPlan)' BY <1>1 DEF Exists
<1>8. QED BY <1>2, <1>4, <1>5, <1>6, <1>7 DEF AllUsable

LEMMA CreatedUsable ==
  ASSUME NEW r \in Ranges, NEW D, D \subseteq Dates, NEW days, days = [d \in D |-> days[d]],
         \A d \in D : days[d] \in Days,
         {days[d].order : d \in D} = 0..(Cardinality(D) - 1),
         Created(r, days)
  PROVE  Usable(plan)
<1>1. plan = [title |-> "own", from |-> r[1], to |-> r[2], days |-> days] BY DEF Created
<1>2. r[1] \in Dates /\ r[2] \in Dates BY ItineraryAssumption
<1>3. QED BY <1>1, <1>2, PlanOf

LEMMA InitUsable == Init => AllUsable
<1> SUFFICES ASSUME Init PROVE AllUsable OBVIOUS
<1>1. PICK r \in Ranges :
        \/ Created(r, <<>>) /\ previews = {}
        \/ Created(r, [d \in r[1]..r[2] |-> NewDay(1, d - r[1], <<>>)]) /\ previews = {}
        \/ Created(r, <<>>) /\ \E p \in DraftsFor(r, NoBase) : previews = {p}
  BY DEF Init
<1>2. r[1] \in Dates /\ r[2] \in Dates /\ r[1] \in Int /\ r[2] \in Int /\ r[1]..r[2] \subseteq Dates
  BY ItineraryAssumption
<1>3. 1 \in Versions /\ 0 \in 0..MaxVersion /\ 1 \in 0..MaxVersion /\ 0 \in 0..MaxCrashes
  BY ItineraryAssumption DEF Versions
<1>4. Usable(plan)
  <2>1. CASE Created(r, <<>>)
    <3> DEFINE none == <<>>
    <3>1. none = [d \in {} |-> none[d]] OBVIOUS
    <3>2. {none[d].order : d \in {}} = {} /\ Cardinality({}) = 0 BY FS_EmptySet
    <3>3. {none[d].order : d \in {}} = 0..(Cardinality({}) - 1) BY <3>2
    <3>4. Created(r, none) BY <2>1
    <3> HIDE DEF none
    <3>5. QED BY <3>1, <3>3, <3>4, CreatedUsable
  <2>2. CASE Created(r, [d \in r[1]..r[2] |-> NewDay(1, d - r[1], <<>>)])
    <3> DEFINE D == r[1]..r[2]
               days == [d \in D |-> NewDay(1, d - r[1], <<>>)]
    <3>1. <<>> \in Seq(Stops) /\ <<>> \in Seq(Pois) BY EmptySeq
    <3>2. ASSUME NEW d \in D PROVE days[d] \in Days /\ days[d].order = d - r[1]
      <4>1. d - r[1] \in Nat BY <1>2
      <4>2. QED BY <1>3, <3>1, <4>1 DEF NewDay, Days
    <3>3. {days[d].order : d \in D} = {d - r[1] : d \in D} BY <3>2
    <3>4. {d - r[1] : d \in D} = 0..(Cardinality(D) - 1) BY <1>2, RangeContiguous
    <3>5. days = [d \in D |-> days[d]] /\ D \subseteq Dates BY <1>2
    <3>6. Created(r, days) BY <2>2
    <3> HIDE DEF days, D
    <3>7. {days[d].order : d \in D} = 0..(Cardinality(D) - 1) BY <3>3, <3>4
    <3>8. QED BY <3>2, <3>5, <3>6, <3>7, CreatedUsable
  <2>3. QED BY <1>1, <2>1, <2>2
<1>5. version = 1 /\ versions = <<plan>> BY <1>1 DEF Created
<1>6. DOMAIN versions = {1} /\ versions[1] = plan BY <1>5
<1>7. \A p \in previews : IsPreview(p) BY <1>1, <1>2, <1>3, DraftsArePreviews DEF NoBase
<1>8. /\ jobs = {} /\ tasks = {} /\ worker = [w \in Workers |-> Idle] /\ crashes = 0
      /\ \A o \in Operations : operations[o] = Unused
  BY DEF Init
<1>9. TypeOK BY <1>3, <1>4, <1>5, <1>6, <1>7, <1>8 DEF TypeOK, Usable, Unused
<1>10. PreviewOnItsBase /\ JobsHaveDays BY <1>8 DEF PreviewOnItsBase, JobsHaveDays, Unused
<1>11. Exists BY <1>5 DEF Exists
<1>12. QED BY <1>4, <1>6, <1>9, <1>10, <1>11 DEF AllUsable

LEMMA StillUsable == ASSUME Sound, UNCHANGED vars PROVE AllUsable'
<1>1. UNCHANGED <<version, plan, versions, operations, previews, jobs, tasks, worker, crashes>>
  BY DEF vars
<1>2. QED BY <1>1, Found, RowsUsable

LEMMA EditsUsable == ASSUME Sound, Edit PROVE AllUsable'
<1>1. PICK o \in Operations, b \in Versions :
        \/ \E d \in Dates : EditDay(o, b, d) \/ \E i \in 1..MaxStops : EditStop(o, b, d, i)
        \/ \E v \in Versions : RestoreVersion(o, b, v)
        \/ \E p \in previews : ApplyPreview(o, b, p)
  BY DEF Edit
<1>2. ASSUME NEW d \in Dates, EditDay(o, b, d) PROVE AllUsable'
  BY <1>2, AddDayUsable, RemoveDayUsable, RecalculateUsable, AddEventUsable DEF EditDay
<1>3. ASSUME NEW d \in Dates, NEW i \in 1..MaxStops, EditStop(o, b, d, i) PROVE AllUsable'
  BY <1>3, RemoveEventUsable, UpdateEventUsable, ReorderEventUsable DEF EditStop
<1>4. QED BY <1>1, <1>2, <1>3, RestoreUsable, PreviewUsable

LEMMA StepSound == Sound /\ [Next]_vars => Sound'
<1> SUFFICES ASSUME Sound, [Next]_vars PROVE Sound' OBVIOUS
<1>1. History' /\ Ledger' BY StepHistory, StepLedger DEF Sound
<1>2. AllUsable'
  BY EditsUsable, GenerateUsable, DeleteUsable, WorkerUsable, StillUsable DEF Next
<1>3. QED BY <1>1, <1>2 DEF Sound

\* Whatever is edited, removed, restored and applied, in any order and beside
\* any calculations, what is stored is of its type, a preview replaces the
\* version it was made from and no other, and the days are numbered from 0
\* without gaps.
THEOREM VersionsUsable == Spec => []VersionsAreUsable
<1>1. Init => Sound BY InitHistory, InitLedger, InitUsable DEF Sound
<1>2. Sound => VersionsAreUsable
  BY DEF Sound, AllUsable, VersionsAreUsable, OrdersAreContiguous, Usable, Contiguous
<1>3. QED BY <1>1, <1>2, StepSound, PTL DEF Spec

=============================================================================
