----------------------------- MODULE MCServices -----------------------------
(***************************************************************************)
(* What must come to an end behind the pages: payments, the projection of  *)
(* memories, the cleanup of uploads, exports, planning runs and the tokens *)
(* of accounts.  The components share no state and are explored side by    *)
(* side, `part` being the one that runs and to which its fairness applies. *)
(***************************************************************************)
EXTENDS OrderPayment, Accounts, Memory, Exports, Planning, TLC

CONSTANTS
  Parts,
  key1, key2,     \* trades
  session1, session2,
  m1, w1, w2,     \* memories
  a1, a2,         \* uploads
  x1, e1, e2, e3, \* exports
  p1, p2, p3, p4  \* planning

ASSUME ServicesAssumption ==
  Parts \subseteq {"payment", "memory", "slow", "uploads", "exports", "planning", "accounts"}

VARIABLES part, asset, due, objects, complete, cleanup, uploadCrashes

\* In Memory stores and workers fail and no lease expires; here a lease expires
\* under its worker and nothing fails.
Slow == INSTANCE Memory WITH MaxFaults <- 0, MaxSlow <- 1

Up == INSTANCE Uploads WITH Assets <- {a1, a2}, MaxTries <- 3, MaxCrashes <- 1

TheAdcode == p1 :> "district" @@ p2 :> "city" @@ p3 :> "city" @@ p4 :> "elsewhere"

TheReviewed ==
  {Cite("reviewed", p1, "city"), Cite("reviewed", p4, "elsewhere"), Cite("reviewed", None, "city")}

TheWishes == {{}, {p1}}

TheBase == <<<<p1, p2>>>>

----------------------------------------------------------------------------
Begins ==
  /\ part \in Parts
  /\ Init
  /\ IF part = "slow" THEN Slow!MemoryInit ELSE MemoryInit
  /\ Up!UploadsInit
  /\ ExportsInit
  /\ PlanningInit /\ (part # "planning" => request.new /\ request.must = {})
  /\ AccountsInit

paymentVars == vars

uploadVars == <<asset, due, objects, complete, cleanup, uploadCrashes>>

\* The components other than the one that runs.
Rest(p) ==
  /\ part = p
  /\ IF p = "payment" THEN TRUE ELSE UNCHANGED paymentVars
  /\ IF p \in {"memory", "slow"} THEN TRUE ELSE UNCHANGED memoryVars
  /\ IF p = "uploads" THEN TRUE ELSE UNCHANGED uploadVars
  /\ IF p = "exports" THEN TRUE ELSE UNCHANGED exportVars
  /\ IF p = "planning" THEN TRUE ELSE UNCHANGED planningVars
  /\ IF p = "accounts" THEN TRUE ELSE UNCHANGED accountVars
  /\ UNCHANGED part

\* Bound: while both changes of accounts are under way, one session is.
AccountsBound ==
  \/ \E t \in Changes : changes[t] = AtRest
  \/ \E s \in Slots : sessions[s] = Unused

Step ==
  \/ Rest("payment") /\ Next
  \/ Rest("memory") /\ MemoryNext
  \/ Rest("slow") /\ Slow!MemoryNext
  \/ Rest("uploads") /\ Up!UploadsNext
  \/ Rest("exports") /\ ExportsNext
  \/ Rest("planning") /\ PlanningNext
  \/ Rest("accounts") /\ AccountsNext /\ AccountsBound'

everything ==
  <<part, paymentVars, memoryVars, uploadVars, exportVars, planningVars, accountVars>>

\* The fairness of each component, while it runs.  As part never changes, a
\* step of one component and a step of another share a condition.
InTurn(k, w, e) ==
  \/ Rest("payment") /\ SettleNotice(k, "success")
  \/ Rest("memory") /\ Drain(w)
  \/ Rest("slow") /\ Slow!Drain(w)
  \/ Rest("exports") /\ RunExport(e)

Fairness ==
  /\ WF_everything(InTurn(key1, w1, e1) \/ (Rest("accounts") /\ IssueSession(session1)))
  /\ WF_everything(InTurn(key2, w2, e2) \/ (Rest("accounts") /\ IssueSession(session2)))
  /\ WF_everything(\/ Rest("exports") /\ RunExport(e3)
                   \/ Rest("uploads") /\ Up!Sweep
                   \/ Rest("planning") /\ PlanningNext
                   \/ Rest("accounts") /\ Tick)

Services == Begins /\ [][Step]_everything /\ Fairness

----------------------------------------------------------------------------
\* Every variable of every component keeps its type.
ServicesTypeOK ==
  CASE part = "payment" -> TypeOK
    [] part = "memory" -> MemoryTypeOK
    [] part = "slow" -> Slow!MemoryTypeOK
    [] part = "uploads" -> Up!UploadsTypeOK
    [] part = "exports" -> ExportsTypeOK
    [] part = "planning" -> PlanningTypeOK
    [] part = "accounts" -> AccountsTypeOK

\* Uploads: a requested cleanup reaches every overdue upload.
CleanupIsThorough == Up!CleanupIsThorough

\* Planning: a run ends.
PlanningStops == part = "planning" => PlanningEnds
=============================================================================
