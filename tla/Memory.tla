------------------------------ MODULE Memory ------------------------------
(***************************************************************************)
(* A user's explicit memories and their projection into the private        *)
(* retrieval stores: every change writes a version and a task in one       *)
(* transaction, workers lease the tasks and copy the memory into the       *)
(* dense and the keyword store under a lock on the memory's row.           *)
(* Sources: ai_memory/postgres.py, ai_memory/projection_worker.py,         *)
(* ai_memory/projection.py, ai_memory/private_retrieval.py.                *)
(*                                                                         *)
(* The content of a memory is its version.  A lease expires (300 s) while  *)
(* its worker is still at work at most MaxSlow times; a store or a worker  *)
(* fails at most MaxFaults times.  Backing off is waiting: a claim may     *)
(* come at any later time.                                                 *)
(***************************************************************************)
EXTENDS Integers, Sequences, FiniteSets, Functions

CONSTANTS
  Mems,       \* ids of one user's memories
  Workers,    \* projection workers and command-line drains
  MaxVersion, \* bound: versions of a memory
  MaxFaults,  \* bound: failures and crashes
  MaxSlow     \* bound: leases that expire under a worker

ASSUME MemoryAssumption ==
  /\ IsFiniteSet(Mems)
  /\ MaxVersion \in Nat \ {0} /\ MaxFaults \in Nat /\ MaxSlow \in Nat

VARIABLES
  memory, \* ai_memories
  tasks,  \* ai_memory_projection_tasks: the task of each version
  work,   \* what each worker does
  dense,  \* versions of a memory whose chunks the vector store has
  bm25,   \* versions of a memory whose chunks the keyword store has
  faults, slow

memoryVars == <<memory, tasks, work, dense, bm25, faults, slow>>

Kinds == {"profile", "episodic"}

NoMemory == [version |-> 0, deleted |-> FALSE, kind |-> "episodic"]

\* `lease` is the worker that holds the lease token.
NoTask == [status |-> "none", lease |-> "none"]

Asked == [status |-> "requested", lease |-> "none"]

Leased(w) == [status |-> "leased", lease |-> w]

Completed == [status |-> "completed", lease |-> "none"]

Tasks == Mems \X (1..MaxVersion)

Resting == [task |-> <<>>, steps |-> <<>>, locked |-> FALSE]

DeleteSteps == <<"delete_dense", "delete_bm25">>

ProjectSteps == DeleteSteps \o <<"put_dense", "put_bm25">>

IsWork(x) ==
  /\ DOMAIN x = {"task", "steps", "locked"}
  /\ x.task \in Tasks \cup {<<>>} /\ x.locked \in BOOLEAN
  /\ \E i \in 1..5 : x.steps = SubSeq(ProjectSteps, i, 4) \/ x.steps = SubSeq(DeleteSteps, i, 2)

MemoryTypeOK ==
  /\ memory \in [Mems -> [version : 0..MaxVersion, deleted : BOOLEAN, kind : Kinds]]
  /\ tasks \in [Tasks -> {NoTask, Asked, Completed} \cup {Leased(w) : w \in Workers}]
  /\ \A w \in Workers : IsWork(work[w])
  /\ dense \in [Mems -> SUBSET (1..MaxVersion)] /\ bm25 \in [Mems -> SUBSET (1..MaxVersion)]
  /\ faults \in 0..MaxFaults /\ slow \in 0..MaxSlow

MemoryInit ==
  /\ memory = [m \in Mems |-> NoMemory]
  /\ tasks = [t \in Tasks |-> NoTask]
  /\ work = [w \in Workers |-> Resting]
  /\ dense = [m \in Mems |-> {}] /\ bm25 = [m \in Mems |-> {}]
  /\ faults = 0 /\ slow = 0

----------------------------------------------------------------------------
(* The owner changes his memories *)

Exists(m) == memory[m].version > 0

Active(m) == Exists(m) /\ ~memory[m].deleted

\* Mutant of RowFree: a worker reads the row without locking it.
RowFreeAlways(m) == TRUE

\* A worker holds the row while it projects.
RowFree(m) == \A w \in Workers : work[w].locked => work[w].task[1] # m

\* A change commits with the task of its version.
Write(m, row) ==
  /\ memory' = [memory EXCEPT ![m] = row]
  /\ tasks' = [tasks EXCEPT ![<<m, row.version>>] = Asked]
  /\ UNCHANGED <<work, dense, bm25, faults, slow>>

\* At most one travel profile is active.
CreateMemory(m, kind) ==
  /\ ~Exists(m)
  /\ kind = "profile" => \A n \in Mems : Active(n) => memory[n].kind # "profile"
  /\ Write(m, [version |-> 1, deleted |-> FALSE, kind |-> kind])

Changeable(m) == Active(m) /\ RowFree(m) /\ memory[m].version < MaxVersion

UpdateMemory(m) == Changeable(m) /\ Write(m, [memory[m] EXCEPT !.version = @ + 1])

\* ON CONFLICT: saved settings replace the active profile, if there is one.
UpsertProfile(m) == CreateMemory(m, "profile") \/ (memory[m].kind = "profile" /\ UpdateMemory(m))

DeleteMemory(m) == Changeable(m) /\ Write(m, [memory[m] EXCEPT !.version = @ + 1, !.deleted = TRUE])

----------------------------------------------------------------------------
(* A projection worker *)

Busy(t) == \E w \in Workers : work[w].task = t /\ tasks[t] = Leased(w)

\* Mutant of Recoverable: a lease that is left behind is never taken over.
RecoverableNone(t) == FALSE

\* Leases that the next claim finds expired: the worker is gone, or slow.
Recoverable(t) == tasks[t].status = "leased" /\ (Busy(t) => slow < MaxSlow)

\* The claim recovers expired leases; it takes a task that was waiting before.
Claim(w) ==
  /\ work[w] = Resting
  /\ \E late \in SUBSET {t \in Tasks : Recoverable(t)} :
       LET recovered == [t \in Tasks |-> IF t \in late THEN Asked ELSE tasks[t]]
           early == Cardinality({t \in late : Busy(t)})
       IN /\ slow + early <= MaxSlow /\ slow' = slow + early
          /\ \/ \E t \in Tasks :
                  /\ tasks[t] = Asked
                  /\ tasks' = [recovered EXCEPT ![t] = Leased(w)]
                  /\ work' = [work EXCEPT ![w] = [Resting EXCEPT !.task = t]]
             \/ /\ late # {} /\ \A t \in Tasks : tasks[t] # Asked
                /\ tasks' = recovered /\ UNCHANGED work
  /\ UNCHANGED <<memory, dense, bm25, faults>>

\* _complete: only under the worker's own lease.
CompletedBy(w) == IF tasks[work[w].task] = Leased(w)
                  THEN [tasks EXCEPT ![work[w].task] = Completed] ELSE tasks

MayLoad(w) == work[w].task # <<>> /\ ~work[w].locked /\ RowFree(work[w].task[1])

\* Nothing to do for a version that has been replaced.
Load(w) ==
  /\ MayLoad(w)
  /\ LET row == memory[work[w].task[1]]
     IN IF row.version > work[w].task[2]
        THEN work' = [work EXCEPT ![w] = Resting] /\ tasks' = CompletedBy(w)
        ELSE /\ work' = [work EXCEPT ![w].locked = TRUE,
                           ![w].steps = IF row.deleted THEN DeleteSteps ELSE ProjectSteps]
             /\ UNCHANGED tasks
  /\ UNCHANGED <<memory, dense, bm25, faults, slow>>

\* A document's chunks have the ids of the document, whatever their version;
\* a removed document's are gone.
Project(w) ==
  /\ work[w].steps # <<>>
  /\ LET m == work[w].task[1]  version == work[w].task[2]  step == Head(work[w].steps)
     IN /\ dense' = [dense EXCEPT ![m] = CASE step = "delete_dense" -> {} [] step = "put_dense" -> @ \cup {version} [] OTHER -> @]
        /\ bm25' = [bm25 EXCEPT ![m] = CASE step = "delete_bm25" -> {} [] step = "put_bm25" -> @ \cup {version} [] OTHER -> @]
  /\ work' = [work EXCEPT ![w].steps = Tail(@)]
  /\ UNCHANGED <<memory, tasks, faults, slow>>

Complete(w) ==
  /\ work[w].locked /\ work[w].steps = <<>>
  /\ tasks' = CompletedBy(w) /\ work' = [work EXCEPT ![w] = Resting]
  /\ UNCHANGED <<memory, dense, bm25, faults, slow>>

\* A store fails: what was written stays, the task is tried again later.
Retry(w) ==
  /\ work[w].task # <<>> /\ faults < MaxFaults /\ faults' = faults + 1
  /\ tasks' = IF tasks[work[w].task] = Leased(w) THEN [tasks EXCEPT ![work[w].task] = Asked] ELSE tasks
  /\ work' = [work EXCEPT ![w] = Resting]
  /\ UNCHANGED <<memory, dense, bm25, slow>>

\* The worker is gone, its locks with it; its lease remains.
Crash(w) ==
  /\ work[w].task # <<>> /\ faults < MaxFaults /\ faults' = faults + 1
  /\ work' = [work EXCEPT ![w] = Resting]
  /\ UNCHANGED <<memory, tasks, dense, bm25, slow>>

Drain(w) == Claim(w) \/ Load(w) \/ Project(w) \/ Complete(w)

MemoryNext ==
  \/ \E m \in Mems, kind \in Kinds : CreateMemory(m, kind)
  \/ \E m \in Mems : UpdateMemory(m) \/ UpsertProfile(m) \/ DeleteMemory(m)
  \/ \E w \in Workers : Drain(w) \/ Retry(w) \/ Crash(w)

MemorySpec == MemoryInit /\ [][MemoryNext]_memoryVars /\ \A w \in Workers : WF_memoryVars(Drain(w))

----------------------------------------------------------------------------
(* What retrieval shows *)

\* Chunks of more than one version are taken for none.
FoundVersions(m) ==
  LET found == dense[m] \cup bm25[m] IN IF Cardinality(found) = 1 THEN found ELSE {}

\* A profile is recalled when the version that is found is the current one.
Recalled(m) == Active(m) /\ memory[m].kind = "profile" /\ memory[m].version \in FoundVersions(m)

Holds(m, versions) == dense[m] = versions /\ bm25[m] = versions

\* The stores show a memory as its row says, the planner recalls the profiles.
UpToDate(m) ==
  /\ Holds(m, IF Active(m) THEN {memory[m].version} ELSE {})
  /\ Recalled(m) <=> Active(m) /\ memory[m].kind = "profile"

(* A memory whose deletion has been carried out is in neither store, and   *)
(* stays out, however late a worker with an older task comes back; and no  *)
(* store ever holds two versions of a memory or one that was never         *)
(* written (projection_worker.py: the row lock around load, delete, write).*)
DeletedIsForgotten ==
  \A m \in Mems :
    /\ memory[m].deleted /\ tasks[<<m, memory[m].version>>] = Completed => Holds(m, {})
    /\ Cardinality(dense[m]) <= 1 /\ Cardinality(bm25[m]) <= 1
    /\ dense[m] \cup bm25[m] \subseteq 1..memory[m].version

(* Once the owner stops changing it, every memory is shown by both stores  *)
(* in its last version, or by neither when it was deleted, and the planner *)
(* recalls the profiles, in spite of failures, crashes and retries.        *)
StoresCatchUp == \A m \in Mems : <>[]UpToDate(m)

=============================================================================
