---------------------------- MODULE FieldNotes ------------------------------
(***************************************************************************)
(* Field notes: a frozen itinerary version published as a post, and the    *)
(* itineraries that readers copy from it.                                  *)
(* Sources: community/service.py, community/router.py, community/models.py,*)
(* itineraries/service.py, itineraries/models.py.                          *)
(*                                                                         *)
(* A copy is made once per Idempotency-Key: the request looks for the      *)
(* operation, then inserts it with the itinerary and counts it in one      *)
(* transaction.                                                            *)
(***************************************************************************)
EXTENDS Integers

CONSTANTS
  Notes,
  Copiers,  \* requests to copy
  CopyKeys, \* user and Idempotency-Key
  MaxCopies \* bound: copies of a note

ASSUME NotesAssumption == MaxCopies \in Nat

VARIABLES
  note,    \* posts: status, copy_count
  copied,  \* itinerary_copy_operations: <<note, key>>
  made,    \* itineraries ever made from a note
  copier   \* requests to copy: what they have read

noteVars == <<note, copied, made, copier>>

NoteStatuses == {"none", "pending_review", "published", "hidden", "rejected"}

\* uq_itinerary_copy_operations_actor_source_key, of one user
CopyOperations == Notes \X CopyKeys

Copying == {[phase |-> "idle"]} \union
  [phase : {"insert", "found"}, note : Notes, key : CopyKeys, seen : 0..MaxCopies]

NotesTypeOK ==
  /\ note \in [Notes -> [status : NoteStatuses, copies : 0..MaxCopies]]
  /\ copied \subseteq CopyOperations
  /\ made \in [Notes -> 0..MaxCopies]
  /\ copier \in [Copiers -> Copying]

NotesInit ==
  /\ note = [n \in Notes |-> [status |-> "none", copies |-> 0]]
  /\ copied = {} /\ made = [n \in Notes |-> 0]
  /\ copier = [c \in Copiers |-> [phase |-> "idle"]]

----------------------------------------------------------------------------
\* From a version of the author's itinerary that has a stop, with images that
\* are completely uploaded.
CreateFieldNote(n) ==
  /\ note[n].status = "none"
  /\ note' = [note EXCEPT ![n].status = "pending_review"]
  /\ UNCHANGED <<copied, made, copier>>

PublishNote(n) ==
  /\ note[n].status = "pending_review"
  /\ note' = [note EXCEPT ![n].status = "published"]
  /\ UNCHANGED <<copied, made, copier>>

RejectNote(n) ==
  /\ note[n].status = "pending_review"
  /\ note' = [note EXCEPT ![n].status = "rejected"]
  /\ UNCHANGED <<copied, made, copier>>

Hide(n) ==
  /\ note[n].status = "published"
  /\ note' = [note EXCEPT ![n].status = "hidden"]
  /\ UNCHANGED <<copied, made, copier>>

----------------------------------------------------------------------------
NotCopying(c) == copier[c].phase = "idle"

Phase(c, r) == copier' = [copier EXCEPT ![c] = r]

\* Reads the post and looks for an operation of the key.
StartCopy(c, n, k) ==
  /\ NotCopying(c) /\ note[n].status = "published" /\ made[n] < MaxCopies
  /\ Phase(c, [phase |-> IF <<n, k>> \in copied THEN "found" ELSE "insert", note |-> n, key |-> k, seen |-> note[n].copies])
  /\ UNCHANGED <<note, copied, made>>

\* Mutant of Counted: the count is computed from the post that was read.
CountedFromRead(c) == copier[c].seen + 1

\* UPDATE posts SET copy_count = copy_count + 1
Counted(c) == note[copier[c].note].copies + 1

\* Whoever loses the race finds the winner's itinerary after all.
InsertCopy(c) ==
  /\ copier[c].phase = "insert"
  /\ LET n == copier[c].note IN
     IF <<n, copier[c].key>> \in copied
     THEN Phase(c, [copier[c] EXCEPT !.phase = "found"]) /\ UNCHANGED <<note, copied, made>>
     ELSE /\ made[n] < MaxCopies
          /\ copied' = copied \union {<<n, copier[c].key>>}
          /\ made' = [made EXCEPT ![n] = @ + 1]
          /\ note' = [note EXCEPT ![n].copies = Counted(c)]
          /\ Phase(c, [phase |-> "idle"])

AnswerFound(c) ==
  /\ copier[c].phase = "found" /\ Phase(c, [phase |-> "idle"])
  /\ UNCHANGED <<note, copied, made>>

\* The copy is deleted, and its operation with it.
DeleteCopy(n, k) ==
  /\ <<n, k>> \in copied
  /\ copied' = copied \ {<<n, k>>}
  /\ UNCHANGED <<note, made, copier>>

NotesNext ==
  \/ \E n \in Notes : CreateFieldNote(n) \/ PublishNote(n) \/ RejectNote(n) \/ Hide(n)
  \/ \E c \in Copiers, n \in Notes, k \in CopyKeys : StartCopy(c, n, k)
  \/ \E c \in Copiers : InsertCopy(c) \/ AnswerFound(c)
  \/ \E n \in Notes, k \in CopyKeys : DeleteCopy(n, k)

NotesSpec == NotesInit /\ [][NotesNext]_noteVars

----------------------------------------------------------------------------
\* The count of a note is the number of itineraries made from it, however
\* requests overlap, repeat a key, or copies are deleted.
CopiesAreCounted == \A n \in Notes : note[n].copies = made[n]
=============================================================================
