------------------------------ MODULE Uploads ------------------------------
(***************************************************************************)
(* Media uploads: the client asks for an upload URL, puts the object and   *)
(* completes the asset; a requested cleanup expires what was not completed *)
(* in time and removes the objects.                                        *)
(* Sources: media/service.py, media/router.py, media/cli.py,               *)
(* workers/domain_handlers.py.                                             *)
(*                                                                         *)
(* Completing reads the asset, asks the object storage and writes without  *)
(* a lock.  The cleanup flushes its changes, which locks the rows, removes *)
(* the objects and commits; a worker that stops rolls back and the event   *)
(* is delivered again.  The storage fails at will.                         *)
(***************************************************************************)
EXTENDS Integers

CONSTANTS
  Assets,     \* media assets
  MaxTries,   \* deliveries of an event before it is dead-lettered
  MaxCrashes  \* bound: workers lost during a cleanup

VARIABLES
  asset,    \* media_assets.status
  due,      \* upload_expires_at has passed
  objects,  \* keys of the object storage
  complete, \* the completion request of an asset
  cleanup,  \* media.upload_cleanup_requested and its delivery
  uploadCrashes

uploadVars == <<asset, due, objects, complete, cleanup, uploadCrashes>>

AssetStatuses == {"none", "pending", "completed", "expired"}

Quiet == [phase |-> "none", ids |-> {}, left |-> {}, tries |-> 0]

UploadsTypeOK ==
  /\ asset \in [Assets -> AssetStatuses]
  /\ due \subseteq Assets /\ objects \subseteq Assets
  /\ complete \in [Assets -> {"none", "head", "write"}]
  /\ cleanup \in [phase : {"none", "queued", "selected", "flushed"}, ids : SUBSET Assets,
                  left : SUBSET Assets, tries : 0..MaxTries]
  /\ uploadCrashes \in 0..MaxCrashes

UploadsInit ==
  /\ asset = [a \in Assets |-> "none"]
  /\ due = {} /\ objects = {}
  /\ complete = [a \in Assets |-> "none"]
  /\ cleanup = Quiet /\ uploadCrashes = 0

----------------------------------------------------------------------------
CreateUploadRequest(a) ==
  /\ asset[a] = "none" /\ asset' = [asset EXCEPT ![a] = "pending"]
  /\ UNCHANGED <<due, objects, complete, cleanup, uploadCrashes>>

\* The upload URL is good until the request expires.
PutObject(a) ==
  /\ asset[a] # "none" /\ a \notin due
  /\ objects' = objects \cup {a}
  /\ UNCHANGED <<asset, due, complete, cleanup, uploadCrashes>>

TimePasses(a) ==
  /\ asset[a] # "none" /\ a \notin due /\ due' = due \cup {a}
  /\ UNCHANGED <<asset, objects, complete, cleanup, uploadCrashes>>

\* A row the cleanup has flushed is locked until the cleanup commits.
RowFree(a) == cleanup.phase = "flushed" => a \notin cleanup.ids

\* One attempt to remove an object; its failure changes nothing else.
Removed(gone) == objects' = objects \ gone

CompleteUpload(a) ==
  /\ complete[a] = "none" /\ asset[a] = "pending"
  /\ IF a \in due
     THEN /\ RowFree(a) /\ asset' = [asset EXCEPT ![a] = "expired"]
          /\ \E gone \in SUBSET {a} : Removed(gone)
          /\ UNCHANGED complete
     ELSE complete' = [complete EXCEPT ![a] = "head"] /\ UNCHANGED <<asset, objects>>
  /\ UNCHANGED <<due, cleanup, uploadCrashes>>

\* MEDIA_UPLOAD_NOT_FOUND or MEDIA_UPLOAD_INVALID, or the object is there.
HeadObject(a) ==
  /\ complete[a] = "head"
  /\ \/ a \in objects /\ complete' = [complete EXCEPT ![a] = "write"]
     \/ complete' = [complete EXCEPT ![a] = "none"]
  /\ UNCHANGED <<asset, due, objects, cleanup, uploadCrashes>>

\* The status is written whatever it has become since it was read.
WriteCompleted(a) ==
  /\ complete[a] = "write" /\ RowFree(a)
  /\ asset' = [asset EXCEPT ![a] = "completed"]
  /\ complete' = [complete EXCEPT ![a] = "none"]
  /\ UNCHANGED <<due, objects, cleanup, uploadCrashes>>

----------------------------------------------------------------------------
(* expire_pending_uploads *)

RequestCleanup ==
  /\ cleanup = Quiet /\ cleanup' = [cleanup EXCEPT !.phase = "queued"]
  /\ UNCHANGED <<asset, due, objects, complete, uploadCrashes>>

SelectOverdue ==
  /\ cleanup.phase = "queued"
  /\ cleanup' = [cleanup EXCEPT !.phase = "selected", !.ids = {a \in due : asset[a] = "pending"}]
  /\ UNCHANGED <<asset, due, objects, complete, uploadCrashes>>

FlushExpired ==
  /\ cleanup.phase = "selected"
  /\ cleanup' = [cleanup EXCEPT !.phase = "flushed", !.left = cleanup.ids]
  /\ UNCHANGED <<asset, due, objects, complete, uploadCrashes>>

\* Mutant of OnStorageFailure: the failure of the storage fails the delivery.
FailDelivery(a) ==
  cleanup' = IF cleanup.tries + 1 < MaxTries
             THEN [Quiet EXCEPT !.phase = "queued", !.tries = cleanup.tries + 1] ELSE Quiet

OnStorageFailure(a) == cleanup' = [cleanup EXCEPT !.left = @ \ {a}]

RemoveObject(a) ==
  /\ cleanup.phase = "flushed" /\ a \in cleanup.left
  /\ \/ Removed({a}) /\ cleanup' = [cleanup EXCEPT !.left = @ \ {a}]
     \/ Removed({}) /\ OnStorageFailure(a)
  /\ UNCHANGED <<asset, due, complete, uploadCrashes>>

CommitExpired ==
  /\ cleanup.phase = "flushed" /\ cleanup.left = {}
  /\ asset' = [a \in Assets |-> IF a \in cleanup.ids THEN "expired" ELSE asset[a]]
  /\ cleanup' = Quiet
  /\ UNCHANGED <<due, objects, complete, uploadCrashes>>

CrashCleanup ==
  /\ cleanup.phase \in {"selected", "flushed"} /\ uploadCrashes < MaxCrashes
  /\ uploadCrashes' = uploadCrashes + 1
  /\ cleanup' = [Quiet EXCEPT !.phase = "queued", !.tries = cleanup.tries]
  /\ UNCHANGED <<asset, due, objects, complete>>

Sweep ==
  \/ SelectOverdue \/ FlushExpired \/ CommitExpired
  \/ \E a \in Assets : RemoveObject(a)

UploadsNext ==
  \/ \E a \in Assets :
       \/ CreateUploadRequest(a) \/ PutObject(a) \/ TimePasses(a)
       \/ CompleteUpload(a) \/ HeadObject(a) \/ WriteCompleted(a)
  \/ RequestCleanup \/ Sweep \/ CrashCleanup

UploadsSpec == UploadsInit /\ [][UploadsNext]_uploadVars /\ WF_uploadVars(Sweep)

----------------------------------------------------------------------------
Overdue(a) == asset[a] = "pending" /\ a \in due

(* A cleanup that has been requested reaches every upload that was overdue *)
(* then, although the storage may refuse every removal and the worker may  *)
(* be lost (expire_pending_uploads, one best-effort deletion each).        *)
CleanupIsThorough == \A a \in Assets : cleanup.phase = "queued" /\ Overdue(a) ~> ~Overdue(a)
=============================================================================
