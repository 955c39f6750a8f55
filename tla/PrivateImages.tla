---------------------------- MODULE PrivateImages ----------------------------
(***************************************************************************)
(* The life of a private image: upload, binding to a record, replacement,  *)
(* the guard on the legacy photo column, the claim of an unbound image and *)
(* the removal of its bytes.  Requests run concurrently; PostgreSQL        *)
(* transactions run at READ COMMITTED with row locks; calls to the storage *)
(* service may fail, time out or take effect late; a request may die       *)
(* between any two steps.                                                  *)
(*                                                                         *)
(* A request is a process with a program counter.  What a transaction has  *)
(* written but not committed stays in its request; the locks it holds are  *)
(* read off the program counters.                                          *)
(***************************************************************************)
EXTENDS Integers, FiniteSets

CONSTANTS
  Media,         \* image ids (randomUUID of the upload)
  Owner,         \* (target, resource) pairs that can show an image
  Url,           \* legacy public photo addresses
  OwnerOf,       \* the pair an image was uploaded for
  Uploaders, Committers, Activators, Editors, Collectors, Reconcilers,
  Retention,     \* MIN_PRIVATE_BLOB_RETENTION_DAYS
  MaxDay,        \* bound on the clock
  None

ASSUME OwnerOfAssumption == OwnerOf \in [Media -> Owner]
ASSUME NoneAssumption == None \notin Media \cup Owner \cup Url
ASSUME DayAssumption == Retention \in Nat /\ MaxDay \in Nat

VARIABLES
  row,        \* private_media_objects: [status, verifiedAt]
  binding,    \* private_media_active_bindings
  photo,      \* the legacy photo / avatar_url column
  bytes,      \* objects that exist in the storage service
  late,       \* DELETEs the storage service accepted but has not executed
  issued,     \* upload ids answered to a client
  day,
  req,        \* the requests in progress
  releasedAt  \* history: the day an image last lost its binding

tables == <<row, binding, photo>>
vars == <<row, binding, photo, bytes, late, issued, day, req, releasedAt>>

Request == Uploaders \cup Committers \cup Activators \cup Editors
             \cup Collectors \cup Reconcilers

Pc == {"idle",
       "put", "stored", "compensate",
       "commit", "commitEntity", "commitBound",
       "activate",
       "edit", "editLocked", "editAllowed",
       "claimLocked", "claimClear",
       "stat", "delete", "confirm", "complete"}

Status == {"NONE", "VERIFIED", "GC_CLAIMED", "DELETED"}

RequestState ==
  [pc : Pc, owner : Owner \cup {None}, media : Media \cup {None},
   old : Media \cup {None}, url : Url \cup {None}]

Idle == [pc |-> "idle", owner |-> None, media |-> None, old |-> None,
         url |-> None]

TypeOK ==
  /\ row \in [Media -> [status : Status, verifiedAt : 0..MaxDay]]
  /\ binding \in [Owner -> Media \cup {None}]
  /\ photo \in [Owner -> Url \cup {None}]
  /\ bytes \subseteq Media
  /\ late \subseteq Media
  /\ issued \subseteq Media
  /\ day \in 0..MaxDay
  /\ req \in [Request -> RequestState]
  /\ releasedAt \in [Media -> 0..MaxDay]

Init ==
  /\ row = [m \in Media |-> [status |-> "NONE", verifiedAt |-> 0]]
  /\ binding = [o \in Owner |-> None]
  /\ photo \in [Owner -> Url \cup {None}]
  /\ bytes = {}
  /\ late = {}
  /\ issued = {}
  /\ day = 0
  /\ req = [p \in Request |-> Idle]
  /\ releasedAt = [m \in Media |-> 0]

-----------------------------------------------------------------------------
(* Requests and locks                                                      *)

At(p, pc) == req[p].pc = pc
GoTo(p, pc) == req' = [req EXCEPT ![p].pc = pc]
Start(p, r) == At(p, "idle") /\ req' = [req EXCEPT ![p] = r]
Finish(p) == req' = [req EXCEPT ![p] = Idle]

(* Mutant: the commit leaves the record row unlocked.                      *)
EntityLockedByEditsOnly(o) ==
  \E p \in Request :
    req[p].pc \in {"editLocked", "editAllowed"} /\ req[p].owner = o

(* The record row is locked from the UPDATE of a commit, or the SELECT FOR *)
(* UPDATE of a legacy edit, to the end of the transaction.                 *)
EntityLocked(o) ==
  \E p \in Request :
    /\ req[p].pc \in {"commitEntity", "commitBound",
                      "editLocked", "editAllowed"}
    /\ req[p].owner = o

(* A written but uncommitted binding row, or its index entry.              *)
BindingLocked(o) ==
  \E p \in Request : At(p, "commitBound") /\ req[p].owner = o

(* A claim locks the image FOR UPDATE ...                                  *)
MediaLocked(m) ==
  \E p \in Request :
    req[p].pc \in {"claimLocked", "claimClear"} /\ req[p].media = m

(* ... which conflicts with the KEY SHARE lock of the foreign key check of *)
(* an uncommitted binding.                                                 *)
MediaKeyShared(m) ==
  \E p \in Request : At(p, "commitBound") /\ req[p].media = m

(* Mutant: the foreign key references the id and the pair only.            *)
ForeignKeyWithoutStatus(o, m) == row[m].status # "NONE" /\ OwnerOf[m] = o

(* The composite foreign key of a binding: same pair, a BLOB, VERIFIED.    *)
ForeignKeyHolds(o, m) == row[m].status = "VERIFIED" /\ OwnerOf[m] = o

Bind(o, m) ==
  /\ binding' = [binding EXCEPT ![o] = m]
  /\ releasedAt' = [x \in Media |->
                     IF x = binding[o] /\ x # m THEN day ELSE releasedAt[x]]

-----------------------------------------------------------------------------
(* StorePrivateBlobImageUseCase                                            *)

Fresh(m) ==
  /\ row[m].status = "NONE"
  /\ m \notin bytes \cup late
  /\ \A p \in Request : req[p].media # m

BeginUpload(p, m) ==
  /\ Fresh(m)
  /\ Start(p, [Idle EXCEPT !.pc = "put", !.media = m])
  /\ UNCHANGED <<tables, bytes, late, issued, day, releasedAt>>

PutSucceeds(p) ==
  /\ At(p, "put")
  /\ bytes' = bytes \cup {req[p].media}
  /\ GoTo(p, "stored")
  /\ UNCHANGED <<tables, late, issued, day, releasedAt>>

(* The call fails, or answers a receipt that does not match: the object    *)
(* may exist all the same, and this path compensates nothing.              *)
PutFails(p) ==
  /\ At(p, "put")
  /\ bytes' \in {bytes, bytes \cup {req[p].media}}
  /\ Finish(p)
  /\ UNCHANGED <<tables, late, issued, day, releasedAt>>

InsertSucceeds(p) ==
  LET m == req[p].media IN
  /\ At(p, "stored")
  /\ row' = [row EXCEPT ![m] = [status |-> "VERIFIED", verifiedAt |-> day]]
  /\ issued' = issued \cup {m}
  /\ Finish(p)
  /\ UNCHANGED <<binding, photo, bytes, late, day, releasedAt>>

(* The third authorisation check refuses, or the INSERT fails; a failure   *)
(* of the connection leaves open whether the row was committed.            *)
InsertFails(p) ==
  LET m == req[p].media IN
  /\ At(p, "stored")
  /\ row' \in {row, [row EXCEPT ![m] =
                       [status |-> "VERIFIED", verifiedAt |-> day]]}
  /\ GoTo(p, "compensate")
  /\ UNCHANGED <<binding, photo, bytes, late, issued, day, releasedAt>>

Compensate(p) ==
  /\ At(p, "compensate")
  /\ bytes' = bytes \ {req[p].media}
  /\ Finish(p)
  /\ UNCHANGED <<tables, late, issued, day, releasedAt>>

(* "private-blob-compensation-failed": the DELETE may still be executed.   *)
CompensationFails(p) ==
  /\ At(p, "compensate")
  /\ late' \in {late, late \cup {req[p].media}}
  /\ Finish(p)
  /\ UNCHANGED <<tables, bytes, issued, day, releasedAt>>

-----------------------------------------------------------------------------
(* CommitPrivateBlobImageUseCase and commitPrivateBlobBinding              *)

(* Ids a client can send for a record.                                     *)
Known(o) == {m \in issued : OwnerOf[m] = o}

BeginCommit(p, o, new, old, url) ==
  /\ new # old
  /\ new # None => row[new].status = "VERIFIED"
  /\ Start(p, [pc |-> "commit", owner |-> o, media |-> new, old |-> old,
               url |-> url])
  /\ UNCHANGED <<tables, bytes, late, issued, day, releasedAt>>

(* First statement: compare and clear the legacy column, which locks the   *)
(* record; a mismatch rolls back with a conflict.                          *)
CommitLegacy(p) ==
  LET r == req[p] IN
  /\ At(p, "commit")
  /\ ~EntityLocked(r.owner)
  /\ IF photo[r.owner] = r.url THEN GoTo(p, "commitEntity") ELSE Finish(p)
  /\ UNCHANGED <<tables, bytes, late, issued, day, releasedAt>>

(* Mutant: the commit waits until the binding is the expected one.         *)
CommitReferenceWaiting(p) ==
  LET r == req[p] IN
  /\ At(p, "commitEntity")
  /\ ~BindingLocked(r.owner)
  /\ r.media # None => ~MediaLocked(r.media)
  /\ binding[r.owner] = r.old
  /\ r.media # None => ForeignKeyHolds(r.owner, r.media)
  /\ GoTo(p, "commitBound")
  /\ UNCHANGED <<tables, bytes, late, issued, day, releasedAt>>

(* Second statement: compare and write the binding.  A conflict, or an     *)
(* image that is no longer VERIFIED, rolls both statements back.           *)
CommitReference(p) ==
  LET r == req[p] IN
  /\ At(p, "commitEntity")
  /\ ~BindingLocked(r.owner)
  /\ r.media # None => ~MediaLocked(r.media)
  /\ IF /\ binding[r.owner] = r.old
        /\ r.media # None => ForeignKeyHolds(r.owner, r.media)
     THEN GoTo(p, "commitBound")
     ELSE Finish(p)
  /\ UNCHANGED <<tables, bytes, late, issued, day, releasedAt>>

CommitEnds(p) ==
  LET r == req[p] IN
  /\ At(p, "commitBound")
  /\ photo' = [photo EXCEPT ![r.owner] = None]
  /\ Bind(r.owner, r.media)
  /\ Finish(p)
  /\ UNCHANGED <<row, bytes, late, issued, day>>

-----------------------------------------------------------------------------
(* AssignPrivateBlobImageUseCase and assignActiveVerifiedBlob: one         *)
(* statement in a transaction of its own; the record row is not locked.    *)

BeginActivate(p, m, old) ==
  /\ row[m].status = "VERIFIED"
  /\ Start(p, [Idle EXCEPT !.pc = "activate", !.owner = OwnerOf[m],
                           !.media = m, !.old = old])
  /\ UNCHANGED <<tables, bytes, late, issued, day, releasedAt>>

Activate(p) ==
  LET r == req[p] IN
  /\ At(p, "activate")
  /\ ~BindingLocked(r.owner)
  /\ ~MediaLocked(r.media)
  /\ binding[r.owner] = r.old
  /\ ForeignKeyHolds(r.owner, r.media)
  /\ Bind(r.owner, r.media)
  /\ Finish(p)
  /\ UNCHANGED <<row, photo, bytes, late, issued, day>>

ActivateRefused(p) ==
  LET r == req[p] IN
  /\ At(p, "activate")
  /\ ~BindingLocked(r.owner)
  /\ ~MediaLocked(r.media)
  /\ binding[r.owner] # r.old \/ ~ForeignKeyHolds(r.owner, r.media)
  /\ Finish(p)
  /\ UNCHANGED <<tables, bytes, late, issued, day, releasedAt>>

-----------------------------------------------------------------------------
(* Legacy edits of a record: assertLegacyPhotoWriteAllowed, then the       *)
(* update, in one transaction.  Without an address the guard is skipped.   *)

BeginEdit(p, o, url) ==
  /\ Start(p, [Idle EXCEPT !.pc = "edit", !.owner = o, !.url = url])
  /\ UNCHANGED <<tables, bytes, late, issued, day, releasedAt>>

EditWithoutPhoto(p) ==
  LET r == req[p] IN
  /\ At(p, "edit")
  /\ r.url = None
  /\ ~EntityLocked(r.owner)
  /\ photo' = [photo EXCEPT ![r.owner] = None]
  /\ Finish(p)
  /\ UNCHANGED <<row, binding, bytes, late, issued, day, releasedAt>>

(* Mutant: the guard does not read the binding once it holds the lock.     *)
EditLockWithoutGuard(p) ==
  LET r == req[p] IN
  /\ At(p, "edit")
  /\ r.url # None
  /\ ~EntityLocked(r.owner)
  /\ GoTo(p, "editAllowed")
  /\ UNCHANGED <<tables, bytes, late, issued, day, releasedAt>>

EditLock(p) ==
  LET r == req[p] IN
  /\ At(p, "edit")
  /\ r.url # None
  /\ ~EntityLocked(r.owner)
  /\ GoTo(p, "editLocked")
  /\ UNCHANGED <<tables, bytes, late, issued, day, releasedAt>>

EditGuard(p) ==
  /\ At(p, "editLocked")
  /\ IF binding[req[p].owner] = None THEN GoTo(p, "editAllowed") ELSE Finish(p)
  /\ UNCHANGED <<tables, bytes, late, issued, day, releasedAt>>

EditWrite(p) ==
  LET r == req[p] IN
  /\ At(p, "editAllowed")
  /\ photo' = [photo EXCEPT ![r.owner] = r.url]
  /\ Finish(p)
  /\ UNCHANGED <<row, binding, bytes, late, issued, day, releasedAt>>

-----------------------------------------------------------------------------
(* ClaimUnboundPrivateBlobImageUseCase and                                 *)
(* claimUnboundVerifiedBlobForCleanup                                      *)

ClaimLock(p, m) ==
  /\ row[m].status = "VERIFIED"
  /\ row[m].verifiedAt + Retention <= day
  /\ ~MediaLocked(m)
  /\ ~MediaKeyShared(m)
  /\ Start(p, [Idle EXCEPT !.pc = "claimLocked", !.media = m])
  /\ UNCHANGED <<tables, bytes, late, issued, day, releasedAt>>

(* Mutant: the claim trusts the list of candidates it was made from.       *)
ClaimWithoutCheck(p) ==
  /\ At(p, "claimLocked")
  /\ GoTo(p, "claimClear")
  /\ UNCHANGED <<tables, bytes, late, issued, day, releasedAt>>

(* A statement of its own after the lock: it sees what committed since.    *)
ClaimCheck(p) ==
  /\ At(p, "claimLocked")
  /\ IF \E o \in Owner : binding[o] = req[p].media
     THEN Finish(p)
     ELSE GoTo(p, "claimClear")
  /\ UNCHANGED <<tables, bytes, late, issued, day, releasedAt>>

ClaimMark(p) ==
  /\ At(p, "claimClear")
  /\ row' = [row EXCEPT ![req[p].media].status = "GC_CLAIMED"]
  /\ Finish(p)
  /\ UNCHANGED <<binding, photo, bytes, late, issued, day, releasedAt>>

-----------------------------------------------------------------------------
(* ReconcileClaimedPrivateBlobImageUseCase and completeClaimedBlobCleanup  *)

(* Mutant: the status of the row is not examined.                          *)
BeginReconcileAnyStatus(p, m) ==
  /\ row[m].status # "NONE"
  /\ Start(p, [Idle EXCEPT !.pc = "stat", !.media = m])
  /\ UNCHANGED <<tables, bytes, late, issued, day, releasedAt>>

BeginReconcile(p, m) ==
  /\ row[m].status = "GC_CLAIMED"
  /\ Start(p, [Idle EXCEPT !.pc = "stat", !.media = m])
  /\ UNCHANGED <<tables, bytes, late, issued, day, releasedAt>>

(* Mutant: an object that is not found ends the reconciliation.            *)
ReconcileStatGivesUp(p) ==
  /\ At(p, "stat")
  /\ IF req[p].media \in bytes THEN GoTo(p, "delete") ELSE Finish(p)
  /\ UNCHANGED <<tables, bytes, late, issued, day, releasedAt>>

ReconcileStat(p) ==
  /\ At(p, "stat")
  /\ GoTo(p, IF req[p].media \in bytes THEN "delete" ELSE "confirm")
  /\ UNCHANGED <<tables, bytes, late, issued, day, releasedAt>>

ReconcileDelete(p) ==
  /\ At(p, "delete")
  /\ bytes' = bytes \ {req[p].media}
  /\ GoTo(p, "confirm")
  /\ UNCHANGED <<tables, late, issued, day, releasedAt>>

(* The storage accepts the DELETE and executes it later, or the call times *)
(* out on its way.                                                         *)
ReconcileDeleteDelayed(p) ==
  /\ At(p, "delete")
  /\ late' = late \cup {req[p].media}
  /\ GoTo(p, "confirm") \/ Finish(p)
  /\ UNCHANGED <<tables, bytes, issued, day, releasedAt>>

(* Mutant: an accepted DELETE is taken for an executed one.                *)
ReconcileWithoutConfirm(p) ==
  /\ At(p, "confirm")
  /\ GoTo(p, "complete")
  /\ UNCHANGED <<tables, bytes, late, issued, day, releasedAt>>

ReconcileConfirm(p) ==
  /\ At(p, "confirm")
  /\ IF req[p].media \in bytes THEN Finish(p) ELSE GoTo(p, "complete")
  /\ UNCHANGED <<tables, bytes, late, issued, day, releasedAt>>

(* The loser of a race finds the row DELETED and changes nothing.          *)
ReconcileComplete(p) ==
  LET m == req[p].media IN
  /\ At(p, "complete")
  /\ row' = IF row[m].status = "GC_CLAIMED"
            THEN [row EXCEPT ![m].status = "DELETED"] ELSE row
  /\ Finish(p)
  /\ UNCHANGED <<binding, photo, bytes, late, issued, day, releasedAt>>

-----------------------------------------------------------------------------
(* The environment                                                         *)

LateDelete(m) ==
  /\ m \in late
  /\ bytes' = bytes \ {m}
  /\ late' = late \ {m}
  /\ UNCHANGED <<tables, issued, day, req, releasedAt>>

(* A request dies: its transaction rolls back.                             *)
Crash(p) ==
  /\ ~At(p, "idle")
  /\ Finish(p)
  /\ UNCHANGED <<tables, bytes, late, issued, day, releasedAt>>

Tick ==
  /\ day < MaxDay
  /\ day' = day + 1
  /\ UNCHANGED <<tables, bytes, late, issued, req, releasedAt>>

Upload(p) ==
  \/ \E m \in Media : BeginUpload(p, m)
  \/ PutSucceeds(p) \/ PutFails(p)
  \/ InsertSucceeds(p) \/ InsertFails(p)
  \/ Compensate(p) \/ CompensationFails(p)

Commit(p) ==
  \/ \E o \in Owner, url \in Url \cup {None} :
       \E new, old \in Known(o) \cup {None} : BeginCommit(p, o, new, old, url)
  \/ CommitLegacy(p) \/ CommitReference(p) \/ CommitEnds(p)

ActivateImage(p) ==
  \/ \E m \in issued : \E old \in Known(OwnerOf[m]) \cup {None} :
       BeginActivate(p, m, old)
  \/ Activate(p) \/ ActivateRefused(p)

Edit(p) ==
  \/ \E o \in Owner, url \in Url \cup {None} : BeginEdit(p, o, url)
  \/ EditWithoutPhoto(p) \/ EditLock(p) \/ EditGuard(p) \/ EditWrite(p)

Claim(p) ==
  \/ \E m \in Media : ClaimLock(p, m)
  \/ ClaimCheck(p) \/ ClaimMark(p)

Reconcile(p) ==
  \/ \E m \in Media : BeginReconcile(p, m)
  \/ ReconcileStat(p) \/ ReconcileDelete(p) \/ ReconcileDeleteDelayed(p)
  \/ ReconcileConfirm(p) \/ ReconcileComplete(p)

Next ==
  \/ \E p \in Uploaders : Upload(p)
  \/ \E p \in Committers : Commit(p)
  \/ \E p \in Activators : ActivateImage(p)
  \/ \E p \in Editors : Edit(p)
  \/ \E p \in Collectors : Claim(p)
  \/ \E p \in Reconcilers : Reconcile(p)
  \/ \E m \in Media : LateDelete(m)
  \/ \E p \in Request : Crash(p)
  \/ Tick

Spec == Init /\ [][Next]_vars

(* A request that was started goes on: the event loop runs its             *)
(* continuations, and a storage call or a query answers or fails.          *)
(* PostgreSQL queues lock waiters, so a wait that keeps ending for others  *)
(* ends for everyone: strong fairness on the steps that wait for a lock.   *)
RequestFairness ==
  /\ \A p \in Uploaders :
       /\ WF_vars(PutSucceeds(p) \/ PutFails(p))
       /\ WF_vars(InsertSucceeds(p) \/ InsertFails(p))
       /\ WF_vars(Compensate(p) \/ CompensationFails(p))
  /\ \A p \in Committers :
       SF_vars(CommitLegacy(p)) /\ SF_vars(CommitReference(p))
         /\ WF_vars(CommitEnds(p))
  /\ \A p \in Activators : SF_vars(Activate(p) \/ ActivateRefused(p))
  /\ \A p \in Editors :
       SF_vars(EditWithoutPhoto(p) \/ EditLock(p))
         /\ WF_vars(EditGuard(p) \/ EditWrite(p))
  /\ \A p \in Collectors : WF_vars(ClaimCheck(p) \/ ClaimMark(p))
  /\ \A p \in Reconcilers :
       WF_vars(ReconcileStat(p) \/ ReconcileDelete(p)
                 \/ ReconcileConfirm(p) \/ ReconcileComplete(p))

(* An assumption on the operation of the service, which schedules no       *)
(* reconciliation itself: a claim is reconciled again for as long as it    *)
(* stands, and neither crashes nor timeouts strike every attempt.          *)
RetryFairness ==
  \A p \in Reconcilers :
    /\ \A m \in Media : SF_vars(BeginReconcile(p, m))
    /\ SF_vars(ReconcileStat(p))
    /\ SF_vars(ReconcileDelete(p))
    /\ SF_vars(ReconcileConfirm(p))
    /\ SF_vars(ReconcileComplete(p))

FairSpec == Spec /\ RequestFairness
RetrySpec == Spec /\ RequestFairness /\ RetryFairness

-----------------------------------------------------------------------------
(* Properties                                                              *)

(* An image bound to a record is VERIFIED, belongs to that record and has  *)
(* its bytes, whatever claims, late deletes and failed inserts do around   *)
(* the foreign key and the two use cases that bind.                        *)
BoundImageAvailable ==
  \A o \in Owner : binding[o] # None =>
    /\ ForeignKeyHolds(o, binding[o])
    /\ binding[o] \in bytes

(* An id that a client was given names a stored image until the image is   *)
(* claimed: the compensation of an insert whose outcome is unknown never   *)
(* removes the bytes of an upload that was answered.                       *)
IssuedImageStored ==
  \A m \in issued :
    /\ row[m].status # "NONE"
    /\ row[m].status = "VERIFIED" => m \in bytes

(* The row says DELETED only when the bytes are gone for good, although a  *)
(* DELETE may be accepted long before it is executed.                      *)
DeletedImageGone ==
  \A m \in Media : row[m].status = "DELETED" => m \notin bytes

(* Commits and legacy edits of the same record never leave a public        *)
(* address beside a private image.  (Without /activate: see the README.)   *)
PrivateReplacesLegacy ==
  \A o \in Owner : binding[o] # None => photo[o] = None

(* A legacy edit writes an address only while no private image is bound:   *)
(* an edit that waited for a commit sees the new binding.                  *)
LegacyWriteGuarded ==
  [][\A o \in Owner :
       photo'[o] \notin {None, photo[o]} => binding[o] = None]_vars

(* An image is reclaimed a full retention period after it was released.    *)
RetainedAfterRelease ==
  [][\A m \in Media :
       (row[m].status = "VERIFIED" /\ row'[m].status = "GC_CLAIMED")
          => releasedAt[m] + Retention <= day]_vars

(* No request waits for ever: the locks of commits, activations, edits and *)
(* claims are never awaited in a circle and always released.               *)
RequestsFinish ==
  \A p \in Request : ~At(p, "idle") ~> At(p, "idle")

(* A claimed image is deleted in the end, through crashes between the      *)
(* DELETE and the update of its row, and through timeouts.                 *)
ClaimsComplete ==
  \A m \in Media : row[m].status = "GC_CLAIMED" ~> row[m].status = "DELETED"

Condemned == {m \in Media : row[m].status \in {"GC_CLAIMED", "DELETED"}}

Register == INSTANCE PhotoRegister WITH
  shown <- binding, offered <- issued, condemned <- Condemned, bytes <- bytes

(* The service implements the register: no image is shown without bytes,   *)
(* and a condemned image is never shown again.                             *)
ImplementsRegister == Register!Spec
=============================================================================
