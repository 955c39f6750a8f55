------------------------- MODULE PrivateImages_proofs -------------------------
(***************************************************************************)
(* Proofs about PrivateImages, for every set of images, records and        *)
(* requests.  The properties are not inductive: what they need to know of  *)
(* the requests in progress is added, one predicate for each kind of       *)
(* request, to form IInv.                                                  *)
(***************************************************************************)
EXTENDS PrivateImages, TLAPS

UploadPc == {"put", "stored", "compensate"}
BindPc == {"commit", "commitEntity", "commitBound", "activate"}
EditPc == {"edit", "editLocked", "editAllowed"}
ClaimPc == {"claimLocked", "claimClear"}
ReconcilePc == {"stat", "delete", "confirm", "complete"}

(* A binding names an issued image, VERIFIED and of the same record.       *)
BindingInv ==
  \A o \in Owner : binding[o] # None =>
    binding[o] \in issued /\ ForeignKeyHolds(o, binding[o])

(* A DELETE is on its way only for an image that is given up, or that      *)
(* nobody was ever told of.                                                *)
LateInv == \A m \in late : m \in Condemned \/ m \notin issued

(* An upload in progress has its image to itself; nobody was told of it,   *)
(* it has no row until the INSERT, and no DELETE is on its way.            *)
UploadInv(p) ==
  /\ req[p].pc \in UploadPc =>
       /\ req[p].media \in Media \ issued
       /\ \A q \in Request \ {p} :
            req[q].pc \in UploadPc => req[q].media # req[p].media
  /\ req[p].pc \in {"put", "stored"} =>
       row[req[p].media].status = "NONE" /\ req[p].media \notin late
  /\ req[p].pc = "stored" => req[p].media \in bytes

(* A request that binds holds an id that was issued; a written but         *)
(* uncommitted binding satisfies the foreign key and keeps claims away.    *)
BindInv(p) ==
  /\ req[p].pc \in BindPc =>
       /\ req[p].owner \in Owner
       /\ req[p].media # None => req[p].media \in issued
  /\ req[p].pc = "activate" => req[p].media # None
  /\ req[p].pc = "commitBound" /\ req[p].media # None =>
       /\ ForeignKeyHolds(req[p].owner, req[p].media)
       /\ \A q \in Request :
            req[q].pc \in ClaimPc => req[q].media # req[p].media

EditInv(p) == req[p].pc \in EditPc => req[p].owner \in Owner

(* A claim has its image to itself, and has made sure it is not bound.     *)
ClaimInv(p) ==
  /\ req[p].pc \in ClaimPc =>
       /\ req[p].media \in Media
       /\ row[req[p].media].status = "VERIFIED"
       /\ \A q \in Request \ {p} :
            req[q].pc \in ClaimPc \cup {"commitBound"} =>
              req[q].media # req[p].media
  /\ req[p].pc = "claimClear" => \A o \in Owner : binding[o] # req[p].media

(* A reconciliation works on a condemned image; past its confirmation the  *)
(* bytes are gone.                                                         *)
ReconcileInv(p) ==
  /\ req[p].pc \in ReconcilePc => req[p].media \in Condemned
  /\ req[p].pc = "complete" => req[p].media \notin bytes

RequestInv(p) ==
  UploadInv(p) /\ BindInv(p) /\ EditInv(p) /\ ClaimInv(p) /\ ReconcileInv(p)

IInv ==
  /\ TypeOK
  /\ BindingInv
  /\ IssuedImageStored
  /\ DeletedImageGone
  /\ LateInv
  /\ \A p \in Request : RequestInv(p)

-----------------------------------------------------------------------------

LEMMA InitIInv == Init => IInv
<1> SUFFICES ASSUME Init PROVE IInv
  OBVIOUS
<1> USE DEF Init, Idle, UploadPc, BindPc, EditPc, ClaimPc, ReconcilePc
<1>1. TypeOK
  BY DayAssumption DEF TypeOK, RequestState, Pc, Status
<1>2. BindingInv /\ IssuedImageStored /\ LateInv
  BY DEF BindingInv, IssuedImageStored, LateInv
<1>3. DeletedImageGone
  BY DEF DeletedImageGone
<1>4. ASSUME NEW p \in Request PROVE RequestInv(p)
  BY DEF RequestInv, UploadInv, BindInv, EditInv, ClaimInv, ReconcileInv
<1>. QED
  BY <1>1, <1>2, <1>3, <1>4 DEF IInv

-----------------------------------------------------------------------------
(* What a step that moves request p leaves alone.                          *)

OthersStay(p) == \A q \in Request \ {p} : req'[q] = req[q]

LEMMA GoToFacts ==
  ASSUME TypeOK, NEW p \in Request, NEW pc \in Pc, GoTo(p, pc)
  PROVE  /\ req' \in [Request -> RequestState]
         /\ req'[p].pc = pc
         /\ req'[p].media = req[p].media
         /\ req'[p].owner = req[p].owner
         /\ OthersStay(p)
  BY DEF TypeOK, GoTo, RequestState, OthersStay

LEMMA FinishFacts ==
  ASSUME TypeOK, NEW p \in Request, Finish(p)
  PROVE  /\ req' \in [Request -> RequestState]
         /\ req'[p].pc = "idle"
         /\ OthersStay(p)
  BY DEF TypeOK, Finish, Idle, RequestState, Pc, OthersStay

LEMMA StartFacts ==
  ASSUME TypeOK, NEW p \in Request, NEW r \in RequestState, Start(p, r)
  PROVE  /\ req' \in [Request -> RequestState]
         /\ req'[p] = r
         /\ OthersStay(p)
  BY DEF TypeOK, Start, OthersStay

(* A step that changes nothing but request p preserves the invariant if p  *)
(* satisfies it afterwards: what the invariant says of two requests, it    *)
(* says of each.                                                           *)
LEMMA RequestStep ==
  ASSUME IInv, NEW p \in Request, OthersStay(p),
         req' \in [Request -> RequestState],
         UNCHANGED <<tables, bytes, late, issued, day, releasedAt>>,
         RequestInv(p)'
  PROVE  IInv'
<1> USE DEF IInv, tables
<1>1. TypeOK'
  BY DEF TypeOK
<1>2. BindingInv' /\ IssuedImageStored'
  BY DEF BindingInv, IssuedImageStored, ForeignKeyHolds
<1>3. DeletedImageGone' /\ LateInv'
  BY DEF DeletedImageGone, LateInv, Condemned
<1>4. ASSUME NEW q \in Request, q # p PROVE RequestInv(q)'
  <2>1. RequestInv(q) /\ req'[q] = req[q]
    BY <1>4 DEF OthersStay
  <2>2. UploadInv(q)'
    BY <1>4, <2>1 DEF RequestInv, UploadInv, OthersStay
  <2>3. BindInv(q)'
    BY <1>4, <2>1 DEF RequestInv, BindInv, ClaimInv, ForeignKeyHolds, OthersStay
  <2>4. EditInv(q)' /\ ReconcileInv(q)'
    BY <1>4, <2>1 DEF RequestInv, EditInv, ReconcileInv, Condemned
  <2>5. ClaimInv(q)'
    <3>1. ASSUME req'[q].pc \in ClaimPc,
                 req'[p].pc \in ClaimPc \cup {"commitBound"}
          PROVE  req'[p].media # req'[q].media
      <4>1. CASE req'[p].pc \in ClaimPc
        BY <1>4, <3>1, <4>1 DEF RequestInv, ClaimInv
      <4>2. CASE req'[p].pc = "commitBound"
        <5>1. req[q].media \in Media
          BY <2>1, <3>1 DEF RequestInv, ClaimInv
        <5>. QED
          BY <1>4, <2>1, <3>1, <4>2, <5>1, NoneAssumption
             DEF RequestInv, BindInv
      <4>. QED
        BY <3>1, <4>1, <4>2
    <3>. QED
      BY <1>4, <2>1, <3>1 DEF RequestInv, ClaimInv, OthersStay
  <2>. QED
    BY <2>2, <2>3, <2>4, <2>5 DEF RequestInv
<1>. QED
  BY <1>1, <1>2, <1>3, <1>4

(* A request that ends, for whatever reason, disturbs nothing.             *)
LEMMA QuietStep ==
  ASSUME IInv, NEW p \in Request, Finish(p),
         UNCHANGED <<tables, bytes, late, issued, day, releasedAt>>
  PROVE  IInv'
<1>1. /\ req' \in [Request -> RequestState]
      /\ req'[p].pc = "idle"
      /\ OthersStay(p)
  BY FinishFacts DEF IInv
<1>2. RequestInv(p)'
  BY <1>1 DEF RequestInv, UploadInv, BindInv, EditInv, ClaimInv, ReconcileInv,
              UploadPc, BindPc, EditPc, ClaimPc, ReconcilePc
<1>. QED
  BY <1>1, <1>2, RequestStep

-----------------------------------------------------------------------------
(* Steps that change what requests share: what they leave of the image     *)
(* table, and what they may do to a request that binds.                    *)

RowTable == [Media -> [status : Status, verifiedAt : 0..MaxDay]]
OtherRowsStay(m) == \A x \in Media \ {m} : row'[x] = row[x]

LEMMA RowFacts ==
  ASSUME TypeOK, NEW m \in Media,
         NEW r \in [status : Status, verifiedAt : 0..MaxDay],
         row' = [row EXCEPT ![m] = r]
  PROVE  row' \in RowTable /\ row'[m] = r /\ OtherRowsStay(m)
  BY DEF TypeOK, RowTable, OtherRowsStay

LEMMA StatusFacts ==
  ASSUME TypeOK, NEW m \in Media, NEW s \in Status,
         row' = [row EXCEPT ![m].status = s]
  PROVE  row' \in RowTable /\ row'[m].status = s /\ OtherRowsStay(m)
  BY DEF TypeOK, RowTable, OtherRowsStay

LEMMA BindFrame ==
  ASSUME IInv, NEW p \in Request, OthersStay(p),
         req'[p].pc \notin BindPc \cup ClaimPc,
         issued \subseteq issued',
         NEW q \in Request,
         req[q].pc = "commitBound" /\ req[q].media # None
           => row'[req[q].media].status = "VERIFIED"
  PROVE  BindInv(q)'
<1>1. CASE q = p
  BY <1>1 DEF BindInv, BindPc
<1>2. CASE q # p
  <2>1. BindInv(q) /\ req'[q] = req[q]
    BY <1>2 DEF IInv, RequestInv, OthersStay
  <2>2. ASSUME NEW r \in Request, req'[r].pc \in ClaimPc
        PROVE  r # p /\ req'[r] = req[r]
    BY <2>2 DEF OthersStay
  <2>. QED
    BY <2>1, <2>2 DEF BindInv, ForeignKeyHolds
<1>. QED
  BY <1>1, <1>2

-----------------------------------------------------------------------------
(* Steps that change nothing but their request.                            *)

LEMMA BeginUploadStep ==
  ASSUME IInv, NEW p \in Uploaders, NEW m \in Media, BeginUpload(p, m)
  PROVE  IInv'
<1>. p \in Request
  BY DEF Request
<1>1. /\ req' \in [Request -> RequestState]
      /\ req'[p] = [Idle EXCEPT !.pc = "put", !.media = m]
      /\ OthersStay(p)
  <2>1. [Idle EXCEPT !.pc = "put", !.media = m]
          \in RequestState
    BY NoneAssumption DEF RequestState, Pc, Idle, IInv, TypeOK, Known
  <2>. QED
    BY <2>1, StartFacts DEF BeginUpload, IInv
<1>2. UNCHANGED <<tables, bytes, late, issued, day, releasedAt>>
  BY DEF BeginUpload
<1>3. UploadInv(p)'
  <2>1. m \in Media \ issued /\ m \notin late /\ row[m].status = "NONE"
    BY DEF BeginUpload, Fresh, IInv, IssuedImageStored
  <2>2. \A q \in Request \ {p} : req'[q].media # m
    BY <1>1 DEF BeginUpload, Fresh, OthersStay
  <2>. QED
    BY <1>1, <1>2, <2>1, <2>2 DEF UploadInv, Idle, tables
<1>4. RequestInv(p)'
  BY <1>1, <1>3
     DEF RequestInv, BindInv, EditInv, ClaimInv, ReconcileInv, Idle,
         UploadPc, BindPc, EditPc, ClaimPc, ReconcilePc
<1>. QED
  BY <1>1, <1>2, <1>4, RequestStep

LEMMA BeginCommitStep ==
  ASSUME IInv, NEW p \in Committers,
         NEW o \in Owner, NEW new \in Known(o) \cup {None},
         NEW old \in Known(o) \cup {None}, NEW url \in Url \cup {None},
         BeginCommit(p, o, new, old, url)
  PROVE  IInv'
<1>. p \in Request
  BY DEF Request
<1>1. /\ req' \in [Request -> RequestState]
      /\ req'[p] = [pc |-> "commit", owner |-> o, media |-> new,
                  old |-> old, url |-> url]
      /\ OthersStay(p)
  <2>1. [pc |-> "commit", owner |-> o, media |-> new,
                  old |-> old, url |-> url]
          \in RequestState
    BY NoneAssumption DEF RequestState, Pc, Idle, IInv, TypeOK, Known
  <2>. QED
    BY <2>1, StartFacts DEF BeginCommit, IInv
<1>2. UNCHANGED <<tables, bytes, late, issued, day, releasedAt>>
  BY DEF BeginCommit
<1>3. BindInv(p)'
  BY <1>1, <1>2 DEF BeginCommit, IInv, RequestInv, BindInv, BindPc, Known
<1>4. RequestInv(p)'
  BY <1>1, <1>3
     DEF RequestInv, UploadInv, EditInv, ClaimInv, ReconcileInv, Idle,
         UploadPc, BindPc, EditPc, ClaimPc, ReconcilePc
<1>. QED
  BY <1>1, <1>2, <1>4, RequestStep

LEMMA CommitLegacyStep ==
  ASSUME IInv, NEW p \in Committers, CommitLegacy(p)
  PROVE  IInv'
<1>. p \in Request
  BY DEF Request
<1>1. CASE Finish(p)
  BY <1>1, QuietStep DEF CommitLegacy
<1>2. CASE GoTo(p, "commitEntity")
  <2>1. /\ req' \in [Request -> RequestState]
        /\ req'[p].pc = "commitEntity"
        /\ req'[p].media = req[p].media
        /\ req'[p].owner = req[p].owner
        /\ OthersStay(p)
    BY <1>2, GoToFacts DEF CommitLegacy, IInv, Pc
  <2>2. UNCHANGED <<tables, bytes, late, issued, day, releasedAt>>
    BY DEF CommitLegacy
  <2>3. BindInv(p)'
    BY <1>2, <2>1, <2>2
       DEF CommitLegacy, IInv, RequestInv, BindInv, BindPc, At
  <2>4. RequestInv(p)'
    BY <2>1, <2>3
       DEF RequestInv, UploadInv, EditInv, ClaimInv, ReconcileInv, Idle,
           UploadPc, BindPc, EditPc, ClaimPc, ReconcilePc
  <2>. QED
    BY <2>1, <2>2, <2>4, RequestStep
<1>. QED
  BY <1>1, <1>2 DEF CommitLegacy

LEMMA CommitReferenceStep ==
  ASSUME IInv, NEW p \in Committers, CommitReference(p)
  PROVE  IInv'
<1>. p \in Request
  BY DEF Request
<1>1. CASE Finish(p)
  BY <1>1, QuietStep DEF CommitReference
<1>2. CASE GoTo(p, "commitBound")
  <2>1. /\ req' \in [Request -> RequestState]
        /\ req'[p].pc = "commitBound"
        /\ req'[p].media = req[p].media
        /\ req'[p].owner = req[p].owner
        /\ OthersStay(p)
    BY <1>2, GoToFacts DEF CommitReference, IInv, Pc
  <2>2. UNCHANGED <<tables, bytes, late, issued, day, releasedAt>>
    BY DEF CommitReference
  <2>3. BindInv(p)'
    <3>1. /\ At(p, "commitEntity")
          /\ req[p].media # None => /\ ~MediaLocked(req[p].media)
                                    /\ ForeignKeyHolds(req[p].owner, req[p].media)
      <4>1. ~Finish(p)
        BY <2>1, FinishFacts DEF IInv
      <4>. QED
        BY <4>1 DEF CommitReference
    <3>2. /\ req[p].owner \in Owner
          /\ req[p].media # None => req[p].media \in issued
      BY <3>1 DEF At, IInv, RequestInv, BindInv, BindPc
    <3>3. ASSUME req[p].media # None, NEW q \in Request, req'[q].pc \in ClaimPc
          PROVE  req'[q].media # req[p].media
      BY <2>1, <3>1, <3>3 DEF MediaLocked, OthersStay, ClaimPc
    <3>. QED
      BY <2>1, <2>2, <3>1, <3>2, <3>3 DEF BindInv, ForeignKeyHolds, tables
  <2>4. RequestInv(p)'
    BY <2>1, <2>3
       DEF RequestInv, UploadInv, EditInv, ClaimInv, ReconcileInv, Idle,
           UploadPc, BindPc, EditPc, ClaimPc, ReconcilePc
  <2>. QED
    BY <2>1, <2>2, <2>4, RequestStep
<1>. QED
  BY <1>1, <1>2 DEF CommitReference

LEMMA BeginActivateStep ==
  ASSUME IInv, NEW p \in Activators,
         NEW m \in issued, NEW old \in Known(OwnerOf[m]) \cup {None},
         BeginActivate(p, m, old)
  PROVE  IInv'
<1>. p \in Request
  BY DEF Request
<1>1. /\ req' \in [Request -> RequestState]
      /\ req'[p] = [Idle EXCEPT !.pc = "activate", !.owner = OwnerOf[m],
                              !.media = m, !.old = old]
      /\ OthersStay(p)
  <2>1. [Idle EXCEPT !.pc = "activate", !.owner = OwnerOf[m],
                              !.media = m, !.old = old]
          \in RequestState
    BY NoneAssumption, OwnerOfAssumption
       DEF RequestState, Pc, Idle, IInv, TypeOK, Known
  <2>. QED
    BY <2>1, StartFacts DEF BeginActivate, IInv
<1>2. UNCHANGED <<tables, bytes, late, issued, day, releasedAt>>
  BY DEF BeginActivate
<1>3. BindInv(p)'
  <2>1. m \in Media /\ m # None /\ OwnerOf[m] \in Owner
    BY NoneAssumption, OwnerOfAssumption DEF IInv, TypeOK
  <2>. QED
    BY <1>1, <1>2, <2>1 DEF BindInv, Idle
<1>4. RequestInv(p)'
  BY <1>1, <1>3
     DEF RequestInv, UploadInv, EditInv, ClaimInv, ReconcileInv, Idle,
         UploadPc, BindPc, EditPc, ClaimPc, ReconcilePc
<1>. QED
  BY <1>1, <1>2, <1>4, RequestStep

LEMMA BeginEditStep ==
  ASSUME IInv, NEW p \in Editors,
         NEW o \in Owner, NEW url \in Url \cup {None}, BeginEdit(p, o, url)
  PROVE  IInv'
<1>. p \in Request
  BY DEF Request
<1>1. /\ req' \in [Request -> RequestState]
      /\ req'[p] = [Idle EXCEPT !.pc = "edit", !.owner = o, !.url = url]
      /\ OthersStay(p)
  <2>1. [Idle EXCEPT !.pc = "edit", !.owner = o, !.url = url]
          \in RequestState
    BY NoneAssumption DEF RequestState, Pc, Idle, IInv, TypeOK, Known
  <2>. QED
    BY <2>1, StartFacts DEF BeginEdit, IInv
<1>2. UNCHANGED <<tables, bytes, late, issued, day, releasedAt>>
  BY DEF BeginEdit
<1>3. EditInv(p)'
  BY <1>1, <1>2 DEF BeginEdit, IInv, RequestInv, EditInv, Idle
<1>4. RequestInv(p)'
  BY <1>1, <1>3
     DEF RequestInv, UploadInv, BindInv, ClaimInv, ReconcileInv, Idle,
         UploadPc, BindPc, EditPc, ClaimPc, ReconcilePc
<1>. QED
  BY <1>1, <1>2, <1>4, RequestStep

LEMMA EditLockStep ==
  ASSUME IInv, NEW p \in Editors, EditLock(p)
  PROVE  IInv'
<1>. p \in Request
  BY DEF Request
<1>1. /\ req' \in [Request -> RequestState]
      /\ req'[p].pc = "editLocked"
      /\ req'[p].media = req[p].media
      /\ req'[p].owner = req[p].owner
      /\ OthersStay(p)
  BY GoToFacts DEF EditLock, IInv, Pc
<1>2. UNCHANGED <<tables, bytes, late, issued, day, releasedAt>>
  BY DEF EditLock
<1>3. EditInv(p)'
  BY <1>1, <1>2 DEF EditLock, IInv, RequestInv, EditInv, EditPc, At
<1>4. RequestInv(p)'
  BY <1>1, <1>3
     DEF RequestInv, UploadInv, BindInv, ClaimInv, ReconcileInv, Idle,
         UploadPc, BindPc, EditPc, ClaimPc, ReconcilePc
<1>. QED
  BY <1>1, <1>2, <1>4, RequestStep

LEMMA EditGuardStep ==
  ASSUME IInv, NEW p \in Editors, EditGuard(p)
  PROVE  IInv'
<1>. p \in Request
  BY DEF Request
<1>1. CASE Finish(p)
  BY <1>1, QuietStep DEF EditGuard
<1>2. CASE GoTo(p, "editAllowed")
  <2>1. /\ req' \in [Request -> RequestState]
        /\ req'[p].pc = "editAllowed"
        /\ req'[p].media = req[p].media
        /\ req'[p].owner = req[p].owner
        /\ OthersStay(p)
    BY <1>2, GoToFacts DEF EditGuard, IInv, Pc
  <2>2. UNCHANGED <<tables, bytes, late, issued, day, releasedAt>>
    BY DEF EditGuard
  <2>3. EditInv(p)'
    BY <1>2, <2>1, <2>2
       DEF EditGuard, IInv, RequestInv, EditInv, EditPc, At
  <2>4. RequestInv(p)'
    BY <2>1, <2>3
       DEF RequestInv, UploadInv, BindInv, ClaimInv, ReconcileInv, Idle,
           UploadPc, BindPc, EditPc, ClaimPc, ReconcilePc
  <2>. QED
    BY <2>1, <2>2, <2>4, RequestStep
<1>. QED
  BY <1>1, <1>2 DEF EditGuard

LEMMA ClaimLockStep ==
  ASSUME IInv, NEW p \in Collectors, NEW m \in Media, ClaimLock(p, m)
  PROVE  IInv'
<1>. p \in Request
  BY DEF Request
<1>1. /\ req' \in [Request -> RequestState]
      /\ req'[p] = [Idle EXCEPT !.pc = "claimLocked", !.media = m]
      /\ OthersStay(p)
  <2>1. [Idle EXCEPT !.pc = "claimLocked", !.media = m]
          \in RequestState
    BY NoneAssumption DEF RequestState, Pc, Idle, IInv, TypeOK, Known
  <2>. QED
    BY <2>1, StartFacts DEF ClaimLock, IInv
<1>2. UNCHANGED <<tables, bytes, late, issued, day, releasedAt>>
  BY DEF ClaimLock
<1>3. ClaimInv(p)'
  <2>1. row[m].status = "VERIFIED"
    BY DEF ClaimLock
  <2>2. ASSUME NEW q \in Request \ {p},
               req'[q].pc \in ClaimPc \cup {"commitBound"}
        PROVE  req'[q].media # m
    BY <1>1, <2>2 DEF ClaimLock, MediaLocked, MediaKeyShared, OthersStay, At,
                      ClaimPc
  <2>. QED
    BY <1>1, <1>2, <2>1, <2>2 DEF ClaimInv, Idle, tables
<1>4. RequestInv(p)'
  BY <1>1, <1>3
     DEF RequestInv, UploadInv, BindInv, EditInv, ReconcileInv, Idle,
         UploadPc, BindPc, EditPc, ClaimPc, ReconcilePc
<1>. QED
  BY <1>1, <1>2, <1>4, RequestStep

LEMMA ClaimCheckStep ==
  ASSUME IInv, NEW p \in Collectors, ClaimCheck(p)
  PROVE  IInv'
<1>. p \in Request
  BY DEF Request
<1>1. CASE Finish(p)
  BY <1>1, QuietStep DEF ClaimCheck
<1>2. CASE GoTo(p, "claimClear")
  <2>1. /\ req' \in [Request -> RequestState]
        /\ req'[p].pc = "claimClear"
        /\ req'[p].media = req[p].media
        /\ req'[p].owner = req[p].owner
        /\ OthersStay(p)
    BY <1>2, GoToFacts DEF ClaimCheck, IInv, Pc
  <2>2. UNCHANGED <<tables, bytes, late, issued, day, releasedAt>>
    BY DEF ClaimCheck
  <2>3. ClaimInv(p)'
    <3>1. /\ At(p, "claimLocked")
          /\ \A o \in Owner : binding[o] # req[p].media
      <4>1. ~Finish(p)
        BY <2>1, FinishFacts DEF IInv
      <4>. QED
        BY <4>1 DEF ClaimCheck
    <3>2. /\ req[p].media \in Media
          /\ row[req[p].media].status = "VERIFIED"
          /\ \A q \in Request \ {p} :
               req[q].pc \in ClaimPc \cup {"commitBound"} =>
                 req[q].media # req[p].media
      BY <3>1 DEF At, IInv, RequestInv, ClaimInv, ClaimPc
    <3>. QED
      BY <2>1, <2>2, <3>1, <3>2 DEF ClaimInv, OthersStay, tables
  <2>4. RequestInv(p)'
    BY <2>1, <2>3
       DEF RequestInv, UploadInv, BindInv, EditInv, ReconcileInv, Idle,
           UploadPc, BindPc, EditPc, ClaimPc, ReconcilePc
  <2>. QED
    BY <2>1, <2>2, <2>4, RequestStep
<1>. QED
  BY <1>1, <1>2 DEF ClaimCheck

LEMMA BeginReconcileStep ==
  ASSUME IInv, NEW p \in Reconcilers, NEW m \in Media, BeginReconcile(p, m)
  PROVE  IInv'
<1>. p \in Request
  BY DEF Request
<1>1. /\ req' \in [Request -> RequestState]
      /\ req'[p] = [Idle EXCEPT !.pc = "stat", !.media = m]
      /\ OthersStay(p)
  <2>1. [Idle EXCEPT !.pc = "stat", !.media = m]
          \in RequestState
    BY NoneAssumption DEF RequestState, Pc, Idle, IInv, TypeOK, Known
  <2>. QED
    BY <2>1, StartFacts DEF BeginReconcile, IInv
<1>2. UNCHANGED <<tables, bytes, late, issued, day, releasedAt>>
  BY DEF BeginReconcile
<1>3. ReconcileInv(p)'
  <2>1. m \in Condemned'
    BY <1>2 DEF BeginReconcile, Condemned, tables
  <2>. QED
    BY <1>1, <2>1 DEF ReconcileInv, Idle
<1>4. RequestInv(p)'
  BY <1>1, <1>3
     DEF RequestInv, UploadInv, BindInv, EditInv, ClaimInv, Idle, UploadPc,
         BindPc, EditPc, ClaimPc, ReconcilePc
<1>. QED
  BY <1>1, <1>2, <1>4, RequestStep

LEMMA ReconcileConfirmStep ==
  ASSUME IInv, NEW p \in Reconcilers, ReconcileConfirm(p)
  PROVE  IInv'
<1>. p \in Request
  BY DEF Request
<1>1. CASE Finish(p)
  BY <1>1, QuietStep DEF ReconcileConfirm
<1>2. CASE GoTo(p, "complete")
  <2>1. /\ req' \in [Request -> RequestState]
        /\ req'[p].pc = "complete"
        /\ req'[p].media = req[p].media
        /\ req'[p].owner = req[p].owner
        /\ OthersStay(p)
    BY <1>2, GoToFacts DEF ReconcileConfirm, IInv, Pc
  <2>2. UNCHANGED <<tables, bytes, late, issued, day, releasedAt>>
    BY DEF ReconcileConfirm
  <2>3. ReconcileInv(p)'
    <3>1. At(p, "confirm") /\ req[p].media \notin bytes
      <4>1. ~Finish(p)
        BY <2>1, FinishFacts DEF IInv
      <4>. QED
        BY <4>1 DEF ReconcileConfirm
    <3>2. req[p].media \in Condemned
      BY <3>1 DEF At, IInv, RequestInv, ReconcileInv, ReconcilePc
    <3>. QED
      BY <2>1, <2>2, <3>1, <3>2 DEF ReconcileInv, Condemned, tables
  <2>4. RequestInv(p)'
    BY <2>1, <2>3
       DEF RequestInv, UploadInv, BindInv, EditInv, ClaimInv, Idle, UploadPc,
           BindPc, EditPc, ClaimPc, ReconcilePc
  <2>. QED
    BY <2>1, <2>2, <2>4, RequestStep
<1>. QED
  BY <1>1, <1>2 DEF ReconcileConfirm

LEMMA PutSucceedsStep ==
  ASSUME IInv, NEW p \in Uploaders, PutSucceeds(p)
  PROVE  IInv'
<1>. p \in Request
  BY DEF Request
<1>1. /\ req' \in [Request -> RequestState]
      /\ req'[p].pc = "stored"
      /\ req'[p].media = req[p].media
      /\ req'[p].owner = req[p].owner
      /\ OthersStay(p)
  BY GoToFacts DEF PutSucceeds, IInv, Pc
<1>2. /\ req[p].media \in Media \ issued
      /\ row[req[p].media].status = "NONE" /\ req[p].media \notin late
      /\ \A q \in Request \ {p} :
           req[q].pc \in UploadPc => req[q].media # req[p].media
      /\ bytes' = bytes \cup {req[p].media}
      /\ UNCHANGED <<row, binding, photo, late, issued, day, releasedAt>>
  BY DEF PutSucceeds, At, IInv, RequestInv, UploadInv, UploadPc, tables
<1>3. TypeOK'
  BY <1>1, <1>2 DEF IInv, TypeOK, RowTable
<1>4. BindingInv'
  BY <1>1, <1>2 DEF IInv, BindingInv, ForeignKeyHolds
<1>5. IssuedImageStored'
  BY <1>1, <1>2 DEF IInv, IssuedImageStored, Condemned
<1>6. DeletedImageGone'
  BY <1>1, <1>2 DEF IInv, DeletedImageGone, Condemned
<1>7. LateInv'
  BY <1>1, <1>2 DEF IInv, LateInv, Condemned
<1>8. ASSUME NEW q \in Request PROVE RequestInv(q)'
  <2>1. RequestInv(q)
    BY DEF IInv
  <2>2. UploadInv(q)'
    BY <1>1, <1>2, <2>1 DEF RequestInv, UploadInv, OthersStay, UploadPc
  <2>3. BindInv(q)'
    <3>1. req[q].pc = "commitBound" /\ req[q].media # None
            => row'[req[q].media].status = "VERIFIED"
      BY <1>2, <2>1 DEF RequestInv, BindInv, ForeignKeyHolds
    <3>. QED
      BY <1>1, <1>2, <3>1, BindFrame DEF BindPc, ClaimPc
  <2>4. EditInv(q)'
    BY <1>1, <1>2, <2>1 DEF RequestInv, EditInv, OthersStay, EditPc
  <2>5. ClaimInv(q)'
    BY <1>1, <1>2, <2>1 DEF RequestInv, ClaimInv, OthersStay, ClaimPc
  <2>6. ReconcileInv(q)'
    BY <1>1, <1>2, <2>1
       DEF RequestInv, ReconcileInv, OthersStay, ReconcilePc, Condemned
  <2>. QED
    BY <2>2, <2>3, <2>4, <2>5, <2>6 DEF RequestInv
<1>. QED
  BY <1>3, <1>4, <1>5, <1>6, <1>7, <1>8 DEF IInv

LEMMA PutFailsStep ==
  ASSUME IInv, NEW p \in Uploaders, PutFails(p)
  PROVE  IInv'
<1>. p \in Request
  BY DEF Request
<1>1. /\ req' \in [Request -> RequestState]
      /\ req'[p].pc = "idle"
      /\ OthersStay(p)
  BY FinishFacts DEF PutFails, IInv
<1>2. /\ req[p].media \in Media \ issued
      /\ row[req[p].media].status = "NONE"
      /\ bytes \subseteq bytes' /\ bytes' \subseteq bytes \cup {req[p].media}
      /\ UNCHANGED <<row, binding, photo, late, issued, day, releasedAt>>
  BY DEF PutFails, At, IInv, RequestInv, UploadInv, UploadPc, tables
<1>3. TypeOK'
  BY <1>1, <1>2 DEF IInv, TypeOK, RowTable
<1>4. BindingInv'
  BY <1>1, <1>2 DEF IInv, BindingInv, ForeignKeyHolds
<1>5. IssuedImageStored'
  BY <1>1, <1>2 DEF IInv, IssuedImageStored, Condemned
<1>6. DeletedImageGone'
  BY <1>1, <1>2 DEF IInv, DeletedImageGone, Condemned
<1>7. LateInv'
  BY <1>1, <1>2 DEF IInv, LateInv, Condemned
<1>8. ASSUME NEW q \in Request PROVE RequestInv(q)'
  <2>1. RequestInv(q)
    BY DEF IInv
  <2>2. UploadInv(q)'
    BY <1>1, <1>2, <2>1 DEF RequestInv, UploadInv, OthersStay, UploadPc
  <2>3. BindInv(q)'
    <3>1. req[q].pc = "commitBound" /\ req[q].media # None
            => row'[req[q].media].status = "VERIFIED"
      BY <1>2, <2>1 DEF RequestInv, BindInv, ForeignKeyHolds
    <3>. QED
      BY <1>1, <1>2, <3>1, BindFrame DEF BindPc, ClaimPc
  <2>4. EditInv(q)'
    BY <1>1, <1>2, <2>1 DEF RequestInv, EditInv, OthersStay, EditPc
  <2>5. ClaimInv(q)'
    BY <1>1, <1>2, <2>1 DEF RequestInv, ClaimInv, OthersStay, ClaimPc
  <2>6. ReconcileInv(q)'
    BY <1>1, <1>2, <2>1
       DEF RequestInv, ReconcileInv, OthersStay, ReconcilePc, Condemned
  <2>. QED
    BY <2>2, <2>3, <2>4, <2>5, <2>6 DEF RequestInv
<1>. QED
  BY <1>3, <1>4, <1>5, <1>6, <1>7, <1>8 DEF IInv

LEMMA InsertSucceedsStep ==
  ASSUME IInv, NEW p \in Uploaders, InsertSucceeds(p)
  PROVE  IInv'
<1>. p \in Request
  BY DEF Request
<1>1. /\ req' \in [Request -> RequestState]
      /\ req'[p].pc = "idle"
      /\ OthersStay(p)
  BY FinishFacts DEF InsertSucceeds, IInv
<1>2. /\ req[p].media \in Media \ issued
      /\ req[p].media \in bytes /\ req[p].media \notin late
      /\ row[req[p].media].status = "NONE"
      /\ \A q \in Request \ {p} :
           req[q].pc \in UploadPc => req[q].media # req[p].media
      /\ row' \in RowTable
      /\ row'[req[p].media].status = "VERIFIED" /\ OtherRowsStay(req[p].media)
      /\ issued' = issued \cup {req[p].media}
      /\ UNCHANGED <<binding, photo, bytes, late, day, releasedAt>>
  <2>1. /\ req[p].media \in Media \ issued
        /\ req[p].media \in bytes /\ req[p].media \notin late
        /\ row[req[p].media].status = "NONE"
        /\ \A q \in Request \ {p} :
             req[q].pc \in UploadPc => req[q].media # req[p].media
    BY DEF InsertSucceeds, At, IInv, RequestInv, UploadInv, UploadPc
  <2>2. [status |-> "VERIFIED", verifiedAt |-> day]
          \in [status : Status, verifiedAt : 0..MaxDay]
    BY DEF IInv, TypeOK, Status
  <2>3. /\ row' \in RowTable /\ OtherRowsStay(req[p].media)
        /\ row'[req[p].media] = [status |-> "VERIFIED", verifiedAt |-> day]
    BY <2>1, <2>2, RowFacts DEF InsertSucceeds, IInv
  <2>. QED
    BY <2>1, <2>3 DEF InsertSucceeds
<1>3. TypeOK'
  BY <1>1, <1>2 DEF IInv, TypeOK, RowTable
<1>4. BindingInv'
  BY <1>1, <1>2
     DEF IInv, BindingInv, OtherRowsStay, ForeignKeyHolds, TypeOK
<1>5. IssuedImageStored'
  BY <1>1, <1>2
     DEF IInv, IssuedImageStored, OtherRowsStay, Condemned, TypeOK
<1>6. DeletedImageGone'
  BY <1>1, <1>2
     DEF IInv, DeletedImageGone, OtherRowsStay, Condemned, TypeOK
<1>7. LateInv'
  BY <1>1, <1>2 DEF IInv, LateInv, OtherRowsStay, Condemned, TypeOK
<1>8. ASSUME NEW q \in Request PROVE RequestInv(q)'
  <2>1. RequestInv(q)
    BY DEF IInv
  <2>2. UploadInv(q)'
    BY <1>1, <1>2, <2>1
       DEF RequestInv, UploadInv, OthersStay, IInv, TypeOK, OtherRowsStay,
           UploadPc
  <2>3. BindInv(q)'
    <3>1. req[q].pc = "commitBound" /\ req[q].media # None
            => row'[req[q].media].status = "VERIFIED"
      <4>1. ASSUME req[q].pc = "commitBound", req[q].media # None
            PROVE  /\ req[q].media \in Media
                   /\ row[req[q].media].status = "VERIFIED"
        BY <2>1, <4>1 DEF RequestInv, BindInv, BindPc, ForeignKeyHolds, IInv,
                          TypeOK
      <4>. QED
        BY <1>2, <4>1 DEF OtherRowsStay
    <3>. QED
      BY <1>1, <1>2, <3>1, BindFrame DEF BindPc, ClaimPc
  <2>4. EditInv(q)'
    BY <1>1, <1>2, <2>1 DEF RequestInv, EditInv, OthersStay, EditPc
  <2>5. ClaimInv(q)'
    BY <1>1, <1>2, <2>1
       DEF RequestInv, ClaimInv, OthersStay, IInv, TypeOK, OtherRowsStay,
           ClaimPc
  <2>6. ReconcileInv(q)'
    BY <1>1, <1>2, <2>1
       DEF RequestInv, ReconcileInv, OthersStay, IInv, TypeOK, OtherRowsStay,
           ReconcilePc, Condemned
  <2>. QED
    BY <2>2, <2>3, <2>4, <2>5, <2>6 DEF RequestInv
<1>. QED
  BY <1>3, <1>4, <1>5, <1>6, <1>7, <1>8 DEF IInv

LEMMA InsertFailsStep ==
  ASSUME IInv, NEW p \in Uploaders, InsertFails(p)
  PROVE  IInv'
<1>. p \in Request
  BY DEF Request
<1>1. /\ req' \in [Request -> RequestState]
      /\ req'[p].pc = "compensate"
      /\ req'[p].media = req[p].media
      /\ req'[p].owner = req[p].owner
      /\ OthersStay(p)
  BY GoToFacts DEF InsertFails, IInv, Pc
<1>2. /\ req[p].media \in Media \ issued
      /\ req[p].media \in bytes /\ req[p].media \notin late
      /\ row[req[p].media].status = "NONE"
      /\ \A q \in Request \ {p} :
           req[q].pc \in UploadPc => req[q].media # req[p].media
      /\ row' \in RowTable
      /\ row'[req[p].media].status \in {"NONE", "VERIFIED"}
      /\ OtherRowsStay(req[p].media)
      /\ UNCHANGED <<binding, photo, bytes, late, issued, day, releasedAt>>
  <2>1. /\ req[p].media \in Media \ issued
        /\ req[p].media \in bytes /\ req[p].media \notin late
        /\ row[req[p].media].status = "NONE"
        /\ \A q \in Request \ {p} :
             req[q].pc \in UploadPc => req[q].media # req[p].media
    BY DEF InsertFails, At, IInv, RequestInv, UploadInv, UploadPc
  <2>2. [status |-> "VERIFIED", verifiedAt |-> day]
          \in [status : Status, verifiedAt : 0..MaxDay]
    BY DEF IInv, TypeOK, Status
  <2>3. /\ row' \in RowTable /\ OtherRowsStay(req[p].media)
        /\ row'[req[p].media].status \in {"NONE", "VERIFIED"}
    <3>1. CASE row' = row
      BY <2>1, <3>1 DEF IInv, TypeOK, RowTable, OtherRowsStay
    <3>2. CASE row' = [row EXCEPT ![req[p].media] =
                         [status |-> "VERIFIED", verifiedAt |-> day]]
      <4>1. /\ row' \in RowTable /\ OtherRowsStay(req[p].media)
            /\ row'[req[p].media] = [status |-> "VERIFIED", verifiedAt |-> day]
        BY <2>1, <2>2, <3>2, RowFacts DEF IInv
      <4>. QED
        BY <4>1
    <3>. QED
      BY <3>1, <3>2 DEF InsertFails
  <2>. QED
    BY <2>1, <2>3 DEF InsertFails
<1>3. TypeOK'
  BY <1>1, <1>2 DEF IInv, TypeOK, RowTable
<1>4. BindingInv'
  BY <1>1, <1>2
     DEF IInv, BindingInv, OtherRowsStay, ForeignKeyHolds, TypeOK
<1>5. IssuedImageStored'
  BY <1>1, <1>2
     DEF IInv, IssuedImageStored, OtherRowsStay, Condemned, TypeOK
<1>6. DeletedImageGone'
  BY <1>1, <1>2
     DEF IInv, DeletedImageGone, OtherRowsStay, Condemned, TypeOK
<1>7. LateInv'
  BY <1>1, <1>2 DEF IInv, LateInv, OtherRowsStay, Condemned, TypeOK
<1>8. ASSUME NEW q \in Request PROVE RequestInv(q)'
  <2>1. RequestInv(q)
    BY DEF IInv
  <2>2. UploadInv(q)'
    BY <1>1, <1>2, <2>1
       DEF RequestInv, UploadInv, OthersStay, IInv, TypeOK, OtherRowsStay,
           UploadPc
  <2>3. BindInv(q)'
    <3>1. req[q].pc = "commitBound" /\ req[q].media # None
            => row'[req[q].media].status = "VERIFIED"
      <4>1. ASSUME req[q].pc = "commitBound", req[q].media # None
            PROVE  /\ req[q].media \in Media
                   /\ row[req[q].media].status = "VERIFIED"
        BY <2>1, <4>1 DEF RequestInv, BindInv, BindPc, ForeignKeyHolds, IInv,
                          TypeOK
      <4>. QED
        BY <1>2, <4>1 DEF OtherRowsStay
    <3>. QED
      BY <1>1, <1>2, <3>1, BindFrame DEF BindPc, ClaimPc
  <2>4. EditInv(q)'
    BY <1>1, <1>2, <2>1 DEF RequestInv, EditInv, OthersStay, EditPc
  <2>5. ClaimInv(q)'
    BY <1>1, <1>2, <2>1
       DEF RequestInv, ClaimInv, OthersStay, IInv, TypeOK, OtherRowsStay,
           ClaimPc
  <2>6. ReconcileInv(q)'
    BY <1>1, <1>2, <2>1
       DEF RequestInv, ReconcileInv, OthersStay, IInv, TypeOK, OtherRowsStay,
           ReconcilePc, Condemned
  <2>. QED
    BY <2>2, <2>3, <2>4, <2>5, <2>6 DEF RequestInv
<1>. QED
  BY <1>3, <1>4, <1>5, <1>6, <1>7, <1>8 DEF IInv

LEMMA CompensateStep ==
  ASSUME IInv, NEW p \in Uploaders, Compensate(p)
  PROVE  IInv'
<1>. p \in Request
  BY DEF Request
<1>1. /\ req' \in [Request -> RequestState]
      /\ req'[p].pc = "idle"
      /\ OthersStay(p)
  BY FinishFacts DEF Compensate, IInv
<1>2. /\ req[p].media \in Media \ issued
      /\ \A q \in Request \ {p} :
           req[q].pc \in UploadPc => req[q].media # req[p].media
      /\ bytes' = bytes \ {req[p].media}
      /\ UNCHANGED <<row, binding, photo, late, issued, day, releasedAt>>
  BY DEF Compensate, At, IInv, RequestInv, UploadInv, UploadPc, tables
<1>3. TypeOK'
  BY <1>1, <1>2 DEF IInv, TypeOK, RowTable
<1>4. BindingInv'
  BY <1>1, <1>2 DEF IInv, BindingInv, ForeignKeyHolds
<1>5. IssuedImageStored'
  BY <1>1, <1>2 DEF IInv, IssuedImageStored, Condemned
<1>6. DeletedImageGone'
  BY <1>1, <1>2 DEF IInv, DeletedImageGone, Condemned
<1>7. LateInv'
  BY <1>1, <1>2 DEF IInv, LateInv, Condemned
<1>8. ASSUME NEW q \in Request PROVE RequestInv(q)'
  <2>1. RequestInv(q)
    BY DEF IInv
  <2>2. UploadInv(q)'
    BY <1>1, <1>2, <2>1 DEF RequestInv, UploadInv, OthersStay, UploadPc
  <2>3. BindInv(q)'
    <3>1. req[q].pc = "commitBound" /\ req[q].media # None
            => row'[req[q].media].status = "VERIFIED"
      BY <1>2, <2>1 DEF RequestInv, BindInv, ForeignKeyHolds
    <3>. QED
      BY <1>1, <1>2, <3>1, BindFrame DEF BindPc, ClaimPc
  <2>4. EditInv(q)'
    BY <1>1, <1>2, <2>1 DEF RequestInv, EditInv, OthersStay, EditPc
  <2>5. ClaimInv(q)'
    BY <1>1, <1>2, <2>1 DEF RequestInv, ClaimInv, OthersStay, ClaimPc
  <2>6. ReconcileInv(q)'
    BY <1>1, <1>2, <2>1
       DEF RequestInv, ReconcileInv, OthersStay, ReconcilePc, Condemned
  <2>. QED
    BY <2>2, <2>3, <2>4, <2>5, <2>6 DEF RequestInv
<1>. QED
  BY <1>3, <1>4, <1>5, <1>6, <1>7, <1>8 DEF IInv

LEMMA CompensationFailsStep ==
  ASSUME IInv, NEW p \in Uploaders, CompensationFails(p)
  PROVE  IInv'
<1>. p \in Request
  BY DEF Request
<1>1. /\ req' \in [Request -> RequestState]
      /\ req'[p].pc = "idle"
      /\ OthersStay(p)
  BY FinishFacts DEF CompensationFails, IInv
<1>2. /\ req[p].media \in Media \ issued
      /\ \A q \in Request \ {p} :
           req[q].pc \in UploadPc => req[q].media # req[p].media
      /\ late' \subseteq late \cup {req[p].media}
      /\ UNCHANGED <<row, binding, photo, bytes, issued, day, releasedAt>>
  BY DEF CompensationFails, At, IInv, RequestInv, UploadInv, UploadPc, tables
<1>3. TypeOK'
  BY <1>1, <1>2 DEF IInv, TypeOK, RowTable
<1>4. BindingInv'
  BY <1>1, <1>2 DEF IInv, BindingInv, ForeignKeyHolds
<1>5. IssuedImageStored'
  BY <1>1, <1>2 DEF IInv, IssuedImageStored, Condemned
<1>6. DeletedImageGone'
  BY <1>1, <1>2 DEF IInv, DeletedImageGone, Condemned
<1>7. LateInv'
  BY <1>1, <1>2 DEF IInv, LateInv, Condemned
<1>8. ASSUME NEW q \in Request PROVE RequestInv(q)'
  <2>1. RequestInv(q)
    BY DEF IInv
  <2>2. UploadInv(q)'
    BY <1>1, <1>2, <2>1 DEF RequestInv, UploadInv, OthersStay, UploadPc
  <2>3. BindInv(q)'
    <3>1. req[q].pc = "commitBound" /\ req[q].media # None
            => row'[req[q].media].status = "VERIFIED"
      BY <1>2, <2>1 DEF RequestInv, BindInv, ForeignKeyHolds
    <3>. QED
      BY <1>1, <1>2, <3>1, BindFrame DEF BindPc, ClaimPc
  <2>4. EditInv(q)'
    BY <1>1, <1>2, <2>1 DEF RequestInv, EditInv, OthersStay, EditPc
  <2>5. ClaimInv(q)'
    BY <1>1, <1>2, <2>1 DEF RequestInv, ClaimInv, OthersStay, ClaimPc
  <2>6. ReconcileInv(q)'
    BY <1>1, <1>2, <2>1
       DEF RequestInv, ReconcileInv, OthersStay, ReconcilePc, Condemned
  <2>. QED
    BY <2>2, <2>3, <2>4, <2>5, <2>6 DEF RequestInv
<1>. QED
  BY <1>3, <1>4, <1>5, <1>6, <1>7, <1>8 DEF IInv

LEMMA CommitEndsStep ==
  ASSUME IInv, NEW p \in Committers, CommitEnds(p)
  PROVE  IInv'
<1>. p \in Request
  BY DEF Request
<1>1. /\ req' \in [Request -> RequestState]
      /\ req'[p].pc = "idle"
      /\ OthersStay(p)
  BY FinishFacts DEF CommitEnds, IInv
<1>2. /\ req[p].owner \in Owner
      /\ req[p].media # None =>
           /\ req[p].media \in issued
           /\ ForeignKeyHolds(req[p].owner, req[p].media)
           /\ \A q \in Request :
                req[q].pc \in ClaimPc => req[q].media # req[p].media
      /\ binding' \in [Owner -> Media \cup {None}]
      /\ releasedAt' \in [Media -> 0..MaxDay]
      /\ photo' \in [Owner -> Url \cup {None}]
      /\ binding' = [binding EXCEPT ![req[p].owner] = req[p].media]
      /\ UNCHANGED <<row, bytes, late, issued, day>>
  <2>1. /\ req[p].owner \in Owner
        /\ req[p].media # None =>
             /\ req[p].media \in issued
             /\ ForeignKeyHolds(req[p].owner, req[p].media)
             /\ \A q \in Request :
                  req[q].pc \in ClaimPc => req[q].media # req[p].media
    BY DEF CommitEnds, At, IInv, RequestInv, BindInv, BindPc
  <2>2. req[p].media \in Media \cup {None}
    BY DEF IInv, TypeOK, RequestState
  <2>3. /\ binding' \in [Owner -> Media \cup {None}]
        /\ releasedAt' \in [Media -> 0..MaxDay]
        /\ photo' \in [Owner -> Url \cup {None}]
    BY <2>1, <2>2 DEF CommitEnds, Bind, IInv, TypeOK
  <2>. QED
    BY <2>1, <2>3 DEF CommitEnds, Bind
<1>3. TypeOK'
  BY <1>1, <1>2 DEF IInv, TypeOK, RowTable
<1>4. BindingInv'
  BY <1>1, <1>2 DEF IInv, BindingInv, ForeignKeyHolds, TypeOK
<1>5. IssuedImageStored'
  BY <1>1, <1>2 DEF IInv, IssuedImageStored, Condemned
<1>6. DeletedImageGone'
  BY <1>1, <1>2 DEF IInv, DeletedImageGone, Condemned
<1>7. LateInv'
  BY <1>1, <1>2 DEF IInv, LateInv, Condemned
<1>8. ASSUME NEW q \in Request PROVE RequestInv(q)'
  <2>1. RequestInv(q)
    BY DEF IInv
  <2>2. UploadInv(q)'
    BY <1>1, <1>2, <2>1 DEF RequestInv, UploadInv, OthersStay, UploadPc
  <2>3. BindInv(q)'
    <3>1. req[q].pc = "commitBound" /\ req[q].media # None
            => row'[req[q].media].status = "VERIFIED"
      BY <1>2, <2>1 DEF RequestInv, BindInv, ForeignKeyHolds
    <3>. QED
      BY <1>1, <1>2, <3>1, BindFrame DEF BindPc, ClaimPc
  <2>4. EditInv(q)'
    BY <1>1, <1>2, <2>1 DEF RequestInv, EditInv, OthersStay, EditPc
  <2>5. ClaimInv(q)'
    <3>1. ASSUME req'[q].pc = "claimClear", NEW o \in Owner
          PROVE  binding'[o] # req'[q].media
      <4>1. /\ req[q].pc = "claimClear" /\ req'[q] = req[q]
            /\ req[q].media \in Media /\ binding[o] # req[q].media
        BY <1>1, <2>1, <3>1 DEF RequestInv, ClaimInv, ClaimPc, OthersStay
      <4>2. binding'[o] \in {binding[o], req[p].media}
        BY <1>2 DEF IInv, TypeOK
      <4>3. req[p].media # req[q].media
        BY <1>2, <4>1, NoneAssumption DEF ClaimPc
      <4>. QED
        BY <4>1, <4>2, <4>3
    <3>. QED
      BY <1>1, <1>2, <2>1, <3>1 DEF RequestInv, ClaimInv, ClaimPc, OthersStay
  <2>6. ReconcileInv(q)'
    BY <1>1, <1>2, <2>1
       DEF RequestInv, ReconcileInv, OthersStay, ReconcilePc, Condemned
  <2>. QED
    BY <2>2, <2>3, <2>4, <2>5, <2>6 DEF RequestInv
<1>. QED
  BY <1>3, <1>4, <1>5, <1>6, <1>7, <1>8 DEF IInv

LEMMA ActivateStep ==
  ASSUME IInv, NEW p \in Activators, Activate(p)
  PROVE  IInv'
<1>. p \in Request
  BY DEF Request
<1>1. /\ req' \in [Request -> RequestState]
      /\ req'[p].pc = "idle"
      /\ OthersStay(p)
  BY FinishFacts DEF Activate, IInv
<1>2. /\ req[p].owner \in Owner
      /\ req[p].media \in issued
      /\ ForeignKeyHolds(req[p].owner, req[p].media)
      /\ \A q \in Request :
           req[q].pc \in ClaimPc => req[q].media # req[p].media
      /\ binding' \in [Owner -> Media \cup {None}]
      /\ releasedAt' \in [Media -> 0..MaxDay]
      /\ binding' = [binding EXCEPT ![req[p].owner] = req[p].media]
      /\ UNCHANGED <<row, photo, bytes, late, issued, day>>
  <2>1. /\ req[p].owner \in Owner
        /\ req[p].media \in issued
        /\ ForeignKeyHolds(req[p].owner, req[p].media)
    BY DEF Activate, At, IInv, RequestInv, BindInv, BindPc
  <2>2. /\ binding' \in [Owner -> Media \cup {None}]
        /\ releasedAt' \in [Media -> 0..MaxDay]
    BY <2>1 DEF Activate, Bind, IInv, TypeOK
  <2>3. \A q \in Request : req[q].pc \in ClaimPc => req[q].media # req[p].media
    BY DEF Activate, MediaLocked, ClaimPc
  <2>. QED
    BY <2>1, <2>2, <2>3 DEF Activate, Bind
<1>3. TypeOK'
  BY <1>1, <1>2 DEF IInv, TypeOK, RowTable
<1>4. BindingInv'
  BY <1>1, <1>2 DEF IInv, BindingInv, ForeignKeyHolds, TypeOK
<1>5. IssuedImageStored'
  BY <1>1, <1>2 DEF IInv, IssuedImageStored, Condemned
<1>6. DeletedImageGone'
  BY <1>1, <1>2 DEF IInv, DeletedImageGone, Condemned
<1>7. LateInv'
  BY <1>1, <1>2 DEF IInv, LateInv, Condemned
<1>8. ASSUME NEW q \in Request PROVE RequestInv(q)'
  <2>1. RequestInv(q)
    BY DEF IInv
  <2>2. UploadInv(q)'
    BY <1>1, <1>2, <2>1 DEF RequestInv, UploadInv, OthersStay, UploadPc
  <2>3. BindInv(q)'
    <3>1. req[q].pc = "commitBound" /\ req[q].media # None
            => row'[req[q].media].status = "VERIFIED"
      BY <1>2, <2>1 DEF RequestInv, BindInv, ForeignKeyHolds
    <3>. QED
      BY <1>1, <1>2, <3>1, BindFrame DEF BindPc, ClaimPc
  <2>4. EditInv(q)'
    BY <1>1, <1>2, <2>1 DEF RequestInv, EditInv, OthersStay, EditPc
  <2>5. ClaimInv(q)'
    <3>1. ASSUME req'[q].pc = "claimClear", NEW o \in Owner
          PROVE  binding'[o] # req'[q].media
      <4>1. /\ req[q].pc = "claimClear" /\ req'[q] = req[q]
            /\ binding[o] # req[q].media
        BY <1>1, <2>1, <3>1 DEF RequestInv, ClaimInv, ClaimPc, OthersStay
      <4>2. binding'[o] \in {binding[o], req[p].media}
        BY <1>2 DEF IInv, TypeOK
      <4>. QED
        BY <1>2, <4>1, <4>2 DEF ClaimPc
    <3>. QED
      BY <1>1, <1>2, <2>1, <3>1 DEF RequestInv, ClaimInv, ClaimPc, OthersStay
  <2>6. ReconcileInv(q)'
    BY <1>1, <1>2, <2>1
       DEF RequestInv, ReconcileInv, OthersStay, ReconcilePc, Condemned
  <2>. QED
    BY <2>2, <2>3, <2>4, <2>5, <2>6 DEF RequestInv
<1>. QED
  BY <1>3, <1>4, <1>5, <1>6, <1>7, <1>8 DEF IInv

LEMMA EditWithoutPhotoStep ==
  ASSUME IInv, NEW p \in Editors, EditWithoutPhoto(p)
  PROVE  IInv'
<1>. p \in Request
  BY DEF Request
<1>1. /\ req' \in [Request -> RequestState]
      /\ req'[p].pc = "idle"
      /\ OthersStay(p)
  BY FinishFacts DEF EditWithoutPhoto, IInv
<1>2. /\ photo' \in [Owner -> Url \cup {None}]
      /\ UNCHANGED <<row, binding, bytes, late, issued, day, releasedAt>>
  <2>1. req[p].url \in Url \cup {None}
    BY DEF IInv, TypeOK, RequestState
  <2>. QED
    BY <2>1 DEF EditWithoutPhoto, IInv, TypeOK
<1>3. TypeOK'
  BY <1>1, <1>2 DEF IInv, TypeOK, RowTable
<1>4. BindingInv'
  BY <1>1, <1>2 DEF IInv, BindingInv, ForeignKeyHolds
<1>5. IssuedImageStored'
  BY <1>1, <1>2 DEF IInv, IssuedImageStored, Condemned
<1>6. DeletedImageGone'
  BY <1>1, <1>2 DEF IInv, DeletedImageGone, Condemned
<1>7. LateInv'
  BY <1>1, <1>2 DEF IInv, LateInv, Condemned
<1>8. ASSUME NEW q \in Request PROVE RequestInv(q)'
  <2>1. RequestInv(q)
    BY DEF IInv
  <2>2. UploadInv(q)'
    BY <1>1, <1>2, <2>1 DEF RequestInv, UploadInv, OthersStay, UploadPc
  <2>3. BindInv(q)'
    <3>1. req[q].pc = "commitBound" /\ req[q].media # None
            => row'[req[q].media].status = "VERIFIED"
      BY <1>2, <2>1 DEF RequestInv, BindInv, ForeignKeyHolds
    <3>. QED
      BY <1>1, <1>2, <3>1, BindFrame DEF BindPc, ClaimPc
  <2>4. EditInv(q)'
    BY <1>1, <1>2, <2>1 DEF RequestInv, EditInv, OthersStay, EditPc
  <2>5. ClaimInv(q)'
    BY <1>1, <1>2, <2>1 DEF RequestInv, ClaimInv, OthersStay, ClaimPc
  <2>6. ReconcileInv(q)'
    BY <1>1, <1>2, <2>1
       DEF RequestInv, ReconcileInv, OthersStay, ReconcilePc, Condemned
  <2>. QED
    BY <2>2, <2>3, <2>4, <2>5, <2>6 DEF RequestInv
<1>. QED
  BY <1>3, <1>4, <1>5, <1>6, <1>7, <1>8 DEF IInv

LEMMA EditWriteStep ==
  ASSUME IInv, NEW p \in Editors, EditWrite(p)
  PROVE  IInv'
<1>. p \in Request
  BY DEF Request
<1>1. /\ req' \in [Request -> RequestState]
      /\ req'[p].pc = "idle"
      /\ OthersStay(p)
  BY FinishFacts DEF EditWrite, IInv
<1>2. /\ photo' \in [Owner -> Url \cup {None}]
      /\ UNCHANGED <<row, binding, bytes, late, issued, day, releasedAt>>
  <2>1. req[p].url \in Url \cup {None}
    BY DEF IInv, TypeOK, RequestState
  <2>. QED
    BY <2>1 DEF EditWrite, IInv, TypeOK
<1>3. TypeOK'
  BY <1>1, <1>2 DEF IInv, TypeOK, RowTable
<1>4. BindingInv'
  BY <1>1, <1>2 DEF IInv, BindingInv, ForeignKeyHolds
<1>5. IssuedImageStored'
  BY <1>1, <1>2 DEF IInv, IssuedImageStored, Condemned
<1>6. DeletedImageGone'
  BY <1>1, <1>2 DEF IInv, DeletedImageGone, Condemned
<1>7. LateInv'
  BY <1>1, <1>2 DEF IInv, LateInv, Condemned
<1>8. ASSUME NEW q \in Request PROVE RequestInv(q)'
  <2>1. RequestInv(q)
    BY DEF IInv
  <2>2. UploadInv(q)'
    BY <1>1, <1>2, <2>1 DEF RequestInv, UploadInv, OthersStay, UploadPc
  <2>3. BindInv(q)'
    <3>1. req[q].pc = "commitBound" /\ req[q].media # None
            => row'[req[q].media].status = "VERIFIED"
      BY <1>2, <2>1 DEF RequestInv, BindInv, ForeignKeyHolds
    <3>. QED
      BY <1>1, <1>2, <3>1, BindFrame DEF BindPc, ClaimPc
  <2>4. EditInv(q)'
    BY <1>1, <1>2, <2>1 DEF RequestInv, EditInv, OthersStay, EditPc
  <2>5. ClaimInv(q)'
    BY <1>1, <1>2, <2>1 DEF RequestInv, ClaimInv, OthersStay, ClaimPc
  <2>6. ReconcileInv(q)'
    BY <1>1, <1>2, <2>1
       DEF RequestInv, ReconcileInv, OthersStay, ReconcilePc, Condemned
  <2>. QED
    BY <2>2, <2>3, <2>4, <2>5, <2>6 DEF RequestInv
<1>. QED
  BY <1>3, <1>4, <1>5, <1>6, <1>7, <1>8 DEF IInv

LEMMA ClaimMarkStep ==
  ASSUME IInv, NEW p \in Collectors, ClaimMark(p)
  PROVE  IInv'
<1>. p \in Request
  BY DEF Request
<1>1. /\ req' \in [Request -> RequestState]
      /\ req'[p].pc = "idle"
      /\ OthersStay(p)
  BY FinishFacts DEF ClaimMark, IInv
<1>2. /\ req[p].media \in Media /\ req[p].pc = "claimClear"
      /\ row[req[p].media].status = "VERIFIED"
      /\ \A q \in Request \ {p} :
           req[q].pc \in ClaimPc \cup {"commitBound"} =>
             req[q].media # req[p].media
      /\ \A o \in Owner : binding[o] # req[p].media
      /\ row' \in RowTable
      /\ row'[req[p].media].status = "GC_CLAIMED" /\ OtherRowsStay(req[p].media)
      /\ UNCHANGED <<binding, photo, bytes, late, issued, day, releasedAt>>
  <2>1. /\ req[p].media \in Media /\ req[p].pc = "claimClear"
        /\ row[req[p].media].status = "VERIFIED"
        /\ \A q \in Request \ {p} :
             req[q].pc \in ClaimPc \cup {"commitBound"} =>
               req[q].media # req[p].media
        /\ \A o \in Owner : binding[o] # req[p].media
    BY DEF ClaimMark, At, IInv, RequestInv, ClaimInv, ClaimPc
  <2>2. /\ row' \in RowTable /\ OtherRowsStay(req[p].media)
        /\ row'[req[p].media].status = "GC_CLAIMED"
    BY <2>1, StatusFacts DEF ClaimMark, IInv, Status
  <2>. QED
    BY <2>1, <2>2 DEF ClaimMark
<1>3. TypeOK'
  BY <1>1, <1>2 DEF IInv, TypeOK, RowTable
<1>4. BindingInv'
  BY <1>1, <1>2
     DEF IInv, BindingInv, OtherRowsStay, ForeignKeyHolds, TypeOK
<1>5. IssuedImageStored'
  BY <1>1, <1>2
     DEF IInv, IssuedImageStored, OtherRowsStay, Condemned, TypeOK
<1>6. DeletedImageGone'
  BY <1>1, <1>2
     DEF IInv, DeletedImageGone, OtherRowsStay, Condemned, TypeOK
<1>7. LateInv'
  BY <1>1, <1>2 DEF IInv, LateInv, OtherRowsStay, Condemned, TypeOK
<1>8. ASSUME NEW q \in Request PROVE RequestInv(q)'
  <2>1. RequestInv(q)
    BY DEF IInv
  <2>2. UploadInv(q)'
    BY <1>1, <1>2, <2>1
       DEF RequestInv, UploadInv, OthersStay, IInv, TypeOK, OtherRowsStay,
           UploadPc
  <2>3. BindInv(q)'
    <3>1. req[q].pc = "commitBound" /\ req[q].media # None
            => row'[req[q].media].status = "VERIFIED"
      <4>1. ASSUME req[q].pc = "commitBound", req[q].media # None
            PROVE  /\ req[q].media \in Media
                   /\ row[req[q].media].status = "VERIFIED"
        BY <2>1, <4>1 DEF RequestInv, BindInv, BindPc, ForeignKeyHolds, IInv,
                          TypeOK
      <4>. QED
        BY <1>2, <4>1 DEF OtherRowsStay
    <3>. QED
      BY <1>1, <1>2, <3>1, BindFrame DEF BindPc, ClaimPc
  <2>4. EditInv(q)'
    BY <1>1, <1>2, <2>1 DEF RequestInv, EditInv, OthersStay, EditPc
  <2>5. ClaimInv(q)'
    BY <1>1, <1>2, <2>1
       DEF RequestInv, ClaimInv, OthersStay, IInv, TypeOK, OtherRowsStay,
           ClaimPc
  <2>6. ReconcileInv(q)'
    BY <1>1, <1>2, <2>1
       DEF RequestInv, ReconcileInv, OthersStay, IInv, TypeOK, OtherRowsStay,
           ReconcilePc, Condemned
  <2>. QED
    BY <2>2, <2>3, <2>4, <2>5, <2>6 DEF RequestInv
<1>. QED
  BY <1>3, <1>4, <1>5, <1>6, <1>7, <1>8 DEF IInv

LEMMA ReconcileDeleteStep ==
  ASSUME IInv, NEW p \in Reconcilers, ReconcileDelete(p)
  PROVE  IInv'
<1>. p \in Request
  BY DEF Request
<1>1. /\ req' \in [Request -> RequestState]
      /\ req'[p].pc = "confirm"
      /\ req'[p].media = req[p].media
      /\ req'[p].owner = req[p].owner
      /\ OthersStay(p)
  BY GoToFacts DEF ReconcileDelete, IInv, Pc
<1>2. /\ req[p].media \in Condemned
      /\ bytes' = bytes \ {req[p].media}
      /\ UNCHANGED <<row, binding, photo, late, issued, day, releasedAt>>
  BY DEF ReconcileDelete, At, IInv, RequestInv, ReconcileInv, ReconcilePc,
         tables
<1>3. TypeOK'
  BY <1>1, <1>2 DEF IInv, TypeOK, RowTable
<1>4. BindingInv'
  BY <1>1, <1>2 DEF IInv, BindingInv, ForeignKeyHolds
<1>5. IssuedImageStored'
  BY <1>1, <1>2 DEF IInv, IssuedImageStored, Condemned
<1>6. DeletedImageGone'
  BY <1>1, <1>2 DEF IInv, DeletedImageGone, Condemned
<1>7. LateInv'
  BY <1>1, <1>2 DEF IInv, LateInv, Condemned
<1>8. ASSUME NEW q \in Request PROVE RequestInv(q)'
  <2>1. RequestInv(q)
    BY DEF IInv
  <2>2. UploadInv(q)'
    BY <1>1, <1>2, <2>1
       DEF RequestInv, UploadInv, OthersStay, UploadPc, Condemned
  <2>3. BindInv(q)'
    <3>1. req[q].pc = "commitBound" /\ req[q].media # None
            => row'[req[q].media].status = "VERIFIED"
      BY <1>2, <2>1 DEF RequestInv, BindInv, ForeignKeyHolds
    <3>. QED
      BY <1>1, <1>2, <3>1, BindFrame DEF BindPc, ClaimPc
  <2>4. EditInv(q)'
    BY <1>1, <1>2, <2>1 DEF RequestInv, EditInv, OthersStay, EditPc
  <2>5. ClaimInv(q)'
    BY <1>1, <1>2, <2>1 DEF RequestInv, ClaimInv, OthersStay, ClaimPc
  <2>6. ReconcileInv(q)'
    BY <1>1, <1>2, <2>1
       DEF RequestInv, ReconcileInv, OthersStay, ReconcilePc, Condemned
  <2>. QED
    BY <2>2, <2>3, <2>4, <2>5, <2>6 DEF RequestInv
<1>. QED
  BY <1>3, <1>4, <1>5, <1>6, <1>7, <1>8 DEF IInv

LEMMA ReconcileCompleteStep ==
  ASSUME IInv, NEW p \in Reconcilers, ReconcileComplete(p)
  PROVE  IInv'
<1>. p \in Request
  BY DEF Request
<1>1. /\ req' \in [Request -> RequestState]
      /\ req'[p].pc = "idle"
      /\ OthersStay(p)
  BY FinishFacts DEF ReconcileComplete, IInv
<1>2. /\ req[p].media \in Media /\ req[p].media \notin bytes
      /\ row[req[p].media].status \in {"GC_CLAIMED", "DELETED"}
      /\ row' \in RowTable
      /\ row'[req[p].media].status \in {"GC_CLAIMED", "DELETED"}
      /\ OtherRowsStay(req[p].media)
      /\ UNCHANGED <<binding, photo, bytes, late, issued, day, releasedAt>>
  <2>1. /\ req[p].media \in Media /\ req[p].media \notin bytes
        /\ row[req[p].media].status \in {"GC_CLAIMED", "DELETED"}
    BY DEF ReconcileComplete, At, IInv, RequestInv, ReconcileInv, ReconcilePc,
           Condemned
  <2>2. /\ row' \in RowTable /\ OtherRowsStay(req[p].media)
        /\ row'[req[p].media].status \in {"GC_CLAIMED", "DELETED"}
    <3>1. CASE row[req[p].media].status = "GC_CLAIMED"
      BY <2>1, <3>1, StatusFacts DEF ReconcileComplete, IInv, Status
    <3>2. CASE row[req[p].media].status # "GC_CLAIMED"
      BY <2>1, <3>2 DEF ReconcileComplete, IInv, TypeOK, RowTable,
                        OtherRowsStay
    <3>. QED
      BY <3>1, <3>2
  <2>. QED
    BY <2>1, <2>2 DEF ReconcileComplete
<1>3. TypeOK'
  BY <1>1, <1>2 DEF IInv, TypeOK, RowTable
<1>4. BindingInv'
  BY <1>1, <1>2
     DEF IInv, BindingInv, OtherRowsStay, ForeignKeyHolds, TypeOK
<1>5. IssuedImageStored'
  BY <1>1, <1>2
     DEF IInv, IssuedImageStored, OtherRowsStay, Condemned, TypeOK
<1>6. DeletedImageGone'
  BY <1>1, <1>2
     DEF IInv, DeletedImageGone, OtherRowsStay, Condemned, TypeOK
<1>7. LateInv'
  BY <1>1, <1>2 DEF IInv, LateInv, OtherRowsStay, Condemned, TypeOK
<1>8. ASSUME NEW q \in Request PROVE RequestInv(q)'
  <2>1. RequestInv(q)
    BY DEF IInv
  <2>2. UploadInv(q)'
    BY <1>1, <1>2, <2>1
       DEF RequestInv, UploadInv, OthersStay, IInv, TypeOK, OtherRowsStay,
           UploadPc
  <2>3. BindInv(q)'
    <3>1. req[q].pc = "commitBound" /\ req[q].media # None
            => row'[req[q].media].status = "VERIFIED"
      <4>1. ASSUME req[q].pc = "commitBound", req[q].media # None
            PROVE  /\ req[q].media \in Media
                   /\ row[req[q].media].status = "VERIFIED"
        BY <2>1, <4>1 DEF RequestInv, BindInv, BindPc, ForeignKeyHolds, IInv,
                          TypeOK
      <4>. QED
        BY <1>2, <4>1 DEF OtherRowsStay
    <3>. QED
      BY <1>1, <1>2, <3>1, BindFrame DEF BindPc, ClaimPc
  <2>4. EditInv(q)'
    BY <1>1, <1>2, <2>1 DEF RequestInv, EditInv, OthersStay, EditPc
  <2>5. ClaimInv(q)'
    BY <1>1, <1>2, <2>1
       DEF RequestInv, ClaimInv, OthersStay, IInv, TypeOK, OtherRowsStay,
           ClaimPc
  <2>6. ReconcileInv(q)'
    BY <1>1, <1>2, <2>1
       DEF RequestInv, ReconcileInv, OthersStay, IInv, TypeOK, OtherRowsStay,
           ReconcilePc, Condemned
  <2>. QED
    BY <2>2, <2>3, <2>4, <2>5, <2>6 DEF RequestInv
<1>. QED
  BY <1>3, <1>4, <1>5, <1>6, <1>7, <1>8 DEF IInv

LEMMA LateDeleteStep ==
  ASSUME IInv, NEW m \in Media, LateDelete(m)
  PROVE  IInv'
<1>1. req' = req
  BY DEF LateDelete
<1>2. /\ m \in Condemned \/ m \notin issued
      /\ m \in late /\ bytes' = bytes \ {m} /\ late' = late \ {m}
      /\ UNCHANGED <<row, binding, photo, issued, day, releasedAt>>
  BY DEF LateDelete, IInv, LateInv, tables
<1>3. TypeOK'
  BY <1>1, <1>2 DEF IInv, TypeOK, RowTable
<1>4. BindingInv'
  BY <1>1, <1>2 DEF IInv, BindingInv, ForeignKeyHolds
<1>5. IssuedImageStored'
  BY <1>1, <1>2 DEF IInv, IssuedImageStored, Condemned
<1>6. DeletedImageGone'
  BY <1>1, <1>2 DEF IInv, DeletedImageGone, Condemned
<1>7. LateInv'
  BY <1>1, <1>2 DEF IInv, LateInv, Condemned
<1>8. ASSUME NEW q \in Request PROVE RequestInv(q)'
  BY <1>1, <1>2
     DEF IInv, RequestInv, UploadInv, BindInv, EditInv, ClaimInv,
         ReconcileInv, ForeignKeyHolds, UploadPc, ReconcilePc, Condemned
<1>. QED
  BY <1>3, <1>4, <1>5, <1>6, <1>7, <1>8 DEF IInv

LEMMA TickStep ==
  ASSUME IInv, Tick
  PROVE  IInv'
<1>1. req' = req
  BY DEF Tick
<1>2. /\ day' \in 0..MaxDay
      /\ UNCHANGED <<row, binding, photo, bytes, late, issued, releasedAt>>
  BY DayAssumption DEF Tick, IInv, TypeOK, tables
<1>3. TypeOK'
  BY <1>1, <1>2 DEF IInv, TypeOK, RowTable
<1>4. BindingInv'
  BY <1>1, <1>2 DEF IInv, BindingInv, ForeignKeyHolds
<1>5. IssuedImageStored'
  BY <1>1, <1>2 DEF IInv, IssuedImageStored, Condemned
<1>6. DeletedImageGone'
  BY <1>1, <1>2 DEF IInv, DeletedImageGone, Condemned
<1>7. LateInv'
  BY <1>1, <1>2 DEF IInv, LateInv, Condemned
<1>8. ASSUME NEW q \in Request PROVE RequestInv(q)'
  BY <1>1, <1>2
     DEF IInv, RequestInv, UploadInv, BindInv, EditInv, ClaimInv,
         ReconcileInv, ForeignKeyHolds, UploadPc, ReconcilePc, Condemned
<1>. QED
  BY <1>3, <1>4, <1>5, <1>6, <1>7, <1>8 DEF IInv

LEMMA ReconcileDeleteDelayedStep ==
  ASSUME IInv, NEW p \in Reconcilers, ReconcileDeleteDelayed(p)
  PROVE  IInv'
<1>. p \in Request
  BY DEF Request
<1>1. req[p].media \in Condemned
  BY DEF ReconcileDeleteDelayed, At, IInv, RequestInv, ReconcileInv, ReconcilePc
<1>2. /\ late' = late \cup {req[p].media}
      /\ UNCHANGED <<row, binding, photo, bytes, issued, day, releasedAt>>
  BY DEF ReconcileDeleteDelayed, tables
<1>3. /\ req' \in [Request -> RequestState]
      /\ OthersStay(p)
      /\ \/ req'[p].pc = "idle"
         \/ req'[p].pc = "confirm" /\ req'[p].media = req[p].media
  <2>1. CASE GoTo(p, "confirm")
    BY <2>1, GoToFacts DEF IInv, Pc
  <2>2. CASE Finish(p)
    BY <2>2, FinishFacts DEF IInv
  <2>. QED
    BY <2>1, <2>2 DEF ReconcileDeleteDelayed
<1>4. TypeOK' /\ LateInv'
  BY <1>1, <1>2, <1>3 DEF IInv, TypeOK, LateInv, Condemned
<1>5. BindingInv' /\ IssuedImageStored' /\ DeletedImageGone'
  BY <1>2 DEF IInv, BindingInv, IssuedImageStored, DeletedImageGone,
              ForeignKeyHolds
<1>6. ASSUME NEW q \in Request PROVE RequestInv(q)'
  <2>1. RequestInv(q)
    BY DEF IInv
  <2>2. UploadInv(q)'
    BY <1>1, <1>2, <1>3, <2>1
       DEF RequestInv, UploadInv, UploadPc, Condemned, OthersStay
  <2>3. BindInv(q)'
    <3>1. req[q].pc = "commitBound" /\ req[q].media # None
            => row'[req[q].media].status = "VERIFIED"
      BY <1>2, <2>1 DEF RequestInv, BindInv, ForeignKeyHolds
    <3>. QED
      BY <1>2, <1>3, <3>1, BindFrame DEF BindPc, ClaimPc
  <2>4. EditInv(q)'
    BY <1>3, <2>1 DEF RequestInv, EditInv, EditPc, OthersStay
  <2>5. ClaimInv(q)'
    BY <1>2, <1>3, <2>1 DEF RequestInv, ClaimInv, ClaimPc, OthersStay
  <2>6. ReconcileInv(q)'
    BY <1>1, <1>2, <1>3, <2>1
       DEF RequestInv, ReconcileInv, ReconcilePc, Condemned, OthersStay
  <2>. QED
    BY <2>2, <2>3, <2>4, <2>5, <2>6 DEF RequestInv
<1>. QED
  BY <1>4, <1>5, <1>6 DEF IInv

LEMMA ReconcileStatStep ==
  ASSUME IInv, NEW p \in Reconcilers, ReconcileStat(p)
  PROVE  IInv'
<1>. p \in Request
  BY DEF Request
<1>1. PICK pc \in {"delete", "confirm"} : GoTo(p, pc)
  BY DEF ReconcileStat
<1>2. /\ req' \in [Request -> RequestState]
      /\ req'[p].pc = pc
      /\ req'[p].media = req[p].media
      /\ OthersStay(p)
  BY <1>1, GoToFacts DEF IInv, Pc
<1>3. UNCHANGED <<tables, bytes, late, issued, day, releasedAt>>
  BY DEF ReconcileStat
<1>4. req[p].media \in Condemned
  BY DEF ReconcileStat, At, IInv, RequestInv, ReconcileInv, ReconcilePc
<1>5. RequestInv(p)'
  BY <1>2, <1>3, <1>4
     DEF RequestInv, UploadInv, BindInv, EditInv, ClaimInv, ReconcileInv,
         UploadPc, BindPc, EditPc, ClaimPc, Condemned, tables
<1>. QED
  BY <1>2, <1>3, <1>5, RequestStep

-----------------------------------------------------------------------------

LEMMA NextIInv == IInv /\ [Next]_vars => IInv'
<1> SUFFICES ASSUME IInv, [Next]_vars PROVE IInv'
  OBVIOUS
<1>1. ASSUME NEW p \in Uploaders, Upload(p) PROVE IInv'
  BY <1>1, BeginUploadStep, PutSucceedsStep, PutFailsStep, InsertSucceedsStep,
     InsertFailsStep, CompensateStep, CompensationFailsStep DEF Upload
<1>2. ASSUME NEW p \in Committers, Commit(p) PROVE IInv'
  BY <1>2, BeginCommitStep, CommitLegacyStep, CommitReferenceStep,
     CommitEndsStep DEF Commit
<1>3. ASSUME NEW p \in Activators, ActivateImage(p) PROVE IInv'
  <2>1. CASE ActivateRefused(p)
    BY <2>1, QuietStep DEF ActivateRefused, Request
  <2>. QED
    BY <1>3, <2>1, BeginActivateStep, ActivateStep DEF ActivateImage
<1>4. ASSUME NEW p \in Editors, Edit(p) PROVE IInv'
  BY <1>4, BeginEditStep, EditWithoutPhotoStep, EditLockStep, EditGuardStep,
     EditWriteStep DEF Edit
<1>5. ASSUME NEW p \in Collectors, Claim(p) PROVE IInv'
  BY <1>5, ClaimLockStep, ClaimCheckStep, ClaimMarkStep DEF Claim
<1>6. ASSUME NEW p \in Reconcilers, Reconcile(p) PROVE IInv'
  BY <1>6, BeginReconcileStep, ReconcileStatStep, ReconcileDeleteStep,
     ReconcileDeleteDelayedStep, ReconcileConfirmStep, ReconcileCompleteStep
     DEF Reconcile
<1>7. ASSUME NEW p \in Request, Crash(p) PROVE IInv'
  BY <1>7, QuietStep DEF Crash
<1>8. CASE UNCHANGED vars
  <2>1. UNCHANGED <<row, binding, photo, bytes, late, issued, day, req,
                    releasedAt>>
    BY <1>8 DEF vars
  <2>. QED
    BY <2>1 DEF IInv, TypeOK, BindingInv, IssuedImageStored, DeletedImageGone,
                LateInv, RequestInv, UploadInv, BindInv, EditInv, ClaimInv,
                ReconcileInv, ForeignKeyHolds, Condemned
<1>. QED
  BY <1>1, <1>2, <1>3, <1>4, <1>5, <1>6, <1>7, <1>8, LateDeleteStep, TickStep
     DEF Next

LEMMA SpecIInv == Spec => []IInv
  BY InitIInv, NextIInv, PTL DEF Spec

(* Every reachable state is well typed.                                    *)
THEOREM TypeCorrect == Spec => []TypeOK
<1>1. IInv => TypeOK
  BY DEF IInv
<1>. QED
  BY <1>1, SpecIInv, PTL

(* The foreign key and the claim protocol: what a record shows exists,     *)
(* however uploads, bindings, claims and late deletes interleave.          *)
THEOREM BoundImagesAvailable == Spec => []BoundImageAvailable
<1>1. IInv => BoundImageAvailable
  BY DEF IInv, BindingInv, IssuedImageStored, BoundImageAvailable,
         ForeignKeyHolds
<1>. QED
  BY <1>1, SpecIInv, PTL

(* Compensation never removes the bytes of an upload that was answered.    *)
THEOREM IssuedImagesStored == Spec => []IssuedImageStored
<1>1. IInv => IssuedImageStored
  BY DEF IInv
<1>. QED
  BY <1>1, SpecIInv, PTL

(* A row that says DELETED never has bytes again.                          *)
THEOREM DeletedImagesGone == Spec => []DeletedImageGone
<1>1. IInv => DeletedImageGone
  BY DEF IInv
<1>. QED
  BY <1>1, SpecIInv, PTL

-----------------------------------------------------------------------------
(* The service implements the register.                                    *)

registerVars == <<binding, issued, Condemned, bytes>>

LEMMA SameCondemned ==
  ASSUME row' = row PROVE Condemned' = Condemned
  BY DEF Condemned

LEMMA UploadRefines ==
  ASSUME IInv, NEW p \in Uploaders, Upload(p)
  PROVE  Register!Next \/ UNCHANGED registerVars
<1>. p \in Request
  BY DEF Request
<1> USE DEF registerVars, Register!Next
<1>1. CASE PutSucceeds(p) \/ PutFails(p)
  <2>1. /\ req[p].media \in Media \ issued
        /\ row[req[p].media].status = "NONE"
    BY <1>1 DEF PutSucceeds, PutFails, At, IInv, RequestInv, UploadInv, UploadPc
  <2>2. /\ bytes' \in {bytes, bytes \cup {req[p].media}}
        /\ row' = row /\ UNCHANGED <<binding, issued>>
    BY <1>1 DEF PutSucceeds, PutFails, tables
  <2>3. Register!Write(req[p].media) \/ UNCHANGED registerVars
    BY <2>1, <2>2, SameCondemned DEF Register!Write, Condemned
  <2>. QED
    BY <2>1, <2>3
<1>2. CASE InsertSucceeds(p)
  <2>1. /\ req[p].media \in Media /\ req[p].media \in bytes
        /\ row[req[p].media].status = "NONE"
    BY <1>2 DEF InsertSucceeds, At, IInv, RequestInv, UploadInv, UploadPc
  <2>2. Condemned' = Condemned
    BY <1>2, <2>1 DEF InsertSucceeds, Condemned, IInv, TypeOK
  <2>3. Register!Offer(req[p].media)
    BY <1>2, <2>1, <2>2 DEF Register!Offer, InsertSucceeds, Condemned
  <2>. QED
    BY <2>1, <2>3
<1>3. CASE InsertFails(p)
  <2>1. req[p].media \in Media /\ row[req[p].media].status = "NONE"
    BY <1>3 DEF InsertFails, At, IInv, RequestInv, UploadInv, UploadPc
  <2>2. Condemned' = Condemned
    <3>1. CASE row' = row
      BY <3>1, SameCondemned
    <3>2. CASE row' = [row EXCEPT ![req[p].media] =
                         [status |-> "VERIFIED", verifiedAt |-> day]]
      BY <2>1, <3>2 DEF Condemned, IInv, TypeOK
    <3>. QED
      BY <1>3, <3>1, <3>2 DEF InsertFails
  <2>. QED
    BY <1>3, <2>2 DEF InsertFails
<1>4. CASE Compensate(p)
  <2>1. req[p].media \in Media \ issued
    BY <1>4 DEF Compensate, At, IInv, RequestInv, UploadInv, UploadPc
  <2>2. Register!Erase(req[p].media)
    BY <1>4, <2>1, SameCondemned DEF Register!Erase, Compensate, tables
  <2>. QED
    BY <2>1, <2>2
<1>5. CASE CompensationFails(p) \/ \E m \in Media : BeginUpload(p, m)
  BY <1>5, SameCondemned DEF CompensationFails, BeginUpload, tables
<1>. QED
  BY <1>1, <1>2, <1>3, <1>4, <1>5 DEF Upload

(* A transaction that binds an issued and VERIFIED image to its own record *)
(* shows it, and one that binds none hides what was shown.                 *)
LEMMA BindingRefines ==
  ASSUME IInv, NEW o \in Owner, NEW m \in issued \cup {None},
         m # None => ForeignKeyHolds(o, m),
         binding' = [binding EXCEPT ![o] = m],
         UNCHANGED <<row, issued, bytes>>
  PROVE  Register!Next
<1> USE DEF Register!Next
<1>1. Condemned' = Condemned
  BY SameCondemned
<1>2. CASE m = None
  BY <1>1, <1>2 DEF Register!Hide
<1>3. CASE m # None
  <2>1. /\ m \in Media /\ m \in (issued \cap bytes) \ Condemned
    BY <1>3 DEF IInv, TypeOK, IssuedImageStored, ForeignKeyHolds, Condemned
  <2>2. \A other \in Owner \ {o} : binding[other] # m
    BY <1>3 DEF IInv, BindingInv, ForeignKeyHolds
  <2>3. Register!Show(o, m)
    BY <1>1, <2>1, <2>2 DEF Register!Show
  <2>. QED
    BY <2>1, <2>3
<1>. QED
  BY <1>2, <1>3

LEMMA CommitRefines ==
  ASSUME IInv, NEW p \in Committers, Commit(p)
  PROVE  Register!Next \/ UNCHANGED registerVars
<1>. p \in Request
  BY DEF Request
<1>1. CASE CommitEnds(p)
  <2>1. /\ req[p].owner \in Owner
        /\ req[p].media # None =>
             /\ req[p].media \in issued
             /\ ForeignKeyHolds(req[p].owner, req[p].media)
    BY <1>1 DEF CommitEnds, At, IInv, RequestInv, BindInv, BindPc
  <2>. QED
    BY <1>1, <2>1, BindingRefines DEF CommitEnds, Bind
<1>2. CASE ~CommitEnds(p)
  BY <1>2, SameCondemned
     DEF Commit, BeginCommit, CommitLegacy, CommitReference, registerVars, tables
<1>. QED
  BY <1>1, <1>2

LEMMA ActivateRefines ==
  ASSUME IInv, NEW p \in Activators, ActivateImage(p)
  PROVE  Register!Next \/ UNCHANGED registerVars
<1>. p \in Request
  BY DEF Request
<1>1. CASE Activate(p)
  <2>1. /\ req[p].owner \in Owner
        /\ req[p].media \in issued
    BY <1>1 DEF Activate, At, IInv, RequestInv, BindInv, BindPc
  <2>. QED
    BY <1>1, <2>1, BindingRefines DEF Activate, Bind
<1>2. CASE ~Activate(p)
  BY <1>2, SameCondemned
     DEF ActivateImage, BeginActivate, ActivateRefused, registerVars, tables
<1>. QED
  BY <1>1, <1>2

LEMMA ClaimRefines ==
  ASSUME IInv, NEW p \in Collectors, Claim(p)
  PROVE  Register!Next \/ UNCHANGED registerVars
<1>. p \in Request
  BY DEF Request
<1>1. CASE ClaimMark(p)
  <2>1. /\ req[p].media \in Media
        /\ \A o \in Owner : binding[o] # req[p].media
    BY <1>1 DEF ClaimMark, At, IInv, RequestInv, ClaimInv, ClaimPc
  <2>2. Condemned' = Condemned \cup {req[p].media}
    BY <1>1, <2>1 DEF ClaimMark, Condemned, IInv, TypeOK
  <2>3. Register!Condemn(req[p].media)
    BY <1>1, <2>1, <2>2 DEF Register!Condemn, ClaimMark
  <2>. QED
    BY <2>1, <2>3 DEF Register!Next
<1>2. CASE ~ClaimMark(p)
  BY <1>2, SameCondemned DEF Claim, ClaimLock, ClaimCheck, registerVars, tables
<1>. QED
  BY <1>1, <1>2

LEMMA ReconcileRefines ==
  ASSUME IInv, NEW p \in Reconcilers, Reconcile(p)
  PROVE  Register!Next \/ UNCHANGED registerVars
<1>. p \in Request
  BY DEF Request
<1>1. CASE ReconcileDelete(p)
  <2>1. req[p].media \in Condemned
    BY <1>1 DEF ReconcileDelete, At, IInv, RequestInv, ReconcileInv, ReconcilePc
  <2>2. Register!Erase(req[p].media)
    BY <1>1, <2>1, SameCondemned DEF Register!Erase, ReconcileDelete, tables
  <2>. QED
    BY <2>1, <2>2 DEF Register!Next, Condemned
<1>2. CASE ReconcileComplete(p)
  <2>1. Condemned' = Condemned
    BY <1>2 DEF ReconcileComplete, Condemned, IInv, TypeOK
  <2>. QED
    BY <1>2, <2>1 DEF ReconcileComplete, registerVars
<1>3. CASE ~ReconcileDelete(p) /\ ~ReconcileComplete(p)
  BY <1>3, SameCondemned
     DEF Reconcile, BeginReconcile, ReconcileStat, ReconcileDeleteDelayed,
         ReconcileConfirm, registerVars, tables
<1>. QED
  BY <1>1, <1>2, <1>3

LEMMA NextRefines ==
  ASSUME IInv, [Next]_vars
  PROVE  [Register!Next]_(Register!vars)
<1>. Register!vars = registerVars
  BY DEF Register!vars, registerVars
<1>. SUFFICES Register!Next \/ UNCHANGED registerVars
  BY DEF registerVars, Register!vars
<1>1. ASSUME NEW p \in Editors, Edit(p) PROVE UNCHANGED registerVars
  BY <1>1, SameCondemned
     DEF Edit, BeginEdit, EditWithoutPhoto, EditLock, EditGuard, EditWrite,
         registerVars, tables
<1>2. ASSUME NEW m \in Media, LateDelete(m) PROVE Register!Next
  <2>1. m \in Condemned \/ m \notin issued
    BY <1>2 DEF LateDelete, IInv, LateInv
  <2>2. Register!Erase(m)
    BY <1>2, <2>1, SameCondemned DEF Register!Erase, LateDelete, tables
  <2>. QED
    BY <2>2 DEF Register!Next
<1>3. ASSUME NEW p \in Request, Crash(p) PROVE UNCHANGED registerVars
  BY <1>3, SameCondemned DEF Crash, registerVars, tables
<1>4. CASE Tick \/ UNCHANGED vars
  BY <1>4, SameCondemned DEF Tick, vars, registerVars, tables
<1>. QED
  BY <1>1, <1>2, <1>3, <1>4, UploadRefines, CommitRefines, ActivateRefines,
     ClaimRefines, ReconcileRefines DEF Next

(* Every behaviour of the service is one of the register: an image that is *)
(* condemned is never shown or offered again, and only condemned images    *)
(* and failed uploads lose their bytes.                                    *)
THEOREM RegisterImplemented == Spec => ImplementsRegister
<1>1. Init => Register!Init
  BY DEF Init, Register!Init, Condemned
<1>. QED
  BY <1>1, NextRefines, SpecIInv, PTL DEF Spec, ImplementsRegister, Register!Spec

-----------------------------------------------------------------------------
(* The record lock: commits and legacy edits exclude each other.  The      *)
(* theorems need that nothing else binds images, so they assume that       *)
(* /activate is not used: it does not take the lock.                       *)

EntityPc == {"commitEntity", "commitBound", "editLocked", "editAllowed"}

(* One request at a time holds the lock of a record, and one that passed   *)
(* the guard keeps the record without a binding.                           *)
LockInv(p) ==
  /\ req[p].pc \in EntityPc =>
       \A q \in Request \ {p} :
         req[q].pc \in EntityPc => req[q].owner # req[p].owner
  /\ req[p].pc = "editAllowed" => binding[req[p].owner] = None

LInv == PrivateReplacesLegacy /\ \A p \in Request : LockInv(p)

-----------------------------------------------------------------------------
(* Steps that take no lock and change neither column.                      *)

Free(p) ==
  /\ OthersStay(p)
  /\ req'[p].pc \notin EntityPc
  /\ UNCHANGED <<binding, photo>>

LEMMA FreeStep ==
  ASSUME LInv, NEW p \in Request, Free(p)
  PROVE  LInv'
<1>1. PrivateReplacesLegacy'
  BY DEF LInv, PrivateReplacesLegacy, Free
<1>2. ASSUME NEW q \in Request PROVE LockInv(q)'
  <2>1. CASE q = p
    BY <2>1 DEF LockInv, Free, EntityPc
  <2>2. CASE q # p
    BY <2>2 DEF LInv, LockInv, Free, OthersStay
  <2>. QED
    BY <2>1, <2>2
<1>. QED
  BY <1>1, <1>2 DEF LInv

LEMMA FinishFree ==
  ASSUME TypeOK, NEW p \in Request, Finish(p), UNCHANGED <<binding, photo>>
  PROVE  Free(p)
  BY FinishFacts DEF Free, EntityPc

LEMMA GoToFree ==
  ASSUME TypeOK, NEW p \in Request, NEW pc \in Pc \ EntityPc, GoTo(p, pc),
         UNCHANGED <<binding, photo>>
  PROVE  Free(p)
  BY GoToFacts DEF Free

LEMMA StartFree ==
  ASSUME TypeOK, NEW p \in Request, NEW r, r.pc \notin EntityPc, Start(p, r),
         UNCHANGED <<binding, photo>>
  PROVE  Free(p)
  BY DEF Free, Start, TypeOK, OthersStay

LEMMA UploadFree ==
  ASSUME TypeOK, NEW p \in Uploaders, Upload(p)
  PROVE  Free(p)
<1>. p \in Request
  BY DEF Request
<1>. UNCHANGED <<binding, photo>>
  BY DEF Upload, BeginUpload, PutSucceeds, PutFails, InsertSucceeds, InsertFails,
         Compensate, CompensationFails, tables
<1>1. CASE \E m \in Media : BeginUpload(p, m)
  <2>. PICK m \in Media : BeginUpload(p, m)
    BY <1>1
  <2>1. [Idle EXCEPT !.pc = "put", !.media = m].pc \notin EntityPc
    BY DEF Idle, EntityPc
  <2>. QED
    BY <2>1, StartFree DEF BeginUpload
<1>2. CASE GoTo(p, "stored") \/ GoTo(p, "compensate")
  BY <1>2, GoToFree DEF Pc, EntityPc
<1>3. CASE Finish(p)
  BY <1>3, FinishFree
<1>. QED
  BY <1>1, <1>2, <1>3
     DEF Upload, PutSucceeds, PutFails, InsertSucceeds, InsertFails,
         Compensate, CompensationFails

LEMMA ClaimFree ==
  ASSUME TypeOK, NEW p \in Collectors, Claim(p)
  PROVE  Free(p)
<1>. p \in Request
  BY DEF Request
<1>. UNCHANGED <<binding, photo>>
  BY DEF Claim, ClaimLock, ClaimCheck, ClaimMark, tables
<1>1. CASE \E m \in Media : ClaimLock(p, m)
  <2>. PICK m \in Media : ClaimLock(p, m)
    BY <1>1
  <2>1. [Idle EXCEPT !.pc = "claimLocked", !.media = m].pc \notin EntityPc
    BY DEF Idle, EntityPc
  <2>. QED
    BY <2>1, StartFree DEF ClaimLock
<1>2. CASE GoTo(p, "claimClear")
  BY <1>2, GoToFree DEF Pc, EntityPc
<1>3. CASE Finish(p)
  BY <1>3, FinishFree
<1>. QED
  BY <1>1, <1>2, <1>3 DEF Claim, ClaimCheck, ClaimMark

LEMMA ReconcileFree ==
  ASSUME TypeOK, NEW p \in Reconcilers, Reconcile(p)
  PROVE  Free(p)
<1>. p \in Request
  BY DEF Request
<1>. UNCHANGED <<binding, photo>>
  BY DEF Reconcile, BeginReconcile, ReconcileStat, ReconcileDelete,
         ReconcileDeleteDelayed, ReconcileConfirm, ReconcileComplete, tables
<1>1. CASE \E m \in Media : BeginReconcile(p, m)
  <2>. PICK m \in Media : BeginReconcile(p, m)
    BY <1>1
  <2>1. [Idle EXCEPT !.pc = "stat", !.media = m].pc \notin EntityPc
    BY DEF Idle, EntityPc
  <2>. QED
    BY <2>1, StartFree DEF BeginReconcile
<1>2. CASE \E pc \in {"delete", "confirm", "complete"} : GoTo(p, pc)
  BY <1>2, GoToFree DEF Pc, EntityPc
<1>3. CASE Finish(p)
  BY <1>3, FinishFree
<1>. QED
  BY <1>1, <1>2, <1>3
     DEF Reconcile, ReconcileStat, ReconcileDelete, ReconcileDeleteDelayed,
         ReconcileConfirm, ReconcileComplete

-----------------------------------------------------------------------------
(* Steps that take or keep the lock.                                       *)

LEMMA LockStep ==
  ASSUME LInv, NEW p \in Request, OthersStay(p),
         UNCHANGED <<binding, photo>>,
         req'[p].owner = req[p].owner,
         req[p].pc \in EntityPc \/ ~EntityLocked(req[p].owner),
         req'[p].pc = "editAllowed" => binding[req[p].owner] = None
  PROVE  LInv'
<1>1. PrivateReplacesLegacy'
  BY DEF LInv, PrivateReplacesLegacy
<1>2. ASSUME NEW q \in Request \ {p}, req[q].pc \in EntityPc
      PROVE  req[q].owner # req[p].owner
  BY <1>2 DEF LInv, LockInv, EntityLocked, EntityPc
<1>3. ASSUME NEW q \in Request PROVE LockInv(q)'
  <2>1. CASE q = p
    BY <1>2, <2>1 DEF LockInv, OthersStay
  <2>2. CASE q # p
    BY <1>2, <2>2 DEF LInv, LockInv, OthersStay
  <2>. QED
    BY <2>1, <2>2
<1>. QED
  BY <1>1, <1>3 DEF LInv

LEMMA CommitLInv ==
  ASSUME IInv, LInv, NEW p \in Committers, Commit(p)
  PROVE  LInv'
<1>. p \in Request
  BY DEF Request
<1>. TypeOK
  BY DEF IInv
<1>1. ASSUME NEW o \in Owner, NEW url \in Url \cup {None},
             NEW new \in Known(o) \cup {None}, NEW old \in Known(o) \cup {None},
             BeginCommit(p, o, new, old, url)
      PROVE  LInv'
  <2>1. Free(p)
    <3>1. [pc |-> "commit", owner |-> o, media |-> new, old |-> old,
           url |-> url].pc \notin EntityPc
      BY DEF EntityPc
    <3>. QED
      BY <1>1, <3>1, StartFree DEF BeginCommit, tables
  <2>. QED
    BY <2>1, FreeStep
<1>2. CASE (CommitLegacy(p) \/ CommitReference(p)) /\ Finish(p)
  BY <1>2, FinishFree, FreeStep DEF CommitLegacy, CommitReference, tables
<1>3. CASE CommitLegacy(p) /\ GoTo(p, "commitEntity")
  <2>1. /\ OthersStay(p)
        /\ req'[p].owner = req[p].owner /\ req'[p].pc = "commitEntity"
    BY <1>3, GoToFacts DEF Pc
  <2>. QED
    BY <1>3, <2>1, LockStep DEF CommitLegacy, tables
<1>4. CASE CommitReference(p) /\ GoTo(p, "commitBound")
  <2>1. /\ OthersStay(p)
        /\ req'[p].owner = req[p].owner /\ req'[p].pc = "commitBound"
    BY <1>4, GoToFacts DEF Pc
  <2>. QED
    BY <1>4, <2>1, LockStep DEF CommitReference, At, EntityPc, tables
<1>5. CASE CommitEnds(p)
  <2>1. OthersStay(p) /\ req'[p].pc = "idle"
    BY <1>5, FinishFacts DEF CommitEnds
  <2>2. /\ req[p].pc = "commitBound" /\ req[p].owner \in Owner
        /\ binding' = [binding EXCEPT ![req[p].owner] = req[p].media]
        /\ photo' = [photo EXCEPT ![req[p].owner] = None]
    BY <1>5 DEF CommitEnds, Bind, At, IInv, RequestInv, BindInv, BindPc
  <2>3. PrivateReplacesLegacy'
    BY <2>2 DEF LInv, PrivateReplacesLegacy, TypeOK
  <2>4. ASSUME NEW q \in Request PROVE LockInv(q)'
    <3>1. CASE q = p
      BY <2>1, <3>1 DEF LockInv, EntityPc
    <3>2. CASE q # p
      <4>1. req'[q] = req[q] /\ LockInv(q) /\ LockInv(p)
        BY <2>1, <3>2 DEF OthersStay, LInv
      <4>2. req[q].pc = "editAllowed" => binding'[req[q].owner] = None
        <5>1. ASSUME req[q].pc = "editAllowed"
              PROVE  binding'[req[q].owner] = None
          <6>1. req[q].owner \in Owner /\ req[q].owner # req[p].owner
            BY <2>2, <3>2, <4>1, <5>1
               DEF LockInv, EntityPc, IInv, RequestInv, EditInv, EditPc
          <6>2. binding'[req[q].owner] = binding[req[q].owner]
            BY <2>2, <6>1 DEF TypeOK
          <6>. QED
            BY <4>1, <5>1, <6>2 DEF LockInv
        <5>. QED
          BY <5>1
      <4>. QED
        BY <2>1, <4>1, <4>2 DEF LockInv, EntityPc, OthersStay
    <3>. QED
      BY <3>1, <3>2
  <2>. QED
    BY <2>3, <2>4 DEF LInv
<1>. QED
  BY <1>1, <1>2, <1>3, <1>4, <1>5 DEF Commit, CommitLegacy, CommitReference

LEMMA EditLInv ==
  ASSUME IInv, LInv, NEW p \in Editors, Edit(p)
  PROVE  LInv'
<1>. p \in Request
  BY DEF Request
<1>. TypeOK
  BY DEF IInv
<1>1. ASSUME NEW o \in Owner, NEW url \in Url \cup {None}, BeginEdit(p, o, url)
      PROVE  LInv'
  <2>1. Free(p)
    <3>1. [Idle EXCEPT !.pc = "edit", !.owner = o, !.url = url].pc \notin EntityPc
      BY DEF EntityPc, Idle
    <3>. QED
      BY <1>1, <3>1, StartFree DEF BeginEdit, tables
  <2>. QED
    BY <2>1, FreeStep
<1>2. CASE EditGuard(p) /\ Finish(p)
  BY <1>2, FinishFree, FreeStep DEF EditGuard, tables
<1>3. CASE EditLock(p)
  <2>1. /\ OthersStay(p)
        /\ req'[p].owner = req[p].owner /\ req'[p].pc = "editLocked"
    BY <1>3, GoToFacts DEF Pc, EditLock
  <2>. QED
    BY <1>3, <2>1, LockStep DEF EditLock, tables
<1>4. CASE EditGuard(p) /\ GoTo(p, "editAllowed") /\ ~Finish(p)
  <2>1. /\ OthersStay(p)
        /\ req'[p].owner = req[p].owner /\ req'[p].pc = "editAllowed"
    BY <1>4, GoToFacts DEF Pc
  <2>. QED
    BY <1>4, <2>1, LockStep DEF EditGuard, At, EntityPc, tables
<1>5. CASE EditWithoutPhoto(p) \/ EditWrite(p)
  <2>1. OthersStay(p) /\ req'[p].pc = "idle"
    BY <1>5, FinishFacts DEF EditWithoutPhoto, EditWrite
  <2>2. binding' = binding
    BY <1>5 DEF EditWithoutPhoto, EditWrite
  <2>3. PrivateReplacesLegacy'
    <3>1. CASE EditWithoutPhoto(p)
      BY <3>1 DEF EditWithoutPhoto, LInv, PrivateReplacesLegacy, TypeOK
    <3>2. CASE EditWrite(p)
      <4>1. binding[req[p].owner] = None
        BY <3>2 DEF EditWrite, At, LInv, LockInv
      <4>. QED
        BY <3>2, <4>1 DEF EditWrite, LInv, PrivateReplacesLegacy, TypeOK
    <3>. QED
      BY <1>5, <3>1, <3>2
  <2>4. ASSUME NEW q \in Request PROVE LockInv(q)'
    <3>1. CASE q = p
      BY <2>1, <3>1 DEF LockInv, EntityPc
    <3>2. CASE q # p
      BY <2>1, <2>2, <3>2 DEF LInv, LockInv, OthersStay, EntityPc
    <3>. QED
      BY <3>1, <3>2
  <2>. QED
    BY <2>3, <2>4 DEF LInv
<1>. QED
  BY <1>1, <1>2, <1>3, <1>4, <1>5 DEF Edit, EditGuard

LEMMA NextLInv ==
  ASSUME Activators = {}, IInv, LInv, [Next]_vars
  PROVE  LInv'
<1>. TypeOK
  BY DEF IInv
<1>1. ASSUME NEW p \in Uploaders, Upload(p) PROVE LInv'
  BY <1>1, UploadFree, FreeStep DEF Request
<1>2. ASSUME NEW p \in Collectors, Claim(p) PROVE LInv'
  BY <1>2, ClaimFree, FreeStep DEF Request
<1>3. ASSUME NEW p \in Reconcilers, Reconcile(p) PROVE LInv'
  BY <1>3, ReconcileFree, FreeStep DEF Request
<1>4. ASSUME NEW p \in Request, Crash(p) PROVE LInv'
  BY <1>4, FinishFree, FreeStep DEF Crash, tables
<1>5. ASSUME UNCHANGED <<binding, photo, req>> PROVE LInv'
  BY <1>5 DEF LInv, PrivateReplacesLegacy, LockInv
<1>6. CASE (\E m \in Media : LateDelete(m)) \/ Tick \/ UNCHANGED vars
  BY <1>5, <1>6 DEF LateDelete, Tick, vars, tables
<1>. QED
  BY <1>1, <1>2, <1>3, <1>4, <1>6, CommitLInv, EditLInv DEF Next

LEMMA InitLInv == Init => LInv
<1> SUFFICES ASSUME Init PROVE LInv
  OBVIOUS
<1>. QED
  BY DEF Init, Idle, LInv, PrivateReplacesLegacy, LockInv, EntityPc

LEMMA SpecLInv ==
  ASSUME Activators = {}
  PROVE  Spec => []LInv
  BY InitLInv, NextLInv, SpecIInv, PTL DEF Spec

(* Commits and legacy edits alone never leave a public address beside a    *)
(* private image, for every number of concurrent requests.                 *)
THEOREM PrivateImagesReplaceLegacy ==
  ASSUME Activators = {}
  PROVE  Spec => []PrivateReplacesLegacy
<1>1. LInv => PrivateReplacesLegacy
  BY DEF LInv
<1>. QED
  BY <1>1, SpecLInv, PTL

-----------------------------------------------------------------------------

LegacyWriteStep ==
  \A o \in Owner : photo'[o] \notin {None, photo[o]} => binding[o] = None

LEMMA OnlyEditsWrite ==
  ASSUME IInv, LInv, [Next]_vars
  PROVE  LegacyWriteStep
<1>. TypeOK
  BY DEF IInv
<1>1. CASE photo' = photo
  BY <1>1 DEF LegacyWriteStep
<1>2. ASSUME NEW p \in Editors, EditWrite(p) PROVE LegacyWriteStep
  <2>1. binding[req[p].owner] = None
    BY <1>2 DEF EditWrite, At, LInv, LockInv, Request
  <2>. QED
    BY <1>2, <2>1 DEF LegacyWriteStep, EditWrite, TypeOK
<1>3. ASSUME NEW p \in Request, NEW o,
             photo' = [photo EXCEPT ![o] = None]
      PROVE  LegacyWriteStep
  BY <1>3 DEF LegacyWriteStep, TypeOK
<1>4. ASSUME NEW p \in Uploaders \cup Collectors \cup Reconcilers,
             Upload(p) \/ Claim(p) \/ Reconcile(p)
      PROVE  photo' = photo
  BY <1>4 DEF Upload, BeginUpload, PutSucceeds, PutFails, InsertSucceeds,
       InsertFails, Compensate, CompensationFails, Claim, ClaimLock, ClaimCheck,
       ClaimMark, Reconcile, BeginReconcile, ReconcileStat, ReconcileDelete,
       ReconcileDeleteDelayed, ReconcileConfirm, ReconcileComplete, tables
<1>5. ASSUME NEW p \in Activators, ActivateImage(p) PROVE photo' = photo
  BY <1>5 DEF ActivateImage, BeginActivate, Activate, ActivateRefused, tables
<1>6. ASSUME NEW p \in Committers, Commit(p) PROVE LegacyWriteStep
  <2>1. CASE CommitEnds(p)
    BY <1>3, <2>1 DEF CommitEnds, Request
  <2>2. CASE ~CommitEnds(p)
    BY <1>1, <1>6, <2>2
       DEF Commit, BeginCommit, CommitLegacy, CommitReference, tables
  <2>. QED
    BY <2>1, <2>2
<1>7. ASSUME NEW p \in Editors, Edit(p) PROVE LegacyWriteStep
  <2>1. CASE EditWithoutPhoto(p)
    BY <1>3, <2>1 DEF EditWithoutPhoto, Request
  <2>2. CASE ~EditWithoutPhoto(p) /\ ~EditWrite(p)
    BY <1>1, <1>7, <2>2 DEF Edit, BeginEdit, EditLock, EditGuard, tables
  <2>. QED
    BY <1>2, <2>1, <2>2
<1>8. CASE \/ \E m \in Media : LateDelete(m)
           \/ \E p \in Request : Crash(p)
           \/ Tick
           \/ UNCHANGED vars
  BY <1>1, <1>8 DEF LateDelete, Crash, Tick, vars, tables
<1>. QED
  BY <1>1, <1>4, <1>5, <1>6, <1>7, <1>8 DEF Next

(* While a private image is bound, no legacy edit writes an address: the   *)
(* guard reads the binding under the lock that every commit takes first.   *)
THEOREM LegacyWritesGuarded ==
  ASSUME Activators = {}
  PROVE  Spec => LegacyWriteGuarded
<1>1. IInv /\ LInv /\ [Next]_vars => [LegacyWriteStep]_vars
  BY OnlyEditsWrite
<1>2. IInv /\ LInv /\ [Next]_vars =>
        [\A o \in Owner :
           photo'[o] \notin {None, photo[o]} => binding[o] = None]_vars
  BY <1>1 DEF LegacyWriteStep
<1>. QED
  BY <1>2, SpecIInv, SpecLInv, PTL DEF Spec, LegacyWriteGuarded
=============================================================================
