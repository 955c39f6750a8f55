---------------------------- MODULE MediaUploads ----------------------------
(***************************************************************************)
(* One private upload by a signed PUT: the row of private_media_objects,   *)
(* the object in the bucket, and the calls that confirm or clean it up.    *)
(* Every access to the database or the bucket is a step.  The PUT creates  *)
(* the object only where none is (If-None-Match), but may arrive at any    *)
(* time; a range read asks for the version it saw (If-Match).              *)
(***************************************************************************)
EXTENDS FiniteSets

CONSTANTS
  Version,  \* what PUTs may store, one ETag each
  Call      \* confirmations, cleanups and downloads at the same time

VARIABLES
  row,      \* the row, and the ETag it was verified with
  object,   \* the version in the bucket, if any
  arrived,  \* versions whose PUT took effect
  genuine,  \* versions whose bytes are the declared image
  settled,  \* the ticket expired longer ago than PRIVATE_MEDIA_SETTLEMENT_MS
  call

vars == <<row, object, arrived, genuine, settled, call>>

Opt(S) == {{}} \cup {{x} : x \in S}
Status == {"none", "PENDING", "VERIFIED", "REJECTED", "DELETED"}
CallState == [pc : {"head", "range", "again", "mark", "reject", "ticket"}, version : Opt(Version)]
        \cup [pc : {"claim", "delete", "done"}]

TypeOK ==
  /\ row \in [status : Status, etag : Opt(Version)]
  /\ object \in Opt(arrived)
  /\ arrived \subseteq Version /\ genuine \subseteq Version
  /\ settled \in BOOLEAN
  /\ call \in [Call -> Opt(CallState)]

Init ==
  /\ row = [status |-> "none", etag |-> {}]
  /\ object = {} /\ arrived = {}
  /\ genuine = {}
  /\ settled = FALSE
  /\ call = [p \in Call |-> {}]

-----------------------------------------------------------------------------

bucket == <<object, arrived, genuine>>
Is(p, pc) == \E c \in call[p] : c.pc = pc
Seen(p) == UNION {c.version : c \in call[p]}
Goto(p, c) == call' = [call EXCEPT ![p] = {c}]
Step(p, pc) == Goto(p, [pc |-> pc, version |-> Seen(p)])
End(p) == call' = [call EXCEPT ![p] = {}]
Write(status) == row' = [row EXCEPT !.status = status]

(* The ticket is signed before the row is written, returned after it.      *)
Prepare ==
  /\ row.status = "none"
  /\ Write("PENDING")
  /\ UNCHANGED <<bucket, settled, call>>

Settle ==
  /\ row.status # "none" /\ ~settled
  /\ settled' = TRUE
  /\ UNCHANGED <<row, bucket, call>>

Put(v) ==
  /\ row.status # "none"
  /\ v \notin arrived
  /\ object = {}
  /\ object' = {v} /\ arrived' = arrived \cup {v}
  /\ genuine' \in {genuine, genuine \cup {v}}
  /\ UNCHANGED <<row, settled, call>>

(* Confirm: a row that is not pending, or not settled, ends the call.      *)
BeginConfirm(p) ==
  /\ call[p] = {}
  /\ row.status = "PENDING" /\ settled
  /\ Goto(p, [pc |-> "head", version |-> {}])
  /\ UNCHANGED <<row, bucket, settled>>

Head(p) ==
  /\ Is(p, "head")
  /\ IF object = {} THEN End(p) ELSE Goto(p, [pc |-> "range", version |-> object])
  /\ UNCHANGED <<row, bucket, settled>>

(* A read with If-Match: of the version that was asked for, or of none.    *)
Matches(p) == object = Seen(p)

(* The first bytes of that version, and verifyPrivateImageObject.          *)
ReadPrefix(p) ==
  /\ Is(p, "range")
  /\ IF ~Matches(p) THEN End(p)
     ELSE Step(p, IF object \subseteq genuine THEN "again" ELSE "reject")
  /\ UNCHANGED <<row, bucket, settled>>

HeadAgain(p) ==
  /\ Is(p, "again")
  /\ IF object = Seen(p) THEN Step(p, "mark") ELSE End(p)
  /\ UNCHANGED <<row, bucket, settled>>

(* Mutant: the update asks only that nobody verified the row before.       *)
MarkUnlessVerified(p) ==
  /\ Is(p, "mark")
  /\ row' = IF row.status # "VERIFIED"
            THEN [status |-> "VERIFIED", etag |-> Seen(p)] ELSE row
  /\ End(p)
  /\ UNCHANGED <<bucket, settled>>

MarkVerifiedIfPending(p) ==
  /\ Is(p, "mark")
  /\ row' = IF row.status = "PENDING"
            THEN [status |-> "VERIFIED", etag |-> Seen(p)] ELSE row
  /\ End(p)
  /\ UNCHANGED <<bucket, settled>>

RejectInvalid(p) ==
  /\ Is(p, "reject")
  /\ IF row.status = "PENDING" THEN Write("REJECTED") ELSE UNCHANGED row
  /\ End(p)
  /\ UNCHANGED <<bucket, settled>>

(* Cleanup: the candidates are listed, claimed, deleted one by one.        *)
BeginCleanup(p) ==
  /\ call[p] = {}
  /\ settled /\ row.status \in {"PENDING", "REJECTED"}
  /\ Goto(p, [pc |-> IF row.status = "PENDING" THEN "claim" ELSE "delete"])
  /\ UNCHANGED <<row, bucket, settled>>

Claim(p) ==
  /\ Is(p, "claim")
  /\ IF row.status = "PENDING"
     THEN Write("REJECTED") /\ Goto(p, [pc |-> "delete"])
     ELSE UNCHANGED row /\ End(p)
  /\ UNCHANGED <<bucket, settled>>

DeleteObject(p) ==
  /\ Is(p, "delete")
  /\ object' = {}
  /\ Goto(p, [pc |-> "done"])
  /\ UNCHANGED <<row, arrived, genuine, settled>>

MarkDeletedIfRejected(p) ==
  /\ Is(p, "done")
  /\ IF row.status = "REJECTED" THEN Write("DELETED") ELSE UNCHANGED row
  /\ End(p)
  /\ UNCHANGED <<bucket, settled>>

(* A download: who may read a verified upload gets a signed GET for the    *)
(* version in its row, and uses it later, straight to the bucket.          *)
SignDownload(p) ==
  /\ call[p] = {}
  /\ row.status = "VERIFIED"
  /\ Goto(p, [pc |-> "ticket", version |-> row.etag])
  /\ UNCHANGED <<row, bucket, settled>>

(* The bucket or the database fails, the process dies, or a ticket to      *)
(* download runs out.                                                      *)
Abort(p) == call[p] # {} /\ End(p) /\ UNCHANGED <<row, bucket, settled>>

Next ==
  \/ Prepare \/ Settle \/ \E v \in Version : Put(v)
  \/ \E p \in Call :
       \/ BeginConfirm(p) \/ Head(p) \/ ReadPrefix(p) \/ HeadAgain(p)
       \/ MarkVerifiedIfPending(p) \/ RejectInvalid(p)
       \/ BeginCleanup(p) \/ Claim(p) \/ DeleteObject(p) \/ MarkDeletedIfRejected(p)
       \/ SignDownload(p) \/ Abort(p)

Spec == Init /\ [][Next]_vars

-----------------------------------------------------------------------------

(* A verified upload has its bytes: the object is there, it is the version *)
(* that was verified, and the image it was declared to be.  No cleanup     *)
(* that overlaps the confirmation, and no late PUT, changes that, and a    *)
(* ticket to download finds that version as long as it lasts.              *)
VerifiedHasBytes ==
  /\ row.status = "VERIFIED" =>
       /\ object # {} /\ object = row.etag
       /\ object \subseteq genuine
  /\ \A p \in Call : Is(p, "ticket") => Matches(p)
=============================================================================
