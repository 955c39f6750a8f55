--------------------------- MODULE Services_proofs ---------------------------
(***************************************************************************)
(* Proofs about the services around the data: uploads by a signed PUT      *)
(* (MediaUploads), the broker's nonces (Broker), the cache of list pages   *)
(* (ListCache), the typed times (Durations) and the guard of the public    *)
(* routes (RateLimit).  They hold for all values of the constants that     *)
(* Services declares and its assumptions allow.                            *)
(***************************************************************************)
EXTENDS Services, Sequences, FiniteSetTheorems, TLAPS

-----------------------------------------------------------------------------
(* MediaUploads.  While a row is pending nobody may delete its object, so  *)
(* the version that a confirmation reads stays the one in the bucket; a    *)
(* cleanup deletes only after the row was rejected, which is for good.     *)

(* The steps of a confirmation after it saw an object.                     *)
UpConfirming == {"range", "again", "mark", "reject"}

(* No call starts before the row is written.                               *)
UpBornInv == row.status = "none" => \A p \in Request : call[p] = {}

(* Whoever deletes has seen, or made, the row rejected.                    *)
UpCleanupInv ==
  \A p \in Request : Up!Is(p, "delete") \/ Up!Is(p, "done") => row.status \in {"REJECTED", "DELETED"}

(* A confirmation of a pending row works on the version in the bucket, and *)
(* passes its checks only with the declared image.                         *)
UpConfirmInv ==
  \A p \in Request :
    /\ row.status = "PENDING" /\ (\E pc \in UpConfirming : Up!Is(p, pc)) =>
         object # {} /\ object = Up!Seen(p)
    /\ Up!Is(p, "again") \/ Up!Is(p, "mark") => Up!Seen(p) \subseteq genuine

(* Tickets to download are for verified uploads, which stay as they are.   *)
UpTicketInv ==
  \A p \in Request : Up!Is(p, "ticket") => row.status = "VERIFIED" /\ Up!Seen(p) = row.etag

UpBytesInv ==
  row.status = "VERIFIED" => object # {} /\ object = row.etag /\ object \subseteq genuine

UpIInv == Up!TypeOK /\ UpBornInv /\ UpCleanupInv /\ UpConfirmInv /\ UpTicketInv /\ UpBytesInv

LEMMA UpInit == Up!Init => UpIInv
<1> SUFFICES ASSUME Up!Init PROVE UpIInv
  OBVIOUS
<1>1. Up!TypeOK
  BY DEF Up!Init, Up!TypeOK, Up!Opt, Up!Status
<1>2. \A p \in Request : \A pc : ~Up!Is(p, pc)
  BY DEF Up!Init, Up!Is
<1> QED
  BY <1>1, <1>2
  DEF Up!Init, UpIInv, UpBornInv, UpCleanupInv, UpConfirmInv, UpTicketInv, UpBytesInv

(* What one call is after it went on: only its own step and version count. *)
LEMMA UpGone ==
  ASSUME Up!TypeOK, NEW p \in Request, Up!End(p)
  PROVE  /\ call' \in [Request -> Up!Opt(Up!CallState)]
         /\ call'[p] = {}
         /\ \A q \in Request : q # p => call'[q] = call[q]
  BY DEF Up!TypeOK, Up!End, Up!Opt

LEMMA UpWent ==
  ASSUME Up!TypeOK, NEW p \in Request, NEW c \in Up!CallState, Up!Goto(p, c)
  PROVE  /\ call' \in [Request -> Up!Opt(Up!CallState)]
         /\ call'[p] = {c}
         /\ \A q \in Request : q # p => call'[q] = call[q]
  BY DEF Up!TypeOK, Up!Goto, Up!Opt

LEMMA SeenType ==
  ASSUME Up!TypeOK, NEW p \in Request, NEW pc \in {"head", "range", "again", "mark", "reject", "ticket"}, Up!Is(p, pc)
  PROVE  \E c \in Up!CallState :
           /\ call[p] = {c} /\ c.pc = pc
           /\ Up!Seen(p) = c.version /\ c.version \in Up!Opt(Version)
<1>1. PICK c \in Up!CallState : call[p] = {c}
  BY DEF Up!TypeOK, Up!Opt, Up!Is
<1>2. c.pc = pc
  BY <1>1 DEF Up!Is
<1>3. c \in [pc : {"head", "range", "again", "mark", "reject", "ticket"}, version : Up!Opt(Version)]
  BY <1>2 DEF Up!CallState
<1>4. Up!Seen(p) = c.version
  BY <1>1 DEF Up!Seen
<1> QED
  BY <1>1, <1>2, <1>3, <1>4

(* A call ends: nothing else changes, or the row of a pending upload was   *)
(* rejected or deleted.                                                    *)
LEMMA EndStep ==
  ASSUME UpIInv, NEW p \in Request, Up!End(p), UNCHANGED <<Up!bucket, settled>>,
         \/ UNCHANGED row
         \/ row.status = "PENDING" /\ Up!Write("REJECTED")
         \/ row.status = "REJECTED" /\ Up!Write("DELETED")
  PROVE  UpIInv'
<1>1. /\ call' \in [Request -> Up!Opt(Up!CallState)] /\ call'[p] = {}
      /\ \A q \in Request : q # p => call'[q] = call[q]
  BY UpGone DEF UpIInv
<1>2. /\ row' \in [status : Up!Status, etag : Up!Opt(Version)] /\ row'.etag = row.etag
      /\ \/ row' = row
         \/ row.status = "PENDING" /\ row'.status = "REJECTED"
         \/ row.status = "REJECTED" /\ row'.status = "DELETED"
  BY DEF UpIInv, Up!TypeOK, Up!Write, Up!Status
<1>3. UNCHANGED <<object, arrived, genuine, settled>>
  BY DEF Up!bucket
<1>4. Up!TypeOK'
  BY <1>1, <1>2, <1>3 DEF UpIInv, Up!TypeOK
<1>5. \A q \in Request : /\ \A pc : Up!Is(q, pc)' => Up!Is(q, pc) /\ q # p
                         /\ q # p => Up!Seen(q)' = Up!Seen(q)
  BY <1>1 DEF Up!Is, Up!Seen
<1>6. UpBornInv' /\ UpBytesInv'
  BY <1>1, <1>2, <1>3 DEF UpIInv, UpBornInv, UpBytesInv
<1>7. UpCleanupInv'
  BY <1>2, <1>5 DEF UpIInv, UpCleanupInv
<1>8. UpConfirmInv'
  BY <1>2, <1>3, <1>5 DEF UpIInv, UpConfirmInv
<1>9. UpTicketInv'
  BY <1>2, <1>5 DEF UpIInv, UpTicketInv
<1> QED
  BY <1>4, <1>6, <1>7, <1>8, <1>9 DEF UpIInv

(* A call goes on to c, which satisfies the invariant by itself.           *)
LEMMA UpGotoStep ==
  ASSUME UpIInv, NEW p \in Request, NEW c \in Up!CallState, Up!Goto(p, c),
         UNCHANGED <<Up!bucket, settled>>,
         row.status # "none",
         \/ UNCHANGED row
         \/ row.status = "PENDING" /\ Up!Write("REJECTED"),
         c.pc \in {"delete", "done"} => row'.status \in {"REJECTED", "DELETED"},
         c.pc \in UpConfirming /\ row.status = "PENDING" => object # {} /\ object = c.version,
         c.pc \in {"again", "mark"} => c.version \subseteq genuine,
         c.pc = "ticket" => row.status = "VERIFIED" /\ c.version = row.etag
  PROVE  UpIInv'
<1>1. /\ call' \in [Request -> Up!Opt(Up!CallState)] /\ call'[p] = {c}
      /\ \A q \in Request : q # p => call'[q] = call[q]
  BY UpWent DEF UpIInv
<1>2. /\ row' \in [status : Up!Status, etag : Up!Opt(Version)] /\ row'.etag = row.etag
      /\ \/ row' = row
         \/ row.status = "PENDING" /\ row'.status = "REJECTED"
  BY DEF UpIInv, Up!TypeOK, Up!Write, Up!Status
<1>3. UNCHANGED <<object, arrived, genuine, settled>>
  BY DEF Up!bucket
<1>4. Up!TypeOK'
  BY <1>1, <1>2, <1>3 DEF UpIInv, Up!TypeOK
<1>5. \A q \in Request : q # p => /\ \A pc : Up!Is(q, pc)' <=> Up!Is(q, pc)
                                  /\ Up!Seen(q)' = Up!Seen(q)
  BY <1>1 DEF Up!Is, Up!Seen
<1>6. /\ \A pc : Up!Is(p, pc)' <=> pc = c.pc
      /\ Up!Seen(p)' = c.version
  BY <1>1 DEF Up!Is, Up!Seen
<1>7. UpBornInv' /\ UpBytesInv'
  BY <1>2, <1>3 DEF UpIInv, UpBornInv, UpBytesInv
<1>8. UpCleanupInv'
  BY <1>2, <1>5, <1>6 DEF UpIInv, UpCleanupInv
<1>9. UpConfirmInv'
  BY <1>2, <1>3, <1>5, <1>6 DEF UpIInv, UpConfirmInv, UpConfirming
<1>10. UpTicketInv'
  BY <1>2, <1>5, <1>6 DEF UpIInv, UpTicketInv
<1> QED
  BY <1>4, <1>7, <1>8, <1>9, <1>10 DEF UpIInv

LEMMA UpPutStep ==
  ASSUME UpIInv, NEW v \in Version, Up!Put(v)
  PROVE  UpIInv'
<1>1. /\ object = {} /\ object' = {v} /\ arrived' = arrived \cup {v}
      /\ genuine \subseteq genuine' /\ genuine' \subseteq Version
      /\ UNCHANGED <<row, settled, call>>
  BY DEF Up!Put, UpIInv, Up!TypeOK
<1>2. Up!TypeOK'
  BY <1>1 DEF UpIInv, Up!TypeOK, Up!Opt
<1>3. \A q \in Request : (\A pc : Up!Is(q, pc)' <=> Up!Is(q, pc)) /\ Up!Seen(q)' = Up!Seen(q)
  BY <1>1 DEF Up!Is, Up!Seen
<1>4. UpConfirmInv'
  BY <1>1, <1>3 DEF UpIInv, UpConfirmInv
<1>5. UpTicketInv'
  BY <1>1, <1>3 DEF UpIInv, UpTicketInv
<1> QED
  BY <1>1, <1>2, <1>3, <1>4, <1>5 DEF UpIInv, UpBornInv, UpCleanupInv, UpBytesInv
LEMMA UpPrepareStep == ASSUME UpIInv, Up!Prepare PROVE UpIInv'
<1>1. /\ row' \in [status : Up!Status, etag : Up!Opt(Version)] /\ row'.status = "PENDING"
      /\ UNCHANGED <<object, arrived, genuine, settled, call>>
  BY DEF Up!Prepare, Up!Write, Up!bucket, UpIInv, Up!TypeOK, Up!Status
<1>2. \A p \in Request : \A pc : ~Up!Is(p, pc)'
  BY <1>1 DEF Up!Prepare, UpIInv, UpBornInv, Up!Is
<1> QED
  BY <1>1, <1>2
  DEF UpIInv, Up!TypeOK, UpBornInv, UpCleanupInv, UpConfirmInv, UpTicketInv, UpBytesInv

LEMMA UpSettleStep == ASSUME UpIInv, Up!Settle PROVE UpIInv'
  BY DEF Up!Settle, Up!bucket, UpIInv, Up!TypeOK, UpBornInv, UpCleanupInv, UpConfirmInv,
      UpTicketInv, UpBytesInv, Up!Is, Up!Seen

(* A confirmation, up to its verdict.                                      *)
LEMMA UpConfirmStep ==
  ASSUME UpIInv, NEW p \in Request,
         Up!BeginConfirm(p) \/ Up!Head(p) \/ Up!ReadPrefix(p) \/ Up!HeadAgain(p)
  PROVE  UpIInv'
<1>1. UNCHANGED <<Up!bucket, settled>> /\ UNCHANGED row
  BY DEF Up!BeginConfirm, Up!Head, Up!ReadPrefix, Up!HeadAgain
<1>2. row.status # "none"
  BY DEF Up!BeginConfirm, Up!Head, Up!ReadPrefix, Up!HeadAgain, Up!Is, UpIInv, UpBornInv
<1>3. CASE Up!End(p)
  BY <1>1, <1>3, EndStep
<1>4. CASE Up!BeginConfirm(p)
  <2> DEFINE c == [pc |-> "head", version |-> {}]
  <2>1. c \in Up!CallState
    BY DEF Up!CallState, Up!Opt
  <2>2. Up!Goto(p, c)
    BY <1>4 DEF Up!BeginConfirm
  <2> QED
    BY <1>1, <1>2, <2>1, <2>2, UpGotoStep DEF UpConfirming
<1>5. CASE Up!Head(p) /\ object # {}
  <2> DEFINE c == [pc |-> "range", version |-> object]
  <2>1. c \in Up!CallState
    BY DEF Up!CallState, Up!Opt, UpIInv, Up!TypeOK
  <2>2. Up!Goto(p, c)
    BY <1>5 DEF Up!Head
  <2> QED
    BY <1>1, <1>2, <1>5, <2>1, <2>2, UpGotoStep
<1>6. CASE Up!ReadPrefix(p) /\ object = Up!Seen(p)
  <2> DEFINE pc == IF object \subseteq genuine THEN "again" ELSE "reject"
             c == [pc |-> pc, version |-> Up!Seen(p)]
  <2>1. Up!Is(p, "range")
    BY <1>6 DEF Up!ReadPrefix
  <2>2. c \in Up!CallState
    BY <2>1, SeenType DEF Up!CallState, UpIInv
  <2>3. Up!Goto(p, c)
    BY <1>6 DEF Up!ReadPrefix, Up!Step, Up!Matches
  <2>4. row.status = "PENDING" => object # {}
    BY <2>1 DEF UpIInv, UpConfirmInv, UpConfirming
  <2>5. c.pc \in {"again", "mark"} => c.version \subseteq genuine
    BY <1>6
  <2>6. c.pc \notin {"delete", "done"}
    OBVIOUS
  <2> QED
    BY <1>1, <1>2, <1>6, <2>2, <2>3, <2>4, <2>5, <2>6, UpGotoStep
<1>7. CASE Up!HeadAgain(p) /\ object = Up!Seen(p)
  <2> DEFINE c == [pc |-> "mark", version |-> Up!Seen(p)]
  <2>1. Up!Is(p, "again")
    BY <1>7 DEF Up!HeadAgain
  <2>2. c \in Up!CallState
    BY <2>1, SeenType DEF Up!CallState, UpIInv
  <2>3. Up!Goto(p, c)
    BY <1>7 DEF Up!HeadAgain, Up!Step
  <2>4. /\ row.status = "PENDING" => object # {}
        /\ Up!Seen(p) \subseteq genuine
    BY <2>1 DEF UpIInv, UpConfirmInv, UpConfirming
  <2> QED
    BY <1>1, <1>2, <1>7, <2>2, <2>3, <2>4, UpGotoStep
<1> QED
  BY <1>3, <1>4, <1>5, <1>6, <1>7 DEF Up!Head, Up!ReadPrefix, Up!HeadAgain, Up!Matches

(* A ticket is for the version in the row of a verified upload.            *)
LEMMA UpDownloadStep ==
  ASSUME UpIInv, NEW p \in Request, Up!SignDownload(p)
  PROVE  UpIInv'
<1> DEFINE c == [pc |-> "ticket", version |-> row.etag]
<1>1. c \in Up!CallState
  BY DEF Up!CallState, UpIInv, Up!TypeOK
<1>2. Up!Goto(p, c) /\ row.status = "VERIFIED" /\ UNCHANGED <<Up!bucket, settled>> /\ UNCHANGED row
  BY DEF Up!SignDownload
<1> QED
  BY <1>1, <1>2, UpGotoStep DEF UpConfirming

(* The update is conditional: it finds the row pending, hence the object   *)
(* that was checked in its place.                                          *)
LEMMA UpMarkStep ==
  ASSUME UpIInv, NEW p \in Request, Up!MarkVerifiedIfPending(p)
  PROVE  UpIInv'
<1>1. Up!Is(p, "mark") /\ Up!End(p) /\ UNCHANGED <<Up!bucket, settled>>
  BY DEF Up!MarkVerifiedIfPending
<1>2. CASE row.status # "PENDING"
  BY <1>1, <1>2, EndStep DEF Up!MarkVerifiedIfPending
<1>3. CASE row.status = "PENDING"
  <2>1. row' = [status |-> "VERIFIED", etag |-> Up!Seen(p)]
    BY <1>3 DEF Up!MarkVerifiedIfPending
  <2>2. object # {} /\ object = Up!Seen(p) /\ Up!Seen(p) \subseteq genuine
    BY <1>1, <1>3 DEF UpIInv, UpConfirmInv, UpConfirming
  <2>3. Up!Seen(p) \in Up!Opt(Version)
    BY <1>1, SeenType DEF UpIInv
  <2>4. /\ call' \in [Request -> Up!Opt(Up!CallState)] /\ call'[p] = {}
        /\ \A q \in Request : q # p => call'[q] = call[q]
    BY <1>1, UpGone DEF UpIInv
  <2>5. UNCHANGED <<object, arrived, genuine, settled>>
    BY <1>1 DEF Up!bucket
  <2>6. Up!TypeOK'
    BY <2>1, <2>3, <2>4, <2>5 DEF UpIInv, Up!TypeOK, Up!Status
  <2>7. \A q \in Request : /\ \A pc : Up!Is(q, pc)' => Up!Is(q, pc) /\ q # p
                           /\ q # p => Up!Seen(q)' = Up!Seen(q)
    BY <2>4 DEF Up!Is, Up!Seen
  <2>8. UpBytesInv'
    BY <2>1, <2>2, <2>5 DEF UpBytesInv
  <2>9. UpCleanupInv'
    BY <1>3, <2>7 DEF UpIInv, UpCleanupInv
  <2> QED
    BY <1>3, <2>1, <2>5, <2>6, <2>7, <2>8, <2>9 DEF UpIInv, UpBornInv, UpConfirmInv, UpTicketInv
<1> QED
  BY <1>2, <1>3

LEMMA UpRejectStep ==
  ASSUME UpIInv, NEW p \in Request, Up!RejectInvalid(p) \/ Up!MarkDeletedIfRejected(p) \/ Up!Abort(p)
  PROVE  UpIInv'
  BY EndStep DEF Up!RejectInvalid, Up!MarkDeletedIfRejected, Up!Abort

LEMMA UpClaimStep ==
  ASSUME UpIInv, NEW p \in Request, Up!BeginCleanup(p) \/ Up!Claim(p)
  PROVE  UpIInv'
<1>1. UNCHANGED <<Up!bucket, settled>>
  BY DEF Up!BeginCleanup, Up!Claim
<1>2. CASE Up!Claim(p) /\ row.status # "PENDING"
  BY <1>1, <1>2, EndStep DEF Up!Claim
<1> DEFINE to(pc) == [pc |-> pc]
<1>3. to("claim") \in Up!CallState /\ to("delete") \in Up!CallState
  BY DEF Up!CallState
<1>4. CASE Up!Claim(p) /\ row.status = "PENDING"
  <2>1. Up!Goto(p, to("delete")) /\ Up!Write("REJECTED") /\ row'.status = "REJECTED"
    BY <1>4 DEF Up!Claim, Up!Write, UpIInv, Up!TypeOK
  <2> QED
    BY <1>1, <1>3, <1>4, <2>1, UpGotoStep DEF UpConfirming
<1>5. CASE Up!BeginCleanup(p)
  <2>1. UNCHANGED row /\ row.status \in {"PENDING", "REJECTED"}
    BY <1>5 DEF Up!BeginCleanup
  <2>2. CASE row.status = "PENDING"
    <3>1. Up!Goto(p, to("claim"))
      BY <1>5, <2>2 DEF Up!BeginCleanup
    <3> QED
      BY <1>1, <1>3, <2>1, <3>1, UpGotoStep DEF UpConfirming
  <2>3. CASE row.status = "REJECTED"
    <3>1. Up!Goto(p, to("delete"))
      BY <1>5, <2>3 DEF Up!BeginCleanup
    <3> QED
      BY <1>1, <1>3, <2>1, <2>3, <3>1, UpGotoStep DEF UpConfirming
  <2> QED
    BY <2>1, <2>2, <2>3
<1> QED
  BY <1>2, <1>4, <1>5

(* The row of an object that is deleted was rejected, so no confirmation   *)
(* depends on it.                                                          *)
LEMMA UpDeleteStep ==
  ASSUME UpIInv, NEW p \in Request, Up!DeleteObject(p)
  PROVE  UpIInv'
<1> DEFINE c == [pc |-> "done"]
<1>1. c \in Up!CallState /\ Up!Goto(p, c) /\ Up!Is(p, "delete")
  BY DEF Up!CallState, Up!DeleteObject
<1>2. /\ call' \in [Request -> Up!Opt(Up!CallState)] /\ call'[p] = {c}
      /\ \A q \in Request : q # p => call'[q] = call[q]
  BY <1>1, UpWent DEF UpIInv
<1>3. row.status \in {"REJECTED", "DELETED"}
  BY <1>1 DEF UpIInv, UpCleanupInv
<1>4. object' = {} /\ UNCHANGED <<row, arrived, genuine, settled>>
  BY DEF Up!DeleteObject
<1>5. Up!TypeOK'
  BY <1>2, <1>4 DEF UpIInv, Up!TypeOK, Up!Opt
<1>6. /\ \A pc : Up!Is(p, pc)' => pc = "done"
      /\ \A q \in Request : q # p => (\A pc : Up!Is(q, pc)' <=> Up!Is(q, pc)) /\ Up!Seen(q)' = Up!Seen(q)
  BY <1>2 DEF Up!Is, Up!Seen
<1>7. UpConfirmInv'
  BY <1>3, <1>4, <1>6 DEF UpIInv, UpConfirmInv
<1>8. UpTicketInv'
  BY <1>3, <1>4, <1>6 DEF UpIInv, UpTicketInv
<1> QED
  BY <1>3, <1>4, <1>5, <1>7, <1>8 DEF UpIInv, UpBornInv, UpCleanupInv, UpBytesInv

LEMMA UpNext == UpIInv /\ [Up!Next]_Up!vars => UpIInv'
<1> SUFFICES ASSUME UpIInv, [Up!Next]_Up!vars PROVE UpIInv'
  OBVIOUS
<1>1. CASE UNCHANGED Up!vars
  BY <1>1
  DEF Up!vars, UpIInv, Up!TypeOK, UpBornInv, UpCleanupInv, UpConfirmInv, UpTicketInv,
      UpBytesInv, Up!Is, Up!Seen
<1>2. CASE Up!Next
  BY <1>2, UpPrepareStep, UpSettleStep, UpPutStep, UpConfirmStep, UpDownloadStep,
      UpMarkStep, UpRejectStep, UpClaimStep, UpDeleteStep
  DEF Up!Next
<1> QED
  BY <1>1, <1>2

(* A verified upload has its bytes, the ones that were verified, whatever  *)
(* confirmations, cleanups and late PUTs overlap.                          *)
THEOREM VerifiedUploadsHaveBytes == Up!Spec => []VerifiedHasBytes
<1>1. UpIInv => VerifiedHasBytes
  BY DEF UpIInv, UpBytesInv, UpTicketInv, VerifiedHasBytes, Up!VerifiedHasBytes, Up!Matches
<1> QED
  BY <1>1, UpInit, UpNext, PTL DEF Up!Spec

-----------------------------------------------------------------------------
(* Broker.  The clocks decide: a claim may be purged only when no instance *)
(* can still be on its way from a verification that accepted the request   *)
(* to a claim of its nonce.  The purge waits for MaxSkew + Margin + Grace  *)
(* after the signature; such an instance is gone MaxSkew + Lag + Timeout   *)
(* after it.                                                               *)

(* What the durations have to satisfy.                                     *)
DurationsFit ==
  /\ MaxSkew \in Nat /\ Margin \in Nat /\ Lag \in Nat
  /\ Timeout \in Nat /\ Grace \in Nat /\ MaxTime \in Nat
  /\ Lag + Timeout <= Margin + Grace

BrWork == [pc : {"verify", "claim", "dispatch"}, nonce : Nonce,
         route : Br!Audience, since : 0..MaxTime]

BrDispatching(n) == \E i \in Request : \E w \in work[i] : w.pc = "dispatch" /\ w.nonce = n
BrSpent(n) == done[n] > 0 \/ BrDispatching(n)

(* Only what was signed is delivered.                                      *)
BrIssuedInv ==
  \A n \in Nonce :
    (done[n] > 0 \/ \E i \in Request : \E w \in work[i] : w.nonce = n) => issued[n] # {}

(* A claim bears the expiry of its request.                                *)
BrClaimInv ==
  \A n \in Nonce : \A u \in claim[n] : \E r \in issued[n] : u = Br!ExpiresAt(r.at)

(* Whoever is about to claim has verified in time and has not timed out.   *)
BrFreshInv ==
  \A i \in Request : \A w \in work[i] : w.pc = "claim" =>
    /\ now <= w.since + Timeout
    /\ \E r \in issued[w.nonce] : w.since <= r.at + MaxSkew + Lag

(* A nonce that was used is still claimed, or nobody can claim it again.   *)
BrSpentInv ==
  \A n \in Nonce : BrSpent(n) =>
    \/ claim[n] # {}
    \/ \A r \in issued[n] : r.at + MaxSkew + Lag + Timeout < now

(* One instance dispatches, and only what was not dispatched before.       *)
BrSoleInv ==
  /\ \A i, j \in Request : \A w \in work[i], v \in work[j] :
       w.pc = "dispatch" /\ v.pc = "dispatch" /\ w.nonce = v.nonce => i = j
  /\ \A n \in Nonce : BrDispatching(n) => done[n] = 0

BrIInv == Br!TypeOK /\ BrIssuedInv /\ BrClaimInv /\ BrFreshInv /\ BrSpentInv /\ BrSoleInv /\ ExecutedOnce

LEMMA BrOptCases ==
  ASSUME NEW S, NEW x \in Br!Opt(S)
  PROVE  x = {} \/ \E e \in S : x = {e}
  BY DEF Br!Opt

(* The one request that an instance works on.                              *)
LEMMA BrWorkOf ==
  ASSUME Br!TypeOK, NEW i \in Request, work[i] # {}
  PROVE  \E w \in BrWork : work[i] = {w} /\ Br!NonceOf(i) = w.nonce
<1>1. PICK w \in BrWork : work[i] = {w}
  BY BrOptCases DEF Br!TypeOK, BrWork
<1>2. Br!NonceOf(i) = w.nonce
  BY <1>1 DEF Br!NonceOf, BrWork
<1> QED
  BY <1>1, <1>2

(* And the one signature of a nonce.                                       *)
LEMMA BrSignatureOf ==
  ASSUME Br!TypeOK, NEW n \in Nonce, NEW r \in issued[n]
  PROVE  issued[n] = {r} /\ r.at \in 0..MaxTime /\ r.audience \in Br!Audience
<1>1. PICK s \in [audience : Br!Audience, at : 0..MaxTime] : issued[n] = {s}
  BY BrOptCases DEF Br!TypeOK
<1> QED
  BY <1>1

LEMMA BrInit == ASSUME DurationsFit PROVE Br!Init => BrIInv
<1> SUFFICES ASSUME Br!Init PROVE BrIInv
  OBVIOUS
<1>1. Br!TypeOK
  BY DEF DurationsFit, Br!Init, Br!TypeOK, Br!Opt
<1>2. \A n \in Nonce : ~BrSpent(n)
  BY DEF Br!Init, BrSpent, BrDispatching
<1> QED
  BY <1>1, <1>2
  DEF Br!Init, BrIInv, BrIssuedInv, BrClaimInv, BrFreshInv, BrSpentInv, BrSoleInv,
      ExecutedOnce, Br!ExecutedOnce, BrSpent, BrDispatching

(* An instance that gives up, is refused, or is only at its verification.  *)
LEMMA BrQuietStep ==
  ASSUME BrIInv, NEW i \in Request, NEW new \in Br!Opt(BrWork),
         work' = [work EXCEPT ![i] = new],
         \A w \in new : w.pc = "verify" /\ issued[w.nonce] # {},
         UNCHANGED <<now, issued, claim, done>>
  PROVE  BrIInv'
<1>1. Br!TypeOK'
  BY DEF BrIInv, Br!TypeOK, BrWork
<1>2. /\ work'[i] = new
      /\ \A j \in Request : j # i => work'[j] = work[j]
  BY DEF BrIInv, Br!TypeOK
<1>3. \A j \in Request : \A w \in work'[j] : w.pc # "verify" => w \in work[j]
  BY <1>2
<1>4. \A n \in Nonce : BrDispatching(n)' => BrDispatching(n)
  BY <1>3 DEF BrDispatching
<1>5. BrIssuedInv'
  BY <1>2 DEF BrIInv, BrIssuedInv
<1>6. BrClaimInv' /\ BrFreshInv'
  BY <1>3 DEF BrIInv, BrClaimInv, BrFreshInv
<1>7. BrSpentInv'
  BY <1>4 DEF BrIInv, BrSpentInv, BrSpent
<1>8. BrSoleInv'
  BY <1>3, <1>4 DEF BrIInv, BrSoleInv
<1> QED
  BY <1>1, <1>5, <1>6, <1>7, <1>8 DEF BrIInv, ExecutedOnce, Br!ExecutedOnce

LEMMA BrSignStep ==
  ASSUME BrIInv, NEW n \in Nonce, NEW a \in Br!Audience, Br!SignAs(n, a)
  PROVE  BrIInv'
<1>1. Br!TypeOK'
  BY DEF BrIInv, Br!TypeOK, Br!SignAs, Br!Opt
<1>2. /\ issued[n] = {} /\ issued'[n] # {}
      /\ \A m \in Nonce : m # n => issued'[m] = issued[m]
      /\ UNCHANGED <<now, claim, work, done>>
  BY DEF BrIInv, Br!TypeOK, Br!SignAs
<1>3. /\ claim[n] = {}
      /\ \A i \in Request : \A w \in work[i] : w.nonce # n
  BY <1>2 DEF BrIInv, BrClaimInv, BrIssuedInv
<1>4. \A m \in Nonce : (BrDispatching(m)' <=> BrDispatching(m)) /\ (BrSpent(m)' <=> BrSpent(m))
  BY <1>2 DEF BrDispatching, BrSpent
<1>5. ~BrSpent(n)
  BY <1>2 DEF BrIInv, BrIssuedInv, BrSpent, BrDispatching
<1>6. BrIssuedInv' /\ BrClaimInv'
  BY <1>2, <1>3 DEF BrIInv, BrIssuedInv, BrClaimInv
<1>7. BrFreshInv'
  <2>1. \A i \in Request : \A w \in work[i] : w.nonce \in Nonce /\ w.nonce # n
    BY <1>3, BrWorkOf DEF BrIInv, BrWork
  <2> QED
    BY <1>2, <2>1 DEF BrIInv, BrFreshInv
<1>8. BrSpentInv'
  BY <1>2, <1>4, <1>5 DEF BrIInv, BrSpentInv
<1>9. BrSoleInv' /\ ExecutedOnce'
  BY <1>2, <1>4 DEF BrIInv, BrSoleInv, ExecutedOnce, Br!ExecutedOnce
<1> QED
  BY <1>1, <1>6, <1>7, <1>8, <1>9 DEF BrIInv

LEMMA BrArriveStep ==
  ASSUME BrIInv, NEW i \in Request, NEW n \in Nonce, NEW route \in Br!Audience, Br!ArriveAt(i, n, route)
  PROVE  BrIInv'
<1> DEFINE w == [pc |-> "verify", nonce |-> n, route |-> route, since |-> now]
<1>1. w \in BrWork
  BY DEF BrWork, BrIInv, Br!TypeOK
<1>2. {w} \in Br!Opt(BrWork)
  BY <1>1 DEF Br!Opt
<1>3. /\ work' = [work EXCEPT ![i] = {w}]
      /\ UNCHANGED <<now, issued, claim, done>>
      /\ \A v \in {w} : v.pc = "verify" /\ issued[v.nonce] # {}
  BY DEF Br!ArriveAt
<1> QED
  BY <1>2, <1>3, BrQuietStep

LEMMA BrDenyStep ==
  ASSUME BrIInv, NEW i \in Request, Br!Deny(i), UNCHANGED <<now, issued, claim, done>>
  PROVE  BrIInv'
<1>1. {} \in Br!Opt(BrWork)
  BY DEF Br!Opt
<1> QED
  BY <1>1, BrQuietStep DEF Br!Deny

(* The clock of the instance is behind by at most Lag.                     *)
LEMMA BrVerifyStep ==
  ASSUME DurationsFit, BrIInv, NEW i \in Request, NEW a \in Br!Audience, Br!Verify(i, a)
  PROVE  BrIInv'
<1>1. work[i] # {} /\ UNCHANGED <<now, issued, claim, done>>
  BY DEF Br!Verify, Br!Pc
<1>2. PICK w \in BrWork : work[i] = {w} /\ Br!NonceOf(i) = w.nonce
  BY <1>1, BrWorkOf DEF BrIInv
<1>3. CASE Br!Deny(i)
  BY <1>1, <1>3, BrDenyStep
<1>4. CASE \E lag \in 0..Lag :
             /\ lag <= now
             /\ \E r \in issued[Br!NonceOf(i)] : r.audience = a /\ Br!InTime(r.at, now - lag)
             /\ Br!Goto(i, "claim")
  <2> DEFINE new == [w EXCEPT !.pc = "claim", !.since = now]
  <2>1. /\ new \in BrWork /\ new.pc = "claim" /\ new.since = now
        /\ new.nonce = w.nonce /\ w.nonce \in Nonce
    BY DEF BrWork, BrIInv, Br!TypeOK
  <2>2. work' = [work EXCEPT ![i] = {new}]
    BY <1>2, <1>4 DEF Br!Goto
  <2>3. /\ work'[i] = {new}
        /\ \A j \in Request : j # i => work'[j] = work[j]
    BY <2>2 DEF BrIInv, Br!TypeOK
  <2>4. Br!TypeOK'
    BY <1>1, <2>1, <2>2 DEF BrIInv, Br!TypeOK, Br!Opt, BrWork
  <2>5. PICK r \in issued[w.nonce] : now <= r.at + MaxSkew + Lag
    <3>1. PICK lag \in 0..Lag, r \in issued[w.nonce] : Br!InTime(r.at, now - lag)
      BY <1>2, <1>4
    <3>2. r.at \in 0..MaxTime
      BY <2>1, BrSignatureOf DEF BrIInv
    <3>3. r.at \in Nat /\ now \in Nat
      BY <3>2 DEF BrIInv, Br!TypeOK, DurationsFit
    <3> QED
      BY <3>1, <3>3 DEF Br!InTime, DurationsFit
  <2>6. BrIssuedInv' /\ BrClaimInv'
    BY <1>1, <2>1, <2>3, <2>5 DEF BrIInv, BrIssuedInv, BrClaimInv
  <2>7. BrFreshInv'
    <3>1. now <= now + Timeout
      BY DEF DurationsFit, BrIInv, Br!TypeOK
    <3> SUFFICES ASSUME NEW j \in Request, NEW v \in work'[j], v.pc = "claim"
                 PROVE  /\ now <= v.since + Timeout
                        /\ \E s \in issued[v.nonce] : v.since <= s.at + MaxSkew + Lag
      BY <1>1 DEF BrFreshInv
    <3>2. CASE j = i
      BY <2>1, <2>3, <2>5, <3>1, <3>2
    <3>3. CASE j # i
      BY <2>3, <3>3 DEF BrIInv, BrFreshInv
    <3> QED
      BY <3>2, <3>3
  <2>8. \A j \in Request : \A v \in work'[j] : v.pc = "dispatch" => v \in work[j]
    BY <2>1, <2>3
  <2>9. \A n \in Nonce : BrDispatching(n)' => BrDispatching(n)
    BY <2>8 DEF BrDispatching
  <2>10. BrSpentInv' /\ BrSoleInv' /\ ExecutedOnce'
    BY <1>1, <2>8, <2>9
    DEF BrIInv, BrSpentInv, BrSpent, BrSoleInv, ExecutedOnce, Br!ExecutedOnce
  <2> QED
    BY <2>4, <2>6, <2>7, <2>10 DEF BrIInv
<1> QED
  BY <1>3, <1>4 DEF Br!Verify

(* The heart of the argument: a nonce without a claim was never used, for  *)
(* a used one without a claim has been out of reach for too long.          *)
LEMMA BrClaimStep ==
  ASSUME DurationsFit, BrIInv, NEW i \in Request, Br!ClaimNonce(i)
  PROVE  BrIInv'
<1>1. work[i] # {} /\ UNCHANGED <<now, issued, done>>
  BY DEF Br!ClaimNonce, Br!Pc
<1>2. PICK w \in BrWork : work[i] = {w} /\ Br!NonceOf(i) = w.nonce
  BY <1>1, BrWorkOf DEF BrIInv
<1> DEFINE n == w.nonce
<1>3. n \in Nonce /\ w.pc = "claim" /\ w.since \in Nat /\ now \in Nat
  BY <1>2 DEF BrWork, Br!ClaimNonce, Br!Pc, BrIInv, Br!TypeOK
<1>4. CASE claim[n] # {}
  BY <1>1, <1>2, <1>4, BrDenyStep DEF Br!ClaimNonce
<1>5. CASE claim[n] = {}
  <2> DEFINE new == [w EXCEPT !.pc = "dispatch", !.since = now]
  <2>1. new \in BrWork /\ new.pc = "dispatch" /\ new.nonce = n
    BY DEF BrWork, BrIInv, Br!TypeOK
  <2>2. /\ work' = [work EXCEPT ![i] = {new}]
        /\ claim' = [claim EXCEPT ![n] = {Br!ExpiresAt(r.at) : r \in issued[n]}]
    BY <1>2, <1>5 DEF Br!ClaimNonce, Br!Goto
  <2>3. /\ work'[i] = {new}
        /\ \A j \in Request : j # i => work'[j] = work[j]
        /\ claim'[n] = {Br!ExpiresAt(r.at) : r \in issued[n]}
        /\ \A m \in Nonce : m # n => claim'[m] = claim[m]
    BY <1>3, <2>2 DEF BrIInv, Br!TypeOK
  <2>4. PICK r \in issued[n] : w.since <= r.at + MaxSkew + Lag /\ now <= w.since + Timeout
    BY <1>2, <1>3 DEF BrIInv, BrFreshInv
  <2>5. issued[n] = {r} /\ r.at \in 0..MaxTime
    BY <1>3, BrSignatureOf DEF BrIInv
  <2>6. ~BrSpent(n)
    <3>1. ~(r.at + MaxSkew + Lag + Timeout < now)
      BY <1>3, <2>4, <2>5 DEF DurationsFit
    <3> QED
      BY <1>3, <1>5, <2>4, <3>1 DEF BrIInv, BrSpentInv
  <2>7. done[n] = 0 /\ ~BrDispatching(n)
    BY <1>3, <2>6 DEF BrSpent, BrIInv, Br!TypeOK
  <2>8. claim'[n] = {Br!ExpiresAt(r.at)}
    BY <2>3, <2>5
  <2>9. Br!TypeOK'
    <3>1. Br!ExpiresAt(r.at) \in 0..(MaxTime + MaxSkew + Margin)
      BY <2>5 DEF Br!ExpiresAt, DurationsFit
    <3> DEFINE expiry == {Br!ExpiresAt(r.at)}
    <3>2. expiry \in Br!Opt(0..(MaxTime + MaxSkew + Margin))
      BY <3>1 DEF Br!Opt
    <3>3. claim' = [claim EXCEPT ![n] = expiry]
      BY <2>2, <2>5
    <3>4. claim' \in [Nonce -> Br!Opt(0..(MaxTime + MaxSkew + Margin))]
      BY <3>2, <3>3 DEF BrIInv, Br!TypeOK
    <3>5. work' \in [Request -> Br!Opt(BrWork)]
      BY <2>1, <2>2 DEF BrIInv, Br!TypeOK, Br!Opt, BrWork
    <3>6. now' \in 0..MaxTime /\ done' \in [Nonce -> 0..2]
      BY <1>1 DEF BrIInv, Br!TypeOK
    <3>7. issued' \in [Nonce -> Br!Opt([audience : Br!Audience, at : 0..MaxTime])]
      BY <1>1 DEF BrIInv, Br!TypeOK
    <3> QED
      BY <3>4, <3>5, <3>6, <3>7, Zenon DEF Br!TypeOK, BrWork
  <2>10. BrIssuedInv'
    <3>1. \A m \in Nonce : m # n => \A j \in Request : \A v \in work'[j] :
            v.nonce = m => v \in work[j]
      BY <2>1, <2>3
    <3>2. issued'[n] # {}
      BY <1>1, <2>4
    <3> QED
      BY <1>1, <3>1, <3>2 DEF BrIInv, BrIssuedInv
  <2>11. BrClaimInv'
    BY <1>1, <2>3, <2>5, <2>8 DEF BrIInv, BrClaimInv
  <2>12. BrFreshInv'
    BY <1>1, <2>1, <2>3 DEF BrIInv, BrFreshInv
  <2>13. \A m \in Nonce : m # n => (BrDispatching(m)' => BrDispatching(m))
    BY <2>1, <2>3 DEF BrDispatching
  <2>14. BrSpentInv'
    BY <1>1, <2>3, <2>8, <2>13 DEF BrIInv, BrSpentInv, BrSpent
  <2>15. BrSoleInv'
    <3>1. \A j \in Request : \A v \in work'[j] :
            v.pc = "dispatch" /\ v.nonce = n => j = i
      BY <2>3, <2>7 DEF BrDispatching
    <3>2. \A j, k \in Request : \A v \in work'[j], u \in work'[k] :
            v.pc = "dispatch" /\ u.pc = "dispatch" /\ v.nonce = u.nonce => j = k
      <4> SUFFICES ASSUME NEW j \in Request, NEW k \in Request,
                          NEW v \in work'[j], NEW u \in work'[k],
                          v.pc = "dispatch", u.pc = "dispatch", v.nonce = u.nonce
                   PROVE  j = k
        OBVIOUS
      <4>1. CASE v.nonce = n
        BY <3>1, <4>1
      <4>2. CASE v.nonce # n
        <5>1. v \in work[j] /\ u \in work[k]
          BY <2>1, <2>3, <4>2
        <5> QED
          BY <5>1 DEF BrIInv, BrSoleInv
      <4> QED
        BY <4>1, <4>2
    <3>3. \A m \in Nonce : BrDispatching(m)' => done'[m] = 0
      BY <1>1, <2>7, <2>13 DEF BrIInv, BrSoleInv
    <3> QED
      BY <3>2, <3>3 DEF BrSoleInv
  <2> QED
    BY <1>1, <2>9, <2>10, <2>11, <2>12, <2>14, <2>15 DEF BrIInv, ExecutedOnce, Br!ExecutedOnce
<1> QED
  BY <1>4, <1>5

LEMMA BrExecuteStep ==
  ASSUME BrIInv, NEW i \in Request, Br!Execute(i)
  PROVE  BrIInv'
<1>1. work[i] # {} /\ UNCHANGED <<now, issued, claim>>
  BY DEF Br!Execute, Br!Pc
<1>2. PICK w \in BrWork : work[i] = {w} /\ Br!NonceOf(i) = w.nonce
  BY <1>1, BrWorkOf DEF BrIInv
<1> DEFINE n == w.nonce
<1>3. n \in Nonce /\ w.pc = "dispatch" /\ BrDispatching(n)
  BY <1>2 DEF BrWork, Br!Execute, Br!Pc, BrDispatching
<1>4. done[n] = 0
  BY <1>3 DEF BrIInv, BrSoleInv
<1>5. /\ done' = [done EXCEPT ![n] = 1]
      /\ work' = [work EXCEPT ![i] = {}]
  BY <1>2, <1>4 DEF Br!Execute, Br!Deny
<1>6. /\ done'[n] = 1 /\ work'[i] = {}
      /\ \A m \in Nonce : m # n => done'[m] = done[m]
      /\ \A j \in Request : j # i => work'[j] = work[j]
  BY <1>3, <1>5 DEF BrIInv, Br!TypeOK
<1>7. Br!TypeOK'
  <2>1. done' \in [Nonce -> 0..2]
    BY <1>3, <1>5 DEF BrIInv, Br!TypeOK
  <2>2. work' \in [Request -> Br!Opt(BrWork)]
    BY <1>5 DEF BrIInv, Br!TypeOK, Br!Opt, BrWork
  <2> QED
    BY <1>1, <2>1, <2>2, Zenon DEF BrIInv, Br!TypeOK, BrWork
<1>8. \A j \in Request : \A v \in work'[j] : v \in work[j]
  BY <1>6
<1>9. ~BrDispatching(n)'
  BY <1>2, <1>3, <1>6 DEF BrIInv, BrSoleInv, BrDispatching
<1>10. \A m \in Nonce : BrDispatching(m)' => BrDispatching(m)
  BY <1>8 DEF BrDispatching
<1>11. \A m \in Nonce : BrSpent(m)' => BrSpent(m)
  BY <1>3, <1>6, <1>10 DEF BrSpent
<1>12. BrIssuedInv'
  BY <1>1, <1>2, <1>6, <1>8 DEF BrIInv, BrIssuedInv
<1>13. BrClaimInv' /\ BrFreshInv' /\ BrSpentInv'
  BY <1>1, <1>8, <1>11 DEF BrIInv, BrClaimInv, BrFreshInv, BrSpentInv
<1>14. BrSoleInv'
  BY <1>6, <1>8, <1>9, <1>10 DEF BrIInv, BrSoleInv
<1>15. ExecutedOnce'
  BY <1>6 DEF BrIInv, ExecutedOnce, Br!ExecutedOnce
<1> QED
  BY <1>7, <1>12, <1>13, <1>14, <1>15 DEF BrIInv

(* A purge comes too late for anyone who verified the request.             *)
LEMMA BrPurgeStep ==
  ASSUME DurationsFit, BrIInv, NEW n \in Nonce, Br!Purge(n)
  PROVE  BrIInv'
<1>1. PICK u \in claim[n] : u + Grace < now
  BY DEF Br!Purge
<1>2. PICK r \in issued[n] : u = Br!ExpiresAt(r.at)
  BY DEF BrIInv, BrClaimInv
<1>3. issued[n] = {r} /\ r.at \in 0..MaxTime
  BY BrSignatureOf DEF BrIInv
<1>4. r.at + MaxSkew + Lag + Timeout < now
  BY <1>1, <1>2, <1>3 DEF Br!ExpiresAt, DurationsFit, BrIInv, Br!TypeOK
<1>5. /\ claim'[n] = {}
      /\ \A m \in Nonce : m # n => claim'[m] = claim[m]
      /\ UNCHANGED <<now, issued, work, done>>
  BY DEF Br!Purge, BrIInv, Br!TypeOK
<1>6. Br!TypeOK'
  BY DEF BrIInv, Br!TypeOK, Br!Purge, Br!Opt
<1>7. \A m \in Nonce : BrSpent(m)' <=> BrSpent(m)
  BY <1>5 DEF BrSpent, BrDispatching
<1>8. BrSpentInv'
  BY <1>3, <1>4, <1>5, <1>7 DEF BrIInv, BrSpentInv
<1> QED
  BY <1>5, <1>6, <1>8
  DEF BrIInv, BrIssuedInv, BrClaimInv, BrFreshInv, BrSoleInv, ExecutedOnce,
      Br!ExecutedOnce, BrDispatching

LEMMA BrTickStep ==
  ASSUME DurationsFit, BrIInv, Br!Tick
  PROVE  BrIInv'
<1>1. now' = now + 1 /\ now \in Nat /\ UNCHANGED <<issued, claim, work, done>>
  BY DEF Br!Tick, BrIInv, Br!TypeOK, DurationsFit
<1>2. Br!TypeOK'
  <2>1. now' \in 0..MaxTime
    BY DEF Br!Tick, BrIInv, Br!TypeOK, DurationsFit
  <2> QED
    BY <1>1, <2>1, Zenon DEF BrIInv, Br!TypeOK
<1>3. \A n \in Nonce : BrSpent(n)' <=> BrSpent(n)
  BY <1>1 DEF BrSpent, BrDispatching
<1>4. BrFreshInv'
  <2> SUFFICES ASSUME NEW i \in Request, NEW w \in work[i], w.pc = "claim"
               PROVE  now + 1 <= w.since + Timeout
    BY <1>1 DEF BrIInv, BrFreshInv
  <2>1. PICK v \in BrWork : work[i] = {v}
    BY BrWorkOf DEF BrIInv
  <2>2. w.since \in Nat
    BY <2>1 DEF BrWork
  <2>3. now < w.since + Timeout
    BY DEF Br!Tick
  <2> QED
    BY <1>1, <2>2, <2>3 DEF DurationsFit
<1>5. BrSpentInv'
  <2> SUFFICES ASSUME NEW n \in Nonce, BrSpent(n), claim[n] = {}, NEW r \in issued[n]
               PROVE  r.at + MaxSkew + Lag + Timeout < now + 1
    BY <1>1, <1>3 DEF BrSpentInv
  <2>1. r.at \in Nat /\ r.at + MaxSkew + Lag + Timeout < now
    BY BrSignatureOf DEF BrIInv, BrSpentInv
  <2> QED
    BY <1>1, <2>1 DEF DurationsFit
<1> QED
  BY <1>1, <1>2, <1>4, <1>5
  DEF BrIInv, BrIssuedInv, BrClaimInv, BrSoleInv, ExecutedOnce, Br!ExecutedOnce, BrDispatching

LEMMA BrNext == ASSUME DurationsFit PROVE BrIInv /\ [Br!Next]_Br!vars => BrIInv'
<1> SUFFICES ASSUME BrIInv, [Br!Next]_Br!vars PROVE BrIInv'
  OBVIOUS
<1>1. CASE UNCHANGED Br!vars
  BY <1>1
  DEF Br!vars, BrIInv, Br!TypeOK, BrIssuedInv, BrClaimInv, BrFreshInv, BrSpentInv,
      BrSoleInv, ExecutedOnce, Br!ExecutedOnce,
      BrSpent, BrDispatching
<1>2. "media" \in Br!Audience /\ "probe" \in Br!Audience
  BY DEF Br!Audience
<1>3. CASE \E n \in Nonce : Br!Sign(n) \/ Br!SignProbe(n) \/ Br!Purge(n)
  BY <1>2, <1>3, BrSignStep, BrPurgeStep DEF Br!Sign, Br!SignProbe
<1>4. CASE \E i \in Request, n \in Nonce : Br!Deliver(i, n) \/ Br!DeliverProbe(i, n)
  BY <1>2, <1>4, BrArriveStep DEF Br!Deliver, Br!DeliverProbe
<1>5. CASE \E i \in Request : Br!VerifyMediaRequest(i) \/ Br!VerifyProbe(i)
  BY <1>2, <1>5, BrVerifyStep DEF Br!VerifyMediaRequest, Br!VerifyProbe
<1>6. CASE \E i \in Request : Br!ClaimNonce(i)
  BY <1>6, BrClaimStep
<1>7. CASE \E i \in Request : Br!Dispatch(i) \/ Br!Head(i)
  BY <1>7, BrExecuteStep DEF Br!Dispatch, Br!Head
<1>8. CASE \E i \in Request : Br!Fail(i)
  BY <1>8, BrDenyStep DEF Br!Fail
<1>9. CASE Br!Tick
  BY <1>9, BrTickStep
<1> QED
  BY <1>1, <1>3, <1>4, <1>5, <1>6, <1>7, <1>8, <1>9 DEF Br!Next

(* A signed request has its effect at most once, at however many instances *)
(* it is delivered and however often, if an expired claim is kept for long *)
(* enough to cover the lag of a clock and the timeout of a claim.          *)
THEOREM RequestsExecuteOnce == ASSUME DurationsFit PROVE Br!Spec => []ExecutedOnce
<1>1. BrIInv => ExecutedOnce
  BY DEF BrIInv
<1> QED
  BY <1>1, BrInit, BrNext, PTL DEF Br!Spec

-----------------------------------------------------------------------------
(* ListCache.  A page that a write outdates is dropped by that write, or   *)
(* the list is one of the gaps; until then the write has the drop to do.   *)

LcIInv == Lc!TypeOK /\ StaleIsExplained

(* What is in a set of one at most, and what becomes of it.                *)
LEMMA LcOptCases ==
  ASSUME NEW S, NEW x \in Lc!Opt(S)
  PROVE  x = {} \/ \E e \in S : x = {e}
  BY DEF Lc!Opt

(* A write drops every list that shows what it changes, but for the gaps.  *)
LEMMA LcDropsCover ==
  ASSUME NEW op \in Lc!Operation, NEW l \in Lc!List,
         Lc!Shows(l, op), <<op, l>> \notin Lc!Gaps
  PROVE  l \in Lc!Drops(op)
<1> USE DEF Lc!Shows, Lc!Reads, Lc!Writes, Lc!Gaps, Lc!Drops, Lc!OwnList, Lc!List,
            Lc!StudentsList, Lc!ParentsList, Lc!ClassesList, Lc!TeachersList,
            Lc!ExStudentsList, Lc!PoolsList, Lc!TrainingsList, Lc!EventsList, Lc!ResultsList
<1>1. CASE op = "student"
  BY <1>1
<1>2. CASE op = "parent"
  BY <1>2
<1>3. CASE op = "class"
  BY <1>3
<1>4. CASE op = "teacher"
  BY <1>4
<1>5. CASE op = "departure"
  BY <1>5
<1>6. CASE op = "pool"
  BY <1>6
<1>7. CASE op = "training"
  BY <1>7
<1>8. CASE op = "event"
  BY <1>8
<1>9. CASE op = "result"
  BY <1>9
<1> QED
  BY <1>1, <1>2, <1>3, <1>4, <1>5, <1>6, <1>7, <1>8, <1>9 DEF Lc!Operation

LEMMA LcDropsType ==
  ASSUME NEW op \in Lc!Operation
  PROVE  Lc!Drops(op) \subseteq Lc!List
  BY DEF Lc!Operation, Lc!Drops, Lc!OwnList, Lc!List

(* The pages that a write leaves: shown ones are stale.                    *)
LEMMA LcOutdate ==
  ASSUME Lc!TypeOK, NEW op \in Lc!Operation, NEW other \in BOOLEAN,
         page' = Lc!Outdated(op, other)
  PROVE  /\ page' \in [Lc!List -> Lc!Opt(Lc!Page)]
         /\ \A l \in Lc!List : \A g \in page'[l] : \E h \in page[l] :
              \/ g = h
              \/ Lc!Shows(l, op) /\ (g.excused <=> h.excused \/ other \/ <<op, l>> \in Lc!Gaps)
<1>1. ASSUME NEW h \in Lc!Page, NEW b \in BOOLEAN
      PROVE  /\ [h EXCEPT !.stale = TRUE, !.excused = @ \/ b] \in Lc!Page
             /\ [h EXCEPT !.stale = TRUE, !.excused = @ \/ b].excused <=> h.excused \/ b
  BY DEF Lc!Page
<1>2. ASSUME NEW l \in Lc!List
      PROVE  /\ page'[l] \in Lc!Opt(Lc!Page)
             /\ \A g \in page'[l] : \E h \in page[l] :
                  \/ g = h
                  \/ Lc!Shows(l, op) /\ (g.excused <=> h.excused \/ other \/ <<op, l>> \in Lc!Gaps)
  <2>1. page[l] \in Lc!Opt(Lc!Page)
    BY DEF Lc!TypeOK
  <2>2. CASE ~Lc!Shows(l, op)
    BY <2>1, <2>2 DEF Lc!Outdated
  <2>3. CASE Lc!Shows(l, op)
    <3>1. PICK b \in BOOLEAN : b <=> other \/ <<op, l>> \in Lc!Gaps
      OBVIOUS
    <3>2. page'[l] = {[h EXCEPT !.stale = TRUE, !.excused = @ \/ b] : h \in page[l]}
      BY <2>3, <3>1 DEF Lc!Outdated
    <3>3. CASE page[l] = {}
      BY <3>2, <3>3 DEF Lc!Opt
    <3>4. CASE page[l] # {}
      <4>1. PICK h \in Lc!Page : page[l] = {h}
        BY <2>1, <3>4, LcOptCases
      <4>2. page'[l] = {[h EXCEPT !.stale = TRUE, !.excused = @ \/ b]}
        BY <3>2, <4>1
      <4>3. PICK g \in Lc!Page : page'[l] = {g} /\ (g.excused <=> h.excused \/ b)
        BY <1>1, <4>2
      <4> QED
        BY <2>3, <3>1, <4>1, <4>3 DEF Lc!Opt
    <3> QED
      BY <3>3, <3>4
  <2> QED
    BY <2>2, <2>3
<1>3. page' \in [Lc!List -> Lc!Opt(Lc!Page)]
  <2>1. page' = [l \in Lc!List |-> page'[l]]
    BY DEF Lc!Outdated
  <2> QED
    BY <1>2, <2>1
<1> QED
  BY <1>2, <1>3

(* Loads that a write overtakes; writes in progress are as they were.      *)
LEMMA LcOvertake ==
  ASSUME NEW before \in [Request -> Lc!Opt(Lc!Loading \cup Lc!Writing)],
         NEW op \in Lc!Operation, cacheReq' = Lc!Overtaken(before, op)
  PROVE  /\ cacheReq' \in [Request -> Lc!Opt(Lc!Loading \cup Lc!Writing)]
         /\ \A p \in Request : \A r \in before[p] : r.kind = "write" => r \in cacheReq'[p]
<1>1. ASSUME NEW r \in Lc!Loading \cup Lc!Writing
      PROVE  (IF r.kind = "load" /\ Lc!Shows(r.list, op) THEN [r EXCEPT !.stale = TRUE] ELSE r)
               \in Lc!Loading \cup Lc!Writing
  BY DEF Lc!Loading, Lc!Writing
<1>2. \A p \in Request :
        cacheReq'[p] = {IF r.kind = "load" /\ Lc!Shows(r.list, op)
                        THEN [r EXCEPT !.stale = TRUE] ELSE r : r \in before[p]}
  BY DEF Lc!Overtaken
<1>3. ASSUME NEW p \in Request
      PROVE  cacheReq'[p] \in Lc!Opt(Lc!Loading \cup Lc!Writing)
  <2>1. CASE before[p] = {}
    BY <1>2, <2>1 DEF Lc!Opt
  <2>2. CASE before[p] # {}
    <3>1. PICK r \in Lc!Loading \cup Lc!Writing : before[p] = {r}
      BY <2>2, LcOptCases
    <3> DEFINE after == IF r.kind = "load" /\ Lc!Shows(r.list, op)
                        THEN [r EXCEPT !.stale = TRUE] ELSE r
    <3>a. after \in Lc!Loading \cup Lc!Writing
      BY <1>1
    <3>b. cacheReq'[p] = {after}
      BY <1>2, <3>1
    <3> HIDE DEF after
    <3>2. PICK s \in Lc!Loading \cup Lc!Writing : cacheReq'[p] = {s}
      BY <3>a, <3>b
    <3> QED
      BY <3>2 DEF Lc!Opt
  <2> QED
    BY <2>1, <2>2
<1>4. cacheReq' \in [Request -> Lc!Opt(Lc!Loading \cup Lc!Writing)]
  <2>1. cacheReq' = [p \in Request |-> cacheReq'[p]]
    BY DEF Lc!Overtaken
  <2> QED
    BY <1>3, <2>1
<1> QED
  BY <1>2, <1>4

LEMMA LcInit == Lc!Init => LcIInv
  BY DEF Lc!Init, LcIInv, Lc!TypeOK, Lc!Opt, StaleIsExplained, Lc!StaleIsExplained

(* A request starts or ends and no write is forgotten.                     *)
LEMMA LcRequestStep ==
  ASSUME LcIInv, NEW p \in Request, NEW new \in Lc!Opt(Lc!Loading \cup Lc!Writing),
         cacheReq' = [cacheReq EXCEPT ![p] = new],
         \A r \in cacheReq[p] : r.kind = "write" => r.drop = {},
         page' \in [Lc!List -> Lc!Opt(Lc!Page)],
         \A l \in Lc!List : \A g \in page'[l] : g \in page[l] \/ (g.stale => g.excused)
  PROVE  LcIInv'
<1>1. Lc!TypeOK'
  BY DEF LcIInv, Lc!TypeOK
<1>2. \A q \in Request : q # p => cacheReq'[q] = cacheReq[q]
  BY DEF LcIInv, Lc!TypeOK
<1>3. StaleIsExplained'
  BY <1>2 DEF LcIInv, StaleIsExplained, Lc!StaleIsExplained
<1> QED
  BY <1>1, <1>3 DEF LcIInv

LEMMA LcLoadStep ==
  ASSUME LcIInv, NEW p \in Request,
         (\E l \in Cached : Lc!Miss(p, l)) \/ Lc!Set(p) \/ Lc!Fail(p)
  PROVE  LcIInv'
<1>0. page \in [Lc!List -> Lc!Opt(Lc!Page)] /\ {} \in Lc!Opt(Lc!Loading \cup Lc!Writing)
  BY DEF LcIInv, Lc!TypeOK, Lc!Opt
<1>1. ASSUME NEW l \in Cached, Lc!Miss(p, l) PROVE LcIInv'
  <2>1. PICK r : r = [kind |-> "load", list |-> l, stale |-> FALSE]
    OBVIOUS
  <2>2. r \in Lc!Loading
    BY <2>1, CacheAssumption DEF Lc!Loading
  <2>3. PICK new \in Lc!Opt(Lc!Loading \cup Lc!Writing) : new = {r}
    BY <2>2 DEF Lc!Opt
  <2> QED
    BY <1>0, <1>1, <2>1, <2>3, LcRequestStep DEF Lc!Miss, Lc!Start
<1>2. CASE Lc!Set(p)
  <2>1. PICK r \in cacheReq[p] :
          /\ r.kind = "load"
          /\ page' = [page EXCEPT ![r.list] =
                        {[stale |-> r.stale, excused |-> r.stale, ttl |-> TTL]}]
          /\ cacheReq' = [cacheReq EXCEPT ![p] = {}]
    BY <1>2 DEF Lc!Set, Lc!End
  <2>2. cacheReq[p] = {r} /\ r \in Lc!Loading \cup Lc!Writing
    BY <2>1, LcOptCases DEF LcIInv, Lc!TypeOK
  <2>3. r \in Lc!Loading
    BY <2>1, <2>2 DEF Lc!Writing
  <2> DEFINE fresh == [stale |-> r.stale, excused |-> r.stale, ttl |-> TTL]
  <2>a. fresh \in Lc!Page
    BY <2>3, CacheAssumption DEF Lc!Loading, Lc!Page
  <2>b. fresh.stale => fresh.excused
    OBVIOUS
  <2>4. PICK g \in Lc!Page : g = fresh /\ (g.stale => g.excused)
    BY <2>a, <2>b
  <2>5. PICK x \in Lc!Opt(Lc!Page) : x = {g}
    BY DEF Lc!Opt
  <2>6. page' = [page EXCEPT ![r.list] = x]
    BY <2>1, <2>4, <2>5
  <2>7. page' \in [Lc!List -> Lc!Opt(Lc!Page)]
    BY <1>0, <2>6
  <2>8. \A l \in Lc!List : \A h \in page'[l] : h \in page[l] \/ (h.stale => h.excused)
    BY <1>0, <2>4, <2>5, <2>6
  <2> QED
    BY <1>0, <2>1, <2>2, <2>7, <2>8, LcRequestStep
<1>3. CASE Lc!Fail(p)
  <2>1. PICK r \in cacheReq[p] : r.kind = "load"
    BY <1>3 DEF Lc!Fail
  <2>2. cacheReq[p] = {r}
    BY <2>1, LcOptCases DEF LcIInv, Lc!TypeOK
  <2> QED
    BY <1>0, <1>3, <2>1, <2>2, LcRequestStep DEF Lc!Fail, Lc!End
<1> QED
  BY <1>1, <1>2, <1>3

(* The write has the drops to do for what it has just outdated.            *)
LEMMA LcCommitStep ==
  ASSUME LcIInv, NEW p \in Request, NEW op \in Lc!Operation, Lc!Commit(p, op)
  PROVE  LcIInv'
<1>1. PICK r \in Lc!Writing : r = [kind |-> "write", drop |-> Lc!Drops(op)]
  BY LcDropsType DEF Lc!Writing
<1>2. PICK new \in Lc!Opt(Lc!Loading \cup Lc!Writing) : new = {r}
  BY DEF Lc!Opt
<1>3. PICK before : before = [cacheReq EXCEPT ![p] = new]
  OBVIOUS
<1>4. /\ before \in [Request -> Lc!Opt(Lc!Loading \cup Lc!Writing)]
      /\ before[p] = {r} /\ \A q \in Request : q # p => before[q] = cacheReq[q]
  BY <1>2, <1>3 DEF LcIInv, Lc!TypeOK
<1>5. page' = Lc!Outdated(op, FALSE) /\ cacheReq' = Lc!Overtaken(before, op) /\ cacheReq[p] = {}
  BY <1>1, <1>2, <1>3 DEF Lc!Commit
<1>6. /\ cacheReq' \in [Request -> Lc!Opt(Lc!Loading \cup Lc!Writing)]
      /\ \A q \in Request : \A s \in before[q] : s.kind = "write" => s \in cacheReq'[q]
  BY <1>4, <1>5, LcOvertake
<1>7. /\ page' \in [Lc!List -> Lc!Opt(Lc!Page)]
      /\ \A l \in Lc!List : \A g \in page'[l] : \E h \in page[l] :
           \/ g = h
           \/ Lc!Shows(l, op) /\ (g.excused <=> h.excused \/ FALSE \/ <<op, l>> \in Lc!Gaps)
  BY <1>5, LcOutdate DEF LcIInv
<1>8. StaleIsExplained'
  <2> SUFFICES ASSUME NEW l \in Lc!List, NEW g \in page'[l], g.stale, ~g.excused
               PROVE  \E q \in Request : \E s \in cacheReq'[q] : s.kind = "write" /\ l \in s.drop
    BY DEF StaleIsExplained, Lc!StaleIsExplained
  <2>1. CASE g \in page[l]
    <3>1. PICK q \in Request : \E s \in cacheReq[q] : s.kind = "write" /\ l \in s.drop
      BY <2>1 DEF LcIInv, StaleIsExplained, Lc!StaleIsExplained
    <3> QED
      BY <1>4, <1>5, <1>6, <3>1
  <2>2. CASE g \notin page[l]
    <3>1. Lc!Shows(l, op) /\ <<op, l>> \notin Lc!Gaps
      BY <1>7, <2>2
    <3>2. l \in r.drop /\ r.kind = "write"
      BY <1>1, <3>1, LcDropsCover
    <3> QED
      BY <1>4, <1>6, <3>2
  <2> QED
    BY <2>1, <2>2
<1> QED
  BY <1>6, <1>7, <1>8 DEF LcIInv, Lc!TypeOK

LEMMA LcOtherStep ==
  ASSUME LcIInv, NEW op \in Lc!Operation, Lc!OtherProcess(op)
  PROVE  LcIInv'
<1>1. PICK before \in [Request -> Lc!Opt(Lc!Loading \cup Lc!Writing)] : before = cacheReq
  BY DEF LcIInv, Lc!TypeOK
<1>2. page' = Lc!Outdated(op, TRUE) /\ cacheReq' = Lc!Overtaken(before, op)
  BY <1>1 DEF Lc!OtherProcess
<1>3. /\ cacheReq' \in [Request -> Lc!Opt(Lc!Loading \cup Lc!Writing)]
      /\ \A q \in Request : \A s \in before[q] : s.kind = "write" => s \in cacheReq'[q]
  BY <1>2, LcOvertake
<1>4. /\ page' \in [Lc!List -> Lc!Opt(Lc!Page)]
      /\ \A l \in Lc!List : \A g \in page'[l] : g \in page[l] \/ g.excused
  <2>1. PICK other \in BOOLEAN : other
    OBVIOUS
  <2>2. page' = Lc!Outdated(op, other)
    BY <1>2, <2>1
  <2>3. /\ page' \in [Lc!List -> Lc!Opt(Lc!Page)]
        /\ \A l \in Lc!List : \A g \in page'[l] : \E h \in page[l] :
             \/ g = h
             \/ Lc!Shows(l, op) /\ (g.excused <=> h.excused \/ other \/ <<op, l>> \in Lc!Gaps)
    BY <2>2, LcOutdate DEF LcIInv
  <2> QED
    BY <2>1, <2>3
<1>5. StaleIsExplained'
  BY <1>1, <1>3, <1>4 DEF LcIInv, StaleIsExplained, Lc!StaleIsExplained
<1> QED
  BY <1>3, <1>4, <1>5 DEF LcIInv, Lc!TypeOK

(* Only a list whose pages are gone is taken off a write.                  *)
LEMMA LcDeleteStep ==
  ASSUME LcIInv, NEW p \in Request, Lc!DeleteMatching(p)
  PROVE  LcIInv'
<1>1. PICK r \in cacheReq[p] :
        /\ r.kind = "write"
        /\ IF r.drop = {} THEN Lc!End(p) /\ UNCHANGED page
           ELSE \E l \in r.drop :
                  /\ page' = [page EXCEPT ![l] = {}]
                  /\ cacheReq' = [cacheReq EXCEPT ![p] = {[r EXCEPT !.drop = @ \ {l}]}]
  BY DEF Lc!DeleteMatching
<1>2. cacheReq[p] = {r} /\ r \in Lc!Loading \cup Lc!Writing
  BY LcOptCases DEF LcIInv, Lc!TypeOK
<1>3. r \in Lc!Writing
  BY <1>1, <1>2 DEF Lc!Loading
<1>4. {} \in Lc!Opt(Lc!Loading \cup Lc!Writing) /\ page \in [Lc!List -> Lc!Opt(Lc!Page)]
  BY DEF LcIInv, Lc!TypeOK, Lc!Opt
<1>5. CASE r.drop = {}
  BY <1>1, <1>2, <1>4, <1>5, LcRequestStep DEF Lc!End
<1>6. CASE r.drop # {}
  <2>1. PICK l \in r.drop :
          /\ page' = [page EXCEPT ![l] = {}]
          /\ cacheReq' = [cacheReq EXCEPT ![p] = {[r EXCEPT !.drop = @ \ {l}]}]
    BY <1>1, <1>6
  <2>a. r.drop \ {l} \in SUBSET Lc!List
    BY <1>3 DEF Lc!Writing
  <2> DEFINE rest == [r EXCEPT !.drop = @ \ {l}]
  <2>b. rest = [kind |-> "write", drop |-> r.drop \ {l}]
    BY <1>3 DEF Lc!Writing
  <2>c. rest \in Lc!Writing
    BY <2>a, <2>b DEF Lc!Writing
  <2>2. PICK s \in Lc!Writing : s = rest /\ s.drop = r.drop \ {l} /\ s.kind = "write"
    BY <2>b, <2>c
  <2>3. PICK new \in Lc!Opt(Lc!Loading \cup Lc!Writing) : new = {s}
    BY DEF Lc!Opt
  <2>4. cacheReq' = [cacheReq EXCEPT ![p] = new]
    BY <2>1, <2>2, <2>3
  <2>5. /\ cacheReq' \in [Request -> Lc!Opt(Lc!Loading \cup Lc!Writing)]
        /\ cacheReq'[p] = {s} /\ \A q \in Request : q # p => cacheReq'[q] = cacheReq[q]
    BY <2>3, <2>4 DEF LcIInv, Lc!TypeOK
  <2>6. PICK none \in Lc!Opt(Lc!Page) : none = {}
    BY DEF Lc!Opt
  <2>7. page' = [page EXCEPT ![l] = none]
    BY <2>1, <2>6
  <2>8. /\ page' \in [Lc!List -> Lc!Opt(Lc!Page)]
        /\ \A k \in Lc!List : \A g \in page'[k] : k # l /\ g \in page[k]
    BY <1>4, <2>6, <2>7
  <2>9. StaleIsExplained'
    BY <1>2, <2>2, <2>5, <2>8 DEF LcIInv, StaleIsExplained, Lc!StaleIsExplained
  <2> QED
    BY <2>5, <2>8, <2>9 DEF LcIInv, Lc!TypeOK
<1> QED
  BY <1>5, <1>6

LEMMA LcTickStep ==
  ASSUME LcIInv, Lc!Tick
  PROVE  LcIInv'
<1>1. ASSUME NEW h \in Lc!Page, h.ttl > 1
      PROVE  /\ [h EXCEPT !.ttl = @ - 1] \in Lc!Page
             /\ [h EXCEPT !.ttl = @ - 1].stale = h.stale
             /\ [h EXCEPT !.ttl = @ - 1].excused = h.excused
  BY <1>1, CacheAssumption DEF Lc!Page
<1>2. ASSUME NEW l \in Lc!List
      PROVE  /\ page'[l] \in Lc!Opt(Lc!Page)
             /\ \A g \in page'[l] : \E h \in page[l] :
                  (g.stale <=> h.stale) /\ (g.excused <=> h.excused)
  <2>1. page'[l] = {[g EXCEPT !.ttl = @ - 1] : g \in {h \in page[l] : h.ttl > 1}}
    BY DEF Lc!Tick
  <2>2. CASE \A h \in page[l] : ~(h.ttl > 1)
    BY <2>1, <2>2 DEF Lc!Opt
  <2>3. CASE \E h \in page[l] : h.ttl > 1
    <3>1. PICK h \in page[l] : h.ttl > 1
      BY <2>3
    <3>2. page[l] = {h} /\ h \in Lc!Page
      BY <3>1, LcOptCases DEF LcIInv, Lc!TypeOK
    <3>3. page'[l] = {[h EXCEPT !.ttl = @ - 1]}
      BY <2>1, <3>1, <3>2
    <3>4. PICK g \in Lc!Page : page'[l] = {g} /\ g.stale = h.stale /\ g.excused = h.excused
      BY <1>1, <3>1, <3>2, <3>3
    <3> QED
      BY <3>2, <3>4 DEF Lc!Opt
  <2> QED
    BY <2>2, <2>3
<1>3. page' \in [Lc!List -> Lc!Opt(Lc!Page)]
  <2>1. page' = [l \in Lc!List |-> page'[l]]
    BY DEF Lc!Tick
  <2> QED
    BY <1>2, <2>1
<1>4. StaleIsExplained'
  <2>1. cacheReq' = cacheReq
    BY DEF Lc!Tick
  <2> QED
    BY <1>2, <2>1 DEF LcIInv, StaleIsExplained, Lc!StaleIsExplained
<1> QED
  BY <1>3, <1>4 DEF Lc!Tick, LcIInv, Lc!TypeOK

LEMMA LcNext == LcIInv /\ [Lc!Next]_Lc!vars => LcIInv'
<1> SUFFICES ASSUME LcIInv, [Lc!Next]_Lc!vars PROVE LcIInv'
  OBVIOUS
<1>1. CASE UNCHANGED <<page, cacheReq>>
  BY <1>1 DEF LcIInv, Lc!TypeOK, StaleIsExplained, Lc!StaleIsExplained
<1>2. CASE Lc!Restart
  BY <1>2 DEF Lc!Restart, LcIInv, Lc!TypeOK, Lc!Opt, StaleIsExplained, Lc!StaleIsExplained
<1>3. CASE \E l \in Cached : Lc!Get(l)
  BY <1>1, <1>3 DEF Lc!Get, Lc!Hit
<1> QED
  BY <1>1, <1>2, <1>3, LcLoadStep, LcCommitStep, LcOtherStep, LcDeleteStep, LcTickStep
  DEF Lc!Next, Lc!vars

(* After a write of this process has returned, no list shows what was      *)
(* there before it, except for the gaps, for a load that overlapped a      *)
(* write, and for what other processes wrote.                              *)
THEOREM StaleListsAreExplained == Lc!Spec => []StaleIsExplained
<1>1. LcIInv => StaleIsExplained
  BY DEF LcIInv
<1> QED
  BY <1>1, LcInit, LcNext, PTL DEF Lc!Spec

-----------------------------------------------------------------------------
(* Durations.  An edit rounds down to the hundredth that is shown, which   *)
(* is the one that was typed.                                              *)

(* What is stored shows the hundredth that was typed.                      *)
DuRoundedInv ==
  \A r \in Request : \A ms \in stored[r], was \in typed[r] :
    ms <= was /\ ms \div 10 = was \div 10

(* A result has one time or none.                                          *)
DuSingleInv ==
  \A r \in Request : stored[r] \in Du!Opt(Nat) /\ typed[r] \in Du!Opt(Nat)

DuIInv == Du!TypeOK /\ DuSingleInv /\ DuRoundedInv

(* The numbers of a shown time depend on its hundredths alone.             *)
LEMMA DuShown ==
  ASSUME NEW ms \in Nat, NEW c \in Nat, c = ms \div 10
  PROVE  /\ ms \div Du!Hour = c \div 360000
         /\ (ms % Du!Hour) \div Du!Minute = (c % 360000) \div 6000
         /\ (ms % Du!Minute) \div 1000 = (c % 6000) \div 100
         /\ (ms % 1000) \div 10 = c % 100
  BY DEF Du!Hour, Du!Minute

(* The numbers of a time in hundredths add up to it.                       *)
LEMMA DuAddsUp ==
  ASSUME NEW c \in Nat
  PROVE  60 * (60 * (c \div 360000) + (c % 360000) \div 6000) + (c % 6000) \div 100
           = c \div 100
  OBVIOUS

(* The text of the numbers h, m and s and the digits d and u, and the time *)
(* that it says.                                                           *)
DuText(h, m, s, d, u) ==
  [parts |-> IF h > 0 THEN <<h, m, s>> ELSE <<m, s>>, fraction |-> <<d, u>>]

DuSum(h, m, s, d, u) == 1000 * (60 * (60 * h + m) + s) + 100 * d + 10 * u

LEMMA DuFormat ==
  ASSUME NEW ms \in Nat, NEW c \in Nat, c = ms \div 10
  PROVE  Du!FormatDuration(ms)
           = DuText(c \div 360000, (c % 360000) \div 6000, (c % 6000) \div 100,
                    (c % 100) \div 10, (c % 100) % 10)
<1>1. Du!FormatDuration(ms)
        = DuText(ms \div Du!Hour, (ms % Du!Hour) \div Du!Minute, (ms % Du!Minute) \div 1000,
                 ((ms % 1000) \div 10) \div 10, ((ms % 1000) \div 10) % 10)
  BY Zenon DEF Du!FormatDuration, DuText
<1>2. /\ ms \div Du!Hour = c \div 360000
      /\ (ms % Du!Hour) \div Du!Minute = (c % 360000) \div 6000
      /\ (ms % Du!Minute) \div 1000 = (c % 6000) \div 100
      /\ (ms % 1000) \div 10 = c % 100
  BY DuShown
<1> QED
  BY <1>1, <1>2

LEMMA DuParse ==
  ASSUME NEW h \in Nat, NEW m \in Nat, NEW s \in Nat, NEW d \in Nat, NEW u \in Nat,
         m <= 59, s <= 59
  PROVE  Du!ParseDuration(DuText(h, m, s, d, u)) = {DuSum(h, m, s, d, u)}
<1> DEFINE text == DuText(h, m, s, d, u)
<1>1. text.fraction = <<d, u>> /\ Len(text.fraction) = 2
  BY DEF DuText
<1>2. Du!Milliseconds(text.fraction) = 100 * d + 10 * u
  BY <1>1 DEF Du!Milliseconds
<1>3. CASE h > 0
  <2>1. text.parts = <<h, m, s>>
    BY <1>3 DEF DuText
  <2> HIDE DEF text
  <2>2. /\ Len(text.parts) = 3 /\ Du!Last(text.parts) = s /\ text.parts[2] = m
        /\ Du!Total(text.parts) = 60 * (60 * h + m) + s
    BY <2>1 DEF Du!Total, Du!Last
  <2>3. Du!ParseDuration(text)
          = {1000 * Du!Total(text.parts) + Du!Milliseconds(text.fraction)}
    BY <1>1, <2>2 DEF Du!ParseDuration
  <2> QED
    BY <1>2, <2>2, <2>3 DEF text, DuSum
<1>4. CASE ~(h > 0)
  <2>1. text.parts = <<m, s>> /\ h = 0
    BY <1>4 DEF DuText
  <2> HIDE DEF text
  <2>2. /\ Len(text.parts) = 2 /\ Du!Last(text.parts) = s
        /\ Du!Total(text.parts) = 60 * m + s
    BY <2>1 DEF Du!Total, Du!Last
  <2>3. Du!ParseDuration(text)
          = {1000 * Du!Total(text.parts) + Du!Milliseconds(text.fraction)}
    BY <1>1, <2>2 DEF Du!ParseDuration
  <2> QED
    BY <1>2, <2>1, <2>2, <2>3 DEF text, DuSum
<1> QED
  BY <1>3, <1>4

(* Times in the same hundredth are shown alike.                            *)
LEMMA DuShownAlike ==
  ASSUME NEW ms \in Nat, NEW was \in Nat, ms \div 10 = was \div 10
  PROVE  Du!FormatDuration(ms) = Du!FormatDuration(was)
<1>1. PICK c \in Nat : c = ms \div 10 /\ c = was \div 10
  OBVIOUS
<1> QED
  BY <1>1, DuFormat

(* What the form sends back is stored as the hundredth it shows.           *)
LEMMA DuSentBack ==
  ASSUME NEW ms \in Nat
  PROVE  Du!ParseDuration(Du!FormatDuration(ms)) = {10 * (ms \div 10)}
<1>1. PICK c \in Nat : c = ms \div 10
  OBVIOUS
<1>2. PICK h \in Nat : h = c \div 360000
  OBVIOUS
<1>3. PICK m \in Nat : m = (c % 360000) \div 6000 /\ m <= 59
  OBVIOUS
<1>4. PICK s \in Nat : s = (c % 6000) \div 100 /\ s <= 59
  OBVIOUS
<1>5. PICK d \in Nat : d = (c % 100) \div 10
  OBVIOUS
<1>6. PICK u \in Nat : u = (c % 100) % 10
  OBVIOUS
<1>7. Du!FormatDuration(ms) = DuText(h, m, s, d, u)
  BY <1>1, <1>2, <1>3, <1>4, <1>5, <1>6, DuFormat
<1>8. Du!ParseDuration(DuText(h, m, s, d, u)) = {DuSum(h, m, s, d, u)}
  BY <1>3, <1>4, DuParse
<1>9. 60 * (60 * h + m) + s = c \div 100
  BY <1>2, <1>3, <1>4, DuAddsUp
<1>10. DuSum(h, m, s, d, u) = 10 * c
  BY <1>5, <1>6, <1>9 DEF DuSum
<1> QED
  BY <1>1, <1>7, <1>8, <1>10

(* A text that is accepted is a number of milliseconds.                    *)
LEMMA DuTyped ==
  ASSUME NEW text \in Du!Text, NEW ms \in Du!ParseDuration(text)
  PROVE  ms \in Nat
<1>1. PICK digits \in Seq(0..9) : digits = text.fraction
  BY TextAssumption DEF Du!Text
<1>2. Du!Milliseconds(text.fraction) \in Nat
  <2>1. PICK x \in Nat : x = IF 1 <= Len(digits) THEN digits[1] ELSE 0
    OBVIOUS
  <2>2. PICK y \in Nat : y = IF 2 <= Len(digits) THEN digits[2] ELSE 0
    OBVIOUS
  <2>3. PICK z \in Nat : z = IF 3 <= Len(digits) THEN digits[3] ELSE 0
    OBVIOUS
  <2>4. Du!Milliseconds(digits) = 100 * x + 10 * y + z
    BY <2>1, <2>2, <2>3, Zenon DEF Du!Milliseconds
  <2> QED
    BY <1>1, <2>4
<1>3. Du!Total(text.parts) \in Nat
  <2>1. CASE \E n \in Number : text.parts = <<n>>
    BY <2>1, TextAssumption DEF Du!Total
  <2>2. CASE \E n, m \in Number : text.parts = <<n, m>>
    BY <2>2, TextAssumption DEF Du!Total
  <2>3. CASE \E n, m, s \in Number : text.parts = <<n, m, s>>
    BY <2>3, TextAssumption DEF Du!Total
  <2> QED
    BY <2>1, <2>2, <2>3 DEF Du!Text
<1>4. ms = 1000 * Du!Total(text.parts) + Du!Milliseconds(text.fraction)
  BY DEF Du!ParseDuration
<1> QED
  BY <1>2, <1>3, <1>4

LEMMA DuStep == DuIInv /\ [Du!Next]_(Du!vars) => DuIInv'
<1> SUFFICES ASSUME DuIInv, [Du!Next]_(Du!vars)
             PROVE  DuIInv'
  OBVIOUS
<1>1. ASSUME NEW r \in Request, NEW text \in Du!Text, Du!Type(r, text)
      PROVE  DuIInv'
  <2>1. PICK ms \in Du!ParseDuration(text) :
          /\ stored' = [stored EXCEPT ![r] = {ms}]
          /\ typed' = [typed EXCEPT ![r] = {ms}]
    BY <1>1 DEF Du!Type
  <2>2. ms \in Nat
    BY DuTyped
  <2> QED
    BY <2>1, <2>2 DEF DuIInv, Du!TypeOK, DuSingleInv, DuRoundedInv, Du!Opt
<1>2. ASSUME NEW r \in Request, Du!SendBack(r)
      PROVE  DuIInv'
  <2>1. PICK old \in stored[r] : \E ms \in Du!ParseDuration(Du!FormatDuration(old)) :
          stored' = [stored EXCEPT ![r] = {ms}] /\ UNCHANGED typed
    BY <1>2 DEF Du!SendBack
  <2>2. old \in Nat
    BY <2>1 DEF DuIInv, Du!TypeOK
  <2>3. PICK ms \in Nat : ms = 10 * (old \div 10)
    BY <2>2
  <2>4. stored' = [stored EXCEPT ![r] = {ms}] /\ typed' = typed
    BY <2>1, <2>2, <2>3, DuSentBack
  <2>5. ms <= old /\ ms \div 10 = old \div 10
    BY <2>2, <2>3
  <2>6. ASSUME NEW was \in typed[r]
        PROVE  ms <= was /\ ms \div 10 = was \div 10
    <3>1. was \in Nat /\ old <= was /\ old \div 10 = was \div 10
      BY <2>1 DEF DuIInv, Du!TypeOK, DuRoundedInv
    <3> QED
      BY <2>2, <2>5, <3>1
  <2>7. typed[r] # {}
    BY <2>1 DEF DuIInv, Du!TypeOK
  <2> QED
    BY <2>2, <2>4, <2>6, <2>7 DEF DuIInv, Du!TypeOK, DuSingleInv, DuRoundedInv, Du!Opt
<1>3. ASSUME NEW r \in Request, Du!Delete(r)
      PROVE  DuIInv'
  BY <1>3 DEF Du!Delete, DuIInv, Du!TypeOK, DuSingleInv, DuRoundedInv, Du!Opt
<1>4. ASSUME UNCHANGED Du!vars
      PROVE  DuIInv'
  BY <1>4 DEF Du!vars, DuIInv, Du!TypeOK, DuSingleInv, DuRoundedInv
<1> QED
  BY <1>1, <1>2, <1>3, <1>4 DEF Du!Next

LEMMA DuHolds == DuIInv => TimesSurviveEdits
<1> SUFFICES ASSUME DuIInv, NEW r \in Request, NEW ms \in stored[r], NEW was \in typed[r]
             PROVE  /\ Du!FormatDuration(ms) = Du!FormatDuration(was)
                    /\ ms <= was /\ was < ms + 10
                    /\ \A o \in Request : \A other \in stored[o], wasOther \in typed[o] :
                         Du!FormatDuration(was) # Du!FormatDuration(wasOther) =>
                           (was < wasOther <=> ms < other)
  BY DEF TimesSurviveEdits, Du!TimesSurviveEdits
<1>1. ms \in Nat /\ was \in Nat /\ ms <= was /\ ms \div 10 = was \div 10
  BY DEF DuIInv, Du!TypeOK, DuRoundedInv
<1>2. Du!FormatDuration(ms) = Du!FormatDuration(was)
  BY <1>1, DuShownAlike
<1>3. was < ms + 10
  BY <1>1
<1>4. ASSUME NEW o \in Request, NEW other \in stored[o], NEW wasOther \in typed[o],
             Du!FormatDuration(was) # Du!FormatDuration(wasOther)
      PROVE  was < wasOther <=> ms < other
  <2>1. /\ other \in Nat /\ wasOther \in Nat
        /\ other <= wasOther /\ other \div 10 = wasOther \div 10
    BY DEF DuIInv, Du!TypeOK, DuRoundedInv
  <2>2. was \div 10 # wasOther \div 10
    BY <1>1, <1>4, <2>1, DuShownAlike
  <2> QED
    BY <1>1, <2>1, <2>2
<1> QED
  BY <1>1, <1>2, <1>3, <1>4

(* A time is shown as it was typed, however often the result is edited: an *)
(* edit loses less than a hundredth of a second and keeps who was faster.  *)
THEOREM TimesAreKept == Du!Spec => []TimesSurviveEdits
<1>1. Du!Init => DuIInv
  BY DEF Du!Init, DuIInv, Du!TypeOK, DuSingleInv, DuRoundedInv, Du!Opt
<1> QED
  BY <1>1, DuStep, DuHolds, PTL DEF Du!Spec

-----------------------------------------------------------------------------
(* RateLimit.  The attempts let in during the last window are those of the *)
(* running window, which its counter counts, and those of the window       *)
(* before, whose first one is too long ago.                                *)

(* A set of attempts, those of the last n instants, and those before.      *)
RlSince(A, n) == {a \in A : a.age <= n}
RlBefore(A, n) == {a \in A : a.age > n}

(* A counter whose window began some instants ago, when it let somebody in.*)
RlCounts(c, A) ==
  /\ Cardinality(RlSince(A, Window - c.left)) = c.count
  /\ Cardinality(RlBefore(A, Window - c.left)) < Limit
  /\ \E a \in A : a.age = Window - c.left

(* What holds of the counter and the attempts of a key.                    *)
RlKeyInv(C, A) ==
  /\ C = {} \/ \E c \in [count : 1..Limit, left : 0..Window] : C = {c}
  /\ A \subseteq [age : 0..(Window - 1), nth : Nat] /\ IsFiniteSet(A)
  /\ \A a \in A : a.age = 0 => a.nth <= Cardinality(RlSince(A, 0))
  /\ \A c \in C : c.left > 0 => RlCounts(c, A)
  /\ (\A c \in C : c.left = 0) => Cardinality(A) < Limit /\ \A a \in A : a.age > 0

RlIInv ==
  /\ counters = [k \in Rl!Key |-> counters[k]]
  /\ recent = [k \in Rl!Key |-> recent[k]]
  /\ \A k \in Rl!Key : RlKeyInv(counters[k], recent[k])

(* Subsets of the attempts are finite.                                     *)
LEMMA RlFinite ==
  ASSUME NEW A, IsFiniteSet(A), NEW n \in Int
  PROVE  /\ IsFiniteSet(RlSince(A, n)) /\ Cardinality(RlSince(A, n)) \in Nat
         /\ IsFiniteSet(RlBefore(A, n)) /\ Cardinality(RlBefore(A, n)) \in Nat
         /\ Cardinality(A) \in Nat
<1>1. RlSince(A, n) \in SUBSET A /\ RlBefore(A, n) \in SUBSET A
  BY DEF RlSince, RlBefore
<1> QED
  BY <1>1, FS_Subset, FS_CardinalityType

(* The newest attempt is a new one.                                        *)
LEMMA RlLatest ==
  ASSUME NEW C, NEW A, RlKeyInv(C, A), NEW x, x = Rl!Latest(A)
  PROVE  /\ x.age = 0 /\ x \in [age : 0..(Window - 1), nth : Nat] /\ x \notin A
         /\ IsFiniteSet(A \cup {x})
         /\ x.nth = Cardinality(RlSince(A \cup {x}, 0))
<1>1. A \subseteq [age : 0..(Window - 1), nth : Nat] /\ IsFiniteSet(A)
  BY DEF RlKeyInv
<1>2. {a \in A : a.age = 0} = RlSince(A, 0)
  BY <1>1 DEF RlSince
<1>3. x = [age |-> 0, nth |-> 1 + Cardinality(RlSince(A, 0))]
  BY <1>2 DEF Rl!Latest, Rl!Cardinality, Cardinality
<1>4. IsFiniteSet(RlSince(A, 0)) /\ Cardinality(RlSince(A, 0)) \in Nat
  BY <1>1, RlFinite
<1>5. x.age = 0 /\ x \in [age : 0..(Window - 1), nth : Nat] /\ x.nth = 1 + Cardinality(RlSince(A, 0))
  BY <1>3, <1>4, LimitAssumption
<1>6. x \notin A
  BY <1>4, <1>5 DEF RlKeyInv
<1>7. RlSince(A \cup {x}, 0) = RlSince(A, 0) \cup {x} /\ x \notin RlSince(A, 0)
  BY <1>5, <1>6 DEF RlSince
<1>8. Cardinality(RlSince(A \cup {x}, 0)) = 1 + Cardinality(RlSince(A, 0))
  BY <1>4, <1>7, FS_AddElement
<1>9. IsFiniteSet(A \cup {x})
  BY <1>1, FS_AddElement
<1> QED
  BY <1>5, <1>6, <1>8, <1>9

(* A sweep takes nothing but windows that are over.                        *)
LEMMA RlSwept ==
  ASSUME NEW C, NEW A, RlKeyInv(C, A), NEW D, D = C \/ D = {c \in C : c.left > 0}
  PROVE  RlKeyInv(D, A)
<1>1. CASE D = C
  BY <1>1
<1>2. CASE D # C
  <2>1. D = {c \in C : c.left > 0}
    BY <1>2
  <2>2. PICK c \in [count : 1..Limit, left : 0..Window] : C = {c}
    BY <1>2, <2>1 DEF RlKeyInv
  <2>3. D = {} /\ c.left = 0
    BY <1>2, <2>1, <2>2
  <2> QED
    BY <2>2, <2>3 DEF RlKeyInv
<1> QED
  BY <1>1, <1>2

(* The first attempt of a window.                                          *)
LEMMA RlOpens ==
  ASSUME NEW C, NEW A, RlKeyInv(C, A), \A c \in C : c.left = 0, NEW x, x = Rl!Latest(A)
  PROVE  RlKeyInv({[count |-> 1, left |-> Window]}, A \cup {x})
<1> DEFINE c == [count |-> 1, left |-> Window]
           B == A \cup {x}
<1>1. /\ x.age = 0 /\ x \in [age : 0..(Window - 1), nth : Nat] /\ x \notin A
      /\ IsFiniteSet(B) /\ x.nth = Cardinality(RlSince(B, 0))
  BY RlLatest
<1>2. /\ A \subseteq [age : 0..(Window - 1), nth : Nat]
      /\ Cardinality(A) < Limit /\ \A a \in A : a.age > 0
  BY DEF RlKeyInv
<1>3. c \in [count : 1..Limit, left : 0..Window] /\ c.left = Window /\ c.count = 1
  BY LimitAssumption
<1>4. RlSince(B, 0) = {x}
  BY <1>1, <1>2 DEF RlSince
<1>5. RlBefore(B, 0) = A
  BY <1>1, <1>2 DEF RlBefore
<1>6. Cardinality(RlSince(B, 0)) = 1
  BY <1>4, FS_Singleton
<1>7. Window - c.left = 0
  BY <1>3, LimitAssumption
<1>8. RlCounts(c, B)
  BY <1>1, <1>2, <1>3, <1>5, <1>6, <1>7 DEF RlCounts
<1>9. \A a \in B : a.age = 0 => a.nth <= Cardinality(RlSince(B, 0))
  BY <1>1, <1>2, <1>6
<1>10. c.left > 0
  BY <1>3, LimitAssumption
<1> HIDE DEF c, B
<1>11. B \subseteq [age : 0..(Window - 1), nth : Nat]
  BY <1>1, <1>2 DEF B
<1>12. RlKeyInv({c}, B)
  BY <1>1, <1>3, <1>8, <1>9, <1>10, <1>11 DEF RlKeyInv
<1> QED
  BY <1>12 DEF c, B

(* Another attempt in the window.                                          *)
LEMMA RlGoesOn ==
  ASSUME NEW C, NEW A, RlKeyInv(C, A), NEW c \in C, c.left > 0, c.count < Limit,
         NEW x, x = Rl!Latest(A)
  PROVE  RlKeyInv({[c EXCEPT !.count = @ + 1]}, A \cup {x})
<1> DEFINE d == [c EXCEPT !.count = @ + 1]
           B == A \cup {x}
<1>1. /\ x.age = 0 /\ x \in [age : 0..(Window - 1), nth : Nat] /\ x \notin A
      /\ IsFiniteSet(B) /\ x.nth = Cardinality(RlSince(B, 0))
  BY RlLatest
<1>2. /\ A \subseteq [age : 0..(Window - 1), nth : Nat] /\ IsFiniteSet(A)
      /\ \A a \in A : a.age = 0 => a.nth <= Cardinality(RlSince(A, 0))
      /\ c \in [count : 1..Limit, left : 0..Window] /\ RlCounts(c, A)
  BY DEF RlKeyInv
<1>3. d \in [count : 1..Limit, left : 0..Window] /\ d.left = c.left /\ d.count = c.count + 1
  BY <1>2, LimitAssumption
<1>4. PICK n \in Nat : n = Window - c.left
  BY <1>2, LimitAssumption
<1>5. /\ RlSince(B, n) = RlSince(A, n) \cup {x} /\ x \notin RlSince(A, n)
      /\ RlBefore(B, n) = RlBefore(A, n)
  BY <1>1, <1>4 DEF RlSince, RlBefore
<1>6. IsFiniteSet(RlSince(A, n)) /\ IsFiniteSet(RlSince(A, 0)) /\ Cardinality(RlSince(A, 0)) \in Nat
  BY <1>2, RlFinite
<1>7. Cardinality(RlSince(B, n)) = c.count + 1
  <2>1. Cardinality(RlSince(A, n)) = c.count
    BY <1>2, <1>4 DEF RlCounts
  <2>2. Cardinality(RlSince(A, n) \cup {x}) = Cardinality(RlSince(A, n)) + 1
    BY <1>5, <1>6, FS_AddElement
  <2> QED
    BY <1>5, <2>1, <2>2
<1>8. RlCounts(d, B)
  BY <1>2, <1>3, <1>4, <1>5, <1>7 DEF RlCounts
<1>9. Cardinality(RlSince(B, 0)) = Cardinality(RlSince(A, 0)) + 1
  <2>1. RlSince(B, 0) = RlSince(A, 0) \cup {x} /\ x \notin RlSince(A, 0)
    BY <1>1 DEF RlSince
  <2> QED
    BY <1>6, <2>1, FS_AddElement
<1>10. \A a \in B : a.age = 0 => a.nth <= Cardinality(RlSince(B, 0))
  BY <1>1, <1>2, <1>6, <1>9
<1> HIDE DEF d, B
<1>11. B \subseteq [age : 0..(Window - 1), nth : Nat]
  BY <1>1, <1>2 DEF B
<1>12. RlKeyInv({d}, B)
  BY <1>1, <1>3, <1>8, <1>10, <1>11 DEF RlKeyInv
<1> QED
  BY <1>12 DEF d, B

(* The attempts S an instant later: as many.                               *)
RlLater(S) == {[a EXCEPT !.age = @ + 1] : a \in S}

LEMMA RlAsMany ==
  ASSUME NEW S, S \subseteq [age : 0..(Window - 1), nth : Nat], IsFiniteSet(S)
  PROVE  IsFiniteSet(RlLater(S)) /\ Cardinality(RlLater(S)) = Cardinality(S)
<1> DEFINE f == [a \in S |-> [a EXCEPT !.age = @ + 1]]
<1>1. f \in [S -> RlLater(S)]
  BY DEF RlLater
<1>2. ASSUME NEW a \in S, NEW b \in S, f[a] = f[b]
      PROVE  a = b
  <2>1. /\ a = [age |-> a.age, nth |-> a.nth] /\ b = [age |-> b.age, nth |-> b.nth]
        /\ a.age \in Int /\ b.age \in Int
    BY LimitAssumption
  <2>2. a.age + 1 = b.age + 1 /\ a.nth = b.nth
    BY <1>2, <2>1
  <2> QED
    BY <2>1, <2>2
<1>3. \A b \in RlLater(S) : \E a \in S : f[a] = b
  BY DEF RlLater
<1>4. f \in Bijection(S, RlLater(S))
  BY <1>1, <1>2, <1>3 DEF Bijection, Injection, Surjection, IsInjective
<1>5. ExistsBijection(S, RlLater(S))
  BY <1>4 DEF ExistsBijection
<1> QED
  BY <1>5, FS_Bijection

(* An instant passes: the first attempt of a window leaves with the window.*)
LEMMA RlTicks ==
  ASSUME NEW C, NEW A, RlKeyInv(C, A),
         NEW D, D = {[c EXCEPT !.left = IF @ = 0 THEN 0 ELSE @ - 1] : c \in C},
         NEW B, B = Rl!Older(A)
  PROVE  RlKeyInv(D, B)
<1>1. A \subseteq [age : 0..(Window - 1), nth : Nat] /\ IsFiniteSet(A)
  BY DEF RlKeyInv
<1>2. PICK kept \in SUBSET A : kept = RlSince(A, Window - 2)
  BY DEF RlSince
<1>3. B = RlLater(kept)
  <2>1. {b \in A : b.age + 1 \in Rl!Instant} = kept
    BY <1>1, <1>2, LimitAssumption DEF RlSince, Rl!Instant
  <2> QED
    BY <2>1 DEF Rl!Older, RlLater
<1>4. /\ IsFiniteSet(B) /\ Cardinality(B) = Cardinality(kept)
      /\ Cardinality(B) <= Cardinality(A) /\ Cardinality(B) \in Nat /\ Cardinality(A) \in Nat
      /\ Cardinality(kept) = Cardinality(A) => kept = A
  BY <1>1, <1>2, <1>3, RlAsMany, FS_Subset, FS_CardinalityType
<1>5. B \subseteq [age : 0..(Window - 1), nth : Nat] /\ \A a \in B : a.age > 0
  BY <1>1, <1>2, <1>3, LimitAssumption DEF RlLater, RlSince
<1>6. CASE \A c \in C : c.left = 0
  <2>1. D = C
    BY <1>6 DEF RlKeyInv
  <2>2. Cardinality(B) < Limit
    BY <1>4, <1>6, LimitAssumption DEF RlKeyInv
  <2> QED
    BY <1>4, <1>5, <1>6, <2>1, <2>2 DEF RlKeyInv
<1>7. ASSUME NEW c \in [count : 1..Limit, left : 0..Window], C = {c}, c.left > 0
      PROVE  RlKeyInv(D, B)
  <2>1. RlCounts(c, A)
    BY <1>7 DEF RlKeyInv
  <2>2. PICK d : d = [c EXCEPT !.left = c.left - 1]
    OBVIOUS
  <2>3. /\ d \in [count : 1..Limit, left : 0..Window]
        /\ d.left = c.left - 1 /\ d.count = c.count
    BY <1>7, <2>2, LimitAssumption
  <2>4. D = {d}
    BY <1>7, <2>2
  <2>5. CASE c.left = 1
    <3>1. RlSince(A, Window - 1) = A
      BY <1>1, LimitAssumption DEF RlSince
    <3>2. Cardinality(A) <= Limit
      BY <2>1, <2>5, <3>1, LimitAssumption DEF RlCounts
    <3>3. kept # A
      BY <1>1, <1>2, <2>1, <2>5, LimitAssumption DEF RlCounts, RlSince
    <3>4. Cardinality(B) < Limit
      BY <1>4, <3>2, <3>3, LimitAssumption
    <3>5. d.left = 0
      BY <2>3, <2>5
    <3> QED
      BY <1>4, <1>5, <2>3, <2>4, <3>4, <3>5 DEF RlKeyInv
  <2>6. CASE c.left # 1
    <3>1. PICK n \in Nat : n = Window - c.left
      BY LimitAssumption
    <3>2. n + 1 = Window - d.left /\ n <= Window - 2 /\ d.left > 0
      BY <1>7, <2>3, <2>6, <3>1, LimitAssumption
    <3>3. PICK since \in SUBSET A : since = RlSince(A, n)
      BY DEF RlSince
    <3>4. PICK old \in SUBSET RlBefore(A, n) : old = RlBefore(kept, n)
      BY DEF RlBefore
    <3>5. RlSince(B, n + 1) = RlLater(since)
      BY <1>1, <1>2, <1>3, <3>1, <3>2, <3>3, LimitAssumption DEF RlSince, RlLater
    <3>6. RlBefore(B, n + 1) = RlLater(old)
      BY <1>1, <1>2, <1>3, <3>1, <3>4, LimitAssumption DEF RlBefore, RlLater
    <3>7. Cardinality(RlSince(B, n + 1)) = d.count
      <4>1. Cardinality(RlLater(since)) = Cardinality(since)
        BY <1>1, <3>3, RlAsMany, FS_Subset
      <4> QED
        BY <2>1, <2>3, <3>1, <3>3, <3>5, <4>1 DEF RlCounts
    <3>8. Cardinality(RlBefore(B, n + 1)) < Limit
      <4>1. /\ IsFiniteSet(RlBefore(A, n)) /\ Cardinality(RlBefore(A, n)) \in Nat
            /\ RlBefore(A, n) \subseteq A
        BY <1>1, <3>1, RlFinite DEF RlBefore
      <4>2. /\ IsFiniteSet(old) /\ Cardinality(old) <= Cardinality(RlBefore(A, n))
            /\ Cardinality(old) \in Nat
        BY <3>4, <4>1, FS_Subset, FS_CardinalityType
      <4>3. Cardinality(RlLater(old)) = Cardinality(old)
        BY <1>1, <3>4, <4>1, <4>2, RlAsMany
      <4>4. Cardinality(RlBefore(A, n)) < Limit
        BY <2>1, <3>1 DEF RlCounts
      <4> QED
        BY <3>6, <4>1, <4>2, <4>3, <4>4, LimitAssumption
    <3>9. \E a \in B : a.age = n + 1
      <4>1. PICK a \in A : a.age = n
        BY <2>1, <3>1 DEF RlCounts
      <4>2. a \in kept
        BY <1>2, <3>2, <4>1, LimitAssumption DEF RlSince
      <4>3. [a EXCEPT !.age = @ + 1] \in B
        BY <1>3, <4>2 DEF RlLater
      <4> QED
        BY <1>1, <4>1, <4>3
    <3>10. RlCounts(d, B)
      BY <3>2, <3>7, <3>8, <3>9 DEF RlCounts
    <3> QED
      BY <1>4, <1>5, <2>3, <2>4, <3>2, <3>10 DEF RlKeyInv
  <2> QED
    BY <2>5, <2>6
<1>8. C = {} \/ \E c \in [count : 1..Limit, left : 0..Window] : C = {c}
  BY DEF RlKeyInv
<1>9. ASSUME NEW c \in [count : 1..Limit, left : 0..Window], C = {c}, ~(c.left > 0)
      PROVE  RlKeyInv(D, B)
  <2>1. c.left = 0
    BY <1>9, LimitAssumption
  <2> QED
    BY <1>6, <1>9, <2>1
<1> QED
  BY <1>6, <1>7, <1>8, <1>9

LEMMA RlStep == RlIInv /\ [Rl!Next]_(Rl!vars) => RlIInv'
<1> SUFFICES ASSUME RlIInv, [Rl!Next]_(Rl!vars)
             PROVE  RlIInv'
  OBVIOUS
<1>1. ASSUME NEW route, NEW client, NEW address, Rl!Attempt(route, client, address)
      PROVE  RlIInv'
  <2> DEFINE k == Rl!KeyOf(route, client, address)
             running == {c \in Rl!Swept[k] : c.left > 0}
             full == \E c \in running : c.count >= Limit
             next == IF running = {} THEN {[count |-> 1, left |-> Window]}
                     ELSE {[c EXCEPT !.count = @ + 1] : c \in running}
  <2>1. /\ counters' = IF full THEN Rl!Swept ELSE [Rl!Swept EXCEPT ![k] = next]
        /\ recent' = IF full THEN recent ELSE [recent EXCEPT ![k] = @ \cup {Rl!Latest(@)}]
    BY <1>1 DEF Rl!Attempt
  <2>2. ASSUME NEW j \in Rl!Key
        PROVE  RlKeyInv(Rl!Swept[j], recent[j])
    <3>1. RlKeyInv(counters[j], recent[j])
      BY DEF RlIInv
    <3>2. Rl!Swept[j] = counters[j] \/ Rl!Swept[j] = {c \in counters[j] : c.left > 0}
      BY DEF Rl!Swept
    <3> QED
      BY <3>1, <3>2, RlSwept
  <2>3. Rl!Swept = [j \in Rl!Key |-> Rl!Swept[j]]
    BY DEF Rl!Swept
  <2>4. ASSUME k \in Rl!Key, ~full
        PROVE  RlKeyInv(next, recent[k] \cup {Rl!Latest(recent[k])})
    <3>1. RlKeyInv(Rl!Swept[k], recent[k])
      BY <2>2, <2>4
    <3>2. CASE running = {}
      <4>1. \A c \in Rl!Swept[k] : c.left = 0
        BY <3>1, <3>2, LimitAssumption DEF RlKeyInv
      <4> QED
        BY <3>1, <3>2, <4>1, RlOpens
    <3>3. CASE running # {}
      <4>1. PICK c \in [count : 1..Limit, left : 0..Window] : Rl!Swept[k] = {c} /\ c.left > 0
        BY <3>1, <3>3 DEF RlKeyInv
      <4>2. running = {c}
        BY <4>1
      <4>3. c.count < Limit
        BY <2>4, <4>1, <4>2, LimitAssumption
      <4>4. next = {[c EXCEPT !.count = @ + 1]}
        BY <4>2
      <4> HIDE DEF next
      <4> QED
        BY <3>1, <4>1, <4>3, <4>4, RlGoesOn
    <3> QED
      BY <3>2, <3>3
  <2> HIDE DEF k, next, full
  <2>5. CASE full
    BY <2>1, <2>2, <2>3, <2>5 DEF RlIInv
  <2>6. CASE ~full
    <3>1. /\ counters' = [Rl!Swept EXCEPT ![k] = next]
          /\ recent' = [recent EXCEPT ![k] = @ \cup {Rl!Latest(@)}]
      BY <2>1, <2>6
    <3>2. /\ counters' = [j \in Rl!Key |-> counters'[j]]
          /\ recent' = [j \in Rl!Key |-> recent'[j]]
      BY <2>3, <3>1 DEF RlIInv
    <3>3. ASSUME NEW j \in Rl!Key
          PROVE  RlKeyInv(counters'[j], recent'[j])
      <4>1. CASE j = k
        <5>1. counters'[j] = next /\ recent'[j] = recent[k] \cup {Rl!Latest(recent[k])}
          BY <2>3, <3>1, <4>1 DEF RlIInv
        <5> QED
          BY <2>4, <2>6, <4>1, <5>1
      <4>2. CASE j # k
        <5>1. counters'[j] = Rl!Swept[j] /\ recent'[j] = recent[j]
          BY <2>3, <3>1, <4>2 DEF RlIInv
        <5> QED
          BY <2>2, <5>1
      <4> QED
        BY <4>1, <4>2
    <3> QED
      BY <3>2, <3>3 DEF RlIInv
  <2> QED
    BY <2>5, <2>6
<1>2. ASSUME Rl!Tick
      PROVE  RlIInv'
  <2>1. ASSUME NEW k \in Rl!Key
        PROVE  RlKeyInv(counters'[k], recent'[k])
    <3>1. counters'[k]
            = {[c EXCEPT !.left = IF @ = 0 THEN 0 ELSE @ - 1] : c \in counters[k]}
      BY <1>2 DEF Rl!Tick
    <3>2. recent'[k] = Rl!Older(recent[k])
      BY <1>2 DEF Rl!Tick
    <3>3. RlKeyInv(counters[k], recent[k])
      BY DEF RlIInv
    <3> QED
      BY <3>1, <3>2, <3>3, RlTicks
  <2> QED
    BY <1>2, <2>1 DEF Rl!Tick, RlIInv
<1>3. ASSUME Rl!Restart
      PROVE  RlIInv'
  <2>1. RlKeyInv({}, {})
    BY FS_EmptySet, LimitAssumption DEF RlKeyInv
  <2> QED
    BY <1>3, <2>1 DEF Rl!Restart, RlIInv
<1>4. ASSUME UNCHANGED Rl!vars
      PROVE  RlIInv'
  BY <1>4 DEF Rl!vars, RlIInv
<1> QED
  BY <1>1, <1>2, <1>3, <1>4 DEF Rl!Next

LEMMA RlHolds == RlIInv => WindowsHold
<1> SUFFICES ASSUME RlIInv, NEW k \in Rl!Key
             PROVE  /\ Cardinality(recent[k]) < 2 * Limit
                    /\ recent[k] = {} => \A c \in counters[k] : c.left = 0
  BY DEF WindowsHold, Rl!WindowsHold, Rl!Cardinality, Cardinality
<1>1. PICK C, A : C = counters[k] /\ A = recent[k]
  OBVIOUS
<1>2. RlKeyInv(C, A)
  BY <1>1 DEF RlIInv
<1>3. CASE \A c \in C : c.left = 0
  <2>1. Cardinality(A) < Limit /\ Cardinality(A) \in Nat
    BY <1>2, <1>3, FS_CardinalityType DEF RlKeyInv
  <2> QED
    BY <1>1, <1>3, <2>1, LimitAssumption
<1>4. ASSUME NEW c \in [count : 1..Limit, left : 0..Window], C = {c}, c.left > 0
      PROVE  Cardinality(A) < 2 * Limit /\ A # {}
  <2>1. RlCounts(c, A) /\ IsFiniteSet(A) /\ A \subseteq [age : 0..(Window - 1), nth : Nat]
    BY <1>2, <1>4 DEF RlKeyInv
  <2>2. PICK n \in Nat : n = Window - c.left
    BY LimitAssumption
  <2>3. /\ Cardinality(RlSince(A, n)) = c.count /\ Cardinality(RlBefore(A, n)) < Limit
        /\ A # {}
    BY <2>1, <2>2 DEF RlCounts
  <2>4. /\ IsFiniteSet(RlSince(A, n)) /\ IsFiniteSet(RlBefore(A, n))
        /\ Cardinality(RlBefore(A, n)) \in Nat
    BY <2>1, <2>2, RlFinite
  <2>5. RlSince(A, n) \cup RlBefore(A, n) = A /\ RlSince(A, n) \cap RlBefore(A, n) = {}
    BY <2>1, <2>2, LimitAssumption DEF RlSince, RlBefore
  <2>6. Cardinality(A) = Cardinality(RlSince(A, n)) + Cardinality(RlBefore(A, n))
    <3>1. Cardinality(RlSince(A, n) \cap RlBefore(A, n)) = 0
      BY <2>5, FS_EmptySet
    <3>2. Cardinality(RlSince(A, n) \cup RlBefore(A, n))
            = Cardinality(RlSince(A, n)) + Cardinality(RlBefore(A, n)) - 0
      BY <2>4, <3>1, FS_Union
    <3>3. Cardinality(RlSince(A, n)) \in Nat
      BY <2>4, FS_CardinalityType
    <3>4. Cardinality(A) = Cardinality(RlSince(A, n)) + Cardinality(RlBefore(A, n)) - 0
      BY <2>5, <3>2
    <3> QED
      BY <2>4, <3>3, <3>4
  <2> QED
    BY <2>3, <2>4, <2>6, LimitAssumption
<1> QED
  BY <1>1, <1>2, <1>3, <1>4, LimitAssumption DEF RlKeyInv

(* The guard keeps what fixed windows can keep: two windows let in less    *)
(* than twice the limit in any stretch as long as one, and whoever was let *)
(* in nowhere in such a stretch is not turned away.                        *)
THEOREM LimitsAreKept == Rl!Spec => []WindowsHold
<1>1. Rl!Init => RlIInv
  BY FS_EmptySet, LimitAssumption DEF Rl!Init, RlIInv, RlKeyInv
<1> QED
  BY <1>1, RlStep, RlHolds, PTL DEF Rl!Spec

-----------------------------------------------------------------------------
(* The composition                                                         *)

(* What the modules side by side do is what each of them allows, so that   *)
(* the theorems above, and those of Departures, hold of Services.          *)
THEOREM ServicesRunTheirModules ==
  ServicesSpec =>
    Up!Spec /\ Br!Spec /\ Lc!Spec /\ Rs!Spec /\ Du!Spec /\ Rl!Spec /\ Spec
<1>1. ServicesInit =>
        Up!Init /\ Br!Init /\ Lc!Init /\ Rs!Init /\ Du!Init /\ Rl!Init /\ Init
  BY DEF ServicesInit
<1>2. [ServicesNext]_<<module, vars, upVars, lcVars, brVars, rsVars, duVars, rlVars>>
        => [Up!Next]_Up!vars
  BY DEF ServicesNext, Rest, upVars, Up!vars
<1>3. [ServicesNext]_<<module, vars, upVars, lcVars, brVars, rsVars, duVars, rlVars>>
        => [Br!Next]_Br!vars
  BY DEF ServicesNext, Rest, brVars, Br!vars
<1>4. [ServicesNext]_<<module, vars, upVars, lcVars, brVars, rsVars, duVars, rlVars>>
        => [Lc!Next]_Lc!vars
  BY DEF ServicesNext, Rest, lcVars, Lc!vars
<1>5. [ServicesNext]_<<module, vars, upVars, lcVars, brVars, rsVars, duVars, rlVars>>
        => [Rs!Next]_Rs!vars
  BY DEF ServicesNext, Rest, rsVars, Rs!vars
<1>6. [ServicesNext]_<<module, vars, upVars, lcVars, brVars, rsVars, duVars, rlVars>>
        => [Du!Next]_Du!vars
  BY DEF ServicesNext, Rest, duVars, Du!vars
<1>7. [ServicesNext]_<<module, vars, upVars, lcVars, brVars, rsVars, duVars, rlVars>>
        => [Rl!Next]_Rl!vars
  BY DEF ServicesNext, Rest, rlVars, Rl!vars
<1>8. [ServicesNext]_<<module, vars, upVars, lcVars, brVars, rsVars, duVars, rlVars>>
        => [Next]_vars
  BY DEF ServicesNext, Rest, vars
<1> QED
  BY <1>1, <1>2, <1>3, <1>4, <1>5, <1>6, <1>7, <1>8,
     PTL DEF ServicesSpec, Up!Spec, Br!Spec, Lc!Spec, Rs!Spec, Du!Spec, Rl!Spec, Spec
=============================================================================
