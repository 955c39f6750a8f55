------------------------------- MODULE Broker -------------------------------
(***************************************************************************)
(* Signed requests to the BLOB broker, for an image or as a probe.         *)
(* Several serverless instances, each with its own clock, verify a request *)
(* at one of two routes, claim its nonce in one table and dispatch it.     *)
(* The network may deliver a request more than once, at any time and at    *)
(* either route; nonces may be purged once they have expired.              *)
(***************************************************************************)
EXTENDS Naturals, FiniteSets

CONSTANTS
  Nonce,     \* signed requests
  Instance,  \* instances of the broker, each with one delivery in progress
  MaxSkew,   \* MAX_SKEW_MS
  Margin,    \* the 1000 ms that a claim outlives its request
  Lag,       \* how far an instance may be behind the database's clock
  Timeout,   \* connectionTimeoutMillis and statement_timeout of the claim
  Grace,     \* how long an expired nonce is kept
  MaxTime    \* bound: the clock of the database

VARIABLES
  now,     \* the clock of the database
  issued,  \* per nonce, the audience and issuedAtMs of the request signed
  claim,   \* private_blob_broker_nonce_claims: expires_at per nonce
  work,    \* per instance, the request in progress
  done     \* per nonce, how often it was dispatched, capped

vars == <<now, issued, claim, work, done>>

Opt(S) == {{}} \cup {{x} : x \in S}
Audience == {"media", "probe"}

TypeOK ==
  /\ now \in 0..MaxTime
  /\ issued \in [Nonce -> Opt([audience : Audience, at : 0..MaxTime])]
  /\ claim \in [Nonce -> Opt(0..(MaxTime + MaxSkew + Margin))]
  /\ work \in [Instance -> Opt([pc : {"verify", "claim", "dispatch"}, nonce : Nonce,
                                route : Audience, since : 0..MaxTime])]  \* reached pc
  /\ done \in [Nonce -> 0..2]

Init ==
  /\ now = 0
  /\ issued = [n \in Nonce |-> {}]
  /\ claim = [n \in Nonce |-> {}]
  /\ work = [i \in Instance |-> {}]
  /\ done = [n \in Nonce |-> 0]

-----------------------------------------------------------------------------

(* PrivateBlobBrokerStorageRepository.request and createStagingReadOnlyProbe: *)
(* a request is signed once, with a fresh nonce.                           *)
SignAs(n, audience) ==
  /\ issued[n] = {}
  /\ issued' = [issued EXCEPT ![n] = {[audience |-> audience, at |-> now]}]
  /\ UNCHANGED <<now, claim, work, done>>
Sign(n) == SignAs(n, "media")
SignProbe(n) == SignAs(n, "probe")

ArriveAt(i, n, route) ==
  /\ issued[n] # {} /\ work[i] = {}
  /\ work' = [work EXCEPT ![i] =
                {[pc |-> "verify", nonce |-> n, route |-> route, since |-> now]}]
  /\ UNCHANGED <<now, issued, claim, done>>
Deliver(i, n) == ArriveAt(i, n, "media")
DeliverProbe(i, n) == ArriveAt(i, n, "probe")

Pc(i, pc) == \E w \in work[i] : w.pc = pc
At(i, route) == \E w \in work[i] : w.route = route
NonceOf(i) == CHOOSE n \in Nonce : \E w \in work[i] : w.nonce = n
Goto(i, pc) == work' = [work EXCEPT ![i] = {[w EXCEPT !.pc = pc, !.since = now] : w \in @}]
Deny(i) == work' = [work EXCEPT ![i] = {}]

(* The difference of the clocks, in either direction; the signature covers *)
(* the audience, which each route asks for.                                *)
InTime(at, clock) == clock <= at + MaxSkew /\ at <= clock + MaxSkew
Verify(i, audience) ==
  /\ Pc(i, "verify") /\ At(i, audience)
  /\ \E lag \in 0..Lag :
       /\ lag <= now
       /\ IF \E r \in issued[NonceOf(i)] : r.audience = audience /\ InTime(r.at, now - lag)
          THEN Goto(i, "claim") ELSE Deny(i)
  /\ UNCHANGED <<now, issued, claim, done>>
VerifyMediaRequest(i) == Verify(i, "media")
VerifyProbe(i) == Verify(i, "probe")

(* Mutant: the claim expires with the request itself.                      *)
ExpiresWithRequest(at) == at + MaxSkew
ExpiresAt(at) == at + MaxSkew + Margin

(* INSERT ... ON CONFLICT DO NOTHING: one statement decides.  A nonce that *)
(* is not written any more has expired on the way.  The key of a nonce is  *)
(* the same at both routes.                                                *)
ClaimNonce(i) ==
  LET n == NonceOf(i) IN
  /\ Pc(i, "claim")
  /\ IF claim[n] = {}
     THEN /\ claim' = [claim EXCEPT ![n] = {ExpiresAt(r.at) : r \in issued[n]}]
          /\ Goto(i, "dispatch")
     ELSE Deny(i) /\ UNCHANGED claim
  /\ UNCHANGED <<now, issued, done>>

(* put, get, stat and delete of an image; the HEAD of a probe.             *)
Execute(i) ==
  /\ Pc(i, "dispatch")
  /\ done' = [done EXCEPT ![NonceOf(i)] = IF @ < 2 THEN @ + 1 ELSE @]
  /\ Deny(i)
  /\ UNCHANGED <<now, issued, claim>>
Dispatch(i) == At(i, "media") /\ Execute(i)
Head(i) == At(i, "probe") /\ Execute(i)

(* An instance is stopped, or the database refuses: the caller is told no. *)
Fail(i) == work[i] # {} /\ Deny(i) /\ UNCHANGED <<now, issued, claim, done>>

(* "Never DELETE a nonce before its signed request expires": the optional *)
(* maintenance statement of the database's owner.                          *)
Purge(n) ==
  /\ \E until \in claim[n] : until + Grace < now
  /\ claim' = [claim EXCEPT ![n] = {}]
  /\ UNCHANGED <<now, issued, work, done>>

(* Time passes, but a claim that takes longer than its timeouts has failed. *)
Tick ==
  /\ now < MaxTime
  /\ \A i \in Instance : \A w \in work[i] : w.pc = "claim" => now < w.since + Timeout
  /\ now' = now + 1
  /\ UNCHANGED <<issued, claim, work, done>>

Next ==
  \/ \E n \in Nonce : Sign(n) \/ SignProbe(n) \/ Purge(n)
  \/ \E i \in Instance :
       \/ \E n \in Nonce : Deliver(i, n) \/ DeliverProbe(i, n)
       \/ VerifyMediaRequest(i) \/ VerifyProbe(i) \/ ClaimNonce(i)
       \/ Dispatch(i) \/ Head(i) \/ Fail(i)
  \/ Tick

Spec == Init /\ [][Next]_vars

-----------------------------------------------------------------------------

(* A signed request has its effect at most once, however often and at      *)
(* however many instances it is delivered, and however their clocks lag.   *)
ExecutedOnce == \A n \in Nonce : done[n] <= 1
=============================================================================
