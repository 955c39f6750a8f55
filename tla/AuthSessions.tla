----------------------------- MODULE AuthSessions -----------------------------
(***************************************************************************)
(* One account: its invitation, its password, the links that set the       *)
(* password, and the sessions of its devices.  Requests run concurrently,  *)
(* each database transaction at READ COMMITTED with row locks.             *)
(*                                                                         *)
(* A request is a process with a program counter; what a transaction wrote *)
(* but did not commit stays in its request, and its locks are read off the *)
(* program counters.  An UPDATE of many sessions has a snapshot: it        *)
(* revokes the rows it saw when it started, after waiting for those that   *)
(* another transaction has locked.                                         *)
(***************************************************************************)
EXTENDS Integers, FiniteSets

CONSTANTS
  Request,   \* requests in progress at the same time
  Session,   \* session ids, each with its refresh token
  Link,      \* one-time links (their tokens)
  Expiring,  \* bound: the sessions and links that may expire
  None

ASSUME NoneAssumption == None \notin Session \cup Link

VARIABLES
  account,     \* "absent", "pending" (invited), "confirmed" (has a password)
  generation,  \* how often the password was set: names the current hash
  session,     \* auth_sessions
  link,        \* local_auth_action_tokens
  expired,     \* sessions and links past their expiry
  req,
  parent       \* history: the session that a session was rotated from

tables == <<account, generation, session, link>>
vars == <<account, generation, session, link, expired, req, parent>>

Purpose == {"INVITATION", "PASSWORD_RESET"}

Pc == {"idle", "issue", "issuing", "redeem", "redeemLocked", "redeeming",
       "login", "create", "rotate", "rotating", "revoke", "revoking", "logout"}

RequestState ==
  [pc : Pc, session : Session \cup {None}, fresh : Session \cup {None},
   link : Link \cup {None}, purpose : Purpose, generation : Nat,
   targets : SUBSET (Session \cup Link)]

Idle == [pc |-> "idle", session |-> None, fresh |-> None, link |-> None,
         purpose |-> "INVITATION", generation |-> 0, targets |-> {}]

TypeOK ==
  /\ account \in {"absent", "pending", "confirmed"}
  /\ generation \in Nat
  /\ session \in [Session -> [status : {"none", "active", "revoked"},
                              successor : Session \cup {None}]]
  /\ link \in [Link -> [status : {"none", "open", "used"}, purpose : Purpose]]
  /\ expired \subseteq Session \cup Link
  /\ req \in [Request -> RequestState]
  /\ parent \in [Session -> Session \cup {None}]

Init ==
  /\ account = "absent"
  /\ generation = 0
  /\ session = [s \in Session |-> [status |-> "none", successor |-> None]]
  /\ link = [t \in Link |-> [status |-> "none", purpose |-> "INVITATION"]]
  /\ expired = {}
  /\ req = [p \in Request |-> Idle]
  /\ parent = [s \in Session |-> None]

-----------------------------------------------------------------------------
(* Requests, locks and fresh ids                                           *)

At(p, pc) == req[p].pc = pc
GoTo(p, pc) == req' = [req EXCEPT ![p].pc = pc]
Start(p, r) == At(p, "idle") /\ req' = [req EXCEPT ![p] = r]
Finish(p) == req' = [req EXCEPT ![p] = Idle]

(* SELECT ... FOR UPDATE of local_auth_identities, to the commit.          *)
IdentityLocked ==
  \E p \in Request : req[p].pc \in {"issuing", "redeemLocked", "redeeming"}

(* SELECT ... FOR UPDATE of the session that is rotated.                   *)
SessionLocked(s) == \E p \in Request : At(p, "rotating") /\ req[p].session = s

FreshSession(s) ==
  session[s].status = "none" /\ \A p \in Request : req[p].fresh # s

FreshLink(t) ==
  link[t].status = "none" /\ \A p \in Request : req[p].link # t

Active == {s \in Session : session[s].status = "active"}

(* activeLocalIdentitySession and expiresAt: what a token must satisfy.    *)
Usable(s) == s \in Active \ expired /\ account = "confirmed"

Revoked(targets) ==
  [s \in Session |-> IF s \in targets \cap Active
                     THEN [session[s] EXCEPT !.status = "revoked"]
                     ELSE session[s]]

-----------------------------------------------------------------------------
(* LocalAdminInvitationsService, LocalPasswordResetService and             *)
(* issueForIdentity                                                        *)

(* The first invitation creates profile, identity and link together; of    *)
(* two at once the unique e-mail lets one through.                         *)
Invite(t) ==
  /\ account = "absent"
  /\ FreshLink(t)
  /\ account' = "pending"
  /\ link' = [link EXCEPT ![t] = [status |-> "open", purpose |-> "INVITATION"]]
  /\ UNCHANGED <<generation, session, expired, req, parent>>

Eligible(purpose) ==
  account = IF purpose = "INVITATION" THEN "pending" ELSE "confirmed"

BeginIssue(p, purpose, t) ==
  /\ Eligible(purpose)
  /\ FreshLink(t)
  /\ Start(p, [Idle EXCEPT !.pc = "issue", !.link = t, !.purpose = purpose])
  /\ UNCHANGED <<tables, expired, parent>>

OpenLinks(purpose) ==
  {t \in Link : link[t].status = "open" /\ link[t].purpose = purpose}

(* Mutant: reissuance is not serialised by the identity lock.              *)
IssueWithoutLock(p) ==
  /\ At(p, "issue")
  /\ IF Eligible(req[p].purpose)
     THEN req' = [req EXCEPT ![p].pc = "issuing",
                             ![p].targets = OpenLinks(req[p].purpose)]
     ELSE Finish(p)
  /\ UNCHANGED <<tables, expired, parent>>

(* One transaction: with the identity locked, the open links of the        *)
(* purpose are used up ...                                                 *)
IssueLock(p) ==
  /\ At(p, "issue")
  /\ ~IdentityLocked
  /\ IF Eligible(req[p].purpose)
     THEN req' = [req EXCEPT ![p].pc = "issuing",
                             ![p].targets = OpenLinks(req[p].purpose)]
     ELSE Finish(p)
  /\ UNCHANGED <<tables, expired, parent>>

(* ... and the new one is created.  The mail that carries it may be lost.  *)
IssueEnd(p) ==
  LET r == req[p] IN
  /\ At(p, "issuing")
  /\ link' = [t \in Link |->
       IF t = r.link THEN [status |-> "open", purpose |-> r.purpose]
       ELSE IF t \in r.targets THEN [link[t] EXCEPT !.status = "used"]
       ELSE link[t]]
  /\ Finish(p)
  /\ UNCHANGED <<account, generation, session, expired, parent>>

-----------------------------------------------------------------------------
(* redeemWithPassword                                                      *)

BeginRedeem(p, t) ==
  /\ link[t].status # "none"
  /\ Start(p, [Idle EXCEPT !.pc = "redeem", !.link = t,
                           !.purpose = link[t].purpose])
  /\ UNCHANGED <<tables, expired, parent>>

(* Mutant: the link is not checked again under the lock.                   *)
RedeemUnchecked(p) ==
  /\ At(p, "redeem")
  /\ ~IdentityLocked
  /\ IF Eligible(req[p].purpose) THEN GoTo(p, "redeemLocked") ELSE Finish(p)
  /\ UNCHANGED <<tables, expired, parent>>

(* With the identity locked: the link must still be open and in time, the  *)
(* account still in the state the purpose asks for.                        *)
RedeemLock(p) ==
  LET t == req[p].link IN
  /\ At(p, "redeem")
  /\ ~IdentityLocked
  /\ IF link[t].status = "open" /\ t \notin expired /\ Eligible(req[p].purpose)
     THEN GoTo(p, "redeemLocked") ELSE Finish(p)
  /\ UNCHANGED <<tables, expired, parent>>

(* The UPDATE that revokes the sessions takes its snapshot ...             *)
RedeemScan(p) ==
  /\ At(p, "redeemLocked")
  /\ req' = [req EXCEPT ![p].pc = "redeeming", ![p].targets = Active]
  /\ UNCHANGED <<tables, expired, parent>>

(* ... waits for locked rows, and link, password and sessions commit.      *)
RedeemEnd(p) ==
  LET r == req[p] IN
  /\ At(p, "redeeming")
  /\ \A s \in r.targets : ~SessionLocked(s)
  /\ link' = [link EXCEPT ![r.link].status = "used"]
  /\ account' = "confirmed"
  /\ generation' = generation + 1
  /\ session' = Revoked(r.targets)
  /\ Finish(p)
  /\ UNCHANGED <<expired, parent>>

-----------------------------------------------------------------------------
(* ApiAuthService.login and signInWithPassword                             *)

(* The identity is read and the password compared with the hash it had.    *)
BeginLogin(p, s) ==
  /\ account = "confirmed"
  /\ FreshSession(s)
  /\ Start(p, [Idle EXCEPT !.pc = "login", !.fresh = s,
                           !.generation = generation])
  /\ UNCHANGED <<tables, expired, parent>>

(* Mutant: a password that was reset during the comparison is accepted.    *)
LoginUnchecked(p) ==
  /\ At(p, "login")
  /\ ~IdentityLocked
  /\ GoTo(p, "create")
  /\ UNCHANGED <<tables, expired, parent>>

(* The UPDATE of last_sign_in_at applies only to the hash that was read.   *)
LoginCheck(p) ==
  /\ At(p, "login")
  /\ ~IdentityLocked
  /\ IF generation = req[p].generation THEN GoTo(p, "create") ELSE Finish(p)
  /\ UNCHANGED <<tables, expired, parent>>

LoginCreate(p) ==
  /\ At(p, "create")
  /\ session' = [session EXCEPT ![req[p].fresh].status = "active"]
  /\ Finish(p)
  /\ UNCHANGED <<account, generation, link, expired, parent>>

-----------------------------------------------------------------------------
(* ApiAuthService.refresh and rotateRefreshSession                         *)

BeginRefresh(p, s, next) ==
  /\ Usable(s)
  /\ FreshSession(next)
  /\ Start(p, [Idle EXCEPT !.pc = "rotate", !.session = s, !.fresh = next])
  /\ UNCHANGED <<tables, expired, parent>>

(* A token that was already exchanged comes back: every session goes.      *)
BeginReuse(p, s) ==
  /\ account = "confirmed"
  /\ session[s].status = "revoked"
  /\ session[s].successor # None
  /\ Start(p, [Idle EXCEPT !.pc = "revoke", !.session = s])
  /\ UNCHANGED <<tables, expired, parent>>

(* Mutant: the session that was read before the lock is trusted.           *)
RotateUnchecked(p) ==
  /\ At(p, "rotate")
  /\ ~SessionLocked(req[p].session)
  /\ GoTo(p, "rotating")
  /\ UNCHANGED <<tables, expired, parent>>

RotateLock(p) ==
  /\ At(p, "rotate")
  /\ ~SessionLocked(req[p].session)
  /\ IF Usable(req[p].session) THEN GoTo(p, "rotating") ELSE Finish(p)
  /\ UNCHANGED <<tables, expired, parent>>

(* Mutant: the rotation also locks the identity, after the session.        *)
RotateEndLockingIdentity(p) ==
  LET s == req[p].session
      next == req[p].fresh IN
  /\ At(p, "rotating")
  /\ ~IdentityLocked
  /\ session' = [session EXCEPT
       ![s] = [status |-> "revoked", successor |-> next],
       ![next].status = "active"]
  /\ parent' = [parent EXCEPT ![next] = s]
  /\ Finish(p)
  /\ UNCHANGED <<account, generation, link, expired>>

(* Successor and consumption commit together.                              *)
RotateEnd(p) ==
  LET s == req[p].session
      next == req[p].fresh IN
  /\ At(p, "rotating")
  /\ s \notin expired
  /\ session' = [session EXCEPT
       ![s] = [status |-> "revoked", successor |-> next],
       ![next].status = "active"]
  /\ parent' = [parent EXCEPT ![next] = s]
  /\ Finish(p)
  /\ UNCHANGED <<account, generation, link, expired>>

(* The session expired since the lock: the transaction is rolled back.     *)
RotateRollback(p) ==
  /\ At(p, "rotating")
  /\ req[p].session \in expired
  /\ Finish(p)
  /\ UNCHANGED <<tables, expired, parent>>

RevokeScan(p) ==
  /\ At(p, "revoke")
  /\ req' = [req EXCEPT ![p].pc = "revoking", ![p].targets = Active]
  /\ UNCHANGED <<tables, expired, parent>>

RevokeEnd(p) ==
  /\ At(p, "revoking")
  /\ \A s \in req[p].targets : ~SessionLocked(s)
  /\ session' = Revoked(req[p].targets)
  /\ Finish(p)
  /\ UNCHANGED <<account, generation, link, expired, parent>>

-----------------------------------------------------------------------------
(* ApiAuthService.logout: the session is found active, then revoked by id. *)

BeginLogout(p, s) ==
  /\ Usable(s)
  /\ Start(p, [Idle EXCEPT !.pc = "logout", !.session = s])
  /\ UNCHANGED <<tables, expired, parent>>

LogoutEnd(p) ==
  LET s == req[p].session IN
  /\ At(p, "logout")
  /\ ~SessionLocked(s)
  /\ session' = [session EXCEPT
                   ![s] = [status |-> "revoked", successor |-> None]]
  /\ Finish(p)
  /\ UNCHANGED <<account, generation, link, expired, parent>>

-----------------------------------------------------------------------------
(* The environment                                                         *)

Expire(x) ==
  /\ x \in {s \in Session : session[s].status # "none"}
             \cup {t \in Link : link[t].status # "none"}
  /\ x \in Expiring \ expired
  /\ expired' = expired \cup {x}
  /\ UNCHANGED <<tables, req, parent>>

(* A request dies: its transaction rolls back.                             *)
Crash(p) ==
  /\ ~At(p, "idle")
  /\ Finish(p)
  /\ UNCHANGED <<tables, expired, parent>>

Begin(p) ==
  \/ \E purpose \in Purpose, t \in Link : BeginIssue(p, purpose, t)
  \/ \E t \in Link : BeginRedeem(p, t)
  \/ \E s \in Session : BeginLogin(p, s) \/ BeginReuse(p, s) \/ BeginLogout(p, s)
  \/ \E s, next \in Session : BeginRefresh(p, s, next)

Continue(p) ==
  \/ IssueLock(p) \/ IssueEnd(p)
  \/ RedeemLock(p) \/ RedeemScan(p) \/ RedeemEnd(p)
  \/ LoginCheck(p) \/ LoginCreate(p)
  \/ RotateLock(p) \/ RotateEnd(p) \/ RotateRollback(p)
  \/ RevokeScan(p) \/ RevokeEnd(p)
  \/ LogoutEnd(p)

Next ==
  \/ \E t \in Link : Invite(t)
  \/ \E p \in Request : Begin(p) \/ Continue(p) \/ Crash(p)
  \/ \E x \in Session \cup Link : Expire(x)

Spec == Init /\ [][Next]_vars

(* A request that was started goes on, and PostgreSQL queues its lock      *)
(* waiters: strong fairness, since a lock may be free only now and then.   *)
FairSpec == Spec /\ \A p \in Request : SF_vars(Continue(p))

-----------------------------------------------------------------------------
(* Properties                                                              *)

(* However many requests present the same refresh token, it is exchanged   *)
(* for one session: the losers of the row lock see that it was consumed.   *)
SingleSuccessor ==
  \A s, t \in Session : parent[s] # None /\ parent[s] = parent[t] => s = t

(* Of each purpose one link at most can be redeemed, the newest, however   *)
(* issuances and redemptions overlap.                                      *)
OneOpenLink ==
  \A t, u \in Link :
    /\ link[t].status = "open" /\ link[u].status = "open"
    /\ link[t].purpose = link[u].purpose
    => t = u

(* The password changes only by a link that is open at that moment: a link *)
(* that was used or replaced while its redemption waited does nothing.     *)
OpenLinkSetsPassword ==
  [][generation' # generation =>
       \E t \in Link : link[t].status = "open" /\ link'[t].status = "used"]_vars

(* A login passes its check only with the current password, although the   *)
(* comparison ran against a hash that was read earlier.                    *)
CurrentPasswordLogsIn ==
  [][\A p \in Request :
       At(p, "login") /\ req'[p].pc = "create"
         => req[p].generation = generation]_vars

(* No request waits for ever on the identity lock or on a session lock.    *)
RequestsFinish ==
  \A p \in Request : ~At(p, "idle") ~> At(p, "idle")

(* The revocation of all sessions, by a new password or by the replay of a  *)
(* token, also ends what a session it revokes was exchanged for meanwhile. *)
RevocationReachesSuccessors ==
  [][\A p \in Request :
       RedeemEnd(p) \/ RevokeEnd(p) =>
         \A s \in Session : session'[s].status = "active"
                             => parent[s] \notin req[p].targets]_vars

(* A token that was exchanged is recognised when it is replayed: its       *)
(* session keeps the reference to its successor.                           *)
RotatedTokensRecognised ==
  \A s \in Session : parent[s] # None => session[parent[s]].successor = s
=============================================================================
