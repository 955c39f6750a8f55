-------------------------- MODULE AuthSessions_proofs --------------------------
(***************************************************************************)
(* Proofs about AuthSessions, for every set of requests, sessions and      *)
(* links.  IInv adds to the properties what the row locks protect while a  *)
(* request holds them, and that requests do not share the ids they made.   *)
(***************************************************************************)
EXTENDS AuthSessions, TLAPS

IdentityPc == {"issuing", "redeemLocked", "redeeming"}
FreshPc == {"login", "create", "rotate", "rotating"}

(* A session that was rotated is revoked; its successor exists.            *)
ParentInv ==
  \A s \in Session : parent[s] # None =>
    session[s].status # "none" /\ session[parent[s]].status = "revoked"

(* Before the first invitation there are no links.                         *)
AbsentInv == account = "absent" => \A t \in Link : link[t].status = "none"

(* A request that will create a session has an id that is not in use; the  *)
(* session it locked for rotation stays active.                            *)
SessionInv(p) ==
  /\ req[p].pc \in FreshPc =>
       req[p].fresh \in Session /\ session[req[p].fresh].status = "none"
  /\ req[p].pc \in {"rotate", "rotating", "logout"} =>
       /\ req[p].session \in Session
       /\ session[req[p].session].status # "none"
  /\ req[p].pc = "rotating" => session[req[p].session].status = "active"

(* Likewise for links; with the identity locked the set of open links does *)
(* not change, nor does a link that passed its check.                      *)
LinkInv(p) ==
  /\ req[p].pc \in {"issue", "issuing"} =>
       req[p].link \in Link /\ link[req[p].link].status = "none"
  /\ req[p].pc = "issuing" =>
       account # "absent" /\ req[p].targets = OpenLinks(req[p].purpose)
  /\ req[p].pc \in {"redeem", "redeemLocked", "redeeming"} =>
       req[p].link \in Link /\ link[req[p].link].status # "none"
  /\ req[p].pc \in {"redeemLocked", "redeeming"} =>
       link[req[p].link].status = "open"

(* What two requests may not do at the same time.                          *)
PairInv(p, q) ==
  /\ req[p].fresh # None => req[q].fresh # req[p].fresh
  /\ req[p].pc \in {"issue", "issuing"} => req[q].link # req[p].link
  /\ ~(req[p].pc \in IdentityPc /\ req[q].pc \in IdentityPc)
  /\ ~(/\ req[p].pc = "rotating" /\ req[q].pc = "rotating"
       /\ req[p].session = req[q].session)

IInv ==
  /\ TypeOK
  /\ ParentInv
  /\ AbsentInv
  /\ SingleSuccessor
  /\ OneOpenLink
  /\ \A p \in Request : SessionInv(p) /\ LinkInv(p)
  /\ \A p, q \in Request : p # q => PairInv(p, q)

-----------------------------------------------------------------------------

LEMMA InitIInv == Init => IInv
<1> SUFFICES ASSUME Init PROVE IInv
  OBVIOUS
<1> USE DEF Init, Idle
<1>1. TypeOK
  BY DEF TypeOK, RequestState, Pc, Purpose
<1>2. ParentInv /\ AbsentInv /\ SingleSuccessor /\ OneOpenLink
  BY DEF ParentInv, AbsentInv, SingleSuccessor, OneOpenLink
<1>3. ASSUME NEW p \in Request PROVE SessionInv(p) /\ LinkInv(p)
  BY DEF SessionInv, LinkInv, FreshPc
<1>4. ASSUME NEW p \in Request, NEW q \in Request PROVE PairInv(p, q)
  BY DEF PairInv, IdentityPc
<1>. QED
  BY <1>1, <1>2, <1>3, <1>4 DEF IInv

-----------------------------------------------------------------------------
(* What a step that moves request p leaves alone.                          *)

OthersStay(p) == \A q \in Request \ {p} : req'[q] = req[q]

(* A request that moves on, perhaps with rows it chose, is well typed.     *)
LEMMA MovedTyped ==
  ASSUME TypeOK, NEW p \in Request, NEW pc \in Pc,
         NEW S \in SUBSET (Session \cup Link)
  PROVE  /\ req[p] \in RequestState
         /\ [req[p] EXCEPT !.pc = pc] \in RequestState
         /\ [req[p] EXCEPT !.pc = pc, !.targets = S] \in RequestState
<1>1. req[p] \in RequestState
  BY DEF TypeOK
<1>2. [req[p] EXCEPT !.pc = pc] \in RequestState
  BY <1>1 DEF RequestState
<1>3. [req[p] EXCEPT !.pc = pc, !.targets = S] \in RequestState
  BY <1>1 DEF RequestState
<1> QED
  BY <1>1, <1>2, <1>3

LEMMA GoToFacts ==
  ASSUME TypeOK, NEW p \in Request, NEW pc \in Pc, GoTo(p, pc)
  PROVE  /\ req' \in [Request -> RequestState]
         /\ req'[p] = [req[p] EXCEPT !.pc = pc]
         /\ OthersStay(p)
<1> DEFINE moved == [req[p] EXCEPT !.pc = pc]
<1>1. req \in [Request -> RequestState] /\ req' = [req EXCEPT ![p] = moved]
  BY DEF TypeOK, GoTo
<1>2. moved \in RequestState
  BY MovedTyped
<1> HIDE DEF moved
<1>3. req' \in [Request -> RequestState] /\ req'[p] = moved /\ OthersStay(p)
  BY <1>1, <1>2 DEF OthersStay
<1> QED
  BY <1>3 DEF moved

LEMMA FinishFacts ==
  ASSUME TypeOK, NEW p \in Request, Finish(p)
  PROVE  /\ req' \in [Request -> RequestState]
         /\ req'[p] = Idle
         /\ OthersStay(p)
  BY DEF TypeOK, Finish, Idle, RequestState, Pc, Purpose, OthersStay

LEMMA StartFacts ==
  ASSUME TypeOK, NEW p \in Request, NEW r \in RequestState, Start(p, r)
  PROVE  /\ req' \in [Request -> RequestState]
         /\ req'[p] = r
         /\ OthersStay(p)
  BY DEF TypeOK, Start, OthersStay

(* A step that changes nothing but its request has to say of that request  *)
(* alone, and of its pairs, why the invariant still holds.                 *)
LEMMA RequestStep ==
  ASSUME IInv, NEW p \in Request,
         req' \in [Request -> RequestState], OthersStay(p),
         UNCHANGED <<tables, expired, parent>>,
         SessionInv(p)', LinkInv(p)',
         \A q \in Request \ {p} : PairInv(p, q)' /\ PairInv(q, p)'
  PROVE  IInv'
<1>1. UNCHANGED <<account, generation, session, link, expired, parent>>
  BY DEF tables
<1>2. TypeOK'
  BY <1>1 DEF IInv, TypeOK
<1>3. ParentInv' /\ AbsentInv' /\ SingleSuccessor' /\ OneOpenLink'
  BY <1>1 DEF IInv, ParentInv, AbsentInv, SingleSuccessor, OneOpenLink
<1>4. ASSUME NEW q \in Request \ {p} PROVE SessionInv(q)' /\ LinkInv(q)'
  <2>1. req'[q] = req[q]
    BY DEF OthersStay
  <2>. QED
    BY <1>1, <2>1 DEF IInv, SessionInv, LinkInv, OpenLinks
<1>5. ASSUME NEW q \in Request \ {p}, NEW u \in Request \ {p}, q # u
      PROVE  PairInv(q, u)'
  <2>1. req'[q] = req[q] /\ req'[u] = req[u]
    BY DEF OthersStay
  <2>. QED
    BY <2>1, <1>5 DEF IInv, PairInv
<1>. QED
  BY <1>2, <1>3, <1>4, <1>5 DEF IInv

(* A step that ends its request has to say why the tables, and what the    *)
(* others know of them, are still right.                                   *)
LEMMA FinishStep ==
  ASSUME IInv, NEW p \in Request, Finish(p),
         TypeOK', ParentInv', AbsentInv', SingleSuccessor', OneOpenLink',
         \A q \in Request \ {p} : SessionInv(q)' /\ LinkInv(q)'
  PROVE  IInv'
<1>1. req'[p] = Idle /\ OthersStay(p)
  BY FinishFacts DEF IInv
<1>2. SessionInv(p)' /\ LinkInv(p)'
  BY <1>1 DEF SessionInv, LinkInv, Idle, FreshPc
<1>3. ASSUME NEW q \in Request, NEW u \in Request, q # u
      PROVE  PairInv(q, u)'
  <2>1. CASE q = p
    BY <2>1, <1>1 DEF PairInv, Idle, IdentityPc
  <2>2. CASE u = p
    <3>1. req'[q] = req[q] /\ req'[u] = Idle
      BY <2>2, <1>1, <1>3 DEF OthersStay
    <3>2. req'[q].pc \in {"issue", "issuing"} => req'[q].link # None
      BY <3>1, NoneAssumption DEF IInv, LinkInv
    <3>. QED
      BY <3>1, <3>2 DEF PairInv, Idle, IdentityPc
  <2>3. CASE q # p /\ u # p
    <3>1. req'[q] = req[q] /\ req'[u] = req[u]
      BY <2>3, <1>1 DEF OthersStay
    <3>. QED
      BY <3>1, <1>3 DEF IInv, PairInv
  <2>. QED
    BY <2>1, <2>2, <2>3
<1>. QED
  BY <1>2, <1>3 DEF IInv

LEMMA QuietStep ==
  ASSUME IInv, NEW p \in Request, Finish(p),
         UNCHANGED <<tables, expired, parent>>
  PROVE  IInv'
<1>1. req' \in [Request -> RequestState] /\ OthersStay(p)
  BY FinishFacts DEF IInv
<1>2. UNCHANGED <<account, generation, session, link, expired, parent>>
  BY DEF tables
<1>3. TypeOK' /\ ParentInv' /\ AbsentInv' /\ SingleSuccessor' /\ OneOpenLink'
  BY <1>1, <1>2
     DEF IInv, TypeOK, ParentInv, AbsentInv, SingleSuccessor, OneOpenLink
<1>4. ASSUME NEW q \in Request \ {p} PROVE SessionInv(q)' /\ LinkInv(q)'
  <2>1. req'[q] = req[q]
    BY <1>1 DEF OthersStay
  <2>. QED
    BY <1>2, <2>1 DEF IInv, SessionInv, LinkInv, OpenLinks
<1>. QED
  BY <1>3, <1>4, FinishStep

-----------------------------------------------------------------------------
(* Steps that begin a request.                                             *)

(* A request that begins without an id of its own disturbs nobody.         *)
LEMMA BeginStep ==
  ASSUME IInv, NEW p \in Request, NEW r \in RequestState, Start(p, r),
         UNCHANGED <<tables, expired, parent>>,
         r.fresh # None => FreshSession(r.fresh),
         r.pc = "issue" => FreshLink(r.link),
         \A q \in Request \ {p} :
           req[q].pc \in {"issue", "issuing"} => req[q].link # r.link,
         r.pc \notin IdentityPc \cup {"rotating", "issuing"},
         SessionInv(p)', LinkInv(p)'
  PROVE  IInv'
<1>1. req' \in [Request -> RequestState] /\ req'[p] = r /\ OthersStay(p)
  BY StartFacts DEF IInv
<1>2. ASSUME NEW q \in Request \ {p} PROVE PairInv(p, q)' /\ PairInv(q, p)'
  <2>1. req'[q] = req[q]
    BY <1>1 DEF OthersStay
  <2>2. r.fresh # None => req[q].fresh # r.fresh
    BY DEF FreshSession
  <2>3. r.pc = "issue" => req[q].link # r.link
    BY DEF FreshLink
  <2>. QED
    BY <1>1, <2>1, <2>2, <2>3 DEF PairInv
<1>. QED
  BY <1>1, <1>2, RequestStep

LEMMA BeginIssueStep ==
  ASSUME IInv, NEW p \in Request, NEW purpose \in Purpose, NEW t \in Link,
         BeginIssue(p, purpose, t)
  PROVE  IInv'
<1> DEFINE r == [Idle EXCEPT !.pc = "issue", !.link = t, !.purpose = purpose]
<1>1. r \in RequestState
  BY DEF RequestState, Idle, Pc, Purpose
<1>2. /\ r.pc = "issue" /\ r.link = t /\ r.fresh = None
  BY DEF Idle
<1>3. /\ Start(p, r) /\ FreshLink(t)
      /\ UNCHANGED <<tables, expired, parent>>
      /\ UNCHANGED <<session, link, account>>
  BY DEF BeginIssue, tables
<1>4. req'[p] = r
  BY <1>1, <1>3, StartFacts DEF IInv
<1> HIDE DEF r
<1>5. SessionInv(p)' /\ LinkInv(p)'
  BY <1>2, <1>3, <1>4 DEF SessionInv, LinkInv, FreshPc, FreshLink
<1>6. \A q \in Request \ {p} :
        req[q].pc \in {"issue", "issuing"} => req[q].link # r.link
  BY <1>2, <1>3 DEF FreshLink
<1>. QED
  BY <1>1, <1>2, <1>3, <1>5, <1>6, BeginStep DEF IdentityPc

LEMMA BeginRedeemStep ==
  ASSUME IInv, NEW p \in Request, NEW t \in Link,
         BeginRedeem(p, t)
  PROVE  IInv'
<1> DEFINE r == [Idle EXCEPT !.pc = "redeem", !.link = t,
                             !.purpose = link[t].purpose]
<1>1. r \in RequestState
  BY DEF RequestState, Idle, Pc, Purpose, BeginRedeem, IInv, TypeOK
<1>2. r.pc = "redeem" /\ r.link = t /\ r.fresh = None /\ r.session = None
  BY DEF Idle
<1>3. /\ Start(p, r)
      /\ UNCHANGED <<tables, expired, parent>>
      /\ UNCHANGED <<session, link, account>>
  BY DEF BeginRedeem, tables
<1>4. req'[p] = r
  BY <1>1, <1>3, StartFacts DEF IInv
<1> HIDE DEF r
<1>5. SessionInv(p)' /\ LinkInv(p)'
  BY <1>2, <1>3, <1>4
     DEF BeginRedeem, SessionInv, LinkInv, FreshPc
<1>6. \A q \in Request \ {p} :
        req[q].pc \in {"issue", "issuing"} => req[q].link # r.link
  BY <1>2, NoneAssumption DEF BeginRedeem, IInv, LinkInv
<1>7. r.fresh # None => FreshSession(r.fresh)
  BY <1>2 DEF BeginRedeem
<1>. QED
  BY <1>1, <1>2, <1>3, <1>5, <1>6, <1>7, BeginStep DEF IdentityPc

LEMMA BeginLoginStep ==
  ASSUME IInv, NEW p \in Request, NEW s \in Session,
         BeginLogin(p, s)
  PROVE  IInv'
<1> DEFINE r == [Idle EXCEPT !.pc = "login", !.fresh = s,
                             !.generation = generation]
<1>1. r \in RequestState
  BY DEF RequestState, Idle, Pc, Purpose, BeginLogin, IInv, TypeOK
<1>2. r.pc = "login" /\ r.link = None /\ r.fresh = s /\ r.session = None
  BY DEF Idle
<1>3. /\ Start(p, r)
      /\ UNCHANGED <<tables, expired, parent>>
      /\ UNCHANGED <<session, link, account>>
  BY DEF BeginLogin, tables
<1>4. req'[p] = r
  BY <1>1, <1>3, StartFacts DEF IInv
<1> HIDE DEF r
<1>5. SessionInv(p)' /\ LinkInv(p)'
  BY <1>2, <1>3, <1>4
     DEF BeginLogin, SessionInv, LinkInv, FreshPc, FreshSession
<1>6. \A q \in Request \ {p} :
        req[q].pc \in {"issue", "issuing"} => req[q].link # r.link
  BY <1>2, NoneAssumption DEF BeginLogin, IInv, LinkInv
<1>7. r.fresh # None => FreshSession(r.fresh)
  BY <1>2 DEF BeginLogin
<1>. QED
  BY <1>1, <1>2, <1>3, <1>5, <1>6, <1>7, BeginStep DEF IdentityPc

LEMMA BeginRefreshStep ==
  ASSUME IInv, NEW p \in Request, NEW s \in Session, NEW next \in Session,
         BeginRefresh(p, s, next)
  PROVE  IInv'
<1> DEFINE r == [Idle EXCEPT !.pc = "rotate", !.session = s, !.fresh = next]
<1>1. r \in RequestState
  BY DEF RequestState, Idle, Pc, Purpose, BeginRefresh, IInv, TypeOK
<1>2. r.pc = "rotate" /\ r.link = None /\ r.fresh = next /\ r.session = s
  BY DEF Idle
<1>3. /\ Start(p, r)
      /\ UNCHANGED <<tables, expired, parent>>
      /\ UNCHANGED <<session, link, account>>
  BY DEF BeginRefresh, tables
<1>4. req'[p] = r
  BY <1>1, <1>3, StartFacts DEF IInv
<1> HIDE DEF r
<1>5. SessionInv(p)' /\ LinkInv(p)'
  BY <1>2, <1>3, <1>4
     DEF BeginRefresh, SessionInv, LinkInv, FreshPc, FreshSession,
         Usable, Active
<1>6. \A q \in Request \ {p} :
        req[q].pc \in {"issue", "issuing"} => req[q].link # r.link
  BY <1>2, NoneAssumption DEF BeginRefresh, IInv, LinkInv
<1>7. r.fresh # None => FreshSession(r.fresh)
  BY <1>2 DEF BeginRefresh
<1>. QED
  BY <1>1, <1>2, <1>3, <1>5, <1>6, <1>7, BeginStep DEF IdentityPc

LEMMA BeginReuseStep ==
  ASSUME IInv, NEW p \in Request, NEW s \in Session,
         BeginReuse(p, s)
  PROVE  IInv'
<1> DEFINE r == [Idle EXCEPT !.pc = "revoke", !.session = s]
<1>1. r \in RequestState
  BY DEF RequestState, Idle, Pc, Purpose, BeginReuse, IInv, TypeOK
<1>2. r.pc = "revoke" /\ r.link = None /\ r.fresh = None /\ r.session = s
  BY DEF Idle
<1>3. /\ Start(p, r)
      /\ UNCHANGED <<tables, expired, parent>>
      /\ UNCHANGED <<session, link, account>>
  BY DEF BeginReuse, tables
<1>4. req'[p] = r
  BY <1>1, <1>3, StartFacts DEF IInv
<1> HIDE DEF r
<1>5. SessionInv(p)' /\ LinkInv(p)'
  BY <1>2, <1>3, <1>4
     DEF BeginReuse, SessionInv, LinkInv, FreshPc
<1>6. \A q \in Request \ {p} :
        req[q].pc \in {"issue", "issuing"} => req[q].link # r.link
  BY <1>2, NoneAssumption DEF BeginReuse, IInv, LinkInv
<1>7. r.fresh # None => FreshSession(r.fresh)
  BY <1>2 DEF BeginReuse
<1>. QED
  BY <1>1, <1>2, <1>3, <1>5, <1>6, <1>7, BeginStep DEF IdentityPc

LEMMA BeginLogoutStep ==
  ASSUME IInv, NEW p \in Request, NEW s \in Session,
         BeginLogout(p, s)
  PROVE  IInv'
<1> DEFINE r == [Idle EXCEPT !.pc = "logout", !.session = s]
<1>1. r \in RequestState
  BY DEF RequestState, Idle, Pc, Purpose, BeginLogout, IInv, TypeOK
<1>2. r.pc = "logout" /\ r.link = None /\ r.fresh = None /\ r.session = s
  BY DEF Idle
<1>3. /\ Start(p, r)
      /\ UNCHANGED <<tables, expired, parent>>
      /\ UNCHANGED <<session, link, account>>
  BY DEF BeginLogout, tables
<1>4. req'[p] = r
  BY <1>1, <1>3, StartFacts DEF IInv
<1> HIDE DEF r
<1>5. SessionInv(p)' /\ LinkInv(p)'
  BY <1>2, <1>3, <1>4
     DEF BeginLogout, SessionInv, LinkInv, FreshPc, Usable, Active
<1>6. \A q \in Request \ {p} :
        req[q].pc \in {"issue", "issuing"} => req[q].link # r.link
  BY <1>2, NoneAssumption DEF BeginLogout, IInv, LinkInv
<1>7. r.fresh # None => FreshSession(r.fresh)
  BY <1>2 DEF BeginLogout
<1>. QED
  BY <1>1, <1>2, <1>3, <1>5, <1>6, <1>7, BeginStep DEF IdentityPc

-----------------------------------------------------------------------------
(* Steps on the way, which read the tables and take locks.                 *)

LEMMA AdvanceStep ==
  ASSUME IInv, NEW p \in Request, NEW r \in RequestState,
         req' = [req EXCEPT ![p] = r],
         UNCHANGED <<tables, expired, parent>>,
         r.fresh = req[p].fresh, r.link = req[p].link,
         r.pc \in {"issue", "issuing"} => req[p].pc \in {"issue", "issuing"},
         r.pc \in IdentityPc => req[p].pc \in IdentityPc \/ ~IdentityLocked,
         r.pc = "rotating" => ~SessionLocked(r.session),
         SessionInv(p)', LinkInv(p)'
  PROVE  IInv'
<1>1. req' \in [Request -> RequestState] /\ req'[p] = r /\ OthersStay(p)
  BY DEF IInv, TypeOK, OthersStay
<1>2. ASSUME NEW q \in Request \ {p} PROVE PairInv(p, q)' /\ PairInv(q, p)'
  <2>1. req'[q] = req[q]
    BY <1>1 DEF OthersStay
  <2>2. PairInv(p, q) /\ PairInv(q, p)
    BY DEF IInv
  <2>3. r.pc \in IdentityPc => req[q].pc \notin IdentityPc
    BY <2>2 DEF PairInv, IdentityLocked, IdentityPc
  <2>4. r.pc = "rotating" =>
          ~(req[q].pc = "rotating" /\ req[q].session = r.session)
    BY DEF SessionLocked, At
  <2>. QED
    BY <1>1, <2>1, <2>2, <2>3, <2>4 DEF PairInv
<1>. QED
  BY <1>1, <1>2, RequestStep

LEMMA IssueLockStep ==
  ASSUME IInv, NEW p \in Request, IssueLock(p)
  PROVE  IInv'
<1> DEFINE r == [req[p] EXCEPT !.pc = "issuing",
                               !.targets = OpenLinks(req[p].purpose)]
<1>1. CASE ~(Eligible(req[p].purpose))
  BY <1>1, QuietStep DEF IssueLock
<1>2. CASE Eligible(req[p].purpose)
  <2>1. r \in RequestState
    <3>1. "issuing" \in Pc /\ OpenLinks(req[p].purpose) \in SUBSET (Session \cup Link)
      BY DEF Pc, OpenLinks
    <3> QED
      BY <3>1, MovedTyped DEF IInv
  <2>2. /\ r.pc = "issuing" /\ r.link = req[p].link /\ r.fresh = req[p].fresh
        /\ r.session = req[p].session /\ r.purpose = req[p].purpose
        /\ r.targets = OpenLinks(req[p].purpose)
    BY DEF IInv, TypeOK, RequestState
  <2>3. /\ req' = [req EXCEPT ![p] = r]
        /\ UNCHANGED <<tables, expired, parent>>
        /\ UNCHANGED <<session, link, account>>
    BY <1>2 DEF IssueLock, tables
  <2>4. req'[p] = r
    BY <2>3 DEF IInv, TypeOK
  <2> HIDE DEF r
  <2>5. SessionInv(p)' /\ LinkInv(p)'
    BY <1>2, <2>2, <2>3, <2>4
       DEF IssueLock, At, IInv, SessionInv, LinkInv, FreshPc, OpenLinks, Eligible,
           Purpose
  <2>. QED
    BY <2>1, <2>2, <2>3, <2>5, AdvanceStep
       DEF IssueLock, At, IdentityPc
<1>. QED
  BY <1>1, <1>2

LEMMA RedeemLockStep ==
  ASSUME IInv, NEW p \in Request, RedeemLock(p)
  PROVE  IInv'
<1> DEFINE r == [req[p] EXCEPT !.pc = "redeemLocked"]
<1>1. CASE ~(link[req[p].link].status = "open" /\ req[p].link \notin expired
            /\ Eligible(req[p].purpose))
  BY <1>1, QuietStep DEF RedeemLock
<1>2. CASE link[req[p].link].status = "open" /\ req[p].link \notin expired
            /\ Eligible(req[p].purpose)
  <2>1. r \in RequestState
    <3>1. "redeemLocked" \in Pc
      BY DEF Pc
    <3> QED
      BY <3>1, MovedTyped DEF IInv
  <2>2. /\ r.pc = "redeemLocked" /\ r.link = req[p].link /\ r.fresh = req[p].fresh
        /\ r.session = req[p].session /\ r.purpose = req[p].purpose
    BY DEF IInv, TypeOK, RequestState
  <2>3. /\ req' = [req EXCEPT ![p] = r]
        /\ UNCHANGED <<tables, expired, parent>>
        /\ UNCHANGED <<session, link, account>>
    BY <1>2 DEF RedeemLock, tables, GoTo
  <2>4. req'[p] = r
    BY <2>3 DEF IInv, TypeOK
  <2> HIDE DEF r
  <2>5. SessionInv(p)' /\ LinkInv(p)'
    BY <1>2, <2>2, <2>3, <2>4
       DEF RedeemLock, At, IInv, SessionInv, LinkInv, FreshPc
  <2>. QED
    BY <2>1, <2>2, <2>3, <2>5, AdvanceStep
       DEF RedeemLock, At, IdentityPc
<1>. QED
  BY <1>1, <1>2

LEMMA RedeemScanStep ==
  ASSUME IInv, NEW p \in Request, RedeemScan(p)
  PROVE  IInv'
<1> DEFINE r == [req[p] EXCEPT !.pc = "redeeming", !.targets = Active]
<1>1. r \in RequestState
  <2>1. "redeeming" \in Pc /\ Active \in SUBSET (Session \cup Link)
    BY DEF Pc, Active
  <2> QED
    BY <2>1, MovedTyped DEF IInv
<1>2. /\ r.pc = "redeeming" /\ r.link = req[p].link /\ r.fresh = req[p].fresh
      /\ r.session = req[p].session /\ r.purpose = req[p].purpose
      /\ r.targets = Active
  BY DEF IInv, TypeOK, RequestState
<1>3. /\ req' = [req EXCEPT ![p] = r]
      /\ UNCHANGED <<tables, expired, parent>>
      /\ UNCHANGED <<session, link, account>>
  BY DEF RedeemScan, tables
<1>4. req'[p] = r
  BY <1>3 DEF IInv, TypeOK
<1> HIDE DEF r
<1>5. SessionInv(p)' /\ LinkInv(p)'
  BY <1>2, <1>3, <1>4
     DEF RedeemScan, At, IInv, SessionInv, LinkInv, FreshPc
<1>. QED
  BY <1>1, <1>2, <1>3, <1>5, AdvanceStep
     DEF RedeemScan, At, IdentityPc

LEMMA LoginCheckStep ==
  ASSUME IInv, NEW p \in Request, LoginCheck(p)
  PROVE  IInv'
<1> DEFINE r == [req[p] EXCEPT !.pc = "create"]
<1>1. CASE ~(generation = req[p].generation)
  BY <1>1, QuietStep DEF LoginCheck
<1>2. CASE generation = req[p].generation
  <2>1. r \in RequestState
    <3>1. "create" \in Pc
      BY DEF Pc
    <3> QED
      BY <3>1, MovedTyped DEF IInv
  <2>2. /\ r.pc = "create" /\ r.link = req[p].link /\ r.fresh = req[p].fresh
        /\ r.session = req[p].session /\ r.purpose = req[p].purpose
    BY DEF IInv, TypeOK, RequestState
  <2>3. /\ req' = [req EXCEPT ![p] = r]
        /\ UNCHANGED <<tables, expired, parent>>
        /\ UNCHANGED <<session, link, account>>
    BY <1>2 DEF LoginCheck, tables, GoTo
  <2>4. req'[p] = r
    BY <2>3 DEF IInv, TypeOK
  <2> HIDE DEF r
  <2>5. SessionInv(p)' /\ LinkInv(p)'
    BY <1>2, <2>2, <2>3, <2>4
       DEF LoginCheck, At, IInv, SessionInv, LinkInv, FreshPc
  <2>. QED
    BY <2>1, <2>2, <2>3, <2>5, AdvanceStep
       DEF LoginCheck, At, IdentityPc
<1>. QED
  BY <1>1, <1>2

LEMMA RotateLockStep ==
  ASSUME IInv, NEW p \in Request, RotateLock(p)
  PROVE  IInv'
<1> DEFINE r == [req[p] EXCEPT !.pc = "rotating"]
<1>1. CASE ~(Usable(req[p].session))
  BY <1>1, QuietStep DEF RotateLock
<1>2. CASE Usable(req[p].session)
  <2>1. r \in RequestState
    <3>1. "rotating" \in Pc
      BY DEF Pc
    <3> QED
      BY <3>1, MovedTyped DEF IInv
  <2>2. /\ r.pc = "rotating" /\ r.link = req[p].link /\ r.fresh = req[p].fresh
        /\ r.session = req[p].session /\ r.purpose = req[p].purpose
    BY DEF IInv, TypeOK, RequestState
  <2>3. /\ req' = [req EXCEPT ![p] = r]
        /\ UNCHANGED <<tables, expired, parent>>
        /\ UNCHANGED <<session, link, account>>
    BY <1>2 DEF RotateLock, tables, GoTo
  <2>4. req'[p] = r
    BY <2>3 DEF IInv, TypeOK
  <2> HIDE DEF r
  <2>5. SessionInv(p)' /\ LinkInv(p)'
    BY <1>2, <2>2, <2>3, <2>4
       DEF RotateLock, At, IInv, SessionInv, LinkInv, FreshPc, Usable, Active
  <2>. QED
    BY <2>1, <2>2, <2>3, <2>5, AdvanceStep
       DEF RotateLock, At, IdentityPc
<1>. QED
  BY <1>1, <1>2

LEMMA RevokeScanStep ==
  ASSUME IInv, NEW p \in Request, RevokeScan(p)
  PROVE  IInv'
<1> DEFINE r == [req[p] EXCEPT !.pc = "revoking", !.targets = Active]
<1>1. r \in RequestState
  <2>1. "revoking" \in Pc /\ Active \in SUBSET (Session \cup Link)
    BY DEF Pc, Active
  <2> QED
    BY <2>1, MovedTyped DEF IInv
<1>2. /\ r.pc = "revoking" /\ r.link = req[p].link /\ r.fresh = req[p].fresh
      /\ r.session = req[p].session /\ r.purpose = req[p].purpose
      /\ r.targets = Active
  BY DEF IInv, TypeOK, RequestState
<1>3. /\ req' = [req EXCEPT ![p] = r]
      /\ UNCHANGED <<tables, expired, parent>>
      /\ UNCHANGED <<session, link, account>>
  BY DEF RevokeScan, tables
<1>4. req'[p] = r
  BY <1>3 DEF IInv, TypeOK
<1> HIDE DEF r
<1>5. SessionInv(p)' /\ LinkInv(p)'
  BY <1>2, <1>3, <1>4
     DEF RevokeScan, At, IInv, SessionInv, LinkInv, FreshPc
<1>. QED
  BY <1>1, <1>2, <1>3, <1>5, AdvanceStep
     DEF RevokeScan, At, IdentityPc

-----------------------------------------------------------------------------
(* Steps that commit to the tables.                                        *)

LEMMA InviteStep ==
  ASSUME IInv, NEW t \in Link, Invite(t)
  PROVE  IInv'
<1>1. /\ UNCHANGED <<generation, session, expired, req, parent>>
      /\ account = "absent" /\ account' = "pending"
      /\ link' = [link EXCEPT ![t] = [status |-> "open",
                                      purpose |-> "INVITATION"]]
      /\ \A u \in Link : link[u].status = "none"
  BY DEF Invite, IInv, AbsentInv
<1>2. TypeOK'
  BY <1>1 DEF IInv, TypeOK, Purpose
<1>3. /\ link'[t].status = "open"
      /\ \A u \in Link \ {t} : link'[u].status = "none"
  BY <1>1 DEF IInv, TypeOK
<1>4. ParentInv' /\ AbsentInv' /\ SingleSuccessor' /\ OneOpenLink'
  BY <1>1, <1>3 DEF IInv, ParentInv, AbsentInv, SingleSuccessor, OneOpenLink
<1>5. ASSUME NEW p \in Request PROVE SessionInv(p)' /\ LinkInv(p)'
  <2>1. req[p].link # t
    BY DEF Invite, FreshLink
  <2>. QED
    BY <1>1, <1>3, <2>1 DEF IInv, SessionInv, LinkInv
<1>6. \A p, q \in Request : p # q => PairInv(p, q)'
  BY <1>1 DEF IInv, PairInv
<1>. QED
  BY <1>2, <1>4, <1>5, <1>6 DEF IInv

LEMMA IssueEndStep ==
  ASSUME IInv, NEW p \in Request, IssueEnd(p)
  PROVE  IInv'
<1>1. /\ UNCHANGED <<account, generation, session, expired, parent>>
      /\ req[p].pc = "issuing" /\ Finish(p)
  BY DEF IssueEnd, At
<1>2. req' \in [Request -> RequestState] /\ OthersStay(p)
  BY <1>1, FinishFacts DEF IInv
<1>3. /\ req[p].link \in Link /\ link[req[p].link].status = "none"
      /\ account # "absent" /\ req[p].purpose \in Purpose
      /\ req[p].targets = OpenLinks(req[p].purpose)
  BY <1>1 DEF IInv, LinkInv, TypeOK, RequestState
<1>4. /\ link' \in [Link -> [status : {"none", "open", "used"},
                             purpose : Purpose]]
      /\ link'[req[p].link] = [status |-> "open", purpose |-> req[p].purpose]
      /\ \A t \in Link \ {req[p].link} :
           link'[t] = IF t \in req[p].targets
                      THEN [link[t] EXCEPT !.status = "used"] ELSE link[t]
  <2>1. \A t \in Link : link[t] \in [status : {"none", "open", "used"},
                                     purpose : Purpose]
    BY DEF IInv, TypeOK
  <2>. QED
    BY <1>3, <2>1 DEF IssueEnd
<1>5. \A t \in Link \ {req[p].link} :
        /\ link'[t].purpose = link[t].purpose
        /\ t \in OpenLinks(req[p].purpose) => link'[t].status = "used"
        /\ t \notin OpenLinks(req[p].purpose) =>
             link'[t].status = link[t].status
  BY <1>3, <1>4 DEF IInv, TypeOK
<1>6. TypeOK'
  BY <1>1, <1>2, <1>4 DEF IInv, TypeOK
<1>7. ParentInv' /\ AbsentInv' /\ SingleSuccessor'
  BY <1>1, <1>3 DEF IInv, ParentInv, AbsentInv, SingleSuccessor
<1>8. OneOpenLink'
  BY <1>3, <1>4, <1>5 DEF IInv, OneOpenLink, OpenLinks
<1>9. ASSUME NEW q \in Request \ {p} PROVE SessionInv(q)' /\ LinkInv(q)'
  <2>1. req'[q] = req[q]
    BY <1>2 DEF OthersStay
  <2>2. PairInv(p, q)
    BY DEF IInv
  <2>3. req[q].pc \notin IdentityPc /\ req[q].link # req[p].link
    BY <1>1, <2>2 DEF PairInv, IdentityPc
  <2>4. SessionInv(q)'
    BY <1>1, <2>1 DEF IInv, SessionInv
  <2>5. LinkInv(q)
    BY DEF IInv
  <2>6. req[q].link \in Link =>
          /\ link[req[q].link].status = "none" =>
               link'[req[q].link].status = "none"
          /\ link[req[q].link].status # "none" =>
               link'[req[q].link].status # "none"
    BY <1>5, <2>3 DEF OpenLinks
  <2>. QED
    BY <2>1, <2>3, <2>4, <2>5, <2>6 DEF LinkInv, IdentityPc
<1>. QED
  BY <1>1, <1>6, <1>7, <1>8, <1>9, FinishStep

(* Revocation changes the sessions it targets, if they are still active.   *)
LEMMA RevokedFacts ==
  ASSUME TypeOK, NEW targets
  PROVE  /\ Revoked(targets) \in [Session ->
              [status : {"none", "active", "revoked"},
               successor : Session \cup {None}]]
         /\ \A s \in Session :
              /\ Revoked(targets)[s].status = "none"
                   <=> session[s].status = "none"
              /\ session[s].status = "revoked" =>
                   Revoked(targets)[s].status = "revoked"
              /\ session[s].status = "active" /\ s \notin targets =>
                   Revoked(targets)[s].status = "active"
<1>1. \A s \in Session : session[s] \in [status : {"none", "active", "revoked"},
                                        successor : Session \cup {None}]
  BY DEF TypeOK
<1>. QED
  BY <1>1 DEF Revoked, Active

(* What the others know of sessions survives a revocation that waited for  *)
(* the rows it targets.                                                    *)
LEMMA RevokedInv ==
  ASSUME IInv, NEW p \in Request, NEW targets,
         \A s \in targets : ~SessionLocked(s),
         session' = Revoked(targets), UNCHANGED parent, OthersStay(p)
  PROVE  /\ ParentInv'
         /\ \A q \in Request \ {p} : SessionInv(q)'
<1>1. \A s \in Session :
        /\ session'[s].status = "none" <=> session[s].status = "none"
        /\ session[s].status = "revoked" => session'[s].status = "revoked"
        /\ session[s].status = "active" /\ s \notin targets =>
             session'[s].status = "active"
  BY RevokedFacts DEF IInv
<1>2. ParentInv'
  <2>1. \A s \in Session : parent[s] \in Session \cup {None}
    BY DEF IInv, TypeOK
  <2>. QED
    BY <1>1, <2>1 DEF IInv, ParentInv
<1>3. ASSUME NEW q \in Request \ {p} PROVE SessionInv(q)'
  <2>1. req'[q] = req[q] /\ SessionInv(q)
    BY DEF IInv, OthersStay
  <2>2. req[q].pc = "rotating" => req[q].session \notin targets
    BY DEF SessionLocked, At
  <2>. QED
    BY <1>1, <2>1, <2>2 DEF SessionInv
<1>. QED
  BY <1>2, <1>3

LEMMA RedeemEndStep ==
  ASSUME IInv, NEW p \in Request, RedeemEnd(p)
  PROVE  IInv'
<1>1. /\ UNCHANGED <<expired, parent>>
      /\ req[p].pc = "redeeming" /\ Finish(p)
      /\ \A s \in req[p].targets : ~SessionLocked(s)
      /\ link' = [link EXCEPT ![req[p].link].status = "used"]
      /\ account' = "confirmed"
      /\ generation' = generation + 1
      /\ session' = Revoked(req[p].targets)
  BY DEF RedeemEnd, At
<1>2. req' \in [Request -> RequestState] /\ OthersStay(p)
  BY <1>1, FinishFacts DEF IInv
<1>3. req[p].link \in Link /\ link[req[p].link].status = "open"
  BY <1>1 DEF IInv, LinkInv
<1>4. /\ link'[req[p].link].status = "used"
      /\ \A t \in Link \ {req[p].link} : link'[t] = link[t]
      /\ link' \in [Link -> [status : {"none", "open", "used"},
                             purpose : Purpose]]
  BY <1>1, <1>3 DEF IInv, TypeOK
<1>5. TypeOK'
  BY <1>1, <1>2, <1>4, RevokedFacts DEF IInv, TypeOK
<1>6. ParentInv' /\ \A q \in Request \ {p} : SessionInv(q)'
  BY <1>1, <1>2, RevokedInv
<1>7. AbsentInv' /\ SingleSuccessor'
  BY <1>1 DEF IInv, AbsentInv, SingleSuccessor
<1>8. OneOpenLink'
  BY <1>4 DEF IInv, OneOpenLink
<1>9. ASSUME NEW q \in Request \ {p} PROVE LinkInv(q)'
  <2>1. req'[q] = req[q] /\ LinkInv(q)
    BY <1>2 DEF IInv, OthersStay
  <2>2. PairInv(p, q)
    BY DEF IInv
  <2>3. req[q].pc \notin IdentityPc
    BY <1>1, <2>2 DEF PairInv, IdentityPc
  <2>. QED
    BY <1>3, <1>4, <2>1, <2>3 DEF LinkInv, IdentityPc
<1>. QED
  BY <1>1, <1>5, <1>6, <1>7, <1>8, <1>9, FinishStep

LEMMA RevokeEndStep ==
  ASSUME IInv, NEW p \in Request, RevokeEnd(p)
  PROVE  IInv'
<1>1. /\ UNCHANGED <<account, generation, link, expired, parent>>
      /\ Finish(p)
      /\ \A s \in req[p].targets : ~SessionLocked(s)
      /\ session' = Revoked(req[p].targets)
  BY DEF RevokeEnd
<1>2. req' \in [Request -> RequestState] /\ OthersStay(p)
  BY <1>1, FinishFacts DEF IInv
<1>3. TypeOK'
  BY <1>1, <1>2, RevokedFacts DEF IInv, TypeOK
<1>4. ParentInv' /\ \A q \in Request \ {p} : SessionInv(q)'
  BY <1>1, <1>2, RevokedInv
<1>5. AbsentInv' /\ SingleSuccessor' /\ OneOpenLink'
  BY <1>1 DEF IInv, AbsentInv, SingleSuccessor, OneOpenLink
<1>6. ASSUME NEW q \in Request \ {p} PROVE LinkInv(q)'
  <2>1. req'[q] = req[q]
    BY <1>2 DEF OthersStay
  <2>. QED
    BY <1>1, <2>1 DEF IInv, LinkInv, OpenLinks
<1>. QED
  BY <1>1, <1>3, <1>4, <1>5, <1>6, FinishStep

LEMMA LoginCreateStep ==
  ASSUME IInv, NEW p \in Request, LoginCreate(p)
  PROVE  IInv'
<1>1. /\ UNCHANGED <<account, generation, link, expired, parent>>
      /\ Finish(p) /\ req[p].pc = "create"
      /\ session' = [session EXCEPT ![req[p].fresh].status = "active"]
  BY DEF LoginCreate, At
<1>2. req' \in [Request -> RequestState] /\ OthersStay(p)
  BY <1>1, FinishFacts DEF IInv
<1>3. /\ req[p].fresh \in Session /\ session[req[p].fresh].status = "none"
      /\ req[p].fresh # None
  BY <1>1, NoneAssumption DEF IInv, SessionInv, FreshPc
<1>4. /\ session'[req[p].fresh].status = "active"
      /\ \A s \in Session \ {req[p].fresh} : session'[s] = session[s]
      /\ session' \in [Session -> [status : {"none", "active", "revoked"},
                                   successor : Session \cup {None}]]
  BY <1>1, <1>3 DEF IInv, TypeOK
<1>5. TypeOK'
  BY <1>1, <1>2, <1>4 DEF IInv, TypeOK
<1>6. ParentInv'
  BY <1>1, <1>3, <1>4 DEF IInv, ParentInv, TypeOK
<1>7. AbsentInv' /\ SingleSuccessor' /\ OneOpenLink'
  BY <1>1 DEF IInv, AbsentInv, SingleSuccessor, OneOpenLink
<1>8. ASSUME NEW q \in Request \ {p} PROVE SessionInv(q)' /\ LinkInv(q)'
  <2>1. req'[q] = req[q] /\ SessionInv(q) /\ LinkInv(q)
    BY <1>2 DEF IInv, OthersStay
  <2>2. PairInv(p, q)
    BY DEF IInv
  <2>3. req[q].fresh # req[p].fresh
    BY <1>3, <2>2 DEF PairInv
  <2>4. LinkInv(q)'
    BY <1>1, <2>1 DEF LinkInv, OpenLinks
  <2>. QED
    BY <1>3, <1>4, <2>1, <2>3, <2>4 DEF SessionInv
<1>. QED
  BY <1>1, <1>5, <1>6, <1>7, <1>8, FinishStep

LEMMA LogoutEndStep ==
  ASSUME IInv, NEW p \in Request, LogoutEnd(p)
  PROVE  IInv'
<1> DEFINE s == req[p].session
<1>1. /\ UNCHANGED <<account, generation, link, expired, parent>>
      /\ Finish(p) /\ req[p].pc = "logout" /\ ~SessionLocked(s)
      /\ session' = [session EXCEPT
                       ![s] = [status |-> "revoked", successor |-> None]]
  BY DEF LogoutEnd, At
<1>2. req' \in [Request -> RequestState] /\ OthersStay(p)
  BY <1>1, FinishFacts DEF IInv
<1>3. s \in Session /\ session[s].status # "none"
  BY <1>1 DEF IInv, SessionInv
<1> HIDE DEF s
<1>4. /\ session'[s].status = "revoked"
      /\ \A u \in Session \ {s} : session'[u] = session[u]
      /\ session' \in [Session -> [status : {"none", "active", "revoked"},
                                   successor : Session \cup {None}]]
  BY <1>1, <1>3 DEF IInv, TypeOK
<1>5. TypeOK'
  BY <1>1, <1>2, <1>4 DEF IInv, TypeOK
<1>6. ParentInv'
  BY <1>1, <1>3, <1>4 DEF IInv, ParentInv, TypeOK
<1>7. AbsentInv' /\ SingleSuccessor' /\ OneOpenLink'
  BY <1>1 DEF IInv, AbsentInv, SingleSuccessor, OneOpenLink
<1>8. ASSUME NEW q \in Request \ {p} PROVE SessionInv(q)' /\ LinkInv(q)'
  <2>1. req'[q] = req[q] /\ SessionInv(q) /\ LinkInv(q)
    BY <1>2 DEF IInv, OthersStay
  <2>2. req[q].pc = "rotating" => req[q].session # s
    BY <1>1 DEF SessionLocked, At
  <2>3. LinkInv(q)'
    BY <1>1, <2>1 DEF LinkInv, OpenLinks
  <2>. QED
    BY <1>3, <1>4, <2>1, <2>2, <2>3 DEF SessionInv
<1>. QED
  BY <1>1, <1>5, <1>6, <1>7, <1>8, FinishStep

(* The locked session is active, so it is nobody's parent yet.             *)
LEMMA RotateEndStep ==
  ASSUME IInv, NEW p \in Request, RotateEnd(p)
  PROVE  IInv'
<1> DEFINE s == req[p].session
<1> DEFINE next == req[p].fresh
<1>1. /\ UNCHANGED <<account, generation, link, expired>>
      /\ Finish(p) /\ req[p].pc = "rotating"
      /\ session' = [session EXCEPT
           ![s] = [status |-> "revoked", successor |-> next],
           ![next].status = "active"]
      /\ parent' = [parent EXCEPT ![next] = s]
  BY DEF RotateEnd, At
<1>2. req' \in [Request -> RequestState] /\ OthersStay(p)
  BY <1>1, FinishFacts DEF IInv
<1>3. /\ s \in Session /\ session[s].status = "active"
      /\ next \in Session /\ session[next].status = "none"
      /\ next # None /\ s # None
  BY <1>1, NoneAssumption DEF IInv, SessionInv, FreshPc
<1>4. \A q \in Request \ {p} :
        /\ req'[q] = req[q] /\ SessionInv(q) /\ LinkInv(q)
        /\ req[q].fresh # next
        /\ req[q].pc = "rotating" => req[q].session # s
  <2> SUFFICES ASSUME NEW q \in Request \ {p}
               PROVE  /\ req'[q] = req[q] /\ SessionInv(q) /\ LinkInv(q)
                      /\ req[q].fresh # next
                      /\ req[q].pc = "rotating" => req[q].session # s
    OBVIOUS
  <2>1. PairInv(p, q)
    BY DEF IInv
  <2>. QED
    BY <1>1, <1>2, <1>3, <2>1 DEF IInv, OthersStay, PairInv
<1> HIDE DEF s, next
<1>5. /\ session'[s].status = "revoked"
      /\ session'[next].status = "active"
      /\ \A u \in Session \ {s, next} : session'[u] = session[u]
      /\ session' \in [Session -> [status : {"none", "active", "revoked"},
                                   successor : Session \cup {None}]]
  BY <1>1, <1>3 DEF IInv, TypeOK
<1>6. /\ parent' \in [Session -> Session \cup {None}]
      /\ parent'[next] = s
      /\ \A u \in Session \ {next} : parent'[u] = parent[u]
  BY <1>1, <1>3 DEF IInv, TypeOK
<1>7. TypeOK'
  BY <1>1, <1>2, <1>5, <1>6 DEF IInv, TypeOK
<1>8. \A u \in Session : parent[u] # s /\ parent[u] # next
  BY <1>3 DEF IInv, ParentInv
<1>9. ParentInv'
  BY <1>3, <1>5, <1>6, <1>8 DEF IInv, ParentInv, TypeOK
<1>10. SingleSuccessor'
  BY <1>6, <1>8 DEF IInv, SingleSuccessor
<1>11. AbsentInv' /\ OneOpenLink'
  BY <1>1 DEF IInv, AbsentInv, OneOpenLink
<1>12. ASSUME NEW q \in Request \ {p} PROVE SessionInv(q)' /\ LinkInv(q)'
  <2>1. LinkInv(q)'
    BY <1>1, <1>4 DEF LinkInv, OpenLinks
  <2>. QED
    BY <1>3, <1>4, <1>5, <2>1 DEF SessionInv
<1>. QED
  BY <1>1, <1>7, <1>9, <1>10, <1>11, <1>12, FinishStep

LEMMA ExpireStep ==
  ASSUME IInv, NEW x, Expire(x)
  PROVE  IInv'
<1>1. /\ UNCHANGED <<account, generation, session, link, req, parent>>
      /\ expired' = expired \cup {x} /\ x \in Session \cup Link
  BY DEF Expire, tables
<1>. QED
  BY <1>1 DEF IInv, TypeOK, ParentInv, AbsentInv, SingleSuccessor, OneOpenLink,
              SessionInv, LinkInv, PairInv, OpenLinks

-----------------------------------------------------------------------------

LEMMA NextIInv == IInv /\ [Next]_vars => IInv'
<1> SUFFICES ASSUME IInv, [Next]_vars PROVE IInv'
  OBVIOUS
<1>1. ASSUME NEW p \in Request, Begin(p) PROVE IInv'
  BY <1>1, BeginIssueStep, BeginRedeemStep, BeginLoginStep, BeginReuseStep,
     BeginLogoutStep, BeginRefreshStep DEF Begin
<1>2. ASSUME NEW p \in Request, Continue(p) PROVE IInv'
  <2>1. CASE RotateRollback(p)
    BY <2>1, QuietStep DEF RotateRollback
  <2>. QED
    BY <1>2, <2>1, IssueLockStep, IssueEndStep, RedeemLockStep, RedeemScanStep,
       RedeemEndStep, LoginCheckStep, LoginCreateStep, RotateLockStep,
       RotateEndStep, RevokeScanStep, RevokeEndStep, LogoutEndStep DEF Continue
<1>3. ASSUME NEW p \in Request, Crash(p) PROVE IInv'
  BY <1>3, QuietStep DEF Crash
<1>4. CASE UNCHANGED vars
  <2>1. UNCHANGED <<account, generation, session, link, expired, req, parent>>
    BY <1>4 DEF vars
  <2>. QED
    BY <2>1 DEF IInv, TypeOK, ParentInv, AbsentInv, SingleSuccessor,
                OneOpenLink, SessionInv, LinkInv, PairInv, OpenLinks
<1>. QED
  BY <1>1, <1>2, <1>3, <1>4, InviteStep, ExpireStep DEF Next

LEMMA SpecIInv == Spec => []IInv
  BY InitIInv, NextIInv, PTL DEF Spec

(* Every reachable state is well typed.                                    *)
THEOREM TypeCorrect == Spec => []TypeOK
<1>1. IInv => TypeOK
  BY DEF IInv
<1>. QED
  BY <1>1, SpecIInv, PTL

(* A refresh token is exchanged for one session, however many requests     *)
(* present it while others revoke, log out or crash.                       *)
THEOREM TokensHaveOneSuccessor == Spec => []SingleSuccessor
<1>1. IInv => SingleSuccessor
  BY DEF IInv
<1>. QED
  BY <1>1, SpecIInv, PTL

(* Issuances and redemptions that overlap leave one link per purpose open. *)
THEOREM OneLinkIsOpen == Spec => []OneOpenLink
<1>1. IInv => OneOpenLink
  BY DEF IInv
<1>. QED
  BY <1>1, SpecIInv, PTL

(* The password changes only by a link that is open when it changes: the   *)
(* identity lock keeps the link open from its check to the commit.         *)
THEOREM OpenLinksSetPasswords == Spec => OpenLinkSetsPassword
<1> DEFINE Set == generation' # generation =>
       \E t \in Link : link[t].status = "open" /\ link'[t].status = "used"
<1>1. ASSUME IInv, Next PROVE Set
  <2>1. CASE \E p \in Request : RedeemEnd(p)
    <3>1. PICK p \in Request : RedeemEnd(p)
      BY <2>1
    <3>2. /\ req[p].link \in Link /\ link[req[p].link].status = "open"
      BY <1>1, <3>1 DEF RedeemEnd, At, IInv, LinkInv
    <3>3. link'[req[p].link].status = "used"
      BY <1>1, <3>1, <3>2 DEF RedeemEnd, IInv, TypeOK
    <3>. QED
      BY <3>2, <3>3
  <2>2. CASE ~\E p \in Request : RedeemEnd(p)
    <3>1. generation' = generation
      BY <1>1, <2>2
         DEF Next, Invite, Begin, Continue, Crash, Expire, tables, BeginIssue,
             BeginRedeem, BeginLogin, BeginReuse, BeginLogout, BeginRefresh,
             IssueLock, IssueEnd, RedeemLock, RedeemScan, LoginCheck,
             LoginCreate, RotateLock, RotateEnd, RotateRollback, RevokeScan,
             RevokeEnd, LogoutEnd
    <3>. QED
      BY <3>1
  <2>. QED
    BY <2>1, <2>2
<1>2. IInv /\ [Next]_vars => [Set]_vars
  BY <1>1
<1>. QED
  BY <1>2, SpecIInv, PTL DEF Spec, OpenLinkSetsPassword

(* A login passes its check only with the password of that moment: no      *)
(* other step brings a request from "login" to "create".                   *)
THEOREM PasswordsAreCurrent == Spec => CurrentPasswordLogsIn
<1> DEFINE Current == \A p \in Request :
             At(p, "login") /\ req'[p].pc = "create"
               => req[p].generation = generation
<1>1. ASSUME IInv, Next PROVE Current
  <2> SUFFICES ASSUME NEW p \in Request, At(p, "login"), req'[p].pc = "create"
               PROVE  req[p].generation = generation
    OBVIOUS
  <2>1. req \in [Request -> RequestState] /\ req'[p] # req[p]
    BY <1>1 DEF IInv, TypeOK, At
  <2>2. Idle.pc = "idle"
    BY DEF Idle
  <2>3. ASSUME NEW q \in Request, NEW r, Start(q, r) PROVE req'[p] = req[p]
    BY <2>1, <2>3 DEF Start, At
  <2>4. ASSUME NEW q \in Request, Begin(q) PROVE req'[p] = req[p]
    <3>1. ASSUME NEW purpose \in Purpose, NEW t \in Link, BeginIssue(q, purpose, t)
          PROVE  req'[p] = req[p]
      BY <3>1, <2>3 DEF BeginIssue
    <3>2. ASSUME NEW t \in Link, BeginRedeem(q, t) PROVE req'[p] = req[p]
      BY <3>2, <2>3 DEF BeginRedeem
    <3>3. ASSUME NEW s \in Session, BeginLogin(q, s) PROVE req'[p] = req[p]
      BY <3>3, <2>3 DEF BeginLogin
    <3>4. ASSUME NEW s \in Session, BeginReuse(q, s) PROVE req'[p] = req[p]
      BY <3>4, <2>3 DEF BeginReuse
    <3>5. ASSUME NEW s \in Session, BeginLogout(q, s) PROVE req'[p] = req[p]
      BY <3>5, <2>3 DEF BeginLogout
    <3>6. ASSUME NEW s \in Session, NEW next \in Session, BeginRefresh(q, s, next)
          PROVE  req'[p] = req[p]
      BY <3>6, <2>3 DEF BeginRefresh
    <3> QED
      BY <2>4, <3>1, <3>2, <3>3, <3>4, <3>5, <3>6 DEF Begin
  <2>5. ASSUME NEW q \in Request, Crash(q) PROVE FALSE
    BY <2>1, <2>2, <2>5 DEF Crash, Finish
  <2>6. ASSUME NEW q \in Request, q # p, Continue(q) PROVE req'[p] = req[p]
    BY <2>1, <2>6
       DEF Continue, IssueLock, IssueEnd, RedeemLock, RedeemScan, RedeemEnd,
           LoginCheck, LoginCreate, RotateLock, RotateEnd, RotateRollback,
           RevokeScan, RevokeEnd, LogoutEnd, GoTo, Finish
  <2>7. Continue(p) => LoginCheck(p)
    BY DEF Continue, IssueLock, IssueEnd, RedeemLock, RedeemScan, RedeemEnd,
           LoginCreate, RotateLock, RotateEnd, RotateRollback,
           RevokeScan, RevokeEnd, LogoutEnd, At
  <2>8. LoginCheck(p) => generation = req[p].generation
    BY <2>1, <2>2 DEF LoginCheck, Finish
  <2>9. (\E t \in Link : Invite(t)) \/ (\E x \in Session \cup Link : Expire(x))
          => req' = req
    BY DEF Invite, Expire
  <2> QED
    BY <1>1, <2>1, <2>4, <2>5, <2>6, <2>7, <2>8, <2>9 DEF Next
<1>2. IInv /\ [Next]_vars => [Current]_vars
  BY <1>1
<1>. QED
  BY <1>2, SpecIInv, PTL DEF Spec, CurrentPasswordLogsIn

=============================================================================
