---------------------------- MODULE Staff_proofs ----------------------------
(***************************************************************************)
(* Proofs about the people who work for the school: the accounts they sign *)
(* in with (Accounts), and what the guards and the scoped reads show them  *)
(* (Access).  They hold for all values of the sets that Club declares.     *)
(***************************************************************************)
EXTENDS Club, TLAPS

-----------------------------------------------------------------------------
(* Accounts.  The conditional UPDATE of the teacher decides between        *)
(* requests that read the same state, and its row lock keeps the teacher   *)
(* as it was found until the event is written.                             *)

(* The states of a request that links or unlinks.                          *)
LinkState == [pc : {"cas", "event"}, kind : {"link", "unlink"}, teacher : Left, profile : Right]

(* A teacher without a row has no account, and one not yet made no trail.  *)
AcRowInv ==
  \A t \in Left :
    /\ ~Ac!Exists(t) => teacher[t].profile = {}
    /\ teacher[t].status = "absent" => last[t] = {}

(* The row lock has one holder and keeps the row.                          *)
AcLockInv ==
  /\ \A p \in Ac!Writing : Ac!Exists(accountReq[p].teacher)
  /\ \A p, q \in Ac!Writing : accountReq[p].teacher = accountReq[q].teacher => p = q

AcIInv == Ac!TypeOK /\ AcRowInv /\ AcLockInv /\ TrailAgrees

LEMMA AcInit == Ac!Init => AcIInv
<1> SUFFICES ASSUME Ac!Init PROVE AcIInv
  OBVIOUS
<1>1. Ac!TypeOK
  <2>1. Ac!Idle \in Ac!RequestState
    BY DEF Ac!Idle, Ac!RequestState
  <2> QED
    BY <2>1 DEF Ac!Init, Ac!TypeOK, Ac!Opt, Ac!TeacherRow
<1>2. Ac!Writing = {}
  BY DEF Ac!Init, Ac!Writing, Ac!Idle
<1>3. \A t \in Left : ~Ac!Exists(t)
  BY DEF Ac!Init, Ac!Exists, Ac!Status
<1> QED
  BY <1>1, <1>2, <1>3 DEF Ac!Init, AcIInv, AcRowInv, AcLockInv, TrailAgrees, Ac!TrailAgrees

(* What a request that links or unlinks works on.                          *)
LEMMA AcLinkOf ==
  ASSUME Ac!TypeOK, NEW p \in Request, accountReq[p].pc \in {"cas", "event"}
  PROVE  accountReq[p] \in LinkState
<1>1. accountReq[p] \in Ac!RequestState
  BY DEF Ac!TypeOK
<1> QED
  BY <1>1 DEF Ac!RequestState, LinkState

(* The account and the event of a teacher, if any, is one.                 *)
LEMMA AcRowOf ==
  ASSUME Ac!TypeOK, NEW t \in Left
  PROVE  /\ teacher[t] \in Ac!TeacherRow
         /\ teacher[t].profile \in Ac!Opt(Right)
         /\ last[t] = {} \/ \E e \in Ac!LinkEvent : last[t] = {e}
  BY DEF Ac!TypeOK, Ac!TeacherRow, Ac!Opt

(* A request that ends or goes on without the lock.                        *)
LEMMA AcQuietStep ==
  ASSUME AcIInv, NEW p \in Request, NEW r \in Ac!RequestState, r.pc # "event",
         accountReq' = [accountReq EXCEPT ![p] = r], UNCHANGED <<teacher, last>>,
         role' \in [Right -> Ac!Opt(Ac!Role)]
  PROVE  AcIInv'
<1>1. Ac!TypeOK'
  BY DEF AcIInv, Ac!TypeOK
<1>2. \A q \in Ac!Writing' : q \in Ac!Writing /\ accountReq'[q] = accountReq[q]
  BY DEF AcIInv, Ac!TypeOK, Ac!Writing
<1> QED
  BY <1>1, <1>2 DEF AcIInv, AcRowInv, AcLockInv, TrailAgrees, Ac!TrailAgrees, Ac!Exists

(* The row of a teacher that nobody has locked.                            *)
LEMMA AcTeacherStep ==
  ASSUME AcIInv, NEW t \in Left,
         \/ \E st \in Ac!Status : Ac!CreateTeacher(t, st) \/ Ac!UpdateTeacher(t, st)
         \/ Ac!DeleteTeacher(t)
  PROVE  AcIInv'
<1>1. UNCHANGED <<role, last, accountReq>>
  BY DEF Ac!CreateTeacher, Ac!UpdateTeacher, Ac!DeleteTeacher
<1>2. \A p \in Ac!Writing : accountReq[p].teacher # t
  BY DEF Ac!CreateTeacher, Ac!UpdateTeacher, Ac!DeleteTeacher, Ac!LockedTeacher, AcIInv,
      AcLockInv, Ac!Exists, Ac!Status
<1>3. PICK row \in Ac!TeacherRow :
        /\ teacher' = [teacher EXCEPT ![t] = row]
        /\ \/ row.status \in Ac!Status /\ row.profile = teacher[t].profile
           \/ row.status = "deleted" /\ row.profile = {}
  <2>1. teacher[t] \in Ac!TeacherRow
    BY DEF AcIInv, Ac!TypeOK
  <2>2. CASE \E st \in Ac!Status : Ac!CreateTeacher(t, st) \/ Ac!UpdateTeacher(t, st)
    <3>1. PICK st \in Ac!Status : teacher' = [teacher EXCEPT ![t].status = st]
      BY <2>2 DEF Ac!CreateTeacher, Ac!UpdateTeacher
    <3> DEFINE row == [teacher[t] EXCEPT !.status = st]
    <3>2. row \in Ac!TeacherRow /\ row.status = st /\ row.profile = teacher[t].profile
      BY <2>1 DEF Ac!TeacherRow
    <3>3. teacher' = [teacher EXCEPT ![t] = row]
      BY <3>1
    <3> QED
      BY <3>2, <3>3
  <2>3. CASE Ac!DeleteTeacher(t)
    <3> DEFINE row == [status |-> "deleted", profile |-> {}]
    <3>1. row \in Ac!TeacherRow
      BY DEF Ac!TeacherRow, Ac!Opt
    <3> QED
      BY <2>3, <3>1 DEF Ac!DeleteTeacher
  <2> QED
    BY <2>2, <2>3
<1>4. Ac!TypeOK'
  BY <1>1, <1>3 DEF AcIInv, Ac!TypeOK
<1>5. /\ teacher'[t] = row
      /\ \A u \in Left : u # t => teacher'[u] = teacher[u]
  BY <1>3 DEF AcIInv, Ac!TypeOK
<1>6. Ac!Writing' = Ac!Writing /\ \A p \in Ac!Writing : accountReq[p].teacher \in Left
  BY <1>1, AcLinkOf DEF Ac!Writing, AcIInv, LinkState
<1>7. AcRowInv'
  BY <1>1, <1>3, <1>5 DEF AcIInv, AcRowInv, Ac!Exists, Ac!Status
<1>8. AcLockInv'
  BY <1>1, <1>2, <1>5, <1>6 DEF AcIInv, AcLockInv, Ac!Exists
<1>9. TrailAgrees'
  <2>1. ~Ac!Exists(t) => teacher[t].status = "absent" \/ row.status = "deleted"
    BY <1>3 DEF Ac!CreateTeacher, Ac!UpdateTeacher, Ac!DeleteTeacher
  <2>2. Ac!Exists(t)' => row.profile = {e.profile : e \in {f \in last[t] : f.action = "LINK"}}
    <3>1. CASE Ac!Exists(t)
      BY <1>3, <1>5, <3>1 DEF AcIInv, TrailAgrees, Ac!TrailAgrees, Ac!Exists, Ac!Status
    <3>2. CASE teacher[t].status = "absent"
      BY <1>3, <1>5, <3>2 DEF AcIInv, AcRowInv, Ac!Exists, Ac!Status
    <3>3. CASE row.status = "deleted"
      BY <1>5, <3>3 DEF Ac!Exists, Ac!Status
    <3> QED
      BY <2>1, <3>1, <3>2, <3>3
  <2> QED
    BY <1>1, <1>5, <1>6, <2>2 DEF AcIInv, TrailAgrees, Ac!TrailAgrees, Ac!Exists
<1> QED
  BY <1>4, <1>7, <1>8, <1>9 DEF AcIInv

(* The conditional UPDATE: it finds the row as the request read it, so the *)
(* event to come fits the trail.                                           *)
LEMMA AcWriteStep ==
  ASSUME AcIInv, NEW p \in Request, Ac!WriteTeacher(p)
  PROVE  AcIInv'
<1>1. accountReq[p] \in LinkState /\ accountReq[p].pc = "cas" /\ UNCHANGED <<role, teacher, last>>
  BY AcLinkOf DEF Ac!WriteTeacher, AcIInv
<1>2. CASE Ac!Finish(p)
  <2>1. Ac!Idle \in Ac!RequestState /\ Ac!Idle.pc # "event"
    BY DEF Ac!Idle, Ac!RequestState
  <2> QED
    BY <1>1, <1>2, <2>1, AcQuietStep DEF Ac!Finish, AcIInv, Ac!TypeOK
<1>3. CASE Ac!MayWrite(p) /\ Ac!Step(p, "event")
  <2> DEFINE t == accountReq[p].teacher
  <2>1. PICK r \in Ac!RequestState :
          /\ accountReq' = [accountReq EXCEPT ![p] = r]
          /\ r.pc = "event" /\ r.kind = accountReq[p].kind
          /\ r.teacher = t /\ r.profile = accountReq[p].profile
    <3> DEFINE new == [accountReq[p] EXCEPT !.pc = "event"]
    <3>1. /\ new \in Ac!RequestState /\ new.pc = "event" /\ new.kind = accountReq[p].kind
          /\ new.teacher = t /\ new.profile = accountReq[p].profile
      BY <1>1 DEF LinkState, Ac!RequestState
    <3> QED
      BY <1>3, <3>1 DEF Ac!Step
  <2>2. Ac!TypeOK'
    BY <1>1, <2>1 DEF AcIInv, Ac!TypeOK
  <2>3. /\ Ac!Writing' = Ac!Writing \cup {p} /\ p \notin Ac!Writing /\ accountReq'[p] = r
        /\ \A q \in Ac!Writing : accountReq'[q] = accountReq[q]
    BY <1>1, <2>1 DEF AcIInv, Ac!TypeOK, Ac!Writing
  <2>4. t \in Left /\ \A q \in Ac!Writing : accountReq[q].teacher # t
    BY <1>1 DEF LinkState, Ac!WriteTeacher, Ac!LockedTeacher
  <2>5. Ac!Exists(t)
    BY <1>1, <1>3, <2>4 DEF Ac!MayWrite, Ac!Exists, Ac!Status, AcIInv, AcRowInv
  <2>6. teacher[t].profile = {e.profile : e \in {f \in last[t] : f.action = "LINK"}}
    BY <2>4, <2>5 DEF AcIInv, TrailAgrees, Ac!TrailAgrees
  <2>7. CASE accountReq[p].kind = "link"
    <3>1. \A e \in last[t] : e.action = "UNLINK"
      <4>1. \A e \in last[t] : e.action # "LINK"
        BY <1>3, <2>6, <2>7 DEF Ac!MayWrite
      <4>2. \A e \in last[t] : e \in Ac!LinkEvent
        BY <2>4, AcRowOf DEF AcIInv
      <4> QED
        BY <4>1, <4>2 DEF Ac!LinkEvent
    <3> QED
      BY <1>1, <2>1, <2>2, <2>3, <2>4, <2>5, <2>7, <3>1
      DEF AcIInv, AcRowInv, AcLockInv, TrailAgrees, Ac!TrailAgrees, Ac!Exists
  <2>8. CASE accountReq[p].kind # "link"
    <3>1. last[t] = {[action |-> "LINK", profile |-> accountReq[p].profile]}
      <4>1. teacher[t].profile = {accountReq[p].profile}
        BY <1>3, <2>8 DEF Ac!MayWrite
      <4>2. PICK e \in last[t] : e.action = "LINK" /\ e.profile = accountReq[p].profile
        BY <2>6, <4>1
      <4>3. last[t] = {e} /\ e \in Ac!LinkEvent
        BY <2>4, <4>2, AcRowOf DEF AcIInv
      <4>4. e = [action |-> "LINK", profile |-> accountReq[p].profile]
        BY <4>2, <4>3 DEF Ac!LinkEvent
      <4> QED
        BY <4>3, <4>4
    <3> QED
      BY <1>1, <2>1, <2>2, <2>3, <2>4, <2>5, <2>8, <3>1
      DEF AcIInv, AcRowInv, AcLockInv, TrailAgrees, Ac!TrailAgrees, Ac!Exists
  <2> QED
    BY <2>7, <2>8
<1> QED
  BY <1>2, <1>3 DEF Ac!WriteTeacher

(* The account and the event change together.                              *)
LEMMA AcCommitStep ==
  ASSUME AcIInv, NEW p \in Request, Ac!CommitLink(p) \/ Ac!CommitUnlink(p)
  PROVE  AcIInv'
<1> DEFINE t == accountReq[p].teacher
<1>1. accountReq[p] \in LinkState /\ p \in Ac!Writing /\ t \in Left
  BY AcLinkOf DEF Ac!CommitLink, Ac!CommitUnlink, Ac!At, Ac!Writing, AcIInv, LinkState
<1>2. PICK a \in Ac!Opt(Right), e \in Ac!LinkEvent :
        /\ teacher' = [teacher EXCEPT ![t].profile = a]
        /\ last' = [last EXCEPT ![t] = {e}]
        /\ a = IF e.action = "LINK" THEN {e.profile} ELSE {}
  <2>1. CASE Ac!CommitLink(p)
    <3> DEFINE e == [action |-> "LINK", profile |-> accountReq[p].profile]
    <3>1. e \in Ac!LinkEvent /\ {accountReq[p].profile} \in Ac!Opt(Right)
      BY <1>1 DEF Ac!LinkEvent, LinkState, Ac!Opt
    <3> QED
      BY <2>1, <3>1 DEF Ac!CommitLink
  <2>2. CASE Ac!CommitUnlink(p)
    <3> DEFINE e == [action |-> "UNLINK", profile |-> accountReq[p].profile]
    <3>1. e \in Ac!LinkEvent /\ {} \in Ac!Opt(Right)
      BY <1>1 DEF Ac!LinkEvent, LinkState, Ac!Opt
    <3> QED
      BY <2>2, <3>1 DEF Ac!CommitUnlink
  <2> QED
    BY <2>1, <2>2
<1>3. accountReq' = [accountReq EXCEPT ![p] = Ac!Idle] /\ UNCHANGED role
  BY DEF Ac!CommitLink, Ac!CommitUnlink, Ac!Finish
<1>4. teacher[t] \in Ac!TeacherRow
  BY <1>1 DEF AcIInv, Ac!TypeOK
<1>5. /\ teacher'[t] \in Ac!TeacherRow /\ teacher'[t].profile = a
      /\ teacher'[t].status = teacher[t].status
      /\ last'[t] = {e}
      /\ \A u \in Left : u # t => teacher'[u] = teacher[u] /\ last'[u] = last[u]
  BY <1>1, <1>2, <1>4 DEF AcIInv, Ac!TypeOK, Ac!TeacherRow
<1>6. Ac!TypeOK'
  <2>1. Ac!Idle \in Ac!RequestState
    BY DEF Ac!Idle, Ac!RequestState
  <2>2. accountReq' \in [Request -> Ac!RequestState]
    BY <1>3, <2>1 DEF AcIInv, Ac!TypeOK
  <2>3. teacher' \in [Left -> Ac!TeacherRow]
    BY <1>1, <1>2, <1>5 DEF AcIInv, Ac!TypeOK
  <2>4. last' \in [Left -> Ac!Opt(Ac!LinkEvent)]
    BY <1>1, <1>2 DEF AcIInv, Ac!TypeOK, Ac!Opt
  <2> QED
    BY <1>3, <2>2, <2>3, <2>4 DEF AcIInv, Ac!TypeOK
<1>7. \A q \in Ac!Writing' : q \in Ac!Writing /\ q # p /\ accountReq'[q] = accountReq[q]
  BY <1>3 DEF AcIInv, Ac!TypeOK, Ac!Writing, Ac!Idle
<1>8. \A q \in Ac!Writing' : accountReq[q].teacher # t /\ accountReq[q].teacher \in Left
  BY <1>1, <1>7, AcLinkOf DEF AcIInv, AcLockInv, Ac!Writing, LinkState
<1>9. Ac!Exists(t)
  BY <1>1 DEF AcIInv, AcLockInv
<1>10. AcRowInv'
  BY <1>5, <1>9 DEF AcIInv, AcRowInv, Ac!Exists, Ac!Status
<1>11. AcLockInv'
  BY <1>5, <1>7, <1>8 DEF AcIInv, AcLockInv, Ac!Exists
<1>12. TrailAgrees'
  <2>1. teacher'[t].profile = {f.profile : f \in {g \in last'[t] : g.action = "LINK"}}
    BY <1>2, <1>5
  <2> QED
    BY <1>5, <1>7, <1>8, <2>1 DEF AcIInv, TrailAgrees, Ac!TrailAgrees, Ac!Exists
<1> QED
  BY <1>6, <1>10, <1>11, <1>12 DEF AcIInv

(* Requests that only read, check or write a role, and those that die.     *)
LEMMA AcOtherStep ==
  ASSUME AcIInv, NEW p \in Request,
         \/ \E actor \in Right, t \in Left :
              Ac!ReadUnlink(p, actor, t) \/ \E a \in Right : Ac!ReadLink(p, actor, t, a)
         \/ \E actor, a \in Right, next \in Ac!Role : Ac!CheckRole(p, actor, a, next)
         \/ Ac!WriteRole(p) \/ Ac!Abort(p)
  PROVE  AcIInv'
<1>1. Ac!Idle \in Ac!RequestState /\ Ac!Idle.pc # "event"
  BY DEF Ac!Idle, Ac!RequestState
<1>2. role \in [Right -> Ac!Opt(Ac!Role)]
  BY DEF AcIInv, Ac!TypeOK
<1>3. ASSUME NEW r \in Ac!RequestState, r.pc # "event", Ac!Start(p, r), UNCHANGED <<role, teacher, last>>
      PROVE  AcIInv'
  BY <1>2, <1>3, AcQuietStep DEF Ac!Start
<1>4. ASSUME NEW actor \in Right, NEW t \in Left, Ac!ReadUnlink(p, actor, t) PROVE AcIInv'
  <2>1. PICK a \in teacher[t].profile :
          Ac!Start(p, [pc |-> "cas", kind |-> "unlink", teacher |-> t, profile |-> a])
    BY <1>4 DEF Ac!ReadUnlink
  <2>2. a \in Right
    BY AcRowOf DEF AcIInv, Ac!Opt
  <2> DEFINE r == [pc |-> "cas", kind |-> "unlink", teacher |-> t, profile |-> a]
  <2>3. r \in Ac!RequestState /\ r.pc # "event"
    BY <2>2 DEF Ac!RequestState
  <2> QED
    BY <1>3, <1>4, <2>1, <2>3 DEF Ac!ReadUnlink
<1>5. ASSUME NEW actor \in Right, NEW t \in Left, NEW a \in Right, Ac!ReadLink(p, actor, t, a)
      PROVE  AcIInv'
  <2> DEFINE r == [pc |-> "cas", kind |-> "link", teacher |-> t, profile |-> a]
  <2>1. r \in Ac!RequestState /\ r.pc # "event"
    BY DEF Ac!RequestState
  <2> QED
    BY <1>3, <1>5, <2>1 DEF Ac!ReadLink
<1>6. ASSUME NEW actor \in Right, NEW a \in Right, NEW next \in Ac!Role, Ac!CheckRole(p, actor, a, next)
      PROVE  AcIInv'
  <2> DEFINE r == [pc |-> "role", profile |-> a, next |-> next]
  <2>1. r \in Ac!RequestState /\ r.pc # "event"
    BY DEF Ac!RequestState
  <2> QED
    BY <1>3, <1>6, <2>1 DEF Ac!CheckRole
<1>7. ASSUME Ac!WriteRole(p) PROVE AcIInv'
  <2>1. accountReq[p] \in [pc : {"role"}, profile : Right, next : Ac!Role]
    BY <1>7 DEF Ac!WriteRole, AcIInv, Ac!TypeOK, Ac!RequestState
  <2>2. role' \in [Right -> Ac!Opt(Ac!Role)]
    BY <1>2, <1>7, <2>1 DEF Ac!WriteRole, Ac!Opt
  <2> QED
    BY <1>1, <1>7, <2>2, AcQuietStep DEF Ac!WriteRole, Ac!Finish
<1>8. ASSUME Ac!Abort(p) PROVE AcIInv'
  BY <1>1, <1>2, <1>8, AcQuietStep DEF Ac!Abort, Ac!Finish
<1> QED
  BY <1>4, <1>5, <1>6, <1>7, <1>8

LEMMA AcRoleStep ==
  ASSUME AcIInv, NEW a \in Right, Ac!Bootstrap(a) \/ \E r \in Ac!Role : Ac!Invite(a, r)
  PROVE  AcIInv'
<1>1. UNCHANGED <<teacher, last, accountReq>>
  BY DEF Ac!Bootstrap, Ac!Invite
<1>2. role' \in [Right -> Ac!Opt(Ac!Role)]
  <2>1. PICK r \in Ac!Role : role' = [role EXCEPT ![a] = {r}]
    BY DEF Ac!Bootstrap, Ac!Invite, Ac!Role
  <2> QED
    BY <2>1 DEF AcIInv, Ac!TypeOK, Ac!Opt
<1> QED
  BY <1>1, <1>2
  DEF AcIInv, Ac!TypeOK, AcRowInv, AcLockInv, TrailAgrees, Ac!TrailAgrees, Ac!Exists, Ac!Writing

LEMMA AcStep == AcIInv /\ [Ac!Next]_Ac!vars => AcIInv'
<1> SUFFICES ASSUME AcIInv, [Ac!Next]_Ac!vars PROVE AcIInv'
  OBVIOUS
<1>1. CASE UNCHANGED Ac!vars
  BY <1>1
  DEF Ac!vars, AcIInv, Ac!TypeOK, AcRowInv, AcLockInv, TrailAgrees, Ac!TrailAgrees,
      Ac!Exists, Ac!Writing
<1>2. CASE \E a \in Right : Ac!Bootstrap(a) \/ \E r \in Ac!Role : Ac!Invite(a, r)
  BY <1>2, AcRoleStep
<1>3. CASE \E t \in Left :
             \/ \E st \in Ac!Status : Ac!CreateTeacher(t, st) \/ Ac!UpdateTeacher(t, st)
             \/ Ac!DeleteTeacher(t)
  BY <1>3, AcTeacherStep
<1>4. ASSUME NEW p \in Request, Ac!WriteTeacher(p) PROVE AcIInv'
  BY <1>4, AcWriteStep
<1>5. ASSUME NEW p \in Request, Ac!CommitLink(p) \/ Ac!CommitUnlink(p) PROVE AcIInv'
  BY <1>5, AcCommitStep
<1>6. ASSUME NEW p \in Request,
             \/ \E actor \in Right, t \in Left :
                  Ac!ReadUnlink(p, actor, t) \/ \E a \in Right : Ac!ReadLink(p, actor, t, a)
             \/ \E actor, a \in Right, next \in Ac!Role : Ac!CheckRole(p, actor, a, next)
             \/ Ac!WriteRole(p) \/ Ac!Abort(p)
      PROVE  AcIInv'
  BY <1>6, AcOtherStep
<1> QED
  BY <1>1, <1>2, <1>3, <1>4, <1>5, <1>6 DEF Ac!Next

(* The trail of a teacher ends with what holds, whoever links and unlinks  *)
(* at the same time.                                                       *)
THEOREM TrailTellsTheLink == Ac!Spec => []TrailAgrees
<1>1. AcIInv => TrailAgrees
  BY DEF AcIInv
<1> QED
  BY <1>1, AcInit, AcStep, PTL DEF Ac!Spec

-----------------------------------------------------------------------------
(* Access.  A request that read the role of an administrator may see every *)
(* student since then, also out of the cache; any other request gets what  *)
(* its query joins with the classes that the user coaches when it runs.    *)

(* Who was an administrator at the guard has had every student in scope.   *)
RdAdminInv ==
  \A p \in One : \A r \in readReq[p] : r.as = {"admin"} => Right \subseteq seen[p]

RdIInv == Rd!TypeOK /\ RdAdminInv /\ AnswersWithinScope

LEMMA RdInit == Rd!Init => RdIInv
  BY DEF Rd!Init, RdIInv, Rd!TypeOK, RdAdminInv, AnswersWithinScope,
      Rd!AnswersWithinScope, Rd!Role, Rd!Opt

(* The one state of a request in progress.                                 *)
LEMMA RdRequestOf ==
  ASSUME Rd!TypeOK, NEW p \in One, readReq[p] # {}
  PROVE  Rd!R(p) \in Rd!RequestState /\ readReq[p] = {Rd!R(p)}
<1>1. PICK r \in Rd!RequestState : readReq[p] = {r}
  BY DEF Rd!TypeOK, Rd!Opt
<1>2. Rd!R(p) \in readReq[p]
  BY <1>1 DEF Rd!R
<1> QED
  BY <1>1, <1>2

(* Students whose data a user may see are students.                        *)
LEMMA RdScopeType ==
  ASSUME NEW u PROVE Rd!Scope(u) \subseteq Right /\ Rd!StudentsOf(u) \subseteq Rd!Scope(u)
  BY DEF Rd!Scope, Rd!StudentsOf

(* What is remembered of a request only grows while it runs.               *)
LEMMA RdSeenGrows ==
  ASSUME Rd!Watch, NEW p \in One, NEW r, NEW s, readReq[p] = {r}, readReq'[p] = {s}
  PROVE  seen[p] \subseteq seen'[p] /\ Rd!Scope(s.user)' \subseteq seen'[p]
<1>1. seen'[p] = UNION {seen[p] \cup Rd!Scope(q.user)' : q \in {s}}
  BY DEF Rd!Watch
<1> QED
  BY <1>1

LEMMA RdSeenType ==
  ASSUME Rd!TypeOK, Rd!Watch PROVE seen' \in [One -> SUBSET Right]
<1>1. \A u : Rd!Scope(u)' \subseteq Right
  BY DEF Rd!Scope, Rd!StudentsOf
<1>2. ASSUME NEW p \in One
      PROVE  UNION {(IF readReq[p] = {} THEN {} ELSE seen[p]) \cup Rd!Scope(r.user)' : r \in readReq'[p]}
               \subseteq Right
  BY <1>1 DEF Rd!TypeOK
<1> QED
  BY <1>2 DEF Rd!Watch

(* The world changes: every request stays where it is.                     *)
LEMMA RdWorldStep ==
  ASSUME RdIInv, Rd!Watch, UNCHANGED readReq, cache' \in [Rd!Key -> Rd!Opt(SUBSET Right)],
         userRole' \in [One -> Rd!Role], userSession' \in [One -> BOOLEAN],
         coach' \subseteq One \X Left, enrolled' \subseteq Right \X Left
  PROVE  RdIInv'
<1>1. Rd!TypeOK'
  BY RdSeenType DEF RdIInv, Rd!TypeOK
<1>2. ASSUME NEW p \in One, NEW r \in readReq[p] PROVE seen[p] \subseteq seen'[p]
  <2>1. readReq[p] = {Rd!R(p)}
    BY <1>2, RdRequestOf DEF RdIInv
  <2> QED
    BY <2>1, RdSeenGrows
<1>3. RdAdminInv'
  BY <1>2 DEF RdIInv, RdAdminInv
<1>4. AnswersWithinScope'
  BY <1>2 DEF RdIInv, AnswersWithinScope, Rd!AnswersWithinScope
<1> QED
  BY <1>1, <1>3, <1>4 DEF RdIInv

(* One request goes on to new, and the others stay where they are.         *)
LEMMA RdRequestStep ==
  ASSUME RdIInv, Rd!Watch, UNCHANGED Rd!world, cache' \in [Rd!Key -> Rd!Opt(SUBSET Right)],
         NEW p \in One, NEW new \in Rd!Opt(Rd!RequestState),
         readReq' = [readReq EXCEPT ![p] = new],
         \A r \in new : /\ r.as = {"admin"} => Right \subseteq seen'[p]
                        /\ r.answer \subseteq seen'[p]
  PROVE  RdIInv'
<1>1. Rd!TypeOK'
  <2>1. readReq' \in [One -> Rd!Opt(Rd!RequestState)]
    BY DEF RdIInv, Rd!TypeOK
  <2> QED
    BY <2>1, RdSeenType DEF RdIInv, Rd!TypeOK, Rd!world
<1>2. /\ readReq'[p] = new
      /\ \A q \in One : q # p => readReq'[q] = readReq[q]
  BY DEF RdIInv, Rd!TypeOK
<1>3. ASSUME NEW q \in One, q # p, NEW r \in readReq[q] PROVE seen[q] \subseteq seen'[q]
  <2>1. readReq[q] = {Rd!R(q)} /\ readReq'[q] = {Rd!R(q)}
    BY <1>2, <1>3, RdRequestOf DEF RdIInv
  <2> QED
    BY <2>1, RdSeenGrows
<1>4. RdAdminInv'
  BY <1>2, <1>3 DEF RdIInv, RdAdminInv
<1>5. AnswersWithinScope'
  BY <1>2, <1>3 DEF RdIInv, AnswersWithinScope, Rd!AnswersWithinScope
<1> QED
  BY <1>1, <1>4, <1>5 DEF RdIInv

LEMMA RdRefuseStep ==
  ASSUME RdIInv, Rd!Watch, NEW p \in One, Rd!Refuse(p), UNCHANGED <<Rd!world, cache>>
  PROVE  RdIInv'
<1>1. {} \in Rd!Opt(Rd!RequestState)
  BY DEF Rd!Opt
<1>2. cache' \in [Rd!Key -> Rd!Opt(SUBSET Right)]
  BY DEF RdIInv, Rd!TypeOK
<1> QED
  BY <1>1, <1>2, RdRequestStep DEF Rd!Refuse

(* A request in progress goes on without a new answer.                     *)
LEMMA RdGoOnStep ==
  ASSUME RdIInv, Rd!Watch, NEW p \in One, readReq[p] # {}, UNCHANGED <<Rd!world, cache>>,
         NEW r \in Rd!RequestState, Rd!Goto(p, r),
         r.user = Rd!R(p).user, r.answer = Rd!R(p).answer,
         r.as = Rd!R(p).as \/ r.as = {userRole[r.user]}
  PROVE  RdIInv'
<1>1. {r} \in Rd!Opt(Rd!RequestState)
  BY DEF Rd!Opt
<1>2. readReq' = [readReq EXCEPT ![p] = {r}] /\ readReq'[p] = {r}
  BY DEF Rd!Goto, RdIInv, Rd!TypeOK
<1>3. Rd!R(p) \in Rd!RequestState /\ readReq[p] = {Rd!R(p)}
  BY RdRequestOf DEF RdIInv
<1>4. seen[p] \subseteq seen'[p] /\ Rd!Scope(r.user)' \subseteq seen'[p]
  BY <1>2, <1>3, RdSeenGrows
<1>5. r.answer \subseteq seen'[p]
  BY <1>3, <1>4 DEF RdIInv, AnswersWithinScope, Rd!AnswersWithinScope
<1>6. r.as = {"admin"} => Right \subseteq seen'[p]
  <2>1. CASE r.as = Rd!R(p).as
    BY <1>3, <1>4, <2>1 DEF RdIInv, RdAdminInv
  <2>2. CASE r.as = {userRole[r.user]}
    <3>1. r.as = {"admin"} => Rd!Scope(r.user)' = Right
      BY <2>2 DEF Rd!Scope, Rd!world
    <3> QED
      BY <1>4, <3>1
  <2> QED
    BY <2>1, <2>2
<1>7. cache' \in [Rd!Key -> Rd!Opt(SUBSET Right)]
  BY DEF RdIInv, Rd!TypeOK
<1>8. UNCHANGED Rd!world
  OBVIOUS
<1> QED
  BY <1>1, <1>2, <1>5, <1>6, <1>7, <1>8, RdRequestStep

LEMMA RdSendStep ==
  ASSUME RdIInv, Rd!Watch, NEW p \in One,
         NEW u \in One, NEW route \in Rd!Route, NEW c \in Left, NEW s \in Right,
         Rd!Send(p, u, route, c, s)
  PROVE  RdIInv'
<1> DEFINE r == [pc |-> "session", user |-> u, route |-> route, class |-> c,
                 student |-> s, as |-> {}, answer |-> {}]
<1>1. r \in Rd!RequestState
  BY DEF Rd!RequestState, Rd!Opt
<1>2. {r} \in Rd!Opt(Rd!RequestState)
  BY <1>1 DEF Rd!Opt
<1>3. readReq' = [readReq EXCEPT ![p] = {r}] /\ UNCHANGED Rd!world
  BY DEF Rd!Send, Rd!Goto
<1>4. cache' \in [Rd!Key -> Rd!Opt(SUBSET Right)]
  BY DEF Rd!Send, RdIInv, Rd!TypeOK
<1>5. \A q \in {r} : /\ q.as = {"admin"} => Right \subseteq seen'[p]
                     /\ q.answer \subseteq seen'[p]
  OBVIOUS
<1> QED
  BY <1>2, <1>3, <1>4, <1>5, RdRequestStep

LEMMA RdGuardStep ==
  ASSUME RdIInv, Rd!Watch, NEW p \in One, Rd!JwtAuthGuard(p) \/ Rd!RolesGuard(p) \/ Rd!ScopeGuard(p) \/ Rd!Miss(p)
  PROVE  RdIInv'
<1>1. UNCHANGED <<Rd!world, cache>> /\ readReq[p] # {}
  BY DEF Rd!JwtAuthGuard, Rd!RolesGuard, Rd!ScopeGuard, Rd!Miss, Rd!In
<1>2. Rd!R(p) \in Rd!RequestState
  BY <1>1, RdRequestOf DEF RdIInv
<1>3. CASE Rd!Refuse(p)
  BY <1>1, <1>3, RdRefuseStep
<1>4. ASSUME NEW pc \in {"role", "query", "load"}, Rd!Goto(p, [Rd!R(p) EXCEPT !.pc = pc])
      PROVE  RdIInv'
  <2> DEFINE r == [Rd!R(p) EXCEPT !.pc = pc]
  <2>1. r \in Rd!RequestState /\ r.user = Rd!R(p).user /\ r.answer = Rd!R(p).answer /\ r.as = Rd!R(p).as
    BY <1>2 DEF Rd!RequestState
  <2> QED
    BY <1>1, <1>4, <2>1, RdGoOnStep
<1>5. ASSUME NEW pc \in {"scope", "query"},
             Rd!Goto(p, [Rd!R(p) EXCEPT !.as = {userRole[Rd!R(p).user]}, !.pc = pc])
      PROVE  RdIInv'
  <2> DEFINE r == [Rd!R(p) EXCEPT !.as = {userRole[Rd!R(p).user]}, !.pc = pc]
  <2>1. /\ r \in Rd!RequestState /\ r.user = Rd!R(p).user /\ r.answer = Rd!R(p).answer
        /\ r.as = {userRole[r.user]}
    BY <1>2, <1>5 DEF RdIInv, Rd!TypeOK, Rd!RequestState, Rd!Opt
  <2> QED
    BY <1>1, <1>5, <2>1, RdGoOnStep
<1>6. CASE Rd!JwtAuthGuard(p)
  BY <1>3, <1>4, <1>6 DEF Rd!JwtAuthGuard
<1>7. CASE Rd!RolesGuard(p)
  <2> DEFINE pc == IF Rd!R(p).route = "attendance" THEN "scope" ELSE "query"
  <2>1. pc \in {"scope", "query"}
    OBVIOUS
  <2>2. \/ Rd!Refuse(p)
        \/ Rd!Goto(p, [Rd!R(p) EXCEPT !.as = {userRole[Rd!R(p).user]}, !.pc = pc])
    BY <1>7 DEF Rd!RolesGuard
  <2> HIDE DEF pc
  <2> QED
    BY <1>3, <1>5, <2>1, <2>2
<1>8. CASE Rd!ScopeGuard(p)
  BY <1>3, <1>4, <1>8 DEF Rd!ScopeGuard
<1>9. CASE Rd!Miss(p)
  BY <1>4, <1>9 DEF Rd!Miss
<1> QED
  BY <1>6, <1>7, <1>8, <1>9

(* Only an administrator is answered out of the cache.                     *)
LEMMA RdHitStep ==
  ASSUME RdIInv, Rd!Watch, NEW p \in One, Rd!Hit(p)
  PROVE  RdIInv'
<1>1. UNCHANGED <<Rd!world, cache>> /\ readReq[p] # {}
  BY DEF Rd!Hit, Rd!In
<1>2. Rd!R(p) \in Rd!RequestState /\ readReq[p] = {Rd!R(p)}
  BY <1>1, RdRequestOf DEF RdIInv
<1>3. PICK rows \in Rd!Hits(p) : Rd!Goto(p, [Rd!R(p) EXCEPT !.pc = "answered", !.answer = rows])
  BY DEF Rd!Hit
<1> DEFINE r == [Rd!R(p) EXCEPT !.pc = "answered", !.answer = rows]
<1>4. Rd!R(p).as = {"admin"} /\ rows \in cache["admin"]
  BY DEF Rd!Hits, Rd!CacheKeys, Rd!As
<1>5. rows \subseteq Right
  BY <1>4 DEF RdIInv, Rd!TypeOK, Rd!Key, Rd!Opt
<1>6. r \in Rd!RequestState /\ r.as = Rd!R(p).as /\ r.answer = rows /\ r.user = Rd!R(p).user
  BY <1>2, <1>5 DEF Rd!RequestState
<1>7. {r} \in Rd!Opt(Rd!RequestState)
  BY <1>6 DEF Rd!Opt
<1>8. readReq' = [readReq EXCEPT ![p] = {r}] /\ readReq'[p] = {r}
  BY <1>3 DEF Rd!Goto, RdIInv, Rd!TypeOK
<1>9. Right \subseteq seen[p] /\ seen[p] \subseteq seen'[p]
  BY <1>2, <1>4, <1>8, RdSeenGrows DEF RdIInv, RdAdminInv
<1>10. cache' \in [Rd!Key -> Rd!Opt(SUBSET Right)] /\ UNCHANGED Rd!world
  BY <1>1 DEF RdIInv, Rd!TypeOK
<1>11. \A q \in {r} : /\ q.as = {"admin"} => Right \subseteq seen'[p]
                      /\ q.answer \subseteq seen'[p]
  BY <1>5, <1>6, <1>9
<1> QED
  BY <1>7, <1>8, <1>10, <1>11, RdRequestStep

(* Whoever is no administrator gets what the scope holds at that moment.   *)
LEMMA RdLoadStep ==
  ASSUME RdIInv, Rd!Watch, NEW p \in One, Rd!Load(p)
  PROVE  RdIInv'
<1>1. UNCHANGED Rd!world /\ readReq[p] # {}
  BY DEF Rd!Load, Rd!In
<1>2. Rd!R(p) \in Rd!RequestState /\ readReq[p] = {Rd!R(p)}
  BY <1>1, RdRequestOf DEF RdIInv
<1>3. Rd!Matching(p) \subseteq Right
  BY <1>2 DEF Rd!Matching, Rd!Birthdays, Rd!Photo, Rd!RequestState, Rd!StudentsOf
<1>4. PICK r \in Rd!RequestState :
        /\ r = [Rd!R(p) EXCEPT !.pc = "answered", !.answer = Rd!Matching(p)]
        /\ r.as = Rd!R(p).as /\ r.answer = Rd!Matching(p) /\ r.user = Rd!R(p).user
  <2> DEFINE new == [Rd!R(p) EXCEPT !.pc = "answered", !.answer = Rd!Matching(p)]
  <2>1. /\ new \in Rd!RequestState
        /\ new.as = Rd!R(p).as /\ new.answer = Rd!Matching(p) /\ new.user = Rd!R(p).user
    BY <1>2, <1>3 DEF Rd!RequestState
  <2> QED
    BY <2>1
<1>5. {r} \in Rd!Opt(Rd!RequestState)
  BY <1>4 DEF Rd!Opt
<1>6. readReq' = [readReq EXCEPT ![p] = {r}] /\ readReq'[p] = {r}
  BY <1>4 DEF Rd!Load, Rd!Goto, RdIInv, Rd!TypeOK
<1>7. seen[p] \subseteq seen'[p] /\ Rd!Scope(r.user)' \subseteq seen'[p]
  BY <1>2, <1>6, RdSeenGrows
<1>8. cache' \in [Rd!Key -> Rd!Opt(SUBSET Right)]
  BY <1>3 DEF Rd!Load, RdIInv, Rd!TypeOK, Rd!Opt
<1>9. Rd!R(p).as = {"admin"} => Right \subseteq seen'[p]
  BY <1>2, <1>7 DEF RdIInv, RdAdminInv
<1>10. Rd!Matching(p) \subseteq seen'[p]
  <2>1. CASE Rd!R(p).as = {"admin"}
    BY <1>3, <1>9, <2>1
  <2>2. CASE Rd!R(p).as # {"admin"}
    <3>1. Rd!R(p).route # "photo" => Rd!Matching(p) \subseteq Rd!StudentsOf(r.user)
      BY <1>2, <1>4, <2>2
      DEF Rd!Matching, Rd!Birthdays, Rd!As, Rd!StudentsOf, Rd!Coaches, Rd!RequestState
    <3>2. Rd!R(p).route = "photo" => Rd!Matching(p) \subseteq Rd!Scope(r.user)
      BY <1>2, <1>4 DEF Rd!Matching, Rd!Photo, Rd!Scope, Rd!RequestState
    <3>3. Rd!StudentsOf(r.user) \subseteq Rd!Scope(r.user)
      BY RdScopeType
    <3>4. Rd!Scope(r.user)' = Rd!Scope(r.user)
      BY <1>1 DEF Rd!world, Rd!Scope, Rd!StudentsOf, Rd!Coaches
    <3> QED
      BY <1>7, <3>1, <3>2, <3>3, <3>4
  <2> QED
    BY <2>1, <2>2
<1>11. \A q \in {r} : /\ q.as = {"admin"} => Right \subseteq seen'[p]
                      /\ q.answer \subseteq seen'[p]
  BY <1>4, <1>9, <1>10
<1> QED
  BY <1>1, <1>5, <1>6, <1>8, <1>11, RdRequestStep

LEMMA RdStep == RdIInv /\ [Rd!Next]_Rd!vars => RdIInv'
<1> SUFFICES ASSUME RdIInv, [Rd!Next]_Rd!vars PROVE RdIInv'
  OBVIOUS
<1>1. CASE UNCHANGED Rd!vars
  BY <1>1
  DEF Rd!vars, Rd!world, RdIInv, Rd!TypeOK, RdAdminInv, AnswersWithinScope,
      Rd!AnswersWithinScope
<1>2. ASSUME Rd!Watch, NEW u \in One, Rd!SetSession(u) PROVE RdIInv'
  BY <1>2, RdWorldStep DEF Rd!SetSession, RdIInv, Rd!TypeOK
<1>3. ASSUME Rd!Watch, NEW u \in One, NEW r \in Rd!Role, Rd!SetRole(u, r) PROVE RdIInv'
  BY <1>3, RdWorldStep DEF Rd!SetRole, RdIInv, Rd!TypeOK
<1>4. ASSUME Rd!Watch, NEW u \in One, NEW c \in Left, Rd!SetCoach(u, c) PROVE RdIInv'
  <2>1. coach' \subseteq One \X Left
    BY <1>4 DEF Rd!SetCoach, RdIInv, Rd!TypeOK
  <2> QED
    BY <1>4, <2>1, RdWorldStep DEF Rd!SetCoach, RdIInv, Rd!TypeOK
<1>5. ASSUME Rd!Watch, NEW s \in Right, NEW classes \in Rd!Opt(Left), Rd!SetEnrolled(s, classes)
      PROVE  RdIInv'
  <2>1. enrolled' \subseteq Right \X Left
    BY <1>5 DEF Rd!SetEnrolled, RdIInv, Rd!TypeOK, Rd!Opt
  <2>2. cache' \in [Rd!Key -> Rd!Opt(SUBSET Right)]
    BY <1>5 DEF Rd!SetEnrolled, RdIInv, Rd!TypeOK, Rd!Opt
  <2> QED
    BY <1>5, <2>1, <2>2, RdWorldStep DEF Rd!SetEnrolled, RdIInv, Rd!TypeOK
<1>6. ASSUME Rd!Watch, NEW k \in Rd!Key, Rd!Evict(k) PROVE RdIInv'
  <2>1. cache' \in [Rd!Key -> Rd!Opt(SUBSET Right)]
    BY <1>6 DEF Rd!Evict, RdIInv, Rd!TypeOK, Rd!Opt
  <2> QED
    BY <1>6, <2>1, RdWorldStep DEF Rd!Evict, Rd!world, RdIInv, Rd!TypeOK
<1>7. ASSUME Rd!Watch, NEW p \in One,
             \E u \in One, route \in Rd!Route, c \in Left, s \in Right : Rd!Send(p, u, route, c, s)
      PROVE  RdIInv'
  BY <1>7, RdSendStep
<1>8. ASSUME Rd!Watch, NEW p \in One,
             Rd!JwtAuthGuard(p) \/ Rd!RolesGuard(p) \/ Rd!ScopeGuard(p) \/ Rd!Miss(p)
      PROVE  RdIInv'
  BY <1>8, RdGuardStep
<1>9. ASSUME Rd!Watch, NEW p \in One, Rd!Hit(p) \/ Rd!Load(p) PROVE RdIInv'
  BY <1>9, RdHitStep, RdLoadStep
<1>10. ASSUME Rd!Watch, NEW p \in One, Rd!Done(p) PROVE RdIInv'
  BY <1>10, RdRefuseStep DEF Rd!Done
<1> QED
  BY <1>1, <1>2, <1>3, <1>4, <1>5, <1>6, <1>7, <1>8, <1>9, <1>10 DEF Rd!Next

(* Every student in an answer was in the scope of the user at some moment  *)
(* since the request was sent, whatever changed meanwhile.                 *)
THEOREM AnswersStayInScope == Rd!Spec => []AnswersWithinScope
<1>1. RdIInv => AnswersWithinScope
  BY DEF RdIInv
<1> QED
  BY <1>1, RdInit, RdStep, PTL DEF Rd!Spec

-----------------------------------------------------------------------------
(* The composition                                                         *)

(* What the modules side by side do is what each of them allows, so that   *)
(* the theorems above, and those of AuthSessions, hold of Club.            *)
THEOREM ClubRunsStaff == ClubSpec => Ac!Spec /\ Rd!Spec /\ Spec
<1>1. ClubInit => Ac!Init /\ Rd!Init /\ Init
  BY DEF ClubInit
<1>2. [ClubNext]_<<module, vars, coVars, roVars, attVars, cpVars, seVars, guVars, acVars, rdVars>>
        => [Ac!Next]_Ac!vars
  BY DEF ClubNext, Rest, acVars, Ac!vars
<1>3. [ClubNext]_<<module, vars, coVars, roVars, attVars, cpVars, seVars, guVars, acVars, rdVars>>
        => [Rd!Next]_Rd!vars
  BY DEF ClubNext, Rest, rdVars, Rd!vars, Rd!world
<1>4. [ClubNext]_<<module, vars, coVars, roVars, attVars, cpVars, seVars, guVars, acVars, rdVars>>
        => [Next]_vars
  BY DEF ClubNext, Rest, vars
<1> QED
  BY <1>1, <1>2, <1>3, <1>4, PTL DEF ClubSpec, Ac!Spec, Rd!Spec, Spec
=============================================================================
