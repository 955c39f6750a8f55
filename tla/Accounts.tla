------------------------------ MODULE Accounts ------------------------------
(***************************************************************************)
(* Which account a teacher signs in with (teachers.profile_id), the trail  *)
(* of that link (teacher_account_link_events), and the roles of accounts.  *)
(* A link or an unlink reads, then writes the teacher conditionally, then  *)
(* writes the event, and commits; the conditional UPDATE takes the row     *)
(* lock of the teacher and the unique entry of the account.                *)
(*                                                                         *)
(* No account is ever deleted: the directory in use refuses it (503).      *)
(***************************************************************************)
EXTENDS Naturals, FiniteSets

CONSTANTS Teacher, Profile, Request

VARIABLES
  role,     \* profiles.role
  teacher,  \* teachers: status and account
  last,     \* the last event of each teacher in the trail
  req

vars == <<role, teacher, last, req>>

Role == {"admin", "teacher", "user"}
Status == {"Ativo", "Inativo"}
Opt(S) == {{}} \cup {{x} : x \in S}
LinkEvent == [action : {"LINK", "UNLINK"}, profile : Profile]

TeacherRow == [status : Status \cup {"absent", "deleted"}, profile : Opt(Profile)]
RequestState ==
  [pc : {"idle"}]
  \cup [pc : {"cas", "event"}, kind : {"link", "unlink"},
        teacher : Teacher, profile : Profile]
  \cup [pc : {"role"}, profile : Profile, next : Role]

TypeOK ==
  /\ role \in [Profile -> Opt(Role)]
  /\ teacher \in [Teacher -> TeacherRow]
  /\ last \in [Teacher -> Opt(LinkEvent)]
  /\ req \in [Request -> RequestState]

Idle == [pc |-> "idle"]

Init ==
  /\ role = [a \in Profile |-> {}]
  /\ teacher = [t \in Teacher |-> [status |-> "absent", profile |-> {}]]
  /\ last = [t \in Teacher |-> {}]
  /\ req = [p \in Request |-> Idle]

-----------------------------------------------------------------------------

Is(a, r) == role[a] = {r}
Admins == {a \in Profile : Is(a, "admin")}
Exists(t) == teacher[t].status \in Status

At(p, pc, kind) == req[p].pc = pc /\ req[p].kind = kind
Start(p, r) == req[p] = Idle /\ req' = [req EXCEPT ![p] = r]
Step(p, pc) == req' = [req EXCEPT ![p].pc = pc]
Finish(p) == req' = [req EXCEPT ![p] = Idle]

Writing == {p \in Request : req[p].pc = "event"}
LockedTeacher(t) == \E p \in Writing : req[p].teacher = t
(* An uncommitted entry of the unique index, new or old.                   *)
LockedProfile(a) == \E p \in Writing : req[p].profile = a

HolderOf(a) == {t \in Teacher : a \in teacher[t].profile}

(* bootstrapFirstAdmin: only where there is no account yet.                *)
Bootstrap(a) ==
  /\ \A b \in Profile : role[b] = {}
  /\ role' = [role EXCEPT ![a] = {"admin"}]
  /\ UNCHANGED <<teacher, last, req>>

(* The invitation makes the profile, of any role.                          *)
Invite(a, r) ==
  /\ role[a] = {} /\ Admins # {}
  /\ role' = [role EXCEPT ![a] = {r}]
  /\ UNCHANGED <<teacher, last, req>>

CreateTeacher(t, status) ==
  /\ teacher[t].status = "absent"
  /\ teacher' = [teacher EXCEPT ![t].status = status]
  /\ UNCHANGED <<role, last, req>>

(* PUT /teachers keeps the account, whatever the status becomes.           *)
UpdateTeacher(t, status) ==
  /\ Exists(t) /\ ~LockedTeacher(t)
  /\ teacher' = [teacher EXCEPT ![t].status = status]
  /\ UNCHANGED <<role, last, req>>

(* DELETE /teachers takes the link with the row, without an event.         *)
DeleteTeacher(t) ==
  /\ Exists(t) /\ ~LockedTeacher(t)
  /\ teacher' = [teacher EXCEPT ![t] = [status |-> "deleted", profile |-> {}]]
  /\ UNCHANGED <<role, last, req>>

(* The reads of link: a refused request, and one that finds the link made, *)
(* changes nothing.                                                        *)
ReadLink(p, actor, t, a) ==
  /\ Is(actor, "admin")
  /\ teacher[t].status = "Ativo" /\ Is(a, "teacher")
  /\ teacher[t].profile = {} /\ HolderOf(a) = {}
  /\ Start(p, [pc |-> "cas", kind |-> "link", teacher |-> t, profile |-> a])
  /\ UNCHANGED <<role, teacher, last>>

ReadUnlink(p, actor, t) ==
  /\ Is(actor, "admin")
  /\ \E a \in teacher[t].profile :
       Start(p, [pc |-> "cas", kind |-> "unlink", teacher |-> t, profile |-> a])
  /\ UNCHANGED <<role, teacher, last>>

(* Mutant: the UPDATE goes by the id of the teacher alone.                 *)
WriteByIdAlone(p) == Exists(req[p].teacher)

(* The WHERE of the two updates and the unique index on the account.       *)
MayWrite(p) ==
  LET row == teacher[req[p].teacher] IN
  IF req[p].kind = "link"
  THEN row.profile = {} /\ row.status = "Ativo" /\ HolderOf(req[p].profile) = {}
  ELSE row.profile = {req[p].profile}

WriteTeacher(p) ==
  /\ req[p].pc = "cas"
  /\ ~LockedTeacher(req[p].teacher) /\ ~LockedProfile(req[p].profile)
  /\ IF MayWrite(p) THEN Step(p, "event") ELSE Finish(p)
  /\ UNCHANGED <<role, teacher, last>>

(* The INSERT of the event and the commit of both.                         *)
CommitLink(p) ==
  /\ At(p, "event", "link")
  /\ teacher' = [teacher EXCEPT ![req[p].teacher].profile = {req[p].profile}]
  /\ last' = [last EXCEPT ![req[p].teacher] =
                {[action |-> "LINK", profile |-> req[p].profile]}]
  /\ Finish(p)
  /\ UNCHANGED role

CommitUnlink(p) ==
  /\ At(p, "event", "unlink")
  /\ teacher' = [teacher EXCEPT ![req[p].teacher].profile = {}]
  /\ last' = [last EXCEPT ![req[p].teacher] =
                {[action |-> "UNLINK", profile |-> req[p].profile]}]
  /\ Finish(p)
  /\ UNCHANGED role

(* Counts the administrators first and writes the role later.              *)
CheckRole(p, actor, a, next) ==
  /\ Is(actor, "admin") /\ actor # a
  /\ role[a] # {} /\ ~Is(a, next)
  /\ Is(a, "admin") => Cardinality(Admins) > 1
  /\ Start(p, [pc |-> "role", profile |-> a, next |-> next])
  /\ UNCHANGED <<role, teacher, last>>

WriteRole(p) ==
  /\ req[p].pc = "role"
  /\ role' = [role EXCEPT ![req[p].profile] = {req[p].next}]
  /\ Finish(p)
  /\ UNCHANGED <<teacher, last>>

Abort(p) == req[p] # Idle /\ Finish(p) /\ UNCHANGED <<role, teacher, last>>

Next ==
  \/ \E a \in Profile : Bootstrap(a) \/ \E r \in Role : Invite(a, r)
  \/ \E t \in Teacher :
       \/ \E status \in Status : CreateTeacher(t, status) \/ UpdateTeacher(t, status)
       \/ DeleteTeacher(t)
  \/ \E p \in Request, actor \in Profile :
       \/ \E t \in Teacher :
            ReadUnlink(p, actor, t) \/ \E a \in Profile : ReadLink(p, actor, t, a)
       \/ \E a \in Profile, next \in Role : CheckRole(p, actor, a, next)
  \/ \E p \in Request :
       \/ WriteTeacher(p) \/ CommitLink(p) \/ CommitUnlink(p)
       \/ WriteRole(p) \/ Abort(p)

Spec == Init /\ [][Next]_vars

-----------------------------------------------------------------------------

(* The trail of a teacher tells its story without gaps, whoever links and  *)
(* unlinks at the same time: it ends with what holds, a link is written    *)
(* only where none stands, and an unlink names the account that stands.    *)
TrailAgrees ==
  /\ \A t \in Teacher : Exists(t) =>
       teacher[t].profile = {e.profile : e \in {f \in last[t] : f.action = "LINK"}}
  /\ \A p \in Writing :
       IF req[p].kind = "link"
       THEN \A e \in last[req[p].teacher] : e.action = "UNLINK"
       ELSE last[req[p].teacher] = {[action |-> "LINK", profile |-> req[p].profile]}

(* Refuted.  Once there are accounts, one of them is an administrator.     *)
AdminRemains == (\E a \in Profile : role[a] # {}) => Admins # {}
=============================================================================
