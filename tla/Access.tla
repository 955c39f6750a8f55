------------------------------- MODULE Access -------------------------------
(***************************************************************************)
(* What a request may read: the guards in their order (session, role,      *)
(* attendance scope) and the query, each a step, while roles, sessions,    *)
(* assignments of coaches and enrolments change between them.  A teacher   *)
(* reads students and attendance of the classes that the teacher coaches;  *)
(* an administrator reads everything, through a cache.                     *)
(***************************************************************************)
EXTENDS FiniteSets

CONSTANTS User, Class, Student, Request

VARIABLES
  role, session,  \* per user: profiles.role, and whether the session is active
  coach,          \* <<u, c>>: an active teacher of account u coaches c
  enrolled,       \* <<s, c>>: enrolments in force
  cache,          \* the cached answer to each key, if any
  req,
  seen            \* per request, the students that its user could see since

world == <<role, session, coach, enrolled>>
vars == <<world, cache, req, seen>>

Role == {"admin", "teacher", "user"}
Route == {"students", "student", "birthdays", "attendance", "photo"}
Key == User \cup {"admin"}
Opt(S) == {{}} \cup {{x} : x \in S}

RequestState ==
  [pc : {"session", "role", "scope", "query", "load", "answered"}, user : User,
   route : Route, class : Class, student : Student,
   as : Opt(Role),           \* the role that RolesGuard read
   answer : SUBSET Student]  \* the students in the rows of the answer

TypeOK ==
  /\ role \in [User -> Role] /\ session \in [User -> BOOLEAN]
  /\ coach \subseteq User \X Class
  /\ enrolled \subseteq Student \X Class
  /\ cache \in [Key -> Opt(SUBSET Student)]
  /\ req \in [Request -> Opt(RequestState)]
  /\ seen \in [Request -> SUBSET Student]

Init ==
  /\ role = [u \in User |-> "teacher"] /\ session = [u \in User |-> TRUE]
  /\ coach = {} /\ enrolled = {}
  /\ cache = [k \in Key |-> {}]
  /\ req = [p \in Request |-> {}]
  /\ seen = [p \in Request |-> {}]

-----------------------------------------------------------------------------
(* The world that changes under the requests                               *)

SetRole(u, r) ==
  role' = [role EXCEPT ![u] = r] /\ UNCHANGED <<session, coach, enrolled, cache, req>>
SetSession(u) ==
  session' = [session EXCEPT ![u] = ~@] /\ UNCHANGED <<role, coach, enrolled, cache, req>>
SetCoach(u, c) ==
  /\ coach' = IF <<u, c>> \in coach THEN coach \ {<<u, c>>} ELSE coach \cup {<<u, c>>}
  /\ UNCHANGED <<role, session, enrolled, cache, req>>

(* A student has one class at most; a form of the student drops the lists. *)
SetEnrolled(s, classes) ==
  /\ enrolled' = {k \in enrolled : k[1] # s} \cup ({s} \X classes)
  /\ cache' \in {[k \in Key |-> {}], cache}
  /\ UNCHANGED <<role, session, coach, req>>

Evict(k) == cache' = [cache EXCEPT ![k] = {}] /\ UNCHANGED <<world, req>>

-----------------------------------------------------------------------------
(* The pipeline of a request                                               *)

In(p, pc) == \E r \in req[p] : r.pc = pc
R(p) == CHOOSE r \in req[p] : TRUE
Goto(p, r) == req' = [req EXCEPT ![p] = {r}]
Refuse(p) == req' = [req EXCEPT ![p] = {}]

Send(p, u, route, c, s) ==
  /\ req[p] = {}
  /\ Goto(p, [pc |-> "session", user |-> u, route |-> route, class |-> c,
              student |-> s, as |-> {}, answer |-> {}])
  /\ UNCHANGED <<world, cache>>

JwtAuthGuard(p) ==
  /\ In(p, "session")
  /\ IF session[R(p).user] THEN Goto(p, [R(p) EXCEPT !.pc = "role"]) ELSE Refuse(p)
  /\ UNCHANGED <<world, cache>>

(* The routes that the permissions of a role open: images take             *)
(* uploads:write, which a teacher does not have and a plain user has.      *)
Permissions(r) ==
  IF r = "admin" THEN Route
  ELSE IF r = "teacher" THEN Route \ {"photo"} ELSE {"photo"}

PermissionsGuard(p, r) == R(p).route \in Permissions(r)

(* RolesGuard, then PermissionsGuard: the role in the database decides,    *)
(* and it stays with the request.  Of these routes none has a @Roles that  *)
(* is narrower than its permission.                                        *)
RolesGuard(p) ==
  LET now == role[R(p).user] IN
  /\ In(p, "role")
  /\ IF PermissionsGuard(p, now)
     THEN Goto(p, [R(p) EXCEPT !.as = {now},
                     !.pc = IF R(p).route = "attendance" THEN "scope" ELSE "query"])
     ELSE Refuse(p)
  /\ UNCHANGED <<world, cache>>

As(p, r) == R(p).as = {r}
Coaches(u) == {c \in Class : <<u, c>> \in coach}
StudentsOf(u) == {s \in Student : \E c \in Coaches(u) : <<s, c>> \in enrolled}

(* TeacherAttendanceScopeGuard                                             *)
ScopeGuard(p) ==
  /\ In(p, "scope")
  /\ IF As(p, "admin") \/ R(p).class \in Coaches(R(p).user)
     THEN Goto(p, [R(p) EXCEPT !.pc = "query"]) ELSE Refuse(p)
  /\ UNCHANGED <<world, cache>>

(* Mutant: the lists of a teacher are cached under a key of their own.     *)
CachesEveryList(p) ==
  IF R(p).route # "students" THEN {}
  ELSE IF As(p, "admin") THEN {"admin"} ELSE {R(p).user}
(* Only the lists of administrators are cached.  The attendance lists do   *)
(* the same under keys of their own, left out here.                        *)
CacheKeys(p) ==
  IF R(p).route = "students" /\ As(p, "admin") THEN {"admin"} ELSE {}
Hits(p) == UNION {cache[k] : k \in CacheKeys(p)}

Hit(p) ==
  /\ In(p, "query")
  /\ \E rows \in Hits(p) : Goto(p, [R(p) EXCEPT !.pc = "answered", !.answer = rows])
  /\ UNCHANGED <<world, cache>>

Miss(p) ==
  /\ In(p, "query")
  /\ Hits(p) = {}
  /\ Goto(p, [R(p) EXCEPT !.pc = "load"])
  /\ UNCHANGED <<world, cache>>

(* Birthdays have a query of their own, in SQL; R(p).student stands for    *)
(* the students whose birthday is near.                                    *)
Birthdays(p) ==
  {s \in {R(p).student} :
     \/ As(p, "admin")
     \/ \E c \in Class : <<s, c>> \in enrolled /\ <<R(p).user, c>> \in coach}

(* The photo of a student: the role that the request carries is not enough,*)
(* it is read once more, and only an administrator sees the image.         *)
Photo(p) == IF role[R(p).user] = "admin" THEN {R(p).student} ELSE {}

(* The WHERE of the queries: what a teacher asks for is joined with the    *)
(* classes of the teacher, whatever the guards found before.               *)
Matching(p) ==
  LET asked == IF R(p).route = "student" THEN {R(p).student}
               ELSE IF R(p).route = "students" THEN Student
               ELSE {s \in Student : <<s, R(p).class>> \in enrolled}
  IN IF R(p).route = "birthdays" THEN Birthdays(p)
     ELSE IF R(p).route = "photo" THEN Photo(p)
     ELSE IF As(p, "admin") THEN asked
     ELSE IF R(p).route = "attendance"
          THEN {s \in asked : R(p).class \in Coaches(R(p).user)}
          ELSE asked \cap StudentsOf(R(p).user)

Load(p) ==
  /\ In(p, "load")
  /\ Goto(p, [R(p) EXCEPT !.pc = "answered", !.answer = Matching(p)])
  /\ cache' = [k \in Key |-> IF k \in CacheKeys(p) THEN {Matching(p)} ELSE cache[k]]
  /\ UNCHANGED world

Done(p) == In(p, "answered") /\ Refuse(p) /\ UNCHANGED <<world, cache>>

-----------------------------------------------------------------------------

(* What a user may see now, were the request handled in an instant.        *)
Scope(u) == IF role[u] = "admin" THEN Student ELSE StudentsOf(u)

Watch ==
  seen' = [p \in Request |->
    IF req'[p] = {} THEN {}
    ELSE UNION {(IF req[p] = {} THEN {} ELSE seen[p]) \cup Scope(r.user)' : r \in req'[p]}]

Next ==
  /\ \/ \E u \in User :
          \/ SetSession(u)
          \/ \E r \in Role : SetRole(u, r)
          \/ \E c \in Class : SetCoach(u, c)
     \/ \E s \in Student, classes \in Opt(Class) : SetEnrolled(s, classes)
     \/ \E k \in Key : Evict(k)
     \/ \E p \in Request :
          \/ \E u \in User, route \in Route, c \in Class, s \in Student : Send(p, u, route, c, s)
          \/ JwtAuthGuard(p) \/ RolesGuard(p) \/ ScopeGuard(p)
          \/ Hit(p) \/ Miss(p) \/ Load(p) \/ Done(p)
  /\ Watch

Spec == Init /\ [][Next]_vars

-----------------------------------------------------------------------------

(* "Revoking a class assignment must take effect on the next request":     *)
(* whatever changes while a request runs, and whatever was cached before,  *)
(* every student in an answer was in the scope of the user at some moment  *)
(* since the request was sent.                                             *)
AnswersWithinScope ==
  \A p \in Request : \A r \in req[p] : r.answer \subseteq seen[p]
=============================================================================
