------------------------------- MODULE Roster -------------------------------
(***************************************************************************)
(* The enrolments of students in classes (student_classes) and what a      *)
(* teacher sees of them.  Every enrolment in force is a primary one, so    *)
(* is_primary is "open" here.  PUT /students and the transfer of a student *)
(* read the enrolments in force first and write in a transaction later.    *)
(***************************************************************************)
EXTENDS Naturals, FiniteSets

CONSTANTS
  Student, Class,
  Link,     \* bound: ids of student_classes
  Request   \* requests in progress at the same time

VARIABLES
  status,  \* students.status
  link,    \* student_classes
  plan     \* per request, what it is about to write

vars == <<status, link, plan>>

Present == {"Ativo", "Inativo"}
Row == [id : Link, student : Student, class : Class, open : BOOLEAN]

(* "close" and "create" for PUT /students, "close" by id for a transfer.   *)
Plan == [kind : {"update", "transfer"}, student : Student,
         close : SUBSET (Class \cup Link), create : SUBSET Class]

TypeOK ==
  /\ status \in [Student -> Present \cup {"absent", "deleted"}]
  /\ link \subseteq Row
  /\ plan \in [Request -> SUBSET Plan]

Init ==
  /\ status = [s \in Student |-> "absent"]
  /\ link = {}
  /\ plan = [p \in Request |-> {}]

-----------------------------------------------------------------------------

OpenOf(s) == {k \in link : k.student = s /\ k.open}
Classes(s) == {k.class : k \in OpenOf(s)}
Enrolled(s, c) == c \in Classes(s)

(* Every row that is ever written stays, closed or not.                    *)
EverEnrolled(s, c) == \E k \in link : k.student = s /\ k.class = c

UnusedLinks == Link \ {k.id : k \in link}
NewLinks(s, classes) ==
  {[id |-> CHOOSE i \in UnusedLinks : TRUE, student |-> s, class |-> c,
    open |-> TRUE] : c \in classes}

Closed(rows) == {[k EXCEPT !.open = FALSE] : k \in rows}

(* The partial unique index on the primary enrolment in force.             *)
OnePrimary(table) ==
  \A k, l \in table : k.student = l.student /\ k.open /\ l.open => k = l

-----------------------------------------------------------------------------

(* POST /students: the student and its enrolment in one transaction.       *)
CreateStudent(s, classes) ==
  /\ status[s] = "absent"
  /\ classes # {} => UnusedLinks # {}
  /\ status' = [status EXCEPT ![s] = "Ativo"]
  /\ link' = link \cup NewLinks(s, classes)
  /\ UNCHANGED plan

(* StudentClassAssignmentPolicy.plan: "next" is no class or one class.     *)
PlanUpdate(p, s, next) ==
  /\ plan[p] = {}
  /\ status[s] \in Present
  /\ plan' = [plan EXCEPT ![p] =
       {[kind |-> "update", student |-> s, close |-> Classes(s) \ next,
         create |-> next \ Classes(s)]}]
  /\ UNCHANGED <<status, link>>

(* Mutant: the enrolments in force are created without the index.          *)
UpdateWithoutIndex(p, new) ==
  \E pl \in plan[p] :
    LET leaving == {k \in OpenOf(pl.student) : k.class \in pl.close} IN
    /\ pl.kind = "update"
    /\ pl.create # {} => UnusedLinks # {}
    /\ status' = [status EXCEPT ![pl.student] = new]
    /\ link' = (link \ leaving) \cup Closed(leaving)
                 \cup NewLinks(pl.student, pl.create)
    /\ plan' = [plan EXCEPT ![p] = {}]

(* Mutant: the enrolments that end are deleted.                            *)
UpdateDeletes(p, new) ==
  \E pl \in plan[p] :
    /\ pl.kind = "update"
    /\ pl.create # {} => UnusedLinks # {}
    /\ status' = [status EXCEPT ![pl.student] = new]
    /\ link' = {k \in link : k.student # pl.student \/ k.class \notin pl.close}
    /\ plan' = [plan EXCEPT ![p] = {}]

(* PUT /students: closes what the plan names and creates the next one; the *)
(* existing enrolment it meant to keep may have been closed meanwhile.     *)
UpdateStudent(p, new) ==
  \E pl \in plan[p] :
    LET leaving == {k \in OpenOf(pl.student) : k.class \in pl.close}
        table == (link \ leaving) \cup Closed(leaving)
                   \cup NewLinks(pl.student, pl.create)
    IN
    /\ pl.kind = "update"
    /\ pl.create # {} => UnusedLinks # {}
    /\ IF status[pl.student] \in Present /\ OnePrimary(table)
       THEN status' = [status EXCEPT ![pl.student] = new] /\ link' = table
       ELSE UNCHANGED <<status, link>>
    /\ plan' = [plan EXCEPT ![p] = {}]

PlanTransfer(p, s, from, to) ==
  \E k \in OpenOf(s) :
    /\ plan[p] = {}
    /\ k.class = from
    /\ ~Enrolled(s, to)
    /\ plan' = [plan EXCEPT ![p] =
         {[kind |-> "transfer", student |-> s, close |-> {k.id},
           create |-> {to}]}]
    /\ UNCHANGED <<status, link>>

(* The row is closed by its id, whether or not it is still open, and the   *)
(* enrolment in the target class is a new row.                             *)
TransferStudent(p) ==
  \E pl \in plan[p] :
    LET leaving == {k \in link : k.id \in pl.close}
        table == (link \ leaving) \cup Closed(leaving)
                   \cup NewLinks(pl.student, pl.create)
    IN
    /\ pl.kind = "transfer"
    /\ UnusedLinks # {}
    /\ link' = IF OnePrimary(table) THEN table ELSE link
    /\ plan' = [plan EXCEPT ![p] = {}]
    /\ UNCHANGED status

(* DELETE /students: a foreign key keeps a student that was ever enrolled, *)
(* and so one with attendance; other tables could only refuse more.        *)
DeleteStudent(s) ==
  /\ status[s] \in Present
  /\ \A k \in link : k.student # s
  /\ status' = [status EXCEPT ![s] = "deleted"]
  /\ UNCHANGED <<link, plan>>

Abort(p) ==
  /\ plan[p] # {}
  /\ plan' = [plan EXCEPT ![p] = {}]
  /\ UNCHANGED <<status, link>>

NextClass == {{}} \cup {{c} : c \in Class}

Next ==
  \/ \E s \in Student, next \in NextClass :
       \/ CreateStudent(s, next)
       \/ \E p \in Request : PlanUpdate(p, s, next)
  \/ \E p \in Request, s \in Student, from, to \in Class : PlanTransfer(p, s, from, to)
  \/ \E p \in Request :
       (\E new \in Present : UpdateStudent(p, new)) \/ TransferStudent(p) \/ Abort(p)
  \/ \E s \in Student : DeleteStudent(s)

Spec == Init /\ [][Next]_vars

-----------------------------------------------------------------------------

(* A student is in at most one class, whatever plans were made on          *)
(* enrolments that have changed since.                                     *)
EnrolledOnce == \A s \in Student : Cardinality(OpenOf(s)) <= 1

(* The history of enrolments only grows, and what is closed stays closed:  *)
(* no late transfer or update reopens an enrolment that has ended.         *)
HistoryKept ==
  [][\A k \in link : \E l \in link' :
       /\ l.id = k.id /\ l.student = k.student /\ l.class = k.class
       /\ l.open => k.open]_vars
=============================================================================
