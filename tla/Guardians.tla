----------------------------- MODULE Guardians -----------------------------
(***************************************************************************)
(* Which adults answer for a student (student_guardians).  The form of an  *)
(* adult syncs the links of that adult alone; the form of a student names  *)
(* its principal.  An adult's form reads who has a principal and inserts   *)
(* later, skipping every row that an index refuses.  The UPDATE of the     *)
(* adult or student that comes first serialises forms of the same record.  *)
(***************************************************************************)
EXTENDS Naturals, FiniteSets

CONSTANTS Student, Parent, Request

VARIABLES
  student,  \* the students that exist
  parent,   \* the adults that exist
  link,     \* student_guardians
  form      \* per request, the adult's form it is about to write

vars == <<student, parent, link, form>>

Form == [parent : Parent, children : SUBSET Student, add : SUBSET Student,
         first : SUBSET Student]  \* the added ones that had no principal

TypeOK ==
  /\ student \subseteq Student
  /\ parent \subseteq Parent
  /\ link \subseteq [student : student, parent : parent, primary : BOOLEAN]
  /\ form \in [Request -> SUBSET Form]

Init ==
  /\ student = {} /\ parent = {} /\ link = {}
  /\ form = [p \in Request |-> {}]

-----------------------------------------------------------------------------

Of(a) == {k \in link : k.parent = a}
Children(a) == {k.student : k \in Of(a)}
Principals(s) == {k \in link : k.student = s /\ k.primary}
InForm(a) == \E p \in Request : \E f \in form[p] : f.parent = a

(* syncChildren up to the reads: an unknown child refuses the whole form.  *)
ReadForm(p, a, children) ==
  /\ form[p] = {}
  /\ ~InForm(a)
  /\ children \subseteq student
  /\ form' = [form EXCEPT ![p] =
       {[parent |-> a, children |-> children, add |-> children \ Children(a),
         first |-> {s \in children \ Children(a) : Principals(s) = {}}]}]
  /\ UNCHANGED <<student, link>>

(* POST /parents: the row of the adult commits with its links.             *)
CreateParent(p, a, children) ==
  a \notin parent /\ ReadForm(p, a, children) /\ UNCHANGED parent

UpdateParent(p, a, children) ==
  a \in parent /\ ReadForm(p, a, children) /\ UNCHANGED parent

NewLink(s, f) == [student |-> s, parent |-> f.parent, primary |-> s \in f.first]

(* Mutant: a refused row is no reason to skip it.                          *)
InsertAll(table, f) == table \cup {NewLink(s, f) : s \in f.add}

(* createMany with skipDuplicates: ON CONFLICT DO NOTHING on both indexes. *)
InsertNew(table, f) ==
  table \cup
  {NewLink(s, f) : s \in {c \in f.add :
     /\ \A k \in table : ~(k.student = c /\ k.parent = f.parent)
     /\ c \in f.first => \A k \in table : ~(k.student = c /\ k.primary)}}

WriteForm(p) ==
  \E f \in form[p] :
    LET kept == {k \in link : k.parent = f.parent => k.student \in f.children} IN
    /\ IF f.add \subseteq student
       THEN link' = InsertNew(kept, f) /\ parent' = parent \cup {f.parent}
       ELSE UNCHANGED <<link, parent>>
    /\ form' = [form EXCEPT ![p] = {}]
    /\ UNCHANGED student

(* The form of a student: demote the principal, then name the next one.    *)
WithPrincipal(s, next) ==
  {IF k.student = s THEN [k EXCEPT !.primary = FALSE] ELSE k :
     k \in {l \in link : ~(l.student = s /\ l.parent \in next)}}
  \cup [student : {s}, parent : next, primary : {TRUE}]

CreateStudent(s, next) ==
  /\ s \notin student
  /\ next \subseteq parent
  /\ student' = student \cup {s}
  /\ link' = link \cup [student : {s}, parent : next, primary : {TRUE}]
  /\ UNCHANGED <<parent, form>>

UpdateStudent(s, next) ==
  /\ s \in student
  /\ next \subseteq parent
  /\ link' = WithPrincipal(s, next)
  /\ UNCHANGED <<student, parent, form>>

(* Deletions cascade to the links and to nothing else.                     *)
DeleteParent(a) ==
  /\ a \in parent /\ ~InForm(a)
  /\ parent' = parent \ {a}
  /\ link' = link \ Of(a)
  /\ UNCHANGED <<student, form>>

DeleteStudent(s) ==
  /\ s \in student
  /\ student' = student \ {s}
  /\ link' = {k \in link : k.student # s}
  /\ UNCHANGED <<parent, form>>

Abort(p) ==
  /\ form[p] # {}
  /\ form' = [form EXCEPT ![p] = {}]
  /\ UNCHANGED <<student, parent, link>>

Next ==
  \/ \E p \in Request, a \in Parent, children \in SUBSET Student :
       CreateParent(p, a, children) \/ UpdateParent(p, a, children)
  \/ \E p \in Request : WriteForm(p) \/ Abort(p)
  \/ \E s \in Student, next \in {{}} \cup {{a} : a \in Parent} :
       CreateStudent(s, next) \/ UpdateStudent(s, next)
  \/ \E a \in Parent : DeleteParent(a)
  \/ \E s \in Student : DeleteStudent(s)

Spec == Init /\ [][Next]_vars

-----------------------------------------------------------------------------

(* A student has at most one principal guardian, also when two adults who  *)
(* each found none are linked at the same time.                            *)
OnePrincipal == \A s \in Student : Cardinality(Principals(s)) <= 1
=============================================================================
