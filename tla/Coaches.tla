------------------------------ MODULE Coaches ------------------------------
(***************************************************************************)
(* The coaches of the classes: rows of class_teachers with a role.  Every  *)
(* operation but PUT reads the roster, plans on it, and applies the plan   *)
(* in a transaction that goes by the ids of the rows it read.              *)
(*                                                                         *)
(* The steps that interleave are the read and the transaction: inside the  *)
(* transaction the row locks and the unique indexes keep others away from  *)
(* the rows it touches.  A statement that finds no row, or an index that   *)
(* refuses one, rolls all of it back.                                      *)
(***************************************************************************)
EXTENDS Naturals, Sequences, SequencesExt

CONSTANTS
  Class, Teacher,
  RowId,    \* bound: ids of class_teachers; an id nobody refers to is new
  Request   \* requests in progress at the same time

VARIABLES
  coaches,  \* class_teachers
  req

vars == <<coaches, req>>

TeacherRole == {"head_coach", "assistant_coach"}
Coach == [id : RowId, class : Class, teacher : Teacher, role : TeacherRole]

Kind == {"add", "role", "remove", "transfer"}

(* A plan: the row it starts from, and the rows to promote or demote.      *)
Plan == [kind : Kind, class : Class, to : Class, teacher : Teacher,
         role : TeacherRole, rows : SUBSET RowId, other : SUBSET RowId]

TypeOK ==
  /\ coaches \subseteq Coach
  /\ req \in [Request -> SUBSET Plan]
  /\ \A p \in Request : Cardinality(req[p]) <= 1

Init ==
  /\ coaches = {}
  /\ req = [p \in Request |-> {}]

-----------------------------------------------------------------------------

Roster(c) == {k \in coaches : k.class = c}
Heads(c) == {k \in Roster(c) : k.role = "head_coach"}
Assigned(c, t) == {k \in Roster(c) : k.teacher = t}
Ids(rows) == {k.id : k \in rows}

(* Ids for new rows, when the rows of "table" stay: none that a row or a   *)
(* plan refers to, and it does not matter which.                           *)
Plans == UNION {req[p] : p \in Request}
Unused(table) ==
  RowId \ (Ids(table) \cup UNION {pl.rows \cup pl.other : pl \in Plans})
NewIds(table, n) ==
  CHOOSE ids \in SUBSET Unused(table) : Cardinality(ids) = n
NewRow(table, c, t, role) ==
  {[id |-> i, class |-> c, teacher |-> t, role |-> role] : i \in NewIds(table, 1)}

(* UPDATE ... SET role WHERE id: refused (P2025) when a row is gone.       *)
AllPresent(ids) == ids \subseteq Ids(coaches)
WithRole(table, ids, role) ==
  {IF k.id \in ids THEN [k EXCEPT !.role = role] ELSE k : k \in table}

(* The unique (class, teacher) and the partial unique index on the head.   *)
OneRowPerTeacher(table) ==
  \A k, l \in table : k.class = l.class /\ k.teacher = l.teacher => k = l
(* Mutant: the database has no partial index on the head coach.            *)
IndexesWithoutHead(table) == OneRowPerTeacher(table)
Indexes(table) ==
  /\ OneRowPerTeacher(table)
  /\ \A k, l \in table :
       k.class = l.class /\ k.role = "head_coach" /\ l.role = "head_coach" => k = l

Planned(p, kind) == \E pl \in req[p] : pl.kind = kind
ThePlan(p) == CHOOSE pl \in req[p] : TRUE

(* Commits a table that the statements could build, else rolls back.       *)
Commit(p, possible, table) ==
  /\ coaches' = IF possible /\ Indexes(table) THEN table ELSE coaches
  /\ req' = [req EXCEPT ![p] = {}]

Read(p, pl) == req[p] = {} /\ req' = [req EXCEPT ![p] = {pl}] /\ UNCHANGED coaches

-----------------------------------------------------------------------------

(* resolveAddedRole: a second head coach comes in as an assistant.         *)
AddedRole(c, role) == IF Heads(c) # {} THEN "assistant_coach" ELSE role

PlanAdd(p, c, t, role) ==
  /\ Assigned(c, t) = {}
  /\ Read(p, [kind |-> "add", class |-> c, to |-> c, teacher |-> t,
              role |-> AddedRole(c, role), rows |-> {}, other |-> {}])

(* planRoleUpdate: the head coach that a new one displaces.                *)
PlanRole(p, c, t, role) ==
  /\ Assigned(c, t) # {}
  /\ Read(p, [kind |-> "role", class |-> c, to |-> c, teacher |-> t,
              role |-> role, rows |-> Ids(Assigned(c, t)),
              other |-> IF role = "head_coach"
                        THEN Ids(Heads(c) \ Assigned(c, t)) ELSE {}])

(* planRemoval and planTransfer: who takes over from a head coach, the     *)
(* first of the others in an order that the query leaves to the rows.      *)
Successors(c, t) ==
  IF \E k \in Assigned(c, t) : k.role = "head_coach"
  THEN {{k.id} : k \in Roster(c) \ Assigned(c, t)} ELSE {}

PlanRemoval(p, c, t) ==
  /\ Assigned(c, t) # {}
  /\ \E next \in IF Successors(c, t) = {} THEN {{}} ELSE Successors(c, t) :
       Read(p, [kind |-> "remove", class |-> c, to |-> c, teacher |-> t,
                role |-> "assistant_coach", rows |-> Ids(Assigned(c, t)),
                other |-> next])

PlanTransfer(p, c, to, t) ==
  /\ Assigned(c, t) # {} /\ Assigned(to, t) = {}
  /\ \E k \in Assigned(c, t),
        next \in IF Successors(c, t) = {} THEN {{}} ELSE Successors(c, t) :
       Read(p, [kind |-> "transfer", class |-> c, to |-> to, teacher |-> t,
                role |-> AddedRole(to, k.role), rows |-> {k.id}, other |-> next])

AddTeacher(p) ==
  LET pl == ThePlan(p) IN
  /\ Planned(p, "add")
  /\ Unused(coaches) # {}
  /\ Commit(p, TRUE, coaches \cup NewRow(coaches, pl.class, pl.teacher, pl.role))

UpdateTeacherRole(p) ==
  LET pl == ThePlan(p) IN
  /\ Planned(p, "role")
  /\ Commit(p, AllPresent(pl.rows \cup pl.other),
            WithRole(WithRole(coaches, pl.other, "assistant_coach"), pl.rows, pl.role))

Without(c, t) == coaches \ Assigned(c, t)

(* Mutant: the removal is not in one transaction with the promotion.       *)
RemoveThenPromote(p) ==
  LET pl == ThePlan(p)
      promoted == WithRole(Without(pl.class, pl.teacher), pl.other, "head_coach") IN
  /\ Planned(p, "remove")
  /\ Commit(p, TRUE, IF Indexes(promoted) THEN promoted
                     ELSE Without(pl.class, pl.teacher))

RemoveTeacher(p) ==
  LET pl == ThePlan(p) IN
  /\ Planned(p, "remove")
  /\ Commit(p, pl.other \subseteq Ids(Without(pl.class, pl.teacher)),
            WithRole(Without(pl.class, pl.teacher), pl.other, "head_coach"))

TransferTeacher(p) ==
  LET pl == ThePlan(p) IN
  /\ Planned(p, "transfer")
  /\ Unused(coaches) # {}
  /\ Commit(p, pl.other \subseteq Ids(Without(pl.class, pl.teacher)),
            WithRole(Without(pl.class, pl.teacher), pl.other, "head_coach")
              \cup NewRow(coaches, pl.to, pl.teacher, pl.role))

(* normalizeAssignments: the first head coach of the list stays one.       *)
Normalized(list) ==
  [i \in DOMAIN list |->
     [list[i] EXCEPT !.role =
        IF list[i].role = "head_coach" /\ \A j \in 1..(i - 1) : list[j].role # "head_coach"
        THEN "head_coach" ELSE "assistant_coach"]]

(* replaceRelations of POST and PUT /classes: delete all, insert the list. *)
ReplaceTeachers(c, list) ==
  LET kept == coaches \ Roster(c)
      rows == {[id |-> SetToSeq(NewIds(kept, Len(list)))[i], class |-> c,
                teacher |-> Normalized(list)[i].teacher,
                role |-> Normalized(list)[i].role] : i \in DOMAIN list}
  IN
  /\ Cardinality(Unused(kept)) >= Len(list)
  /\ Indexes(kept \cup rows)
  /\ coaches' = kept \cup rows
  /\ UNCHANGED req

(* The process dies, or the database gives up on the transaction.          *)
Abort(p) == req[p] # {} /\ req' = [req EXCEPT ![p] = {}] /\ UNCHANGED coaches

Assignment == [teacher : Teacher, role : TeacherRole]
Lists == UNION {[1..n -> Assignment] : n \in 0..Cardinality(Teacher)}

Next ==
  \/ \E p \in Request, c \in Class, t \in Teacher :
       \/ \E role \in TeacherRole : PlanAdd(p, c, t, role) \/ PlanRole(p, c, t, role)
       \/ PlanRemoval(p, c, t)
       \/ \E to \in Class : PlanTransfer(p, c, to, t)
  \/ \E p \in Request :
       \/ AddTeacher(p) \/ UpdateTeacherRole(p) \/ RemoveTeacher(p)
       \/ TransferTeacher(p) \/ Abort(p)
  \/ \E c \in Class, list \in Lists : ReplaceTeachers(c, list)

Spec == Init /\ [][Next]_vars

-----------------------------------------------------------------------------

(* A class has at most one head coach, whatever the rosters were on which  *)
(* the promotions in progress were planned.                                *)
OneHeadCoach == \A c \in Class : Cardinality(Heads(c)) <= 1

(* A request that takes a coach out of a class has also done the rest of   *)
(* its plan: the successor is head coach, the moved coach is in the class  *)
(* it moved to.  A stale plan takes nobody out.                            *)
HandOverComplete ==
  [][\A p \in Request, pl \in UNION {req[q] : q \in Request} :
       /\ req[p] = {pl} /\ req'[p] = {}
       /\ pl.kind \in {"remove", "transfer"}
       /\ pl.rows \subseteq Ids(coaches) /\ pl.rows \cap Ids(coaches)' = {}
       => /\ \A k \in coaches' : k.id \in pl.other => k.role = "head_coach"
          /\ pl.other \subseteq Ids(coaches)'
          /\ pl.kind = "transfer" => Assigned(pl.to, pl.teacher)' # {}]_vars
=============================================================================
