--------------------------- MODULE Classes_proofs ---------------------------
(***************************************************************************)
(* Proofs about who teaches and who attends which class: enrolments        *)
(* (Roster), guardians, coaches and attendance.  They hold for all values  *)
(* of the sets that Club declares.                                         *)
(***************************************************************************)
EXTENDS Club, Sequences, FiniteSetTheorems, TLAPS

(* A set whose members are all equal is finite and counts to one at most.  *)
LEMMA AtMostOne ==
  ASSUME NEW S, \A x, y \in S : x = y
  PROVE  IsFiniteSet(S) /\ Cardinality(S) <= 1
<1>1. CASE S = {}
  <2>1. IsFiniteSet(S) /\ Cardinality(S) = 0
    BY <1>1, FS_EmptySet
  <2> QED
    BY <2>1
<1>2. CASE S # {}
  <2>1. PICK x \in S : TRUE
    BY <1>2
  <2>2. S = {x}
    BY <2>1
  <2>3. IsFiniteSet(S) /\ Cardinality(S) = 1
    BY <2>2, FS_Singleton
  <2> QED
    BY <2>3
<1> QED
  BY <1>1, <1>2

-----------------------------------------------------------------------------
(* Roster                                                                  *)

(* Rows and plans are about students that exist or existed.                *)
RoBornInv ==
  /\ \A k \in enrolment : status[k.student] # "absent"
  /\ \A p \in Request : \A pl \in plan[p] : status[pl.student] # "absent"

RoIInv == Ro!TypeOK /\ RoBornInv /\ Ro!OnePrimary(enrolment)

LEMMA RoInit == Ro!Init => RoIInv
BY DEF Ro!Init, RoIInv, Ro!TypeOK, RoBornInv, Ro!OnePrimary, Ro!Present

LEMMA RoNewLinks ==
  ASSUME NEW s \in Right, NEW classes \in SUBSET Left,
         classes # {} => Ro!UnusedLinks # {}
  PROVE  /\ Ro!NewLinks(s, classes) \subseteq Ro!Row
         /\ \A k \in Ro!NewLinks(s, classes) : k.student = s /\ k.open
<1> SUFFICES ASSUME NEW k \in Ro!NewLinks(s, classes)
             PROVE  k \in Ro!Row /\ k.student = s /\ k.open
  OBVIOUS
<1> DEFINE i == CHOOSE i \in Ro!UnusedLinks : TRUE
<1>1. PICK c \in classes : k = [id |-> i, student |-> s, class |-> c, open |-> TRUE]
  BY DEF Ro!NewLinks
<1>2. i \in RowId
  BY <1>1 DEF Ro!UnusedLinks
<1> HIDE DEF i
<1> QED
  BY <1>1, <1>2 DEF Ro!Row

(* What a plan closes stays, closed.                                       *)
LEMMA RoClosed ==
  ASSUME NEW rows \in SUBSET Ro!Row
  PROVE  /\ Ro!Closed(rows) \subseteq Ro!Row
         /\ \A k \in Ro!Closed(rows) : ~k.open /\ \E l \in rows : l.student = k.student
         /\ \A k \in rows : \E l \in Ro!Closed(rows) :
              l.id = k.id /\ l.student = k.student /\ l.class = k.class /\ ~l.open
<1> DEFINE closed(k) == [k EXCEPT !.open = FALSE]
<1>1. ASSUME NEW k \in Ro!Row
      PROVE  /\ closed(k) \in Ro!Row /\ ~closed(k).open /\ closed(k).id = k.id
             /\ closed(k).student = k.student /\ closed(k).class = k.class
  BY DEF Ro!Row
<1>2. Ro!Closed(rows) = {closed(k) : k \in rows}
  BY DEF Ro!Closed
<1> HIDE DEF closed
<1> QED
  BY <1>1, <1>2

LEMMA RoCreateStudent ==
  ASSUME RoIInv, NEW s \in Right, NEW next \in Ro!NextClass, Ro!CreateStudent(s, next)
  PROVE  RoIInv'
<1> DEFINE new == Ro!NewLinks(s, next)
<1>1. /\ status \in [Right -> Ro!Present \cup {"absent", "deleted"}]
      /\ enrolment \subseteq Ro!Row /\ plan \in [Request -> SUBSET Ro!Plan]
  BY DEF RoIInv, Ro!TypeOK
<1>2. /\ status[s] = "absent" /\ status' = [status EXCEPT ![s] = "Ativo"]
      /\ enrolment' = enrolment \cup new /\ plan' = plan
      /\ next # {} => Ro!UnusedLinks # {}
  BY DEF Ro!CreateStudent
<1>3. next \in SUBSET Left /\ \A c, d \in next : c = d
  BY DEF Ro!NextClass
<1>4. new \subseteq Ro!Row /\ \A k \in new : k.student = s /\ k.open
  BY <1>2, <1>3, RoNewLinks
<1>5. \A k, l \in new : k = l
  BY <1>3 DEF Ro!NewLinks
<1>6. \A k \in enrolment : k.student # s
  BY <1>2 DEF RoIInv, RoBornInv
<1>7. Ro!TypeOK'
  BY <1>1, <1>2, <1>4 DEF Ro!TypeOK, Ro!Present
<1>8. RoBornInv'
  BY <1>1, <1>2, <1>4 DEF RoIInv, RoBornInv, Ro!Row, Ro!Plan
<1>9. Ro!OnePrimary(enrolment')
  BY <1>2, <1>4, <1>5, <1>6 DEF RoIInv, Ro!OnePrimary
<1> QED
  BY <1>7, <1>8, <1>9 DEF RoIInv, Ro!OnePrimary

LEMMA RoUpdateStudent ==
  ASSUME RoIInv, NEW p \in Request, NEW new \in Ro!Present, Ro!UpdateStudent(p, new)
  PROVE  RoIInv'
<1> USE DEF RoIInv
<1>1. /\ status \in [Right -> Ro!Present \cup {"absent", "deleted"}]
      /\ enrolment \subseteq Ro!Row /\ plan \in [Request -> SUBSET Ro!Plan]
  BY DEF Ro!TypeOK
<1> DEFINE leaving(pl) == {k \in Ro!OpenOf(pl.student) : k.class \in pl.close}
           table(pl) == (enrolment \ leaving(pl)) \cup Ro!Closed(leaving(pl))
                          \cup Ro!NewLinks(pl.student, pl.create)
<1>2. PICK pl \in plan[p] :
        /\ pl.create # {} => Ro!UnusedLinks # {}
        /\ IF status[pl.student] \in Ro!Present /\ Ro!OnePrimary(table(pl))
           THEN status' = [status EXCEPT ![pl.student] = new] /\ enrolment' = table(pl)
           ELSE UNCHANGED <<status, enrolment>>
        /\ plan' = [plan EXCEPT ![p] = {}]
  BY DEF Ro!UpdateStudent
<1>3. pl.student \in Right /\ pl.create \in SUBSET Left
  BY <1>1 DEF Ro!Plan
<1>4. plan' \in [Request -> SUBSET Ro!Plan] /\ \A q \in Request : plan'[q] \subseteq plan[q]
  BY <1>1, <1>2
<1>5. CASE status[pl.student] \in Ro!Present /\ Ro!OnePrimary(table(pl))
  <2>1. status' = [status EXCEPT ![pl.student] = new] /\ enrolment' = table(pl)
    BY <1>2, <1>5
  <2>2. leaving(pl) \subseteq enrolment /\ leaving(pl) \in SUBSET Ro!Row
    BY <1>1 DEF Ro!OpenOf
  <2> HIDE DEF leaving
  <2>3. /\ Ro!Closed(leaving(pl)) \subseteq Ro!Row
        /\ \A k \in Ro!Closed(leaving(pl)) : \E l \in enrolment : l.student = k.student
    BY <2>2, RoClosed
  <2>4. /\ Ro!NewLinks(pl.student, pl.create) \subseteq Ro!Row
        /\ \A k \in Ro!NewLinks(pl.student, pl.create) : k.student = pl.student
    BY <1>2, <1>3, RoNewLinks
  <2>5. enrolment' \subseteq Ro!Row
    BY <1>1, <2>1, <2>3, <2>4
  <2>6. \A k \in enrolment' : k.student = pl.student \/ \E l \in enrolment : l.student = k.student
    BY <2>1, <2>3, <2>4
  <2>7. Ro!TypeOK'
    BY <1>1, <1>4, <2>1, <2>5 DEF Ro!TypeOK
  <2>8. \A s \in Right : status[s] # "absent" \/ s = pl.student => status'[s] # "absent"
    BY <1>1, <2>1 DEF Ro!Present
  <2>9. RoBornInv'
    BY <1>1, <1>4, <2>5, <2>6, <2>8 DEF RoBornInv, Ro!Row, Ro!Plan
  <2>10. Ro!OnePrimary(enrolment)'
    BY <1>5, <2>1 DEF Ro!OnePrimary
  <2> QED
    BY <2>7, <2>9, <2>10
<1>6. CASE ~(status[pl.student] \in Ro!Present /\ Ro!OnePrimary(table(pl)))
  <2>1. UNCHANGED <<status, enrolment>>
    BY <1>2, <1>6
  <2> QED
    BY <1>1, <1>4, <2>1 DEF Ro!TypeOK, RoBornInv, Ro!OnePrimary
<1> QED
  BY <1>5, <1>6

LEMMA RoTransferStudent ==
  ASSUME RoIInv, NEW p \in Request, Ro!TransferStudent(p)
  PROVE  RoIInv'
<1> USE DEF RoIInv
<1>1. /\ status \in [Right -> Ro!Present \cup {"absent", "deleted"}]
      /\ enrolment \subseteq Ro!Row /\ plan \in [Request -> SUBSET Ro!Plan]
  BY DEF Ro!TypeOK
<1> DEFINE leaving(pl) == {k \in enrolment : k.id \in pl.close}
           table(pl) == (enrolment \ leaving(pl)) \cup Ro!Closed(leaving(pl))
                          \cup Ro!NewLinks(pl.student, pl.create)
<1>2. PICK pl \in plan[p] :
        /\ Ro!UnusedLinks # {}
        /\ enrolment' = IF Ro!OnePrimary(table(pl)) THEN table(pl) ELSE enrolment
        /\ plan' = [plan EXCEPT ![p] = {}]
        /\ UNCHANGED status
  BY DEF Ro!TransferStudent
<1>3. pl.student \in Right /\ pl.create \in SUBSET Left
  BY <1>1 DEF Ro!Plan
<1>4. plan' \in [Request -> SUBSET Ro!Plan] /\ \A q \in Request : plan'[q] \subseteq plan[q]
  BY <1>1, <1>2
<1>5. CASE Ro!OnePrimary(table(pl))
  <2>1. leaving(pl) \in SUBSET Ro!Row /\ leaving(pl) \subseteq enrolment
    BY <1>1
  <2>2. enrolment' = table(pl)
    BY <1>2, <1>5
  <2> HIDE DEF leaving
  <2>3. /\ Ro!Closed(leaving(pl)) \subseteq Ro!Row
        /\ \A k \in Ro!Closed(leaving(pl)) : \E l \in enrolment : l.student = k.student
    BY <2>1, RoClosed
  <2>4. /\ Ro!NewLinks(pl.student, pl.create) \subseteq Ro!Row
        /\ \A k \in Ro!NewLinks(pl.student, pl.create) : k.student = pl.student
    BY <1>2, <1>3, RoNewLinks
  <2>5. enrolment' \subseteq Ro!Row
    BY <1>1, <2>2, <2>3, <2>4
  <2>6. \A k \in enrolment' : k.student = pl.student \/ \E l \in enrolment : l.student = k.student
    BY <2>2, <2>3, <2>4
  <2>7. Ro!TypeOK'
    BY <1>1, <1>2, <1>4, <2>5 DEF Ro!TypeOK
  <2>8. status[pl.student] # "absent"
    BY DEF RoBornInv
  <2>9. RoBornInv'
    BY <1>2, <1>4, <2>6, <2>8 DEF RoBornInv
  <2>10. Ro!OnePrimary(enrolment)'
    BY <1>5, <2>2 DEF Ro!OnePrimary
  <2> QED
    BY <2>7, <2>9, <2>10
<1>6. CASE ~Ro!OnePrimary(table(pl))
  <2>1. UNCHANGED <<status, enrolment>>
    BY <1>2, <1>6
  <2> QED
    BY <1>1, <1>4, <2>1 DEF Ro!TypeOK, RoBornInv, Ro!OnePrimary
<1> QED
  BY <1>5, <1>6

(* A step that only makes or drops a plan.                                 *)
LEMMA RoPlanStep ==
  ASSUME RoIInv, NEW p \in Request, NEW S \in SUBSET Ro!Plan,
         \A pl \in S : status[pl.student] # "absent",
         plan' = [plan EXCEPT ![p] = S], UNCHANGED <<status, enrolment>>
  PROVE  RoIInv'
<1>1. plan' \in [Request -> SUBSET Ro!Plan] /\ \A q \in Request : plan'[q] \subseteq plan[q] \cup S
  BY DEF RoIInv, Ro!TypeOK
<1> QED
  BY <1>1 DEF RoIInv, Ro!TypeOK, RoBornInv, Ro!OnePrimary

LEMMA RoPlanUpdate ==
  ASSUME RoIInv, NEW p \in Request, NEW s \in Right, NEW next \in Ro!NextClass,
         Ro!PlanUpdate(p, s, next)
  PROVE  RoIInv'
<1> DEFINE pl == [kind |-> "update", student |-> s, close |-> Ro!Classes(s) \ next,
                  create |-> next \ Ro!Classes(s)]
<1>1. Ro!Classes(s) \subseteq Left
  BY DEF Ro!Classes, Ro!OpenOf, RoIInv, Ro!TypeOK, Ro!Row
<1>2. next \subseteq Left
  BY DEF Ro!NextClass
<1>3. pl \in Ro!Plan /\ pl.student = s
  BY <1>1, <1>2 DEF Ro!Plan
<1>4. status[s] # "absent"
  BY DEF Ro!PlanUpdate, Ro!Present
<1>5. plan' = [plan EXCEPT ![p] = {pl}] /\ UNCHANGED <<status, enrolment>>
  BY DEF Ro!PlanUpdate
<1> HIDE DEF pl
<1> DEFINE S == {pl}
<1>6. S \in SUBSET Ro!Plan /\ (\A x \in S : status[x.student] # "absent")
      /\ plan' = [plan EXCEPT ![p] = S]
  BY <1>3, <1>4, <1>5
<1> HIDE DEF S
<1> QED
  BY <1>5, <1>6, RoPlanStep

LEMMA RoPlanTransfer ==
  ASSUME RoIInv, NEW p \in Request, NEW s \in Right, NEW from \in Left, NEW to \in Left,
         Ro!PlanTransfer(p, s, from, to)
  PROVE  RoIInv'
<1>1. PICK k \in Ro!OpenOf(s) :
        /\ plan' = [plan EXCEPT ![p] =
             {[kind |-> "transfer", student |-> s, close |-> {k.id}, create |-> {to}]}]
        /\ UNCHANGED <<status, enrolment>>
  BY DEF Ro!PlanTransfer
<1> DEFINE pl == [kind |-> "transfer", student |-> s, close |-> {k.id}, create |-> {to}]
<1>2. k \in enrolment /\ k.student = s /\ k.id \in RowId
  BY DEF Ro!OpenOf, RoIInv, Ro!TypeOK, Ro!Row
<1>3. pl \in Ro!Plan /\ pl.student = s
  BY <1>2 DEF Ro!Plan
<1>4. status[s] # "absent"
  BY <1>2 DEF RoIInv, RoBornInv
<1>5. plan' = [plan EXCEPT ![p] = {pl}] /\ UNCHANGED <<status, enrolment>>
  BY <1>1
<1> HIDE DEF pl
<1> DEFINE S == {pl}
<1>6. S \in SUBSET Ro!Plan /\ (\A x \in S : status[x.student] # "absent")
      /\ plan' = [plan EXCEPT ![p] = S]
  BY <1>3, <1>4, <1>5
<1> HIDE DEF S
<1> QED
  BY <1>5, <1>6, RoPlanStep

LEMMA RoDeleteStudent ==
  ASSUME RoIInv, NEW s \in Right, Ro!DeleteStudent(s)
  PROVE  RoIInv'
<1>1. /\ status' \in [Right -> Ro!Present \cup {"absent", "deleted"}]
      /\ \A t \in Right : status[t] # "absent" => status'[t] # "absent"
      /\ UNCHANGED <<enrolment, plan>>
  BY DEF Ro!DeleteStudent, RoIInv, Ro!TypeOK
<1>2. \A k \in enrolment : k.student \in Right
  BY DEF RoIInv, Ro!TypeOK, Ro!Row
<1>3. \A p \in Request : \A pl \in plan[p] : pl.student \in Right
  BY DEF RoIInv, Ro!TypeOK, Ro!Plan
<1> QED
  BY <1>1, <1>2, <1>3 DEF RoIInv, Ro!TypeOK, RoBornInv, Ro!OnePrimary

LEMMA RoNext == RoIInv /\ [Ro!Next]_(Ro!vars) => RoIInv'
<1> SUFFICES ASSUME RoIInv, [Ro!Next]_(Ro!vars) PROVE RoIInv'
  OBVIOUS
<1>1. ASSUME NEW s \in Right, NEW next \in Ro!NextClass, Ro!CreateStudent(s, next)
      PROVE  RoIInv'
  BY <1>1, RoCreateStudent
<1>2. ASSUME NEW s \in Right, NEW next \in Ro!NextClass, NEW p \in Request,
             Ro!PlanUpdate(p, s, next)
      PROVE  RoIInv'
  BY <1>2, RoPlanUpdate
<1>3. ASSUME NEW p \in Request, NEW s \in Right, NEW from \in Left, NEW to \in Left,
             Ro!PlanTransfer(p, s, from, to)
      PROVE  RoIInv'
  BY <1>3, RoPlanTransfer
<1>4. ASSUME NEW p \in Request, NEW new \in Ro!Present, Ro!UpdateStudent(p, new)
      PROVE  RoIInv'
  BY <1>4, RoUpdateStudent
<1>5. ASSUME NEW p \in Request, Ro!TransferStudent(p) PROVE RoIInv'
  BY <1>5, RoTransferStudent
<1>6. ASSUME NEW p \in Request, Ro!Abort(p) PROVE RoIInv'
  BY <1>6, RoPlanStep DEF Ro!Abort
<1>7. ASSUME NEW s \in Right, Ro!DeleteStudent(s) PROVE RoIInv'
  BY <1>7, RoDeleteStudent
<1>8. CASE UNCHANGED Ro!vars
  BY <1>8 DEF Ro!vars, RoIInv, Ro!TypeOK, RoBornInv, Ro!OnePrimary
<1> QED
  BY <1>1, <1>2, <1>3, <1>4, <1>5, <1>6, <1>7, <1>8 DEF Ro!Next

(* A student is in at most one class, whatever plans were made on          *)
(* enrolments that have changed since.                                     *)
THEOREM StudentsHaveOneClass == Ro!Spec => []EnrolledOnce
<1>1. RoIInv => EnrolledOnce
  <2> SUFFICES ASSUME RoIInv, NEW s \in Right PROVE Cardinality(Ro!OpenOf(s)) <= 1
    BY DEF EnrolledOnce, Ro!EnrolledOnce, Ro!Cardinality, Cardinality
  <2>1. \A k, l \in Ro!OpenOf(s) : k = l
    BY DEF Ro!OpenOf, RoIInv, Ro!OnePrimary
  <2> QED
    BY <2>1, AtMostOne
<1> QED
  BY <1>1, RoInit, RoNext, PTL DEF Ro!Spec

(* The history of enrolments only grows, and what is closed stays closed:  *)
(* no late transfer or update reopens an enrolment that has ended.         *)
THEOREM EnrolmentHistoryGrows == Ro!Spec => HistoryKept
<1> DEFINE Kept == \A k \in enrolment : \E l \in enrolment' :
             /\ l.id = k.id /\ l.student = k.student /\ l.class = k.class
             /\ l.open => k.open
<1>1. ASSUME RoIInv, NEW leaving \in SUBSET enrolment, NEW new,
             enrolment' = (enrolment \ leaving) \cup Ro!Closed(leaving) \cup new
      PROVE  Kept
  <2>1. leaving \in SUBSET Ro!Row
    BY <1>1 DEF RoIInv, Ro!TypeOK
  <2> QED
    BY <1>1, <2>1, RoClosed
<1>2. ASSUME enrolment \subseteq enrolment' PROVE Kept
  BY <1>2
<1>3. ASSUME RoIInv, [Ro!Next]_(Ro!vars) PROVE Kept
  <2>1. ASSUME NEW s \in Right, NEW next \in Ro!NextClass, Ro!CreateStudent(s, next)
        PROVE  Kept
    BY <2>1, <1>2 DEF Ro!CreateStudent
  <2>2. ASSUME NEW p \in Request, NEW status_new \in Ro!Present, Ro!UpdateStudent(p, status_new)
        PROVE  Kept
    <3> DEFINE leaving(pl) == {k \in Ro!OpenOf(pl.student) : k.class \in pl.close}
    <3>1. PICK pl \in plan[p] :
            \/ enrolment' = enrolment
            \/ enrolment' = (enrolment \ leaving(pl)) \cup Ro!Closed(leaving(pl))
                              \cup Ro!NewLinks(pl.student, pl.create)
      BY <2>2 DEF Ro!UpdateStudent
    <3>2. leaving(pl) \in SUBSET enrolment
      BY DEF Ro!OpenOf
    <3> HIDE DEF leaving
    <3> QED
      BY <1>1, <1>2, <1>3, <3>1, <3>2
  <2>3. ASSUME NEW p \in Request, Ro!TransferStudent(p) PROVE Kept
    <3> DEFINE leaving(pl) == {k \in enrolment : k.id \in pl.close}
    <3>1. PICK pl \in plan[p] :
            \/ enrolment' = enrolment
            \/ enrolment' = (enrolment \ leaving(pl)) \cup Ro!Closed(leaving(pl))
                              \cup Ro!NewLinks(pl.student, pl.create)
      BY <2>3 DEF Ro!TransferStudent
    <3>2. leaving(pl) \in SUBSET enrolment
      OBVIOUS
    <3> HIDE DEF leaving
    <3> QED
      BY <1>1, <1>2, <1>3, <3>1, <3>2
  <2>4. CASE UNCHANGED enrolment
    BY <2>4, <1>2
  <2> QED
    BY <1>3, <2>1, <2>2, <2>3, <2>4
       DEF Ro!Next, Ro!PlanUpdate, Ro!PlanTransfer, Ro!DeleteStudent, Ro!Abort, Ro!vars
<1>4. RoIInv /\ [Ro!Next]_(Ro!vars) => [Kept]_(Ro!vars)
  BY <1>3
<1> QED
  BY <1>4, RoInit, RoNext, PTL DEF Ro!Spec, HistoryKept, Ro!HistoryKept
-----------------------------------------------------------------------------
(* Guardians                                                               *)

GuRow == [student : student, parent : adult, primary : BOOLEAN]

GuOnePrincipal(table) ==
  \A k, l \in table : k.student = l.student /\ k.primary /\ l.primary => k = l

GuIInv == Gu!TypeOK /\ GuOnePrincipal(guardian)

LEMMA GuReadForm ==
  ASSUME GuIInv, NEW p \in Request, NEW a \in Left, NEW children \in SUBSET Right,
         Gu!ReadForm(p, a, children), adult' = adult
  PROVE  GuIInv'
<1> DEFINE f == [parent |-> a, children |-> children, add |-> children \ Gu!Children(a),
                 first |-> {s \in children \ Gu!Children(a) : Gu!Principals(s) = {}}]
<1>1. f \in Gu!Form
  BY DEF Gu!Form
<1>2. form' = [form EXCEPT ![p] = {f}] /\ UNCHANGED <<student, guardian>>
  BY DEF Gu!ReadForm
<1> HIDE DEF f
<1>3. form' \in [Request -> SUBSET Gu!Form]
  BY <1>1, <1>2 DEF GuIInv, Gu!TypeOK
<1> QED
  BY <1>2, <1>3 DEF GuIInv, Gu!TypeOK, GuOnePrincipal

(* The indexes refuse a second principal, even one that the reads of the   *)
(* form did not see.                                                       *)
LEMMA GuWriteForm ==
  ASSUME GuIInv, NEW p \in Request, Gu!WriteForm(p)
  PROVE  GuIInv'
<1> USE DEF GuIInv
<1>1. /\ student \subseteq Right /\ adult \subseteq Left
      /\ guardian \subseteq GuRow /\ form \in [Request -> SUBSET Gu!Form]
  BY DEF Gu!TypeOK, GuRow
<1>2. PICK f \in form[p] :
        /\ IF f.add \subseteq student
           THEN /\ guardian' = Gu!InsertNew({k \in guardian : k.parent = f.parent
                                               => k.student \in f.children}, f)
                /\ adult' = adult \cup {f.parent}
           ELSE UNCHANGED <<guardian, adult>>
        /\ form' = [form EXCEPT ![p] = {}]
        /\ UNCHANGED student
  BY DEF Gu!WriteForm
<1>3. f \in Gu!Form
  BY <1>1
<1>4. form' \in [Request -> SUBSET Gu!Form]
  BY <1>1, <1>2
<1>5. CASE f.add \subseteq student
  <2> DEFINE kept == {k \in guardian : k.parent = f.parent => k.student \in f.children}
             new == Gu!InsertNew(kept, f) \ kept
  <2>1. kept \subseteq guardian
    OBVIOUS
  <2>2. guardian' = Gu!InsertNew(kept, f) /\ adult' = adult \cup {f.parent}
    BY <1>2, <1>5
  <2> HIDE DEF kept
  <2>3. ASSUME NEW k \in guardian', k \notin kept
        PROVE  /\ k \in [student : student, parent : adult \cup {f.parent}, primary : BOOLEAN]
               /\ k = Gu!NewLink(k.student, f)
               /\ k.primary => \A l \in kept : ~(l.student = k.student /\ l.primary)
    <3>1. PICK c \in f.add :
            /\ k = Gu!NewLink(c, f)
            /\ c \in f.first => \A l \in kept : ~(l.student = c /\ l.primary)
      BY <2>2, <2>3 DEF Gu!InsertNew
    <3>2. /\ k = [student |-> c, parent |-> f.parent, primary |-> c \in f.first]
          /\ k.student = c /\ k.primary = (c \in f.first) /\ c \in student
      BY <3>1, <1>5 DEF Gu!NewLink
    <3>3. k \in [student : student, parent : adult \cup {f.parent}, primary : BOOLEAN]
      BY <3>2
    <3> QED
      BY <3>1, <3>2, <3>3
  <2>4. guardian' \subseteq [student : student, parent : adult \cup {f.parent}, primary : BOOLEAN]
    BY <1>1, <2>1, <2>3 DEF GuRow
  <2>5. f.parent \in Left
    BY <1>3 DEF Gu!Form
  <2>6. Gu!TypeOK'
    BY <1>1, <1>2, <1>4, <2>2, <2>4, <2>5 DEF Gu!TypeOK
  <2>7. GuOnePrincipal(guardian)'
    BY <2>1, <2>3 DEF GuOnePrincipal
  <2> QED
    BY <2>6, <2>7
<1>6. CASE ~(f.add \subseteq student)
  BY <1>2, <1>4, <1>6 DEF Gu!TypeOK, GuOnePrincipal
<1> QED
  BY <1>5, <1>6

LEMMA GuCreateStudent ==
  ASSUME GuIInv, NEW s \in Right, NEW next \in {{}} \cup {{a} : a \in Left},
         Gu!CreateStudent(s, next)
  PROVE  GuIInv'
<1> DEFINE new == [student : {s}, parent : next, primary : {TRUE}]
<1>1. /\ student' = student \cup {s} /\ guardian' = guardian \cup new
      /\ UNCHANGED <<adult, form>> /\ s \notin student /\ next \subseteq adult
  BY DEF Gu!CreateStudent
<1>2. \A k, l \in new : k = l
  <2>1. \A a, b \in next : a = b
    OBVIOUS
  <2>2. ASSUME NEW k \in new
        PROVE  /\ k = [student |-> k.student, parent |-> k.parent, primary |-> k.primary]
               /\ k.student = s /\ k.parent \in next /\ k.primary = TRUE
    OBVIOUS
  <2> HIDE DEF new
  <2> QED
    BY <2>1, <2>2
<1>3. \A k \in guardian : k.student # s
  BY <1>1 DEF GuIInv, Gu!TypeOK
<1>4. guardian' \subseteq [student : student', parent : adult', primary : BOOLEAN]
  BY <1>1 DEF GuIInv, Gu!TypeOK
<1>5. GuOnePrincipal(guardian)'
  BY <1>1, <1>2, <1>3 DEF GuIInv, GuOnePrincipal
<1> QED
  BY <1>1, <1>4, <1>5 DEF GuIInv, Gu!TypeOK

(* The form of a student demotes before it names: no moment has two.       *)
LEMMA GuUpdateStudent ==
  ASSUME GuIInv, NEW s \in Right, NEW next \in {{}} \cup {{a} : a \in Left},
         Gu!UpdateStudent(s, next)
  PROVE  GuIInv'
<1> DEFINE new == [student : {s}, parent : next, primary : {TRUE}]
           stay == {l \in guardian : ~(l.student = s /\ l.parent \in next)}
           demoted(k) == IF k.student = s THEN [k EXCEPT !.primary = FALSE] ELSE k
<1>1. /\ guardian' = {demoted(k) : k \in stay} \cup new
      /\ UNCHANGED <<student, adult, form>> /\ s \in student /\ next \subseteq adult
  BY DEF Gu!UpdateStudent, Gu!WithPrincipal
<1>2. \A k, l \in new : k = l
  <2>1. \A a, b \in next : a = b
    OBVIOUS
  <2>2. ASSUME NEW k \in new
        PROVE  /\ k = [student |-> k.student, parent |-> k.parent, primary |-> k.primary]
               /\ k.student = s /\ k.parent \in next /\ k.primary = TRUE
    OBVIOUS
  <2> HIDE DEF new
  <2> QED
    BY <2>1, <2>2
<1>3. ASSUME NEW k \in stay
      PROVE  /\ demoted(k) \in GuRow
             /\ demoted(k).student = k.student
             /\ k.student # s => demoted(k) = k
             /\ k.student = s => ~demoted(k).primary
  BY DEF GuIInv, Gu!TypeOK, GuRow
<1>4. new \subseteq GuRow /\ \A k \in new : k.student = s
  BY <1>1 DEF GuRow
<1>5. stay \subseteq guardian
  OBVIOUS
<1> HIDE DEF demoted, new, stay
<1>6. guardian' \subseteq GuRow
  BY <1>1, <1>3, <1>4
<1>7. GuOnePrincipal(guardian)'
  <2> SUFFICES ASSUME NEW k \in guardian', NEW l \in guardian',
                      k.student = l.student, k.primary, l.primary
               PROVE  k = l
    BY DEF GuOnePrincipal
  <2>1. CASE k.student = s
    BY <2>1, <1>1, <1>2, <1>3
  <2>2. CASE k.student # s
    <3>1. k \in guardian /\ l \in guardian
      BY <2>2, <1>1, <1>3, <1>4, <1>5
    <3> QED
      BY <3>1 DEF GuIInv, GuOnePrincipal
  <2> QED
    BY <2>1, <2>2
<1> QED
  BY <1>1, <1>6, <1>7 DEF GuIInv, Gu!TypeOK, GuRow

LEMMA GuNext == GuIInv /\ [Gu!Next]_(Gu!vars) => GuIInv'
<1> SUFFICES ASSUME GuIInv, [Gu!Next]_(Gu!vars) PROVE GuIInv'
  OBVIOUS
<1>1. ASSUME NEW p \in Request, NEW a \in Left, NEW children \in SUBSET Right,
             Gu!CreateParent(p, a, children) \/ Gu!UpdateParent(p, a, children)
      PROVE  GuIInv'
  BY <1>1, GuReadForm DEF Gu!CreateParent, Gu!UpdateParent
<1>2. ASSUME NEW p \in Request, Gu!WriteForm(p) PROVE GuIInv'
  BY <1>2, GuWriteForm
<1>3. ASSUME NEW p \in Request, Gu!Abort(p) PROVE GuIInv'
  BY <1>3 DEF Gu!Abort, GuIInv, Gu!TypeOK, GuOnePrincipal
<1>4. ASSUME NEW s \in Right, NEW next \in {{}} \cup {{a} : a \in Left},
             Gu!CreateStudent(s, next) \/ Gu!UpdateStudent(s, next)
      PROVE  GuIInv'
  BY <1>4, GuCreateStudent, GuUpdateStudent
<1>5. ASSUME NEW a \in Left, Gu!DeleteParent(a) PROVE GuIInv'
  BY <1>5 DEF Gu!DeleteParent, Gu!Of, GuIInv, Gu!TypeOK, GuOnePrincipal
<1>6. ASSUME NEW s \in Right, Gu!DeleteStudent(s) PROVE GuIInv'
  BY <1>6 DEF Gu!DeleteStudent, GuIInv, Gu!TypeOK, GuOnePrincipal
<1>7. CASE UNCHANGED Gu!vars
  BY <1>7 DEF Gu!vars, GuIInv, Gu!TypeOK, GuOnePrincipal
<1> QED
  BY <1>1, <1>2, <1>3, <1>4, <1>5, <1>6, <1>7 DEF Gu!Next

(* A student has at most one principal guardian, also when two adults who  *)
(* each found none are linked at the same time.                            *)
THEOREM StudentsHaveOnePrincipal == Gu!Spec => []OnePrincipal
<1>1. Gu!Init => GuIInv
  BY DEF Gu!Init, GuIInv, Gu!TypeOK, GuOnePrincipal
<1>2. GuIInv => OnePrincipal
  <2> SUFFICES ASSUME GuIInv, NEW s \in Right PROVE Cardinality(Gu!Principals(s)) <= 1
    BY DEF OnePrincipal, Gu!OnePrincipal, Gu!Cardinality, Cardinality
  <2>1. \A k, l \in Gu!Principals(s) : k = l
    BY DEF Gu!Principals, GuIInv, GuOnePrincipal
  <2> QED
    BY <2>1, AtMostOne
<1> QED
  BY <1>1, <1>2, GuNext, PTL DEF Gu!Spec

-----------------------------------------------------------------------------
(* Coaches                                                                 *)

CoRow(k) == k = [id |-> k.id, class |-> k.class, teacher |-> k.teacher, role |-> k.role]

(* A request has one plan at most, and what it takes out of a class it has *)
(* seen there.                                                             *)
CoPlanInv ==
  /\ coachReq = [p \in Request |-> coachReq[p]]
  /\ \A p \in Request :
       /\ \A a, b \in coachReq[p] : a = b
       /\ \A a \in coachReq[p] : a.kind \in {"remove", "transfer"} => a.rows # {}

CoIInv ==
  /\ \A k \in coaches : CoRow(k)
  /\ Co!Indexes(coaches)
  /\ CoPlanInv

LEMMA CoPlanChange ==
  ASSUME CoPlanInv, NEW p \in Request, NEW S,
         \A a, b \in S : a = b,
         \A a \in S : a.kind \in {"remove", "transfer"} => a.rows # {},
         coachReq' = [coachReq EXCEPT ![p] = S]
  PROVE  CoPlanInv'
<1>1. \A q \in Request : coachReq'[q] = IF q = p THEN S ELSE coachReq[q]
  BY DEF CoPlanInv
<1>2. coachReq' = [q \in Request |-> coachReq'[q]]
  BY DEF CoPlanInv
<1> QED
  BY <1>1, <1>2 DEF CoPlanInv

LEMMA CoRead ==
  ASSUME CoIInv, NEW p \in Request, NEW pl, Co!Read(p, pl),
         pl.kind \in {"remove", "transfer"} => pl.rows # {}
  PROVE  CoIInv'
<1> DEFINE S == {pl}
<1>1. coachReq' = [coachReq EXCEPT ![p] = S] /\ coaches' = coaches
  BY DEF Co!Read
<1>2. (\A a, b \in S : a = b) /\ \A a \in S : a.kind \in {"remove", "transfer"} => a.rows # {}
  OBVIOUS
<1> HIDE DEF S
<1>3. CoPlanInv'
  BY <1>1, <1>2, CoPlanChange DEF CoIInv
<1> QED
  BY <1>1, <1>3 DEF CoIInv, Co!Indexes, Co!OneRowPerTeacher

LEMMA CoPlanned ==
  ASSUME CoIInv, NEW p \in Request, NEW c \in Left, NEW t \in Right,
         \/ \E r \in Co!TeacherRole : Co!PlanAdd(p, c, t, r) \/ Co!PlanRole(p, c, t, r)
         \/ Co!PlanRemoval(p, c, t)
         \/ \E to \in Left : Co!PlanTransfer(p, c, to, t)
  PROVE  CoIInv'
<1>1. ASSUME NEW r \in Co!TeacherRole, Co!PlanAdd(p, c, t, r) \/ Co!PlanRole(p, c, t, r)
      PROVE  CoIInv'
  <2>1. CASE Co!PlanAdd(p, c, t, r)
    <3> DEFINE pl == [kind |-> "add", class |-> c, to |-> c, teacher |-> t,
                      role |-> Co!AddedRole(c, r), rows |-> {}, other |-> {}]
    <3>1. Co!Read(p, pl) /\ pl.kind = "add"
      BY <2>1 DEF Co!PlanAdd
    <3> HIDE DEF pl
    <3> QED
      BY <3>1, CoRead
  <2>2. CASE Co!PlanRole(p, c, t, r)
    <3>1. PICK pl : Co!Read(p, pl) /\ pl.kind = "role"
      BY <2>2 DEF Co!PlanRole
    <3> QED
      BY <3>1, CoRead
  <2> QED
    BY <1>1, <2>1, <2>2
<1>2. CASE Co!PlanRemoval(p, c, t)
  <2>1. Co!Ids(Co!Assigned(c, t)) # {}
    BY <1>2 DEF Co!PlanRemoval, Co!Ids
  <2>2. PICK pl : Co!Read(p, pl) /\ pl.rows = Co!Ids(Co!Assigned(c, t))
    BY <1>2 DEF Co!PlanRemoval
  <2> QED
    BY <2>1, <2>2, CoRead
<1>3. ASSUME NEW to \in Left, Co!PlanTransfer(p, c, to, t)
      PROVE  CoIInv'
  <2>1. PICK k \in Co!Assigned(c, t),
             next \in IF Co!Successors(c, t) = {} THEN {{}} ELSE Co!Successors(c, t) :
          Co!Read(p, [kind |-> "transfer", class |-> c, to |-> to, teacher |-> t,
                      role |-> Co!AddedRole(to, k.role), rows |-> {k.id}, other |-> next])
    BY <1>3 DEF Co!PlanTransfer
  <2> QED
    BY <2>1, CoRead
<1> QED
  BY <1>1, <1>2, <1>3

(* A new row gets an id that no plan refers to.                            *)
LEMMA CoNewRow ==
  ASSUME NEW table, Co!Unused(table) # {}, NEW c, NEW t, NEW r
  PROVE  /\ Co!NewRow(table, c, t, r) # {}
         /\ \A k \in Co!NewRow(table, c, t, r) :
              CoRow(k) /\ k.id \in Co!Unused(table) /\ k.class = c /\ k.teacher = t
<1>1. PICK u \in Co!Unused(table) : TRUE
  OBVIOUS
<1>2. \A S : Co!Cardinality(S) = Cardinality(S)
  BY DEF Co!Cardinality, Cardinality
<1>3. {u} \in SUBSET Co!Unused(table) /\ Co!Cardinality({u}) = 1
  BY <1>1, <1>2, FS_Singleton
<1> DEFINE ids == Co!NewIds(table, 1)
<1>4. ids \in SUBSET Co!Unused(table) /\ Co!Cardinality(ids) = 1
  BY <1>3 DEF Co!NewIds
<1>5. ids # {}
  BY <1>2, <1>4, FS_EmptySet
<1> DEFINE row(i) == [id |-> i, class |-> c, teacher |-> t, role |-> r]
<1>6. Co!NewRow(table, c, t, r) = {row(i) : i \in ids}
  BY DEF Co!NewRow
<1>7. \A i : CoRow(row(i)) /\ row(i).id = i /\ row(i).class = c /\ row(i).teacher = t
  BY DEF CoRow
<1> HIDE DEF ids, row
<1> QED
  BY <1>4, <1>5, <1>6, <1>7

LEMMA CoWithRole ==
  ASSUME NEW table, \A k \in table : CoRow(k), NEW ids, NEW r
  PROVE  /\ \A k \in Co!WithRole(table, ids, r) :
              CoRow(k) /\ (k.id \in ids => k.role = r)
         /\ Co!Ids(Co!WithRole(table, ids, r)) = Co!Ids(table)
<1> DEFINE given(k) == IF k.id \in ids THEN [k EXCEPT !.role = r] ELSE k
<1>1. ASSUME NEW k \in table
      PROVE  /\ CoRow(given(k)) /\ given(k).id = k.id
             /\ k.id \in ids => given(k).role = r
  <2>1. k = [id |-> k.id, class |-> k.class, teacher |-> k.teacher, role |-> k.role]
    BY DEF CoRow
  <2>2. [k EXCEPT !.role = r]
          = [id |-> k.id, class |-> k.class, teacher |-> k.teacher, role |-> r]
    BY <2>1
  <2> QED
    BY <2>1, <2>2 DEF CoRow
<1>2. Co!WithRole(table, ids, r) = {given(k) : k \in table}
  BY DEF Co!WithRole
<1> HIDE DEF given
<1> QED
  BY <1>1, <1>2 DEF Co!Ids

LEMMA CoCommit ==
  ASSUME CoIInv, NEW p \in Request, NEW possible, NEW table,
         \A k \in table : CoRow(k),
         Co!Commit(p, possible, table)
  PROVE  CoIInv'
<1> DEFINE S == {}
<1>1. coachReq' = [coachReq EXCEPT ![p] = S]
  BY DEF Co!Commit
<1>2. CoPlanInv'
  BY <1>1, CoPlanChange DEF CoIInv
<1>3. coaches' = coaches \/ (coaches' = table /\ Co!Indexes(table))
  BY DEF Co!Commit
<1> QED
  BY <1>2, <1>3 DEF CoIInv, Co!Indexes, Co!OneRowPerTeacher

LEMMA CoWithout ==
  ASSUME CoIInv, NEW c, NEW t, NEW ids, NEW r
  PROVE  /\ \A k \in Co!WithRole(Co!Without(c, t), ids, r) :
              CoRow(k) /\ (k.id \in ids => k.role = r)
         /\ Co!Ids(Co!WithRole(Co!Without(c, t), ids, r)) = Co!Ids(Co!Without(c, t))
<1>1. \A k \in Co!Without(c, t) : CoRow(k)
  BY DEF Co!Without, CoIInv
<1> QED
  BY <1>1, CoWithRole

LEMMA CoNext == CoIInv /\ [Co!Next]_(Co!vars) => CoIInv'
<1> SUFFICES ASSUME CoIInv, [Co!Next]_(Co!vars) PROVE CoIInv'
  OBVIOUS
<1> DEFINE pl(p) == Co!ThePlan(p)
<1>1. ASSUME NEW p \in Request, Co!AddTeacher(p) PROVE CoIInv'
  <2>1. /\ Co!Unused(coaches) # {}
        /\ Co!Commit(p, TRUE, coaches \cup
             Co!NewRow(coaches, pl(p).class, pl(p).teacher, pl(p).role))
    BY <1>1 DEF Co!AddTeacher
  <2> HIDE DEF pl
  <2>2. \A k \in Co!NewRow(coaches, pl(p).class, pl(p).teacher, pl(p).role) : CoRow(k)
    BY <2>1, CoNewRow
  <2> DEFINE table == coaches \cup Co!NewRow(coaches, pl(p).class, pl(p).teacher, pl(p).role)
  <2>3. Co!Commit(p, TRUE, table) /\ \A k \in table : CoRow(k)
    BY <2>1, <2>2 DEF CoIInv
  <2> HIDE DEF table
  <2> QED
    BY <2>3, CoCommit
<1>2. ASSUME NEW p \in Request, Co!UpdateTeacherRole(p) PROVE CoIInv'
  <2> DEFINE demoted == Co!WithRole(coaches, pl(p).other, "assistant_coach")
             table == Co!WithRole(demoted, pl(p).rows, pl(p).role)
  <2>1. Co!Commit(p, Co!AllPresent(pl(p).rows \cup pl(p).other), table)
    BY <1>2 DEF Co!UpdateTeacherRole
  <2> HIDE DEF pl
  <2>2. \A k \in demoted : CoRow(k)
    BY CoWithRole DEF CoIInv
  <2> HIDE DEF demoted
  <2>3. \A k \in table : CoRow(k)
    BY <2>2, CoWithRole
  <2> HIDE DEF table
  <2> QED
    BY <2>1, <2>3, CoCommit
<1>3. ASSUME NEW p \in Request, Co!RemoveTeacher(p) PROVE CoIInv'
  <2> DEFINE table == Co!WithRole(Co!Without(pl(p).class, pl(p).teacher), pl(p).other, "head_coach")
  <2>1. PICK possible : Co!Commit(p, possible, table)
    BY <1>3 DEF Co!RemoveTeacher
  <2> HIDE DEF pl
  <2>2. \A k \in table : CoRow(k)
    BY CoWithout
  <2> HIDE DEF table
  <2> QED
    BY <2>1, <2>2, CoCommit
<1>4. ASSUME NEW p \in Request, Co!TransferTeacher(p) PROVE CoIInv'
  <2> DEFINE stay == Co!WithRole(Co!Without(pl(p).class, pl(p).teacher), pl(p).other, "head_coach")
             new == Co!NewRow(coaches, pl(p).to, pl(p).teacher, pl(p).role)
  <2>1. Co!Unused(coaches) # {} /\ \E possible : Co!Commit(p, possible, stay \cup new)
    BY <1>4 DEF Co!TransferTeacher
  <2> HIDE DEF pl
  <2>2. \A k \in stay : CoRow(k)
    BY CoWithout
  <2>3. \A k \in new : CoRow(k)
    BY <2>1, CoNewRow
  <2> HIDE DEF stay, new
  <2> QED
    BY <2>1, <2>2, <2>3, CoCommit
<1>5. ASSUME NEW p \in Request, Co!Abort(p) PROVE CoIInv'
  <2> DEFINE S == {}
  <2>1. coachReq' = [coachReq EXCEPT ![p] = S] /\ coaches' = coaches
    BY <1>5 DEF Co!Abort
  <2>2. CoPlanInv'
    BY <2>1, CoPlanChange DEF CoIInv
  <2> QED
    BY <2>1, <2>2 DEF CoIInv, Co!Indexes, Co!OneRowPerTeacher
<1>6. ASSUME NEW c \in Left, NEW list \in Co!Lists, Co!ReplaceTeachers(c, list) PROVE CoIInv'
  <2> DEFINE kept == coaches \ Co!Roster(c)
             rows == {[id |-> Co!SetToSeq(Co!NewIds(kept, Len(list)))[i], class |-> c,
                       teacher |-> Co!Normalized(list)[i].teacher,
                       role |-> Co!Normalized(list)[i].role] : i \in DOMAIN list}
  <2>1. coaches' = kept \cup rows /\ Co!Indexes(kept \cup rows) /\ coachReq' = coachReq
    BY <1>6 DEF Co!ReplaceTeachers
  <2>2. \A k \in rows : CoRow(k)
    BY DEF CoRow
  <2>3. \A k \in kept : CoRow(k)
    BY DEF CoIInv
  <2> HIDE DEF kept, rows
  <2> QED
    BY <2>1, <2>2, <2>3 DEF CoIInv, CoPlanInv, Co!Indexes, Co!OneRowPerTeacher
<1>7. CASE UNCHANGED Co!vars
  BY <1>7 DEF Co!vars, CoIInv, CoPlanInv, Co!Indexes, Co!OneRowPerTeacher
<1> QED
  BY <1>1, <1>2, <1>3, <1>4, <1>5, <1>6, <1>7, CoPlanned DEF Co!Next

LEMMA CoInit == Co!Init => CoIInv
BY DEF Co!Init, CoIInv, CoPlanInv, Co!Indexes, Co!OneRowPerTeacher

(* A class has at most one head coach, whatever the rosters were on which  *)
(* the promotions in progress were planned.                                *)
THEOREM ClassesHaveOneHeadCoach == Co!Spec => []OneHeadCoach
<1>1. CoIInv => OneHeadCoach
  <2> SUFFICES ASSUME CoIInv, NEW c \in Left PROVE Cardinality(Co!Heads(c)) <= 1
    BY DEF OneHeadCoach, Co!OneHeadCoach, Co!Cardinality, Cardinality
  <2>1. \A k, l \in Co!Heads(c) : k = l
    BY DEF Co!Heads, Co!Roster, CoIInv, Co!Indexes
  <2> QED
    BY <2>1, AtMostOne
<1> QED
  BY <1>1, CoInit, CoNext, PTL DEF Co!Spec

(* A request that takes a coach out of a class has also done the rest of   *)
(* its plan: the successor is head coach, the moved coach is in the class  *)
(* it moved to.  A stale plan takes nobody out.                            *)
THEOREM HandOversAreWhole == Co!Spec => HandOverComplete
<1> DEFINE Done(a) == /\ \A k \in coaches' : k.id \in a.other => k.role = "head_coach"
                      /\ a.other \subseteq Co!Ids(coaches')
                      /\ a.kind = "transfer" =>
                           \E k \in coaches' : k.class = a.to /\ k.teacher = a.teacher
<1>1. ASSUME CoIInv, [Co!Next]_(Co!vars),
             NEW p \in Request, NEW a, coachReq[p] = {a}, coachReq'[p] = {},
             a.kind \in {"remove", "transfer"},
             a.rows \subseteq Co!Ids(coaches), a.rows \cap Co!Ids(coaches') = {}
      PROVE  Done(a)
  <2>1. a.rows # {} /\ coaches' # coaches
    BY <1>1 DEF CoIInv, CoPlanInv
  <2>2. Co!ThePlan(p) = a
    BY <1>1 DEF Co!ThePlan
  <2>3. CASE Co!RemoveTeacher(p)
    <3> DEFINE stay == Co!Without(a.class, a.teacher)
               table == Co!WithRole(stay, a.other, "head_coach")
    <3>1. a.kind = "remove" /\ Co!Commit(p, a.other \subseteq Co!Ids(stay), table)
      BY <2>2, <2>3, <1>1 DEF Co!RemoveTeacher, Co!Planned
    <3>2. coaches' = table /\ a.other \subseteq Co!Ids(stay)
      BY <2>1, <3>1 DEF Co!Commit
    <3>3. /\ \A k \in table : k.id \in a.other => k.role = "head_coach"
          /\ Co!Ids(table) = Co!Ids(stay)
      BY <1>1, CoWithout
    <3> HIDE DEF stay, table
    <3> QED
      BY <3>1, <3>2, <3>3
  <2>4. CASE Co!TransferTeacher(p)
    <3> DEFINE stay == Co!Without(a.class, a.teacher)
               table == Co!WithRole(stay, a.other, "head_coach")
               new == Co!NewRow(coaches, a.to, a.teacher, a.role)
    <3>1. /\ Co!Unused(coaches) # {}
          /\ Co!Commit(p, a.other \subseteq Co!Ids(stay), table \cup new)
      BY <2>2, <2>4 DEF Co!TransferTeacher
    <3>2. coaches' = table \cup new /\ a.other \subseteq Co!Ids(stay)
      BY <2>1, <3>1 DEF Co!Commit
    <3>3. /\ \A k \in table : k.id \in a.other => k.role = "head_coach"
          /\ Co!Ids(table) = Co!Ids(stay)
      BY <1>1, CoWithout
    <3>4. new # {} /\ \A k \in new : k.id \in Co!Unused(coaches) /\ k.class = a.to /\ k.teacher = a.teacher
      BY <3>1, CoNewRow
    <3>5. \A i \in Co!Unused(coaches) : i \notin a.other
      BY <1>1 DEF Co!Unused, Co!Plans
    <3> HIDE DEF stay, table, new
    <3>7. Co!Ids(table) \subseteq Co!Ids(coaches')
      BY <3>2 DEF Co!Ids
    <3> QED
      BY <3>2, <3>3, <3>4, <3>5, <3>7
  <2>5. ASSUME NEW q \in Request, Co!AddTeacher(q) \/ Co!UpdateTeacherRole(q) \/ Co!Abort(q)
        PROVE  FALSE
    <3>1. coachReq' = [coachReq EXCEPT ![q] = {}]
      BY <2>5 DEF Co!AddTeacher, Co!UpdateTeacherRole, Co!Abort, Co!Commit
    <3>2. q = p
      BY <3>1, <1>1 DEF CoIInv, CoPlanInv
    <3> QED
      BY <2>1, <2>5, <3>2, <1>1
      DEF Co!AddTeacher, Co!UpdateTeacherRole, Co!Abort, Co!Planned
  <2>6. ASSUME NEW q \in Request, Co!RemoveTeacher(q) \/ Co!TransferTeacher(q)
        PROVE  q = p
    BY <2>6, <1>1 DEF Co!RemoveTeacher, Co!TransferTeacher, Co!Commit, CoIInv, CoPlanInv
  <2>7. ASSUME NEW q \in Request, NEW c \in Left, NEW t \in Right,
               \/ \E r \in Co!TeacherRole : Co!PlanAdd(q, c, t, r) \/ Co!PlanRole(q, c, t, r)
               \/ Co!PlanRemoval(q, c, t)
               \/ \E to \in Left : Co!PlanTransfer(q, c, to, t)
        PROVE  FALSE
    <3>1. coaches' = coaches
      BY <2>7 DEF Co!PlanAdd, Co!PlanRole, Co!PlanRemoval, Co!PlanTransfer, Co!Read
    <3> QED
      BY <2>1, <3>1
  <2>8. ASSUME NEW c \in Left, NEW list \in Co!Lists, Co!ReplaceTeachers(c, list) PROVE FALSE
    BY <2>8, <1>1 DEF Co!ReplaceTeachers
  <2> QED
    BY <1>1, <2>1, <2>3, <2>4, <2>5, <2>6, <2>7, <2>8 DEF Co!Next, Co!vars
<1> DEFINE Whole ==
  \A p \in Request, pl \in UNION {coachReq[q] : q \in Request} :
    /\ coachReq[p] = {pl} /\ coachReq'[p] = {}
    /\ pl.kind \in {"remove", "transfer"}
    /\ pl.rows \subseteq Co!Ids(coaches) /\ pl.rows \cap Co!Ids(coaches)' = {}
    => /\ \A k \in coaches' : k.id \in pl.other => k.role = "head_coach"
       /\ pl.other \subseteq Co!Ids(coaches)'
       /\ pl.kind = "transfer" => Co!Assigned(pl.to, pl.teacher)' # {}
<1>2. CoIInv /\ [Co!Next]_(Co!vars) => Whole
  BY <1>1 DEF Co!Ids, Co!Assigned, Co!Roster
<1>3. CoIInv /\ [Co!Next]_(Co!vars) => [Whole]_(Co!vars)
  BY <1>2
<1> QED
  BY <1>3, CoInit, CoNext, PTL DEF Co!Spec, HandOverComplete, Co!HandOverComplete

-----------------------------------------------------------------------------
(* Attendance                                                              *)

AtRow(k) == k = [id |-> k.id, student |-> k.student, class |-> k.class, open |-> k.open]

(* A batch that writes was found valid: every student of it is or was      *)
(* enrolled, also when the enrolment has ended since.                      *)
AtWriting(b) ==
  /\ batch[b].rows \in Attend!Rows
  /\ Attend!Distinct(batch[b].rows)
  /\ Attend!Done(b) <= Len(batch[b].rows)
  /\ \A k \in Attend!PairsOf(batch[b].rows) : Attend!R!EverEnrolled(k[1], k[2])

(* What a pair holds apart from the batches in progress: what the one that *)
(* locks it has put aside, or the record if no one does.                   *)
AtCommitted(k, v) ==
  \/ \E w \in Attend!Writing : \E i \in 1..Attend!Done(w) :
       batch[w].rows[i] = k /\ batch[w].before[i] = v
  \/ record[k] = v /\ \A w \in Attend!Writing : k \notin Attend!Locks(w)

AtShared(a, b, k, l) ==
  /\ batch[a].pc = "saved" /\ batch[b].pc = "saved" /\ a # b
  /\ {k, l} \subseteq Attend!PairsOf(batch[a].rows) \cap Attend!PairsOf(batch[b].rows)

AtNeverMix ==
  \A a, b \in Left, k, l \in Attend!Pair :
    AtShared(a, b, k, l) => ~(AtCommitted(k, {a}) /\ AtCommitted(l, {b}))

AtTypes ==
  /\ \A k \in rollLink : AtRow(k)
  /\ record \in [Attend!Pair -> SUBSET Left]
  /\ batch \in [Left -> Attend!BatchState]

(* A locked pair has the mark of the batch that locks it, and of no other. *)
AtLocks ==
  /\ \A a, b \in Attend!Writing : a # b => Attend!Locks(a) \cap Attend!Locks(b) = {}
  /\ \A b \in Attend!Writing : \A k \in Attend!Locks(b) : record[k] = {b}

AtEnrolled ==
  \A k \in Attend!Pair : record[k] # {} => Attend!R!EverEnrolled(k[1], k[2])

AtIInv ==
  /\ AtTypes
  /\ \A b \in Attend!Writing : AtWriting(b)
  /\ AtLocks
  /\ AtEnrolled
  /\ AtNeverMix

(* What a pair held apart from batches in progress it holds on, unless it  *)
(* gets a mark.                                                            *)
AtRemembers ==
  \A k \in Attend!Pair : \A v : AtCommitted(k, v)' => AtCommitted(k, v) \/ v # {}

LEMMA AtRows ==
  ASSUME NEW rows \in Attend!Rows
  PROVE  /\ Len(rows) \in Nat /\ DOMAIN rows = 1..Len(rows)
         /\ \A i \in 1..Len(rows) : rows[i] \in Attend!Pair
<1>1. PICK n \in 1..2 : rows \in [1..n -> Attend!Pair]
  BY DEF Attend!Rows
<1>2. rows \in Seq(Attend!Pair) /\ Len(rows) = n
  BY <1>1
<1> QED
  BY <1>1, <1>2

(* What a batch in progress has done.                                      *)
LEMMA AtBatch ==
  ASSUME AtTypes, NEW b \in Attend!Writing, AtWriting(b)
  PROVE  /\ b \in Left /\ batch[b].pc = "writing"
         /\ Attend!Done(b) \in Nat /\ Len(batch[b].rows) \in Nat
         /\ Attend!Done(b) <= Len(batch[b].rows)
         /\ batch[b].before \in Seq(SUBSET Left)
         /\ DOMAIN batch[b].rows = 1..Len(batch[b].rows)
         /\ \A i \in 1..Len(batch[b].rows) :
              /\ batch[b].rows[i] \in Attend!Pair
              /\ Attend!R!EverEnrolled(batch[b].rows[i][1], batch[b].rows[i][2])
         /\ \A i, j \in 1..Len(batch[b].rows) : batch[b].rows[i] = batch[b].rows[j] => i = j
<1>1. b \in Left /\ batch[b].pc = "writing"
  BY DEF Attend!Writing
<1>2. batch[b].before \in Seq(SUBSET Left)
  BY <1>1 DEF AtTypes, Attend!BatchState
<1>3. Attend!Done(b) \in Nat
  BY <1>2 DEF Attend!Done
<1> QED
  BY <1>1, <1>2, <1>3, AtRows DEF AtWriting, Attend!Distinct, Attend!PairsOf

(* What a step must keep, once what the pairs hold apart from batches in   *)
(* progress is no new mixture.                                             *)
LEMMA AtKeepsApart ==
  ASSUME AtNeverMix,
         \A a \in Left : batch'[a].rows = batch[a].rows \/ batch'[a].pc # "saved",
         \A a \in Left : batch'[a].pc = "saved" => batch[a].pc = "saved",
         \A k \in Attend!Pair : \A v : AtCommitted(k, v)' => AtCommitted(k, v)
  PROVE  AtNeverMix'
<1> SUFFICES ASSUME NEW a \in Left, NEW b \in Left, NEW k \in Attend!Pair, NEW l \in Attend!Pair,
                    AtShared(a, b, k, l)'
             PROVE  ~(AtCommitted(k, {a})' /\ AtCommitted(l, {b})')
  BY DEF AtNeverMix
<1>1. AtShared(a, b, k, l)
  BY DEF AtShared, Attend!PairsOf
<1>2. ~(AtCommitted(k, {a}) /\ AtCommitted(l, {b}))
  BY <1>1 DEF AtNeverMix
<1> QED
  BY <1>2

LEMMA AtSend ==
  ASSUME AtIInv, NEW b \in Left, NEW rows \in Attend!Rows, Attend!Send(b, rows)
  PROVE  AtIInv' /\ AtRemembers
<1>1. /\ batch[b].pc = "unsent"
      /\ batch' = [batch EXCEPT ![b] =
           [pc |-> IF Attend!Valid(rows) THEN "writing" ELSE "refused",
            rows |-> rows, before |-> <<>>]]
      /\ UNCHANGED <<rollStatus, rollLink, rollPlan, record>>
  BY DEF Attend!Send, Attend!roster
<1>2. AtTypes'
  <2>1. <<>> \in Seq(SUBSET Left)
    OBVIOUS
  <2> QED
    BY <1>1, <2>1 DEF AtIInv, AtTypes, AtRow, Attend!BatchState
<1>3. /\ \A w \in Left : w # b => batch'[w] = batch[w]
      /\ batch'[b].pc = (IF Attend!Valid(rows) THEN "writing" ELSE "refused")
      /\ batch'[b].rows = rows /\ batch'[b].before = <<>>
  BY <1>1 DEF AtIInv, AtTypes, Attend!BatchState
<1>4. Attend!Done(b)' = 0 /\ Attend!Locks(b)' = {}
  BY <1>3 DEF Attend!Done, Attend!Locks
<1>5. ASSUME NEW w \in Left, w # b
      PROVE  /\ w \in Attend!Writing' <=> w \in Attend!Writing
             /\ Attend!Done(w)' = Attend!Done(w) /\ Attend!Locks(w)' = Attend!Locks(w)
             /\ AtWriting(w)' <=> AtWriting(w)
  BY <1>1, <1>3, <1>5 DEF Attend!Writing, Attend!Done, Attend!Locks, AtWriting, Attend!Distinct,
     Attend!PairsOf, Attend!R!EverEnrolled
<1>6. b \notin Attend!Writing
  BY <1>1 DEF Attend!Writing
<1>7. \A w \in Attend!Writing' : w \in Left
  BY DEF Attend!Writing
<1>8. \A w \in Attend!Writing' : AtWriting(w)'
  <2>1. ASSUME b \in Attend!Writing' PROVE AtWriting(b)'
    <3>1. Attend!Valid(rows)
      BY <1>3, <2>1 DEF Attend!Writing
    <3>2. \A k \in Attend!PairsOf(rows) : Attend!R!EverEnrolled(k[1], k[2])
      BY <3>1 DEF Attend!Valid, Attend!Linked, Attend!R!Enrolled, Attend!R!Classes,
         Attend!R!OpenOf, Attend!R!EverEnrolled
    <3>3. Len(rows) \in Nat /\ Attend!Distinct(rows)
      BY <3>1, AtRows DEF Attend!Valid
    <3>4. \A k \in Attend!PairsOf(rows) : Attend!R!EverEnrolled(k[1], k[2])'
      BY <3>2, <1>1 DEF Attend!R!EverEnrolled
    <3> QED
      BY <1>3, <1>4, <3>3, <3>4 DEF AtWriting, Attend!Distinct, Attend!PairsOf
  <2> QED
    BY <1>5, <1>7, <2>1 DEF AtIInv
<1>9. AtLocks'
  BY <1>1, <1>4, <1>5, <1>7 DEF AtIInv, AtLocks
<1>10. AtEnrolled'
  BY <1>1 DEF AtIInv, AtEnrolled, Attend!R!EverEnrolled
<1>11. \A k \in Attend!Pair : \A v : AtCommitted(k, v)' => AtCommitted(k, v)
  <2> SUFFICES ASSUME NEW k \in Attend!Pair, NEW v, AtCommitted(k, v)' PROVE AtCommitted(k, v)
    OBVIOUS
  <2>1. ASSUME NEW w \in Attend!Writing', NEW j \in 1..Attend!Done(w)',
               batch'[w].rows[j] = k, batch'[w].before[j] = v
        PROVE  AtCommitted(k, v)
    <3>1. w # b
      BY <2>1, <1>4
    <3> QED
      BY <2>1, <3>1, <1>3, <1>5, <1>7 DEF AtCommitted
  <2>2. ASSUME record'[k] = v, \A w \in Attend!Writing' : k \notin Attend!Locks(w)'
        PROVE  AtCommitted(k, v)
    <3>1. \A w \in Attend!Writing : w # b /\ w \in Left
      BY <1>6 DEF Attend!Writing
    <3> QED
      BY <2>2, <3>1, <1>1, <1>5 DEF AtCommitted
  <2> QED
    BY <2>1, <2>2 DEF AtCommitted
<1>12. AtNeverMix'
  <2>1. \A a \in Left : batch'[a].pc = "saved" => a # b
    BY <1>3
  <2> QED
    BY <2>1, <1>3, <1>11, AtKeepsApart DEF AtIInv
<1> QED
  BY <1>2, <1>8, <1>9, <1>10, <1>11, <1>12 DEF AtIInv, AtRemembers

LEMMA AtUpsert ==
  ASSUME AtIInv, NEW b \in Left, Attend!Upsert(b)
  PROVE  AtIInv' /\ AtRemembers
<1> DEFINE n == Attend!Done(b)
           pair == Attend!Wanted(b)
           rows == batch[b].rows
<1>1. b \in Attend!Writing /\ n < Len(rows) /\ ~Attend!Waits(b)
  BY DEF Attend!Upsert
<1>2. /\ record' = [record EXCEPT ![pair] = {b}]
      /\ batch' = [batch EXCEPT ![b].before = Append(@, record[pair])]
      /\ UNCHANGED <<rollStatus, rollLink, rollPlan>>
  BY DEF Attend!Upsert, Attend!roster
<1>3. AtTypes /\ AtWriting(b)
  BY <1>1 DEF AtIInv
<1>4. /\ n \in Nat /\ Len(rows) \in Nat /\ batch[b].before \in Seq(SUBSET Left)
      /\ DOMAIN rows = 1..Len(rows)
      /\ \A i \in 1..Len(rows) : rows[i] \in Attend!Pair /\ Attend!R!EverEnrolled(rows[i][1], rows[i][2])
      /\ \A i, j \in 1..Len(rows) : rows[i] = rows[j] => i = j
  BY <1>1, <1>3, AtBatch
<1>5. pair = rows[n + 1] /\ n + 1 \in 1..Len(rows) /\ pair \in Attend!Pair
  BY <1>1, <1>4 DEF Attend!Wanted
<1>6. record[pair] \in SUBSET Left
  BY <1>3, <1>5 DEF AtTypes
<1>7. /\ \A w \in Left : w # b => batch'[w] = batch[w]
      /\ batch'[b].pc = "writing" /\ batch'[b].rows = rows
      /\ batch'[b].before = Append(batch[b].before, record[pair])
  BY <1>1, <1>2, <1>3 DEF AtTypes, Attend!BatchState, Attend!Writing
<1>8. /\ n = Len(batch[b].before) /\ batch'[b].before \in Seq(SUBSET Left)
      /\ Len(batch'[b].before) = n + 1 /\ batch'[b].before[n + 1] = record[pair]
      /\ \A i \in 1..n : batch'[b].before[i] = batch[b].before[i]
  <2>1. n = Len(batch[b].before)
    BY DEF Attend!Done
  <2> QED
    BY <2>1, <1>4, <1>6, <1>7
<1>9. Attend!Writing' = Attend!Writing
  BY <1>1, <1>7 DEF Attend!Writing
<1>10. \A w \in Attend!Writing : w \in Left
  BY DEF Attend!Writing
<1>11. ASSUME NEW w \in Left, w # b
       PROVE  Attend!Done(w)' = Attend!Done(w) /\ Attend!Locks(w)' = Attend!Locks(w)
  BY <1>7, <1>11 DEF Attend!Done, Attend!Locks
<1>12. Attend!Done(b)' = n + 1
  BY <1>8 DEF Attend!Done
<1>13. Attend!Locks(b) = {rows[i] : i \in 1..n} /\ Attend!Locks(b)' = {rows[i] : i \in 1..(n + 1)}
  BY <1>7, <1>12 DEF Attend!Locks
<1> HIDE DEF n, pair, rows
<1>14. Attend!Locks(b)' = Attend!Locks(b) \cup {pair}
  <2>1. 1..(n + 1) = (1..n) \cup {n + 1}
    BY <1>4
  <2> QED
    BY <2>1, <1>13, <1>5
<1>15. pair \notin Attend!Locks(b)
  <2> SUFFICES ASSUME NEW i \in 1..n, rows[i] = pair PROVE FALSE
    BY <1>13
  <2>1. i \in 1..Len(rows) /\ i # n + 1
    BY <1>1, <1>4
  <2> QED
    BY <2>1, <1>4, <1>5
<1>16. \A w \in Attend!Writing : pair \notin Attend!Locks(w)
  BY <1>1, <1>15 DEF Attend!Waits, pair
<1>17. AtTypes'
  <2>1. record' \in [Attend!Pair -> SUBSET Left]
    BY <1>2, <1>3, <1>5 DEF AtTypes
  <2>2. batch'[b] = [batch[b] EXCEPT !.before = Append(batch[b].before, record[pair])]
    BY <1>2, <1>3 DEF AtTypes
  <2>3. batch'[b] \in Attend!BatchState
    BY <1>3, <1>7, <1>8, <2>2 DEF AtTypes, Attend!BatchState
  <2>4. batch' \in [Left -> Attend!BatchState]
    BY <1>2, <1>3, <2>2, <2>3 DEF AtTypes
  <2> QED
    BY <1>2, <1>3, <2>1, <2>4 DEF AtTypes, AtRow
<1>18. \A w \in Attend!Writing' : AtWriting(w)'
  <2>1. ASSUME NEW w \in Attend!Writing PROVE AtWriting(w)'
    <3>1. AtWriting(w) /\ w \in Left
      BY <1>10 DEF AtIInv
    <3>2. batch'[w].rows = batch[w].rows
      BY <3>1, <1>7 DEF rows
    <3>3. Attend!Done(w)' <= Len(batch[w].rows)
      <4>1. CASE w = b
        BY <4>1, <1>1, <1>4, <1>12 DEF rows
      <4>2. CASE w # b
        BY <4>2, <3>1, <1>11 DEF AtWriting
      <4> QED
        BY <4>1, <4>2
    <3> QED
      BY <1>2, <3>1, <3>2, <3>3
         DEF AtWriting, Attend!Distinct, Attend!PairsOf, Attend!R!EverEnrolled
  <2> QED
    BY <2>1, <1>9
<1>19. AtLocks'
  <2>1. ASSUME NEW a \in Attend!Writing, NEW c \in Attend!Writing, a # c
        PROVE  Attend!Locks(a)' \cap Attend!Locks(c)' = {}
    <3>1. Attend!Locks(a) \cap Attend!Locks(c) = {}
      BY <2>1 DEF AtIInv, AtLocks
    <3> QED
      BY <2>1, <3>1, <1>10, <1>11, <1>14, <1>16
  <2>2. ASSUME NEW a \in Attend!Writing, NEW k \in Attend!Locks(a)'
        PROVE  record'[k] = {a}
    <3>1. CASE k = pair
      BY <3>1, <2>2, <1>2, <1>3, <1>5, <1>10, <1>11, <1>16 DEF AtTypes
    <3>2. CASE k # pair
      <4>1. k \in Attend!Locks(a)
        BY <3>2, <2>2, <1>10, <1>11, <1>14
      <4> QED
        BY <3>2, <4>1, <1>2 DEF AtIInv, AtLocks
    <3> QED
      BY <3>1, <3>2
  <2> QED
    BY <2>1, <2>2, <1>9 DEF AtLocks
<1>20. AtEnrolled'
  <2>1. Attend!R!EverEnrolled(pair[1], pair[2])
    BY <1>4, <1>5
  <2> QED
    BY <2>1, <1>2, <1>3, <1>5 DEF AtIInv, AtEnrolled, AtTypes, Attend!R!EverEnrolled
<1>21. \A k \in Attend!Pair : \A v : AtCommitted(k, v)' => AtCommitted(k, v)
  <2> SUFFICES ASSUME NEW k \in Attend!Pair, NEW v, AtCommitted(k, v)' PROVE AtCommitted(k, v)
    OBVIOUS
  <2>1. ASSUME NEW w \in Attend!Writing, NEW j \in 1..Attend!Done(w)',
               batch'[w].rows[j] = k, batch'[w].before[j] = v
        PROVE  AtCommitted(k, v)
    <3>1. CASE w # b
      BY <2>1, <3>1, <1>7, <1>10, <1>11 DEF AtCommitted
    <3>2. CASE w = b /\ j = n + 1
      <4>1. k = pair /\ v = record[pair]
        BY <2>1, <3>2, <1>5, <1>7, <1>8
      <4> QED
        BY <4>1, <1>16 DEF AtCommitted
    <3>3. CASE w = b /\ j # n + 1
      <4>1. j \in 1..n
        BY <3>3, <2>1, <1>4, <1>12
      <4>2. batch[w].rows[j] = k /\ batch[w].before[j] = v /\ j \in 1..Attend!Done(w)
        BY <4>1, <3>3, <2>1, <1>7, <1>8 DEF rows, n
      <4> QED
        BY <2>1, <4>2 DEF AtCommitted
    <3> QED
      BY <3>1, <3>2, <3>3
  <2>2. ASSUME record'[k] = v, \A w \in Attend!Writing : k \notin Attend!Locks(w)'
        PROVE  AtCommitted(k, v)
    <3>1. k # pair
      BY <2>2, <1>1, <1>14
    <3>2. \A w \in Attend!Writing : k \notin Attend!Locks(w)
      BY <2>2, <1>10, <1>11, <1>14
    <3> QED
      BY <2>2, <3>1, <3>2, <1>2 DEF AtCommitted
  <2> QED
    BY <2>1, <2>2, <1>9 DEF AtCommitted
<1>22. AtNeverMix'
  <2>1. \A a \in Left : batch'[a].pc = "saved" => a # b
    BY <1>7
  <2> QED
    BY <2>1, <1>7, <1>21, AtKeepsApart DEF AtIInv
<1> QED
  BY <1>17, <1>18, <1>19, <1>20, <1>21, <1>22 DEF AtIInv, AtRemembers

(* The end of a batch, saved or not: its locks go, and the pairs that      *)
(* nobody locks then keep what they held apart from it, or its mark.       *)
LEMMA AtEnd ==
  ASSUME AtIInv, NEW b \in Attend!Writing,
         batch'[b].pc # "writing",
         \A w \in Left : w # b => batch'[w] = batch[w],
         AtTypes', rollLink' = rollLink,
         \A k \in Attend!Pair : k \notin Attend!Locks(b) => record'[k] = record[k]
  PROVE  /\ Attend!Writing' = Attend!Writing \ {b}
         /\ \A w \in Attend!Writing : w # b =>
              Attend!Done(w)' = Attend!Done(w) /\ Attend!Locks(w)' = Attend!Locks(w)
         /\ \A w \in Attend!Writing' : AtWriting(w)'
         /\ AtLocks'
         /\ \A k \in Attend!Pair : \A v :
              AtCommitted(k, v)' =>
                \/ AtCommitted(k, v)
                \/ k \in Attend!Locks(b) /\ record'[k] = v
<1>1. \A w \in Attend!Writing : w \in Left /\ AtWriting(w)
  BY DEF AtIInv, Attend!Writing
<1>2. Attend!Writing' = Attend!Writing \ {b}
  BY <1>1 DEF Attend!Writing
<1>3. \A w \in Attend!Writing : w # b =>
        Attend!Done(w)' = Attend!Done(w) /\ Attend!Locks(w)' = Attend!Locks(w)
  BY <1>1 DEF Attend!Done, Attend!Locks
<1>4. \A w \in Attend!Writing' : AtWriting(w)'
  BY <1>1, <1>2, <1>3 DEF AtWriting, Attend!Distinct, Attend!PairsOf, Attend!R!EverEnrolled
<1>5. \A w \in Attend!Writing : Attend!Locks(w) \subseteq Attend!Pair
  <2>1. ASSUME NEW w \in Attend!Writing, NEW j \in 1..Attend!Done(w)
        PROVE  batch[w].rows[j] \in Attend!Pair
    <3>1. AtTypes /\ AtWriting(w)
      BY <2>1, <1>1 DEF AtIInv
    <3>2. j \in 1..Len(batch[w].rows)
      BY <2>1, <3>1, AtBatch
    <3> QED
      BY <3>1, <3>2, AtBatch
  <2> QED
    BY <2>1 DEF Attend!Locks
<1>6. AtLocks'
  <2>1. ASSUME NEW a \in Attend!Writing, a # b, NEW k \in Attend!Locks(a)
        PROVE  record'[k] = {a}
    <3>1. k \notin Attend!Locks(b) /\ record[k] = {a}
      BY <2>1 DEF AtIInv, AtLocks
    <3> QED
      BY <2>1, <3>1, <1>5
  <2> QED
    BY <2>1, <1>2, <1>3 DEF AtIInv, AtLocks
<1>7. ASSUME NEW k \in Attend!Pair, NEW v, AtCommitted(k, v)'
      PROVE  AtCommitted(k, v) \/ (k \in Attend!Locks(b) /\ record'[k] = v)
  <2>1. ASSUME NEW w \in Attend!Writing', NEW j \in 1..Attend!Done(w)',
               batch'[w].rows[j] = k, batch'[w].before[j] = v
        PROVE  AtCommitted(k, v)
    BY <2>1, <1>1, <1>2, <1>3 DEF AtCommitted
  <2>2. ASSUME record'[k] = v, \A w \in Attend!Writing' : k \notin Attend!Locks(w)',
               k \notin Attend!Locks(b)
        PROVE  AtCommitted(k, v)
    BY <2>2, <1>2, <1>3 DEF AtCommitted
  <2> QED
    BY <1>7, <2>1, <2>2 DEF AtCommitted
<1> QED
  BY <1>2, <1>3, <1>4, <1>6, <1>7

(* A batch that is saved has all its pairs, each with its mark, and none   *)
(* with that of an earlier batch.                                          *)
LEMMA AtSave ==
  ASSUME AtIInv, NEW b \in Left, Attend!Save(b)
  PROVE  AtIInv' /\ AtRemembers
<1>1. /\ b \in Attend!Writing /\ Attend!Done(b) = Len(batch[b].rows)
      /\ batch' = [batch EXCEPT ![b].pc = "saved"]
      /\ UNCHANGED <<rollStatus, rollLink, rollPlan, record>>
  BY DEF Attend!Save, Attend!roster
<1>2. AtTypes /\ AtWriting(b)
  BY <1>1 DEF AtIInv
<1>3. /\ \A w \in Left : w # b => batch'[w] = batch[w]
      /\ batch'[b].pc = "saved" /\ batch'[b].rows = batch[b].rows
  BY <1>1, <1>2 DEF AtTypes, Attend!BatchState
<1>4. AtTypes'
  BY <1>1, <1>2 DEF AtTypes, AtRow, Attend!BatchState
<1>5. /\ Attend!Writing' = Attend!Writing \ {b}
      /\ \A w \in Attend!Writing : w # b => Attend!Locks(w)' = Attend!Locks(w)
      /\ \A w \in Attend!Writing' : AtWriting(w)'
      /\ AtLocks'
      /\ \A k \in Attend!Pair : \A v :
           AtCommitted(k, v)' => AtCommitted(k, v) \/ (k \in Attend!Locks(b) /\ record'[k] = v)
  BY <1>1, <1>3, <1>4, AtEnd
<1>6. AtEnrolled'
  BY <1>1 DEF AtIInv, AtEnrolled, Attend!R!EverEnrolled
<1>7. Attend!PairsOf(batch[b].rows) = Attend!Locks(b)
  BY <1>1, <1>2, AtBatch DEF Attend!PairsOf, Attend!Locks
<1>8. \A k \in Attend!Locks(b) : record'[k] = {b}
  BY <1>1 DEF AtIInv, AtLocks
<1>9. ASSUME NEW k \in Attend!Locks(b), NEW v, AtCommitted(k, v)'
      PROVE  v = {b}
  <2>1. ASSUME NEW w \in Attend!Writing', k \in Attend!Locks(w)' PROVE FALSE
    BY <2>1, <1>1, <1>5 DEF AtIInv, AtLocks
  <2>2. ASSUME NEW w \in Attend!Writing', NEW j \in 1..Attend!Done(w)', batch'[w].rows[j] = k
        PROVE  FALSE
    <3>1. k \in Attend!Locks(w)'
      BY <2>2 DEF Attend!Locks
    <3> QED
      BY <2>1, <2>2, <3>1
  <2> QED
    BY <1>8, <1>9, <2>2 DEF AtCommitted
<1>10. AtNeverMix'
  <2> SUFFICES ASSUME NEW a \in Left, NEW c \in Left, NEW k \in Attend!Pair, NEW l \in Attend!Pair,
                      AtShared(a, c, k, l)', AtCommitted(k, {a})', AtCommitted(l, {c})'
               PROVE  FALSE
    BY DEF AtNeverMix
  <2>1. /\ batch'[a].pc = "saved" /\ batch'[c].pc = "saved" /\ a # c
        /\ {k, l} \subseteq Attend!PairsOf(batch[a].rows) \cap Attend!PairsOf(batch[c].rows)
    BY <1>3 DEF AtShared, Attend!PairsOf
  <2>2. CASE a = b \/ c = b
    <3>1. {k, l} \subseteq Attend!Locks(b)
      BY <2>1, <2>2, <1>7
    <3>2. {a} = {b} /\ {c} = {b}
      BY <3>1, <1>9
    <3> QED
      BY <2>1, <3>2
  <2>3. CASE a # b /\ c # b
    <3>1. AtShared(a, c, k, l)
      BY <2>1, <2>3, <1>3 DEF AtShared
    <3>2. {a} # {b} /\ {c} # {b}
      BY <2>3
    <3>3. AtCommitted(k, {a}) /\ AtCommitted(l, {c})
      BY <1>5, <1>8, <3>2
    <3> QED
      BY <3>1, <3>3 DEF AtIInv, AtNeverMix
  <2> QED
    BY <2>2, <2>3
<1> QED
  BY <1>4, <1>5, <1>6, <1>8, <1>10 DEF AtIInv, AtRemembers

(* A batch that fails puts back what it replaced.                          *)
LEMMA AtFail ==
  ASSUME AtIInv, NEW b \in Left, Attend!Fail(b)
  PROVE  AtIInv' /\ AtRemembers
<1> DEFINE put(k) == {j \in 1..Attend!Done(b) : batch[b].rows[j] = k}
           back(k) == UNION {batch[b].before[i] : i \in put(k)}
<1>1. /\ b \in Attend!Writing
      /\ record' = [k \in Attend!Pair |-> IF k \in Attend!Locks(b) THEN back(k) ELSE record[k]]
      /\ batch' = [batch EXCEPT ![b].pc = "refused", ![b].before = <<>>]
      /\ UNCHANGED <<rollStatus, rollLink, rollPlan>>
  BY DEF Attend!Fail, Attend!roster
<1>2. AtTypes /\ AtWriting(b)
  BY <1>1 DEF AtIInv
<1>3. /\ \A w \in Left : w # b => batch'[w] = batch[w]
      /\ batch'[b].pc = "refused"
  BY <1>1, <1>2 DEF AtTypes, Attend!BatchState
<1>4. ASSUME NEW k \in Attend!Locks(b)
      PROVE  /\ k \in Attend!Pair /\ Attend!R!EverEnrolled(k[1], k[2])
             /\ AtCommitted(k, back(k)) /\ back(k) \in SUBSET Left
  <2>1. PICK i \in 1..Attend!Done(b) : batch[b].rows[i] = k
    BY DEF Attend!Locks
  <2>2. i \in 1..Len(batch[b].rows)
    BY <1>1, <1>2, AtBatch
  <2>3. put(k) = {i}
    <3>1. ASSUME NEW j \in 1..Attend!Done(b), batch[b].rows[j] = k PROVE j = i
      <4>1. j \in 1..Len(batch[b].rows)
        BY <1>1, <1>2, AtBatch
      <4> QED
        BY <2>1, <2>2, <3>1, <4>1, <1>1, <1>2, AtBatch
    <3> QED
      BY <2>1, <3>1
  <2>4. back(k) = batch[b].before[i]
    BY <2>3
  <2>5. batch[b].before[i] \in SUBSET Left
    <3>1. batch[b].before \in Seq(SUBSET Left) /\ i \in 1..Len(batch[b].before)
      BY <1>1, <1>2, AtBatch DEF Attend!Done
    <3> QED
      BY <3>1
  <2> HIDE DEF put, back
  <2> QED
    BY <2>1, <2>2, <2>4, <2>5, <1>1, <1>2, AtBatch DEF AtCommitted
<1> HIDE DEF put, back
<1>5. AtTypes'
  <2>1. record' \in [Attend!Pair -> SUBSET Left]
    BY <1>1, <1>2, <1>4 DEF AtTypes
  <2>2. <<>> \in Seq(SUBSET Left)
    OBVIOUS
  <2>3. batch' \in [Left -> Attend!BatchState]
    BY <1>1, <1>2, <2>2 DEF AtTypes, Attend!BatchState
  <2> QED
    BY <1>1, <1>2, <2>1, <2>3 DEF AtTypes, AtRow
<1>6. \A k \in Attend!Pair : k \notin Attend!Locks(b) => record'[k] = record[k]
  BY <1>1
<1>7. /\ Attend!Writing' = Attend!Writing \ {b}
      /\ \A w \in Attend!Writing' : AtWriting(w)'
      /\ AtLocks'
      /\ \A k \in Attend!Pair : \A v :
           AtCommitted(k, v)' => AtCommitted(k, v) \/ (k \in Attend!Locks(b) /\ record'[k] = v)
  BY <1>1, <1>3, <1>5, <1>6, AtEnd
<1>8. AtEnrolled'
  BY <1>1, <1>4 DEF AtIInv, AtEnrolled, Attend!R!EverEnrolled
<1>9. \A k \in Attend!Pair : \A v : AtCommitted(k, v)' => AtCommitted(k, v)
  BY <1>1, <1>4, <1>7
<1>10. AtNeverMix'
  <2>1. \A a \in Left : batch'[a].pc = "saved" => a # b
    BY <1>3
  <2> QED
    BY <2>1, <1>3, <1>9, AtKeepsApart DEF AtIInv
<1> QED
  BY <1>5, <1>7, <1>8, <1>9, <1>10 DEF AtIInv, AtRemembers

LEMMA AtSetOpen ==
  ASSUME NEW k, AtRow(k), NEW v
  PROVE  [k EXCEPT !.open = v]
           = [id |-> k.id, student |-> k.student, class |-> k.class, open |-> v]
<1>1. k = [id |-> k.id, student |-> k.student, class |-> k.class, open |-> k.open]
  BY DEF AtRow
<1> QED
  BY <1>1

(* Enrolments change: whoever was enrolled stays on the list.              *)
LEMMA AtTable ==
  ASSUME \A k \in rollLink : AtRow(k),
         NEW leaving \in SUBSET rollLink, NEW s, NEW classes,
         rollLink' = (rollLink \ leaving) \cup Attend!R!Closed(leaving)
                       \cup Attend!R!NewLinks(s, classes)
  PROVE  /\ \A k \in rollLink' : AtRow(k)
         /\ \A t, c : Attend!R!EverEnrolled(t, c) => Attend!R!EverEnrolled(t, c)'
<1> DEFINE closed(k) == [k EXCEPT !.open = FALSE]
<1>1. ASSUME NEW k \in leaving
      PROVE  AtRow(closed(k)) /\ closed(k).student = k.student /\ closed(k).class = k.class
  <2>1. AtRow(k)
    OBVIOUS
  <2>2. closed(k) = [id |-> k.id, student |-> k.student, class |-> k.class, open |-> FALSE]
    BY <2>1, AtSetOpen
  <2> HIDE DEF closed
  <2> QED
    BY <2>2 DEF AtRow
<1>2. Attend!R!Closed(leaving) = {closed(k) : k \in leaving}
  BY DEF Attend!R!Closed
<1>3. \A k \in Attend!R!NewLinks(s, classes) : AtRow(k)
  BY DEF Attend!R!NewLinks, AtRow
<1> HIDE DEF closed
<1> QED
  BY <1>1, <1>2, <1>3 DEF Attend!R!EverEnrolled

LEMMA AtRoster ==
  ASSUME AtIInv, Attend!R!Next, UNCHANGED <<record, batch>>
  PROVE  AtIInv' /\ AtRemembers
<1> DEFINE Grows == /\ \A k \in rollLink' : AtRow(k)
                    /\ \A t, c : Attend!R!EverEnrolled(t, c) => Attend!R!EverEnrolled(t, c)'
<1>1. \A k \in rollLink : AtRow(k)
  BY DEF AtIInv, AtTypes
<1>2. ASSUME rollLink' = rollLink PROVE Grows
  BY <1>1, <1>2 DEF Attend!R!EverEnrolled
<1>3. ASSUME NEW s \in Right, NEW next \in Attend!R!NextClass, Attend!R!CreateStudent(s, next)
      PROVE  Grows
  <2>1. rollLink' = rollLink \cup Attend!R!NewLinks(s, next)
    BY <1>3 DEF Attend!R!CreateStudent
  <2>2. Attend!R!Closed({}) = {}
    BY DEF Attend!R!Closed
  <2>3. {} \in SUBSET rollLink
    OBVIOUS
  <2>4. rollLink' = (rollLink \ {}) \cup Attend!R!Closed({}) \cup Attend!R!NewLinks(s, next)
    BY <2>1, <2>2
  <2> QED
    BY <1>1, <2>3, <2>4, AtTable
<1>4. ASSUME NEW p \in One, NEW new \in Attend!R!Present, Attend!R!UpdateStudent(p, new)
      PROVE  Grows
  <2> DEFINE leaving(pl) == {k \in Attend!R!OpenOf(pl.student) : k.class \in pl.close}
  <2>1. PICK pl \in rollPlan[p] :
          \/ rollLink' = rollLink
          \/ rollLink' = (rollLink \ leaving(pl)) \cup Attend!R!Closed(leaving(pl))
                           \cup Attend!R!NewLinks(pl.student, pl.create)
    BY <1>4 DEF Attend!R!UpdateStudent
  <2>2. leaving(pl) \in SUBSET rollLink
    BY DEF Attend!R!OpenOf
  <2> HIDE DEF leaving
  <2> QED
    BY <1>1, <1>2, <2>1, <2>2, AtTable
<1>5. ASSUME NEW p \in One, Attend!R!TransferStudent(p)
      PROVE  Grows
  <2> DEFINE leaving(pl) == {k \in rollLink : k.id \in pl.close}
  <2>1. PICK pl \in rollPlan[p] :
          \/ rollLink' = rollLink
          \/ rollLink' = (rollLink \ leaving(pl)) \cup Attend!R!Closed(leaving(pl))
                           \cup Attend!R!NewLinks(pl.student, pl.create)
    BY <1>5 DEF Attend!R!TransferStudent
  <2>2. leaving(pl) \in SUBSET rollLink
    OBVIOUS
  <2> HIDE DEF leaving
  <2> QED
    BY <1>1, <1>2, <2>1, <2>2, AtTable
<1>6. Grows
  BY <1>2, <1>3, <1>4, <1>5
     DEF Attend!R!Next, Attend!R!PlanUpdate, Attend!R!PlanTransfer, Attend!R!DeleteStudent,
         Attend!R!Abort
<1>7. Attend!Writing' = Attend!Writing
  BY DEF Attend!Writing
<1>8. \A w : Attend!Done(w)' = Attend!Done(w) /\ Attend!Locks(w)' = Attend!Locks(w)
  BY DEF Attend!Done, Attend!Locks
<1>9. \A w \in Attend!Writing' : AtWriting(w)'
  BY <1>6, <1>7, <1>8 DEF AtIInv, AtWriting, Attend!Distinct, Attend!PairsOf
<1>10. \A k \in Attend!Pair : \A v : AtCommitted(k, v)' => AtCommitted(k, v)
  BY <1>7, <1>8 DEF AtCommitted
<1>11. AtNeverMix'
  BY <1>10, AtKeepsApart DEF AtIInv
<1>12. AtLocks' /\ AtEnrolled' /\ AtTypes'
  BY <1>6, <1>7, <1>8 DEF AtIInv, AtLocks, AtEnrolled, AtTypes
<1> QED
  BY <1>9, <1>10, <1>11, <1>12 DEF AtIInv, AtRemembers

LEMMA AtStep == AtIInv /\ [Attend!Next]_(Attend!vars) => AtIInv' /\ AtRemembers
<1> SUFFICES ASSUME AtIInv, [Attend!Next]_(Attend!vars) PROVE AtIInv' /\ AtRemembers
  OBVIOUS
<1>1. CASE UNCHANGED Attend!vars
  <2>1. UNCHANGED <<rollLink, record, batch>>
    BY <1>1 DEF Attend!vars, Attend!roster
  <2>2. Attend!Writing' = Attend!Writing
    BY <2>1 DEF Attend!Writing
  <2>3. \A w : Attend!Done(w)' = Attend!Done(w) /\ Attend!Locks(w)' = Attend!Locks(w)
    BY <2>1 DEF Attend!Done, Attend!Locks
  <2>4. \A k \in Attend!Pair : \A v : AtCommitted(k, v)' => AtCommitted(k, v)
    BY <2>1, <2>2, <2>3 DEF AtCommitted
  <2>5. AtNeverMix'
    BY <2>1, <2>4, AtKeepsApart DEF AtIInv
  <2>6. \A w \in Attend!Writing' : AtWriting(w)'
    BY <2>1, <2>2, <2>3
       DEF AtIInv, AtWriting, Attend!Distinct, Attend!PairsOf, Attend!R!EverEnrolled
  <2> QED
    BY <2>1, <2>2, <2>3, <2>4, <2>5, <2>6
       DEF AtRemembers, AtIInv, AtLocks, AtEnrolled, AtTypes, AtRow, Attend!R!EverEnrolled
<1>2. CASE Attend!R!Next /\ UNCHANGED <<record, batch>>
  BY <1>2, AtRoster
<1>3. ASSUME NEW b \in Left,
             \/ \E rows \in Attend!Rows : Attend!Send(b, rows)
             \/ Attend!Upsert(b) \/ Attend!Save(b) \/ Attend!Fail(b)
      PROVE  AtIInv' /\ AtRemembers
  BY <1>3, AtSend, AtUpsert, AtSave, AtFail
<1> QED
  BY <1>1, <1>2, <1>3 DEF Attend!Next

LEMMA AtNext == AtIInv /\ [Attend!Next]_(Attend!vars) => AtIInv'
  BY AtStep

LEMMA AtInit == Attend!Init => AtIInv
<1> SUFFICES ASSUME Attend!Init PROVE AtIInv
  OBVIOUS
<1>1. /\ rollLink = {}
      /\ record = [k \in Attend!Pair |-> {}]
      /\ batch = [b \in Left |-> [pc |-> "unsent", rows |-> <<>>, before |-> <<>>]]
  BY DEF Attend!Init, Attend!R!Init
<1>2. <<>> \in Seq(SUBSET Left)
  OBVIOUS
<1>3. AtTypes
  BY <1>1, <1>2 DEF AtTypes, Attend!BatchState
<1>4. Attend!Writing = {}
  BY <1>1 DEF Attend!Writing
<1> QED
  BY <1>1, <1>3, <1>4 DEF AtIInv, AtLocks, AtEnrolled, AtNeverMix, AtShared

(* A record belongs to a student who is or was enrolled in the class, even *)
(* if the enrolment ended between the check of the batch and the write.    *)
THEOREM RecordsWereEnrolled == Attend!Spec => []RecordedWereEnrolled
<1>1. AtIInv => RecordedWereEnrolled
  <2> SUFFICES ASSUME AtIInv, NEW s \in Right, NEW c \in One, record[<<s, c>>] # {}
               PROVE  Attend!R!EverEnrolled(s, c)
    BY DEF RecordedWereEnrolled, Attend!RecordedWereEnrolled
  <2>1. <<s, c>> \in Attend!Pair
    BY DEF Attend!Pair
  <2> QED
    BY <2>1 DEF AtIInv, AtEnrolled
<1> QED
  BY <1>1, AtInit, AtNext, PTL DEF Attend!Spec

(* Of two saved batches one is later on every pair they share: a roll is   *)
(* never a mixture of two calls of the same students.                      *)
THEOREM RollsAreNoMixture == Attend!Spec => []BatchesNeverMix
<1>1. AtIInv => BatchesNeverMix
  <2> SUFFICES ASSUME AtIInv, NEW a \in Left, NEW b \in Left,
                      NEW k \in Attend!Pair, NEW l \in Attend!Pair,
                      AtShared(a, b, k, l), record[k] = {a}, record[l] = {b}
               PROVE  FALSE
    BY DEF BatchesNeverMix, Attend!BatchesNeverMix, AtShared
  <2>1. \A w \in Attend!Writing : k \notin Attend!Locks(w) /\ l \notin Attend!Locks(w)
    <3>1. \A w \in Attend!Writing : w # a /\ w # b
      BY DEF AtShared, Attend!Writing
    <3> QED
      BY <3>1 DEF AtIInv, AtLocks
  <2>2. AtCommitted(k, {a}) /\ AtCommitted(l, {b})
    BY <2>1 DEF AtCommitted
  <2> QED
    BY <2>2 DEF AtIInv, AtNeverMix
<1> QED
  BY <1>1, AtInit, AtNext, PTL DEF Attend!Spec

(* Others see exactly what a pair holds apart from batches in progress.    *)
AtSeen ==
  \A k \in Attend!Pair :
    /\ AtCommitted(k, Attend!Visible(k))
    /\ \A v : AtCommitted(k, v) => v = Attend!Visible(k)

LEMMA AtVisible == AtIInv => AtSeen
<1> SUFFICES ASSUME AtIInv, NEW k \in Attend!Pair
             PROVE  /\ AtCommitted(k, Attend!Visible(k))
                    /\ \A v : AtCommitted(k, v) => v = Attend!Visible(k)
  BY DEF AtSeen
<1>1. CASE \A w \in Attend!Writing : k \notin Attend!Locks(w)
  <2>1. Attend!Visible(k) = record[k]
    BY <1>1 DEF Attend!Visible
  <2>2. ASSUME NEW w \in Attend!Writing, NEW i \in 1..Attend!Done(w), batch[w].rows[i] = k
        PROVE  FALSE
    BY <1>1, <2>2 DEF Attend!Locks
  <2> QED
    BY <1>1, <2>1, <2>2 DEF AtCommitted
<1>2. CASE \E w \in Attend!Writing : k \in Attend!Locks(w)
  <2>1. PICK b \in Attend!Writing : k \in Attend!Locks(b)
    BY <1>2
  <2>2. PICK i \in 1..Attend!Done(b) : batch[b].rows[i] = k
    BY <2>1 DEF Attend!Locks
  <2>3. ASSUME NEW w \in Attend!Writing, NEW j \in 1..Attend!Done(w), batch[w].rows[j] = k
        PROVE  w = b /\ j = i
    <3>1. w = b
      <4>1. k \in Attend!Locks(w)
        BY <2>3 DEF Attend!Locks
      <4> QED
        BY <2>1, <4>1 DEF AtIInv, AtLocks
    <3>2. AtTypes /\ AtWriting(b)
      BY DEF AtIInv
    <3>3. i \in 1..Len(batch[b].rows) /\ j \in 1..Len(batch[b].rows)
      BY <3>1, <3>2, AtBatch
    <3> QED
      BY <2>2, <2>3, <3>1, <3>2, <3>3, AtBatch
  <2>4. Attend!Visible(k) = batch[b].before[i]
    <3>1. Attend!Visible(k)
            = UNION {UNION {batch[w].before[j] :
                              j \in {l \in 1..Attend!Done(w) : batch[w].rows[l] = k}} :
                       w \in Attend!Writing}
      BY <2>1 DEF Attend!Visible
    <3>2. ASSUME NEW x
          PROVE  x \in Attend!Visible(k) <=> x \in batch[b].before[i]
      <4>1. x \in Attend!Visible(k) <=>
              \E w \in Attend!Writing :
                \E j \in 1..Attend!Done(w) : batch[w].rows[j] = k /\ x \in batch[w].before[j]
        BY <3>1
      <4> QED
        BY <2>2, <2>3, <4>1
    <3>3. \A x : x \in Attend!Visible(k) <=> x \in batch[b].before[i]
      BY <3>2
    <3> QED
      BY <3>3
  <2>5. ASSUME NEW v, AtCommitted(k, v) PROVE v = batch[b].before[i]
    BY <2>1, <2>3, <2>5 DEF AtCommitted
  <2>6. AtCommitted(k, batch[b].before[i])
    BY <2>2 DEF AtCommitted
  <2> QED
    BY <2>4, <2>5, <2>6
<1> QED
  BY <1>1, <1>2

(* A larger set of things of a table is no smaller a number.               *)
LEMMA AtCount ==
  ASSUME NEW S, IsFiniteSet(S), NEW T \in SUBSET S, NEW U \in SUBSET T
  PROVE  /\ Cardinality(T) \in Nat /\ Cardinality(U) \in Nat
         /\ Cardinality(U) <= Cardinality(T)
<1>1. IsFiniteSet(T)
  BY FS_Subset
<1> QED
  BY <1>1, FS_Subset, FS_CardinalityType

(* Whatever a batch does, who was recorded stays recorded.                 *)
LEMMA AtRecorded ==
  ASSUME AtSeen, AtSeen', AtRemembers, NEW c \in One
  PROVE  Attend!Recorded(c) \subseteq Attend!Recorded(c)'
<1> SUFFICES ASSUME NEW s \in Right, Attend!Visible(<<s, c>>) # {}
             PROVE  Attend!Visible(<<s, c>>)' # {}
  BY DEF Attend!Recorded
<1>1. PICK k \in Attend!Pair : k = <<s, c>>
  BY DEF Attend!Pair
<1>2. PICK v : v = Attend!Visible(k)'
  OBVIOUS
<1>3. AtCommitted(k, v)'
  BY <1>2 DEF AtSeen
<1>4. AtCommitted(k, v) \/ v # {}
  BY <1>3 DEF AtRemembers
<1>5. CASE AtCommitted(k, v)
  <2>1. v = Attend!Visible(k)
    BY <1>5 DEF AtSeen
  <2> QED
    BY <1>1, <1>2, <2>1
<1> QED
  BY <1>1, <1>2, <1>4, <1>5

(* Saving rolls never turns a completed class into a pending one, no       *)
(* student loses a class that the summary counted, and no total of what is *)
(* done goes down: only enrolments can change that.                        *)
THEOREM SummariesOnlyGrow == Attend!Spec => CompletedStays
<1> DEFINE Stays ==
      rollStatus' = rollStatus /\ rollLink' = rollLink =>
        /\ \A c \in One : Attend!Completed(c) => Attend!Completed(c)'
        /\ \A s \in Right : Attend!StudentSummaries[s] <= Attend!StudentSummaries'[s]
        /\ Attend!Totals.pendingClasses >= Attend!Totals'.pendingClasses
        /\ Attend!Totals.studentsWithAttendance <= Attend!Totals'.studentsWithAttendance
<1>1. ASSUME AtSeen, AtSeen', AtRemembers, rollStatus' = rollStatus, rollLink' = rollLink
      PROVE  Stays
  <2>1. ASSUME NEW c \in One
        PROVE  /\ Attend!CurrentStudents(c)' = Attend!CurrentStudents(c)
               /\ Attend!CurrentStudents(c) \in SUBSET Right
               /\ Attend!Recorded(c)' \in SUBSET Right
               /\ Attend!Recorded(c) \in SUBSET Attend!Recorded(c)'
    <3>1. Attend!Recorded(c) \subseteq Attend!Recorded(c)'
      BY <1>1, AtRecorded
    <3>2. Attend!CurrentStudents(c)' = Attend!CurrentStudents(c)
      BY <1>1 DEF Attend!CurrentStudents, Attend!R!Enrolled, Attend!R!Classes, Attend!R!OpenOf
    <3> QED
      BY <3>1, <3>2 DEF Attend!CurrentStudents, Attend!Recorded
  <2>2. ASSUME NEW c \in One, Attend!Completed(c)
        PROVE  Attend!Completed(c)'
    <3>1. PICK now \in SUBSET Right : now = Attend!CurrentStudents(c)
      BY <2>1
    <3>2. PICK after \in SUBSET Right : after = Attend!Recorded(c)'
      BY <2>1
    <3>3. PICK before \in SUBSET after : before = Attend!Recorded(c)
      BY <2>1, <3>2
    <3>4. /\ Cardinality(before) <= Cardinality(after)
          /\ Cardinality(before) \in Nat /\ Cardinality(after) \in Nat
      BY AtCount, TablesAssumption
    <3>5. Cardinality(now) \in Nat
      BY AtCount, TablesAssumption
    <3>6. now # {} /\ Cardinality(before) >= Cardinality(now)
      BY <2>2, <3>1, <3>3 DEF Attend!Completed, Attend!Cardinality, Cardinality
    <3>7. Cardinality(after) >= Cardinality(now)
      BY <3>4, <3>5, <3>6
    <3> QED
      BY <2>1, <3>1, <3>2, <3>6, <3>7 DEF Attend!Completed, Attend!Cardinality, Cardinality
  <2>3. ASSUME NEW s \in Right
        PROVE  /\ Attend!StudentSummaries[s] <= Attend!StudentSummaries'[s]
               /\ Attend!StudentSummaries[s] \in Nat /\ Attend!StudentSummaries'[s] \in Nat
    <3>1. PICK after \in SUBSET One : after = {c \in One : s \in Attend!Recorded(c)'}
      OBVIOUS
    <3>2. PICK before \in SUBSET after : before = {c \in One : s \in Attend!Recorded(c)}
      BY <2>1, <3>1
    <3>3. /\ Cardinality(before) <= Cardinality(after)
          /\ Cardinality(before) \in Nat /\ Cardinality(after) \in Nat
      BY AtCount, TablesAssumption
    <3>4. Attend!StudentSummaries[s] = Cardinality(before)
      BY <3>2 DEF Attend!StudentSummaries, Attend!Cardinality, Cardinality
    <3>5. Attend!StudentSummaries'[s] = Cardinality(after)
      BY <3>1 DEF Attend!StudentSummaries, Attend!Cardinality, Cardinality
    <3> QED
      BY <3>3, <3>4, <3>5
  <2>4. Attend!Totals.pendingClasses >= Attend!Totals'.pendingClasses
    <3>1. PICK before \in SUBSET One :
            before = {c \in One : Attend!CurrentStudents(c) # {} /\ ~Attend!Completed(c)}
      OBVIOUS
    <3>2. PICK after \in SUBSET before :
            after = {c \in One : Attend!CurrentStudents(c)' # {} /\ ~Attend!Completed(c)'}
      BY <2>1, <2>2, <3>1
    <3>3. Cardinality(after) <= Cardinality(before)
      BY AtCount, TablesAssumption
    <3>4. /\ Cardinality(before) \in Nat /\ Cardinality(after) \in Nat
      BY AtCount, TablesAssumption
    <3>5. Attend!Totals.pendingClasses = Cardinality(before)
      BY <3>1 DEF Attend!Totals, Attend!Cardinality, Cardinality
    <3>6. Attend!Totals'.pendingClasses = Cardinality(after)
      BY <3>2 DEF Attend!Totals, Attend!Cardinality, Cardinality
    <3> QED
      BY <3>3, <3>4, <3>5, <3>6
  <2>5. Attend!Totals.studentsWithAttendance <= Attend!Totals'.studentsWithAttendance
    <3>1. PICK after \in SUBSET Right : after = {s \in Right : Attend!StudentSummaries'[s] > 0}
      OBVIOUS
    <3>2. PICK before \in SUBSET after : before = {s \in Right : Attend!StudentSummaries[s] > 0}
      <4>1. ASSUME NEW s \in Right, Attend!StudentSummaries[s] > 0
            PROVE  Attend!StudentSummaries'[s] > 0
        BY <2>3, <4>1
      <4>2. {s \in Right : Attend!StudentSummaries[s] > 0}
              \subseteq {s \in Right : Attend!StudentSummaries'[s] > 0}
        BY <4>1
      <4> QED
        BY <4>2, <3>1
    <3>3. Cardinality(before) <= Cardinality(after)
      BY AtCount, TablesAssumption
    <3>4. Attend!Totals.studentsWithAttendance = Cardinality(before)
      BY <3>2 DEF Attend!Totals, Attend!Cardinality, Cardinality
    <3>5. Attend!Totals'.studentsWithAttendance = Cardinality(after)
      BY <3>1 DEF Attend!Totals, Attend!Cardinality, Cardinality
    <3> QED
      BY <3>3, <3>4, <3>5
  <2> QED
    BY <2>2, <2>3, <2>4, <2>5
<1>2. AtSeen /\ AtSeen' /\ AtIInv /\ [Attend!Next]_(Attend!vars) => [Stays]_(Attend!vars)
  BY <1>1, AtStep
<1>3. [Stays]_(Attend!vars)
        => [Attend!RollStep =>
              /\ \A c \in One : Attend!Completed(c) => Attend!Completed(c)'
              /\ \A s \in Right : Attend!StudentSummaries[s] <= Attend!StudentSummaries[s]'
              /\ Attend!Totals.pendingClasses >= Attend!Totals.pendingClasses'
              /\ Attend!Totals.studentsWithAttendance
                   <= Attend!Totals.studentsWithAttendance']_(Attend!vars)
  BY DEF Attend!roster, Attend!RollStep
<1> QED
  BY <1>2, <1>3, AtInit, AtNext, AtVisible, PTL
  DEF Attend!Spec, CompletedStays, Attend!CompletedStays

-----------------------------------------------------------------------------
(* The composition                                                         *)

(* What the modules side by side do is what each of them allows, so that   *)
(* the theorems above hold of Club.                                        *)
THEOREM ClubRunsClasses == ClubSpec => Ro!Spec /\ Gu!Spec /\ Co!Spec /\ Attend!Spec
<1>1. ClubInit => Ro!Init /\ Gu!Init /\ Co!Init /\ Attend!Init
  BY DEF ClubInit
<1>2. [ClubNext]_<<module, vars, coVars, roVars, attVars, cpVars, seVars, guVars, acVars, rdVars>>
        => [Ro!Next]_Ro!vars
  BY DEF ClubNext, Rest, roVars, Ro!vars
<1>3. [ClubNext]_<<module, vars, coVars, roVars, attVars, cpVars, seVars, guVars, acVars, rdVars>>
        => [Gu!Next]_Gu!vars
  BY DEF ClubNext, Rest, guVars, Gu!vars
<1>4. [ClubNext]_<<module, vars, coVars, roVars, attVars, cpVars, seVars, guVars, acVars, rdVars>>
        => [Co!Next]_Co!vars
  BY DEF ClubNext, Rest, coVars, Co!vars
<1>5. [ClubNext]_<<module, vars, coVars, roVars, attVars, cpVars, seVars, guVars, acVars, rdVars>>
        => [Attend!Next]_Attend!vars
  BY DEF ClubNext, Rest, attVars, Attend!vars, Attend!roster
<1> QED
  BY <1>1, <1>2, <1>3, <1>4, <1>5, PTL DEF ClubSpec, Ro!Spec, Gu!Spec, Co!Spec, Attend!Spec
=============================================================================
