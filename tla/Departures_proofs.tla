-------------------------- MODULE Departures_proofs --------------------------
(***************************************************************************)
(* Proofs about Departures, for every set of students, departures and      *)
(* requests.  IInv adds to the properties that a departure is written by   *)
(* nobody before it exists: an archive has an id of its own.               *)
(***************************************************************************)
EXTENDS Departures, FiniteSetTheorems, TLAPS

(* A row that was not inserted has no closing.                             *)
UnbornInv == \A d \in Departure : ~departure[d].exists => departure[d].closed = {}

(* One kind of closing, as a set: what SingleClosure says with a number.   *)
ClosureInv ==
  \A d \in Departure : \A k, l \in departure[d].closed : k = l

(* An archive in progress has not inserted its row; any other request      *)
(* works on a row that exists.                                             *)
RequestInv ==
  \A p \in Request : req[p].pc # "idle" =>
    (req[p].kind = "archive" <=> ~departure[req[p].departure].exists)

(* No two archives have the same id.                                       *)
PairInv ==
  \A p, q \in Request :
    /\ p # q
    /\ req[p].pc # "idle" /\ req[p].kind = "archive"
    /\ req[q].pc # "idle" /\ req[q].kind = "archive"
    => req[p].departure # req[q].departure

IInv ==
  /\ TypeOK
  /\ UnbornInv
  /\ ClosureInv
  /\ RequestInv
  /\ PairInv
  /\ OneOpenDeparture

-----------------------------------------------------------------------------

LEMMA InitInv == Init => IInv
<1> SUFFICES ASSUME Init PROVE IInv
  OBVIOUS
<1>1. NoRow \in Row /\ (CHOOSE d \in Departure : TRUE) \in Departure
  BY ConstantsAssumption DEF NoRow, Row
<1>2. TypeOK
  BY <1>1 DEF TypeOK, Init, EntityStatus, RequestState, Kind, MaxTransactionAttempts, Row, NoRow
<1>3. \A d \in Departure : departure[d] = NoRow
  BY DEF Init
<1>4. \A d \in Departure : departure[d].closed = {} /\ ~departure[d].exists
  <2>1. NoRow.closed = {} /\ NoRow.exists = FALSE
    BY Zenon DEF NoRow
  <2> QED
    BY <1>3, <2>1
<1>5. \A p \in Request : req[p].pc = "idle"
  BY DEF Init
<1> QED
  BY <1>2, <1>4, <1>5
  DEF IInv, UnbornInv, ClosureInv, RequestInv, PairInv, OneOpenDeparture, Open

(* A request that ends, or goes on to its next statement, without a write. *)
LEMMA QuietStep ==
  ASSUME IInv, NEW p \in Request, NEW r \in RequestState,
         req' = [req EXCEPT ![p] = r],
         req[p].pc # "idle", r.kind = req[p].kind, r.departure = req[p].departure,
         UNCHANGED departure,
         status' \in [Student -> EntityStatus \cup {"deleted"}]
  PROVE  IInv'
<1>1. TypeOK'
  BY DEF IInv, TypeOK
<1>2. \A q \in Request :
        /\ req'[q].kind = req[q].kind
        /\ req'[q].departure = req[q].departure
        /\ req'[q].pc # "idle" => req[q].pc # "idle"
  BY DEF IInv, TypeOK
<1>3. RequestInv' /\ PairInv'
  BY <1>2 DEF IInv, RequestInv, PairInv
<1> QED
  BY <1>1, <1>3 DEF IInv, UnbornInv, ClosureInv, OneOpenDeparture, Open

(* The successors that GoTo and the retry of an archive produce.           *)
LEMMA GoToState ==
  ASSUME TypeOK, NEW p \in Request, NEW pc \in {"idle", "read", "cas", "write"}, GoTo(p, pc)
  PROVE  \E r \in RequestState :
           /\ req' = [req EXCEPT ![p] = r]
           /\ r.kind = req[p].kind /\ r.departure = req[p].departure /\ r.pc = pc
<1> DEFINE r == [req[p] EXCEPT !.pc = pc]
<1>1. req[p] \in RequestState
  BY DEF TypeOK
<1>2. r \in RequestState /\ r.kind = req[p].kind /\ r.departure = req[p].departure /\ r.pc = pc
  BY <1>1 DEF RequestState
<1>3. req' = [req EXCEPT ![p] = r]
  BY DEF GoTo
<1> QED
  BY <1>2, <1>3

LEMMA BeginStep ==
  ASSUME IInv, NEW p \in Request,
         \/ \E s \in Student, d \in Departure : BeginArchive(p, s, d)
         \/ \E d \in Departure, k \in Kind \ {"archive"} : BeginOnDeparture(p, k, d)
  PROVE  IInv'
<1>1. CASE \E s \in Student, d \in Departure : BeginArchive(p, s, d)
  <2> PICK s \in Student, d \in Departure : BeginArchive(p, s, d)
    BY <1>1
  <2>1. TypeOK'
    BY DEF IInv, TypeOK, BeginArchive, RequestState, Kind, MaxTransactionAttempts
  <2>2. /\ ~departure[d].exists
        /\ \A q \in Request : req[q].pc # "idle" => req[q].departure # d
        /\ req'[p].kind = "archive" /\ req'[p].departure = d
        /\ \A q \in Request : q # p => req'[q] = req[q]
        /\ UNCHANGED departure
    BY DEF IInv, TypeOK, BeginArchive, Fresh, At
  <2>3. RequestInv' /\ PairInv'
    BY <2>2 DEF IInv, RequestInv, PairInv
  <2> QED
    BY <2>1, <2>2, <2>3 DEF IInv, UnbornInv, ClosureInv, OneOpenDeparture, Open
<1>2. CASE \E d \in Departure, k \in Kind \ {"archive"} : BeginOnDeparture(p, k, d)
  <2> PICK d \in Departure, k \in Kind \ {"archive"} : BeginOnDeparture(p, k, d)
    BY <1>2
  <2>1. departure[d].student \in Student
    BY DEF IInv, TypeOK, Row
  <2>2. TypeOK'
    BY <2>1 DEF IInv, TypeOK, BeginOnDeparture, RequestState, Kind, MaxTransactionAttempts
  <2>3. /\ departure[d].exists
        /\ req'[p].kind # "archive" /\ req'[p].departure = d
        /\ \A q \in Request : q # p => req'[q] = req[q]
        /\ UNCHANGED departure
    BY DEF IInv, TypeOK, BeginOnDeparture
  <2>4. RequestInv' /\ PairInv'
    BY <2>3 DEF IInv, RequestInv, PairInv
  <2> QED
    BY <2>2, <2>3, <2>4 DEF IInv, UnbornInv, ClosureInv, OneOpenDeparture, Open
<1> QED
  BY <1>1, <1>2

(* The row lock of a student belongs to one request, so the writes that    *)
(* follow go to distinct rows; an INSERT meets the index.                  *)
LEMMA InsertStep ==
  ASSUME IInv, NEW p \in Request, InsertDeparture(p)
  PROVE  IInv'
<1> DEFINE s == req[p].student
           d == req[p].departure
<1>1. s \in Student /\ d \in Departure /\ req[p].kind = "archive" /\ req[p].pc = "write"
  BY DEF IInv, TypeOK, RequestState, InsertDeparture, At
<1>2. PICK r \in RequestState :
        /\ req' = [req EXCEPT ![p] = r]
        /\ r.kind = req[p].kind /\ r.departure = d /\ r.pc = "idle"
  BY GoToState DEF InsertDeparture, Finish, IInv
<1>3. CASE OpenOf(s) # {}
  <2>1. UNCHANGED <<status, departure>>
    BY <1>3 DEF InsertDeparture
  <2> QED
    BY <1>1, <1>2, <2>1, QuietStep DEF IInv, TypeOK
<1>4. CASE OpenOf(s) = {}
  <2> DEFINE new == [exists |-> TRUE, student |-> s, closed |-> {}, content |-> 0]
  <2>1. /\ status' = [status EXCEPT ![s] = "Inativo"]
        /\ departure' = [departure EXCEPT ![d] = new]
    BY <1>4 DEF InsertDeparture
  <2>2. new \in Row
    BY <1>1 DEF Row
  <2>3. TypeOK'
    BY <1>1, <1>2, <2>1, <2>2 DEF IInv, TypeOK, EntityStatus
  <2>4. /\ departure'[d] = new
        /\ \A e \in Departure : e # d => departure'[e] = departure[e]
    BY <1>1, <2>1 DEF IInv, TypeOK
  <2>5. /\ req'[p].pc = "idle"
        /\ \A q \in Request : q # p => req'[q] = req[q]
    BY <1>2 DEF IInv, TypeOK
  <2>6. RequestInv' /\ PairInv'
    <3>1. ~departure[d].exists
      BY <1>1 DEF IInv, RequestInv
    <3>2. \A q \in Request : q # p /\ req[q].pc # "idle" => req[q].departure # d
      BY <1>1, <3>1 DEF IInv, RequestInv, PairInv
    <3>3. \A q \in Request : req[q].departure \in Departure
      BY DEF IInv, TypeOK, RequestState
    <3> QED
      BY <2>4, <2>5, <3>2, <3>3 DEF IInv, RequestInv, PairInv
  <2>7. OneOpenDeparture'
    <3>1. \A e \in Departure : Open(e) => departure[e].student # s
      BY <1>4 DEF OpenOf
    <3>2. \A e \in Departure : e # d => (Open(e)' <=> Open(e))
      BY <2>4 DEF Open
    <3> QED
      BY <2>4, <3>1, <3>2 DEF IInv, OneOpenDeparture
  <2>8. UnbornInv' /\ ClosureInv'
    BY <2>4 DEF IInv, UnbornInv, ClosureInv
  <2> QED
    BY <2>3, <2>6, <2>7, <2>8 DEF IInv
<1> QED
  BY <1>3, <1>4

(* A closing adds one kind to a row that has no other.                     *)
LEMMA CloseStep ==
  ASSUME IInv, NEW p \in Request, CloseDeparture(p)
  PROVE  IInv'
<1> DEFINE s == req[p].student
           d == req[p].departure
           k == req[p].kind
           closed == departure[d].closed \cup {k}
<1>1. s \in Student /\ d \in Departure /\ k \in Closing /\ req[p].pc = "write"
  BY DEF IInv, TypeOK, RequestState, CloseDeparture, At
<1>2. PICK r \in RequestState :
        /\ req' = [req EXCEPT ![p] = r]
        /\ r.kind = req[p].kind /\ r.departure = d /\ r.pc = "idle"
  BY GoToState DEF CloseDeparture, Finish, IInv
<1>3. CASE closed # {k}
  <2>1. UNCHANGED <<status, departure>>
    BY <1>3 DEF CloseDeparture
  <2> QED
    BY <1>1, <1>2, <2>1, QuietStep DEF IInv, TypeOK
<1>4. CASE closed = {k}
  <2>1. /\ status' = [status EXCEPT ![s] = "Ativo"]
        /\ departure' = [departure EXCEPT ![d].closed = {k}]
    BY <1>4 DEF CloseDeparture
  <2>2. departure[d] \in Row
    BY <1>1 DEF IInv, TypeOK
  <2>3. /\ departure'[d] \in Row
        /\ departure'[d].closed = {k}
        /\ departure'[d].exists = departure[d].exists
        /\ departure'[d].student = departure[d].student
        /\ \A e \in Departure : e # d => departure'[e] = departure[e]
    BY <1>1, <2>1, <2>2 DEF IInv, TypeOK, Row
  <2>4. TypeOK'
    BY <1>1, <1>2, <2>1, <2>3 DEF IInv, TypeOK, EntityStatus
  <2>5. /\ req'[p].pc = "idle"
        /\ \A q \in Request : q # p => req'[q] = req[q]
    BY <1>2 DEF IInv, TypeOK
  <2>6. RequestInv' /\ PairInv'
    <3>1. \A q \in Request : departure'[req[q].departure].exists = departure[req[q].departure].exists
      BY <2>3 DEF IInv, TypeOK, RequestState
    <3> QED
      BY <2>5, <3>1 DEF IInv, RequestInv, PairInv
  <2>7. OneOpenDeparture'
    <3>1. \A e \in Departure :
            (Open(e)' => Open(e)) /\ departure'[e].student = departure[e].student
      BY <2>3 DEF Open
    <3> QED
      BY <3>1 DEF IInv, OneOpenDeparture
  <2>8. UnbornInv' /\ ClosureInv'
    <3>1. departure[d].exists
      BY <1>1 DEF IInv, RequestInv, Closing
    <3>2. UnbornInv'
      BY <2>3, <3>1 DEF IInv, UnbornInv
    <3>3. ClosureInv'
      <4> SUFFICES ASSUME NEW e \in Departure PROVE \A i, j \in departure'[e].closed : i = j
        BY DEF ClosureInv
      <4>1. CASE e = d
        BY <2>3, <4>1
      <4>2. CASE e # d
        BY <2>3, <4>2 DEF IInv, ClosureInv
      <4> QED
        BY <4>1, <4>2
    <3> QED
      BY <3>2, <3>3
  <2> QED
    BY <2>4, <2>6, <2>7, <2>8 DEF IInv
<1> QED
  BY <1>3, <1>4

(* An edit changes the content of an open row.                             *)
LEMMA UpdateStep ==
  ASSUME IInv, NEW p \in Request, UpdateDeparture(p)
  PROVE  IInv'
<1> DEFINE d == req[p].departure
<1>1. d \in Departure /\ req[p].pc = "write"
  BY DEF IInv, TypeOK, RequestState, UpdateDeparture, At
<1>2. PICK r \in RequestState :
        /\ req' = [req EXCEPT ![p] = r]
        /\ r.kind = req[p].kind /\ r.departure = d /\ r.pc = "idle"
  BY GoToState DEF UpdateDeparture, Finish, IInv
<1>3. CASE ~Open(d)
  <2>1. UNCHANGED <<status, departure>>
    BY <1>3 DEF UpdateDeparture
  <2> QED
    BY <1>1, <1>2, <2>1, QuietStep DEF IInv, TypeOK
<1>4. CASE Open(d)
  <2>1. departure' = [departure EXCEPT ![d].content = 1 - @] /\ UNCHANGED status
    BY <1>4 DEF UpdateDeparture
  <2>2. departure[d] \in Row
    BY <1>1 DEF IInv, TypeOK
  <2>3. /\ departure'[d] \in Row
        /\ \A e \in Departure :
             /\ departure'[e].closed = departure[e].closed
             /\ departure'[e].exists = departure[e].exists
             /\ departure'[e].student = departure[e].student
             /\ e # d => departure'[e] = departure[e]
    BY <1>1, <2>1, <2>2 DEF IInv, TypeOK, Row
  <2>4. TypeOK'
    BY <1>1, <1>2, <2>1, <2>3 DEF IInv, TypeOK
  <2>5. /\ req'[p].pc = "idle"
        /\ \A q \in Request : q # p => req'[q] = req[q]
    BY <1>2 DEF IInv, TypeOK
  <2>6. RequestInv' /\ PairInv'
    <3>1. \A q \in Request : departure'[req[q].departure].exists = departure[req[q].departure].exists
      BY <2>3 DEF IInv, TypeOK, RequestState
    <3> QED
      BY <2>5, <3>1 DEF IInv, RequestInv, PairInv
  <2> QED
    BY <2>3, <2>4, <2>6 DEF IInv, OneOpenDeparture, Open, UnbornInv, ClosureInv
<1> QED
  BY <1>3, <1>4

(* The statements that only move a request on.                             *)
LEMMA OtherStep ==
  ASSUME IInv, NEW p \in Request,
         \/ ReadArchive(p) \/ ReadDeparture(p) \/ CasStudent(p) \/ Conflict(p) \/ Abort(p)
  PROVE  IInv'
<1>1. req[p].pc # "idle" /\ UNCHANGED <<status, departure>>
  BY DEF ReadArchive, ReadDeparture, CasStudent, Conflict, Abort, At
<1>2. CASE \E pc \in {"idle", "read", "cas", "write"} : GoTo(p, pc)
  BY <1>1, <1>2, GoToState, QuietStep DEF IInv, TypeOK
<1>3. CASE /\ Conflict(p) /\ req[p].attempt < MaxTransactionAttempts
           /\ req' = [req EXCEPT ![p].pc = "read", ![p].attempt = @ + 1]
  <2> DEFINE r == [req[p] EXCEPT !.pc = "read", !.attempt = @ + 1]
  <2>1. req[p] \in RequestState
    BY DEF IInv, TypeOK
  <2>2. r \in RequestState /\ r.kind = req[p].kind /\ r.departure = req[p].departure
    <3>1. req[p].attempt + 1 \in 1..MaxTransactionAttempts
      BY <1>3, <2>1 DEF RequestState, MaxTransactionAttempts
    <3> QED
      BY <2>1, <3>1 DEF RequestState
  <2>3. req' = [req EXCEPT ![p] = r]
    BY <1>3
  <2> QED
    BY <1>1, <2>2, <2>3, QuietStep DEF IInv, TypeOK
<1> QED
  BY <1>2, <1>3 DEF ReadArchive, ReadDeparture, CasStudent, Conflict, Abort, Finish

(* The student's own update and deletion leave departures and requests.    *)
LEMMA StudentStep ==
  ASSUME IInv,
         \/ \E s \in Editable, new \in EntityStatus : EditStudent(s, new)
         \/ \E s \in Student : DeleteStudent(s)
  PROVE  IInv'
<1>1. UNCHANGED <<departure, req>> /\ status' \in [Student -> EntityStatus \cup {"deleted"}]
  BY DEF IInv, TypeOK, EditStudent, DeleteStudent
<1> QED
  BY <1>1 DEF IInv, TypeOK, UnbornInv, ClosureInv, RequestInv, PairInv, OneOpenDeparture, Open

LEMMA StepInv == IInv /\ [Next]_vars => IInv'
<1> SUFFICES ASSUME IInv, [Next]_vars PROVE IInv'
  OBVIOUS
<1>1. ASSUME UNCHANGED vars PROVE IInv'
  BY <1>1 DEF vars, IInv, TypeOK, UnbornInv, ClosureInv, RequestInv, PairInv, OneOpenDeparture, Open
<1>2. ASSUME Next PROVE IInv'
  BY <1>2, BeginStep, InsertStep, CloseStep, UpdateStep, OtherStep, StudentStep DEF Next, Statement
<1> QED
  BY <1>1, <1>2

-----------------------------------------------------------------------------

(* The state keeps its types: what every other proof starts from.          *)
THEOREM TypeCorrect == Spec => []TypeOK
<1>1. IInv => TypeOK
  BY DEF IInv
<1> QED
  BY <1>1, InitInv, StepInv, PTL DEF Spec

(* A student has at most one departure in force, however many archives,    *)
(* reactivations and edits of the status overlap.                          *)
THEOREM DeparturesAreExclusive == Spec => []OneOpenDeparture
<1>1. IInv => OneOpenDeparture
  BY DEF IInv
<1> QED
  BY <1>1, InitInv, StepInv, PTL DEF Spec

(* A departure is reactivated or voided, never both.                       *)
THEOREM DeparturesCloseOnce == Spec => []SingleClosure
<1>1. ASSUME IInv, NEW d \in Departure PROVE Cardinality(departure[d].closed) <= 1
  <2> DEFINE closed == departure[d].closed
  <2>1. CASE closed = {}
    BY <2>1, FS_EmptySet
  <2>2. CASE closed # {}
    <3>1. PICK k \in closed : TRUE
      BY <2>2
    <3>2. \A l \in closed : l = k
      BY <1>1, <3>1 DEF IInv, ClosureInv
    <3>3. closed = {k}
      BY <3>1, <3>2
    <3>4. Cardinality({k}) = 1
      BY FS_Singleton
    <3> QED
      BY <3>3, <3>4
  <2> QED
    BY <2>1, <2>2
<1>2. IInv => SingleClosure
  BY <1>1 DEF SingleClosure
<1> QED
  BY <1>2, InitInv, StepInv, PTL DEF Spec

(* The content of a closed departure is never changed, and the departure   *)
(* never reopened, by any request that read it while it was open.          *)
THEOREM ClosedDeparturesStay == Spec => HistoryImmutable
<1> DEFINE Kept ==
      \A d \in Departure : departure[d].closed # {} =>
        /\ departure'[d].content = departure[d].content
        /\ departure[d].closed \subseteq departure'[d].closed
<1>1. ASSUME IInv, NEW p \in Request, InsertDeparture(p) PROVE Kept
  <2>1. req[p].departure \in Departure /\ departure[req[p].departure].closed = {}
    BY <1>1 DEF IInv, TypeOK, RequestState, InsertDeparture, At, RequestInv, UnbornInv
  <2> QED
    BY <1>1, <2>1 DEF IInv, TypeOK, InsertDeparture
<1>2. ASSUME IInv, NEW p \in Request, CloseDeparture(p) PROVE Kept
  <2> DEFINE e == req[p].departure
  <2>1. e \in Departure /\ departure[e] \in Row
    BY <1>2 DEF IInv, TypeOK, RequestState
  <2>2. \/ UNCHANGED departure
        \/ departure' = [departure EXCEPT ![e].closed = departure[e].closed \cup {req[p].kind}]
    BY <1>2 DEF CloseDeparture
  <2> QED
    BY <1>2, <2>1, <2>2 DEF IInv, TypeOK, Row
<1>3. ASSUME IInv, NEW p \in Request, UpdateDeparture(p) PROVE Kept
  <2> DEFINE e == req[p].departure
  <2>1. e \in Departure /\ departure[e] \in Row
    BY <1>3 DEF IInv, TypeOK, RequestState
  <2>2. \/ UNCHANGED departure
        \/ /\ departure[e].closed = {}
           /\ departure' = [departure EXCEPT ![e].content = 1 - @]
    BY <1>3 DEF UpdateDeparture, Open
  <2> QED
    BY <1>3, <2>1, <2>2 DEF IInv, TypeOK, Row
<1>4. ASSUME UNCHANGED departure PROVE Kept
  BY <1>4
<1>5. IInv /\ [Next]_vars => Kept
  BY <1>1, <1>2, <1>3, <1>4
  DEF Next, Statement, vars, BeginArchive, BeginOnDeparture, ReadArchive, ReadDeparture,
      CasStudent, Conflict, Abort, EditStudent, DeleteStudent
<1>6. IInv /\ [Next]_vars => [Kept]_vars
  BY <1>5
<1> QED
  BY <1>6, InitInv, StepInv, PTL DEF Spec, HistoryImmutable
=============================================================================
