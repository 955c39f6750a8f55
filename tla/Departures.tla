----------------------------- MODULE Departures -----------------------------
(***************************************************************************)
(* Archiving a student writes students.status and a row of ex_students;    *)
(* reactivating or voiding the departure closes the row and restores the   *)
(* status.  PUT /students writes the same status on its own.               *)
(*                                                                         *)
(* Each statement of a transaction is a step.  The conditional UPDATE of   *)
(* the student takes its row lock, which is held to the commit and is read *)
(* off the program counters.  Only an archive is retried after a conflict. *)
(***************************************************************************)
EXTENDS Integers, FiniteSets

CONSTANTS
  Student,    \* ids of students
  Departure,  \* ids of rows of ex_students
  Request,    \* requests in progress at the same time
  Editable    \* bound: the students whose status PUT /students writes

ASSUME ConstantsAssumption == Student # {} /\ Departure # {}

VARIABLES
  status,     \* students.status
  departure,  \* ex_students
  req

vars == <<status, departure, req>>

EntityStatus == {"Ativo", "Licenca", "Inativo"}
MaxTransactionAttempts == 2
Kind == {"archive", "void", "reactivate", "update"}
Closing == {"void", "reactivate"}

Row == [exists : BOOLEAN, student : Student,
        closed : SUBSET Closing,  \* which of voidedAt, reactivatedAt is set
        content : {0, 1}]         \* exit date, reason and notes

RequestState == [pc : {"idle", "read", "cas", "write"}, kind : Kind,
                 student : Student, departure : Departure, attempt : 1..MaxTransactionAttempts]

TypeOK ==
  /\ status \in [Student -> EntityStatus \cup {"deleted"}]
  /\ departure \in [Departure -> Row]
  /\ req \in [Request -> RequestState]

NoRow == [exists |-> FALSE, student |-> CHOOSE s \in Student : TRUE,
          closed |-> {}, content |-> 0]

Init ==
  /\ status = [s \in Student |-> "Ativo"]
  /\ departure = [d \in Departure |-> NoRow]
  /\ req = [p \in Request |->
              [pc |-> "idle", kind |-> "archive", student |-> NoRow.student,
               departure |-> CHOOSE d \in Departure : TRUE, attempt |-> 1]]

-----------------------------------------------------------------------------

At(p, pc) == req[p].pc = pc
GoTo(p, pc) == req' = [req EXCEPT ![p].pc = pc]
Finish(p) == GoTo(p, "idle")

(* activeDepartureFilter *)
Open(d) == departure[d].exists /\ departure[d].closed = {}
OpenOf(s) == {d \in Departure : Open(d) /\ departure[d].student = s}

(* The row lock that the conditional UPDATE of the student takes.          *)
Locked(s) ==
  \E p \in Request :
    At(p, "write") /\ req[p].kind # "update" /\ req[p].student = s

Fresh(d) ==
  /\ ~departure[d].exists
  /\ \A p \in Request : ~At(p, "idle") => req[p].departure # d

BeginArchive(p, s, d) ==
  /\ At(p, "idle")
  /\ Fresh(d)
  /\ req' = [req EXCEPT ![p] = [pc |-> "read", kind |-> "archive",
                                student |-> s, departure |-> d, attempt |-> 1]]
  /\ UNCHANGED <<status, departure>>

BeginOnDeparture(p, kind, d) ==
  /\ At(p, "idle")
  /\ departure[d].exists
  /\ req' = [req EXCEPT ![p] = [pc |-> "read", kind |-> kind, departure |-> d,
                                student |-> departure[d].student, attempt |-> 1]]
  /\ UNCHANGED <<status, departure>>

(* The reads: 404 and 409 end the request.                                 *)
ReadArchive(p) ==
  /\ At(p, "read") /\ req[p].kind = "archive"
  /\ IF status[req[p].student] = "deleted" \/ OpenOf(req[p].student) # {}
     THEN Finish(p) ELSE GoTo(p, "cas")
  /\ UNCHANGED <<status, departure>>

ReadDeparture(p) ==
  /\ At(p, "read") /\ req[p].kind # "archive"
  /\ IF Open(req[p].departure)
     THEN GoTo(p, IF req[p].kind = "update" THEN "write" ELSE "cas")
     ELSE Finish(p)
  /\ UNCHANGED <<status, departure>>

(* updateMany on the student: it waits for the row, then compares.         *)
CasStudent(p) ==
  LET now == status[req[p].student] IN
  /\ At(p, "cas")
  /\ ~Locked(req[p].student)
  /\ IF \/ req[p].kind = "archive" /\ now \notin {"Inativo", "deleted"}
        \/ req[p].kind # "archive" /\ now = "Inativo"
     THEN GoTo(p, "write") ELSE Finish(p)
  /\ UNCHANGED <<status, departure>>

(* Mutant: the table has no unique index on the open departure.            *)
InsertWithoutIndex(p) ==
  /\ At(p, "write") /\ req[p].kind = "archive"
  /\ status' = [status EXCEPT ![req[p].student] = "Inativo"]
  /\ departure' = [departure EXCEPT ![req[p].departure] =
                     [exists |-> TRUE, student |-> req[p].student,
                      closed |-> {}, content |-> 0]]
  /\ Finish(p)

(* The INSERT meets the partial unique index; then both writes commit.     *)
InsertDeparture(p) ==
  /\ At(p, "write") /\ req[p].kind = "archive"
  /\ IF OpenOf(req[p].student) = {}
     THEN /\ status' = [status EXCEPT ![req[p].student] = "Inativo"]
          /\ departure' = [departure EXCEPT ![req[p].departure] =
                             [exists |-> TRUE, student |-> req[p].student,
                              closed |-> {}, content |-> 0]]
     ELSE UNCHANGED <<status, departure>>
  /\ Finish(p)

(* Mutant: the table has no CHECK on the two timestamps.                   *)
CloseWithoutCheck(p) ==
  /\ At(p, "write") /\ req[p].kind \in Closing
  /\ status' = [status EXCEPT ![req[p].student] = "Ativo"]
  /\ departure' = [departure EXCEPT ![req[p].departure].closed =
                                      @ \cup {req[p].kind}]
  /\ Finish(p)

(* The UPDATE goes by id alone; the CHECK refuses a second kind of closing *)
(* and rolls the status back with it, but not a second one of the same.    *)
CloseDeparture(p) ==
  LET closed == departure[req[p].departure].closed \cup {req[p].kind} IN
  /\ At(p, "write") /\ req[p].kind \in Closing
  /\ IF closed = {req[p].kind}
     THEN /\ status' = [status EXCEPT ![req[p].student] = "Ativo"]
          /\ departure' = [departure EXCEPT ![req[p].departure].closed = closed]
     ELSE UNCHANGED <<status, departure>>
  /\ Finish(p)

(* Mutant: the update trusts the state it read.                            *)
UpdateAsRead(p) ==
  /\ At(p, "write") /\ req[p].kind = "update"
  /\ departure' = [departure EXCEPT ![req[p].departure].content = 1 - @]
  /\ Finish(p)
  /\ UNCHANGED status

UpdateDeparture(p) ==
  /\ At(p, "write") /\ req[p].kind = "update"
  /\ IF Open(req[p].departure)
     THEN departure' = [departure EXCEPT ![req[p].departure].content = 1 - @]
     ELSE UNCHANGED departure
  /\ Finish(p)
  /\ UNCHANGED status

(* Mutant: every attempt counts as the first.                              *)
ConflictUncounted(p) ==
  /\ At(p, "cas") \/ At(p, "write")
  /\ req[p].kind = "archive"
  /\ GoTo(p, "read")
  /\ UNCHANGED <<status, departure>>

(* P2034: the database rolled the archive back, which runs again once.     *)
Conflict(p) ==
  /\ At(p, "cas") \/ At(p, "write")
  /\ req[p].kind = "archive"
  /\ IF req[p].attempt < MaxTransactionAttempts
     THEN req' = [req EXCEPT ![p].pc = "read", ![p].attempt = @ + 1]
     ELSE Finish(p)
  /\ UNCHANGED <<status, departure>>

(* The process dies, or the database rolls back a request without retry.   *)
Abort(p) ==
  /\ ~At(p, "idle")
  /\ Finish(p)
  /\ UNCHANGED <<status, departure>>

(* PUT /students writes the status it is given.                            *)
EditStudent(s, new) ==
  /\ status[s] \notin {"deleted", new}
  /\ ~Locked(s)
  /\ status' = [status EXCEPT ![s] = new]
  /\ UNCHANGED <<departure, req>>

(* DELETE /students: the foreign key keeps a student with any departure.   *)
DeleteStudent(s) ==
  /\ status[s] # "deleted"
  /\ ~Locked(s)
  /\ \A d \in Departure : departure[d].exists => departure[d].student # s
  /\ status' = [status EXCEPT ![s] = "deleted"]
  /\ UNCHANGED <<departure, req>>

Statement(p) ==
  \/ ReadArchive(p) \/ ReadDeparture(p)
  \/ CasStudent(p)
  \/ InsertDeparture(p) \/ CloseDeparture(p) \/ UpdateDeparture(p)

Next ==
  \/ \E p \in Request :
       \/ \E s \in Student, d \in Departure : BeginArchive(p, s, d)
       \/ \E d \in Departure, k \in Kind \ {"archive"} : BeginOnDeparture(p, k, d)
       \/ Statement(p) \/ Conflict(p) \/ Abort(p)
  \/ \E s \in Editable, new \in EntityStatus : EditStudent(s, new)
  \/ \E s \in Student : DeleteStudent(s)

(* A statement is executed; the row lock goes to its waiters in turn, so a *)
(* request that keeps finding it free and taken again gets it.             *)
Fairness == \A p \in Request : SF_vars(Statement(p))

Spec == Init /\ [][Next]_vars /\ Fairness

-----------------------------------------------------------------------------

(* A student has at most one departure in force.  Requests check this on a *)
(* read, an edit of the status reopens the way for a second archive.       *)
OneOpenDeparture ==
  \A d, e \in Departure :
    Open(d) /\ Open(e) /\ departure[d].student = departure[e].student => d = e

(* A departure is reactivated or voided, never both, whatever overlaps.    *)
SingleClosure == \A d \in Departure : Cardinality(departure[d].closed) <= 1

(* A closed departure is history: no request that read it open changes its *)
(* content or reopens it later.  The time of the closing is left out: a    *)
(* second closing of the same kind overwrites it.                          *)
HistoryImmutable ==
  [][\A d \in Departure : departure[d].closed # {} =>
       /\ departure'[d].content = departure[d].content
       /\ departure[d].closed \subseteq departure'[d].closed]_vars

(* Every request ends: the retry of an archive is bounded and no two       *)
(* requests wait for each other.                                           *)
RequestsEnd == \A p \in Request : ~At(p, "idle") ~> At(p, "idle")

(* Refuted.  A departure in force belongs to an inactive student.  A       *)
(* closing goes by the id of the departure it read and by the status, and  *)
(* the status may be that of a later departure.                            *)
OpenDepartureMeansInactive ==
  \A d \in Departure : Open(d) => status[departure[d].student] = "Inativo"
=============================================================================
