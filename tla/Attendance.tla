----------------------------- MODULE Attendance -----------------------------
(***************************************************************************)
(* The roll of one day: POST /attendance/batch checks that every pair of   *)
(* the batch is enrolled and then upserts the pairs one after the other in *)
(* a transaction, in the order of the request, while enrolments change     *)
(* (Roster).  The row of a pair stays locked until the batch commits; two  *)
(* batches that wait for each other lose one of them.                      *)
(***************************************************************************)
EXTENDS Naturals, Sequences, FiniteSets

CONSTANTS
  Student, Class, Link, Request,  \* as in Roster
  Batch  \* the batches of this day, each sent once; also the mark it leaves

VARIABLES
  status, link, plan,  \* as in Roster
  record,  \* attendance_records of the day: the batch that wrote each last
  batch

roster == <<status, link, plan>>
vars == <<roster, record, batch>>

R == INSTANCE Roster

Pair == Student \X Class
Rows == UNION {[1..n -> Pair] : n \in 1..2}  \* bound: rows of a batch

BatchState == [pc : {"unsent", "writing", "saved", "refused"},
               rows : {<<>>} \cup Rows,
               before : Seq(SUBSET Batch)]  \* per row done, what it replaced

TypeOK ==
  /\ R!TypeOK
  /\ record \in [Pair -> SUBSET Batch]
  /\ batch \in [Batch -> BatchState]

Init ==
  /\ R!Init
  /\ record = [k \in Pair |-> {}]
  /\ batch = [b \in Batch |-> [pc |-> "unsent", rows |-> <<>>, before |-> <<>>]]

-----------------------------------------------------------------------------

PairsOf(rows) == {rows[i] : i \in DOMAIN rows}

(* AttendanceBatchPolicy.assertValid on the context that was just read.    *)
Distinct(rows) == \A i, j \in DOMAIN rows : rows[i] = rows[j] => i = j
Linked(rows) == \A k \in PairsOf(rows) : R!Enrolled(k[1], k[2])
(* Mutant: the students exist, nobody asks for the class.                  *)
ValidWithoutLink(rows) ==
  Distinct(rows) /\ \A k \in PairsOf(rows) : status[k[1]] \in R!Present
Valid(rows) == Distinct(rows) /\ Linked(rows)

Send(b, rows) ==
  /\ batch[b].pc = "unsent"
  /\ batch' = [batch EXCEPT ![b] =
       [pc |-> IF Valid(rows) THEN "writing" ELSE "refused",
        rows |-> rows, before |-> <<>>]]
  /\ UNCHANGED <<roster, record>>

Writing == {b \in Batch : batch[b].pc = "writing"}
Done(b) == Len(batch[b].before)
Locks(b) == {batch[b].rows[i] : i \in 1..Done(b)}
Wanted(b) == batch[b].rows[Done(b) + 1]

(* Mutant: every upsert commits on its own and keeps no lock.              *)
WaitsForNobody(b) == FALSE
Waits(b) == \E a \in Writing \ {b} : Wanted(b) \in Locks(a)

Upsert(b) ==
  /\ b \in Writing
  /\ Done(b) < Len(batch[b].rows)
  /\ ~Waits(b)
  /\ record' = [record EXCEPT ![Wanted(b)] = {b}]
  /\ batch' = [batch EXCEPT ![b].before = Append(@, record[Wanted(b)])]
  /\ UNCHANGED roster

(* Mutant: a saved batch is the whole roll of the day.                     *)
SaveAsRoll(b) ==
  /\ b \in Writing
  /\ Done(b) = Len(batch[b].rows)
  /\ record' = [k \in Pair |-> IF k \in Locks(b) THEN {b} ELSE {}]
  /\ batch' = [batch EXCEPT ![b].pc = "saved"]
  /\ UNCHANGED roster

Save(b) ==
  /\ b \in Writing
  /\ Done(b) = Len(batch[b].rows)
  /\ batch' = [batch EXCEPT ![b].pc = "saved"]
  /\ UNCHANGED <<roster, record>>

(* A deadlock that the database breaks, or a process that dies: all of the *)
(* batch is rolled back.                                                   *)
Fail(b) ==
  /\ b \in Writing
  /\ record' = [k \in Pair |->
       IF k \in Locks(b)
       THEN UNION {batch[b].before[i] : i \in {j \in 1..Done(b) : batch[b].rows[j] = k}}
       ELSE record[k]]
  /\ batch' = [batch EXCEPT ![b].pc = "refused", ![b].before = <<>>]
  /\ UNCHANGED roster

Next ==
  \/ R!Next /\ UNCHANGED <<record, batch>>
  \/ \E b \in Batch :
       (\E rows \in Rows : Send(b, rows)) \/ Upsert(b) \/ Save(b) \/ Fail(b)

Spec == Init /\ [][Next]_vars

-----------------------------------------------------------------------------
(* What GET /attendance/summary derives                                    *)

(* The record that others see: not the one of a batch in progress.         *)
Visible(k) ==
  IF \E b \in Writing : k \in Locks(b)
  THEN UNION {UNION {batch[b].before[i] : i \in {j \in 1..Done(b) : batch[b].rows[j] = k}} :
                b \in Writing}
  ELSE record[k]

Recorded(c) == {s \in Student : Visible(<<s, c>>) # {}}
CurrentStudents(c) == {s \in Student : R!Enrolled(s, c) /\ status[s] = "Ativo"}

(* isCompleted counts students, whoever they are.                          *)
Completed(c) ==
  /\ CurrentStudents(c) # {}
  /\ Cardinality(Recorded(c)) >= Cardinality(CurrentStudents(c))

(* Per student, the classes with a record, on the list if there is one;    *)
(* what a record says (present, late, ...) is left out.                    *)
StudentSummaries == [s \in Student |-> Cardinality({c \in Class : s \in Recorded(c)})]

Totals ==
  [totalClasses |-> Cardinality(Class),
   completedClasses |-> Cardinality({c \in Class : Completed(c)}),
   pendingClasses |-> Cardinality({c \in Class : CurrentStudents(c) # {} /\ ~Completed(c)}),
   studentsWithAttendance |-> Cardinality({s \in Student : StudentSummaries[s] > 0})]

-----------------------------------------------------------------------------

(* A record belongs to a student who is or was enrolled in the class, even *)
(* if the enrolment ended between the check and the write.                 *)
RecordedWereEnrolled ==
  \A s \in Student, c \in Class :
    record[<<s, c>>] # {} => R!EverEnrolled(s, c)

(* Of two saved batches one is later on every pair they share: a roll is   *)
(* never a mixture of two calls of the same students.                      *)
BatchesNeverMix ==
  \A a, b \in Batch, k, l \in Pair :
    /\ batch[a].pc = "saved" /\ batch[b].pc = "saved" /\ a # b
    /\ {k, l} \subseteq PairsOf(batch[a].rows) \cap PairsOf(batch[b].rows)
    => ~(record[k] = {a} /\ record[l] = {b})

(* A step of a roll.                                                       *)
RollStep == roster' = roster /\ <<record, batch>>' # <<record, batch>>

(* Saving rolls never turns a completed class into a pending one: only a   *)
(* change of its enrolments does.  Nor does a student lose a class that    *)
(* the summary counted, and no total of what is done goes down.            *)
CompletedStays ==
  [][RollStep =>
       /\ \A c \in Class : Completed(c) => Completed(c)'
       /\ \A s \in Student : StudentSummaries[s] <= StudentSummaries[s]'
       /\ Totals.pendingClasses >= Totals.pendingClasses'
       /\ Totals.studentsWithAttendance <= Totals.studentsWithAttendance']_vars
=============================================================================
