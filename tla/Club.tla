-------------------------------- MODULE Club --------------------------------
(***************************************************************************)
(* The modules that have safety properties alone, side by side: the        *)
(* initial state chooses a module, that module runs, and the variables of  *)
(* the others keep their initial values.  The states are the sum of those  *)
(* of the modules, not their product.                                      *)
(*                                                                         *)
(* AuthSessions comes in by EXTENDS, the others by INSTANCE.  The modules  *)
(* do not tell apart what their sets are of, so that they can share them:  *)
(* Left and Right are two small sets (classes, seasons or results;         *)
(* students, adults or teachers), One a set of a single thing.  Proofs     *)
(* about a module hold whatever the sets are.                              *)
(***************************************************************************)
EXTENDS AuthSessions

CONSTANTS
  Left, Right, One,
  RowId,  \* bound: ids of the rows of class_teachers and of student_classes
  Event,  \* ids of events
  Day     \* bound: the calendar

(* Ids are ordered, as strings are; numbers stand for them.  There is an   *)
(* event and a day to name in a row that has been deleted.                 *)
ASSUME EventAssumption == Event \subseteq Nat /\ Event # {}
ASSUME DayAssumption == Day # {}

(* The tables of students and of classes are finite.                       *)
ASSUME TablesAssumption == IsFiniteSet(Right) /\ IsFiniteSet(One)

VARIABLES
  module,                                      \* the one that runs
  coaches, coachReq,                           \* Coaches
  status, enrolment, plan,                     \* Roster
  rollStatus, rollLink, rollPlan, record, batch,        \* Attendance
  event, race, result, resultReq,              \* Competition
  season, seasonResult, category, seasonReq,   \* Seasons
  student, adult, guardian, form,              \* Guardians
  role, teacher, last, accountReq,             \* Accounts
  userRole, userSession, coach, enrolled, cache, readReq, seen  \* Access

Co == INSTANCE Coaches WITH
  Class <- Left, Teacher <- Right, req <- coachReq
Ro == INSTANCE Roster WITH
  Class <- Left, Student <- Right, Link <- RowId, link <- enrolment
Attend == INSTANCE Attendance WITH
  Class <- One, Student <- Right, Link <- RowId, Batch <- Left, Request <- One,
  status <- rollStatus, link <- rollLink, plan <- rollPlan
Cp == INSTANCE Competition WITH
  Result <- Left, Race <- One, Date <- Day, req <- resultReq
Se == INSTANCE Seasons WITH
  Season <- Left, Result <- One, Category <- One, result <- seasonResult, req <- seasonReq
Gu == INSTANCE Guardians WITH
  Student <- Right, Parent <- Left, parent <- adult, link <- guardian
Ac == INSTANCE Accounts WITH
  Teacher <- Left, Profile <- Right, req <- accountReq
Rd == INSTANCE Access WITH
  User <- One, Class <- Left, Student <- Right, Request <- One,
  role <- userRole, session <- userSession, req <- readReq

coVars == <<coaches, coachReq>>
roVars == <<status, enrolment, plan>>
attVars == <<rollStatus, rollLink, rollPlan, record, batch>>
cpVars == <<event, race, result, resultReq>>
seVars == <<season, seasonResult, category, seasonReq>>
guVars == <<student, adult, guardian, form>>
acVars == <<role, teacher, last, accountReq>>
rdVars == <<userRole, userSession, coach, enrolled, cache, readReq, seen>>

ClubInit ==
  /\ module \in {"links", "coaches", "roster", "attendance", "competition",
                 "seasons", "guardians", "accounts", "access"}
  /\ Init /\ Co!Init /\ Ro!Init /\ Attend!Init /\ Cp!Init
  /\ Se!Init /\ Gu!Init /\ Ac!Init /\ Rd!Init

(* The variables of a module stay while another one runs.                  *)
Rest(m, v) == IF module = m THEN TRUE ELSE UNCHANGED v

ClubNext ==
  /\ UNCHANGED module
  /\ \/ module = "links" /\ Next
     \/ module = "coaches" /\ Co!Next
     \/ module = "roster" /\ Ro!Next
     \/ module = "attendance" /\ Attend!Next
     \/ module = "competition" /\ Cp!Next
     \/ module = "seasons" /\ Se!Next
     \/ module = "guardians" /\ Gu!Next
     \/ module = "accounts" /\ Ac!Next
     \/ module = "access" /\ Rd!Next
  /\ Rest("links", vars)
  /\ Rest("coaches", coVars)
  /\ Rest("roster", roVars)
  /\ Rest("attendance", attVars)
  /\ Rest("competition", cpVars)
  /\ Rest("seasons", seVars)
  /\ Rest("guardians", guVars)
  /\ Rest("accounts", acVars)
  /\ Rest("access", rdVars)

ClubSpec ==
  ClubInit /\ [][ClubNext]_<<module, vars, coVars, roVars, attVars, cpVars, seVars, guVars, acVars, rdVars>>

-----------------------------------------------------------------------------
(* The properties of the modules, under their own names                    *)

(* A class has at most one head coach, whatever the rosters were on which  *)
(* the promotions in progress were planned.                                *)
OneHeadCoach == Co!OneHeadCoach

(* A request that takes a coach out of a class has also done the rest of   *)
(* its plan: the successor is head coach, the moved coach is in the class  *)
(* it moved to.  A stale plan takes nobody out.                            *)
HandOverComplete == Co!HandOverComplete

(* A student is in at most one class, whatever plans were made on          *)
(* enrolments that have changed since.                                     *)
EnrolledOnce == Ro!EnrolledOnce

(* The history of enrolments only grows, and what is closed stays closed:  *)
(* no late transfer or update reopens an enrolment that has ended.         *)
HistoryKept == Ro!HistoryKept

(* A record belongs to a student who is or was enrolled in the class, even *)
(* if the enrolment ended between the check and the write.                 *)
RecordedWereEnrolled == Attend!RecordedWereEnrolled

(* Of two saved batches one is later on every pair they share: a roll is   *)
(* never a mixture of two calls of the same students.                      *)
BatchesNeverMix == Attend!BatchesNeverMix

(* Saving rolls never turns a completed class into a pending one: only a   *)
(* change of its enrolments does.                                          *)
CompletedStays == Attend!CompletedStays

(* The records of an event, results and races together, are all of one     *)
(* discipline, whichever requests overlap.                                 *)
DisciplinesNeverMix == Cp!DisciplinesNeverMix

(* A result that names a race is of the event and the discipline of that   *)
(* race, also after someone removed or unlinked an event.                  *)
RaceLinksHold == Cp!RaceLinksHold

(* No two requests hold an event each that the other waits for.            *)
NoLockCycle == Cp!NoLockCycle

(* At most one season is active, whatever two administrators write.        *)
OneActiveSeason == Se!OneActiveSeason

(* A student has at most one principal guardian, also when two adults who  *)
(* each found none are linked at the same time.                            *)
OnePrincipal == Gu!OnePrincipal

(* The trail of a teacher tells its story without gaps, whoever links and  *)
(* unlinks at the same time: it ends with what holds, a link is written    *)
(* only where none stands, and an unlink names the account that stands.    *)
TrailAgrees == Ac!TrailAgrees

(* "Revoking a class assignment must take effect on the next request":     *)
(* whatever changes while a request runs, and whatever was cached before,  *)
(* every student in an answer was in the scope of the user at some moment  *)
(* since the request was sent.                                             *)
AnswersWithinScope == Rd!AnswersWithinScope
=============================================================================
