----------------------------- MODULE ListCache -----------------------------
(***************************************************************************)
(* The cache of list pages in the memory of one process.  A read that      *)
(* misses queries the database and stores the page with a time to live; a  *)
(* write commits and then drops the lists it names, one after the other.   *)
(* Other processes write the same database and drop only their own pages.  *)
(*                                                                         *)
(* A page is abstracted to whether it still shows what the database holds. *)
(***************************************************************************)
EXTENDS Naturals

CONSTANTS
  Cached,   \* bound: the lists whose pages are asked for, one page each
  TTL,      \* CACHE_TTL_SECONDS, at least 1
  Request   \* requests in progress at the same time

VARIABLES
  page,  \* per list, the page in the cache, if any
  req    \* per request, a page being loaded or lists still to be dropped

vars == <<page, req>>

Opt(S) == {{}} \cup {{x} : x \in S}
List == {"students", "parents", "classes", "teachers", "ex-students", "pools", "trainings",
         "events", "results"}
Operation == {"student", "parent", "class", "teacher", "departure", "pool", "training",
              "event", "result"}

(* "excused": another process wrote, a load overlapped a write, or the     *)
(* write is one of the Gaps below.                                         *)
Page == [stale : BOOLEAN, excused : BOOLEAN, ttl : 0..TTL]
Loading == [kind : {"load"}, list : List, stale : BOOLEAN]
Writing == [kind : {"write"}, drop : SUBSET List]

TypeOK ==
  /\ page \in [List -> Opt(Page)]
  /\ req \in [Request -> Opt(Loading \cup Writing)]

Init ==
  /\ page = [l \in List |-> {}]
  /\ req = [p \in Request |-> {}]

-----------------------------------------------------------------------------

(* The include of each list: the tables its page is drawn from; the status *)
(* of a student apart, which other operations write.                       *)
StudentsList == {"students", "status", "guardians", "parents", "enrolments"}
ParentsList == {"parents", "guardians", "students"}
ClassesList == {"classes", "coaches", "teachers", "enrolments", "students", "status", "pools"}
TeachersList == {"teachers", "coaches", "classes", "enrolments"}
ExStudentsList == {"departures"}
PoolsList == {"pools"}
TrainingsList == {"trainings", "teachers", "pools"}
EventsList == {"events"}
ResultsList == {"results", "students"}

Reads(l) ==
  CASE l = "students" -> StudentsList [] l = "parents" -> ParentsList
    [] l = "classes" -> ClassesList [] l = "teachers" -> TeachersList
    [] l = "ex-students" -> ExStudentsList [] l = "pools" -> PoolsList
    [] l = "trainings" -> TrainingsList [] l = "events" -> EventsList
    [] l = "results" -> ResultsList

(* What each kind of write changes ...                                     *)
Writes(op) ==
  CASE op = "student" -> {"students", "status", "guardians", "enrolments"}
    [] op = "parent" -> {"parents", "guardians"}
    [] op = "class" -> {"classes", "coaches", "enrolments"}
    [] op = "teacher" -> {"teachers", "coaches"}
    [] op = "departure" -> {"departures", "status"}
    [] op = "pool" -> {"pools"}
    [] op = "training" -> {"trainings"}
    [] op = "event" -> {"events"}
    [] op = "result" -> {"results"}

OwnList(op) ==
  CASE op = "student" -> "students" [] op = "parent" -> "parents"
    [] op = "class" -> "classes" [] op = "teacher" -> "teachers"
    [] op = "departure" -> "ex-students" [] op = "pool" -> "pools"
    [] op = "training" -> "trainings" [] op = "event" -> "events"
    [] op = "result" -> "results"

(* Mutant: every write drops its own list alone.                           *)
DropsOwnList(op) == {OwnList(op)}

(* ... and the deleteMatching calls after it.                              *)
Drops(op) ==
  {OwnList(op)} \cup
    CASE op = "student" -> {"parents"} [] op = "parent" -> {"students"}
      [] op = "class" -> {"teachers"} [] op = "departure" -> {"students"}
      [] OTHER -> {}

Shows(l, op) == Reads(l) \cap Writes(op) # {}

(* Lists that show what a write changes and keep their pages all the same. *)
Gaps ==
  {<<"student", "classes">>, <<"student", "teachers">>, <<"student", "results">>,
   <<"class", "students">>, <<"departure", "classes">>,
   <<"teacher", "classes">>, <<"teacher", "trainings">>,
   <<"pool", "classes">>, <<"pool", "trainings">>}

Start(p, r) == req[p] = {} /\ req' = [req EXCEPT ![p] = {r}]
End(p) == req' = [req EXCEPT ![p] = {}]

(* The pages, and the loads whose query came first, that "op" outdates.    *)
Outdated(op, other) ==
  [l \in List |->
     IF Shows(l, op)
     THEN {[g EXCEPT !.stale = TRUE, !.excused = @ \/ other \/ <<op, l>> \in Gaps] :
             g \in page[l]}
     ELSE page[l]]
Overtaken(requests, op) ==
  [p \in Request |->
     {IF r.kind = "load" /\ Shows(r.list, op) THEN [r EXCEPT !.stale = TRUE] ELSE r :
        r \in requests[p]}]

-----------------------------------------------------------------------------

(* rememberPaginatedResult: a miss runs the query, a hit leaves the page.  *)
Miss(p, l) ==
  /\ page[l] = {}
  /\ Start(p, [kind |-> "load", list |-> l, stale |-> FALSE])
  /\ UNCHANGED page

(* Mutant: a hit renews the time to live.                                  *)
HitRenews(l) == page' = [page EXCEPT ![l] = {[g EXCEPT !.ttl = TTL] : g \in @}]
Hit(l) == UNCHANGED page

Get(l) == page[l] # {} /\ Hit(l) /\ UNCHANGED req

Set(p) ==
  \E r \in req[p] :
    /\ r.kind = "load"
    /\ page' = [page EXCEPT ![r.list] = {[stale |-> r.stale, excused |-> r.stale, ttl |-> TTL]}]
    /\ End(p)

(* The transaction of a write commits; its drops are still to come.        *)
Commit(p, op) ==
  /\ req[p] = {}
  /\ page' = Outdated(op, FALSE)
  /\ req' = Overtaken([req EXCEPT ![p] = {[kind |-> "write", drop |-> Drops(op)]}], op)

DeleteMatching(p) ==
  \E r \in req[p] :
    /\ r.kind = "write"
    /\ IF r.drop = {} THEN End(p) /\ UNCHANGED page
       ELSE \E l \in r.drop :
              /\ page' = [page EXCEPT ![l] = {}]
              /\ req' = [req EXCEPT ![p] = {[r EXCEPT !.drop = @ \ {l}]}]

OtherProcess(op) == page' = Outdated(op, TRUE) /\ req' = Overtaken(req, op)

(* A second passes; a page whose time is over is a miss.                   *)
Tick ==
  /\ page' = [l \in List |-> {[g EXCEPT !.ttl = @ - 1] : g \in {h \in page[l] : h.ttl > 1}}]
  /\ UNCHANGED req

(* A query fails, or the process restarts and its cache is empty.          *)
Fail(p) == (\E r \in req[p] : r.kind = "load") /\ End(p) /\ UNCHANGED page
Restart == page' = [l \in List |-> {}] /\ req' = [p \in Request |-> {}]

Next ==
  \/ \E p \in Request :
       \/ \E l \in Cached : Miss(p, l)
       \/ \E op \in Operation : Commit(p, op)
       \/ Set(p) \/ DeleteMatching(p) \/ Fail(p)
  \/ \E l \in Cached : Get(l)
  \/ \E op \in Operation : OtherProcess(op)
  \/ Tick \/ Restart

(* Time passes.                                                            *)
Fairness == WF_vars(Tick)
Spec == Init /\ [][Next]_vars /\ Fairness

-----------------------------------------------------------------------------

(* After a write of this process has returned, no list shows what was      *)
(* there before it, except for the known gaps, for a load that overlapped  *)
(* a write, and for what other processes wrote.                            *)
StaleIsExplained ==
  \A l \in List : \A g \in page[l] :
    g.stale /\ ~g.excused =>
      \E p \in Request : \E r \in req[p] : r.kind = "write" /\ l \in r.drop

(* Whatever the gaps, no list stays outdated: its page is gone after the   *)
(* time to live, however often it is asked for.                            *)
EventuallyFresh ==
  \A l \in Cached : (\E g \in page[l] : g.stale) ~> ~(\E g \in page[l] : g.stale)
=============================================================================
