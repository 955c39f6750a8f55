------------------------------ MODULE Seasons ------------------------------
(***************************************************************************)
(* Seasons, and what hangs on their dates: the results linked to a season, *)
(* and the category that one student has in it.  Every write checks first  *)
(* and writes later; a database index keeps a single season active, the    *)
(* other rules are checks of the application alone.                        *)
(***************************************************************************)
EXTENDS Naturals, FiniteSets

CONSTANTS
  Season, Result, Category,
  Request,  \* writes in progress at the same time
  Day       \* bound: the calendar

VARIABLES
  season,    \* seasons
  result,    \* results of the student: the season they name and their day
  category,  \* student_season_categories of the student
  req        \* per request, the write that passed its checks

vars == <<season, result, category, req>>

Opt(S) == {{}} \cup {{x} : x \in S}
Status == {"PLANNED", "ACTIVE", "CLOSED"}
Period == {d \in Day \X Day : d[1] <= d[2]}
SeasonRow == [status : Status, period : Period]

Write == [kind : {"create", "update"}, season : Season, row : SeasonRow]
      \cup [kind : {"result"}, result : Result, season : Opt(Season), day : Day]
      \cup [kind : {"category"}, season : Season, category : Category]

TypeOK ==
  /\ season \in [Season -> Opt(SeasonRow)]
  /\ result \in [Result -> Opt([season : Opt(Season), day : Day])]
  /\ category \in [Season -> Opt(Category)]
  /\ req \in [Request -> Opt(Write)]

Init ==
  /\ season = [s \in Season |-> {}]
  /\ result = [r \in Result |-> {}]
  /\ category = [s \in Season |-> {}]
  /\ req = [p \in Request |-> {}]

-----------------------------------------------------------------------------

Within(day, period) == period[1] <= day /\ day <= period[2]
Overlap(a, b) == a[1] <= b[2] /\ b[1] <= a[2]

Linked(s) == {r \in Result : \E row \in result[r] : s \in row.season}

(* assertNoOverlap: both ends are included.                                *)
NoOverlap(s, period) ==
  \A t \in Season \ {s} : \A row \in season[t] : ~Overlap(period, row.period)

(* Nothing refers to the season: its year and its dates may change.        *)
Free(s) == Linked(s) = {} /\ category[s] = {}

Pass(p, write) ==
  req[p] = {} /\ req' = [req EXCEPT ![p] = {write}] /\ UNCHANGED <<season, result, category>>

CheckCreate(p, s, row) ==
  /\ season[s] = {}
  /\ \A q \in Request : \A w \in req[q] : w.kind = "create" => w.season # s
  /\ NoOverlap(s, row.period)
  /\ Pass(p, [kind |-> "create", season |-> s, row |-> row])

CheckUpdate(p, s, row) ==
  \E old \in season[s] :
    /\ old.period # row.period => Free(s) /\ NoOverlap(s, row.period)
    /\ Pass(p, [kind |-> "update", season |-> s, row |-> row])

(* assertSeasonLink, for a new result or an edited one.                    *)
CheckResult(p, r, link, day) ==
  /\ \A s \in link : \E row \in season[s] : Within(day, row.period)
  /\ Pass(p, [kind |-> "result", result |-> r, season |-> link, day |-> day])

(* listReferenceData: the season that the forms of students are about.     *)
Active == {s \in Season : \E row \in season[s] : row.status = "ACTIVE"}

(* PUT /students files the student under the season that is active, and    *)
(* may move it only if no result of the student is linked to that season.  *)
CheckCategory(p, s, c) ==
  /\ s \in Active
  /\ category[s] \in {{}, {c}} \/ Linked(s) = {}
  /\ Pass(p, [kind |-> "category", season |-> s, category |-> c])

(* Mutant: no index keeps a single season active.                          *)
AnyStatus(s, row) == TRUE
(* The partial unique index on the active season.                          *)
OneActiveAfter(s, row) ==
  row.status = "ACTIVE" =>
    \A t \in Season \ {s} : \A other \in season[t] : other.status # "ACTIVE"

WriteSeason(p) ==
  \E w \in req[p] :
    /\ w.kind \in {"create", "update"}
    /\ season' = IF OneActiveAfter(w.season, w.row)
                 THEN [season EXCEPT ![w.season] = {w.row}] ELSE season
    /\ req' = [req EXCEPT ![p] = {}]
    /\ UNCHANGED <<result, category>>

WriteResult(p) ==
  \E w \in req[p] :
    /\ w.kind = "result"
    /\ result' = [result EXCEPT ![w.result] = {[season |-> w.season, day |-> w.day]}]
    /\ req' = [req EXCEPT ![p] = {}]
    /\ UNCHANGED <<season, category>>

WriteCategory(p) ==
  \E w \in req[p] :
    /\ w.kind = "category"
    /\ category' = [category EXCEPT ![w.season] = {w.category}]
    /\ req' = [req EXCEPT ![p] = {}]
    /\ UNCHANGED <<season, result>>

DeleteResult(r) ==
  /\ result[r] # {}
  /\ \A p \in Request : \A w \in req[p] : w.kind = "result" => w.result # r
  /\ result' = [result EXCEPT ![r] = {}]
  /\ UNCHANGED <<season, category, req>>

Abort(p) ==
  req[p] # {} /\ req' = [req EXCEPT ![p] = {}] /\ UNCHANGED <<season, result, category>>

Next ==
  \/ \E p \in Request :
       \/ \E s \in Season, row \in SeasonRow : CheckCreate(p, s, row) \/ CheckUpdate(p, s, row)
       \/ \E r \in Result, link \in Opt(Season), day \in Day : CheckResult(p, r, link, day)
       \/ \E s \in Season, c \in Category : CheckCategory(p, s, c)
       \/ WriteSeason(p) \/ WriteResult(p) \/ WriteCategory(p) \/ Abort(p)
  \/ \E r \in Result : DeleteResult(r)

Spec == Init /\ [][Next]_vars

-----------------------------------------------------------------------------

(* At most one season is active, whatever two administrators write.        *)
OneActiveSeason == Cardinality(Active) <= 1
=============================================================================
