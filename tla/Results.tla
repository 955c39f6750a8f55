------------------------------ MODULE Results ------------------------------
(***************************************************************************)
(* The results of all students, in two tables, and what the read routes    *)
(* compute from them: pages of both tables together, the ranking and the   *)
(* records of a course, the evolution of each student and the summary.     *)
(* The style, the distance and the category, which the computations treat  *)
(* as they treat the course, are left out.                                 *)
(***************************************************************************)
EXTENDS Naturals, FiniteSets, SequencesExt

CONSTANTS
  Result,       \* ids of results, numbers: their order breaks ties
  Student,      \* numbers, in the order of the names
  Day,          \* numbers, days in a month each
  Time,         \* durationMs
  PoolCourse, WaterCourse,
  PageSize      \* perPage, positive

VARIABLE results  \* pool_results and open_water_results, by id

vars == <<results>>

Opt(S) == {{}} \cup {{x} : x \in S}
Discipline == {"Piscina", "Aguas Abertas"}

(* CompetitiveResultPolicy: who has no time (0) is not classified, and no  *)
(* result has the course of the other discipline.  A time in open water    *)
(* plays no part below.                                                    *)
Row == [id : Result, discipline : {"Piscina"}, student : Student, day : Day,
        course : PoolCourse, time : Time \cup {0}]
  \cup [id : Result, discipline : {"Aguas Abertas"}, student : Student, day : Day,
        course : WaterCourse, time : {0}]

TypeOK ==
  /\ results \subseteq Row
  /\ \A a, b \in results : a.id = b.id => a = b

Init == results = {}

-----------------------------------------------------------------------------

Create(row) ==
  /\ \A a \in results : a.id # row.id
  /\ results' = results \cup {row}

(* Any column may change; a result stays in its table.                     *)
Update(old, row) ==
  /\ row.id = old.id /\ row.discipline = old.discipline
  /\ results' = (results \ {old}) \cup {row}

Delete(old) == results' = results \ {old}

Next ==
  \/ \E row \in Row : Create(row)
  \/ \E old \in results : Delete(old) \/ \E row \in Row : Update(old, row)

Spec == Init /\ [][Next]_vars

-----------------------------------------------------------------------------
(* Filters and pages                                                       *)

Query == [discipline : Opt(Discipline), competitionType : Opt(Discipline),
          course : Opt(PoolCourse \cup WaterCourse \cup {"unknown"})]

(* buildWhere: the rows of one table that a query asks for; filters that   *)
(* contradict each other ask for none.                                     *)
Where(q, d) ==
  {a \in results :
     /\ a.discipline = d
     /\ Cardinality(q.discipline \cup q.competitionType) <= 1
     /\ d \in (q.discipline \cup q.competitionType) \/ q.discipline \cup q.competitionType = {}
     /\ q.course \in {{}, {a.course}}}

LexLess(u, v) == \E i \in DOMAIN u : u[i] < v[i] /\ \A j \in 1..(i - 1) : u[j] = v[j]
Newer(a, b) == LexLess(<<b.day, b.id>>, <<a.day, a.id>>)
Older(a, b) == LexLess(<<a.day, a.id>>, <<b.day, b.id>>)
Faster(a, b) ==
  LexLess(<<a.time, a.day, a.student, a.id>>, <<b.time, b.day, b.student, b.id>>)

Slice(s, from, to) == SubSeq(s, from, IF to < Len(s) THEN to ELSE Len(s))

(* The rows in an order that leaves no ties.                               *)
InOrder(rows, Before(_, _)) ==
  CHOOSE s \in SetToSeqs(rows) : \A i, j \in DOMAIN s : i < j => Before(s[i], s[j])
Sorted(rows) == InOrder(rows, Newer)

(* Mutant: each table gives one page.                                      *)
TakePage(q, d, page, perPage) == Slice(Sorted(Where(q, d)), 1, perPage)
(* orderBy and take: as much of each table as the page could need.         *)
Take(q, d, page, perPage) == Slice(Sorted(Where(q, d)), 1, page * perPage)

List(q, page, perPage) ==
  LET taken == UNION {ToSet(Take(q, d, page, perPage)) : d \in Discipline}
  IN Slice(Sorted(taken), (page - 1) * perPage + 1, page * perPage)

Total(q) == Cardinality(Where(q, "Piscina")) + Cardinality(Where(q, "Aguas Abertas"))

-----------------------------------------------------------------------------
(* Ranking, records, evolution, summary                                    *)

Candidates(c) ==
  {a \in Where([discipline |-> {"Piscina"}, competitionType |-> {}, course |-> {c}],
               "Piscina") : a.time > 0}

FirstOfEach(s, field) ==
  FoldLeft(LAMBDA acc, a : IF \E i \in DOMAIN acc : acc[i][field] = a[field]
                           THEN acc ELSE Append(acc, a), <<>>, s)

(* Mutant: the next rank follows the last one.                             *)
DenseRank(best) ==
  FoldLeft(LAMBDA acc, a : Append(acc,
             IF acc = <<>> THEN 1
             ELSE IF a.time = best[Len(acc)].time THEN Last(acc) ELSE Last(acc) + 1),
           <<>>, best)

(* A time equal to the one before it has its rank, others their position.  *)
Ranks(best) ==
  FoldLeft(LAMBDA acc, a : Append(acc,
             IF acc # <<>> /\ a.time = best[Len(acc)].time THEN Last(acc)
             ELSE Len(acc) + 1),
           <<>>, best)

(* ResultRankingPolicy.build                                               *)
Ranking(c) ==
  LET best == FirstOfEach(InOrder(Candidates(c), Faster), "student")
      ranks == Ranks(best)
  IN {[student |-> best[i].student, time |-> best[i].time, rank |-> ranks[i]] :
        i \in DOMAIN best}

(* ResultRecordPolicy.build: the best result of each course.               *)
Records ==
  ToSet(FirstOfEach(InOrder(UNION {Candidates(c) : c \in PoolCourse}, Faster),
                    "course"))

(* getEvolution: the best time in each month.                              *)
Evolution(c) ==
  FoldLeft(LAMBDA best, a :
             IF best[a.student][a.day] = 0 \/ a.time < best[a.student][a.day]
             THEN [best EXCEPT ![a.student][a.day] = a.time] ELSE best,
           [s \in Student |-> [d \in Day |-> 0]], InOrder(Candidates(c), Older))

(* Mutant: the summary reads the results by time, not by date.             *)
SummaryOrder(rows) == InOrder(rows, Faster)
ByDate(rows) == InOrder(rows, Older)

(* summary: personal records so far, and how often one was improved.       *)
Summary(c) ==
  FoldLeft(LAMBDA acc, a :
             LET best == acc.best[a.student] IN
             IF best # 0 /\ a.time >= best THEN acc
             ELSE [best |-> [acc.best EXCEPT ![a.student] = a.time],
                   improvements |-> acc.improvements + (IF best = 0 THEN 0 ELSE 1)],
           [best |-> [s \in Student |-> 0], improvements |-> 0], ByDate(Candidates(c)))

(* listCompetitionContexts: the courses that the ranking is offered for.   *)
Contexts == {a.course : a \in {b \in results : b.discipline = "Piscina" /\ b.time > 0}}

(* listFilterOptions: what a filter offers, from both tables; the course   *)
(* stands for the distance, the category and the competition.              *)
FilterOptions == {a.course : a \in results}

(* getStyleDistribution, by course: the groups of both tables are added.   *)
Distribution(q) ==
  LET group(d, c) == {a \in Where(q, d) : a.course = c} IN
  [c \in {a.course : a \in UNION {Where(q, d) : d \in Discipline}} |->
     Cardinality(group("Piscina", c)) + Cardinality(group("Aguas Abertas", c))]

-----------------------------------------------------------------------------

(* The pages of a list, one after the other, are all the results that      *)
(* match, once each, newest first, though they come out of two tables.     *)
PagesPartition ==
  \A q \in Query, perPage \in PageSize :
    LET total == Total(q)
        pages == [page \in 1..total |-> List(q, page, perPage)]
    IN FlattenSeq(pages) = Sorted(UNION {Where(q, d) : d \in Discipline})

(* Every student with a time is ranked once, with the best of its times,   *)
(* and the rank is one more than the number of students who were faster.   *)
RankingIsStandard ==
  \A c \in PoolCourse :
    LET times(s) == {a.time : a \in {b \in Candidates(c) : b.student = s}}
        best == [s \in {t \in Student : times(t) # {}} |->
                   CHOOSE t \in times(s) : \A u \in times(s) : t <= u]
    IN Ranking(c) =
         {[student |-> s, time |-> best[s],
           rank |-> 1 + Cardinality({o \in DOMAIN best : best[o] < best[s]})] :
            s \in DOMAIN best}

(* The routes tell one story: a student's rank stands on its personal      *)
(* record, which is the best of its months, the record of a course is the  *)
(* time ranked first, a record was improved exactly when someone was       *)
(* faster than on every earlier occasion, a course is offered if and only  *)
(* if somebody is ranked in it, a filter offers exactly what finds results,*)
(* and the distribution adds up to the total.                              *)
RoutesAgree ==
  /\ \A q \in Query : FoldFunction(+, 0, Distribution(q)) = Total(q)
  /\ \A c \in PoolCourse : c \in Contexts <=> Ranking(c) # {}
  /\ FilterOptions =
       {c \in PoolCourse \cup WaterCourse :
          Total([discipline |-> {}, competitionType |-> {}, course |-> {c}]) > 0}
  /\ \A c \in PoolCourse :
      LET summary == Summary(c)
          better == {a \in Candidates(c) :
                       LET before == {b \in Candidates(c) : b.student = a.student /\ Older(b, a)}
                       IN before # {} /\ \A b \in before : a.time < b.time}
      IN /\ \A e \in Ranking(c) :
              /\ summary.best[e.student] = e.time
              /\ \E d \in Day : Evolution(c)[e.student][d] = e.time
              /\ \A d \in Day : Evolution(c)[e.student][d] \in {0} \cup {t \in Time : t >= e.time}
              /\ e.rank = 1 => \A r \in Records : r.course = c => r.time = e.time
         /\ summary.improvements = Cardinality(better)
=============================================================================
