--------------------------- MODULE Results_proofs ---------------------------
(***************************************************************************)
(* Proofs about what the routes compute from results (Results): the        *)
(* ranking, the pages of the list, and that all routes agree.  They hold   *)
(* for all values of the constants that Services declares and its          *)
(* assumptions allow.                                                      *)
(*                                                                         *)
(* The three properties speak of every table of results, so what needs an  *)
(* invariant is little (Rows: a finite table, one row per id); the rest is *)
(* about sorting, folding and counting.  A sort is an enumeration of the   *)
(* table in a strict total order; a fold is followed position by position. *)
(***************************************************************************)
EXTENDS Services, Sequences, FiniteSetTheorems, TLAPS

-----------------------------------------------------------------------------
(* Induction.  The induction theorems of the library take the formula as   *)
(* an operator; these take the set of the numbers, or of the sets, that    *)
(* satisfy it.                                                             *)

(* A set of numbers has a least one.                                       *)
LEMMA Least ==
  ASSUME NEW T \in SUBSET Nat, T # {}
  PROVE  \E x \in T : \A y \in T : x <= y
<1> DEFINE below == {0..(x - 1) : x \in T}
<1>1. below \subseteq FiniteSubsetsOf(Nat)
  <2>1. ASSUME NEW x \in T PROVE IsFiniteSet(0..(x - 1)) /\ 0..(x - 1) \in SUBSET Nat
    BY FS_Interval
  <2> QED BY <2>1 DEF FiniteSubsetsOf
<1>2. below # {}
  OBVIOUS
<1>3. IsWellFoundedOn(StrictSubsetOrdering(Nat), FiniteSubsetsOf(Nat))
  BY FS_StrictSubsetOrderingWellFounded
<1>4. \E B \in below : \A C \in below : <<C, B>> \notin StrictSubsetOrdering(Nat)
  <2> HIDE DEF below
  <2> QED BY <1>1, <1>2, <1>3, WFMin
<1>5. PICK x \in T : \A y \in T : <<0..(y - 1), 0..(x - 1)>> \notin StrictSubsetOrdering(Nat)
  BY <1>4
<1>6. ASSUME NEW y \in T, y < x PROVE FALSE
  <2>1. 0..(y - 1) \in SUBSET (0..(x - 1))
    BY <1>6
  <2>2. 0..(y - 1) \in SUBSET Nat /\ 0..(x - 1) \in SUBSET Nat
    OBVIOUS
  <2>3. y \in 0..(x - 1) /\ y \notin 0..(y - 1)
    BY <1>6
  <2> QED BY <1>5, <2>1, <2>2, <2>3 DEF StrictSubsetOrdering
<1> QED BY <1>6

(* A set that has 0, and n + 1 with every n, has all numbers.              *)
LEMMA Numbers ==
  ASSUME NEW T, 0 \in T, \A n \in Nat : n \in T => n + 1 \in T
  PROVE  Nat \subseteq T
<1> SUFFICES ASSUME Nat \ T # {} PROVE FALSE
  OBVIOUS
<1>1. PICK x \in Nat \ T : \A y \in Nat \ T : x <= y
  BY Least
<1>2. x - 1 \in Nat /\ x - 1 \notin Nat \ T
  BY <1>1
<1> QED
  BY <1>2

(* The same for the numbers up to n.                                       *)
LEMMA UpTo ==
  ASSUME NEW n \in Nat, NEW T, 0 \in T, \A k \in 0..(n - 1) : k \in T => k + 1 \in T
  PROVE  0..n \subseteq T
<1> DEFINE U == T \cup {k \in Nat : k > n}
<1>1. \A k \in Nat : k \in U => k + 1 \in U
  OBVIOUS
<1>2. Nat \subseteq U
  <2> HIDE DEF U
  <2> QED BY <1>1, Numbers, 0 \in U DEF U
<1> QED
  BY <1>2

LEMMA OneLess ==
  ASSUME NEW A, IsFiniteSet(A), NEW n \in Nat, Cardinality(A) = n + 1
  PROVE  A # {} /\ \A x \in A : Cardinality(A \ {x}) = n
<1>1. A # {}
  BY FS_EmptySet
<1> QED
  BY <1>1, FS_RemoveElement

LEMMA Sets ==
  ASSUME NEW S, IsFiniteSet(S), NEW T, {} \in T,
         \A A \in SUBSET S : \A x \in S : A \in T /\ x \notin A => A \cup {x} \in T
  PROVE  SUBSET S \subseteq T
<1> DEFINE sized == {n \in Nat : \A A \in SUBSET S : Cardinality(A) = n => A \in T}
<1>1. \A A \in SUBSET S : IsFiniteSet(A) /\ Cardinality(A) \in Nat
  BY FS_Subset, FS_CardinalityType
<1>2. 0 \in sized
  BY <1>1, FS_EmptySet
<1>3. ASSUME NEW n \in Nat, n \in sized PROVE n + 1 \in sized
  <2> SUFFICES ASSUME NEW A \in SUBSET S, Cardinality(A) = n + 1 PROVE A \in T
    OBVIOUS
  <2>1. A # {} /\ \A x \in A : Cardinality(A \ {x}) = n
    BY <1>1, OneLess
  <2>2. PICK x \in A : TRUE
    BY <2>1
  <2>3. A \ {x} \in T
    BY <1>3, <2>1, <2>2
  <2> QED
    BY <2>3, (A \ {x}) \cup {x} = A
<1>4. Nat \subseteq sized
  <2> HIDE DEF sized
  <2> QED BY <1>2, <1>3, Numbers
<1> QED
  BY <1>1, <1>4

-----------------------------------------------------------------------------
(* A finite set in order: the relation R says which of two comes first.    *)

(* R is a strict total order of S.                                         *)
IsOrder(R, S) ==
  /\ \A x \in S : <<x, x>> \notin R
  /\ \A x, y \in S : x # y => <<x, y>> \in R \/ <<y, x>> \in R
  /\ \A x, y, z \in S : <<x, y>> \in R /\ <<y, z>> \in R => <<x, z>> \in R

(* s is S as a sequence, in the order R.                                   *)
Enumerates(s, R, S) ==
  /\ s \in [1..Cardinality(S) -> S]
  /\ \A i, j \in 1..Cardinality(S) : i < j => <<s[i], s[j]>> \in R

(* An enumeration contains everything, once.                               *)
LEMMA EnumeratesAll ==
  ASSUME NEW S, IsFiniteSet(S), NEW R, IsOrder(R, S), NEW s, Enumerates(s, R, S)
  PROVE  /\ Cardinality(S) \in Nat
         /\ \A x \in S : \E i \in 1..Cardinality(S) : s[i] = x
         /\ \A i, j \in 1..Cardinality(S) : s[i] = s[j] => i = j
         /\ \A i, j \in 1..Cardinality(S) : i < j <=> <<s[i], s[j]>> \in R
<1>1. Cardinality(S) \in Nat
  BY FS_CardinalityType
<1> DEFINE n == Cardinality(S)
<1> s \in [1..n -> S] /\ \A i, j \in 1..n : i < j => <<s[i], s[j]>> \in R
  BY DEF Enumerates
<1>2. ASSUME NEW i \in 1..n, NEW j \in 1..n, s[i] = s[j] PROVE i = j
  <2>1. <<s[i], s[j]>> \notin R /\ <<s[j], s[i]>> \notin R
    BY <1>2 DEF IsOrder
  <2> HIDE DEF n
  <2> QED
    BY <1>1, <2>1 DEF n
<1>3. IsFiniteSet(1..n) /\ Cardinality(1..n) = n
  BY <1>1, FS_Interval
<1>4. s \in Injection(1..n, S)
  BY <1>2 DEF Injection, IsInjective, Enumerates
<1>5. s \in Surjection(1..n, S)
  BY <1>3, <1>4, FS_Injection
<1>6. ASSUME NEW i \in 1..n, NEW j \in 1..n, <<s[i], s[j]>> \in R PROVE i < j
  <2>1. <<s[i], s[i]>> \notin R /\ (<<s[j], s[i]>> \in R => <<s[i], s[i]>> \in R)
    BY <1>6 DEF IsOrder
  <2>2. i # j /\ ~(j < i)
    BY <1>6, <2>1
  <2> HIDE DEF n
  <2> QED
    BY <1>1, <2>2 DEF n
<1> QED
  BY <1>1, <1>2, <1>5, <1>6 DEF Surjection

(* A finite set in order has a last element.                               *)
LEMMA HasLast ==
  ASSUME NEW S, IsFiniteSet(S), NEW R, IsOrder(R, S), S # {}
  PROVE  \E m \in S : \A x \in S \ {m} : <<x, m>> \in R
<1> DEFINE T == {A \in SUBSET S : A # {} => \E m \in A : \A x \in A \ {m} : <<x, m>> \in R}
<1>1. {} \in T
  OBVIOUS
<1>2. ASSUME NEW A \in SUBSET S, NEW y \in S, A \in T, y \notin A PROVE A \cup {y} \in T
  <2>1. CASE A = {}
    BY <2>1
  <2>2. CASE A # {}
    <3>1. PICK m \in A : \A x \in A \ {m} : <<x, m>> \in R
      BY <1>2, <2>2
    <3>2. CASE <<y, m>> \in R
      BY <3>1, <3>2
    <3>3. CASE <<y, m>> \notin R
      <4>1. <<m, y>> \in R
        BY <1>2, <3>3 DEF IsOrder
      <4>2. \A x \in A : <<x, y>> \in R
        BY <3>1, <4>1 DEF IsOrder
      <4> QED
        BY <4>2
    <3> QED
      BY <3>2, <3>3
  <2> QED
    BY <2>1, <2>2
<1>3. SUBSET S \subseteq T
  <2> HIDE DEF T
  <2> QED BY <1>1, <1>2, Sets
<1> QED
  BY <1>3

(* There is an enumeration: take the last element away and put it behind   *)
(* the enumeration of the others.                                          *)
LEMMA EnumerationExists ==
  ASSUME NEW S, IsFiniteSet(S), NEW R, IsOrder(R, S)
  PROVE  \E s : Enumerates(s, R, S)
<1> DEFINE T == {n \in Nat : \A A \in SUBSET S : Cardinality(A) = n => \E s : Enumerates(s, R, A)}
<1>1. \A A \in SUBSET S : IsFiniteSet(A) /\ Cardinality(A) \in Nat /\ IsOrder(R, A)
  BY FS_Subset, FS_CardinalityType DEF IsOrder
<1>2. 0 \in T
  <2>1. Enumerates([i \in 1..0 |-> i], R, {})
    BY FS_EmptySet DEF Enumerates
  <2> QED
    BY <1>1, <2>1, FS_EmptySet
<1>3. ASSUME NEW n \in Nat, n \in T PROVE n + 1 \in T
  <2> SUFFICES ASSUME NEW A \in SUBSET S, Cardinality(A) = n + 1
               PROVE \E s : Enumerates(s, R, A)
    OBVIOUS
  <2>1. A # {}
    BY FS_EmptySet
  <2>2. PICK m \in A : \A x \in A \ {m} : <<x, m>> \in R
    BY <1>1, <2>1, HasLast
  <2>3. Cardinality(A \ {m}) = n
    BY <1>1, FS_RemoveElement
  <2>4. PICK s : Enumerates(s, R, A \ {m})
    BY <1>3, <2>3
  <2> DEFINE t == [i \in 1..(n + 1) |-> IF i = n + 1 THEN m ELSE s[i]]
  <2>5. \A i \in 1..n : s[i] \in A \ {m}
    BY <2>3, <2>4 DEF Enumerates
  <2>6. \A i, j \in 1..(n + 1) : i < j => <<t[i], t[j]>> \in R
    <3> SUFFICES ASSUME NEW i \in 1..(n + 1), NEW j \in 1..(n + 1), i < j
                 PROVE <<t[i], t[j]>> \in R
      OBVIOUS
    <3>1. CASE j = n + 1
      BY <2>2, <2>5, <3>1
    <3>2. CASE j # n + 1
      <4>1. i \in 1..n /\ j \in 1..n
        BY <3>2
      <4>2. <<s[i], s[j]>> \in R
        BY <2>3, <2>4, <4>1 DEF Enumerates
      <4> QED
        BY <4>1, <4>2
    <3> QED
      BY <3>1, <3>2
  <2>7. Enumerates(t, R, A)
    BY <2>5, <2>6 DEF Enumerates
  <2> QED
    BY <2>7
<1>4. Nat \subseteq T
  <2> HIDE DEF T
  <2> QED BY <1>2, <1>3, Numbers
<1> QED
  BY <1>1, <1>4

-----------------------------------------------------------------------------
(* A fold over a sequence has an intermediate result after every element.  *)
(* FoldLeft is a recursive function on the sets of positions: that there   *)
(* is one is shown from the function F that an element applies.            *)

LEMMA LastPosition ==
  ASSUME NEW n \in Nat, NEW S \in SUBSET (1..n), S # {}
  PROVE  /\ Rs!Max(S) \in S
         /\ \A k \in S : Rs!Max(S) >= k
         /\ n \in S => Rs!Max(S) = n
<1>1. \E x \in S : \A y \in S : x >= y
  <2> DEFINE T == {n - x : x \in S}
  <2>1. \E d \in T : \A e \in T : d <= e
    <3>1. \A x \in S : n - x \in Nat
      OBVIOUS
    <3>2. T \in SUBSET Nat /\ T # {}
      BY <3>1
    <3> HIDE DEF T
    <3> QED BY <3>2, Least
  <2>2. PICK x \in S : \A y \in S : n - x <= n - y
    BY <2>1
  <2> QED
    BY <2>2
<1>2. Rs!Max(S) \in S /\ \A k \in S : Rs!Max(S) >= k
  <2> DEFINE P(x) == x \in S /\ \A y \in S : x >= y
  <2>1. \E x : P(x)
    BY <1>1
  <2>2. P(CHOOSE x : P(x))
    BY <2>1
  <2>3. Rs!Max(S) = CHOOSE x : P(x)
    BY DEF Rs!Max
  <2> QED
    BY <2>2, <2>3
<1>3. n \in S => Rs!Max(S) = n
  <2> Rs!Max(S) \in 1..n
    BY <1>2
  <2> QED
    BY <1>2
<1> QED
  BY <1>2, <1>3

(* g holds the intermediate results of folding n elements from b on, the   *)
(* last position taken last.                                               *)
Folds(g, n, b, F) ==
  \A S \in SUBSET (1..n) :
    g[S] = IF S = {} THEN b ELSE F[<<Rs!Max(S), g[S \ {Rs!Max(S)}]>>]

LEMMA FoldExists ==
  ASSUME NEW n \in Nat, NEW A, NEW b \in A, NEW F \in [(1..n) \X A -> A]
  PROVE  \E g \in [SUBSET (1..n) -> A] : Folds(g, n, b, F)
<1> USE DEF Folds
<1> DEFINE T == {k \in 0..n : \E g \in [SUBSET (1..k) -> A] : Folds(g, k, b, F)}
<1>1. 0 \in T
  <2> DEFINE g == [S \in SUBSET (1..0) |-> b]
  <2>1. g \in [SUBSET (1..0) -> A] /\ Folds(g, 0, b, F)
    OBVIOUS
  <2>2. 0 \in 0..n /\ \E f \in [SUBSET (1..0) -> A] : Folds(f, 0, b, F)
    <3> HIDE DEF g, Folds
    <3> QED BY <2>1
  <2> HIDE DEF g, Folds
  <2> QED
    BY <2>2
<1>2. ASSUME NEW k \in 0..(n - 1), k \in T PROVE k + 1 \in T
  <2>1. PICK g \in [SUBSET (1..k) -> A] : Folds(g, k, b, F)
    BY <1>2
  <2> DEFINE h == [S \in SUBSET (1..(k + 1)) |->
                     IF k + 1 \in S THEN F[<<k + 1, g[S \ {k + 1}]>>] ELSE g[S]]
  <2>2. \A S \in SUBSET (1..(k + 1)) :
          IF k + 1 \in S THEN S \ {k + 1} \in SUBSET (1..k) ELSE S \in SUBSET (1..k)
    OBVIOUS
  <2>3. h \in [SUBSET (1..(k + 1)) -> A]
    <3>1. ASSUME NEW S \in SUBSET (1..(k + 1)) PROVE h[S] \in A
      <4>1. CASE k + 1 \in S
        BY <2>2, <4>1
      <4>2. CASE k + 1 \notin S
        BY <2>2, <4>2
      <4> QED BY <4>1, <4>2
    <3> QED BY <3>1
  <2>4. ASSUME NEW S \in SUBSET (1..(k + 1)), S # {}
        PROVE  h[S] = F[<<Rs!Max(S), h[S \ {Rs!Max(S)}]>>]
    <3>1. CASE k + 1 \in S
      <4>1. Rs!Max(S) = k + 1
        BY <2>4, <3>1, LastPosition
      <4>2. h[S \ {k + 1}] = g[S \ {k + 1}]
        BY <2>2, <3>1
      <4> QED
        BY <3>1, <4>1, <4>2
    <3>2. CASE k + 1 \notin S
      <4>1. S \in SUBSET (1..k)
        BY <2>2, <3>2
      <4>2. S \ {Rs!Max(S)} \in SUBSET (1..k)
        BY <4>1
      <4>3. h[S] = g[S] /\ h[S \ {Rs!Max(S)}] = g[S \ {Rs!Max(S)}]
        BY <3>2, <4>1, <4>2
      <4> QED
        BY <2>1, <2>4, <4>1, <4>3
    <3> QED
      BY <3>1, <3>2
  <2>5. h[{}] = b
    BY <2>1
  <2>6. Folds(h, k + 1, b, F)
    <3> HIDE DEF h
    <3> QED BY <2>4, <2>5
  <2> HIDE DEF h, Folds
  <2> QED
    BY <2>3, <2>6
<1>3. n \in T
  <2>1. 0..n \subseteq T
    <3> HIDE DEF T
    <3> QED BY <1>1, <1>2, UpTo
  <2> n \in 0..n
    OBVIOUS
  <2> HIDE DEF T
  <2> QED BY <2>1
<1> QED
  BY <1>3

-----------------------------------------------------------------------------
(* Results, and the order of a query                                       *)

(* Finitely many results, each with an id of its own.                      *)
Rows(S) ==
  /\ S \subseteq Rs!Row
  /\ IsFiniteSet(S)
  /\ \A a, b \in S : a.id = b.id => a = b

(* The orders of the queries, as relations.  Each is total because the     *)
(* last column compared is the id.                                         *)
Newest(S) == {p \in S \X S : Rs!Newer(p[1], p[2])}
Oldest(S) == {p \in S \X S : Rs!Older(p[1], p[2])}
Fastest(S) == {p \in S \X S : Rs!Faster(p[1], p[2])}

(* What the columns of a row are.                                          *)
LEMMA RowType ==
  ASSUME NEW a \in Rs!Row
  PROVE  /\ a.id \in Nat /\ a.day \in Nat /\ a.time \in Nat /\ a.student \in Nat
         /\ a.id \in Result /\ a.student \in Result /\ a.day \in Day
         /\ a.time \in Time \cup {0}
         /\ a.discipline = "Piscina" => a.course \in PoolCourse
         /\ a.discipline = "Aguas Abertas" => a.course \in WaterCourse
         /\ a.discipline \in Rs!Discipline
<1> DEFINE pool == [id : Result, discipline : {"Piscina"}, student : Result, day : Day,
                    course : PoolCourse, time : Time \cup {0}]
           water == [id : Result, discipline : {"Aguas Abertas"}, student : Result, day : Day,
                     course : WaterCourse, time : {0}]
<1>1. a \in pool \/ a \in water
  BY DEF Rs!Row
<1>2. CASE a \in pool
  <2>1. /\ a.id \in Result /\ a.student \in Result /\ a.day \in Day
        /\ a.time \in Time \cup {0} /\ a.course \in PoolCourse /\ a.discipline = "Piscina"
    BY <1>2
  <2>2. a.id \in Nat /\ a.day \in Nat /\ a.time \in Nat /\ a.student \in Nat
    <3>1. \A x \in Time \cup {0} : x \in Nat
      BY ResultsAssumption
    <3> QED
      BY <2>1, <3>1, ResultsAssumption
  <2>3. a.discipline = "Piscina" => a.course \in PoolCourse
    BY <2>1
  <2>4. a.discipline = "Aguas Abertas" => a.course \in WaterCourse
    BY <2>1
  <2>5. a.discipline \in Rs!Discipline
    BY <2>1 DEF Rs!Discipline
  <2> QED
    BY <2>1, <2>2, <2>3, <2>4, <2>5
<1>3. CASE a \in water
  <2>1. /\ a.id \in Result /\ a.student \in Result /\ a.day \in Day
        /\ a.time \in {0} /\ a.course \in WaterCourse /\ a.discipline = "Aguas Abertas"
    BY <1>3
  <2>2. a.id \in Nat /\ a.day \in Nat /\ a.time \in Nat /\ a.student \in Nat
    <3>1. \A x \in Time \cup {0} : x \in Nat
      BY ResultsAssumption
    <3> QED
      BY <2>1, <3>1, ResultsAssumption
  <2>3. a.discipline = "Piscina" => a.course \in PoolCourse
    BY <2>1
  <2>4. a.discipline = "Aguas Abertas" => a.course \in WaterCourse
    BY <2>1
  <2>5. a.discipline \in Rs!Discipline
    BY <2>1 DEF Rs!Discipline
  <2> QED
    BY <2>1, <2>2, <2>3, <2>4, <2>5
<1> QED
  BY <1>1, <1>2, <1>3

(* Keys of two and of four columns, compared column by column.             *)
LEMMA LessByTwo ==
  ASSUME NEW a \in Nat, NEW b \in Nat, NEW c \in Nat, NEW d \in Nat
  PROVE  Rs!LexLess(<<a, b>>, <<c, d>>) <=> a < c \/ (a = c /\ b < d)
<1> DEFINE u == <<a, b>>  v == <<c, d>>
<1>1. DOMAIN u = {1, 2}
  OBVIOUS
<1>2. 1..(1 - 1) = {} /\ 1..(2 - 1) = {1}
  OBVIOUS
<1> QED
  BY <1>1, <1>2 DEF Rs!LexLess

LEMMA LessByFour ==
  ASSUME NEW u, NEW v, DOMAIN u = {1, 2, 3, 4},
         \A i \in 1..4 : u[i] \in Nat /\ v[i] \in Nat
  PROVE  Rs!LexLess(u, v) <=>
           \/ u[1] < v[1]
           \/ u[1] = v[1] /\ u[2] < v[2]
           \/ u[1] = v[1] /\ u[2] = v[2] /\ u[3] < v[3]
           \/ u[1] = v[1] /\ u[2] = v[2] /\ u[3] = v[3] /\ u[4] < v[4]
<1>1. 1..(1 - 1) = {} /\ 1..(2 - 1) = {1} /\ 1..(3 - 1) = {1, 2} /\ 1..(4 - 1) = {1, 2, 3}
  OBVIOUS
<1> QED
  BY <1>1 DEF Rs!LexLess

LEMMA NewerIs ==
  ASSUME NEW a \in Rs!Row, NEW b \in Rs!Row
  PROVE  /\ Rs!Newer(a, b) <=> a.day > b.day \/ (a.day = b.day /\ a.id > b.id)
         /\ Rs!Older(a, b) <=> a.day < b.day \/ (a.day = b.day /\ a.id < b.id)
<1>1. a.day \in Nat /\ a.id \in Nat /\ b.day \in Nat /\ b.id \in Nat
  BY RowType
<1> QED
  BY <1>1, LessByTwo DEF Rs!Newer, Rs!Older

LEMMA FasterIs ==
  ASSUME NEW a \in Rs!Row, NEW b \in Rs!Row
  PROVE  Rs!Faster(a, b) <=>
           \/ a.time < b.time
           \/ a.time = b.time /\ a.day < b.day
           \/ a.time = b.time /\ a.day = b.day /\ a.student < b.student
           \/ a.time = b.time /\ a.day = b.day /\ a.student = b.student /\ a.id < b.id
<1>1. /\ a.day \in Nat /\ a.id \in Nat /\ a.time \in Nat /\ a.student \in Nat
      /\ b.day \in Nat /\ b.id \in Nat /\ b.time \in Nat /\ b.student \in Nat
  BY RowType
<1> DEFINE u == <<a.time, a.day, a.student, a.id>>
           v == <<b.time, b.day, b.student, b.id>>
<1>2. Rs!Faster(a, b) <=> Rs!LexLess(u, v)
  BY DEF Rs!Faster
<1>3. DOMAIN u = {1, 2, 3, 4} /\ \A i \in 1..4 : u[i] \in Nat /\ v[i] \in Nat
  BY <1>1
<1>4. /\ u[1] = a.time /\ u[2] = a.day /\ u[3] = a.student /\ u[4] = a.id
      /\ v[1] = b.time /\ v[2] = b.day /\ v[3] = b.student /\ v[4] = b.id
  OBVIOUS
<1> HIDE DEF u, v
<1> QED
  BY <1>2, <1>3, <1>4, LessByFour

LEMMA NewestOrder == ASSUME NEW S, Rows(S) PROVE IsOrder(Newest(S), S)
<1>1. \A a, b \in S : <<a, b>> \in Newest(S) <=> a.day > b.day \/ (a.day = b.day /\ a.id > b.id)
  BY NewerIs DEF Newest, Rows
<1>2. \A a \in S : a.day \in Nat /\ a.id \in Nat
  BY RowType DEF Rows
<1>3. \A a, b \in S : a # b => a.id # b.id
  BY DEF Rows
<1> QED
  BY <1>1, <1>2, <1>3 DEF IsOrder

LEMMA OldestOrder == ASSUME NEW S, Rows(S) PROVE IsOrder(Oldest(S), S)
<1>1. \A a, b \in S : <<a, b>> \in Oldest(S) <=> a.day < b.day \/ (a.day = b.day /\ a.id < b.id)
  BY NewerIs DEF Oldest, Rows
<1>2. \A a \in S : a.day \in Nat /\ a.id \in Nat
  BY RowType DEF Rows
<1>3. \A a, b \in S : a # b => a.id # b.id
  BY DEF Rows
<1> QED
  BY <1>1, <1>2, <1>3 DEF IsOrder

LEMMA FastestOrder == ASSUME NEW S, Rows(S) PROVE IsOrder(Fastest(S), S)
<1>1. \A a, b \in S :
        <<a, b>> \in Fastest(S) <=>
           \/ a.time < b.time
           \/ a.time = b.time /\ a.day < b.day
           \/ a.time = b.time /\ a.day = b.day /\ a.student < b.student
           \/ a.time = b.time /\ a.day = b.day /\ a.student = b.student /\ a.id < b.id
  BY FasterIs DEF Fastest, Rows
<1>2. \A a \in S : a.day \in Nat /\ a.id \in Nat /\ a.time \in Nat /\ a.student \in Nat
  BY RowType DEF Rows
<1>3. \A a, b \in S : a # b => a.id # b.id
  BY DEF Rows
<1> QED
  BY <1>1, <1>2, <1>3 DEF IsOrder

(* The count of Results is that of the theorems about finite sets.         *)
LEMMA Counting == ASSUME NEW S PROVE Rs!Cardinality(S) = Cardinality(S)
BY DEF Cardinality, Rs!Cardinality

(* An enumeration is what InOrder chooses.                                 *)
LEMMA Sequences ==
  ASSUME NEW S, IsFiniteSet(S), NEW R, IsOrder(R, S), NEW s
  PROVE  Enumerates(s, R, S) <=>
           s \in Rs!SetToSeqs(S) /\ \A i, j \in DOMAIN s : i < j => <<s[i], s[j]>> \in R
<1>1. ASSUME Enumerates(s, R, S) PROVE s \in Rs!SetToSeqs(S)
  <2>1. s \in [1..Cardinality(S) -> S] /\ \A i, j \in 1..Cardinality(S) : s[i] = s[j] => i = j
    BY <1>1, EnumeratesAll DEF Enumerates
  <2> QED
    BY <2>1, Counting DEF Rs!SetToSeqs
<1> QED
  BY <1>1, Counting DEF Rs!SetToSeqs, Enumerates

LEMMA SortedEnumerates ==
  ASSUME NEW S, Rows(S)
  PROVE  Enumerates(Rs!Sorted(S), Newest(S), S)
<1> DEFINE P(s) == s \in Rs!SetToSeqs(S) /\ \A i, j \in DOMAIN s : i < j => Rs!Newer(s[i], s[j])
<1>1. \A s : Enumerates(s, Newest(S), S) <=> P(s)
  <2>1. \A s : s \in Rs!SetToSeqs(S) => \A i \in DOMAIN s : s[i] \in S
    BY DEF Rs!SetToSeqs
  <2>2. \A a, b \in S : <<a, b>> \in Newest(S) <=> Rs!Newer(a, b)
    BY DEF Newest
  <2> QED
    BY <2>1, <2>2, NewestOrder, Sequences DEF Rows
<1>2. \E s : P(s)
  BY <1>1, NewestOrder, EnumerationExists DEF Rows
<1>3. P(CHOOSE s : P(s))
  BY <1>2
<1>4. Rs!Sorted(S) = CHOOSE s : P(s)
  BY DEF Rs!Sorted, Rs!InOrder
<1> HIDE DEF P
<1> QED
  BY <1>1, <1>3, <1>4

LEMMA ByDateEnumerates ==
  ASSUME NEW S, Rows(S)
  PROVE  Enumerates(Rs!InOrder(S, Rs!Older), Oldest(S), S)
<1> DEFINE P(s) == s \in Rs!SetToSeqs(S) /\ \A i, j \in DOMAIN s : i < j => Rs!Older(s[i], s[j])
<1>1. \A s : Enumerates(s, Oldest(S), S) <=> P(s)
  <2>1. \A s : s \in Rs!SetToSeqs(S) => \A i \in DOMAIN s : s[i] \in S
    BY DEF Rs!SetToSeqs
  <2>2. \A a, b \in S : <<a, b>> \in Oldest(S) <=> Rs!Older(a, b)
    BY DEF Oldest
  <2> QED
    BY <2>1, <2>2, OldestOrder, Sequences DEF Rows
<1>2. \E s : P(s)
  BY <1>1, OldestOrder, EnumerationExists DEF Rows
<1>3. P(CHOOSE s : P(s))
  BY <1>2
<1>4. Rs!InOrder(S, Rs!Older) = CHOOSE s : P(s)
  BY DEF Rs!InOrder
<1> HIDE DEF P
<1> QED
  BY <1>1, <1>3, <1>4

LEMMA FasterEnumerates ==
  ASSUME NEW S, Rows(S)
  PROVE  Enumerates(Rs!InOrder(S, Rs!Faster), Fastest(S), S)
<1> DEFINE P(s) == s \in Rs!SetToSeqs(S) /\ \A i, j \in DOMAIN s : i < j => Rs!Faster(s[i], s[j])
<1>1. \A s : Enumerates(s, Fastest(S), S) <=> P(s)
  <2>1. \A s : s \in Rs!SetToSeqs(S) => \A i \in DOMAIN s : s[i] \in S
    BY DEF Rs!SetToSeqs
  <2>2. \A a, b \in S : <<a, b>> \in Fastest(S) <=> Rs!Faster(a, b)
    BY DEF Fastest
  <2> QED
    BY <2>1, <2>2, FastestOrder, Sequences DEF Rows
<1>2. \E s : P(s)
  BY <1>1, FastestOrder, EnumerationExists DEF Rows
<1>3. P(CHOOSE s : P(s))
  BY <1>2
<1>4. Rs!InOrder(S, Rs!Faster) = CHOOSE s : P(s)
  BY DEF Rs!InOrder
<1> HIDE DEF P
<1> QED
  BY <1>1, <1>3, <1>4

-----------------------------------------------------------------------------
(* The first result of each student, or of each course, in a sequence      *)

(* The positions up to k, and their last.                                  *)
LEMMA Prefixes ==
  ASSUME NEW n \in Nat
  PROVE  /\ \A k \in 1..n : /\ 1..k \in SUBSET (1..n) /\ 1..k # {}
                            /\ Rs!Max(1..k) = k /\ (1..k) \ {k} = 1..(k - 1)
         /\ 1..0 = {} /\ {} \in SUBSET (1..n)
<1>1. ASSUME NEW k \in 1..n PROVE Rs!Max(1..k) = k
  <2>1. k \in Nat /\ k \in 1..k /\ 1..k \in SUBSET (1..k) /\ 1..k # {}
    OBVIOUS
  <2> QED
    BY <2>1, LastPosition
<1> QED
  BY <1>1

(* What FirstOfEach does with one more element.                            *)
Add(acc, a, field) ==
  IF \E i \in DOMAIN acc : acc[i][field] = a[field] THEN acc ELSE Append(acc, a)

AddsUp(g, s, field) ==
  g = [S \in SUBSET DOMAIN s |->
         IF S = {} THEN <<>> ELSE Add(g[S \ {Rs!Max(S)}], s[Rs!Max(S)], field)]

LEMMA FirstOfEachIs ==
  ASSUME NEW s, NEW field, \E g : AddsUp(g, s, field)
  PROVE  \E g : AddsUp(g, s, field) /\ Rs!FirstOfEach(s, field) = g[DOMAIN s]
BY DEF Rs!FirstOfEach, Rs!FoldLeft, Rs!MapThenFoldSet, AddsUp, Add

(* h[k] is the intermediate result after k elements.                       *)
AddsSteps(h, n, s, field) ==
  /\ h[0] = <<>>
  /\ \A k \in 1..n : h[k] = Add(h[k - 1], s[k], field)

LEMMA FirstOfEachSteps ==
  ASSUME NEW n \in Nat, NEW A, NEW s \in [1..n -> A], NEW field
  PROVE  \E h : AddsSteps(h, n, s, field) /\ Rs!FirstOfEach(s, field) = h[n]
<1> DEFINE F == [p \in (1..n) \X Seq(A) |-> Add(p[2], s[p[1]], field)]
<1>1. \A k \in 1..n, acc \in Seq(A) :
        F[<<k, acc>>] = Add(acc, s[k], field) /\ F[<<k, acc>>] \in Seq(A)
  BY DEF Add
<1>2. F \in [(1..n) \X Seq(A) -> Seq(A)]
  <2>1. ASSUME NEW p \in (1..n) \X Seq(A) PROVE F[p] \in Seq(A)
    <3>1. PICK k \in 1..n, acc \in Seq(A) : p = <<k, acc>>
      OBVIOUS
    <3> QED
      BY <1>1, <3>1
  <2> QED
    BY <2>1
<1> HIDE DEF F
<1>3. PICK g \in [SUBSET (1..n) -> Seq(A)] : Folds(g, n, <<>>, F)
  BY <1>2, FoldExists, <<>> \in Seq(A)
<1>4. \A S \in SUBSET (1..n) :
        g[S] = IF S = {} THEN <<>> ELSE Add(g[S \ {Rs!Max(S)}], s[Rs!Max(S)], field)
  <2> SUFFICES ASSUME NEW S \in SUBSET (1..n), S # {}
               PROVE  g[S] = Add(g[S \ {Rs!Max(S)}], s[Rs!Max(S)], field)
    BY <1>3 DEF Folds
  <2>1. Rs!Max(S) \in 1..n /\ g[S \ {Rs!Max(S)}] \in Seq(A)
    BY LastPosition
  <2> QED
    BY <1>1, <1>3, <2>1 DEF Folds
<1>5. AddsUp(g, s, field)
  BY <1>4 DEF AddsUp
<1>6. PICK f : AddsUp(f, s, field) /\ Rs!FirstOfEach(s, field) = f[1..n]
  BY <1>5, FirstOfEachIs
<1>7. \A S \in SUBSET (1..n) :
        f[S] = IF S = {} THEN <<>> ELSE Add(f[S \ {Rs!Max(S)}], s[Rs!Max(S)], field)
  <2>1. f = [S \in SUBSET (1..n) |->
               IF S = {} THEN <<>> ELSE Add(f[S \ {Rs!Max(S)}], s[Rs!Max(S)], field)]
    BY <1>6 DEF AddsUp
  <2> QED
    BY <2>1
<1> DEFINE h == [k \in 0..n |-> f[1..k]]
<1>8. h[0] = <<>>
  <2>1. h[0] = f[1..0]
    OBVIOUS
  <2> QED
    BY <1>7, <2>1, Prefixes
<1>9. ASSUME NEW k \in 1..n PROVE h[k] = Add(h[k - 1], s[k], field)
  <2>1. k \in 0..n /\ k - 1 \in 0..n
    OBVIOUS
  <2>2. h[k] = f[1..k] /\ h[k - 1] = f[1..(k - 1)]
    BY <2>1
  <2> HIDE DEF h
  <2>3. f[1..k] = Add(f[(1..k) \ {Rs!Max(1..k)}], s[Rs!Max(1..k)], field)
    BY <1>7, Prefixes
  <2> QED
    BY <2>2, <2>3, Prefixes
<1>10. Rs!FirstOfEach(s, field) = h[n]
  BY <1>6
<1> HIDE DEF h
<1> QED
  BY <1>8, <1>9, <1>10 DEF AddsSteps

(* b consists of the first, in the order R, of those among the first k     *)
(* elements of s that agree on the field.                                  *)
Firsts(b, s, k, R, field) ==
  /\ \A i \in DOMAIN b : \E p \in 1..k : b[i] = s[p]
  /\ \A i, j \in DOMAIN b : i < j => <<b[i], b[j]>> \in R
  /\ \A i, j \in DOMAIN b : b[i][field] = b[j][field] => i = j
  /\ \A p \in 1..k : \E i \in DOMAIN b :
       b[i][field] = s[p][field] /\ (b[i] = s[p] \/ <<b[i], s[p]>> \in R)

(* One more element keeps the firsts of all read so far.                   *)
LEMMA AddFirst ==
  ASSUME NEW n \in Nat, NEW S, NEW R, NEW field, NEW s \in [1..n -> S],
         \A i, j \in 1..n : i < j => <<s[i], s[j]>> \in R,
         NEW k \in 0..(n - 1), NEW b \in Seq(S), Firsts(b, s, k, R, field)
  PROVE  /\ Add(b, s[k + 1], field) \in Seq(S)
         /\ Firsts(Add(b, s[k + 1], field), s, k + 1, R, field)
<1> DEFINE x == s[k + 1]
<1>1. x \in S /\ \A p \in 1..k : p \in 1..n /\ <<s[p], x>> \in R
  OBVIOUS
<1>2. CASE \E i \in DOMAIN b : b[i][field] = x[field]
  <2>1. Add(b, x, field) = b
    BY <1>2 DEF Add
  <2>2. PICK i \in DOMAIN b : b[i][field] = x[field]
    BY <1>2
  <2>3. <<b[i], x>> \in R
    BY <1>1, <2>2 DEF Firsts
  <2>4. \A p \in 1..(k + 1) : p \in 1..k \/ p = k + 1
    OBVIOUS
  <2>5. \A p \in 1..(k + 1) : \E j \in DOMAIN b :
          b[j][field] = s[p][field] /\ (b[j] = s[p] \/ <<b[j], s[p]>> \in R)
    BY <2>2, <2>3, <2>4 DEF Firsts
  <2>6. \A j \in DOMAIN b : \E p \in 1..(k + 1) : b[j] = s[p]
    <3>1. \A p \in 1..k : p \in 1..(k + 1)
      OBVIOUS
    <3> QED BY <3>1 DEF Firsts
  <2>7. Firsts(b, s, k + 1, R, field)
    BY <2>5, <2>6 DEF Firsts
  <2> QED
    BY <2>1, <2>7
<1>3. CASE ~\E i \in DOMAIN b : b[i][field] = x[field]
  <2> DEFINE c == Append(b, x)
             m == Len(b)
  <2>1. Add(b, x, field) = c
    BY <1>3 DEF Add
  <2>2. /\ m \in Nat /\ DOMAIN b = 1..m /\ DOMAIN c = 1..(m + 1) /\ c \in Seq(S)
        /\ c[m + 1] = x /\ \A i \in 1..m : c[i] = b[i]
    BY <1>1
  <2> HIDE DEF c, m, x
  <2>3. \A i \in DOMAIN c : i \in DOMAIN b \/ i = m + 1
    BY <2>2
  <2>4. \A i \in DOMAIN b : i \in DOMAIN c /\ c[i] = b[i] /\ i < m + 1
    BY <2>2
  <2>5. \A i \in DOMAIN c : \E p \in 1..(k + 1) : c[i] = s[p]
    <3>1. \A p \in 1..k : p \in 1..(k + 1)
      OBVIOUS
    <3>2. k + 1 \in 1..(k + 1)
      OBVIOUS
    <3> QED
      BY <2>2, <2>3, <2>4, <3>1, <3>2 DEF Firsts, x
  <2>6. \A i \in DOMAIN b : <<b[i], x>> \in R
    BY <1>1 DEF Firsts
  <2>7. ASSUME NEW i \in DOMAIN c, NEW j \in DOMAIN c, i < j PROVE <<c[i], c[j]>> \in R
    <3>1. i \in DOMAIN b
      BY <2>2, <2>7
    <3>2. CASE j = m + 1
      BY <2>2, <2>4, <2>6, <3>1, <3>2
    <3>3. CASE j \in DOMAIN b
      BY <2>4, <2>7, <3>1, <3>3 DEF Firsts
    <3> QED
      BY <2>3, <3>2, <3>3
  <2>8. ASSUME NEW i \in DOMAIN c, NEW j \in DOMAIN c, c[i][field] = c[j][field] PROVE i = j
    <3>1. \A q \in DOMAIN b : c[q][field] # x[field]
      BY <1>3, <2>4
    <3> QED
      BY <2>2, <2>3, <2>4, <2>8, <3>1 DEF Firsts
  <2>9. ASSUME NEW p \in 1..(k + 1)
        PROVE  \E i \in DOMAIN c :
                 c[i][field] = s[p][field] /\ (c[i] = s[p] \/ <<c[i], s[p]>> \in R)
    <3>1. CASE p = k + 1
      <4>1. m + 1 \in DOMAIN c /\ c[m + 1] = s[p]
        BY <2>2, <3>1 DEF x
      <4> QED
        BY <4>1
    <3>2. CASE p # k + 1
      <4>1. p \in 1..k
        BY <3>2
      <4>2. PICK i \in DOMAIN b :
              b[i][field] = s[p][field] /\ (b[i] = s[p] \/ <<b[i], s[p]>> \in R)
        BY <4>1 DEF Firsts
      <4> QED
        BY <2>4, <4>2
    <3> QED
      BY <3>1, <3>2
  <2> QED
    BY <2>1, <2>2, <2>5, <2>7, <2>8, <2>9 DEF Firsts, x
<1> QED
  BY <1>2, <1>3

(* FirstOfEach keeps of each student, or course, what comes first.         *)
LEMMA FirstOfEachFirsts ==
  ASSUME NEW n \in Nat, NEW S, NEW R, NEW field, NEW s \in [1..n -> S],
         \A i, j \in 1..n : i < j => <<s[i], s[j]>> \in R
  PROVE  /\ Rs!FirstOfEach(s, field) \in Seq(S)
         /\ Firsts(Rs!FirstOfEach(s, field), s, n, R, field)
<1>1. PICK h : AddsSteps(h, n, s, field) /\ Rs!FirstOfEach(s, field) = h[n]
  BY FirstOfEachSteps
<1> DEFINE T == {k \in 0..n : h[k] \in Seq(S) /\ Firsts(h[k], s, k, R, field)}
<1>2. 0 \in T
  <2>1. <<>> \in Seq(S) /\ Firsts(<<>>, s, 0, R, field)
    BY DEF Firsts
  <2>2. h[0] = <<>> /\ 0 \in 0..n
    BY <1>1 DEF AddsSteps
  <2> QED
    BY <2>1, <2>2
<1>3. ASSUME NEW k \in 0..(n - 1), k \in T PROVE k + 1 \in T
  <2>1. h[k + 1] = Add(h[k], s[k + 1], field)
    <3>1. k + 1 \in 1..n /\ (k + 1) - 1 = k
      OBVIOUS
    <3> QED BY <1>1, <3>1 DEF AddsSteps
  <2>2. h[k + 1] \in Seq(S) /\ Firsts(h[k + 1], s, k + 1, R, field)
    BY <1>3, <2>1, AddFirst
  <2> QED
    BY <2>2
<1>4. n \in T
  <2>1. 0..n \subseteq T
    <3> HIDE DEF T
    <3> QED BY <1>2, <1>3, UpTo
  <2> n \in 0..n
    OBVIOUS
  <2> HIDE DEF T
  <2> QED BY <2>1
<1> QED
  BY <1>1, <1>4

-----------------------------------------------------------------------------
(* The ranks of results in the order of their times                        *)

(* What Ranks does with one more result.                                   *)
AddRank(acc, a, best) ==
  Append(acc, IF acc # <<>> /\ a.time = best[Len(acc)].time THEN Rs!Last(acc)
              ELSE Len(acc) + 1)

RanksUp(g, best) ==
  g = [S \in SUBSET DOMAIN best |->
         IF S = {} THEN <<>> ELSE AddRank(g[S \ {Rs!Max(S)}], best[Rs!Max(S)], best)]

RanksSteps(h, n, best) ==
  /\ h[0] = <<>>
  /\ \A k \in 1..n : h[k] = AddRank(h[k - 1], best[k], best)

LEMMA RanksIs ==
  ASSUME NEW best, \E g : RanksUp(g, best)
  PROVE  \E g : RanksUp(g, best) /\ Rs!Ranks(best) = g[DOMAIN best]
BY DEF Rs!Ranks, Rs!FoldLeft, Rs!MapThenFoldSet, RanksUp, AddRank

LEMMA RanksHasSteps ==
  ASSUME NEW n \in Nat, NEW best, DOMAIN best = 1..n
  PROVE  \E h : RanksSteps(h, n, best) /\ Rs!Ranks(best) = h[n]
<1> DEFINE F == [p \in (1..n) \X Seq(Nat) |->
                   IF AddRank(p[2], best[p[1]], best) \in Seq(Nat)
                   THEN AddRank(p[2], best[p[1]], best) ELSE <<>>]
<1>1. \A k \in 1..n, acc \in Seq(Nat) : AddRank(acc, best[k], best) \in Seq(Nat)
  <2> SUFFICES ASSUME NEW k \in 1..n, NEW acc \in Seq(Nat)
               PROVE  AddRank(acc, best[k], best) \in Seq(Nat)
    OBVIOUS
  <2>1. acc # <<>> => Rs!Last(acc) \in Nat
    BY DEF Rs!Last
  <2> DEFINE r == IF acc # <<>> /\ best[k].time = best[Len(acc)].time THEN Rs!Last(acc)
                  ELSE Len(acc) + 1
  <2>2. r \in Nat
    BY <2>1
  <2>3. AddRank(acc, best[k], best) = Append(acc, r)
    BY DEF AddRank
  <2> HIDE DEF r
  <2> QED
    BY <2>2, <2>3
<1>2. F \in [(1..n) \X Seq(Nat) -> Seq(Nat)]
  OBVIOUS
<1>3. \A k \in 1..n, acc \in Seq(Nat) : F[<<k, acc>>] = AddRank(acc, best[k], best)
  BY <1>1
<1> HIDE DEF F
<1>4. PICK g \in [SUBSET (1..n) -> Seq(Nat)] : Folds(g, n, <<>>, F)
  BY <1>2, FoldExists, <<>> \in Seq(Nat)
<1>5. \A S \in SUBSET (1..n) :
        g[S] = IF S = {} THEN <<>> ELSE AddRank(g[S \ {Rs!Max(S)}], best[Rs!Max(S)], best)
  <2> SUFFICES ASSUME NEW S \in SUBSET (1..n), S # {}
               PROVE  g[S] = AddRank(g[S \ {Rs!Max(S)}], best[Rs!Max(S)], best)
    BY <1>4 DEF Folds
  <2>1. Rs!Max(S) \in 1..n /\ g[S \ {Rs!Max(S)}] \in Seq(Nat)
    BY LastPosition
  <2> QED
    BY <1>3, <1>4, <2>1 DEF Folds
<1>6. RanksUp(g, best)
  BY <1>5 DEF RanksUp
<1>7. PICK f : RanksUp(f, best) /\ Rs!Ranks(best) = f[1..n]
  BY <1>6, RanksIs
<1>8. \A S \in SUBSET (1..n) :
        f[S] = IF S = {} THEN <<>> ELSE AddRank(f[S \ {Rs!Max(S)}], best[Rs!Max(S)], best)
  <2>1. f = [S \in SUBSET (1..n) |->
               IF S = {} THEN <<>> ELSE AddRank(f[S \ {Rs!Max(S)}], best[Rs!Max(S)], best)]
    BY <1>7 DEF RanksUp
  <2> QED
    BY <2>1
<1> DEFINE h == [k \in 0..n |-> f[1..k]]
<1>9. h[0] = <<>>
  <2>1. h[0] = f[1..0]
    OBVIOUS
  <2> QED
    BY <1>8, <2>1, Prefixes
<1>10. ASSUME NEW k \in 1..n PROVE h[k] = AddRank(h[k - 1], best[k], best)
  <2>1. k \in 0..n /\ k - 1 \in 0..n
    OBVIOUS
  <2>2. h[k] = f[1..k] /\ h[k - 1] = f[1..(k - 1)]
    BY <2>1
  <2> HIDE DEF h
  <2>3. f[1..k] = AddRank(f[(1..k) \ {Rs!Max(1..k)}], best[Rs!Max(1..k)], best)
    BY <1>8, Prefixes
  <2> QED
    BY <2>2, <2>3, Prefixes
<1>11. Rs!Ranks(best) = h[n]
  BY <1>7
<1> HIDE DEF h
<1> QED
  BY <1>9, <1>10, <1>11 DEF RanksSteps

(* Every rank is the first position with that time.                        *)
Ranked(ranks, k, best) ==
  /\ ranks \in Seq(Nat) /\ Len(ranks) = k
  /\ \A i \in 1..k :
       /\ ranks[i] \in 1..i
       /\ best[ranks[i]].time = best[i].time
       /\ \A j \in 1..i : best[j].time = best[i].time => ranks[i] <= j

(* The rank is the first position with the same time.                      *)
LEMMA RanksAreFirst ==
  ASSUME NEW n \in Nat, NEW best, DOMAIN best = 1..n,
         \A i \in 1..n : best[i].time \in Nat,
         \A i, j \in 1..n : i < j => best[i].time <= best[j].time
  PROVE  Ranked(Rs!Ranks(best), n, best)
<1>1. PICK h : RanksSteps(h, n, best) /\ Rs!Ranks(best) = h[n]
  BY RanksHasSteps
<1> DEFINE T == {k \in 0..n : Ranked(h[k], k, best)}
<1>2. 0 \in T
  <2>1. h[0] = <<>> /\ 0 \in 0..n
    BY <1>1 DEF RanksSteps
  <2>2. Ranked(<<>>, 0, best)
    BY DEF Ranked
  <2> QED
    BY <2>1, <2>2
<1>3. ASSUME NEW k \in 0..(n - 1), k \in T PROVE k + 1 \in T
  <2> DEFINE a == h[k]
             x == best[k + 1]
             r == IF a # <<>> /\ x.time = best[Len(a)].time THEN Rs!Last(a) ELSE Len(a) + 1
             c == h[k + 1]
  <2>1. Ranked(a, k, best)
    BY <1>3
  <2>2. c = Append(a, r)
    <3>1. k + 1 \in 1..n /\ (k + 1) - 1 = k
      OBVIOUS
    <3> QED
      BY <1>1, <3>1 DEF RanksSteps, AddRank
  <2>3. a \in Seq(Nat) /\ Len(a) = k /\ (a # <<>> <=> k # 0)
    BY <2>1 DEF Ranked
  <2> HIDE DEF a, c
  <2>4. /\ r \in 1..(k + 1)
        /\ best[r].time = x.time
        /\ \A j \in 1..(k + 1) : best[j].time = x.time => r <= j
    <3>1. CASE k # 0 /\ x.time = best[k].time
      <4>1. r = a[k] /\ k \in 1..k
        BY <2>3, <3>1 DEF Rs!Last
      <4>2. /\ r \in 1..k
            /\ best[r].time = x.time
            /\ \A j \in 1..k : best[j].time = x.time => r <= j
        BY <2>1, <3>1, <4>1 DEF Ranked
      <4> HIDE DEF r
      <4> QED
        BY <4>2
    <3>2. CASE ~(k # 0 /\ x.time = best[k].time)
      <4>1. r = k + 1
        BY <2>3, <3>2
      <4>2. ASSUME NEW j \in 1..k PROVE best[j].time # x.time
        <5>1. k \in 1..n /\ j \in 1..n /\ k + 1 \in 1..n /\ k # 0
          OBVIOUS
        <5>2. best[j].time <= best[k].time
          <6>1. CASE j = k
            BY <5>1, <6>1
          <6>2. CASE j < k
            BY <5>1, <6>2
          <6> QED BY <6>1, <6>2
        <5>3. best[k].time <= x.time /\ best[k].time # x.time
          BY <3>2, <5>1
        <5> QED
          BY <5>1, <5>2, <5>3
      <4> HIDE DEF r
      <4>3. \A j \in 1..(k + 1) : j \in 1..k \/ j = k + 1
        OBVIOUS
      <4> QED
        BY <4>1, <4>2, <4>3
    <3> QED
      BY <3>1, <3>2
  <2> HIDE DEF r
  <2>5. /\ c \in Seq(Nat) /\ Len(c) = k + 1 /\ c[k + 1] = r
        /\ \A i \in 1..k : c[i] = a[i]
    BY <2>2, <2>3, <2>4
  <2>6. \A i \in 1..(k + 1) :
          /\ c[i] \in 1..i
          /\ best[c[i]].time = best[i].time
          /\ \A j \in 1..i : best[j].time = best[i].time => c[i] <= j
    <3> SUFFICES ASSUME NEW i \in 1..(k + 1)
                 PROVE  /\ c[i] \in 1..i
                        /\ best[c[i]].time = best[i].time
                        /\ \A j \in 1..i : best[j].time = best[i].time => c[i] <= j
      OBVIOUS
    <3>1. CASE i = k + 1
      BY <2>4, <2>5, <3>1
    <3>2. CASE i # k + 1
      <4>1. i \in 1..k
        BY <3>2
      <4> QED
        BY <2>1, <2>5, <4>1 DEF Ranked
    <3> QED
      BY <3>1, <3>2
  <2>7. Ranked(c, k + 1, best)
    BY <2>5, <2>6 DEF Ranked
  <2> QED
    BY <2>7 DEF c
<1>4. n \in T
  <2>1. 0..n \subseteq T
    <3> HIDE DEF T
    <3> QED BY <1>2, <1>3, UpTo
  <2> n \in 0..n
    OBVIOUS
  <2> HIDE DEF T
  <2> QED BY <2>1
<1> QED
  BY <1>1, <1>4

-----------------------------------------------------------------------------
(* The ranking of a course                                                 *)

(* Candidates without the filters they are asked for with.                 *)
LEMMA CandidatesAre ==
  ASSUME NEW c
  PROVE  Rs!Candidates(c) =
           {a \in results : a.discipline = "Piscina" /\ a.course = c /\ a.time > 0}
<1> DEFINE q == [discipline |-> {"Piscina"}, competitionType |-> {}, course |-> {c}]
<1>1. q.discipline \cup q.competitionType = {"Piscina"} /\ q.course = {c}
  OBVIOUS
<1>2. Rs!Cardinality(q.discipline \cup q.competitionType) = 1
  BY <1>1, Counting, FS_Singleton
<1>3. Rs!Where(q, "Piscina") =
        {a \in results : a.discipline = "Piscina" /\ q.course \in {{}, {a.course}}}
  BY <1>1, <1>2 DEF Rs!Where
<1>4. Rs!Candidates(c) = {a \in Rs!Where(q, "Piscina") : a.time > 0}
  BY DEF Rs!Candidates
<1>5. \A a : q.course \in {{}, {a.course}} <=> a.course = c
  BY <1>1
<1> HIDE DEF q
<1> QED
  BY <1>3, <1>4, <1>5

(* Some of the rows of a table are a table.                                *)
LEMMA PartOfRows ==
  ASSUME NEW S, Rows(S), NEW T \in SUBSET S
  PROVE  Rows(T)
BY FS_Subset DEF Rows

(* The results that a ranking lists, in its order.                         *)
Best(c) == Rs!FirstOfEach(Rs!InOrder(Rs!Candidates(c), Rs!Faster), "student")

LEMMA BestResults ==
  ASSUME Rows(results), NEW c
  PROVE  \E m \in Nat :
           /\ Best(c) \in [1..m -> Rs!Candidates(c)]
           /\ \A i, j \in 1..m : i < j => Best(c)[i].time <= Best(c)[j].time
           /\ \A i, j \in 1..m : Best(c)[i].student = Best(c)[j].student => i = j
           /\ \A a \in Rs!Candidates(c) : \E i \in 1..m :
                Best(c)[i].student = a.student /\ Best(c)[i].time <= a.time
<1> DEFINE C == Rs!Candidates(c)
           R == Fastest(C)
           s == Rs!InOrder(C, Rs!Faster)
           n == Cardinality(C)
           b == Best(c)
<1>1. Rows(C)
  BY CandidatesAre, PartOfRows
<1>2. Enumerates(s, R, C)
  BY <1>1, FasterEnumerates
<1>3. /\ n \in Nat /\ s \in [1..n -> C]
      /\ \A i, j \in 1..n : i < j => <<s[i], s[j]>> \in R
      /\ \A x \in C : \E i \in 1..n : s[i] = x
  <2>1. IsFiniteSet(C) /\ IsOrder(R, C)
    BY <1>1, FastestOrder DEF Rows
  <2> HIDE DEF C, R, s
  <2> QED
    BY <1>2, <2>1, EnumeratesAll DEF Enumerates
<1>4. \A x, y : <<x, y>> \in R => x \in C /\ y \in C /\ x.time <= y.time
  <2> SUFFICES ASSUME NEW x, NEW y, <<x, y>> \in R
               PROVE  x \in C /\ y \in C /\ x.time <= y.time
    OBVIOUS
  <2>1. x \in C /\ y \in C /\ Rs!Faster(x, y)
    BY DEF Fastest
  <2>2. x \in Rs!Row /\ y \in Rs!Row
    BY <1>1, <2>1 DEF Rows
  <2>3. x.time \in Nat /\ y.time \in Nat
    BY <2>2, RowType
  <2> QED
    BY <2>1, <2>2, <2>3, FasterIs
<1>5. \A x \in C : x.time \in Nat
  BY <1>1, RowType DEF Rows
<1> HIDE DEF C, R, s, n
<1>6. b \in Seq(C) /\ Firsts(b, s, n, R, "student")
  BY <1>3, FirstOfEachFirsts DEF Best, C, s
<1> HIDE DEF b
<1> DEFINE m == Len(b)
<1>7. m \in Nat /\ b \in [1..m -> C] /\ DOMAIN b = 1..m
  BY <1>6
<1> HIDE DEF m
<1>8. \A i, j \in 1..m : i < j => b[i].time <= b[j].time
  BY <1>4, <1>6, <1>7 DEF Firsts
<1>9. \A i, j \in 1..m : b[i]["student"] = b[j]["student"] => i = j
  BY <1>6, <1>7 DEF Firsts
<1>10. ASSUME NEW a \in C
       PROVE  \E i \in 1..m : b[i].student = a.student /\ b[i].time <= a.time
  <2>1. PICK p \in 1..n : s[p] = a
    BY <1>3
  <2>2. PICK i \in 1..m : b[i]["student"] = a["student"] /\ (b[i] = a \/ <<b[i], a>> \in R)
    BY <1>6, <1>7, <2>1 DEF Firsts
  <2>3. b[i].time <= a.time
    BY <1>4, <1>5, <2>2
  <2> QED
    BY <2>2, <2>3
<1> QED
  BY <1>7, <1>8, <1>9, <1>10 DEF b, C

(* As many elements as positions, if every element has one position.       *)
LEMMA CountPositions ==
  ASSUME NEW n \in Nat, NEW f, NEW S,
         \A i \in 1..n : f[i] \in S,
         \A x \in S : \E i \in 1..n : f[i] = x,
         \A i, j \in 1..n : f[i] = f[j] => i = j
  PROVE  IsFiniteSet(S) /\ Cardinality(S) = n
<1> DEFINE g == [i \in 1..n |-> f[i]]
<1>1. g \in Bijection(1..n, S)
  BY DEF Bijection, Injection, Surjection, IsInjective
<1>2. ExistsBijection(1..n, S)
  BY <1>1 DEF ExistsBijection
<1> QED
  BY <1>2, FS_CountingElements, FS_NatBijection

(* The times of a student, who has one, and which is the best.             *)
Times(c, s) == {a.time : a \in {b \in Rs!Candidates(c) : b.student = s}}
Timed(c) == {s \in Result : Times(c, s) # {}}
BestTimes(c) ==
  [s \in Timed(c) |-> CHOOSE t \in Times(c, s) : \A u \in Times(c, s) : t <= u]

(* The place i of the ranking has the best time of its student.            *)
LEMMA BestIsFastest ==
  ASSUME Rows(results), NEW c, NEW m \in Nat,
         Best(c) \in [1..m -> Rs!Candidates(c)],
         \A i, j \in 1..m : Best(c)[i].student = Best(c)[j].student => i = j,
         \A a \in Rs!Candidates(c) : \E i \in 1..m :
           Best(c)[i].student = a.student /\ Best(c)[i].time <= a.time
  PROVE  /\ \A i \in 1..m : /\ Best(c)[i].student \in Timed(c)
                            /\ BestTimes(c)[Best(c)[i].student] = Best(c)[i].time
                            /\ Best(c)[i].time \in Nat
         /\ \A s \in Timed(c) : \E i \in 1..m : Best(c)[i].student = s
<1> DEFINE b == Best(c)
           C == Rs!Candidates(c)
<1>1. \A a \in C : a.time \in Nat /\ a.student \in Result
  BY CandidatesAre, RowType DEF Rows
<1> HIDE DEF b, C
<1>2. \A a \in C : a.student \in Timed(c) /\ a.time \in Times(c, a.student)
  BY <1>1 DEF Timed, Times, C
<1>3. ASSUME NEW i \in 1..m PROVE BestTimes(c)[b[i].student] = b[i].time
  <2> DEFINE s == b[i].student
             M == Times(c, s)
  <2>1. b[i] \in C /\ s \in Timed(c) /\ b[i].time \in M
    BY <1>2 DEF b, C
  <2>2. ASSUME NEW u \in M PROVE u \in Nat /\ b[i].time <= u
    <3>1. PICK a \in C : a.student = s /\ u = a.time
      BY DEF Times, C
    <3>2. PICK j \in 1..m : b[j].student = s /\ b[j].time <= u
      BY <3>1 DEF b, C
    <3>3. j = i
      BY <3>2 DEF b
    <3> QED
      BY <1>1, <3>1, <3>2, <3>3
  <2>3. BestTimes(c)[s] = CHOOSE t \in M : \A u \in M : t <= u
    BY <2>1 DEF BestTimes
  <2>4. b[i].time \in Nat
    BY <1>1, <2>1
  <2> HIDE DEF M, s
  <2>5. \A t \in M : (\A u \in M : t <= u) => t = b[i].time
    BY <2>1, <2>2, <2>4
  <2> DEFINE P(t) == t \in M /\ \A u \in M : t <= u
  <2>6. P(b[i].time)
    BY <2>1, <2>2
  <2>7. P(CHOOSE t : P(t))
    BY <2>6
  <2>8. (CHOOSE t \in M : \A u \in M : t <= u) = CHOOSE t : P(t)
    OBVIOUS
  <2> QED
    BY <2>3, <2>5, <2>7, <2>8 DEF s
<1>4. ASSUME NEW s \in Timed(c) PROVE \E i \in 1..m : b[i].student = s
  <2>1. PICK a \in C : a.student = s
    BY DEF Timed, Times, C
  <2> QED
    BY <2>1 DEF b, C
<1> QED
  BY <1>1, <1>2, <1>3, <1>4 DEF b, C

(* The ranking is the set that the standard asks for.                      *)
LEMMA RankingHolds ==
  ASSUME Rows(results), NEW c \in PoolCourse
  PROVE  Rs!Ranking(c) =
           {[student |-> s, time |-> BestTimes(c)[s],
             rank |-> 1 + Cardinality({o \in Timed(c) : BestTimes(c)[o] < BestTimes(c)[s]})] :
              s \in Timed(c)}
<1> DEFINE b == Best(c)
           ranks == Rs!Ranks(b)
           place(s) ==
             [student |-> s, time |-> BestTimes(c)[s],
              rank |-> 1 + Cardinality({o \in Timed(c) : BestTimes(c)[o] < BestTimes(c)[s]})]
           entry(i) == [student |-> b[i].student, time |-> b[i].time, rank |-> ranks[i]]
<1>1. PICK m \in Nat :
        /\ b \in [1..m -> Rs!Candidates(c)]
        /\ \A i, j \in 1..m : i < j => b[i].time <= b[j].time
        /\ \A i, j \in 1..m : b[i].student = b[j].student => i = j
        /\ \A a \in Rs!Candidates(c) : \E i \in 1..m :
             b[i].student = a.student /\ b[i].time <= a.time
  BY BestResults
<1>2. /\ \A i \in 1..m : /\ b[i].student \in Timed(c)
                         /\ BestTimes(c)[b[i].student] = b[i].time
                         /\ b[i].time \in Nat
      /\ \A s \in Timed(c) : \E i \in 1..m : b[i].student = s
  BY <1>1, BestIsFastest
<1> HIDE DEF b
<1>3. Ranked(ranks, m, b)
  <2>1. DOMAIN b = 1..m
    BY <1>1
  <2> QED
    BY <1>1, <1>2, <2>1, RanksAreFirst
<1>4. Rs!Ranking(c) = {entry(i) : i \in 1..m}
  <2>1. DOMAIN b = 1..m
    BY <1>1
  <2> QED
    BY <2>1 DEF Rs!Ranking, b, Best
<1>5. ASSUME NEW i \in 1..m PROVE entry(i) = place(b[i].student)
  <2> DEFINE r == ranks[i]
             S == {o \in Timed(c) : BestTimes(c)[o] < b[i].time}
             f == [j \in 1..m |-> b[j].student]
  <2>1. /\ r \in 1..i /\ b[r].time = b[i].time
        /\ \A j \in 1..i : b[j].time = b[i].time => r <= j
    BY <1>3 DEF Ranked
  <2> HIDE DEF ranks, r
  <2>2. ASSUME NEW j \in 1..m PROVE b[j].time < b[i].time <=> j < r
    <3>1. CASE j < r
      <4>1. j \in 1..i /\ b[j].time # b[i].time /\ r \in 1..m
        BY <2>1, <3>1
      <4>2. b[j].time <= b[r].time
        BY <1>1, <3>1, <4>1
      <4> QED
        BY <1>2, <2>1, <3>1, <4>1, <4>2
    <3>2. CASE j = r
      BY <1>2, <2>1, <3>2
    <3>3. CASE j > r
      <4>1. r \in 1..m
        BY <2>1
      <4>2. b[r].time <= b[j].time
        BY <1>1, <3>3, <4>1
      <4> QED
        BY <1>2, <2>1, <3>3, <4>1, <4>2
    <3> QED
      BY <2>1, <3>1, <3>2, <3>3
  <2>3. \A j \in 1..(r - 1) : j \in 1..m /\ f[j] \in S
    <3>1. \A j \in 1..(r - 1) : j \in 1..m /\ j < r
      BY <2>1
    <3> QED
      BY <1>2, <2>2, <3>1
  <2>4. \A x \in S : \E j \in 1..(r - 1) : f[j] = x
    <3> SUFFICES ASSUME NEW x \in S PROVE \E j \in 1..(r - 1) : f[j] = x
      OBVIOUS
    <3>1. PICK j \in 1..m : b[j].student = x
      BY <1>2
    <3>2. j < r
      BY <1>2, <2>2, <3>1
    <3>3. j \in 1..(r - 1) /\ f[j] = x
      BY <2>1, <3>1, <3>2
    <3> QED
      BY <3>3
  <2>5. \A j, k \in 1..(r - 1) : f[j] = f[k] => j = k
    BY <1>1, <2>3
  <2>6. Cardinality(S) = r - 1
    <3>1. r - 1 \in Nat
      BY <2>1
    <3> HIDE DEF S, f
    <3> QED
      BY <2>3, <2>4, <2>5, <3>1, CountPositions
  <2>7. 1 + Cardinality(S) = r
    BY <2>1, <2>6
  <2>8. BestTimes(c)[b[i].student] = b[i].time
    BY <1>2
  <2> QED
    BY <2>7, <2>8 DEF r
<1> HIDE DEF entry, place, ranks
<1>6. {entry(i) : i \in 1..m} = {place(s) : s \in Timed(c)}
  BY <1>2, <1>5
<1> QED
  BY <1>4, <1>6 DEF place

LEMMA RankingFollows == Rows(results) => RankingIsStandard
<1> SUFFICES ASSUME Rows(results), NEW c \in PoolCourse
             PROVE  LET times(s) == {a.time : a \in {b \in Rs!Candidates(c) : b.student = s}}
                        best == [s \in {t \in Result : times(t) # {}} |->
                                   CHOOSE t \in times(s) : \A u \in times(s) : t <= u]
                    IN Rs!Ranking(c) =
                         {[student |-> s, time |-> best[s],
                           rank |-> 1 + Rs!Cardinality({o \in DOMAIN best : best[o] < best[s]})] :
                            s \in DOMAIN best}
  BY DEF RankingIsStandard, Rs!RankingIsStandard
<1>1. DOMAIN BestTimes(c) = Timed(c)
  BY DEF BestTimes
<1> QED
  BY <1>1, RankingHolds, Counting DEF BestTimes, Timed, Times

(* A table of results is finite and has one row for every id: it starts    *)
(* empty and a request writes one row.                                     *)
LEMMA RowsHold == Rs!Spec => []Rows(results)
<1>1. Rs!Init => Rows(results)
  BY FS_EmptySet DEF Rs!Init, Rows
<1>2. Rows(results) /\ [Rs!Next]_rsVars => Rows(results)'
  <2> SUFFICES ASSUME Rows(results), [Rs!Next]_rsVars PROVE Rows(results)'
    OBVIOUS
  <2>1. CASE UNCHANGED results
    BY <2>1 DEF Rows
  <2>2. ASSUME NEW r \in Rs!Row, Rs!Create(r) PROVE Rows(results)'
    BY <2>2, FS_AddElement DEF Rs!Create, Rows
  <2>3. ASSUME NEW old \in results, Rs!Delete(old) PROVE Rows(results)'
    BY <2>3, FS_RemoveElement DEF Rs!Delete, Rows
  <2>4. ASSUME NEW old \in results, NEW r \in Rs!Row, Rs!Update(old, r) PROVE Rows(results)'
    <3>1. results' = (results \ {old}) \cup {r} /\ r.id = old.id
      BY <2>4 DEF Rs!Update
    <3>2. IsFiniteSet((results \ {old}) \cup {r})
      BY FS_RemoveElement, FS_AddElement DEF Rows
    <3> QED
      BY <3>1, <3>2 DEF Rows
  <2> QED
    BY <2>1, <2>2, <2>3, <2>4 DEF Rs!Next, rsVars
<1> QED
  BY <1>1, <1>2, PTL DEF Rs!Spec, Rs!vars, rsVars

(* Every student with a time is ranked once, with the best of its times,   *)
(* and the rank is one more than the number of students who were faster    *)
(* (ResultRankingPolicy.build): students with one best time share a rank   *)
(* and the next rank skips as many.                                        *)
THEOREM RankingsAreStandard == Rs!Spec => []RankingIsStandard
BY RowsHold, RankingFollows, PTL

-----------------------------------------------------------------------------
(* Pages                                                                   *)

(* In a part of a set nothing comes later than in the whole.               *)
LEMMA NoLater ==
  ASSUME NEW W, IsFiniteSet(W), NEW R, IsOrder(R, W), NEW A \in SUBSET W,
         NEW s, Enumerates(s, R, W), NEW t, Enumerates(t, R, A),
         NEW j \in 1..Cardinality(A), NEW i \in 1..Cardinality(W), t[j] = s[i]
  PROVE  j <= i
<1> DEFINE n == Cardinality(W)
           m == Cardinality(A)
<1>1. /\ n \in Nat /\ s \in [1..n -> W]
      /\ \A x \in W : \E k \in 1..n : s[k] = x
      /\ \A k, l \in 1..n : k < l <=> <<s[k], s[l]>> \in R
  <2>1. s \in [1..n -> W]
    BY DEF Enumerates
  <2> QED
    BY <2>1, EnumeratesAll
<1>2. m \in Nat /\ t \in [1..m -> A] /\ \A k, l \in 1..m : k < l => <<t[k], t[l]>> \in R
  BY FS_Subset, FS_CardinalityType DEF Enumerates
<1> HIDE DEF n, m
<1> DEFINE T == {k \in 0..m : k # 0 => \A l \in 1..n : t[k] = s[l] => k <= l}
<1>3. 0 \in T
  BY <1>2
<1>4. ASSUME NEW k \in 0..(m - 1), k \in T PROVE k + 1 \in T
  <2>1. k + 1 \in 1..m /\ k + 1 \in 0..m
    BY <1>2
  <2>2. ASSUME NEW l \in 1..n, t[k + 1] = s[l] PROVE k + 1 <= l
    <3>1. CASE k = 0
      BY <1>1, <3>1
    <3>2. CASE k # 0
      <4>1. k \in 1..m /\ k < k + 1
        BY <1>2, <3>2
      <4>2. t[k] \in W /\ <<t[k], t[k + 1]>> \in R
        BY <1>2, <2>1, <4>1
      <4>3. PICK p \in 1..n : s[p] = t[k]
        BY <1>1, <4>2
      <4>4. p < l
        BY <1>1, <2>2, <4>2, <4>3
      <4>5. k <= p
        BY <1>4, <3>2, <4>3
      <4> QED
        BY <1>1, <4>4, <4>5
    <3> QED
      BY <3>1, <3>2
  <2> QED
    BY <2>1, <2>2
<1>5. 0..m \subseteq T
  <2> HIDE DEF T
  <2> QED BY <1>2, <1>3, <1>4, UpTo
<1>6. j \in 0..m /\ j # 0 /\ j \in 1..m /\ i \in 1..n
  BY <1>2 DEF m, n
<1> QED
  BY <1>5, <1>6

(* A part that contains the first k starts with them.                      *)
LEMMA SamePrefix ==
  ASSUME NEW W, IsFiniteSet(W), NEW R, IsOrder(R, W), NEW A \in SUBSET W,
         NEW s, Enumerates(s, R, W), NEW t, Enumerates(t, R, A),
         NEW k \in 0..Cardinality(W), \A i \in 1..k : s[i] \in A
  PROVE  k <= Cardinality(A) /\ \A i \in 1..k : t[i] = s[i]
<1> DEFINE n == Cardinality(W)
           m == Cardinality(A)
<1>1. /\ n \in Nat
      /\ \A i, j \in 1..n : s[i] = s[j] => i = j
  BY EnumeratesAll
<1>2. m \in Nat /\ \A x \in A : \E j \in 1..m : t[j] = x
  <2>1. IsFiniteSet(A) /\ IsOrder(R, A)
    BY FS_Subset DEF IsOrder
  <2> QED
    BY <2>1, EnumeratesAll
<1>3. \A i \in 1..n, j \in 1..m : t[j] = s[i] => j <= i
  BY NoLater
<1>4. k \in 0..n
  OBVIOUS
<1> HIDE DEF n, m
<1> DEFINE T == {i \in 0..k : \A l \in 1..i : l \in 1..m /\ t[l] = s[l]}
<1>5. 0 \in T
  BY <1>1, <1>4
<1>6. ASSUME NEW i \in 0..(k - 1), i \in T PROVE i + 1 \in T
  <2>1. i + 1 \in 1..k /\ i + 1 \in 1..n /\ i + 1 \in 0..k
    BY <1>1, <1>4
  <2>2. PICK j \in 1..m : t[j] = s[i + 1]
    BY <1>2, <2>1
  <2>3. j <= i + 1
    BY <1>3, <2>1, <2>2
  <2>4. ~(j < i + 1)
    <3> SUFFICES ASSUME j < i + 1 PROVE FALSE
      OBVIOUS
    <3>1. j \in 1..i /\ j \in 1..n
      BY <1>1, <1>2, <1>4, <2>1
    <3>2. t[j] = s[j]
      BY <1>6, <3>1
    <3>3. j = i + 1
      BY <1>1, <2>1, <2>2, <3>1, <3>2
    <3>4. i + 1 \in Nat
      OBVIOUS
    <3> QED
      BY <3>3, <3>4
  <2>5. j = i + 1
    BY <1>2, <2>3, <2>4
  <2>6. \A l \in 1..(i + 1) : l \in 1..i \/ l = i + 1
    OBVIOUS
  <2> QED
    BY <1>6, <2>1, <2>2, <2>5, <2>6
<1>7. 0..k \subseteq T
  <2>1. k \in Nat
    BY <1>1, <1>4
  <2> HIDE DEF T
  <2> QED BY <1>5, <1>6, <2>1, UpTo
<1>8. \A l \in 1..k : l \in 1..m /\ t[l] = s[l]
  <2>1. k \in 0..k
    BY <1>1, <1>4
  <2>2. k \in T
    BY <1>7, <2>1
  <2> QED
    BY <2>2
<1>9. k <= m
  <2>1. CASE k = 0
    BY <1>2, <2>1
  <2>2. CASE k # 0
    <3>1. k \in 1..k
      BY <1>1, <1>4, <2>2
    <3> QED
      BY <1>2, <1>8, <3>1
  <2> QED BY <2>1, <2>2
<1> QED
  BY <1>8, <1>9 DEF m

(* What a query asks for, from both tables.                                *)
Matches(q) == UNION {Rs!Where(q, d) : d \in Rs!Discipline}
Lesser(a, b) == IF a < b THEN a ELSE b

LEMMA WhereIsPart ==
  ASSUME NEW q, NEW d
  PROVE  Rs!Where(q, d) \in SUBSET results /\ \A a \in Rs!Where(q, d) : a.discipline = d
BY DEF Rs!Where

LEMMA MatchesAreCounted ==
  ASSUME Rows(results), NEW q
  PROVE  /\ Matches(q) = Rs!Where(q, "Piscina") \cup Rs!Where(q, "Aguas Abertas")
         /\ Rows(Matches(q)) /\ Rs!Total(q) = Cardinality(Matches(q)) /\ Rs!Total(q) \in Nat
<1> DEFINE A == Rs!Where(q, "Piscina")
           B == Rs!Where(q, "Aguas Abertas")
<1>1. Matches(q) = A \cup B
  BY DEF Matches, Rs!Discipline
<1>2. A \in SUBSET results /\ B \in SUBSET results /\ A \cap B = {}
  BY WhereIsPart
<1> HIDE DEF A, B
<1>3. Rows(Matches(q)) /\ IsFiniteSet(A) /\ IsFiniteSet(B)
  BY <1>1, <1>2, PartOfRows, FS_Subset DEF Rows
<1>4. Cardinality(A) \in Nat /\ Cardinality(B) \in Nat
  BY <1>3, FS_CardinalityType
<1>5. Cardinality(A \cup B) = Cardinality(A) + Cardinality(B)
  BY <1>2, <1>3, <1>4, FS_Union, FS_EmptySet
<1>6. Rs!Total(q) = Cardinality(A) + Cardinality(B)
  BY Counting DEF Rs!Total, A, B
<1>7. Rs!Total(q) = Cardinality(Matches(q)) /\ Rs!Total(q) \in Nat
  BY <1>1, <1>4, <1>5, <1>6
<1> QED
  BY <1>1, <1>3, <1>7 DEF A, B

(* The rows that the query of one table returns for a page.                *)
LEMMA TakeIs ==
  ASSUME NEW q, NEW d, NEW nth \in Nat, NEW perPage \in Nat, Rows(Rs!Where(q, d))
  PROVE  LET A == Rs!Where(q, d)
             m == Lesser(nth * perPage, Cardinality(A))
         IN Rs!ToSet(Rs!Take(q, d, nth, perPage)) = {Rs!Sorted(A)[i] : i \in 1..m}
<1> DEFINE A == Rs!Where(q, d)
           s == Rs!Sorted(A)
           n == Cardinality(A)
           M == nth * perPage
           m == Lesser(M, n)
<1>1. n \in Nat /\ s \in [1..n -> A]
  BY SortedEnumerates, FS_CardinalityType DEF Rows, Enumerates
<1>2. M \in Nat
  OBVIOUS
<1>3. Rs!Take(q, d, nth, perPage) = Rs!Slice(s, 1, M)
  BY DEF Rs!Take
<1> HIDE DEF s, n, M, A
<1>4. s \in Seq(A) /\ Len(s) = n
  BY <1>1
<1>5. Rs!Slice(s, 1, M) = SubSeq(s, 1, m)
  BY <1>4 DEF Rs!Slice, Lesser
<1>6. m \in Nat /\ m <= n
  BY <1>1, <1>2 DEF Lesser
<1> HIDE DEF m
<1> DEFINE u == SubSeq(s, 1, m)
<1>7. DOMAIN u = 1..m /\ \A i \in 1..m : u[i] = s[i]
  BY <1>4, <1>6
<1> HIDE DEF u
<1>8. Rs!ToSet(u) = {s[i] : i \in 1..m}
  BY <1>7 DEF Rs!ToSet
<1> QED
  BY <1>3, <1>5, <1>8 DEF u, m, M, n, s, A

(* A stretch, position by position.                                        *)
LEMMA StretchIs ==
  ASSUME NEW A, NEW s \in Seq(A), NEW m \in Nat \ {0}, NEW n \in 0..Len(s)
  PROVE  SubSeq(s, m, n) = [i \in 1..(n - m + 1) |-> s[i + m - 1]]
OBVIOUS

(* A page is a stretch of all the matches in order.                        *)
LEMMA PageIs ==
  ASSUME Rows(results), NEW q, NEW nth \in Nat \ {0}, NEW perPage \in Nat \ {0}
  PROVE  Rs!List(q, nth, perPage) =
           SubSeq(Rs!Sorted(Matches(q)), (nth - 1) * perPage + 1,
                  Lesser(nth * perPage, Cardinality(Matches(q))))
<1> DEFINE W == Matches(q)
           R == Newest(W)
           s == Rs!Sorted(W)
           n == Cardinality(W)
           M == nth * perPage
           first == (nth - 1) * perPage + 1
           taken == UNION {Rs!ToSet(Rs!Take(q, d, nth, perPage)) : d \in Rs!Discipline}
           t == Rs!Sorted(taken)
           k == Lesser(M, n)
<1>1. Rows(W) /\ W = Rs!Where(q, "Piscina") \cup Rs!Where(q, "Aguas Abertas")
  BY MatchesAreCounted
<1>2. Enumerates(s, R, W) /\ IsOrder(R, W) /\ IsFiniteSet(W) /\ n \in Nat
  BY <1>1, SortedEnumerates, NewestOrder, FS_CardinalityType DEF Rows
<1>3. M \in Nat /\ first \in Nat
  <2>1. nth - 1 \in Nat
    OBVIOUS
  <2>2. (nth - 1) * perPage \in Nat
    BY <2>1
  <2> QED
    BY <2>2
<1>4. k \in 0..n /\ k <= M
  BY <1>2, <1>3 DEF Lesser
<1>5. \A A \in SUBSET W : Rows(A) /\ Enumerates(Rs!Sorted(A), R, A)
  <2> SUFFICES ASSUME NEW A \in SUBSET W
               PROVE  Rows(A) /\ Enumerates(Rs!Sorted(A), R, A)
    OBVIOUS
  <2>1. Rows(A)
    BY <1>1, PartOfRows
  <2>2. Enumerates(Rs!Sorted(A), Newest(A), A)
    BY <2>1, SortedEnumerates
  <2>3. Newest(A) \subseteq R
    BY DEF Newest
  <2> QED
    BY <2>1, <2>2, <2>3 DEF Enumerates
<1>6. ASSUME NEW d \in Rs!Discipline
      PROVE  LET A == Rs!Where(q, d) IN
             /\ A \in SUBSET W /\ Rows(A) /\ Enumerates(Rs!Sorted(A), R, A)
             /\ Rs!ToSet(Rs!Take(q, d, nth, perPage)) =
                  {Rs!Sorted(A)[i] : i \in 1..Lesser(M, Cardinality(A))}
  <2>1. Rs!Where(q, d) \in SUBSET W
    BY DEF Matches
  <2>2. Rows(Rs!Where(q, d)) /\ Enumerates(Rs!Sorted(Rs!Where(q, d)), R, Rs!Where(q, d))
    BY <1>5, <2>1
  <2> QED
    BY <2>1, <2>2, TakeIs
<1> HIDE DEF W, R, s, n, M, first, k
<1>7. taken \in SUBSET W
  <2> SUFFICES ASSUME NEW d \in Rs!Discipline,
                      NEW x \in Rs!ToSet(Rs!Take(q, d, nth, perPage))
               PROVE  x \in W
    OBVIOUS
  <2> DEFINE A == Rs!Where(q, d)
             a == Rs!Sorted(A)
  <2>1. A \in SUBSET W /\ Cardinality(A) \in Nat /\ a \in [1..Cardinality(A) -> A]
    BY <1>6, FS_CardinalityType DEF Rows, Enumerates
  <2>2. PICK i \in 1..Lesser(M, Cardinality(A)) : x = a[i]
    BY <1>6
  <2> HIDE DEF A, a
  <2>3. i \in 1..Cardinality(A)
    BY <1>3, <2>1 DEF Lesser
  <2> QED
    BY <2>1, <2>2, <2>3
<1>8. ASSUME NEW i \in 1..k PROVE s[i] \in taken
  <2>1. i \in 1..n /\ i <= M /\ s[i] \in W
    BY <1>2, <1>3, <1>4 DEF Enumerates, n
  <2>2. PICK d \in Rs!Discipline : s[i] \in Rs!Where(q, d)
    BY <2>1 DEF W, Matches
  <2> DEFINE A == Rs!Where(q, d)
             a == Rs!Sorted(A)
  <2>3. A \in SUBSET W /\ Rows(A) /\ Enumerates(a, R, A)
    BY <1>6
  <2>4. IsFiniteSet(A) /\ IsOrder(R, A) /\ Cardinality(A) \in Nat
    BY <1>2, <2>3, FS_CardinalityType DEF IsOrder, Rows
  <2>5. PICK j \in 1..Cardinality(A) : a[j] = s[i]
    BY <2>2, <2>3, <2>4, EnumeratesAll
  <2>6. j <= i
    BY <1>2, <2>1, <2>3, <2>5, NoLater DEF n
  <2>7. j \in 1..Lesser(M, Cardinality(A))
    BY <1>2, <1>3, <2>1, <2>4, <2>6 DEF Lesser
  <2>8. a[j] \in Rs!ToSet(Rs!Take(q, d, nth, perPage))
    BY <1>6, <2>7
  <2> QED
    BY <2>5, <2>8
<1>9. Enumerates(t, R, taken) /\ Rows(taken)
  BY <1>5, <1>7
<1> HIDE DEF taken, t
<1>10. k <= Cardinality(taken) /\ \A i \in 1..k : t[i] = s[i]
  BY <1>2, <1>4, <1>7, <1>8, <1>9, SamePrefix DEF n
<1>11. Cardinality(taken) \in Nat /\ Cardinality(taken) <= n
  BY <1>2, <1>7, <1>9, FS_Subset, FS_CardinalityType DEF Rows, n
<1>12. t \in Seq(W) /\ Len(t) = Cardinality(taken)
  <2>1. t \in [1..Cardinality(taken) -> taken]
    BY <1>9 DEF Enumerates
  <2> QED
    BY <1>7, <1>11, <2>1
<1>13. s \in Seq(W) /\ Len(s) = n
  <2>1. s \in [1..n -> W]
    BY <1>2 DEF Enumerates, n
  <2> QED
    BY <1>2, <2>1
<1>14. (IF M < Len(t) THEN M ELSE Len(t)) = k
  BY <1>2, <1>3, <1>10, <1>11, <1>12 DEF Lesser, k
<1>15. Rs!List(q, nth, perPage) = SubSeq(t, first, k)
  <2>1. Rs!List(q, nth, perPage) = Rs!Slice(t, first, M)
    BY DEF Rs!List, t, taken, first, M
  <2> QED
    BY <1>12, <1>14, <2>1 DEF Rs!Slice
<1>16. SubSeq(t, first, k) = SubSeq(s, first, k)
  <2>1. \A i \in 1..(k - first + 1) : i + first - 1 \in 1..k
    <3>1. k \in Nat /\ first >= 1
      <4>1. nth - 1 \in Nat
        OBVIOUS
      <4>2. (nth - 1) * perPage \in Nat
        BY <4>1
      <4> QED
        BY <1>2, <1>4, <4>2 DEF first
    <3> QED
      BY <1>3, <3>1
  <2>2. \A i \in 1..(k - first + 1) : t[i + first - 1] = s[i + first - 1]
    BY <1>10, <2>1
  <2>3. first \in Nat \ {0} /\ k \in 0..Len(t) /\ k \in 0..Len(s)
    <3>1. (nth - 1) * perPage \in Nat
      <4> nth - 1 \in Nat
        OBVIOUS
      <4> QED OBVIOUS
    <3> QED
      BY <1>2, <1>4, <1>10, <1>11, <1>12, <1>13, <3>1 DEF first
  <2>4. /\ SubSeq(t, first, k) = [i \in 1..(k - first + 1) |-> t[i + first - 1]]
        /\ SubSeq(s, first, k) = [i \in 1..(k - first + 1) |-> s[i + first - 1]]
    BY <1>12, <1>13, <2>3, StretchIs
  <2> QED
    BY <2>2, <2>4
<1> QED
  BY <1>15, <1>16 DEF s, W, first, k, M, n

(* The flattened sequence f after each of the sequences p.                 *)
FlattensTo(f, p) ==
  f = [i \in 1..Len(p) |-> IF i = 1 THEN p[i] ELSE f[i - 1] \o p[i]]

LEMMA FlattenIs ==
  ASSUME NEW p, Len(p) # 0, \E f : FlattensTo(f, p)
  PROVE  \E f : FlattensTo(f, p) /\ Rs!FlattenSeq(p) = f[Len(p)]
BY DEF Rs!FlattenSeq, FlattensTo

(* Two stretches of which one begins where the other ends are one.         *)
LEMMA Join ==
  ASSUME NEW A, NEW s \in Seq(A), NEW k \in 0..Len(s), NEW m \in 0..k
  PROVE  SubSeq(s, 1, m) \o SubSeq(s, m + 1, k) = SubSeq(s, 1, k)
OBVIOUS

(* Stretches that follow each other are one, past the end too.             *)
LEMMA NextStretch ==
  ASSUME NEW A, NEW s \in Seq(A), NEW n \in Nat, n = Len(s), NEW m \in Nat, NEW d \in Nat
  PROVE  SubSeq(s, 1, Lesser(m, n)) \o SubSeq(s, m + 1, Lesser(m + d, n)) =
           SubSeq(s, 1, Lesser(m + d, n))
<1> DEFINE k == Lesser(m + d, n)
<1>1. CASE m >= n
  <2>1. Lesser(m, n) = n /\ k = n
    BY <1>1 DEF Lesser
  <2>2. SubSeq(s, m + 1, n) = <<>>
    BY <1>1
  <2>3. SubSeq(s, 1, n) \o <<>> = SubSeq(s, 1, n)
    OBVIOUS
  <2> QED
    BY <2>1, <2>2, <2>3
<1>2. CASE m < n
  <2>1. Lesser(m, n) = m /\ k \in 0..Len(s) /\ m \in 0..k
    BY <1>2 DEF Lesser
  <2> HIDE DEF k
  <2> QED
    BY <2>1, Join DEF k
<1>3. m >= n \/ m < n
  OBVIOUS
<1> HIDE DEF k
<1> QED
  BY ONLY <1>1, <1>2, <1>3 DEF k

LEMMA PagesFollow == Rows(results) => PagesPartition
<1> SUFFICES ASSUME Rows(results), NEW q \in Rs!Query, NEW perPage \in PageSize
             PROVE  Rs!FlattenSeq([nth \in 1..Rs!Total(q) |-> Rs!List(q, nth, perPage)])
                      = Rs!Sorted(Matches(q))
  BY DEF PagesPartition, Rs!PagesPartition, Matches
<1> DEFINE W == Matches(q)
           n == Cardinality(W)
           s == Rs!Sorted(W)
           p == [nth \in 1..n |-> Rs!List(q, nth, perPage)]
           upTo(i) == Lesser(i * perPage, n)
<1>1. n \in Nat /\ Rs!Total(q) = n /\ Rows(W)
  BY MatchesAreCounted
<1>2. s \in [1..n -> W] /\ s \in Seq(W) /\ Len(s) = n
  <2>1. s \in [1..n -> W]
    BY <1>1, SortedEnumerates DEF Enumerates
  <2> QED
    BY <1>1, <2>1
<1>3. perPage \in Nat \ {0}
  BY ResultsAssumption
<1>4. \A i \in 1..n : p[i] = SubSeq(s, (i - 1) * perPage + 1, upTo(i))
  <2> SUFFICES ASSUME NEW i \in 1..n
               PROVE  p[i] = SubSeq(s, (i - 1) * perPage + 1, upTo(i))
    OBVIOUS
  <2>1. i \in Nat \ {0}
    BY <1>1
  <2>2. p[i] = Rs!List(q, i, perPage)
    OBVIOUS
  <2> QED
    BY <1>3, <2>1, <2>2, PageIs
<1>5. Len(p) = n
  BY <1>1
<1> HIDE DEF W, n, s
<1> SUFFICES Rs!FlattenSeq(p) = s
  BY <1>1 DEF n, W, s
<1>6. CASE n = 0
  <2>1. p = <<>> /\ s = <<>>
    BY <1>2, <1>6
  <2> HIDE DEF p
  <2>2. Rs!FlattenSeq(p) = p
    BY <1>5, <1>6 DEF Rs!FlattenSeq
  <2> QED
    BY <2>1, <2>2
<1>7. CASE n # 0
  <2> DEFINE g == [i \in 1..n |-> SubSeq(s, 1, upTo(i))]
  <2>1. p[1] = SubSeq(s, 1, upTo(1))
    <3>1. 1 \in 1..n /\ (1 - 1) * perPage + 1 = 1
      BY <1>1, <1>3, <1>7
    <3> QED
      BY <1>4, <3>1
  <2>2. ASSUME NEW i \in 1..n, i # 1
        PROVE  SubSeq(s, 1, upTo(i - 1)) \o p[i] = SubSeq(s, 1, upTo(i))
    <3> DEFINE m == (i - 1) * perPage
    <3>1. m \in Nat
      <4>1. i - 1 \in Nat
        BY <1>1
      <4> QED
        BY <1>3, <4>1
    <3>2. i * perPage = m + perPage
      BY <1>1, <1>3
    <3>3. p[i] = SubSeq(s, m + 1, Lesser(m + perPage, n))
      BY <1>2, <1>4, <3>2
    <3>4. upTo(i - 1) = Lesser(m, n) /\ upTo(i) = Lesser(m + perPage, n)
      BY <1>2, <3>2
    <3> HIDE DEF m, p, upTo
    <3>5. SubSeq(s, 1, Lesser(m, n)) \o SubSeq(s, m + 1, Lesser(m + perPage, n)) =
            SubSeq(s, 1, Lesser(m + perPage, n))
      BY <1>1, <1>2, <1>3, <3>1, NextStretch
    <3>6. p[i] = SubSeq(s, m + 1, Lesser(m + perPage, n))
      BY <1>2, <3>3
    <3> QED
      BY <3>4, <3>5, <3>6
  <2> HIDE DEF p
  <2>3. FlattensTo(g, p)
    <3>1. \A i \in 1..n : g[i] = IF i = 1 THEN p[i] ELSE g[i - 1] \o p[i]
      <4> SUFFICES ASSUME NEW i \in 1..n
                   PROVE  g[i] = IF i = 1 THEN p[i] ELSE g[i - 1] \o p[i]
        OBVIOUS
      <4>1. CASE i = 1
        BY <2>1, <4>1
      <4>2. CASE i # 1
        <5>1. i - 1 \in 1..n
          BY <1>1, <4>2
        <5>2. g[i] = SubSeq(s, 1, upTo(i)) /\ g[i - 1] = SubSeq(s, 1, upTo(i - 1))
          BY <5>1
        <5> QED
          BY <2>2, <4>2, <5>2
      <4> QED
        BY <4>1, <4>2
    <3> QED
      BY <1>5, <3>1 DEF FlattensTo
  <2>4. PICK f : FlattensTo(f, p) /\ Rs!FlattenSeq(p) = f[n]
    <3>1. \E f : FlattensTo(f, p)
      BY <2>3
    <3> QED
      BY <1>5, <1>7, <3>1, FlattenIs
  <2>5. \A i \in 1..n : f[i] = IF i = 1 THEN p[i] ELSE f[i - 1] \o p[i]
    <3>1. f = [i \in 1..n |-> IF i = 1 THEN p[i] ELSE f[i - 1] \o p[i]]
      BY <1>5, <2>4 DEF FlattensTo
    <3> QED
      BY <3>1
  <2> DEFINE T == {i \in 0..n : i # 0 => f[i] = SubSeq(s, 1, upTo(i))}
  <2>6. 0 \in T
    BY <1>1
  <2>7. ASSUME NEW i \in 0..(n - 1), i \in T PROVE i + 1 \in T
    <3>1. i + 1 \in 1..n /\ i + 1 \in 0..n /\ (i + 1) - 1 = i
      BY <1>1
    <3>2. CASE i = 0
      BY <2>1, <2>5, <3>1, <3>2
    <3>3. CASE i # 0
      <4>1. f[i] = SubSeq(s, 1, upTo(i)) /\ i + 1 # 1
        BY <2>7, <3>3
      <4>2. f[i + 1] = f[i] \o p[i + 1]
        BY <2>5, <3>1, <4>1
      <4>3. SubSeq(s, 1, upTo(i)) \o p[i + 1] = SubSeq(s, 1, upTo(i + 1))
        BY <2>2, <3>1, <4>1
      <4> QED
        BY <3>1, <4>1, <4>2, <4>3
    <3> QED
      BY <3>2, <3>3
  <2>8. f[n] = SubSeq(s, 1, upTo(n))
    <3>1. 0..n \subseteq T
      <4> HIDE DEF T
      <4> QED BY <1>1, <2>6, <2>7, UpTo
    <3>2. n \in 0..n
      BY <1>1
    <3> HIDE DEF upTo
    <3> QED
      BY <1>7, <3>1, <3>2
  <2>9. upTo(n) = n
    <3>1. n * perPage >= n
      <4>1. perPage - 1 \in Nat /\ n * (perPage - 1) \in Nat
        BY <1>1, <1>3
      <4>2. n * perPage = n * (perPage - 1) + n
        BY <1>1, <1>3
      <4> QED
        BY <1>1, <4>1, <4>2
    <3>2. n * perPage \in Nat
      BY <1>1, <1>3
    <3> QED
      BY <1>1, <3>1, <3>2 DEF Lesser
  <2>10. SubSeq(s, 1, n) = s
    BY <1>1, <1>2
  <2> QED
    BY <2>4, <2>8, <2>9, <2>10
<1> QED
  BY <1>6, <1>7

(* The pages of a list, one after the other, are all the results that      *)
(* match, once each and newest first, for any query and size of page,      *)
(* although each page is merged from two tables that are read up to that   *)
(* page only.                                                              *)
THEOREM PagesMakeTheList == Rs!Spec => []PagesPartition
BY RowsHold, PagesFollow, PTL

-----------------------------------------------------------------------------
(* What the routes say of the same results                                 *)

(* The distribution: a sum over a function takes its arguments in any      *)
(* order.                                                                  *)
SumsUp(g, D) ==
  g = [A \in SUBSET DOMAIN D |->
         IF A = {} THEN 0 ELSE D[CHOOSE x \in A : TRUE] + g[A \ {CHOOSE x \in A : TRUE}]]

LEMMA SumIs ==
  ASSUME NEW D, \E g : SumsUp(g, D)
  PROVE  \E g : SumsUp(g, D) /\ Rs!FoldFunction(+, 0, D) = g[DOMAIN D]
BY DEF Rs!FoldFunction, Rs!FoldFunctionOnSet, Rs!MapThenFoldSet, SumsUp

LEMMA TwoParts ==
  ASSUME NEW P, IsFiniteSet(P), NEW Q, IsFiniteSet(Q), P \cap Q = {}
  PROVE  /\ Cardinality(P) \in Nat /\ Cardinality(Q) \in Nat
         /\ Cardinality(P \cup Q) = Cardinality(P) + Cardinality(Q)
<1>1. Cardinality(P) \in Nat /\ Cardinality(Q) \in Nat
  BY FS_CardinalityType
<1>2. Cardinality(P \cap Q) = 0
  BY FS_EmptySet
<1>3. Cardinality(P \cup Q) = Cardinality(P) + Cardinality(Q) - Cardinality(P \cap Q)
  BY FS_Union
<1> QED
  BY <1>1, <1>2, <1>3

(* The sum of the sizes of the groups is the size of the whole.            *)
LEMMA SumOfGroups ==
  ASSUME NEW W, IsFiniteSet(W), NEW C, NEW f \in [W -> C], \A c \in C : \E a \in W : f[a] = c
  PROVE  Rs!FoldFunction(+, 0, [c \in C |-> Cardinality({a \in W : f[a] = c})]) = Cardinality(W)
<1> DEFINE D == [c \in C |-> Cardinality({a \in W : f[a] = c})]
           part(A) == {a \in W : f[a] \in A}
           g == [A \in SUBSET C |-> Cardinality(part(A))]
           chosen(A) == CHOOSE x \in A : TRUE
<1>1. f \in Surjection(W, C)
  BY DEF Surjection
<1>2. IsFiniteSet(C)
  BY <1>1, FS_Surjection
<1>3. \A A : IsFiniteSet(part(A)) /\ Cardinality(part(A)) \in Nat
  BY FS_Subset, FS_CardinalityType
<1>4. ASSUME NEW A \in SUBSET C, NEW x \in A
      PROVE  Cardinality(part(A)) = D[x] + Cardinality(part(A \ {x}))
  <2> DEFINE P == part(A \ {x})
             Q == {a \in W : f[a] = x}
  <2>1. part(A) = P \cup Q /\ P \cap Q = {}
    OBVIOUS
  <2>2. IsFiniteSet(P) /\ IsFiniteSet(Q)
    BY FS_Subset
  <2>3. D[x] = Cardinality(Q)
    OBVIOUS
  <2>4. part(A \ {x}) = P
    OBVIOUS
  <2> HIDE DEF P, Q, part, D
  <2>5. /\ Cardinality(P) \in Nat /\ Cardinality(Q) \in Nat
        /\ Cardinality(P \cup Q) = Cardinality(P) + Cardinality(Q)
    BY <2>1, <2>2, TwoParts
  <2> QED
    BY <2>1, <2>3, <2>4, <2>5
<1>5. g[{}] = 0
  <2>1. part({}) = {}
    OBVIOUS
  <2> QED
    BY <2>1, FS_EmptySet
<1>6. \A A \in SUBSET C : A # {} => chosen(A) \in A
  OBVIOUS
<1>7. SumsUp(g, D)
  <2>1. \A A \in SUBSET C : g[A] = IF A = {} THEN 0 ELSE D[chosen(A)] + g[A \ {chosen(A)}]
    <3> SUFFICES ASSUME NEW A \in SUBSET C, A # {}
                 PROVE  g[A] = D[chosen(A)] + g[A \ {chosen(A)}]
      BY <1>5
    <3>1. chosen(A) \in A
      BY <1>6
    <3> HIDE DEF chosen, D, part
    <3>2. g[A] = Cardinality(part(A))
      OBVIOUS
    <3>3. g[A \ {chosen(A)}] = Cardinality(part(A \ {chosen(A)}))
      OBVIOUS
    <3> QED
      BY <1>4, <3>1, <3>2, <3>3
  <2>2. DOMAIN D = C
    OBVIOUS
  <2>3. g = [A \in SUBSET C |-> IF A = {} THEN 0 ELSE D[chosen(A)] + g[A \ {chosen(A)}]]
    <3>1. g = [A \in SUBSET C |-> g[A]]
      OBVIOUS
    <3> HIDE DEF g, D, chosen
    <3> QED
      BY <2>1, <3>1
  <2> QED
    BY <2>2, <2>3 DEF SumsUp
<1>8. PICK h : SumsUp(h, D) /\ Rs!FoldFunction(+, 0, D) = h[C]
  <2>1. \E h : SumsUp(h, D)
    BY <1>7
  <2> HIDE DEF D
  <2>2. \E h : SumsUp(h, D) /\ Rs!FoldFunction(+, 0, D) = h[DOMAIN D]
    BY <2>1, SumIs
  <2> QED
    BY <2>2 DEF D
<1>9. h[{}] = 0 /\ \A A \in SUBSET C : A # {} => h[A] = D[chosen(A)] + h[A \ {chosen(A)}]
  <2>1. h = [A \in SUBSET C |-> IF A = {} THEN 0 ELSE D[chosen(A)] + h[A \ {chosen(A)}]]
    BY <1>8 DEF SumsUp
  <2> HIDE DEF D, chosen
  <2> QED
    BY <2>1
<1> DEFINE T == {n \in Nat : \A A \in SUBSET C : Cardinality(A) = n => h[A] = Cardinality(part(A))}
<1>10. \A A \in SUBSET C : IsFiniteSet(A) /\ Cardinality(A) \in Nat
  BY <1>2, FS_Subset, FS_CardinalityType
<1>11. 0 \in T
  BY <1>5, <1>9, <1>10, FS_EmptySet
<1>12. ASSUME NEW n \in Nat, n \in T PROVE n + 1 \in T
  <2> SUFFICES ASSUME NEW A \in SUBSET C, Cardinality(A) = n + 1
               PROVE  h[A] = Cardinality(part(A))
    OBVIOUS
  <2>1. A # {} /\ chosen(A) \in A /\ Cardinality(A \ {chosen(A)}) = n
    BY <1>6, <1>10, OneLess
  <2> HIDE DEF chosen, part, D
  <2>2. h[A \ {chosen(A)}] = Cardinality(part(A \ {chosen(A)}))
    BY <1>12, <2>1
  <2> QED
    BY <1>4, <1>9, <2>1, <2>2
<1>13. Nat \subseteq T
  <2> HIDE DEF T
  <2> QED BY <1>11, <1>12, Numbers
<1>14. h[C] = Cardinality(part(C))
  BY <1>10, <1>13
<1>15. part(C) = W
  OBVIOUS
<1> QED
  BY <1>8, <1>14, <1>15

(* The groups by course are all the matches, each counted once.            *)
LEMMA DistributionAddsUp ==
  ASSUME Rows(results), NEW q
  PROVE  Rs!FoldFunction(+, 0, Rs!Distribution(q)) = Rs!Total(q)
<1> DEFINE W == Matches(q)
           A == Rs!Where(q, "Piscina")
           B == Rs!Where(q, "Aguas Abertas")
           C == {a.course : a \in W}
           f == [a \in W |-> a.course]
           D == [c \in C |-> Cardinality({a \in W : f[a] = c})]
<1>1. W = A \cup B /\ Rows(W) /\ Rs!Total(q) = Cardinality(W)
  BY MatchesAreCounted
<1>2. IsFiniteSet(W) /\ f \in [W -> C] /\ \A c \in C : \E a \in W : f[a] = c
  BY <1>1 DEF Rows
<1>3. Rs!FoldFunction(+, 0, D) = Cardinality(W)
  <2> HIDE DEF W, C, f
  <2> QED
    BY <1>2, SumOfGroups
<1>4. ASSUME NEW c \in C
      PROVE  Rs!Cardinality({a \in A : a.course = c}) + Rs!Cardinality({a \in B : a.course = c})
               = Cardinality({a \in W : f[a] = c})
  <2> DEFINE P == {a \in A : a.course = c}
             Q == {a \in B : a.course = c}
  <2>1. {a \in W : f[a] = c} = P \cup Q
    BY <1>1
  <2>2. P \cap Q = {}
    BY WhereIsPart
  <2>3. IsFiniteSet(P) /\ IsFiniteSet(Q)
    <3>1. P \in SUBSET W /\ Q \in SUBSET W
      BY <1>1
    <3> HIDE DEF P, Q, W
    <3> QED
      BY <1>2, <3>1, FS_Subset
  <2>4. Rs!Cardinality(P) = Cardinality(P) /\ Rs!Cardinality(Q) = Cardinality(Q)
    BY Counting
  <2> HIDE DEF P, Q, W
  <2>5. Cardinality(P \cup Q) = Cardinality(P) + Cardinality(Q)
    BY <2>2, <2>3, TwoParts
  <2>6. Rs!Cardinality(P) + Rs!Cardinality(Q) = Cardinality({a \in W : f[a] = c})
    BY <2>1, <2>4, <2>5
  <2> QED
    BY <2>6 DEF P, Q
<1>5. Rs!Distribution(q) =
        [c \in C |-> Rs!Cardinality({a \in A : a.course = c})
                       + Rs!Cardinality({a \in B : a.course = c})]
  BY DEF Rs!Distribution, Matches
<1>6. Rs!Distribution(q) = D
  <2> HIDE DEF C, A, B, W, f
  <2> QED
    BY <1>4, <1>5
<1> QED
  BY <1>1, <1>3, <1>6

(* A filter is offered for exactly the courses that find a result.         *)
LEMMA FiltersFind ==
  ASSUME Rows(results)
  PROVE  Rs!FilterOptions =
           {c \in PoolCourse \cup WaterCourse :
              Rs!Total([discipline |-> {}, competitionType |-> {}, course |-> {c}]) > 0}
<1> DEFINE q(c) == [discipline |-> {}, competitionType |-> {}, course |-> {c}]
<1>1. ASSUME NEW c
      PROVE  Matches(q(c)) = {a \in results : a.course = c}
  <2>1. /\ q(c).discipline \cup q(c).competitionType = {}
        /\ \A a : q(c).course \in {{}, {a.course}} <=> a.course = c
    OBVIOUS
  <2>2. Rs!Cardinality({}) <= 1
    BY Counting, FS_EmptySet
  <2> HIDE DEF q
  <2>3. \A d : Rs!Where(q(c), d) = {a \in results : a.discipline = d /\ a.course = c}
    BY <2>1, <2>2 DEF Rs!Where
  <2>4. \A a \in results : a.discipline \in Rs!Discipline
    BY RowType DEF Rows
  <2> QED
    BY <2>3, <2>4 DEF Matches
<1>2. ASSUME NEW c
      PROVE  Rs!Total(q(c)) > 0 <=> \E a \in results : a.course = c
  <2>1. /\ IsFiniteSet(Matches(q(c))) /\ Rs!Total(q(c)) \in Nat
        /\ Rs!Total(q(c)) = Cardinality(Matches(q(c)))
    BY MatchesAreCounted DEF Rows
  <2> HIDE DEF q
  <2>2. Rs!Total(q(c)) = 0 <=> Matches(q(c)) = {}
    BY <2>1, FS_EmptySet
  <2> QED
    BY <1>1, <2>1, <2>2
<1>3. \A a \in results : a.course \in PoolCourse \cup WaterCourse
  BY RowType DEF Rows, Rs!Discipline
<1> HIDE DEF q
<1>4. Rs!FilterOptions = {c \in PoolCourse \cup WaterCourse : Rs!Total(q(c)) > 0}
  BY <1>2, <1>3 DEF Rs!FilterOptions
<1> QED
  BY <1>4 DEF q

(* A course is offered for ranking when somebody is ranked in it.          *)
LEMMA ContextsRank ==
  ASSUME Rows(results), NEW c \in PoolCourse
  PROVE  c \in Rs!Contexts <=> Rs!Ranking(c) # {}
<1>1. c \in Rs!Contexts <=> Rs!Candidates(c) # {}
  BY CandidatesAre DEF Rs!Contexts
<1>2. Timed(c) # {} <=> Rs!Candidates(c) # {}
  <2>1. \A a \in Rs!Candidates(c) : a.student \in Result
    BY CandidatesAre, RowType DEF Rows
  <2> QED
    BY <2>1 DEF Timed, Times
<1>3. Rs!Ranking(c) # {} <=> Timed(c) # {}
  <2> DEFINE place(s) ==
        [student |-> s, time |-> BestTimes(c)[s],
         rank |-> 1 + Cardinality({o \in Timed(c) : BestTimes(c)[o] < BestTimes(c)[s]})]
  <2>1. Rs!Ranking(c) = {place(s) : s \in Timed(c)}
    BY RankingHolds
  <2> HIDE DEF place
  <2> QED
    BY <2>1
<1> QED
  BY <1>1, <1>2, <1>3

(* The best time of a student is its least.                                *)
LEMMA BestTimesAreLeast ==
  ASSUME Rows(results), NEW c
  PROVE  /\ IsFiniteSet(Timed(c))
         /\ \A s \in Timed(c) :
              /\ BestTimes(c)[s] \in Nat \ {0}
              /\ \E a \in Rs!Candidates(c) : a.student = s /\ a.time = BestTimes(c)[s]
              /\ \A a \in Rs!Candidates(c) : a.student = s => BestTimes(c)[s] <= a.time
<1> DEFINE b == Best(c)
           C == Rs!Candidates(c)
<1>1. PICK m \in Nat :
        /\ b \in [1..m -> C]
        /\ \A i, j \in 1..m : i < j => b[i].time <= b[j].time
        /\ \A i, j \in 1..m : b[i].student = b[j].student => i = j
        /\ \A a \in C : \E i \in 1..m : b[i].student = a.student /\ b[i].time <= a.time
  BY BestResults
<1>2. /\ \A i \in 1..m : /\ b[i].student \in Timed(c)
                         /\ BestTimes(c)[b[i].student] = b[i].time
                         /\ b[i].time \in Nat
      /\ \A s \in Timed(c) : \E i \in 1..m : b[i].student = s
  BY <1>1, BestIsFastest
<1>3. \A a \in C : a.time \in Nat \ {0}
  <2>1. \A a \in C : a.time \in Nat /\ a.time > 0
    BY CandidatesAre, RowType DEF Rows
  <2> HIDE DEF C
  <2> QED
    BY <2>1
<1> HIDE DEF b, C
<1>4. IsFiniteSet(Timed(c))
  <2> DEFINE f == [i \in 1..m |-> b[i].student]
  <2>1. /\ \A i \in 1..m : f[i] \in Timed(c)
        /\ \A s \in Timed(c) : \E i \in 1..m : f[i] = s
        /\ \A i, j \in 1..m : f[i] = f[j] => i = j
    BY <1>1, <1>2
  <2> HIDE DEF f
  <2> QED
    BY <2>1, CountPositions
<1>5. ASSUME NEW s \in Timed(c)
      PROVE  /\ BestTimes(c)[s] \in Nat \ {0}
             /\ \E a \in C : a.student = s /\ a.time = BestTimes(c)[s]
             /\ \A a \in C : a.student = s => BestTimes(c)[s] <= a.time
  <2>1. PICK i \in 1..m : b[i].student = s
    BY <1>2
  <2>2. BestTimes(c)[s] = b[i].time /\ b[i] \in C
    BY <1>1, <1>2, <2>1
  <2>3. ASSUME NEW a \in C, a.student = s PROVE b[i].time <= a.time
    <3>1. PICK j \in 1..m : b[j].student = a.student /\ b[j].time <= a.time
      BY <1>1
    <3>2. j = i
      BY <1>1, <2>1, <2>3, <3>1
    <3> QED
      BY <3>1, <3>2
  <2> QED
    BY <1>3, <2>1, <2>2, <2>3
<1> QED
  BY <1>4, <1>5 DEF C

(* What an entry of the ranking says.                                      *)
LEMMA EntryIs ==
  ASSUME Rows(results), NEW c \in PoolCourse, NEW e \in Rs!Ranking(c)
  PROVE  /\ e.student \in Timed(c) /\ e.student \in Result
         /\ e.time = BestTimes(c)[e.student]
         /\ e.rank = 1 => \A a \in Rs!Candidates(c) : e.time <= a.time
<1> DEFINE slower(s) == {o \in Timed(c) : BestTimes(c)[o] < BestTimes(c)[s]}
<1>1. PICK s \in Timed(c) :
        e = [student |-> s, time |-> BestTimes(c)[s], rank |-> 1 + Cardinality(slower(s))]
  BY RankingHolds
<1>2. e.student = s /\ e.time = BestTimes(c)[s] /\ e.rank = 1 + Cardinality(slower(s))
  BY <1>1
<1>3. ASSUME e.rank = 1, NEW a \in Rs!Candidates(c) PROVE e.time <= a.time
  <2>1. IsFiniteSet(slower(s)) /\ Cardinality(slower(s)) \in Nat
    BY BestTimesAreLeast, FS_Subset, FS_CardinalityType
  <2>2. Cardinality(slower(s)) = 0
    BY <1>2, <1>3, <2>1
  <2>3. slower(s) = {}
    BY <2>1, <2>2, FS_EmptySet
  <2>4. a.student \in Timed(c)
    <3>1. a.student \in Result
      BY CandidatesAre, RowType DEF Rows
    <3> QED
      BY <3>1 DEF Timed, Times
  <2>5. ~(BestTimes(c)[a.student] < BestTimes(c)[s])
    BY <2>3, <2>4
  <2>6. /\ BestTimes(c)[a.student] \in Nat /\ BestTimes(c)[s] \in Nat
        /\ BestTimes(c)[a.student] <= a.time
    BY <2>4, BestTimesAreLeast
  <2>7. a.time \in Nat
    BY CandidatesAre, RowType DEF Rows
  <2> QED
    BY <1>2, <2>5, <2>6, <2>7
<1> QED
  BY <1>2, <1>3 DEF Timed

(* The record of a course is the time of the first in its ranking.         *)
LEMMA RecordIsFirst ==
  ASSUME Rows(results), NEW c \in PoolCourse, NEW e \in Rs!Ranking(c), e.rank = 1,
         NEW r \in Rs!Records, r.course = c
  PROVE  r.time = e.time
<1> DEFINE U == UNION {Rs!Candidates(d) : d \in PoolCourse}
           R == Fastest(U)
           s == Rs!InOrder(U, Rs!Faster)
           n == Cardinality(U)
           b == Rs!FirstOfEach(s, "course")
<1>1. Rows(U)
  <2>1. U \in SUBSET results
    BY CandidatesAre
  <2> QED
    BY <2>1, PartOfRows
<1>2. Enumerates(s, R, U)
  BY <1>1, FasterEnumerates
<1>3. /\ n \in Nat /\ s \in [1..n -> U]
      /\ \A i, j \in 1..n : i < j => <<s[i], s[j]>> \in R
      /\ \A x \in U : \E i \in 1..n : s[i] = x
  <2>1. IsFiniteSet(U) /\ IsOrder(R, U)
    BY <1>1, FastestOrder DEF Rows
  <2> HIDE DEF U, R, s
  <2> QED
    BY <1>2, <2>1, EnumeratesAll DEF Enumerates
<1>4. \A x \in U : x.time \in Nat /\ x \in Rs!Row
  BY <1>1, RowType DEF Rows
<1>5. \A x, y : <<x, y>> \in R => x.time <= y.time
  <2> SUFFICES ASSUME NEW x, NEW y, <<x, y>> \in R PROVE x.time <= y.time
    OBVIOUS
  <2>1. x \in U /\ y \in U /\ Rs!Faster(x, y)
    BY DEF Fastest
  <2> HIDE DEF U
  <2> QED
    BY <1>4, <2>1, FasterIs
<1> HIDE DEF R, s, n
<1>6. b \in Seq(U) /\ Firsts(b, s, n, R, "course")
  <2> HIDE DEF U
  <2> QED
    BY <1>3, FirstOfEachFirsts
<1>7. Rs!Records = Rs!ToSet(b)
  BY DEF Rs!Records, s, U
<1> HIDE DEF b
<1>8. PICK i \in DOMAIN b : b[i] = r
  BY <1>7 DEF Rs!ToSet
<1>9. r \in U
  BY <1>6, <1>8
<1>10. ASSUME NEW a \in Rs!Candidates(c) PROVE r.time <= a.time
  <2>1. a \in U /\ a.course = c
    BY CandidatesAre
  <2> HIDE DEF U
  <2>2. PICK p \in 1..n : s[p] = a
    BY <1>3, <2>1
  <2>3. PICK j \in DOMAIN b : b[j]["course"] = a["course"] /\ (b[j] = a \/ <<b[j], a>> \in R)
    BY <1>6, <2>2 DEF Firsts
  <2>4. b[j]["course"] = b[i]["course"]
    BY <1>8, <2>1, <2>3
  <2>5. j = i
    BY <1>6, <2>4 DEF Firsts
  <2> QED
    BY <1>4, <1>5, <1>8, <1>9, <2>1, <2>3, <2>5
<1>11. r \in Rs!Candidates(c)
  <2>1. PICK d \in PoolCourse : r \in Rs!Candidates(d)
    BY <1>9
  <2> QED
    BY <2>1, CandidatesAre
<1>12. /\ \A a \in Rs!Candidates(c) : e.time <= a.time
       /\ \E a \in Rs!Candidates(c) : a.time = e.time
       /\ e.time \in Nat
  BY EntryIs, BestTimesAreLeast
<1>13. r.time \in Nat
  BY <1>4, <1>9
<1> QED
  BY <1>10, <1>11, <1>12, <1>13

(* The summary: what it does with one more result.                         *)
Improve(acc, a) ==
  LET best == acc.best[a.student] IN
  IF best # 0 /\ a.time >= best THEN acc
  ELSE [best |-> [acc.best EXCEPT ![a.student] = a.time],
        improvements |-> acc.improvements + (IF best = 0 THEN 0 ELSE 1)]

NoBests == [best |-> [s \in Result |-> 0], improvements |-> 0]

ImprovesTo(g, s) ==
  g = [S \in SUBSET DOMAIN s |->
         IF S = {} THEN NoBests ELSE Improve(g[S \ {Rs!Max(S)}], s[Rs!Max(S)])]

ImprovesSteps(h, n, s) ==
  /\ h[0] = NoBests
  /\ \A k \in 1..n : h[k] = Improve(h[k - 1], s[k])

(* The results of a course in the order of their dates.                    *)
InTime(c) == Rs!InOrder(Rs!Candidates(c), Rs!Older)

LEMMA SummaryIs ==
  ASSUME NEW c, \E g : ImprovesTo(g, InTime(c))
  PROVE  \E g : ImprovesTo(g, InTime(c)) /\ Rs!Summary(c) = g[DOMAIN InTime(c)]
<1> DEFINE s == InTime(c)
<1> HIDE DEF s
<1> SUFFICES ASSUME \E g : ImprovesTo(g, s)
             PROVE  \E g : ImprovesTo(g, s) /\ Rs!Summary(c) = g[DOMAIN s]
  BY DEF s
<1> QED
  BY DEF Rs!Summary, Rs!ByDate, Rs!FoldLeft, Rs!MapThenFoldSet, ImprovesTo, Improve, NoBests,
         InTime, s

Sums == [best : [Result -> Nat], improvements : Nat]

LEMMA ImproveType ==
  ASSUME NEW acc \in Sums, NEW a, a.student \in Result, a.time \in Nat
  PROVE  Improve(acc, a) \in Sums
<1> DEFINE best == acc.best[a.student]
           more == [acc.best EXCEPT ![a.student] = a.time]
           step == IF best = 0 THEN 0 ELSE 1
<1>1. more \in [Result -> Nat] /\ step \in Nat /\ acc.improvements \in Nat
  BY DEF Sums
<1>2. acc.improvements + step \in Nat
  BY <1>1
<1>3. Improve(acc, a) \in {acc, [best |-> more, improvements |-> acc.improvements + step]}
  BY DEF Improve
<1> HIDE DEF more, step
<1>4. [best |-> more, improvements |-> acc.improvements + step] \in Sums
  BY <1>1, <1>2 DEF Sums
<1> QED
  BY <1>3, <1>4

(* The fold of a sequence of results of students.                          *)
LEMMA SummaryHasSteps ==
  ASSUME NEW c, NEW n \in Nat, DOMAIN InTime(c) = 1..n,
         \A k \in 1..n : InTime(c)[k].student \in Result /\ InTime(c)[k].time \in Nat
  PROVE  \E h : ImprovesSteps(h, n, InTime(c)) /\ Rs!Summary(c) = h[n]
<1> DEFINE s == InTime(c)
           F == [p \in (1..n) \X Sums |-> Improve(p[2], s[p[1]])]
<1> HIDE DEF s
<1>1. \A k \in 1..n, acc \in Sums :
        F[<<k, acc>>] = Improve(acc, s[k]) /\ F[<<k, acc>>] \in Sums
  <2> SUFFICES ASSUME NEW k \in 1..n, NEW acc \in Sums
               PROVE  F[<<k, acc>>] = Improve(acc, s[k]) /\ F[<<k, acc>>] \in Sums
    OBVIOUS
  <2>1. F[<<k, acc>>] = Improve(acc, s[k])
    OBVIOUS
  <2> QED
    BY <2>1, ImproveType DEF s
<1>2. F \in [(1..n) \X Sums -> Sums]
  <2>1. ASSUME NEW p \in (1..n) \X Sums PROVE F[p] \in Sums
    <3>1. PICK k \in 1..n, acc \in Sums : p = <<k, acc>>
      OBVIOUS
    <3> HIDE DEF F
    <3> QED
      BY <1>1, <3>1
  <2> QED
    BY <2>1
<1> HIDE DEF F
<1>3. NoBests \in Sums
  BY DEF NoBests, Sums
<1>4. PICK g \in [SUBSET (1..n) -> Sums] : Folds(g, n, NoBests, F)
  BY <1>2, <1>3, FoldExists
<1>5. \A S \in SUBSET (1..n) :
        g[S] = IF S = {} THEN NoBests ELSE Improve(g[S \ {Rs!Max(S)}], s[Rs!Max(S)])
  <2> SUFFICES ASSUME NEW S \in SUBSET (1..n), S # {}
               PROVE  g[S] = Improve(g[S \ {Rs!Max(S)}], s[Rs!Max(S)])
    BY <1>4 DEF Folds
  <2>1. Rs!Max(S) \in 1..n /\ g[S \ {Rs!Max(S)}] \in Sums
    BY LastPosition
  <2> QED
    BY <1>1, <1>4, <2>1 DEF Folds
<1>6. \E f : ImprovesTo(f, s)
  <2>1. ImprovesTo(g, s)
    BY <1>5 DEF ImprovesTo, s
  <2> QED
    BY <2>1
<1>7. PICK f : ImprovesTo(f, s) /\ Rs!Summary(c) = f[1..n]
  BY <1>6, SummaryIs DEF s
<1>8. \A S \in SUBSET (1..n) :
        f[S] = IF S = {} THEN NoBests ELSE Improve(f[S \ {Rs!Max(S)}], s[Rs!Max(S)])
  <2>1. f = [S \in SUBSET (1..n) |->
               IF S = {} THEN NoBests ELSE Improve(f[S \ {Rs!Max(S)}], s[Rs!Max(S)])]
    BY <1>7 DEF ImprovesTo, s
  <2> QED
    BY <2>1
<1> DEFINE h == [k \in 0..n |-> f[1..k]]
<1>9. h[0] = NoBests
  <2>1. h[0] = f[1..0]
    OBVIOUS
  <2> QED
    BY <1>8, <2>1, Prefixes
<1>10. ASSUME NEW k \in 1..n PROVE h[k] = Improve(h[k - 1], s[k])
  <2>1. k \in 0..n /\ k - 1 \in 0..n
    OBVIOUS
  <2>2. h[k] = f[1..k] /\ h[k - 1] = f[1..(k - 1)]
    BY <2>1
  <2> HIDE DEF h
  <2>3. f[1..k] = Improve(f[(1..k) \ {Rs!Max(1..k)}], s[Rs!Max(1..k)])
    BY <1>8, Prefixes
  <2> QED
    BY <2>2, <2>3, Prefixes
<1>11. Rs!Summary(c) = h[n]
  BY <1>7
<1> HIDE DEF h
<1> QED
  BY <1>9, <1>10, <1>11 DEF ImprovesSteps, s

(* The result at p is faster than all earlier ones of its student, of      *)
(* which there are some.                                                   *)
Improves(s, p) ==
  /\ \E r \in 1..(p - 1) : s[r].student = s[p].student
  /\ \A r \in 1..(p - 1) : s[r].student = s[p].student => s[p].time < s[r].time

(* acc is the summary of the first k results.                              *)
SumsUpTo(acc, k, s) ==
  /\ acc \in Sums
  /\ \A st \in Result :
       \/ acc.best[st] = 0 /\ \A p \in 1..k : s[p].student # st
       \/ /\ \E p \in 1..k : s[p].student = st /\ s[p].time = acc.best[st]
          /\ \A p \in 1..k : s[p].student = st => acc.best[st] <= s[p].time
  /\ acc.improvements = Cardinality({p \in 1..k : Improves(s, p)})

(* One more result keeps the summary right for all read so far.            *)
LEMMA ImproveSumsUp ==
  ASSUME NEW n \in Nat, NEW s,
         \A p \in 1..n : s[p].student \in Result /\ s[p].time \in Nat \ {0},
         NEW k \in 0..(n - 1), NEW acc, SumsUpTo(acc, k, s)
  PROVE  SumsUpTo(Improve(acc, s[k + 1]), k + 1, s)
<1> DEFINE a == s[k + 1]
           me == a.student
           best == acc.best[me]
           new == Improve(acc, a)
           I(m) == {p \in 1..m : Improves(s, p)}
<1>1. /\ k \in Nat /\ k + 1 \in 1..n /\ (k + 1) - 1 = k
      /\ \A p \in 1..(k + 1) : p \in 1..k \/ p = k + 1
      /\ \A p \in 1..k : p \in 1..(k + 1) /\ p \in 1..n
  OBVIOUS
<1>2. me \in Result /\ a.time \in Nat \ {0} /\ best \in Nat /\ acc \in Sums
  BY <1>1 DEF SumsUpTo, Sums
<1>3. best = 0 <=> \A p \in 1..k : s[p].student # me
  BY <1>1, <1>2 DEF SumsUpTo
<1>4. best # 0 => /\ \E p \in 1..k : s[p].student = me /\ s[p].time = best
                  /\ \A p \in 1..k : s[p].student = me => best <= s[p].time
  BY <1>2 DEF SumsUpTo
<1>5. Improves(s, k + 1) <=> best # 0 /\ a.time < best
  <2>1. Improves(s, k + 1) <=>
          /\ \E r \in 1..k : s[r].student = me
          /\ \A r \in 1..k : s[r].student = me => a.time < s[r].time
    BY <1>1 DEF Improves
  <2>2. \A r \in 1..k : s[r].time \in Nat
    BY <1>1
  <2> HIDE DEF a, me, best
  <2> QED
    BY <1>2, <1>3, <1>4, <2>1, <2>2
<1>6. /\ IsFiniteSet(I(k)) /\ k + 1 \notin I(k) /\ Cardinality(I(k)) \in Nat
      /\ I(k + 1) = IF Improves(s, k + 1) THEN I(k) \cup {k + 1} ELSE I(k)
  <2>1. I(k) \in SUBSET (1..k) /\ IsFiniteSet(1..k)
    BY FS_Interval
  <2>2. IsFiniteSet(I(k)) /\ Cardinality(I(k)) \in Nat
    <3> HIDE DEF I
    <3> QED BY <2>1, FS_Subset, FS_CardinalityType
  <2>3. \A p \in 1..(k + 1) : p \in I(k + 1) <=> p \in I(k) \/ (p = k + 1 /\ Improves(s, k + 1))
    BY <1>1
  <2> QED
    BY <1>1, <2>2, <2>3
<1>7. Cardinality(I(k + 1)) = Cardinality(I(k)) + IF Improves(s, k + 1) THEN 1 ELSE 0
  <2> HIDE DEF I
  <2>1. Cardinality(I(k) \cup {k + 1}) = Cardinality(I(k)) + 1
    BY <1>6, FS_AddElement
  <2>2. CASE Improves(s, k + 1)
    BY <1>6, <2>1, <2>2
  <2>3. CASE ~Improves(s, k + 1)
    BY <1>6, <2>3
  <2> QED
    BY <2>2, <2>3
<1>8. acc.improvements = Cardinality(I(k))
  BY DEF SumsUpTo
<1>9. new \in Sums
  BY <1>2, ImproveType
<1>10. CASE best # 0 /\ a.time >= best
  <2>1. new = acc
    BY <1>10 DEF Improve
  <2>2. ~Improves(s, k + 1)
    BY <1>2, <1>5, <1>10
  <2>3. \A st \in Result :
          \/ acc.best[st] = 0 /\ \A p \in 1..(k + 1) : s[p].student # st
          \/ /\ \E p \in 1..(k + 1) : s[p].student = st /\ s[p].time = acc.best[st]
             /\ \A p \in 1..(k + 1) : s[p].student = st => acc.best[st] <= s[p].time
    <3> SUFFICES ASSUME NEW st \in Result
                 PROVE
          \/ acc.best[st] = 0 /\ \A p \in 1..(k + 1) : s[p].student # st
          \/ /\ \E p \in 1..(k + 1) : s[p].student = st /\ s[p].time = acc.best[st]
             /\ \A p \in 1..(k + 1) : s[p].student = st => acc.best[st] <= s[p].time
      OBVIOUS
    <3>1. CASE st = me
      <4>1. \A p \in 1..(k + 1) : s[p].student = me => best <= s[p].time
        BY <1>1, <1>2, <1>4, <1>10
      <4> QED
        BY <1>1, <1>4, <1>10, <3>1, <4>1
    <3>2. CASE st # me
      BY <1>1, <3>2 DEF SumsUpTo
    <3> QED
      BY <3>1, <3>2
  <2>4. acc.improvements = Cardinality(I(k + 1))
    BY <1>6, <1>8, <2>2
  <2> QED
    BY <1>9, <2>1, <2>3, <2>4 DEF SumsUpTo
<1>11. CASE ~(best # 0 /\ a.time >= best)
  <2>1. new = [best |-> [acc.best EXCEPT ![me] = a.time],
               improvements |-> acc.improvements + (IF best = 0 THEN 0 ELSE 1)]
    BY <1>11 DEF Improve
  <2>2. /\ new.best[me] = a.time
        /\ \A st \in Result : st # me => new.best[st] = acc.best[st]
        /\ new.improvements = acc.improvements + (IF best = 0 THEN 0 ELSE 1)
    BY <1>2, <2>1 DEF Sums
  <2>3. Improves(s, k + 1) <=> best # 0
    BY <1>2, <1>5, <1>11
  <2>4. new.improvements = Cardinality(I(k + 1))
    BY <1>6, <1>7, <1>8, <2>2, <2>3
  <2> HIDE DEF new
  <2>5. \A st \in Result :
          \/ new.best[st] = 0 /\ \A p \in 1..(k + 1) : s[p].student # st
          \/ /\ \E p \in 1..(k + 1) : s[p].student = st /\ s[p].time = new.best[st]
             /\ \A p \in 1..(k + 1) : s[p].student = st => new.best[st] <= s[p].time
    <3> SUFFICES ASSUME NEW st \in Result
                 PROVE
          \/ new.best[st] = 0 /\ \A p \in 1..(k + 1) : s[p].student # st
          \/ /\ \E p \in 1..(k + 1) : s[p].student = st /\ s[p].time = new.best[st]
             /\ \A p \in 1..(k + 1) : s[p].student = st => new.best[st] <= s[p].time
      OBVIOUS
    <3>1. CASE st = me
      <4>1. \A p \in 1..k : s[p].student = me => a.time <= s[p].time
        <5>1. \A p \in 1..k : s[p].time \in Nat
          BY <1>1
        <5> HIDE DEF a, me, best
        <5> QED
          BY <1>2, <1>3, <1>4, <1>11, <5>1
      <4>2. \A p \in 1..(k + 1) : s[p].student = me => a.time <= s[p].time
        BY <1>1, <1>2, <4>1
      <4>3. k + 1 \in 1..(k + 1)
        BY <1>1
      <4> QED
        BY <2>2, <3>1, <4>2, <4>3
    <3>2. CASE st # me
      <4>1. new.best[st] = acc.best[st]
        BY <2>2, <3>2
      <4> QED
        BY <1>1, <3>2, <4>1 DEF SumsUpTo
    <3> QED
      BY <3>1, <3>2
  <2> QED
    BY <1>9, <2>4, <2>5 DEF SumsUpTo, new
<1> QED
  BY <1>10, <1>11

(* The results that were faster than all the student's before.             *)
Better(c) ==
  {a \in Rs!Candidates(c) :
     LET before == {b \in Rs!Candidates(c) : b.student = a.student /\ Rs!Older(b, a)}
     IN before # {} /\ \A b \in before : a.time < b.time}

(* Personal records are best times, and there were as many improvements as *)
(* results faster than all before them.                                    *)
LEMMA SummaryIsRight ==
  ASSUME Rows(results), NEW c
  PROVE  /\ \A st \in Timed(c) : Rs!Summary(c).best[st] = BestTimes(c)[st]
         /\ Rs!Summary(c).improvements = Cardinality(Better(c))
<1> DEFINE C == Rs!Candidates(c)
           R == Oldest(C)
           s == InTime(c)
           n == Cardinality(C)
           sum == Rs!Summary(c)
<1>1. Rows(C)
  BY CandidatesAre, PartOfRows
<1>2. /\ n \in Nat /\ s \in [1..n -> C]
      /\ \A x \in C : \E i \in 1..n : s[i] = x
      /\ \A i, j \in 1..n : s[i] = s[j] => i = j
      /\ \A i, j \in 1..n : i < j <=> Rs!Older(s[i], s[j])
  <2>1. IsFiniteSet(C) /\ IsOrder(R, C) /\ Enumerates(s, R, C)
    BY <1>1, OldestOrder, ByDateEnumerates DEF Rows, InTime
  <2>2. \A x, y \in C : <<x, y>> \in R <=> Rs!Older(x, y)
    BY DEF Oldest
  <2> HIDE DEF C, R, s
  <2>3. s \in [1..n -> C]
    BY <2>1 DEF Enumerates
  <2> HIDE DEF n
  <2>4. \A i \in 1..n : s[i] \in C
    BY <2>3
  <2>5. /\ n \in Nat
        /\ \A x \in C : \E i \in 1..n : s[i] = x
        /\ \A i, j \in 1..n : s[i] = s[j] => i = j
        /\ \A i, j \in 1..n : i < j <=> <<s[i], s[j]>> \in R
    BY <2>1, EnumeratesAll DEF n
  <2> QED
    BY <2>2, <2>3, <2>4, <2>5
<1>3. \A a \in C : a.student \in Result /\ a.time \in Nat \ {0}
  <2>1. \A a \in C : a.student \in Result /\ a.time \in Nat /\ a.time > 0
    BY CandidatesAre, RowType DEF Rows
  <2> HIDE DEF C
  <2> QED
    BY <2>1
<1> HIDE DEF C, R, s, n
<1>4. \A p \in 1..n : s[p].student \in Result /\ s[p].time \in Nat \ {0}
  BY <1>2, <1>3
<1>5. SumsUpTo(sum, n, s)
  <2>1. DOMAIN s = 1..n /\ \A p \in 1..n : s[p].student \in Result /\ s[p].time \in Nat
    BY <1>2, <1>4
  <2>2. PICK h : ImprovesSteps(h, n, s) /\ sum = h[n]
    BY <1>2, <2>1, SummaryHasSteps DEF s
  <2> DEFINE T == {k \in 0..n : SumsUpTo(h[k], k, s)}
  <2>3. 0 \in T
    <3>1. {p \in 1..0 : Improves(s, p)} = {}
      OBVIOUS
    <3>2. Cardinality({p \in 1..0 : Improves(s, p)}) = 0
      BY <3>1, FS_EmptySet
    <3>3. SumsUpTo(NoBests, 0, s)
      BY <3>2 DEF SumsUpTo, NoBests, Sums
    <3>4. h[0] = NoBests /\ 0 \in 0..n
      BY <1>2, <2>2 DEF ImprovesSteps
    <3> QED
      BY <3>3, <3>4
  <2>4. ASSUME NEW k \in 0..(n - 1), k \in T PROVE k + 1 \in T
    <3>1. k + 1 \in 1..n /\ (k + 1) - 1 = k /\ k + 1 \in 0..n
      BY <1>2
    <3>2. h[k + 1] = Improve(h[k], s[k + 1])
      BY <2>2, <3>1 DEF ImprovesSteps
    <3>3. SumsUpTo(h[k], k, s)
      BY <2>4
    <3>4. SumsUpTo(Improve(h[k], s[k + 1]), k + 1, s)
      BY <1>2, <1>4, <3>3, ImproveSumsUp
    <3> QED
      BY <3>1, <3>2, <3>4
  <2>5. 0..n \subseteq T
    <3> HIDE DEF T
    <3> QED BY <1>2, <2>3, <2>4, UpTo
  <2>6. n \in T
    BY <1>2, <2>5
  <2> QED
    BY <2>2, <2>6
<1>6. ASSUME NEW st \in Timed(c) PROVE sum.best[st] = BestTimes(c)[st]
  <2>1. /\ st \in Result /\ BestTimes(c)[st] \in Nat \ {0}
        /\ \E a \in C : a.student = st /\ a.time = BestTimes(c)[st]
        /\ \A a \in C : a.student = st => BestTimes(c)[st] <= a.time
    BY BestTimesAreLeast DEF Timed, C
  <2>2. PICK p \in 1..n : s[p].student = st /\ s[p].time = BestTimes(c)[st]
    BY <1>2, <2>1
  <2>3. \A q \in 1..n : s[q].student = st => BestTimes(c)[st] <= s[q].time
    BY <1>2, <2>1
  <2>4. /\ \E q \in 1..n : s[q].student = st /\ s[q].time = sum.best[st]
        /\ \A q \in 1..n : s[q].student = st => sum.best[st] <= s[q].time
    BY <1>5, <2>1, <2>2 DEF SumsUpTo
  <2> QED
    BY <1>4, <2>1, <2>2, <2>3, <2>4
<1>7. Cardinality({p \in 1..n : Improves(s, p)}) = Cardinality(Better(c))
  <2> DEFINE I == {p \in 1..n : Improves(s, p)}
             B == Better(c)
             f == [p \in I |-> s[p]]
  <2>1. ASSUME NEW p \in 1..n
        PROVE  /\ \A r \in 1..(p - 1) : r \in 1..n /\ Rs!Older(s[r], s[p])
               /\ \A b \in C : Rs!Older(b, s[p]) => \E r \in 1..(p - 1) : s[r] = b
    <3>1. \A r \in 1..(p - 1) : r \in 1..n /\ r < p
      BY <1>2
    <3>2. ASSUME NEW b \in C, Rs!Older(b, s[p]) PROVE \E r \in 1..(p - 1) : s[r] = b
      <4>1. PICK r \in 1..n : s[r] = b
        BY <1>2
      <4>2. r < p
        BY <1>2, <3>2, <4>1
      <4>3. r \in 1..(p - 1)
        BY <1>2, <4>2
      <4> QED
        BY <4>1, <4>3
    <3> QED
      BY <1>2, <3>1, <3>2
  <2>2. ASSUME NEW p \in 1..n PROVE Improves(s, p) <=> s[p] \in B
    <3> DEFINE before == {b \in C : b.student = s[p].student /\ Rs!Older(b, s[p])}
    <3>1. s[p] \in C
      BY <1>2
    <3>2. \A r \in 1..(p - 1) : s[r].student = s[p].student => s[r] \in before
      BY <1>2, <2>1
    <3>3. \A b \in before : \E r \in 1..(p - 1) : s[r] = b
      BY <2>1
    <3>4. s[p] \in B <=> before # {} /\ \A b \in before : s[p].time < b.time
      BY <3>1 DEF Better, C
    <3>5. \A b \in before : b.student = s[p].student
      OBVIOUS
    <3> HIDE DEF before, B
    <3> QED
      BY <3>2, <3>3, <3>4, <3>5 DEF Improves
  <2>3. \A b \in B : b \in C
    BY DEF Better, C
  <2> HIDE DEF B
  <2>4. f \in Bijection(I, B)
    <3>1. f \in [I -> B]
      BY <2>2
    <3>2. \A x, y \in I : f[x] = f[y] => x = y
      BY <1>2
    <3>3. \A b \in B : \E p \in I : f[p] = b
      BY <1>2, <2>2, <2>3
    <3> HIDE DEF f, I
    <3> QED
      BY <3>1, <3>2, <3>3 DEF Bijection, Injection, Surjection, IsInjective
  <2>5. IsFiniteSet(I)
    <3>1. I \in SUBSET (1..n) /\ IsFiniteSet(1..n)
      BY <1>2, FS_Interval
    <3> HIDE DEF I
    <3> QED BY <3>1, FS_Subset
  <2> HIDE DEF I, f
  <2>6. ExistsBijection(I, B)
    BY <2>4 DEF ExistsBijection
  <2>7. Cardinality(B) = Cardinality(I)
    BY <2>5, <2>6, FS_Bijection
  <2> QED
    BY <2>7 DEF I, B
<1>8. sum.improvements = Cardinality({p \in 1..n : Improves(s, p)})
  BY <1>5 DEF SumsUpTo
<1> QED
  BY <1>6, <1>7, <1>8

(* The evolution: what it does with one more result.                       *)
Keep(best, a) ==
  IF best[a.student][a.day] = 0 \/ a.time < best[a.student][a.day]
  THEN [best EXCEPT ![a.student][a.day] = a.time] ELSE best

NoTimes == [s \in Result |-> [d \in Day |-> 0]]

KeepsTo(g, s) ==
  g = [S \in SUBSET DOMAIN s |->
         IF S = {} THEN NoTimes ELSE Keep(g[S \ {Rs!Max(S)}], s[Rs!Max(S)])]

KeepsSteps(h, n, s) ==
  /\ h[0] = NoTimes
  /\ \A k \in 1..n : h[k] = Keep(h[k - 1], s[k])

LEMMA EvolutionIs ==
  ASSUME NEW c, \E g : KeepsTo(g, InTime(c))
  PROVE  \E g : KeepsTo(g, InTime(c)) /\ Rs!Evolution(c) = g[DOMAIN InTime(c)]
<1> DEFINE s == InTime(c)
<1> HIDE DEF s
<1> SUFFICES ASSUME \E g : KeepsTo(g, s)
             PROVE  \E g : KeepsTo(g, s) /\ Rs!Evolution(c) = g[DOMAIN s]
  BY DEF s
<1> QED
  BY DEF Rs!Evolution, Rs!FoldLeft, Rs!MapThenFoldSet, KeepsTo, Keep, NoTimes, InTime, s

Table == [Result -> [Day -> Nat]]

(* One more result changes the month it belongs to, if that.               *)
LEMMA KeepIs ==
  ASSUME NEW best \in Table, NEW a, a.student \in Result, a.day \in Day, a.time \in Nat
  PROVE  /\ Keep(best, a) \in Table
         /\ \A st \in Result, d \in Day :
              Keep(best, a)[st][d] =
                IF st = a.student /\ d = a.day
                   /\ (best[st][d] = 0 \/ a.time < best[st][d])
                THEN a.time ELSE best[st][d]
<1> DEFINE more == [best EXCEPT ![a.student][a.day] = a.time]
<1>1. /\ more \in Table
      /\ \A st \in Result, d \in Day :
           more[st][d] = IF st = a.student /\ d = a.day THEN a.time ELSE best[st][d]
  BY DEF Table
<1>2. CASE best[a.student][a.day] = 0 \/ a.time < best[a.student][a.day]
  <2>1. Keep(best, a) = more
    BY <1>2 DEF Keep
  <2> HIDE DEF more
  <2> QED
    BY <1>1, <1>2, <2>1
<1>3. CASE ~(best[a.student][a.day] = 0 \/ a.time < best[a.student][a.day])
  <2>1. Keep(best, a) = best
    BY <1>3 DEF Keep
  <2> HIDE DEF more
  <2> QED
    BY <1>3, <2>1
<1> QED
  BY <1>2, <1>3

LEMMA EvolutionHasSteps ==
  ASSUME NEW c, NEW n \in Nat, DOMAIN InTime(c) = 1..n,
         \A k \in 1..n : /\ InTime(c)[k].student \in Result /\ InTime(c)[k].day \in Day
                         /\ InTime(c)[k].time \in Nat
  PROVE  \E h : KeepsSteps(h, n, InTime(c)) /\ Rs!Evolution(c) = h[n]
<1> DEFINE s == InTime(c)
           F == [p \in (1..n) \X Table |-> Keep(p[2], s[p[1]])]
<1> HIDE DEF s
<1>1. \A k \in 1..n, acc \in Table :
        F[<<k, acc>>] = Keep(acc, s[k]) /\ F[<<k, acc>>] \in Table
  <2> SUFFICES ASSUME NEW k \in 1..n, NEW acc \in Table
               PROVE  F[<<k, acc>>] = Keep(acc, s[k]) /\ F[<<k, acc>>] \in Table
    OBVIOUS
  <2>1. F[<<k, acc>>] = Keep(acc, s[k])
    OBVIOUS
  <2> QED
    BY <2>1, KeepIs DEF s
<1>2. F \in [(1..n) \X Table -> Table]
  <2>1. ASSUME NEW p \in (1..n) \X Table PROVE F[p] \in Table
    <3>1. PICK k \in 1..n, acc \in Table : p = <<k, acc>>
      OBVIOUS
    <3> HIDE DEF F
    <3> QED
      BY <1>1, <3>1
  <2> QED
    BY <2>1
<1> HIDE DEF F
<1>3. NoTimes \in Table
  BY DEF NoTimes, Table
<1>4. PICK g \in [SUBSET (1..n) -> Table] : Folds(g, n, NoTimes, F)
  BY <1>2, <1>3, FoldExists
<1>5. \A S \in SUBSET (1..n) :
        g[S] = IF S = {} THEN NoTimes ELSE Keep(g[S \ {Rs!Max(S)}], s[Rs!Max(S)])
  <2> SUFFICES ASSUME NEW S \in SUBSET (1..n), S # {}
               PROVE  g[S] = Keep(g[S \ {Rs!Max(S)}], s[Rs!Max(S)])
    BY <1>4 DEF Folds
  <2>1. Rs!Max(S) \in 1..n /\ g[S \ {Rs!Max(S)}] \in Table
    BY LastPosition
  <2> QED
    BY <1>1, <1>4, <2>1 DEF Folds
<1>6. \E f : KeepsTo(f, s)
  <2>1. KeepsTo(g, s)
    BY <1>5 DEF KeepsTo, s
  <2> QED
    BY <2>1
<1>7. PICK f : KeepsTo(f, s) /\ Rs!Evolution(c) = f[1..n]
  BY <1>6, EvolutionIs DEF s
<1>8. \A S \in SUBSET (1..n) :
        f[S] = IF S = {} THEN NoTimes ELSE Keep(f[S \ {Rs!Max(S)}], s[Rs!Max(S)])
  <2>1. f = [S \in SUBSET (1..n) |->
               IF S = {} THEN NoTimes ELSE Keep(f[S \ {Rs!Max(S)}], s[Rs!Max(S)])]
    BY <1>7 DEF KeepsTo, s
  <2> QED
    BY <2>1
<1> DEFINE h == [k \in 0..n |-> f[1..k]]
<1>9. h[0] = NoTimes
  <2>1. h[0] = f[1..0]
    OBVIOUS
  <2> QED
    BY <1>8, <2>1, Prefixes
<1>10. ASSUME NEW k \in 1..n PROVE h[k] = Keep(h[k - 1], s[k])
  <2>1. k \in 0..n /\ k - 1 \in 0..n
    OBVIOUS
  <2>2. h[k] = f[1..k] /\ h[k - 1] = f[1..(k - 1)]
    BY <2>1
  <2> HIDE DEF h
  <2>3. f[1..k] = Keep(f[(1..k) \ {Rs!Max(1..k)}], s[Rs!Max(1..k)])
    BY <1>8, Prefixes
  <2> QED
    BY <2>2, <2>3, Prefixes
<1>11. Rs!Evolution(c) = h[n]
  BY <1>7
<1> HIDE DEF h
<1> QED
  BY <1>9, <1>10, <1>11 DEF KeepsSteps, s

(* best is the evolution of the first k results.                           *)
LeastSoFar(best, k, s) ==
  /\ best \in Table
  /\ \A st \in Result, d \in Day :
       \/ best[st][d] = 0
       \/ \E p \in 1..k : s[p].student = st /\ s[p].time = best[st][d]
  /\ \A p \in 1..k : LET least == best[s[p].student][s[p].day]
                     IN least # 0 /\ least <= s[p].time

(* One more result keeps the evolution right for all read so far.          *)
LEMMA KeepKeepsLeast ==
  ASSUME NEW n \in Nat, NEW s,
         \A p \in 1..n : /\ s[p].student \in Result /\ s[p].day \in Day
                         /\ s[p].time \in Nat \ {0},
         NEW k \in 0..(n - 1), NEW best, LeastSoFar(best, k, s)
  PROVE  LeastSoFar(Keep(best, s[k + 1]), k + 1, s)
<1> DEFINE a == s[k + 1]
           new == Keep(best, a)
<1>1. /\ k + 1 \in 1..n /\ k + 1 \in 1..(k + 1)
      /\ \A p \in 1..(k + 1) : p \in 1..k \/ p = k + 1
      /\ \A p \in 1..k : p \in 1..(k + 1) /\ p \in 1..n
  OBVIOUS
<1>2. a.student \in Result /\ a.day \in Day /\ a.time \in Nat \ {0} /\ best \in Table
  BY <1>1 DEF LeastSoFar
<1>3. /\ new \in Table
      /\ \A st \in Result, d \in Day :
           new[st][d] = IF st = a.student /\ d = a.day
                           /\ (best[st][d] = 0 \/ a.time < best[st][d])
                        THEN a.time ELSE best[st][d]
  BY <1>2, KeepIs
<1> HIDE DEF new
<1>4. ASSUME NEW st \in Result, NEW d \in Day
      PROVE  \/ new[st][d] = 0
             \/ \E p \in 1..(k + 1) : s[p].student = st /\ s[p].time = new[st][d]
  <2>1. CASE new[st][d] = best[st][d]
    BY <1>1, <2>1 DEF LeastSoFar
  <2>2. CASE new[st][d] # best[st][d]
    <3>1. st = a.student /\ new[st][d] = a.time
      BY <1>3, <2>2
    <3> QED
      BY <1>1, <3>1
  <2> QED
    BY <2>1, <2>2
<1>5. ASSUME NEW p \in 1..(k + 1)
      PROVE  /\ new[s[p].student][s[p].day] # 0
             /\ new[s[p].student][s[p].day] <= s[p].time
  <2> DEFINE st == s[p].student
             d == s[p].day
  <2>1. st \in Result /\ d \in Day /\ s[p].time \in Nat \ {0} /\ best[st][d] \in Nat
    BY <1>1, <1>2 DEF Table
  <2>2. CASE p \in 1..k
    <3>1. best[st][d] # 0 /\ best[st][d] <= s[p].time
      BY <2>2 DEF LeastSoFar
    <3>2. new[st][d] = best[st][d] \/ (new[st][d] = a.time /\ a.time < best[st][d])
      BY <1>3, <2>1, <3>1
    <3> HIDE DEF st, d, a
    <3> QED
      BY <1>2, <2>1, <3>1, <3>2 DEF st, d
  <2>3. CASE p = k + 1
    <3>1. st = a.student /\ d = a.day /\ s[p].time = a.time
      BY <2>3
    <3>2. new[st][d] = IF best[st][d] = 0 \/ a.time < best[st][d] THEN a.time ELSE best[st][d]
      BY <1>3, <2>1, <3>1
    <3> HIDE DEF st, d, a
    <3> QED
      BY <1>2, <2>1, <3>1, <3>2 DEF st, d
  <2> QED
    BY <1>1, <2>2, <2>3
<1>6. LeastSoFar(new, k + 1, s)
  BY <1>3, <1>4, <1>5 DEF LeastSoFar
<1> QED
  BY <1>6 DEF new

(* The best of a student's months is the student's best time.              *)
LEMMA EvolutionIsRight ==
  ASSUME Rows(results), NEW c, NEW st \in Timed(c)
  PROVE  /\ \E d \in Day : Rs!Evolution(c)[st][d] = BestTimes(c)[st]
         /\ \A d \in Day : \/ Rs!Evolution(c)[st][d] = 0
                           \/ /\ Rs!Evolution(c)[st][d] \in Time
                              /\ Rs!Evolution(c)[st][d] >= BestTimes(c)[st]
<1> DEFINE C == Rs!Candidates(c)
           R == Oldest(C)
           s == InTime(c)
           n == Cardinality(C)
           E == Rs!Evolution(c)
<1>1. Rows(C)
  BY CandidatesAre, PartOfRows
<1>2. n \in Nat /\ s \in [1..n -> C] /\ \A x \in C : \E i \in 1..n : s[i] = x
  <2>1. IsFiniteSet(C) /\ IsOrder(R, C) /\ Enumerates(s, R, C)
    BY <1>1, OldestOrder, ByDateEnumerates DEF Rows, InTime
  <2> HIDE DEF C, R, s
  <2>2. s \in [1..n -> C]
    BY <2>1 DEF Enumerates
  <2> QED
    BY <2>1, <2>2, EnumeratesAll
<1>3. \A a \in C : a.student \in Result /\ a.day \in Day /\ a.time \in Nat \ {0} /\ a.time \in Time
  <2>1. \A a \in C : /\ a.student \in Result /\ a.day \in Day /\ a.time \in Nat /\ a.time > 0
                     /\ a.time \in Time \cup {0}
    BY CandidatesAre, RowType DEF Rows
  <2> HIDE DEF C
  <2>2. \A a \in C : a.time \in Time \/ a.time \in {0}
    BY <2>1
  <2> QED
    BY <2>1, <2>2
<1> HIDE DEF C, R, s, n
<1>4. \A p \in 1..n : /\ s[p].student \in Result /\ s[p].day \in Day
                      /\ s[p].time \in Nat \ {0}
  BY <1>2, <1>3
<1>5. LeastSoFar(E, n, s)
  <2>1. /\ DOMAIN s = 1..n
        /\ \A p \in 1..n : s[p].student \in Result /\ s[p].day \in Day /\ s[p].time \in Nat
    BY <1>2, <1>4
  <2>2. PICK h : KeepsSteps(h, n, s) /\ E = h[n]
    BY <1>2, <2>1, EvolutionHasSteps DEF s
  <2> DEFINE T == {k \in 0..n : LeastSoFar(h[k], k, s)}
  <2>3. 0 \in T
    <3>1. LeastSoFar(NoTimes, 0, s)
      BY DEF LeastSoFar, NoTimes, Table
    <3>2. h[0] = NoTimes /\ 0 \in 0..n
      BY <1>2, <2>2 DEF KeepsSteps
    <3> QED
      BY <3>1, <3>2
  <2>4. ASSUME NEW k \in 0..(n - 1), k \in T PROVE k + 1 \in T
    <3>1. k + 1 \in 1..n /\ (k + 1) - 1 = k /\ k + 1 \in 0..n
      BY <1>2
    <3>2. h[k + 1] = Keep(h[k], s[k + 1])
      BY <2>2, <3>1 DEF KeepsSteps
    <3>3. LeastSoFar(h[k], k, s)
      BY <2>4
    <3>4. LeastSoFar(Keep(h[k], s[k + 1]), k + 1, s)
      BY <1>2, <1>4, <3>3, KeepKeepsLeast
    <3> QED
      BY <3>1, <3>2, <3>4
  <2>5. 0..n \subseteq T
    <3> HIDE DEF T
    <3> QED BY <1>2, <2>3, <2>4, UpTo
  <2>6. n \in T
    BY <1>2, <2>5
  <2> QED
    BY <2>2, <2>6
<1>6. /\ st \in Result /\ BestTimes(c)[st] \in Nat \ {0}
      /\ \E a \in C : a.student = st /\ a.time = BestTimes(c)[st]
      /\ \A a \in C : a.student = st => BestTimes(c)[st] <= a.time
  BY BestTimesAreLeast DEF Timed, C
<1> HIDE DEF E
<1>7. ASSUME NEW d \in Day
      PROVE  E[st][d] = 0 \/ (E[st][d] \in Time /\ E[st][d] >= BestTimes(c)[st])
  <2> SUFFICES ASSUME E[st][d] # 0
               PROVE  E[st][d] \in Time /\ E[st][d] >= BestTimes(c)[st]
    OBVIOUS
  <2>1. PICK p \in 1..n : s[p].student = st /\ s[p].time = E[st][d]
    BY <1>5, <1>6 DEF LeastSoFar
  <2>2. s[p] \in C
    BY <1>2
  <2> QED
    BY <1>3, <1>6, <2>1, <2>2
<1>8. \E d \in Day : E[st][d] = BestTimes(c)[st]
  <2>1. PICK a \in C : a.student = st /\ a.time = BestTimes(c)[st]
    BY <1>6
  <2>2. PICK p \in 1..n : s[p] = a
    BY <1>2
  <2>3. a.day \in Day /\ E[st][a.day] # 0 /\ E[st][a.day] <= BestTimes(c)[st]
    BY <1>3, <1>5, <2>1, <2>2 DEF LeastSoFar
  <2>4. E[st][a.day] >= BestTimes(c)[st] /\ E[st][a.day] \in Nat
    BY <1>5, <1>6, <1>7, <2>3 DEF LeastSoFar, Table
  <2>5. E[st][a.day] = BestTimes(c)[st]
    BY <1>6, <2>3, <2>4
  <2> QED
    BY <2>3, <2>5
<1> QED
  BY <1>7, <1>8 DEF E

LEMMA RoutesFollow == Rows(results) => RoutesAgree
<1> SUFFICES ASSUME Rows(results) PROVE RoutesAgree
  OBVIOUS
<1>1. \A q \in Rs!Query : Rs!FoldFunction(+, 0, Rs!Distribution(q)) = Rs!Total(q)
  BY DistributionAddsUp
<1>2. \A c \in PoolCourse : c \in Rs!Contexts <=> Rs!Ranking(c) # {}
  BY ContextsRank
<1>3. ASSUME NEW c \in PoolCourse, NEW e \in Rs!Ranking(c)
      PROVE  /\ Rs!Summary(c).best[e.student] = e.time
             /\ \E d \in Day : Rs!Evolution(c)[e.student][d] = e.time
             /\ \A d \in Day : Rs!Evolution(c)[e.student][d] \in {0} \cup {t \in Time : t >= e.time}
             /\ e.rank = 1 => \A r \in Rs!Records : r.course = c => r.time = e.time
  <2>1. e.student \in Timed(c) /\ e.time = BestTimes(c)[e.student]
    BY EntryIs
  <2>2. Rs!Summary(c).best[e.student] = e.time
    BY <2>1, SummaryIsRight
  <2>3. /\ \E d \in Day : Rs!Evolution(c)[e.student][d] = e.time
        /\ \A d \in Day : \/ Rs!Evolution(c)[e.student][d] = 0
                          \/ /\ Rs!Evolution(c)[e.student][d] \in Time
                             /\ Rs!Evolution(c)[e.student][d] >= e.time
    BY <2>1, EvolutionIsRight
  <2>4. e.rank = 1 => \A r \in Rs!Records : r.course = c => r.time = e.time
    BY RecordIsFirst
  <2> QED
    BY <2>2, <2>3, <2>4
<1>4. \A c \in PoolCourse : Rs!Summary(c).improvements = Rs!Cardinality(Better(c))
  BY SummaryIsRight, Counting
<1> QED
  BY <1>1, <1>2, <1>3, <1>4, FiltersFind DEF RoutesAgree, Rs!RoutesAgree, Better

(* The routes agree: a rank stands on the student's personal record, which *)
(* is the best of its months; the record of a course is the time ranked    *)
(* first in it; the improvements counted are the results faster than all   *)
(* before them; a course is offered when somebody is ranked in it, a       *)
(* filter when it finds a result; and the distribution adds up to the      *)
(* total of the list.                                                      *)
THEOREM RoutesTellOneStory == Rs!Spec => []RoutesAgree
BY RowsHold, RoutesFollow, PTL
=============================================================================
