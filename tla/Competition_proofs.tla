------------------------- MODULE Competition_proofs -------------------------
(***************************************************************************)
(* Proofs about what is competed for: the events with their results and    *)
(* races (Competition), and the seasons.  They hold for all values of the  *)
(* sets that Club declares, when ids of events are ordered.                *)
(***************************************************************************)
EXTENDS Club, Sequences, FiniteSetTheorems, TLAPS

-----------------------------------------------------------------------------
(* Seasons                                                                 *)

SeIInv ==
  /\ season = [s \in Left |-> season[s]]
  /\ \A s, t \in Se!Active : s = t

(* At most one season is active, whatever two administrators write: the    *)
(* index refuses the second, which its check did not see.                  *)
THEOREM SeasonsHaveOneActive == Se!Spec => []OneActiveSeason
<1>1. Se!Init => SeIInv
  BY DEF Se!Init, SeIInv, Se!Active
<1>2. SeIInv /\ [Se!Next]_(Se!vars) => SeIInv'
  <2> SUFFICES ASSUME SeIInv, [Se!Next]_(Se!vars) PROVE SeIInv'
    OBVIOUS
  <2>1. CASE season' = season
    BY <2>1 DEF SeIInv, Se!Active
  <2>2. ASSUME NEW p \in Request, Se!WriteSeason(p), season' # season PROVE SeIInv'
    <3>1. PICK w \in seasonReq[p] :
            /\ Se!OneActiveAfter(w.season, w.row)
            /\ season' = [season EXCEPT ![w.season] = {w.row}]
      BY <2>2 DEF Se!WriteSeason
    <3>2. \A s \in Left : season'[s] = IF s = w.season THEN {w.row} ELSE season[s]
      BY <3>1 DEF SeIInv
    <3>3. season' = [s \in Left |-> season'[s]]
      BY <3>1 DEF SeIInv
    <3>4. \A s \in Se!Active' :
            \/ s = w.season /\ w.row.status = "ACTIVE"
            \/ s # w.season /\ s \in Se!Active
      BY <3>2 DEF Se!Active
    <3>5. w.row.status = "ACTIVE" => \A t \in Se!Active : t = w.season
      BY <3>1 DEF Se!OneActiveAfter, Se!Active
    <3> QED
      BY <3>3, <3>4, <3>5 DEF SeIInv
  <2> QED
    BY <2>1, <2>2 DEF Se!Next, Se!vars, Se!CheckCreate, Se!CheckUpdate, Se!CheckResult,
       Se!CheckCategory, Se!Pass, Se!WriteResult, Se!WriteCategory, Se!DeleteResult, Se!Abort
<1>3. SeIInv => OneActiveSeason
  <2> SUFFICES ASSUME SeIInv PROVE Cardinality(Se!Active) <= 1
    BY DEF OneActiveSeason, Se!OneActiveSeason, Se!Cardinality, Cardinality
  <2>1. CASE Se!Active = {}
    BY <2>1, FS_EmptySet
  <2>2. CASE Se!Active # {}
    <3>1. PICK s \in Se!Active : TRUE
      BY <2>2
    <3>2. Se!Active = {s}
      BY <3>1 DEF SeIInv
    <3>3. Cardinality(Se!Active) = 1
      BY <3>2, FS_Singleton
    <3> QED
      BY <3>3
  <2> QED
    BY <2>1, <2>2
<1> QED
  BY <1>1, <1>2, <1>3, PTL DEF Se!Spec

-----------------------------------------------------------------------------
(* Competition                                                             *)

CpRecord == {"create", "update", "race"}

(* The events of a request are in the order of their ids.                  *)
CpOrder(p) ==
  /\ resultReq[p].held <= Len(resultReq[p].order)
  /\ \A i, j \in 1..Len(resultReq[p].order) :
       i < j => resultReq[p].order[i] < resultReq[p].order[j]

CpNamed(p) ==
  resultReq[p].kind \in CpRecord =>
    resultReq[p].row.event \subseteq
      {resultReq[p].order[i] : i \in 1..Len(resultReq[p].order)}

(* What a request creates does not exist before.                           *)
CpTarget(p) ==
  /\ resultReq[p].kind = "create" => \A r \in resultReq[p].result : ~result[r].exists
  /\ resultReq[p].kind = "race" =>
       /\ resultReq[p].row.event # {}
       /\ \A a \in resultReq[p].row.race : ~race[a].exists

(* Once checked, it has all its locks and what it checked still holds.     *)
CpChecked(p) ==
  resultReq[p].pc = "write" /\ resultReq[p].kind \in CpRecord =>
    /\ resultReq[p].held = Len(resultReq[p].order)
    /\ \A e \in resultReq[p].row.event : Cp!Sporting(e, resultReq[p].row.discipline)
    /\ resultReq[p].kind # "race" =>
         \A a \in resultReq[p].row.race :
           /\ race[a].exists /\ resultReq[p].row.event = {race[a].event}
           /\ race[a].discipline = resultReq[p].row.discipline

CpPair(p, q) ==
  /\ Cp!Held(p) \cap Cp!Held(q) = {}
  /\ {resultReq[p].kind, resultReq[q].kind} \subseteq {"create", "update"} =>
       resultReq[p].result \cap resultReq[q].result = {}
  /\ resultReq[p].kind = "race" /\ resultReq[q].kind = "race" =>
       resultReq[p].row.race \cap resultReq[q].row.race = {}

CpRequestInv(p) == CpOrder(p) /\ CpNamed(p) /\ CpTarget(p) /\ CpChecked(p)

CpIInv ==
  /\ Cp!TypeOK
  /\ \A p \in Request : CpRequestInv(p)
  /\ \A p, q \in Request : p # q => CpPair(p, q)
  /\ DisciplinesNeverMix
  /\ RaceLinksHold

LEMMA CpOpposite ==
  ASSUME NEW d \in Cp!Discipline
  PROVE  /\ Cp!Opposite(d) \in Cp!Discipline /\ Cp!Opposite(d) # d
         /\ \A x \in Cp!Discipline : x = d \/ x = Cp!Opposite(d)
<1>1. \E o \in Cp!Discipline : o # d
  BY DEF Cp!Discipline
<1>2. Cp!Opposite(d) \in Cp!Discipline /\ Cp!Opposite(d) # d
  BY <1>1 DEF Cp!Opposite
<1> QED
  BY <1>2 DEF Cp!Discipline

LEMMA CpSequence ==
  ASSUME NEW S, NEW n \in Nat, NEW s \in [1..n -> S]
  PROVE  s \in Seq(S) /\ Len(s) = n
OBVIOUS

(* lockResultEvent names every event once, sorted.                         *)
LEMMA CpLockOrder ==
  ASSUME NEW old \in Cp!Opt(Event), NEW new \in Cp!Opt(Event), NEW s, s = Cp!LockOrder(old, new)
  PROVE  /\ s \in Seq(Event)
         /\ {s[i] : i \in 1..Len(s)} = old \cup new
         /\ \A i, j \in 1..Len(s) : i < j => s[i] < s[j]
<1> DEFINE n == Cardinality(old \cup new)
           Sorted(t) == t \in [1..n -> old \cup new] /\ \A i, j \in 1..n : i < j => t[i] < t[j]
<1>1. s = CHOOSE t \in [1..n -> old \cup new] : \A i, j \in 1..n : i < j => t[i] < t[j]
  BY DEF Cp!LockOrder, Cp!Cardinality, Cardinality
<1>2. old \cup new \subseteq Nat
  BY EventAssumption DEF Cp!Opt
<1>3. CASE old \cup new = {}
  <2>1. n = 0
    BY <1>3, FS_EmptySet
  <2> HIDE DEF n
  <2>2. Sorted([i \in 1..n |-> 0])
    BY <2>1
  <2>3. Sorted(s)
    BY <1>1, <2>2
  <2>4. s \in Seq(Event) /\ Len(s) = 0
    BY <2>1, <2>3, <1>3
  <2> QED
    BY <2>4, <1>3
<1>4. ASSUME NEW x \in Event, old \cup new = {x}
      PROVE  /\ s \in Seq(Event) /\ Len(s) = 1 /\ s[1] = x
  <2>1. n = 1
    BY <1>4, FS_Singleton
  <2> HIDE DEF n
  <2>2. Sorted([i \in 1..n |-> x])
    BY <2>1, <1>4
  <2>3. Sorted(s)
    BY <1>1, <2>2
  <2>4. s \in [1..1 -> Event] /\ s[1] = x
    BY <2>1, <2>3, <1>4
  <2> QED
    BY <2>4, CpSequence
<1>5. ASSUME NEW x \in Event, NEW y \in Event, old \cup new = {x, y}, x < y
      PROVE  /\ s \in Seq(Event) /\ Len(s) = 2 /\ s[1] = x /\ s[2] = y
  <2>1. n = 2
    <3>1. IsFiniteSet({x}) /\ Cardinality({x}) = 1
      BY FS_Singleton
    <3>2. x \in Nat /\ y \in Nat
      BY EventAssumption
    <3>3. y \notin {x}
      BY <3>2, <1>5
    <3>4. Cardinality({x} \cup {y}) = Cardinality({x}) + 1
      BY <3>1, <3>3, FS_AddElement
    <3>5. old \cup new = {x} \cup {y}
      BY <1>5
    <3> QED
      BY <3>1, <3>4, <3>5
  <2> HIDE DEF n
  <2>2. Sorted([i \in 1..n |-> IF i = 1 THEN x ELSE y])
    BY <2>1, <1>2, <1>5
  <2>3. Sorted(s)
    BY <1>1, <2>2
  <2>4. s[1] \in {x, y} /\ s[2] \in {x, y} /\ s[1] < s[2]
    BY <2>1, <2>3, <1>5
  <2>5. s[1] = x /\ s[2] = y
    BY <2>4, <1>2, <1>5
  <2>6. s \in [1..2 -> Event]
    BY <2>1, <2>3, <1>5
  <2>7. s \in Seq(Event) /\ Len(s) = 2
    BY <2>6, CpSequence
  <2> QED
    BY <2>5, <2>7
<1>6. \/ old \cup new = {}
      \/ \E x \in Event : old \cup new = {x}
      \/ \E x, y \in Event : old \cup new = {x, y} /\ x < y
  <2>1. ASSUME NEW x \in Event, NEW y \in Event, old = {x}, new = {y}
        PROVE  old \cup new = {x} \/ (old \cup new = {x, y} /\ (x < y \/ y < x))
    <3>1. x \in Nat /\ y \in Nat
      BY EventAssumption
    <3> QED
      BY <2>1, <3>1
  <2>2. CASE old = {} \/ new = {}
    BY <2>2 DEF Cp!Opt
  <2> QED
    BY <2>1, <2>2 DEF Cp!Opt
<1>7. ASSUME NEW x \in Event, old \cup new = {x}
      PROVE  {s[i] : i \in 1..Len(s)} = {x} /\ \A i, j \in 1..Len(s) : i < j => s[i] < s[j]
  BY <1>4, <1>7
<1>8. ASSUME NEW x \in Event, NEW y \in Event, old \cup new = {x, y}, x < y
      PROVE  {s[i] : i \in 1..Len(s)} = {x, y} /\ \A i, j \in 1..Len(s) : i < j => s[i] < s[j]
  <2>1. Len(s) = 2 /\ s[1] = x /\ s[2] = y
    BY <1>5, <1>8
  <2>2. 1..Len(s) = {1, 2}
    BY <2>1
  <2>3. {s[i] : i \in 1..Len(s)} = {s[1], s[2]}
    BY <2>2
  <2> QED
    BY <2>1, <2>2, <2>3, <1>8
<1> QED
  BY <1>3, <1>4, <1>5, <1>6, <1>7, <1>8

LEMMA CpLockNew ==
  ASSUME NEW new \in Cp!Opt(Event), NEW s, s = Cp!LockOrder({}, new)
  PROVE  /\ s \in Seq(Event)
         /\ {s[i] : i \in 1..Len(s)} = new
         /\ \A i, j \in 1..Len(s) : i < j => s[i] < s[j]
<1>1. PICK old : old = {}
  OBVIOUS
<1>2. old \in Cp!Opt(Event)
  BY <1>1 DEF Cp!Opt
<1>3. s = Cp!LockOrder(old, new) /\ old \cup new = new
  BY <1>1
<1>4. /\ s \in Seq(Event)
      /\ {s[i] : i \in 1..Len(s)} = old \cup new
      /\ \A i, j \in 1..Len(s) : i < j => s[i] < s[j]
  BY <1>2, <1>3, CpLockOrder
<1> QED
  BY <1>3, <1>4

LEMMA CpValues ==
  /\ Cp!NoResult \in Cp!ResultRow /\ Cp!NoRace \in Cp!RaceRow
  /\ \A state \in {"unused", "sporting", "other", "deleted"} : Cp!NoEvent(state) \in Cp!EventRow
  /\ Cp!Idle \in Cp!RequestState
<1>1. Cp!Someday \in Day
  BY DayAssumption DEF Cp!Someday
<1>2. PICK e \in Event : e = CHOOSE x \in Event : TRUE
  BY EventAssumption
<1>3. Cp!NoResult \in Cp!ResultRow /\ Cp!NoRace \in Cp!RaceRow
  BY <1>1, <1>2 DEF Cp!NoResult, Cp!NoRace, Cp!ResultRow, Cp!RaceRow, Cp!Opt, Cp!Discipline
<1>4. \A state \in {"unused", "sporting", "other", "deleted"} : Cp!NoEvent(state) \in Cp!EventRow
  BY <1>1 DEF Cp!NoEvent, Cp!EventRow
<1>5. <<>> \in Seq(Event) /\ {} \in Cp!Opt(Left)
  BY DEF Cp!Opt
<1> QED
  BY <1>3, <1>4, <1>5 DEF Cp!Idle, Cp!RequestState, Cp!Kind

LEMMA CpTargets ==
  ASSUME CpIInv, NEW q \in Request
  PROVE  resultReq[q].result \in SUBSET Left /\ resultReq[q].row \in Cp!ResultRow
<1>1. resultReq[q] \in Cp!RequestState
  BY DEF CpIInv, Cp!TypeOK
<1>2. resultReq[q].result \in Cp!Opt(Left) /\ resultReq[q].row \in Cp!ResultRow
  BY <1>1 DEF Cp!RequestState
<1> QED
  BY <1>2 DEF Cp!Opt

(* A step that changes a request and no table.                             *)
LEMMA CpRequestStep ==
  ASSUME CpIInv, NEW p \in Request, NEW r \in Cp!RequestState,
         resultReq' = [resultReq EXCEPT ![p] = r], UNCHANGED <<event, race, result>>,
         CpRequestInv(p)',
         \A q \in Request : q # p => CpPair(p, q)'
  PROVE  CpIInv'
<1>1. resultReq' \in [Request -> Cp!RequestState] /\ \A q \in Request : q # p => resultReq'[q] = resultReq[q]
  BY DEF CpIInv, Cp!TypeOK
<1>2. Cp!TypeOK'
  BY <1>1 DEF CpIInv, Cp!TypeOK
<1>3. ASSUME NEW q \in Request, q # p PROVE CpRequestInv(q)'
  BY <1>1, <1>3 DEF CpIInv, CpRequestInv, CpOrder, CpNamed, CpTarget, CpChecked, Cp!Sporting,
     Cp!Results, Cp!Races
<1>4. ASSUME NEW q \in Request, NEW o \in Request, q # o PROVE CpPair(q, o)'
  <2>1. CASE q # p /\ o # p
    BY <1>1, <1>4, <2>1 DEF CpIInv, CpPair, Cp!Held
  <2>2. CASE q = p
    BY <1>4, <2>2
  <2>3. CASE o = p
    <3>1. CpPair(o, q)'
      BY <1>4, <2>3
    <3> QED
      BY <3>1 DEF CpPair
  <2> QED
    BY <2>1, <2>2, <2>3
<1>5. DisciplinesNeverMix' /\ RaceLinksHold'
  BY DEF CpIInv, DisciplinesNeverMix, RaceLinksHold, Cp!DisciplinesNeverMix, Cp!RaceLinksHold,
     Cp!Results, Cp!Races
<1> QED
  BY <1>2, <1>3, <1>4, <1>5 DEF CpIInv

(* Nobody waits for, or stands in the way of, a request that is over.      *)
LEMMA CpIdleInv ==
  ASSUME NEW p \in Request, resultReq'[p] = Cp!Idle
  PROVE  CpRequestInv(p)' /\ Cp!Held(p)' = {} /\ \A q \in Request : CpPair(p, q)' /\ CpPair(q, p)'
<1>1. /\ resultReq'[p].held = 0 /\ resultReq'[p].order = <<>> /\ resultReq'[p].kind = "create"
      /\ resultReq'[p].row.event = {} /\ resultReq'[p].result = {} /\ resultReq'[p].pc = "idle"
  BY DEF Cp!Idle, Cp!NoResult
<1>2. Cp!Held(p)' = {}
  BY <1>1 DEF Cp!Held
<1>3. CpRequestInv(p)'
  BY <1>1 DEF CpRequestInv, CpOrder, CpNamed, CpTarget, CpChecked
<1> QED
  BY <1>1, <1>2, <1>3 DEF CpPair

LEMMA CpFinish ==
  ASSUME CpIInv, NEW p \in Request, Cp!Finish(p), UNCHANGED <<event, race, result>>
  PROVE  CpIInv'
<1>1. resultReq' = [resultReq EXCEPT ![p] = Cp!Idle]
  BY DEF Cp!Finish
<1>2. resultReq'[p] = Cp!Idle
  BY <1>1 DEF CpIInv, Cp!TypeOK
<1> QED
  BY <1>1, <1>2, CpIdleInv, CpValues, CpRequestStep

(* A step that changes the tables.                                         *)
LEMMA CpTableStep ==
  ASSUME CpIInv,
         event' \in [Event -> Cp!EventRow], race' \in [One -> Cp!RaceRow],
         result' \in [Left -> Cp!ResultRow], resultReq' \in [Request -> Cp!RequestState],
         \A q \in Request :
           \/ resultReq'[q] = Cp!Idle
           \/ resultReq'[q] = resultReq[q] /\ CpTarget(q)' /\ CpChecked(q)',
         DisciplinesNeverMix', RaceLinksHold'
  PROVE  CpIInv'
<1>1. ASSUME NEW q \in Request PROVE CpRequestInv(q)'
  <2>1. CASE resultReq'[q] = Cp!Idle
    BY <2>1, CpIdleInv
  <2>2. CASE resultReq'[q] = resultReq[q] /\ CpTarget(q)' /\ CpChecked(q)'
    BY <2>2 DEF CpIInv, CpRequestInv, CpOrder, CpNamed
  <2> QED
    BY <2>1, <2>2
<1>2. ASSUME NEW q \in Request, NEW o \in Request, q # o PROVE CpPair(q, o)'
  <2>1. CASE resultReq'[q] = Cp!Idle \/ resultReq'[o] = Cp!Idle
    BY <2>1, CpIdleInv
  <2>2. CASE resultReq'[q] = resultReq[q] /\ resultReq'[o] = resultReq[o]
    <3>1. CpPair(q, o)
      BY <1>2 DEF CpIInv
    <3> QED
      BY <2>2, <3>1 DEF CpPair, Cp!Held
  <2> QED
    BY <2>1, <2>2
<1> QED
  BY <1>1, <1>2 DEF CpIInv, Cp!TypeOK

(* What a request has checked stays while no one gives another discipline  *)
(* to the events it locks, and races stay as they are.                     *)
LEMMA CpKeeps ==
  ASSUME CpIInv, NEW q \in Request, resultReq'[q] = resultReq[q],
         \A e \in Cp!Held(q) : e \in Event => event'[e] = event[e],
         \A e \in Cp!Held(q), d \in Cp!Discipline :
           Cp!Results(e, d)' \subseteq Cp!Results(e, d) /\ Cp!Races(e, d)' \subseteq Cp!Races(e, d),
         \A a \in One : race[a].exists => race'[a] = race[a]
  PROVE  CpChecked(q)'
<1> SUFFICES ASSUME resultReq[q].pc = "write", resultReq[q].kind \in CpRecord
             PROVE  /\ resultReq[q].held = Len(resultReq[q].order)
                    /\ \A e \in resultReq[q].row.event : Cp!Sporting(e, resultReq[q].row.discipline)'
                    /\ resultReq[q].kind # "race" =>
                         \A a \in resultReq[q].row.race :
                           /\ race'[a].exists /\ resultReq[q].row.event = {race'[a].event}
                           /\ race'[a].discipline = resultReq[q].row.discipline
  BY DEF CpChecked
<1>1. resultReq[q] \in Cp!RequestState /\ CpChecked(q) /\ CpNamed(q)
  BY DEF CpIInv, Cp!TypeOK, CpRequestInv
<1>2. /\ resultReq[q].row.discipline \in Cp!Discipline
      /\ resultReq[q].row.event \subseteq Event
      /\ resultReq[q].row.race \subseteq One
  BY <1>1 DEF Cp!RequestState, Cp!ResultRow, Cp!Opt
<1>3. resultReq[q].held = Len(resultReq[q].order)
  BY <1>1 DEF CpChecked
<1>4. resultReq[q].row.event \subseteq Cp!Held(q)
  BY <1>1, <1>3 DEF CpNamed, Cp!Held
<1>5. ASSUME NEW e \in resultReq[q].row.event
      PROVE  Cp!Sporting(e, resultReq[q].row.discipline)'
  <2>1. PICK d \in Cp!Discipline : d = resultReq[q].row.discipline
    BY <1>2
  <2>2. PICK o \in Cp!Discipline : o = Cp!Opposite(d)
    BY CpOpposite
  <2>3. event[e].state = "sporting" /\ Cp!Results(e, o) = {} /\ Cp!Races(e, o) = {}
    BY <1>1, <2>1, <2>2 DEF CpChecked, Cp!Sporting
  <2>4. event'[e] = event[e] /\ Cp!Results(e, o)' = {} /\ Cp!Races(e, o)' = {}
    BY <1>2, <1>4, <2>3
  <2>5. resultReq'[q].row.discipline = d
    BY <2>1
  <2> QED
    BY <2>2, <2>3, <2>4, <2>5 DEF Cp!Sporting
<1> QED
  BY <1>1, <1>2, <1>3, <1>5 DEF CpChecked

LEMMA CpBegin ==
  ASSUME CpIInv, NEW p \in Request, NEW r \in Cp!RequestState, Cp!Begin(p, r),
         r.held = 0, r.pc = "lock" \/ r.kind \notin CpRecord,
         \A i, j \in 1..Len(r.order) : i < j => r.order[i] < r.order[j],
         r.kind \in CpRecord => r.row.event \subseteq {r.order[i] : i \in 1..Len(r.order)},
         r.kind = "create" => \A x \in r.result : ~result[x].exists,
         r.kind = "race" => r.row.event # {} /\ \A a \in r.row.race : ~race[a].exists,
         \A q \in Request : q # p =>
           /\ {r.kind, resultReq[q].kind} \subseteq {"create", "update"} =>
                r.result \cap resultReq[q].result = {}
           /\ r.kind = "race" /\ resultReq[q].kind = "race" =>
                r.row.race \cap resultReq[q].row.race = {}
  PROVE  CpIInv'
<1>1. resultReq' = [resultReq EXCEPT ![p] = r] /\ UNCHANGED <<event, race, result>>
  BY DEF Cp!Begin, Cp!tables
<1>2. resultReq'[p] = r /\ \A q \in Request : q # p => resultReq'[q] = resultReq[q]
  BY <1>1 DEF CpIInv, Cp!TypeOK
<1>3. Len(r.order) \in Nat
  BY DEF Cp!RequestState
<1>4. Cp!Held(p)' = {}
  BY <1>2 DEF Cp!Held
<1>5. CpRequestInv(p)'
  BY <1>1, <1>2, <1>3 DEF CpRequestInv, CpOrder, CpNamed, CpTarget, CpChecked
<1>6. ASSUME NEW q \in Request, q # p PROVE CpPair(p, q)'
  BY <1>2, <1>4, <1>6 DEF CpPair
<1> QED
  BY <1>1, <1>5, <1>6, CpRequestStep

LEMMA CpBeginCreate ==
  ASSUME CpIInv, NEW p \in Request, NEW r \in Left, NEW row \in Cp!Rows, Cp!BeginCreate(p, r, row)
  PROVE  CpIInv'
<1>0. PICK order : order = Cp!LockOrder({}, row.event)
  OBVIOUS
<1> DEFINE new == [Cp!Idle EXCEPT !.pc = "lock", !.row = row, !.result = {r}, !.order = order]
<1>1. row \in Cp!ResultRow /\ row.event \in Cp!Opt(Event) /\ {r} \in Cp!Opt(Left)
  BY DEF Cp!Rows, Cp!ResultRow, Cp!Opt
<1>2. /\ order \in Seq(Event) /\ {order[i] : i \in 1..Len(order)} = row.event
      /\ \A i, j \in 1..Len(order) : i < j => order[i] < order[j]
  BY <1>0, <1>1, CpLockNew
<1>3. Cp!Begin(p, new) /\ ~result[r].exists
      /\ \A q \in Request : resultReq[q].kind \in {"create", "update"} => r \notin resultReq[q].result
  BY <1>0 DEF Cp!BeginCreate
<1>4. /\ new \in Cp!RequestState /\ new.pc = "lock" /\ new.kind = "create" /\ new.row = row
      /\ new.result = {r} /\ new.order = order /\ new.held = 0
  BY <1>1, <1>2, CpValues DEF Cp!RequestState, Cp!Idle
<1> HIDE DEF new
<1> QED
  BY <1>2, <1>3, <1>4, CpBegin

LEMMA CpBeginUpdate ==
  ASSUME CpIInv, NEW p \in Request, NEW r \in Left, NEW row \in Cp!Rows, Cp!BeginUpdate(p, r, row)
  PROVE  CpIInv'
<1>0. PICK order, old : old = result[r].event /\ order = Cp!LockOrder(old, row.event)
  OBVIOUS
<1> DEFINE new == [Cp!Idle EXCEPT !.pc = "lock", !.kind = "update", !.row = row,
                                  !.result = {r}, !.order = order]
<1>1. /\ row \in Cp!ResultRow /\ row.event \in Cp!Opt(Event)
      /\ old \in Cp!Opt(Event) /\ {r} \in Cp!Opt(Left)
  BY <1>0 DEF Cp!Rows, Cp!ResultRow, Cp!Opt, CpIInv, Cp!TypeOK
<1>2. /\ order \in Seq(Event) /\ {order[i] : i \in 1..Len(order)} = old \cup row.event
      /\ \A i, j \in 1..Len(order) : i < j => order[i] < order[j]
  BY <1>0, <1>1, CpLockOrder
<1>3. Cp!Begin(p, new) /\ result[r].exists
      /\ \A q \in Request : resultReq[q].kind = "update" => r \notin resultReq[q].result
  BY <1>0 DEF Cp!BeginUpdate, Cp!ResultLocked
<1>4. /\ new \in Cp!RequestState /\ new.pc = "lock" /\ new.kind = "update" /\ new.row = row
      /\ new.result = {r} /\ new.order = order /\ new.held = 0
  BY <1>1, <1>2, CpValues DEF Cp!RequestState, Cp!Idle, Cp!Kind
<1> HIDE DEF new
<1>5. \A q \in Request : resultReq[q].kind = "create" => r \notin resultReq[q].result
  BY <1>3 DEF CpIInv, CpRequestInv, CpTarget
<1> QED
  BY <1>2, <1>3, <1>4, <1>5, CpBegin

LEMMA CpBeginRace ==
  ASSUME CpIInv, NEW p \in Request, NEW a \in One, NEW e \in Event, NEW d \in Cp!Discipline,
         Cp!BeginRace(p, a, e, d)
  PROVE  CpIInv'
<1>a. PICK named \in Cp!Opt(Event) : named = {e}
  BY DEF Cp!Opt
<1>0. PICK order : order = Cp!LockOrder({}, named)
  OBVIOUS
<1> DEFINE row == [Cp!NoResult EXCEPT !.discipline = d, !.event = {e}, !.race = {a}]
           new == [Cp!Idle EXCEPT !.pc = "lock", !.kind = "race", !.row = row, !.order = order]
<1>1. {e} \in Cp!Opt(Event) /\ {a} \in Cp!Opt(One)
  BY DEF Cp!Opt
<1>2. /\ order \in Seq(Event) /\ {order[i] : i \in 1..Len(order)} = named
      /\ \A i, j \in 1..Len(order) : i < j => order[i] < order[j]
  BY <1>0, CpLockNew
<1>3. row \in Cp!ResultRow /\ row.event = {e} /\ row.race = {a}
  BY <1>1, CpValues DEF Cp!ResultRow, Cp!NoResult
<1>4. Cp!Begin(p, new) /\ ~race[a].exists
      /\ \A q \in Request : resultReq[q].kind = "race" => a \notin resultReq[q].row.race
  BY <1>a, <1>0 DEF Cp!BeginRace
<1> HIDE DEF row
<1>5. /\ new \in Cp!RequestState /\ new.pc = "lock" /\ new.kind = "race" /\ new.row = row
      /\ new.order = order /\ new.held = 0
  BY <1>2, <1>3, CpValues DEF Cp!RequestState, Cp!Idle, Cp!Kind
<1> HIDE DEF new
<1>6. new.kind \in CpRecord /\ new.row.event # {} /\ \A x \in new.row.race : ~race[x].exists
  BY <1>3, <1>4, <1>5 DEF CpRecord
<1>7. \A q \in Request : resultReq[q].kind = "race" => new.row.race \cap resultReq[q].row.race = {}
  BY <1>3, <1>4, <1>5
<1>8. new.row.event \subseteq {new.order[i] : i \in 1..Len(new.order)}
  BY <1>a, <1>2, <1>3, <1>5
<1>9. \A q \in Request : q # p =>
        /\ {new.kind, resultReq[q].kind} \subseteq {"create", "update"} =>
             new.result \cap resultReq[q].result = {}
        /\ new.kind = "race" /\ resultReq[q].kind = "race" =>
             new.row.race \cap resultReq[q].row.race = {}
  BY <1>5, <1>7
<1>10. \A i, j \in 1..Len(new.order) : i < j => new.order[i] < new.order[j]
  BY <1>2, <1>5
<1>11. new.kind # "create" /\ Cp!Begin(p, new)
  BY <1>4, <1>5
<1> QED
  BY <1>5, <1>6, <1>8, <1>9, <1>10, <1>11, CpBegin

(* An event is edited or removed without a lock.                           *)
LEMMA CpBeginEvent ==
  ASSUME CpIInv, NEW p \in Request, NEW e \in Event,
         Cp!BeginRemove(p, e) \/ \E row \in Cp!EventRows : Cp!BeginEdit(p, e, row)
  PROVE  CpIInv'
<1>1. /\ {e} \in Cp!Opt(Event)
      /\ [Cp!NoResult EXCEPT !.event = {e}] \in Cp!ResultRow
  BY CpValues DEF Cp!Opt, Cp!ResultRow, Cp!NoResult
<1>2. ASSUME NEW r \in Cp!RequestState, Cp!Begin(p, r), r.held = 0, r.order = <<>>,
             r.kind \in {"edit", "remove"}
      PROVE  CpIInv'
  <2>1. r.kind \notin CpRecord /\ r.kind # "race" /\ r.kind # "create" /\ r.kind # "update"
    BY <1>2 DEF CpRecord
  <2>2. \A i, j \in 1..Len(r.order) : i < j => r.order[i] < r.order[j]
    BY <1>2
  <2> QED
    BY <1>2, <2>1, <2>2, CpBegin
<1>3. CASE Cp!BeginRemove(p, e)
  <2> DEFINE new == [Cp!Idle EXCEPT !.pc = "write", !.kind = "remove",
                                    !.row = [Cp!NoResult EXCEPT !.event = {e}]]
  <2>1. Cp!Begin(p, new)
    BY <1>3 DEF Cp!BeginRemove
  <2>2. new \in Cp!RequestState /\ new.held = 0 /\ new.order = <<>> /\ new.kind = "remove"
    BY <1>1, CpValues DEF Cp!RequestState, Cp!Idle, Cp!Kind
  <2> HIDE DEF new
  <2> QED
    BY <2>1, <2>2, <1>2
<1>4. ASSUME NEW row \in Cp!EventRows, Cp!BeginEdit(p, e, row)
      PROVE  CpIInv'
  <2> DEFINE new == [Cp!Idle EXCEPT !.pc = "write", !.kind = "edit", !.target = row,
                                    !.row = [Cp!NoResult EXCEPT !.event = {e}]]
  <2>1. Cp!Begin(p, new) /\ row \in Cp!EventRow
    BY <1>4 DEF Cp!BeginEdit, Cp!EventRows
  <2>2. new \in Cp!RequestState /\ new.held = 0 /\ new.order = <<>> /\ new.kind = "edit"
    BY <1>1, <2>1, CpValues DEF Cp!RequestState, Cp!Idle, Cp!Kind
  <2> HIDE DEF new
  <2> QED
    BY <2>1, <2>2, <1>2
<1> QED
  BY <1>3, <1>4

LEMMA CpLockEvent ==
  ASSUME CpIInv, NEW p \in Request, Cp!LockEvent(p)
  PROVE  CpIInv'
<1> DEFINE r == [resultReq[p] EXCEPT !.held = @ + 1]
           next == resultReq[p].order[resultReq[p].held + 1]
<1>1. /\ resultReq[p].pc = "lock" /\ resultReq[p].held < Len(resultReq[p].order)
      /\ \A q \in Request : q # p => next \notin Cp!Held(q)
      /\ resultReq' = [resultReq EXCEPT ![p] = r] /\ UNCHANGED <<event, race, result>>
  BY DEF Cp!LockEvent, Cp!LockedByOther, Cp!tables
<1>2. resultReq[p] \in Cp!RequestState /\ CpRequestInv(p)
  BY DEF CpIInv, Cp!TypeOK
<1>3. /\ r \in Cp!RequestState /\ r.held = resultReq[p].held + 1 /\ r.pc = "lock"
      /\ r.order = resultReq[p].order /\ r.kind = resultReq[p].kind /\ r.row = resultReq[p].row
      /\ r.result = resultReq[p].result
  BY <1>1, <1>2 DEF Cp!RequestState
<1>4. /\ resultReq[p].held \in Nat /\ Len(resultReq[p].order) \in Nat
  BY <1>2 DEF Cp!RequestState
<1> HIDE DEF r
<1>5. resultReq'[p] = r /\ \A q \in Request : q # p => resultReq'[q] = resultReq[q]
  BY <1>1 DEF CpIInv, Cp!TypeOK
<1>6. Cp!Held(p)' = Cp!Held(p) \cup {next}
  <2>1. 1..r.held = (1..resultReq[p].held) \cup {resultReq[p].held + 1}
    BY <1>3, <1>4
  <2> QED
    BY <2>1, <1>3, <1>5 DEF Cp!Held
<1>7. CpRequestInv(p)'
  BY <1>1, <1>2, <1>3, <1>4, <1>5 DEF CpRequestInv, CpOrder, CpNamed, CpTarget, CpChecked
<1>8. ASSUME NEW q \in Request, q # p PROVE CpPair(p, q)'
  <2>1. CpPair(p, q)
    BY <1>8 DEF CpIInv
  <2>2. Cp!Held(q)' = Cp!Held(q)
    BY <1>5, <1>8 DEF Cp!Held
  <2>3. next \notin Cp!Held(q)
    BY <1>1, <1>8
  <2> HIDE DEF next
  <2> QED
    BY <1>3, <1>5, <1>6, <1>8, <2>1, <2>2, <2>3 DEF CpPair
<1> QED
  BY <1>1, <1>3, <1>7, <1>8, CpRequestStep

(* The checks find what the locks will keep.                               *)
LEMMA CpCheck ==
  ASSUME CpIInv, NEW p \in Request, Cp!Check(p)
  PROVE  CpIInv'
<1> DEFINE row == resultReq[p].row
           r == [resultReq[p] EXCEPT !.pc = "write"]
           Passes == \/ resultReq[p].kind = "race" /\ \A e \in row.event : Cp!Sporting(e, row.discipline)
                     \/ resultReq[p].kind # "race" /\ Cp!ValidLinks(row)
<1>1. /\ resultReq[p].pc = "lock" /\ resultReq[p].held = Len(resultReq[p].order)
      /\ IF Passes THEN resultReq' = [resultReq EXCEPT ![p] = r] ELSE Cp!Finish(p)
      /\ UNCHANGED <<event, race, result>>
  BY DEF Cp!Check, Cp!tables
<1>2. CASE ~Passes
  BY <1>1, <1>2, CpFinish
<1>3. CASE Passes
  <2>1. resultReq' = [resultReq EXCEPT ![p] = r]
    BY <1>1, <1>3
  <2>2. resultReq[p] \in Cp!RequestState /\ CpRequestInv(p)
    BY DEF CpIInv, Cp!TypeOK
  <2>3. /\ r \in Cp!RequestState /\ r.held = resultReq[p].held /\ r.pc = "write"
        /\ r.order = resultReq[p].order /\ r.kind = resultReq[p].kind /\ r.row = resultReq[p].row
        /\ r.result = resultReq[p].result
    BY <2>2 DEF Cp!RequestState
  <2>4. /\ \A e \in row.event : Cp!Sporting(e, row.discipline)
        /\ resultReq[p].kind # "race" =>
             \A a \in row.race : /\ race[a].exists /\ row.event = {race[a].event}
                                 /\ race[a].discipline = row.discipline
    BY <1>3 DEF Cp!ValidLinks
  <2> HIDE DEF r
  <2>5. resultReq'[p] = r /\ \A q \in Request : q # p => resultReq'[q] = resultReq[q]
    BY <2>1 DEF CpIInv, Cp!TypeOK
  <2>6. CpOrder(p)' /\ CpNamed(p)' /\ CpTarget(p)'
    BY <1>1, <2>2, <2>3, <2>5 DEF CpRequestInv, CpOrder, CpNamed, CpTarget
  <2>7. CpChecked(p)'
    <3>1. \A e, d : Cp!Sporting(e, d)' <=> Cp!Sporting(e, d)
      BY <1>1 DEF Cp!Sporting, Cp!Results, Cp!Races
    <3> QED
      BY <1>1, <2>3, <2>4, <2>5, <3>1 DEF CpChecked
  <2>8. ASSUME NEW q \in Request, q # p PROVE CpPair(p, q)'
    <3>1. CpPair(p, q)
      BY <2>8 DEF CpIInv
    <3> QED
      BY <2>3, <2>5, <2>8, <3>1 DEF CpPair, Cp!Held
  <2> QED
    BY <1>1, <2>1, <2>3, <2>6, <2>7, <2>8, CpRequestStep DEF CpRequestInv
<1> QED
  BY <1>2, <1>3

-----------------------------------------------------------------------------
(* The steps that write                                                    *)

LEMMA CpResultsFewer ==
  ASSUME CpIInv, \A r \in Left : result'[r].exists =>
                   /\ result[r].exists /\ result'[r].discipline = result[r].discipline
                   /\ result'[r].event \subseteq result[r].event
  PROVE  \A e, d : Cp!Results(e, d)' \subseteq Cp!Results(e, d)
BY DEF Cp!Results

LEMMA CpDeleteResult ==
  ASSUME CpIInv, NEW r \in Left, Cp!DeleteResult(r)
  PROVE  CpIInv'
<1>1. /\ result' = [result EXCEPT ![r] = Cp!NoResult] /\ UNCHANGED <<event, race, resultReq>>
  BY DEF Cp!DeleteResult
<1>2. result' \in [Left -> Cp!ResultRow]
  BY <1>1, CpValues DEF CpIInv, Cp!TypeOK
<1>3. \A x \in Left : result'[x] = result[x] \/ ~result'[x].exists
  BY <1>1 DEF CpIInv, Cp!TypeOK, Cp!NoResult
<1>4. \A e, d : Cp!Results(e, d)' \subseteq Cp!Results(e, d) /\ Cp!Races(e, d)' = Cp!Races(e, d)
  BY <1>1, <1>3 DEF Cp!Results, Cp!Races
<1>5. ASSUME NEW q \in Request PROVE CpTarget(q)' /\ CpChecked(q)'
  <2>1. CpTarget(q)'
    <3>1. resultReq[q].result \subseteq Left
      BY CpTargets
    <3>2. CpTarget(q)
      BY DEF CpIInv, CpRequestInv
    <3> QED
      BY <1>1, <1>3, <3>1, <3>2 DEF CpTarget
  <2> QED
    BY <1>1, <1>4, <2>1, CpKeeps
<1>6. DisciplinesNeverMix'
  BY <1>4 DEF CpIInv, DisciplinesNeverMix, Cp!DisciplinesNeverMix
<1>7. RaceLinksHold'
  BY <1>1, <1>3 DEF CpIInv, RaceLinksHold, Cp!RaceLinksHold
<1> QED
  BY <1>1, <1>2, <1>5, <1>6, <1>7, CpTableStep DEF CpIInv, Cp!TypeOK

LEMMA CpCreateEvent ==
  ASSUME CpIInv, NEW e \in Event, NEW row \in Cp!EventRows, Cp!CreateEvent(e, row)
  PROVE  CpIInv'
<1>1. /\ event[e].state = "unused" /\ event' = [event EXCEPT ![e] = row]
      /\ UNCHANGED <<race, result, resultReq>>
  BY DEF Cp!CreateEvent
<1>2. event' \in [Event -> Cp!EventRow] /\ \A x \in Event : x # e => event'[x] = event[x]
  BY <1>1 DEF CpIInv, Cp!TypeOK, Cp!EventRows
<1>3. ASSUME NEW q \in Request PROVE CpTarget(q)' /\ CpChecked(q)'
  <2>1. CpTarget(q) /\ CpChecked(q) /\ resultReq[q] \in Cp!RequestState
    BY DEF CpIInv, CpRequestInv, Cp!TypeOK
  <2>2. resultReq[q].row.event \subseteq Event
    BY <2>1 DEF Cp!RequestState, Cp!ResultRow, Cp!Opt
  <2>3. \A x \in Event : \A d : Cp!Sporting(x, d) => Cp!Sporting(x, d)'
    BY <1>1, <1>2 DEF Cp!Sporting, Cp!Results, Cp!Races
  <2> QED
    BY <1>1, <2>1, <2>2, <2>3 DEF CpTarget, CpChecked
<1>4. DisciplinesNeverMix' /\ RaceLinksHold'
  BY <1>1 DEF CpIInv, DisciplinesNeverMix, RaceLinksHold, Cp!DisciplinesNeverMix, Cp!RaceLinksHold,
     Cp!Results, Cp!Races
<1> QED
  BY <1>1, <1>2, <1>3, <1>4, CpTableStep DEF CpIInv, Cp!TypeOK

(* An edit waits for the locks of the event: it changes nothing that a     *)
(* request has checked.                                                    *)
LEMMA CpWriteEvent ==
  ASSUME CpIInv, NEW p \in Request, Cp!WriteEvent(p)
  PROVE  CpIInv'
<1>1. PICK e \in resultReq[p].row.event :
        /\ resultReq[p].kind = "edit" /\ ~Cp!Locked(e)
        /\ event' = event \/ event' = [event EXCEPT ![e] = resultReq[p].target]
        /\ resultReq' = [resultReq EXCEPT ![p] = Cp!Idle]
        /\ UNCHANGED <<race, result>>
  BY DEF Cp!WriteEvent, Cp!At, Cp!Finish
<1>2. resultReq' \in [Request -> Cp!RequestState]
  BY <1>1, CpValues DEF CpIInv, Cp!TypeOK
<1>3. event' \in [Event -> Cp!EventRow]
  BY <1>1 DEF CpIInv, Cp!TypeOK, Cp!RequestState
<1>4. /\ resultReq'[p] = Cp!Idle
      /\ \A q \in Request : q # p => resultReq'[q] = resultReq[q]
      /\ \A x \in Event : x # e => event'[x] = event[x]
  BY <1>1 DEF CpIInv, Cp!TypeOK
<1>5. \A x, d : Cp!Results(x, d)' = Cp!Results(x, d) /\ Cp!Races(x, d)' = Cp!Races(x, d)
  BY <1>1 DEF Cp!Results, Cp!Races
<1>6. ASSUME NEW q \in Request, q # p PROVE CpTarget(q)' /\ CpChecked(q)'
  <2>1. CpTarget(q)'
    BY <1>1, <1>4, <1>6 DEF CpIInv, CpRequestInv, CpTarget
  <2>2. e \notin Cp!Held(q)
    BY <1>1 DEF Cp!Locked
  <2> QED
    BY <1>1, <1>4, <1>5, <1>6, <2>1, <2>2, CpKeeps
<1>7. DisciplinesNeverMix' /\ RaceLinksHold'
  BY <1>1 DEF CpIInv, DisciplinesNeverMix, RaceLinksHold, Cp!DisciplinesNeverMix, Cp!RaceLinksHold,
     Cp!Results, Cp!Races
<1> QED
  BY <1>1, <1>2, <1>3, <1>4, <1>6, <1>7, CpTableStep DEF CpIInv, Cp!TypeOK

(* A deletion waits for the locks, and the program of races restricts it:  *)
(* the results that lose their event have no race.                         *)
LEMMA CpDeleteEvent ==
  ASSUME CpIInv, NEW p \in Request, Cp!DeleteEvent(p)
  PROVE  CpIInv'
<1>1. PICK e \in resultReq[p].row.event :
        /\ resultReq[p].kind = "remove" /\ ~Cp!Locked(e)
        /\ \/ event' = event /\ result' = result
           \/ /\ \A d \in Cp!Discipline : Cp!Races(e, d) = {}
              /\ event' = [event EXCEPT ![e] = Cp!NoEvent("deleted")]
              /\ result' = Cp!Unlink(e)
        /\ resultReq' = [resultReq EXCEPT ![p] = Cp!Idle]
        /\ race' = race
  BY DEF Cp!DeleteEvent, Cp!At, Cp!Finish
<1>2. resultReq' \in [Request -> Cp!RequestState]
  BY <1>1, CpValues DEF CpIInv, Cp!TypeOK
<1>3. Cp!Finish(p)
  BY <1>1 DEF Cp!Finish
<1>4. CASE event' = event /\ result' = result
  BY <1>1, <1>3, <1>4, CpFinish
<1>5. CASE /\ \A d \in Cp!Discipline : Cp!Races(e, d) = {}
           /\ event' = [event EXCEPT ![e] = Cp!NoEvent("deleted")]
           /\ result' = Cp!Unlink(e)
  <2>1. Cp!NoEvent("deleted") \in Cp!EventRow
    BY CpValues
  <2>2. event' \in [Event -> Cp!EventRow] /\ \A x \in Event : x # e => event'[x] = event[x]
    BY <1>5, <2>1 DEF CpIInv, Cp!TypeOK
  <2>3. ASSUME NEW r \in Left
        PROVE  /\ result'[r] \in Cp!ResultRow
               /\ result'[r].event = result[r].event \ {e}
               /\ result'[r].exists = result[r].exists
               /\ result'[r].race = result[r].race
               /\ result'[r].discipline = result[r].discipline
    <3>1. result'[r] = [result[r] EXCEPT !.event = @ \ {e}]
      BY <1>5 DEF Cp!Unlink
    <3>2. result[r] \in Cp!ResultRow /\ result[r].event \ {e} \in Cp!Opt(Event)
      BY DEF CpIInv, Cp!TypeOK, Cp!ResultRow, Cp!Opt
    <3> QED
      BY <3>1, <3>2 DEF Cp!ResultRow
  <2>4. result' \in [Left -> Cp!ResultRow]
    BY <1>5, <2>3 DEF Cp!Unlink
  <2>5. \A x, d : Cp!Results(x, d)' \subseteq Cp!Results(x, d) /\ Cp!Races(x, d)' = Cp!Races(x, d)
    BY <1>1, <2>3 DEF Cp!Results, Cp!Races
  <2>6. /\ resultReq'[p] = Cp!Idle
        /\ \A q \in Request : q # p => resultReq'[q] = resultReq[q]
    BY <1>1 DEF CpIInv, Cp!TypeOK
  <2>7. ASSUME NEW q \in Request, q # p PROVE CpTarget(q)' /\ CpChecked(q)'
    <3>1. CpTarget(q)'
      <4>1. resultReq[q].result \subseteq Left
        BY CpTargets
      <4>2. CpTarget(q)
        BY DEF CpIInv, CpRequestInv
      <4> QED
        BY <1>1, <2>3, <2>6, <2>7, <4>1, <4>2 DEF CpTarget
    <3>2. e \notin Cp!Held(q)
      BY <1>1 DEF Cp!Locked
    <3> QED
      BY <1>1, <2>2, <2>5, <2>6, <2>7, <3>1, <3>2, CpKeeps
  <2>8. DisciplinesNeverMix'
    BY <2>5 DEF CpIInv, DisciplinesNeverMix, Cp!DisciplinesNeverMix
  <2>9. RaceLinksHold'
    <3> SUFFICES ASSUME NEW r \in Left, NEW a \in One, result'[r].exists, a \in result'[r].race
                 PROVE  /\ race'[a].exists /\ result'[r].event = {race'[a].event}
                        /\ result'[r].discipline = race'[a].discipline
      BY DEF RaceLinksHold, Cp!RaceLinksHold
    <3>1. /\ race[a].exists /\ result[r].event = {race[a].event}
          /\ result[r].discipline = race[a].discipline
      BY <2>3 DEF CpIInv, RaceLinksHold, Cp!RaceLinksHold
    <3>2. race[a].discipline \in Cp!Discipline
      BY DEF CpIInv, Cp!TypeOK, Cp!RaceRow
    <3>3. race[a].event # e
      BY <1>5, <3>1, <3>2 DEF Cp!Races
    <3> QED
      BY <1>1, <2>3, <3>1, <3>3
  <2> QED
    BY <1>1, <1>2, <2>2, <2>4, <2>6, <2>7, <2>8, <2>9, CpTableStep DEF CpIInv, Cp!TypeOK
<1> QED
  BY <1>1, <1>4, <1>5

LEMMA CpWriteResult ==
  ASSUME CpIInv, NEW p \in Request, Cp!WriteResult(p)
  PROVE  CpIInv'
<1>1. PICK d \in Cp!Discipline, row \in Cp!ResultRow, targets \in SUBSET Left :
        row = resultReq[p].row /\ d = row.discipline /\ targets = resultReq[p].result
  <2>1. resultReq[p].row.discipline \in Cp!Discipline
    BY CpTargets DEF Cp!ResultRow
  <2> QED
    BY <2>1, CpTargets
<1>2. PICK stored : stored = [row EXCEPT !.exists = TRUE]
  OBVIOUS
<1>3. /\ stored \in Cp!ResultRow /\ stored.exists /\ stored.discipline = d
      /\ stored.event = row.event /\ stored.race = row.race
  BY <1>1, <1>2 DEF Cp!ResultRow
<1>4. /\ resultReq[p].pc = "write" /\ resultReq[p].kind \in {"create", "update"}
      /\ UNCHANGED <<event, race>>
      /\ resultReq' = [resultReq EXCEPT ![p] = Cp!Idle]
  BY DEF Cp!WriteResult, Cp!At, Cp!Finish
<1>5. /\ result' \in [Left -> Cp!ResultRow]
      /\ \A r \in Left : result'[r] = result[r] \/ (r \in targets /\ result'[r] = stored)
  <2>1. result' = [r \in Left |->
          IF r \in targets /\ Cp!EventsStand(row) THEN stored ELSE result[r]]
    BY <1>1, <1>2 DEF Cp!WriteResult
  <2> QED
    BY <1>3, <2>1 DEF CpIInv, Cp!TypeOK
<1>6. /\ resultReq' \in [Request -> Cp!RequestState] /\ resultReq'[p] = Cp!Idle
      /\ \A q \in Request : q # p => resultReq'[q] = resultReq[q]
  BY <1>4, CpValues DEF CpIInv, Cp!TypeOK
<1>7. /\ CpChecked(p) /\ CpNamed(p)
      /\ resultReq[p].kind \in CpRecord /\ resultReq[p].kind # "race"
  BY <1>4 DEF CpIInv, CpRequestInv, CpRecord
<1>8. row.event \subseteq Cp!Held(p)
  BY <1>1, <1>4, <1>7 DEF CpChecked, CpNamed, Cp!Held
<1>9. /\ \A e \in row.event : Cp!Sporting(e, d)
      /\ \A a \in row.race : /\ race[a].exists /\ row.event = {race[a].event}
                             /\ race[a].discipline = d
  BY <1>1, <1>4, <1>7 DEF CpChecked
<1>10. ASSUME NEW e, e \notin row.event, NEW o PROVE Cp!Results(e, o)' \subseteq Cp!Results(e, o)
  BY <1>3, <1>5, <1>10 DEF Cp!Results
<1>11. \A e, o : Cp!Races(e, o)' = Cp!Races(e, o)
  BY <1>4 DEF Cp!Races
<1>12. ASSUME NEW q \in Request, q # p PROVE CpTarget(q)' /\ CpChecked(q)'
  <2>1. CpPair(p, q) /\ CpTarget(q)
    BY <1>12 DEF CpIInv, CpRequestInv
  <2>2. CpTarget(q)'
    <3>1. resultReq[q].result \subseteq Left
      BY CpTargets
    <3>2. resultReq[q].kind = "create" => targets \cap resultReq[q].result = {}
      BY <1>1, <1>4, <2>1 DEF CpPair
    <3> QED
      BY <1>4, <1>5, <1>6, <1>12, <2>1, <3>1, <3>2 DEF CpTarget
  <2>3. \A e \in Cp!Held(q) : e \notin row.event
    BY <1>8, <2>1 DEF CpPair
  <2>4. \A e \in Cp!Held(q), o \in Cp!Discipline :
          Cp!Results(e, o)' \subseteq Cp!Results(e, o) /\ Cp!Races(e, o)' \subseteq Cp!Races(e, o)
    BY <1>10, <1>11, <2>3
  <2> QED
    BY <1>4, <1>6, <1>12, <2>2, <2>4, CpKeeps
<1>13. DisciplinesNeverMix'
  <2> SUFFICES ASSUME NEW e \in Event
               PROVE  \E o \in Cp!Discipline : Cp!Results(e, o)' = {} /\ Cp!Races(e, o)' = {}
    BY DEF DisciplinesNeverMix, Cp!DisciplinesNeverMix
  <2>1. CASE e \notin row.event
    <3>1. PICK o \in Cp!Discipline : Cp!Results(e, o) = {} /\ Cp!Races(e, o) = {}
      BY DEF CpIInv, DisciplinesNeverMix, Cp!DisciplinesNeverMix
    <3>2. Cp!Results(e, o)' = {} /\ Cp!Races(e, o)' = {}
      BY <1>10, <1>11, <2>1, <3>1
    <3> QED
      BY <3>2
  <2>2. CASE e \in row.event
    <3>1. PICK o \in Cp!Discipline : o = Cp!Opposite(d) /\ o # d
      BY CpOpposite
    <3>2. Cp!Results(e, o) = {} /\ Cp!Races(e, o) = {}
      BY <1>9, <2>2, <3>1 DEF Cp!Sporting
    <3>3. Cp!Results(e, o)' \subseteq Cp!Results(e, o)
      BY <1>3, <1>5, <3>1 DEF Cp!Results
    <3>4. Cp!Results(e, o)' = {} /\ Cp!Races(e, o)' = {}
      BY <1>11, <3>2, <3>3
    <3> QED
      BY <3>4
  <2> QED
    BY <2>1, <2>2
<1>14. RaceLinksHold'
  <2> SUFFICES ASSUME NEW r \in Left, NEW a \in One, result'[r].exists, a \in result'[r].race
               PROVE  /\ race[a].exists /\ result'[r].event = {race[a].event}
                      /\ result'[r].discipline = race[a].discipline
    BY <1>4 DEF RaceLinksHold, Cp!RaceLinksHold
  <2>1. CASE result'[r] = stored
    BY <1>3, <1>9, <2>1
  <2>2. CASE result'[r] = result[r]
    BY <2>2 DEF CpIInv, RaceLinksHold, Cp!RaceLinksHold
  <2> QED
    BY <1>5, <2>1, <2>2
<1> QED
  BY <1>4, <1>5, <1>6, <1>12, <1>13, <1>14, CpTableStep DEF CpIInv, Cp!TypeOK

LEMMA CpWriteRace ==
  ASSUME CpIInv, NEW p \in Request, Cp!WriteRace(p)
  PROVE  CpIInv'
<1>1. PICK d \in Cp!Discipline, row \in Cp!ResultRow :
        row = resultReq[p].row /\ d = row.discipline
  BY DEF CpIInv, Cp!TypeOK, Cp!RequestState, Cp!ResultRow
<1>2. /\ resultReq[p].pc = "write" /\ resultReq[p].kind = "race"
      /\ UNCHANGED <<event, result>>
      /\ resultReq' = [resultReq EXCEPT ![p] = Cp!Idle]
  BY DEF Cp!WriteRace, Cp!At, Cp!Finish
<1>3. /\ CpChecked(p) /\ CpNamed(p) /\ CpTarget(p) /\ resultReq[p].kind \in CpRecord
  BY <1>2 DEF CpIInv, CpRequestInv, CpRecord
<1>4. PICK e \in row.event : e = CHOOSE x \in row.event : TRUE
  BY <1>1, <1>2, <1>3 DEF CpTarget
<1>5. row.event = {e} /\ e \in Event
  BY <1>1, <1>4 DEF Cp!ResultRow, Cp!Opt
<1>6. PICK stored : stored = [exists |-> TRUE, discipline |-> d, event |-> e]
  OBVIOUS
<1>7. /\ stored \in Cp!RaceRow /\ stored.discipline = d /\ stored.event = e
  BY <1>5, <1>6 DEF Cp!RaceRow
<1>8. /\ race' \in [One -> Cp!RaceRow]
      /\ \A a \in One : race'[a] = race[a] \/ (a \in row.race /\ race'[a] = stored)
  <2>1. race' = [a \in One |->
          IF a \in row.race /\ Cp!EventsStand(row) THEN stored ELSE race[a]]
    BY <1>1, <1>4, <1>6 DEF Cp!WriteRace
  <2> QED
    BY <1>7, <2>1 DEF CpIInv, Cp!TypeOK
<1>9. \A a \in One : race[a].exists => race'[a] = race[a]
  BY <1>1, <1>2, <1>3, <1>8 DEF CpTarget
<1>10. /\ resultReq' \in [Request -> Cp!RequestState] /\ resultReq'[p] = Cp!Idle
       /\ \A q \in Request : q # p => resultReq'[q] = resultReq[q]
  BY <1>2, CpValues DEF CpIInv, Cp!TypeOK
<1>11. e \in Cp!Held(p) /\ Cp!Sporting(e, d)
  BY <1>1, <1>2, <1>3, <1>5 DEF CpChecked, CpNamed, Cp!Held
<1>12. \A x, o : Cp!Results(x, o)' = Cp!Results(x, o)
  BY <1>2 DEF Cp!Results
<1>13. ASSUME NEW x, NEW o, x # e \/ o # d PROVE Cp!Races(x, o)' \subseteq Cp!Races(x, o)
  BY <1>7, <1>8, <1>13 DEF Cp!Races
<1>14. ASSUME NEW q \in Request, q # p PROVE CpTarget(q)' /\ CpChecked(q)'
  <2>1. CpPair(p, q) /\ CpTarget(q)
    BY <1>14 DEF CpIInv, CpRequestInv
  <2>2. CpTarget(q)'
    <3>1. resultReq[q].row.race \subseteq One
      BY DEF CpIInv, Cp!TypeOK, Cp!RequestState, Cp!ResultRow, Cp!Opt
    <3>2. resultReq[q].kind = "race" => row.race \cap resultReq[q].row.race = {}
      BY <1>1, <1>2, <2>1 DEF CpPair
    <3> QED
      BY <1>2, <1>8, <1>10, <1>14, <2>1, <3>1, <3>2 DEF CpTarget
  <2>3. e \notin Cp!Held(q)
    BY <1>11, <2>1 DEF CpPair
  <2>4. \A x \in Cp!Held(q), o \in Cp!Discipline :
          Cp!Results(x, o)' \subseteq Cp!Results(x, o) /\ Cp!Races(x, o)' \subseteq Cp!Races(x, o)
    BY <1>12, <1>13, <2>3
  <2> QED
    BY <1>2, <1>9, <1>10, <1>14, <2>2, <2>4, CpKeeps
<1>15. DisciplinesNeverMix'
  <2> SUFFICES ASSUME NEW x \in Event
               PROVE  \E o \in Cp!Discipline : Cp!Results(x, o)' = {} /\ Cp!Races(x, o)' = {}
    BY DEF DisciplinesNeverMix, Cp!DisciplinesNeverMix
  <2>1. PICK o \in Cp!Discipline :
          /\ Cp!Results(x, o) = {} /\ Cp!Races(x, o) = {}
          /\ x # e \/ o # d
    <3>1. CASE x = e
      <4>1. PICK o \in Cp!Discipline : o = Cp!Opposite(d) /\ o # d
        BY CpOpposite
      <4> QED
        BY <1>11, <3>1, <4>1 DEF Cp!Sporting
    <3>2. CASE x # e
      BY <3>2 DEF CpIInv, DisciplinesNeverMix, Cp!DisciplinesNeverMix
    <3> QED
      BY <3>1, <3>2
  <2>2. Cp!Results(x, o)' = {} /\ Cp!Races(x, o)' = {}
    BY <1>12, <1>13, <2>1
  <2> QED
    BY <2>2
<1>16. RaceLinksHold'
  BY <1>2, <1>9 DEF CpIInv, RaceLinksHold, Cp!RaceLinksHold
<1> QED
  BY <1>2, <1>8, <1>10, <1>14, <1>15, <1>16, CpTableStep DEF CpIInv, Cp!TypeOK

LEMMA CpNext == CpIInv /\ [Cp!Next]_(Cp!vars) => CpIInv'
<1> SUFFICES ASSUME CpIInv, [Cp!Next]_(Cp!vars) PROVE CpIInv'
  OBVIOUS
<1>1. ASSUME NEW p \in Request, NEW r \in Left, NEW row \in Cp!Rows,
             Cp!BeginCreate(p, r, row) \/ Cp!BeginUpdate(p, r, row)
      PROVE  CpIInv'
  BY <1>1, CpBeginCreate, CpBeginUpdate
<1>2. ASSUME NEW p \in Request, NEW a \in One, NEW e \in Event, NEW d \in Cp!Discipline,
             Cp!BeginRace(p, a, e, d)
      PROVE  CpIInv'
  BY <1>2, CpBeginRace
<1>3. ASSUME NEW p \in Request, NEW e \in Event,
             Cp!BeginRemove(p, e) \/ \E row \in Cp!EventRows : Cp!BeginEdit(p, e, row)
      PROVE  CpIInv'
  BY <1>3, CpBeginEvent
<1>4. ASSUME NEW p \in Request, Cp!LockEvent(p) \/ Cp!Check(p) PROVE CpIInv'
  BY <1>4, CpLockEvent, CpCheck
<1>5. ASSUME NEW p \in Request, Cp!WriteResult(p) \/ Cp!WriteRace(p) PROVE CpIInv'
  BY <1>5, CpWriteResult, CpWriteRace
<1>6. ASSUME NEW p \in Request, Cp!WriteEvent(p) \/ Cp!DeleteEvent(p) PROVE CpIInv'
  BY <1>6, CpWriteEvent, CpDeleteEvent
<1>7. ASSUME NEW p \in Request, Cp!Abort(p) PROVE CpIInv'
  BY <1>7, CpFinish DEF Cp!Abort, Cp!tables
<1>8. ASSUME NEW e \in Event, NEW row \in Cp!EventRows, Cp!CreateEvent(e, row) PROVE CpIInv'
  BY <1>8, CpCreateEvent
<1>9. ASSUME NEW r \in Left, Cp!DeleteResult(r) PROVE CpIInv'
  BY <1>9, CpDeleteResult
<1>10. CASE UNCHANGED Cp!vars
  <2>1. UNCHANGED <<event, race, result, resultReq>>
    BY <1>10 DEF Cp!vars, Cp!tables
  <2>2. \A e, d : Cp!Sporting(e, d)' <=> Cp!Sporting(e, d)
    BY <2>1 DEF Cp!Sporting, Cp!Results, Cp!Races
  <2>3. \A q \in Request : CpTarget(q)' /\ CpChecked(q)'
    BY <2>1, <2>2 DEF CpIInv, CpRequestInv, CpTarget, CpChecked
  <2>4. DisciplinesNeverMix' /\ RaceLinksHold'
    BY <2>1 DEF CpIInv, DisciplinesNeverMix, RaceLinksHold, Cp!DisciplinesNeverMix,
       Cp!RaceLinksHold, Cp!Results, Cp!Races
  <2> QED
    BY <2>1, <2>3, <2>4, CpTableStep DEF CpIInv, Cp!TypeOK
<1> QED
  BY <1>1, <1>2, <1>3, <1>4, <1>5, <1>6, <1>7, <1>8, <1>9, <1>10 DEF Cp!Next

LEMMA CpInit == Cp!Init => CpIInv
<1> SUFFICES ASSUME Cp!Init PROVE CpIInv
  OBVIOUS
<1>1. Cp!TypeOK
  BY CpValues DEF Cp!Init, Cp!TypeOK
<1>2. /\ \A p \in Request : resultReq[p] = Cp!Idle
      /\ \A r \in Left : ~result[r].exists
      /\ \A a \in One : ~race[a].exists
  BY DEF Cp!Init, Cp!NoResult, Cp!NoRace
<1>3. /\ Cp!Idle.held = 0 /\ Cp!Idle.order = <<>> /\ Cp!Idle.kind = "create"
      /\ Cp!Idle.row.event = {} /\ Cp!Idle.result = {} /\ Cp!Idle.pc = "idle"
  BY DEF Cp!Idle, Cp!NoResult
<1>4. \A p \in Request : CpRequestInv(p)
  BY <1>2, <1>3 DEF CpRequestInv, CpOrder, CpNamed, CpTarget, CpChecked
<1>5. \A p, q \in Request : CpPair(p, q)
  BY <1>2, <1>3 DEF CpPair, Cp!Held
<1>6. DisciplinesNeverMix
  BY <1>2 DEF DisciplinesNeverMix, Cp!DisciplinesNeverMix, Cp!Results, Cp!Races, Cp!Discipline
<1>7. RaceLinksHold
  BY <1>2 DEF RaceLinksHold, Cp!RaceLinksHold
<1> QED
  BY <1>1, <1>4, <1>5, <1>6, <1>7 DEF CpIInv

(* The records of an event, results and races together, are all of one     *)
(* discipline, whichever requests overlap: what a request checked under    *)
(* its locks stays until it writes.                                        *)
THEOREM EventsHaveOneDiscipline == Cp!Spec => []DisciplinesNeverMix
<1>1. CpIInv => DisciplinesNeverMix
  BY DEF CpIInv
<1> QED
  BY <1>1, CpInit, CpNext, PTL DEF Cp!Spec

(* A result that names a race is of the event and the discipline of that   *)
(* race, also after someone removed or unlinked an event.                  *)
THEOREM ResultsMatchTheirRace == Cp!Spec => []RaceLinksHold
<1>1. CpIInv => RaceLinksHold
  BY DEF CpIInv
<1> QED
  BY <1>1, CpInit, CpNext, PTL DEF Cp!Spec

(* No two requests hold an event each that the other waits for: all lock   *)
(* in the order of the ids.                                                *)
THEOREM LocksMakeNoCycle == Cp!Spec => []NoLockCycle
<1>1. CpIInv => NoLockCycle
  <2> SUFFICES ASSUME CpIInv, NEW p \in Request, NEW q \in Request,
                      resultReq[p].held < Len(resultReq[p].order),
                      resultReq[q].held < Len(resultReq[q].order),
                      resultReq[p].order[resultReq[p].held + 1] \in Cp!Held(q),
                      resultReq[q].order[resultReq[q].held + 1] \in Cp!Held(p)
               PROVE  FALSE
    BY DEF NoLockCycle, Cp!NoLockCycle
  <2>1. ASSUME NEW o \in Request, resultReq[o].held < Len(resultReq[o].order)
        PROVE  /\ resultReq[o].order[resultReq[o].held + 1] \in Nat
               /\ \A e \in Cp!Held(o) : e \in Nat /\ e < resultReq[o].order[resultReq[o].held + 1]
    <3>1. /\ resultReq[o].order \in Seq(Event) /\ resultReq[o].held \in Nat
          /\ Len(resultReq[o].order) \in Nat /\ CpOrder(o)
      BY DEF CpIInv, Cp!TypeOK, Cp!RequestState, CpRequestInv
    <3>2. \A i \in 1..Len(resultReq[o].order) : resultReq[o].order[i] \in Nat
      BY <3>1, EventAssumption
    <3>3. resultReq[o].held + 1 \in 1..Len(resultReq[o].order)
      BY <2>1, <3>1
    <3>4. ASSUME NEW e \in Cp!Held(o)
          PROVE  e \in Nat /\ e < resultReq[o].order[resultReq[o].held + 1]
      <4>1. PICK i \in 1..resultReq[o].held : e = resultReq[o].order[i]
        BY DEF Cp!Held
      <4>2. i \in 1..Len(resultReq[o].order) /\ i < resultReq[o].held + 1
        BY <2>1, <3>1
      <4> QED
        BY <3>1, <3>2, <3>3, <4>1, <4>2 DEF CpOrder
    <3> QED
      BY <3>2, <3>3, <3>4
  <2> QED
    BY <2>1
<1> QED
  BY <1>1, CpInit, CpNext, PTL DEF Cp!Spec

-----------------------------------------------------------------------------
(* The composition                                                         *)

(* What the modules side by side do is what each of them allows, so that   *)
(* the theorems above hold of Club.                                        *)
THEOREM ClubRunsCompetition == ClubSpec => Cp!Spec /\ Se!Spec
<1>1. ClubInit => Cp!Init /\ Se!Init
  BY DEF ClubInit
<1>2. [ClubNext]_<<module, vars, coVars, roVars, attVars, cpVars, seVars, guVars, acVars, rdVars>>
        => [Cp!Next]_Cp!vars
  BY DEF ClubNext, Rest, cpVars, Cp!vars, Cp!tables
<1>3. [ClubNext]_<<module, vars, coVars, roVars, attVars, cpVars, seVars, guVars, acVars, rdVars>>
        => [Se!Next]_Se!vars
  BY DEF ClubNext, Rest, seVars, Se!vars
<1> QED
  BY <1>1, <1>2, <1>3, PTL DEF ClubSpec, Cp!Spec, Se!Spec
=============================================================================
