---------------------------- MODULE Competition ----------------------------
(***************************************************************************)
(* Events, their program of races, and the results linked to them, of two  *)
(* disciplines that an event must not mix.  A request that writes a result *)
(* or a race locks the events it refers to (FOR UPDATE, in the order of    *)
(* their ids), checks, and commits.  Edits of an event check first and     *)
(* write later, without a lock of their own.                               *)
(*                                                                         *)
(* A heat or start follows its race and is not told apart from it; style,  *)
(* distance and the other columns that must match the race are left out.   *)
(***************************************************************************)
EXTENDS Naturals, Sequences, FiniteSets

CONSTANTS
  Event,      \* ids of events, numbers: their order is the order of locking
  Result, Race, Request,
  Date        \* bound: days on which events and results are held

VARIABLES
  event, race, result,  \* the tables
  req

tables == <<event, race, result>>
vars == <<tables, req>>

Discipline == {"pool", "open-water"}
Kind == {"create", "update", "race", "edit", "remove"}
Opt(S) == {{}} \cup {{x} : x \in S}  \* a nullable column

EventRow == [state : {"unused", "sporting", "other", "deleted"}, date : Date]
RaceRow == [exists : BOOLEAN, event : Event, discipline : Discipline]
ResultRow == [exists : BOOLEAN, discipline : Discipline, event : Opt(Event),
              race : Opt(Race), date : Date]

RequestState ==
  [pc : {"idle", "lock", "write"}, kind : Kind, row : ResultRow,
   result : Opt(Result), target : EventRow,
   order : Seq(Event), held : Nat]

TypeOK ==
  /\ event \in [Event -> EventRow]
  /\ race \in [Race -> RaceRow]
  /\ result \in [Result -> ResultRow]
  /\ req \in [Request -> RequestState]

(* Deleted and unused rows have one representation each.                   *)
Someday == CHOOSE day \in Date : TRUE
NoEvent(state) == [state |-> state, date |-> Someday]
NoRace == [exists |-> FALSE, event |-> CHOOSE e \in Event : TRUE,
           discipline |-> "pool"]
NoResult == [exists |-> FALSE, discipline |-> "pool", event |-> {},
             race |-> {}, date |-> Someday]
Idle == [pc |-> "idle", kind |-> "create", row |-> NoResult, result |-> {},
         target |-> NoEvent("unused"), order |-> <<>>, held |-> 0]

Init ==
  /\ event = [e \in Event |-> NoEvent("unused")]
  /\ race = [a \in Race |-> NoRace]
  /\ result = [r \in Result |-> NoResult]
  /\ req = [p \in Request |-> Idle]

-----------------------------------------------------------------------------

At(p, pc, kinds) == req[p].pc = pc /\ req[p].kind \in kinds
Begin(p, r) == req[p] = Idle /\ req' = [req EXCEPT ![p] = r] /\ UNCHANGED tables
Finish(p) == req' = [req EXCEPT ![p] = Idle]

Held(p) == {req[p].order[i] : i \in 1..req[p].held}
LockedByOther(p, e) == \E q \in Request \ {p} : e \in Held(q)
Locked(e) == \E q \in Request : e \in Held(q)

(* FOR UPDATE of the result that is edited.                                *)
ResultLocked(r) == \E q \in Request : req[q].kind = "update" /\ r \in req[q].result

(* Mutant: the events are locked as the request names them.                *)
AsNamed(old, new) ==
  LET one(S) == CHOOSE e \in S : TRUE IN
  IF old \cup new = {} THEN <<>>
  ELSE IF Cardinality(old \cup new) = 1 THEN <<one(old \cup new)>>
  ELSE <<one(new), one(old)>>

(* lockResultEvent: every event once, sorted.                              *)
LockOrder(old, new) ==
  LET n == Cardinality(old \cup new) IN
  CHOOSE s \in [1..n -> old \cup new] :
    \A i, j \in 1..n : i < j => s[i] < s[j]

-----------------------------------------------------------------------------
(* Results and races: lock, check, write                                   *)

BeginCreate(p, r, row) ==
  /\ ~result[r].exists
  /\ \A q \in Request : req[q].kind \in {"create", "update"} => r \notin req[q].result
  /\ Begin(p, [Idle EXCEPT !.pc = "lock", !.row = row, !.result = {r},
                           !.order = LockOrder({}, row.event)])

(* An omitted link keeps its value: "row" holds what is to be stored.      *)
BeginUpdate(p, r, row) ==
  /\ result[r].exists
  /\ ~ResultLocked(r)
  /\ row.discipline = result[r].discipline
  /\ Begin(p, [Idle EXCEPT !.pc = "lock", !.kind = "update", !.row = row,
                           !.result = {r},
                           !.order = LockOrder(result[r].event, row.event)])

(* Mutant: a race is created without the lock of its event.                *)
BeginRaceUnlocked(p, a, e, d) ==
  /\ ~race[a].exists
  /\ \A q \in Request : req[q].kind = "race" => a \notin req[q].row.race
  /\ Begin(p, [Idle EXCEPT !.pc = "lock", !.kind = "race",
                           !.row = [NoResult EXCEPT !.discipline = d,
                                                    !.event = {e}, !.race = {a}]])

BeginRace(p, a, e, d) ==
  /\ ~race[a].exists
  /\ \A q \in Request : req[q].kind = "race" => a \notin req[q].row.race
  /\ Begin(p, [Idle EXCEPT !.pc = "lock", !.kind = "race",
                           !.row = [NoResult EXCEPT !.discipline = d,
                                                    !.event = {e}, !.race = {a}],
                           !.order = LockOrder({}, {e})])

LockEvent(p) ==
  LET next == req[p].order[req[p].held + 1] IN
  /\ req[p].pc = "lock" /\ req[p].held < Len(req[p].order)
  /\ ~LockedByOther(p, next)
  /\ req' = [req EXCEPT ![p].held = @ + 1]
  /\ UNCHANGED tables

Exists(e) == event[e].state \in {"sporting", "other"}
Results(e, d) ==
  {r \in Result : result[r].exists /\ result[r].discipline = d /\ e \in result[r].event}
Races(e, d) ==
  {a \in Race : race[a].exists /\ race[a].discipline = d /\ race[a].event = e}
Opposite(d) == CHOOSE o \in Discipline : o # d

(* The event takes records of the discipline d.                            *)
Sporting(e, d) ==
  /\ event[e].state = "sporting"
  /\ Results(e, Opposite(d)) = {} /\ Races(e, Opposite(d)) = {}

(* assertEventLink and validateProgramLinks.                               *)
ValidLinks(row) ==
  /\ \A e \in row.event : Sporting(e, row.discipline) /\ event[e].date = row.date
  /\ \A a \in row.race :
       race[a].exists /\ row.event = {race[a].event}
       /\ race[a].discipline = row.discipline

(* The checks under the locks: 400, 404 and 409 end the request.           *)
Check(p) ==
  LET row == req[p].row IN
  /\ req[p].pc = "lock" /\ req[p].held = Len(req[p].order)
  /\ IF \/ req[p].kind = "race" /\ \A e \in row.event : Sporting(e, row.discipline)
        \/ req[p].kind # "race" /\ ValidLinks(row)
     THEN req' = [req EXCEPT ![p].pc = "write"] ELSE Finish(p)
  /\ UNCHANGED tables

(* The foreign key of the event is checked again by the database.          *)
EventsStand(row) == \A e \in row.event : Exists(e)

WriteResult(p) ==
  /\ At(p, "write", {"create", "update"})
  /\ result' = [r \in Result |->
                  IF r \in req[p].result /\ EventsStand(req[p].row)
                  THEN [req[p].row EXCEPT !.exists = TRUE] ELSE result[r]]
  /\ Finish(p)
  /\ UNCHANGED <<event, race>>

WriteRace(p) ==
  /\ At(p, "write", {"race"})
  /\ race' = [a \in Race |->
                IF a \in req[p].row.race /\ EventsStand(req[p].row)
                THEN [exists |-> TRUE, discipline |-> req[p].row.discipline,
                      event |-> CHOOSE e \in req[p].row.event : TRUE]
                ELSE race[a]]
  /\ Finish(p)
  /\ UNCHANGED <<event, result>>

DeleteResult(r) ==
  /\ result[r].exists
  /\ ~ResultLocked(r)
  /\ result' = [result EXCEPT ![r] = NoResult]
  /\ UNCHANGED <<event, race, req>>

-----------------------------------------------------------------------------
(* Events: check, then write                                               *)

CreateEvent(e, row) ==
  /\ event[e].state = "unused"
  /\ event' = [event EXCEPT ![e] = row]
  /\ UNCHANGED <<race, result, req>>

Unlinked(e) == \A d \in Discipline : Results(e, d) = {} /\ Races(e, d) = {}

(* assertNoLinkedResults, asked for by a new date, type or cancellation.   *)
MayChange(e, row) ==
  (row.date # event[e].date \/ row.state # "sporting") => Unlinked(e)

(* The event edited or removed is kept in row.event.                       *)
BeginEdit(p, e, row) ==
  /\ Exists(e)
  /\ MayChange(e, row)
  /\ Begin(p, [Idle EXCEPT !.pc = "write", !.kind = "edit", !.target = row,
                           !.row = [NoResult EXCEPT !.event = {e}]])

WriteEvent(p) ==
  \E e \in req[p].row.event :
    /\ At(p, "write", {"edit"})
    /\ ~Locked(e)
    /\ event' = IF Exists(e) THEN [event EXCEPT ![e] = req[p].target] ELSE event
    /\ Finish(p)
    /\ UNCHANGED <<race, result>>

BeginRemove(p, e) ==
  /\ Exists(e)
  /\ Unlinked(e)
  /\ Begin(p, [Idle EXCEPT !.pc = "write", !.kind = "remove",
                           !.row = [NoResult EXCEPT !.event = {e}]])

Unlink(e) == [r \in Result |-> [result[r] EXCEPT !.event = @ \ {e}]]

(* Mutant: the foreign key of the program does not restrict.               *)
DeleteEventAnyway(p) ==
  \E e \in req[p].row.event :
    /\ At(p, "write", {"remove"})
    /\ ~Locked(e)
    /\ event' = [event EXCEPT ![e] = NoEvent("deleted")]
    /\ result' = Unlink(e)
    /\ Finish(p)
    /\ UNCHANGED race

(* Races restrict the deletion; results lose their event.                  *)
DeleteEvent(p) ==
  \E e \in req[p].row.event :
    /\ At(p, "write", {"remove"})
    /\ ~Locked(e)
    /\ IF \A d \in Discipline : Races(e, d) = {}
       THEN event' = [event EXCEPT ![e] = NoEvent("deleted")] /\ result' = Unlink(e)
       ELSE UNCHANGED <<event, result>>
    /\ Finish(p)
    /\ UNCHANGED race

Abort(p) == req[p] # Idle /\ Finish(p) /\ UNCHANGED tables

(* Bound: a race is named together with some event, else it is refused.    *)
Rows == {row \in ResultRow : ~row.exists /\ (row.race # {} => row.event # {})}
EventRows == {row \in EventRow : row.state \in {"sporting", "other"}}

Next ==
  \/ \E p \in Request :
       \/ \E r \in Result, row \in Rows : BeginCreate(p, r, row) \/ BeginUpdate(p, r, row)
       \/ \E a \in Race, e \in Event, d \in Discipline : BeginRace(p, a, e, d)
       \/ LockEvent(p) \/ Check(p) \/ WriteResult(p) \/ WriteRace(p)
       \/ \E e \in Event :
            BeginRemove(p, e) \/ \E row \in EventRows : BeginEdit(p, e, row)
       \/ WriteEvent(p) \/ DeleteEvent(p) \/ Abort(p)
  \/ \E e \in Event, row \in EventRows : CreateEvent(e, row)
  \/ \E r \in Result : DeleteResult(r)

Spec == Init /\ [][Next]_vars

-----------------------------------------------------------------------------

(* The records of an event, results and races together, are all of one     *)
(* discipline, whichever requests overlap.                                 *)
DisciplinesNeverMix ==
  \A e \in Event :
    \E d \in Discipline : Results(e, d) = {} /\ Races(e, d) = {}

(* A result that names a race is of the event and the discipline of that   *)
(* race, also after someone removed or unlinked an event.                  *)
RaceLinksHold ==
  \A r \in Result, a \in Race :
    result[r].exists /\ a \in result[r].race =>
      /\ race[a].exists
      /\ result[r].event = {race[a].event}
      /\ result[r].discipline = race[a].discipline

(* No two requests hold an event each that the other waits for.            *)
NoLockCycle ==
  \A p, q \in Request :
    ~ /\ req[p].pc = "lock" /\ req[q].pc = "lock" /\ p # q
      /\ req[p].held < Len(req[p].order) /\ req[q].held < Len(req[q].order)
      /\ req[p].order[req[p].held + 1] \in Held(q)
      /\ req[q].order[req[q].held + 1] \in Held(p)
=============================================================================
