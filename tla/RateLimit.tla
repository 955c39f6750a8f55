----------------------------- MODULE RateLimit -----------------------------
(***************************************************************************)
(* The guard of the public authentication routes: a map in the memory of   *)
(* one process, from a key to a counter that starts again when its window  *)
(* is over.  From Capacity entries on, every request sweeps the map.       *)
(***************************************************************************)
EXTENDS Naturals, FiniteSets

CONSTANTS
  ByAddress,  \* routes that count per address of the body: login, requestPasswordReset
  ByClient,   \* routes that count per client alone: refresh, invitations, resets
  Client,     \* request.ip
  Address,    \* the e-mail of the body, "anonymous" when it has none
  Limit,      \* attempts per window
  Window,     \* windowMs
  Capacity    \* the 500 entries from which the map is swept

VARIABLES
  counters,  \* per key, the count and the time left in its window, if any
  recent     \* history: per key, the attempts let in during the last Window instants

vars == <<counters, recent>>

Opt(S) == {{}} \cup {{x} : x \in S}
Key == (ByAddress \X Client \X Address) \cup (ByClient \X Client)
Instant == 0..(Window - 1)

TypeOK ==
  /\ counters \in [Key -> Opt([count : 1..Limit, left : 0..Window])]
  /\ recent \in [Key -> SUBSET [age : Instant, nth : 1..(2 * Limit)]]

Init ==
  /\ counters = [k \in Key |-> {}]
  /\ recent = [k \in Key |-> {}]

-----------------------------------------------------------------------------

(* buildKey                                                                *)
KeyOf(route, client, address) ==
  IF route \in ByAddress THEN <<route, client, address>> ELSE <<route, client>>

Full == Cardinality({k \in Key : counters[k] # {}}) >= Capacity

(* Mutant: a full map is emptied.                                          *)
SweepAll == [k \in Key |-> IF Full THEN {} ELSE counters[k]]
(* cleanupExpiredEntries                                                   *)
Swept == [k \in Key |-> {c \in counters[k] : Full => c.left > 0}]

(* The history: one more attempt at this instant, and an instant later.    *)
Latest(attempts) ==
  [age |-> 0, nth |-> 1 + Cardinality({a \in attempts : a.age = 0})]
Older(attempts) ==
  {[a EXCEPT !.age = @ + 1] : a \in {b \in attempts : b.age + 1 \in Instant}}

(* canActivate                                                             *)
Attempt(route, client, address) ==
  LET k == KeyOf(route, client, address)
      running == {c \in Swept[k] : c.left > 0}
      full == \E c \in running : c.count >= Limit
      next == IF running = {} THEN {[count |-> 1, left |-> Window]}
              ELSE {[c EXCEPT !.count = @ + 1] : c \in running}
  IN /\ counters' = IF full THEN Swept ELSE [Swept EXCEPT ![k] = next]
     /\ recent' = IF full THEN recent ELSE [recent EXCEPT ![k] = @ \cup {Latest(@)}]

Tick ==
  /\ counters' = [k \in Key |->
                    {[c EXCEPT !.left = IF @ = 0 THEN 0 ELSE @ - 1] : c \in counters[k]}]
  /\ recent' = [k \in Key |-> Older(recent[k])]

(* A process that restarts has counted nothing.                            *)
Restart ==
  /\ counters' = [k \in Key |-> {}]
  /\ recent' = [k \in Key |-> {}]

Next ==
  \/ \E route \in ByAddress \cup ByClient, client \in Client, address \in Address :
       Attempt(route, client, address)
  \/ Tick \/ Restart

Spec == Init /\ [][Next]_vars

-----------------------------------------------------------------------------

(* The guard keeps what fixed windows can keep.  In any stretch as long as *)
(* a window, two windows let in less than twice the limit, and whoever was *)
(* let in nowhere in such a stretch is not turned away, however often it   *)
(* asked; no sweep and no other key changes that.                          *)
WindowsHold ==
  \A k \in Key :
    /\ Cardinality(recent[k]) < 2 * Limit
    /\ recent[k] = {} => \A c \in counters[k] : c.left = 0
=============================================================================
