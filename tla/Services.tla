------------------------------ MODULE Services ------------------------------
(***************************************************************************)
(* The modules with a liveness property, and those without sets to         *)
(* permute, side by side: the initial state chooses a module and the       *)
(* variables of the others keep their initial values, as in Club.          *)
(*                                                                         *)
(* Departures comes in by EXTENDS, the others by INSTANCE.                 *)
(***************************************************************************)
EXTENDS Departures, Sequences

CONSTANTS
  Version,                                       \* MediaUploads
  Cached, TTL,                                   \* ListCache
  Nonce, MaxSkew, Margin, Lag, Timeout, Grace, MaxTime,  \* Broker
  Result, Day, Time, PoolCourse, WaterCourse, PageSize,  \* Results
  Number, Fraction,                              \* Durations
  ByAddress, ByClient, Client, Address, Limit, Window, Capacity  \* RateLimit

VARIABLES
  module,                                      \* the one that runs
  row, object, arrived, genuine, settled, call,  \* MediaUploads
  page, cacheReq,                              \* ListCache
  now, issued, claim, work, done,              \* Broker
  results,                                     \* Results
  stored, typed,                               \* Durations
  counters, recent                             \* RateLimit

Up == INSTANCE MediaUploads WITH Call <- Request
Lc == INSTANCE ListCache WITH req <- cacheReq
Br == INSTANCE Broker WITH Instance <- Request
Rs == INSTANCE Results WITH Student <- Result
Du == INSTANCE Durations WITH Result <- Request
Rl == INSTANCE RateLimit

(* The pages asked for are of lists, and live for a second or more.        *)
ASSUME CacheAssumption == Cached \subseteq Lc!List /\ TTL \in Nat \ {0}

(* A text consists of numbers and digits.                                  *)
ASSUME TextAssumption == Number \subseteq Nat /\ Fraction \subseteq Seq(0..9)

(* An attempt is let in, and a window is not over at once.                 *)
ASSUME LimitAssumption == Limit \in Nat \ {0} /\ Window \in Nat \ {0}

(* Results are in order by their ids, days and times; a time is positive,  *)
(* and a page is not empty by its size.                                    *)
ASSUME ResultsAssumption ==
  Result \subseteq Nat /\ Day \subseteq Nat /\ Time \subseteq Nat \ {0} /\ PageSize \subseteq Nat \ {0}

upVars == <<row, object, arrived, genuine, settled, call>>
lcVars == <<page, cacheReq>>
brVars == <<now, issued, claim, work, done>>
rsVars == <<results>>
duVars == <<stored, typed>>
rlVars == <<counters, recent>>

ServicesInit ==
  /\ module \in {"departures", "uploads", "cache", "broker", "results", "durations", "limiter"}
  /\ Init /\ Up!Init /\ Lc!Init /\ Br!Init /\ Rs!Init /\ Du!Init /\ Rl!Init

(* The variables of a module stay while another one runs.                  *)
Rest(m, v) == IF module = m THEN TRUE ELSE UNCHANGED v

ServicesNext ==
  /\ UNCHANGED module
  /\ \/ module = "departures" /\ Next
     \/ module = "uploads" /\ Up!Next
     \/ module = "cache" /\ Lc!Next
     \/ module = "broker" /\ Br!Next
     \/ module = "results" /\ Rs!Next
     \/ module = "durations" /\ Du!Next
     \/ module = "limiter" /\ Rl!Next
  /\ Rest("departures", vars)
  /\ Rest("uploads", upVars)
  /\ Rest("cache", lcVars)
  /\ Rest("broker", brVars)
  /\ Rest("results", rsVars)
  /\ Rest("durations", duVars)
  /\ Rest("limiter", rlVars)

ServicesSpec ==
  /\ ServicesInit
  /\ [][ServicesNext]_<<module, vars, upVars, lcVars, brVars, rsVars, duVars, rlVars>>
  /\ Fairness /\ Lc!Fairness

-----------------------------------------------------------------------------
(* The properties of the modules, under their own names                    *)

(* A verified upload has its bytes: the object is there, it is the version *)
(* that was verified, and the image it was declared to be.  No cleanup     *)
(* that overlaps the confirmation, and no late PUT, changes that, and a    *)
(* ticket to download finds that version as long as it lasts.              *)
VerifiedHasBytes == Up!VerifiedHasBytes

(* After a write of this process has returned, no list shows what was      *)
(* there before it, except for the known gaps, for a load that overlapped  *)
(* a write, and for what other processes wrote.                            *)
StaleIsExplained == Lc!StaleIsExplained

(* Whatever the gaps, no list stays outdated: its page is gone after the   *)
(* time to live, however often it is asked for.                            *)
EventuallyFresh == Lc!EventuallyFresh

(* A signed request has its effect at most once, however often and at      *)
(* however many instances it is delivered, and however their clocks lag.   *)
ExecutedOnce == Br!ExecutedOnce

(* The pages of a list, one after the other, are all the results that      *)
(* match, once each, newest first, though they come out of two tables.     *)
PagesPartition == Rs!PagesPartition

(* Every student with a time is ranked once, with the best of its times,   *)
(* and the rank is one more than the number of students who were faster.   *)
RankingIsStandard == Rs!RankingIsStandard

(* The routes tell one story: a student's rank stands on its personal      *)
(* record, which is the best of its months, the record of a course is the  *)
(* time ranked first, a record was improved exactly when someone was       *)
(* faster than on every earlier occasion, a course is offered if and only  *)
(* if somebody is ranked in it, a filter offers exactly what finds results,*)
(* and the distribution adds up to the total.                              *)
RoutesAgree == Rs!RoutesAgree

(* A time is shown as it was typed, however often the result is edited:    *)
(* it loses less than a hundredth of a second, never gains, and of two     *)
(* results that were shown with different times the faster stays faster.   *)
TimesSurviveEdits == Du!TimesSurviveEdits

(* The guard keeps what fixed windows can keep.  In any stretch as long as *)
(* a window, two windows let in less than twice the limit, and whoever was *)
(* let in nowhere in such a stretch is not turned away, however often it   *)
(* asked; no sweep and no other key changes that.                          *)
WindowsHold == Rl!WindowsHold
=============================================================================
