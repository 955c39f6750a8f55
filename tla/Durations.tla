----------------------------- MODULE Durations -----------------------------
(***************************************************************************)
(* The time of a result: typed as a text, stored in milliseconds, shown    *)
(* with two decimals, and sent back as it was shown when anything else of  *)
(* the result is edited, since an edit replaces every column.              *)
(*                                                                         *)
(* A text is the numbers between its colons and the digits of its          *)
(* fraction; a text with other characters is refused before this module.   *)
(***************************************************************************)
EXTENDS Naturals, Sequences, SequencesExt

CONSTANTS
  Result,
  Number,   \* the numbers a text may have between its colons
  Fraction  \* the fractions a text may have, sequences of digits

VARIABLES
  stored,  \* durationMs of each result, if it has a time
  typed    \* history: the milliseconds of the text it was last typed as

vars == <<stored, typed>>

Opt(S) == {{}} \cup {{x} : x \in S}
Text ==
  [parts : {<<n>> : n \in Number} \cup (Number \X Number) \cup (Number \X Number \X Number),
   fraction : Fraction]
Hour == 3600000
Minute == 60000

TypeOK ==
  /\ stored \in [Result -> SUBSET Nat]
  /\ typed \in [Result -> SUBSET Nat]
  /\ \A r \in Result : stored[r] = {} <=> typed[r] = {}

Init ==
  /\ stored = [r \in Result |-> {}]
  /\ typed = [r \in Result |-> {}]

-----------------------------------------------------------------------------

(* Mutant: the digits of a fraction are read as milliseconds as they are.  *)
DigitsAlone(digits) == FoldLeft(LAMBDA n, d : 10 * n + d, 0, digits)
(* padEnd(3, '0')                                                          *)
Milliseconds(digits) ==
  LET digit(i) == IF i <= Len(digits) THEN digits[i] ELSE 0
  IN 100 * digit(1) + 10 * digit(2) + digit(3)

(* parseDuration: the last number is seconds, and minutes are bounded only *)
(* where hours are written.                                                *)
Total(parts) ==
  LET n == Len(parts)
      hours == IF n = 3 THEN parts[1] ELSE 0
      minutes == IF n > 1 THEN parts[n - 1] ELSE 0
  IN 60 * (60 * hours + minutes) + parts[n]
ParseDuration(text) ==
  IF \/ Len(text.parts) \notin 1..3 \/ Len(text.fraction) > 3
     \/ Last(text.parts) > 59
     \/ Len(text.parts) = 3 /\ text.parts[2] > 59
  THEN {}
  ELSE {1000 * Total(text.parts) + Milliseconds(text.fraction)}

(* formatDurationFromMilliseconds with the precision of resultTime.        *)
FormatDuration(ms) ==
  LET hours == ms \div Hour
      minutes == (ms % Hour) \div Minute
      seconds == (ms % Minute) \div 1000
      hundredths == (ms % 1000) \div 10
  IN [parts |-> IF hours > 0 THEN <<hours, minutes, seconds>> ELSE <<minutes, seconds>>,
      fraction |-> <<hundredths \div 10, hundredths % 10>>]

(* CompetitiveResultPolicy.assertValid: a duration that is present is at   *)
(* least a millisecond.                                                    *)
Valid(ms) == ms > 0

-----------------------------------------------------------------------------

(* A result is created, or its time is changed.                            *)
Type(r, text) ==
  \E ms \in ParseDuration(text) :
    /\ Valid(ms)
    /\ stored' = [stored EXCEPT ![r] = {ms}]
    /\ typed' = [typed EXCEPT ![r] = {ms}]

(* Another column is edited, and the form sends the time it was shown.     *)
SendBack(r) ==
  \E old \in stored[r] : \E ms \in ParseDuration(FormatDuration(old)) :
    /\ Valid(ms)
    /\ stored' = [stored EXCEPT ![r] = {ms}]
    /\ UNCHANGED typed

Delete(r) ==
  /\ stored' = [stored EXCEPT ![r] = {}]
  /\ typed' = [typed EXCEPT ![r] = {}]

Next ==
  \E r \in Result :
    \/ \E text \in Text : Type(r, text)
    \/ SendBack(r) \/ Delete(r)

Spec == Init /\ [][Next]_vars

-----------------------------------------------------------------------------

(* A time is shown as it was typed, however often the result is edited:    *)
(* it loses less than a hundredth of a second, never gains, and of two     *)
(* results that were shown with different times the faster stays faster.   *)
TimesSurviveEdits ==
  \A r \in Result : \A ms \in stored[r], was \in typed[r] :
    /\ FormatDuration(ms) = FormatDuration(was)
    /\ ms <= was /\ was < ms + 10
    /\ \A o \in Result : \A other \in stored[o], wasOther \in typed[o] :
         FormatDuration(was) # FormatDuration(wasOther) =>
           (was < wasOther <=> ms < other)
=============================================================================
