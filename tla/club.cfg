\* One instance of each module at a time; symmetry over each small set.
SPECIFICATION ClubSpec
CONSTANTS
  None = None
  Request = {p1, p2}
  Session = {s1}
  Link = {t1, t2, t3, t4}
  Expiring = {t1}
  Left = {a1, a2}
  Right = {b1, b2}
  One = {one}
  RowId = {1, 2, 3}
  Event = {1, 2}
  Day = {1}
SYMMETRY Symmetry
INVARIANTS
  OneOpenLink
  
  
  RecordedWereEnrolled
  BatchesNeverMix
  DisciplinesNeverMix
  RaceLinksHold
  NoLockCycle
  
  OnePrincipal
  TrailAgrees
  
PROPERTIES
  OpenLinkSetsPassword
  HandOverComplete
  HistoryKept
  CompletedStays
CHECK_DEADLOCK FALSE
