\* One instance of each module at a time.
SPECIFICATION ServicesSpec
CONSTANTS
  Student = {s1}
  Departure = {d1, d2}
  Request = {p1, p2}
  Editable = {s1}
  Version = {"v1", "v2"}
  Cached = {"teachers", "trainings"}
  TTL = 2
  Nonce = {"n1"}
  MaxSkew = 1
  Margin = 1
  Lag = 1
  Timeout = 1
  Grace = 1
  MaxTime = 4
  Result = {1, 2, 3}
  Day = {1, 2}
  Time = {1, 2}
  PoolCourse = {"25m"}
  WaterCourse = {"Mar"}
  PageSize = {1, 2}
  Number = {0, 59, 60}
  Fraction <- MCFraction
  ByAddress = {"login"}
  ByClient = {"refresh"}
  Client = {"ip"}
  Address = {"mail", "anonymous"}
  Limit = 2
  Window = 2
  Capacity = 2
INVARIANTS
  OneOpenDeparture
  SingleClosure
  VerifiedHasBytes
  StaleIsExplained
  ExecutedOnce
  PagesPartition
  RankingIsStandard
  
  TimesSurviveEdits
  WindowsHold
PROPERTIES
  HistoryImmutable
  RequestsEnd
  EventuallyFresh
CHECK_DEADLOCK FALSE
