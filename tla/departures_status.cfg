\* One student whose status only archives, reactivations and voids write.
CONSTANTS
  Student = {s1}
  Departure = {d1, d2}
  Request = {p1, p2}
  Editable = {}
SPECIFICATION Spec
INVARIANTS OpenDepartureMeansInactive
CHECK_DEADLOCK FALSE
