\* Two administrators take each other's role away at the same time.
CONSTANTS
  Teacher = {t1}
  Profile = {a1, a2}
  Request = {p1, p2}
SPECIFICATION Spec
INVARIANTS AdminRemains
CHECK_DEADLOCK FALSE
