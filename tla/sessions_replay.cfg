\* A logout that overlaps a refresh of the same session.
SPECIFICATION Spec
CONSTANTS
  None = None
  Request = {p1, p2}
  Session = {s1, s2, s3}
  Link = {t1, t2}
  Expiring = {}
INVARIANTS
  RotatedTokensRecognised
CHECK_DEADLOCK FALSE
