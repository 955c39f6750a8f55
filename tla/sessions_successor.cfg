\* A refresh that overlaps the revocation of all sessions.
SPECIFICATION Spec
CONSTANTS
  None = None
  Request = {p1, p2}
  Session = {s1, s2, s3}
  Link = {t1, t2}
  Expiring = {}
PROPERTIES
  RevocationReachesSuccessors
CHECK_DEADLOCK FALSE
