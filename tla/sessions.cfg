\* Two concurrent requests of any kind on one account, with sessions and links
\* that expire.
SPECIFICATION FairSpec
CONSTANTS
  None = None
  Request = {p1, p2}
  Session = {s1, s2, s3}
  Link = {t1, t2}
  Expiring = {s1, t1}
INVARIANTS
  SingleSuccessor
PROPERTIES
  
  RequestsFinish
CHECK_DEADLOCK FALSE
