\* A claim is completed in the end when reconciliation is run again.
SPECIFICATION RetrySpec
CONSTANTS
  None = None
  o1 = o1
  Owner = {o1}
  Media = {m1}
  Url = {}
  OwnerOf <- SameOwner
  Uploaders = {u1}
  Committers = {c1}
  Activators = {}
  Editors = {}
  Collectors = {k1}
  Reconcilers = {r1, r2}
  Retention = 1
  MaxDay = 1
PROPERTIES
  ClaimsComplete
CHECK_DEADLOCK FALSE
