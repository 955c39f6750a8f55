\* An image that is released and claimed on the same day: retention runs from
\* its verification, not from its release.
SPECIFICATION Spec
CONSTANTS
  None = None
  o1 = o1
  Owner = {o1}
  Media = {m1}
  Url = {}
  OwnerOf <- SameOwner
  Uploaders = {u1}
  Committers = {c1}
  Activators = {}
  Editors = {}
  Collectors = {k1}
  Reconcilers = {}
  Retention = 1
  MaxDay = 1
PROPERTIES
  RetainedAfterRelease
CHECK_DEADLOCK FALSE
