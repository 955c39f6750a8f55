\* An activation between the guard of a legacy edit and its write.
SPECIFICATION Spec
CONSTANTS
  None = None
  o1 = o1
  Owner = {o1}
  Media = {m1}
  Url = {url1}
  OwnerOf <- SameOwner
  Uploaders = {u1}
  Committers = {}
  Activators = {a1}
  Editors = {e1}
  Collectors = {}
  Reconcilers = {}
  Retention = 1
  MaxDay = 0
PROPERTIES
  LegacyWriteGuarded
CHECK_DEADLOCK FALSE
