\* Two commits, a legacy edit and an upload race for one record; every request
\* ends.
SPECIFICATION FairSpec
CONSTANTS
  None = None
  o1 = o1
  Owner = {o1}
  Media = {m1, m2}
  Url = {url1}
  OwnerOf <- SameOwner
  Uploaders = {u1}
  Committers = {c1, c2}
  Activators = {}
  Editors = {e1}
  Collectors = {}
  Reconcilers = {}
  Retention = 1
  MaxDay = 0
INVARIANTS
  PrivateReplacesLegacy
PROPERTIES
  LegacyWriteGuarded
  
