\* Bindings made by commits and activations, claims, reconciliations, crashes
\* and late deletes around two images of one record.
SPECIFICATION Spec
CONSTANTS
  None = None
  o1 = o1
  Owner = {o1}
  Media = {m1, m2}
  Url = {}
  OwnerOf <- SameOwner
  Uploaders = {u1}
  Committers = {c1}
  Activators = {a1}
  Editors = {}
  Collectors = {k1}
  Reconcilers = {r1, r2}
  Retention = 1
  MaxDay = 1
SYMMETRY Symmetry
INVARIANTS
  BoundImageAvailable
  IssuedImageStored
  DeletedImageGone
PROPERTIES
  ImplementsRegister
CHECK_DEADLOCK FALSE
