SPECIFICATION Spec
CONSTANTS
  File = {f1, f2}
  Slot = {s1, s2, s3}
  None = None
  LinkFallback = TRUE
  Restoring = TRUE
  Intrusion = "steps"
  MaxAborts = 3
SYMMETRY Symmetry
INVARIANT QuarantinedIsHeld
PROPERTIES NothingLost
