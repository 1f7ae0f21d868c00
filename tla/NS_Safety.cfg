SPECIFICATION Spec
CONSTANTS
  p = p
  e = e
  p1 = p1
  p2 = p2
  e1 = e1
  Volume = {p, e}
  Ephemeral = {e}
  Target = {p1, p2, e1}
  VolumeOf <- MCVolumeOf
  Handler = {h1, h2}
  MaxFaults = 2
  Nil = Nil
SYMMETRY MCSymmetry
INVARIANTS
  PublishedVolumeServed
  UnpublishedLeavesNothing
  EphemeralReleased
PROPERTIES
  RegisteredKeepsPath
CHECK_DEADLOCK FALSE
