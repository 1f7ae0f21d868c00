SPECIFICATION HistorySpec
CONSTANTS
  d1 = d1
  d2 = d2
  Disk = {d1, d2}
  Volume = {v1, v2, v3}
  ForeignName = foreign
  ProjId = {i1, i2}
  Capacity <- MCCapacity
  Sizes = {2, 3, 4}
  Word = 16
  BlockSize = 2
  Faults = {"restart", "projid", "limit", "xattr"}
  Nil = Nil
SYMMETRY MCSymmetry
INVARIANTS
  RestoreSucceeds
  LimitEnforced
  WithinCapacityUntilRestart
