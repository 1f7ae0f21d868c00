SPECIFICATION Spec
CONSTANTS
  d1 = d1
  d2 = d2
  Disk = {d1, d2}
  Volume = {v1, v2}
  ForeignName = foreign
  ProjId = {i1, i2}
  Capacity <- MCCapacity
  Sizes = {3}
  Word = 16
  BlockSize = 2
  Faults = {"restart", "crash", "projid", "limit", "remove", "unmount", "readdir", "xattr", "statfs"}
  Nil = Nil
SYMMETRY MCSymmetry
INVARIANTS
  TypeOK
  IdPoolExact
  TrackedDirHasId
  QuotasHaveDirs
