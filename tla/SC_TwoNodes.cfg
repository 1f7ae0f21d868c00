SPECIFICATION HistorySpec
CONSTANTS
  n1 = n1
  n2 = n2
  n3 = n3
  a = a
  b = b
  x = x
  e = e
  p1 = p1
  p2 = p2
  Node = {n1, n2, n3}
  HostPathNode = {n1, n2}
  DiskStatus <- MCDiskStatus
  PV = {a, b, x, e}
  HostPathPV = {a, b, e}
  Ephemeral = {e}
  ClaimOf <- MCClaimOf
  Capacity <- MCCapacity
  Listed = {x, e, a}
  Pod = {p1, p2}
  ClaimsOf <- MCClaimsOf
  MaxFaults = 0
  MaxDeltas = 2
  Nil = Nil
INVARIANTS
  PodOnBindNode
CHECK_DEADLOCK FALSE
