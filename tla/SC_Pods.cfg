SPECIFICATION FairHistorySpec
CONSTANTS
  n1 = n1
  n2 = n2
  n3 = n3
  a = a
  b = b
  x = x
  e = e
  p1 = p1
  p2 = p2
  Node = {n1, n2, n3}
  HostPathNode = {n1, n2}
  DiskStatus <- MCDiskStatus
  PV = {a, b, e}
  HostPathPV = {a, b, e}
  Ephemeral = {e}
  ClaimOf <- MCClaimOf
  Capacity <- MCCapacity
  Listed = {e, a}
  Pod = {p1, p2}
  ClaimsOf <- MCClaimsOf
  MaxFaults = 2
  MaxDeltas = 2
  Nil = Nil
INVARIANTS
  PodFollowsVolume
  CacheFollows
PROPERTIES
  SchedulableIsScheduled
CHECK_DEADLOCK FALSE
