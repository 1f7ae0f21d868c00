SPECIFICATION FairSpec
CONSTANTS
  p = p
  e = e
  p1 = p1
  p2 = p2
  e1 = e1
  Volume = {p}
  Ephemeral = {}
  Target = {p1, p2}
  VolumeOf <- MCPersistentOf
  Handler = {h1, h2}
  MaxFaults = 3
  Nil = Nil
PROPERTIES
  OrphansCleaned
CHECK_DEADLOCK FALSE
