SPECIFICATION FairSpec
CONSTANTS
  Volume = {v1, v2}
  Handler = {h1, h2, h3}
  MaxFaults = 2
  Nil = Nil
INVARIANTS
  LiveVolumeRegistered
  GoneVolumeUnregistered
PROPERTIES
  RefinesRegistry
  CallsGetThrough
CHECK_DEADLOCK FALSE
