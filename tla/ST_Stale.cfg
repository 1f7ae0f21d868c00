SPECIFICATION FairSpec
CONSTANTS
  Disk = {1, 2}
  Volume = {v1, v2}
  Capacity <- MCCapacity
  Sizes = {2, 3}
  Contents = {0, 3}
  MiB = 2
  GiB = 4
  Word = 64
  LostAnswers = FALSE
  MaxChanges = 4
  MaxFaults = 0
  Nil = Nil
  RequestLists <- MCRequestLists
  OtherNodes <- MCOtherNodes
PROPERTIES
  DiskStatusConverges
