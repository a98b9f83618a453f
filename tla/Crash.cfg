SPECIFICATION Spec
CONSTANTS
  c1 = c1
  c2 = c2
  p1 = p1
  s1 = s1
  Clients = {c1, c2}
  RoomKey = RoomKey
  Paths = {p1}
  NoPath = NoPath
  NoLimit = NoLimit
  Packets <- SyncPackets
  Configs <- SyncConfigs
  Secrets = {s1}
  NoSecret = NoSecret
  NoRole = NoRole
  Welcome = Welcome
  NoAck = NoAck
  MaxFailures = 2
  SyncDelay = 0
  Forgetful = {}
  ClockSteps = FALSE
  MayReload = FALSE
  MayRestart = TRUE
  MaxNow = 2
  MaxLog = 2
  CountCap = 0
INVARIANTS NothingOwedSkipped MemoryWithinStore AckedIsStored
PROPERTIES ReplayGuardRises NothingOwedDeleted
