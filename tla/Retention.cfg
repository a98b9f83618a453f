SPECIFICATION Spec
CONSTANTS
  c1 = c1
  c2 = c2
  p1 = p1
  s1 = s1
  Clients = {c1, c2}
  RoomKey = RoomKey
  Paths = {p1}
  NoPath = NoPath
  NoLimit = NoLimit
  Packets <- AgePackets
  Configs <- AgeConfigs
  Secrets = {s1}
  NoSecret = NoSecret
  NoRole = NoRole
  Welcome = Welcome
  NoAck = NoAck
  MaxFailures = 2
  SyncDelay = 0
  Forgetful = {}
  ClockSteps = TRUE
  MayReload = FALSE
  MayRestart = FALSE
  MaxNow = 2
  MaxLog = 2
  CountCap = 0
INVARIANTS SessionsMatchRows MemoryWithinStore
PROPERTIES NothingOwedDeleted PostTsIncreases
