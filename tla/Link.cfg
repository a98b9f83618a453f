SPECIFICATION FairSpec
CONSTANTS
  RxSize = 1
  PacketsSize = 1
  ResponsesSize = 1
  Replies = {"ok", "unsupported"}
  MayTimeOut = TRUE
  MaxGiven = 2
  MaxPipe = 1
INVARIANTS TypeOK NothingLost
PROPERTIES OutboxSpec SilenceNoticed StopEnds QueueDrains
CHECK_DEADLOCK FALSE
