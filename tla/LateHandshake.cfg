SPECIFICATION Spec
CONSTANTS
  RxSize = 2
  PacketsSize = 1
  ResponsesSize = 1
  Replies = {"ok"}
  MayTimeOut = TRUE
  MaxGiven = 2
  MaxPipe = 1
INVARIANTS SupervisorSurvives
CHECK_DEADLOCK FALSE
