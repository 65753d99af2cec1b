SPECIFICATION WatchdogSpec
CONSTANTS
  MaxTime = 1
  WatchTime = 2
  Grace = 2
  MaxCalls = 1
  MaxDelay = 1
  MaxInterrupts = 2
  Horizon = 15
INVARIANTS ReturnsStatus
PROPERTIES DumpIsSpared WatchedEnds TimerHalts
CHECK_DEADLOCK FALSE
