SPECIFICATION MCSpec
CONSTANTS
  NumSources = 2
  NumMethods = 2
  MaxEvents = 3
  MaxMessages = 5
  Hazards = {"death", "garbage", "request"}
  MaxSocket = 2
  SourceHazards = {"vanishing", "takeover", "unreadable", "stalling", "failing"}
INVARIANTS
  EveryLineReadIsKept
  EveryMethodIsReported
  NewestDesktopSocketIsChosen
PROPERTY RunsEnd
CHECK_DEADLOCK FALSE
