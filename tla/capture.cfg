SPECIFICATION Spec
CONSTANTS
  Exchanges = {e1, e2}
  e1 = e1
  e2 = e2
  ByHost = {e1}
  ByBody = {e2}
  WithTools = {e2}
  SessionWindow = 0
  MaxTime = 1
  MaxLines = 3
  MaxBacklog = 1
  MayFail = TRUE
INVARIANTS
  AcknowledgedMeansCaptured
  ResponsesAreAttributed
  SessionsFollowPauses
  SessionIdsAreStable
PROPERTIES
  CaptureEnds
CHECK_DEADLOCK FALSE
