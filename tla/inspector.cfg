SPECIFICATION MCSpec
CONSTANTS
  Callers = {c1, c2}
  c1 = c1
  c2 = c2
  MaxProbes = 2
  MaxDetaches = 2
  Hazards = {"lost", "slow"}
  MaxPort = 2
  MaxLines = 2
  MaxQueue = 2
  Room = 1
  AttachHazards = {"failing", "moving"}
INVARIANTS
  HookChainIntact
  LiveControlIsReachable
  ScriptOnlyInTarget
  LinesArriveInOrder
PROPERTIES
  OnePortHidesNoOther
  EveryCallReturns
  DetachedWorkerEnds
CHECK_DEADLOCK FALSE
