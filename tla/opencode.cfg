SPECIFICATION Spec
CONSTANTS
  Sessions = {s1, s2, s3}
  s1 = s1
  s2 = s2
  s3 = s3
  Endpoints = {agent}
  agent = agent
  SessionLimit = 3
  MessageLimit = 1
  GlobalEventLimit = 2
  MaxParts = 2
  MaxBatch = 2
INVARIANTS
  RecordedIsABeginning
  FailuresLeaveOthersAlone
CHECK_DEADLOCK FALSE
