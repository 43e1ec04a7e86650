SPECIFICATION MCSpec
CONSTANTS
  Filtered = TRUE
  MaxId = 2
  Pids = {1}
  Rollouts = {t1}
  t1 = t1
  Observers = {o1}
  o1 = o1
  MaxWrites = 2
  Hosts = {h1, h2}
  h1 = h1
  h2 = h2
  LegacyFiles = {f1, f2}
  f1 = f1
  f2 = f2
  LegacyLines = 2
  MaxStarts = 3
  Threads = {r1}
  r1 = r1
  Artifacts = {a1}
  a1 = a1
  Window = 2
  MaxLines = 4
  MaxWritten = 5
  Preview = 3
  Radix = 2
  MaxEvents = 4
  MaxTime = 2
INVARIANTS
  EndedCopiesAreWhole
  RoutesFollowTheFiles
  DiffsTellTheChanges
  DiagnosisIsFounded
PROPERTIES
  EventIdsAreStable
  
  OrderIsStable
CHECK_DEADLOCK FALSE
