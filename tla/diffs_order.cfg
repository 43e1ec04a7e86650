SPECIFICATION MCSpec
CONSTANTS
  Filtered = TRUE
  MaxId = 1
  Pids = {1}
  Rollouts = {t1}
  t1 = t1
  Observers = {o1}
  o1 = o1
  MaxWrites = 1
  Hosts = {h1}
  h1 = h1
  LegacyFiles = {f1, f2}
  f1 = f1
  f2 = f2
  LegacyLines = 1
  MaxStarts = 1
  Threads = {r1}
  r1 = r1
  Artifacts = {a1}
  a1 = a1
  Window = 2
  MaxLines = 1
  MaxWritten = 1
  Preview = 3
  Radix = 2
  MaxEvents = 4
  MaxTime = 2
INVARIANT PromptDiffsAreOfNeighbours
CHECK_DEADLOCK FALSE
