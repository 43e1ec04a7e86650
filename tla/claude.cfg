SPECIFICATION MCSpec
CONSTANTS
  Transcripts = {f1, f2}
  f1 = f1
  f2 = f2
  Rewritten = f1
  MaxFiles = 2
  MaxEvents = 2
  MaxFollow = 3
  MaxSize = 7
  MaxGen = 2
  Hazards = {"rewrite", "remove", "write_error"}
INVARIANTS
  TypeOK
  EachRecordOnceInOrder
  ConsecutiveWithinGeneration
PROPERTIES
  FollowsAsPromised
  ShrunkenFileIsReadFromStart
  RunEnds
CHECK_DEADLOCK FALSE
