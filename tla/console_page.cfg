SPECIFICATION Spec
CONSTANTS
  Sessions = {s1, s2, s3}
  s1 = s1
  s2 = s2
  s3 = s3
  NoSession = NoSession
  Initial = s1
  PageLimit = 1
  EventLimit = 1
  MaxEvents = 3
  MaxRelists = 1
  MaxClicks = 2
INVARIANTS
  NothingTwice
  TimelineIsOfSelection
  RestingSessionsAreListed
  NoButtonIsStuck
SYMMETRY Symmetry
CHECK_DEADLOCK FALSE
