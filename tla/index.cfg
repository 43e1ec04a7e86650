SPECIFICATION MCSpec
CONSTANTS
  Threads = {t1, t2}
  t1 = t1
  t2 = t2
  Reader = t0
  Sources = {s1, s2}
  s1 = s1
  s2 = s2
  OneSource = s1
  MaxLines = 2
  Hazards = {"live", "crash", "write_error"}
SYMMETRY Symmetry
INVARIANTS
  TypeOK
  FreshManifestMeansFreshIndex
  ExistingDetailIsFound
  IndexNeverAhead
PROPERTY RefinesAtomicIndex
