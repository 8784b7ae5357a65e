CONSTANTS
  s1 = s1
  s2 = s2
  s3 = s3
  l1 = l1
  l2 = l2
  Threads = {t1}
  Ids <- MCIds
  Gens = {g1, g2, g3}
  Snaps <- MCSnaps
  Keys <- MCKeys
  UserKey = u
  Codes = {}
  Texts = {1, 2}
  MaxThreads = 1
  MaxMessages = 4
  MaxGens = 3
  MaxSnaps = 2
  MaxReceipts = 1
  MaxDeletions = 1
  CleanupRows = 1
  None = None
  Requests = {q1, q2}
  Weight <- MCWeight
  Budget = 3
  MaxEntries = 3
  RecentTurns = 1
SYMMETRY Interchangeable
SPECIFICATION ContextSpec
INVARIANTS PreparedTurnAssembles
PROPERTIES CoverageNeverShrinks
CHECK_DEADLOCK FALSE
