CONSTANTS
  Threads = {t1}
  Ids = {m1, m2, m3}
  Gens = {g1, g2}
  Snaps = {s1, s2}
  Keys = {k1, k2}
  Codes = {c1}
  Texts = {1}
  MaxThreads = 1
  MaxMessages = 2
  MaxGens = 2
  MaxSnaps = 2
  MaxReceipts = 2
  MaxDeletions = 1
  CleanupRows = 1
  MaxCached = 1
  None = None
SYMMETRY Interchangeable
SPECIFICATION StoreSpec
INVARIANTS TypeOK AuditClean ReceiptsReplay NeverServesDamaged
PROPERTIES ImplementsConversation
CHECK_DEADLOCK FALSE
