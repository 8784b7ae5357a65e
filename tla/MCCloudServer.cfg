CONSTANTS
  x1 = x1
  x2 = x2
  r1 = r1
  Accounts = {a1, a2}
  Account = a1
  Identities = {i1, i2}
  Digests = {d1, d2, d3, d4}
  Threads = {t1, t2}
  Runs = {n1}
  Metas = {m1}
  Resources = {x1, r1}
  Home <- MCHome
  Keys = {k1}
  Hashes = {h1, h2}
  Ages = {1, 2}
  ReceiptAge = 1
  MaxSessions = 2
  MaxReceipts = 1
  MaxTime = 2
  MaxSeq = 1
  Servers = {p1}
  Requests = {q1, q2}
  MaxAttempts = 1
  MaxLogins = 1
  Window = 1
  None = None
SYMMETRY Interchangeable
SPECIFICATION MCSpec
INVARIANTS TypeOK AgentsReachable
PROPERTIES RotationTakesOldest DeliveryOnlyAdvances DefaultIsStable
CHECK_DEADLOCK FALSE
