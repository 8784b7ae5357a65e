SPECIFICATION Spec
CONSTANTS
  t1 = t1
  t2 = t2
  g1 = g1
  g2 = g2
  o1 = o1
  o2 = o2
  Thread = {t1, t2}
  Generation = {g1, g2}
  ThreadOf <- MCTwoThreads
  Owner = {o1, o2}
  Time = {0, 1, 2}
  Ttl = {2}
  MaxFence = 2
  MaxDeltas = 1
  NoGeneration = NoGeneration
  NoOwner = NoOwner
  NoProof = NoProof
SYMMETRY MCSymmetry
INVARIANTS TypeOK OneActiveDispatch AtMostOneDispatch SingleWriter AuditClean
PROPERTIES TriggersNeverAbort InterruptedIsFinal ImplementsTurn
