SPECIFICATION FairSpec
CONSTANTS
  s1 = s1
  s2 = s2
  t1 = t1
  t2 = t2
  g1 = g1
  g2 = g2
  Server = {s1, s2}
  Thread = {t1, t2}
  Generation = {g1, g2}
  ThreadOf <- MCTwoThreads
  MaxDeltas = 1
  MaxJobs = 1
  MaxStops = 1
  MaxLapses = 0
  Nobody = Nobody
CHECK_DEADLOCK FALSE
PROPERTIES EveryTurnEnds StopEnds
