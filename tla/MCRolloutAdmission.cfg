SPECIFICATION LatchFairSpec
CONSTANTS
  s1 = s1
  s2 = s2
  s3 = s3
  r1 = r1
  r2 = r2
  Slot = {s1, s2, s3}
  Request = {r1, r2}
  Operation = {"deploy", "rollback"}
  MaxCloses = 3
  PowerLoss = TRUE
  NoClosure = NoClosure
  NoDrain = NoDrain
INVARIANTS LatchTypeOK CountIsExact DrainedIsIdle OpenLeavesNoMarker
PROPERTIES ReopensOnlyDrained DrainEnds
