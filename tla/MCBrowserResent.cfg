SPECIFICATION Spec
CHECK_DEADLOCK FALSE
CONSTANTS
  Texts = {n1, n2}
  Pictured = {n1}
  MaxSends = 2
  MaxLogins = 2
  MaxMishaps = 4
  None = None
  Threads = {t1, t2}
  MaxTurns = 0
  MaxDeltas = 0
  MaxSnags = 0
  Nobody = Nobody
  Drafts = {d1, d2}
  Pictures = {d1}
  Accounts = {a1, a2}
  Handoffs = {h1, h2}
  MaxReleases = 3
  MaxHitches = 2
  Nothing = Nothing
  MaxRevision = 4
  MaxTickets = 2
  MaxFaults = 3
  Absent = Absent
SYMMETRY Symmetry
INVARIANT RestoredIsUnsent
