SPECIFICATION Spec
CHECK_DEADLOCK FALSE
CONSTANTS
  Texts = {n1, n2}
  Pictured = {n1}
  MaxSends = 2
  MaxLogins = 2
  MaxMishaps = 3
  None = None
  Threads = {t1, t2}
  MaxTurns = 2
  MaxDeltas = 1
  MaxSnags = 2
  Nobody = Nobody
  Drafts = {d1, d2}
  Pictures = {d1}
  Accounts = {a1, a2}
  Handoffs = {h1, h2}
  MaxReleases = 3
  MaxHitches = 1
  Nothing = Nothing
  MaxRevision = 3
  MaxTickets = 2
  MaxFaults = 2
  Absent = Absent
SYMMETRY Symmetry
CONSTRAINT Claimed
INVARIANTS SentOnce WorkIsKept OutputIsJournal OneConversation DraftArrives DeletionHonest
