SPECIFICATION FairSpec
CONSTANTS
  None = None
  s1 = s1
  s2 = s2
  Sessions = {s1}
  Dedicated = {}
  Direct = {}
  Prompts = {p1, p2}
  Tokens = {t1, t2}
  Callers = {c1}
  Keys = {}
  Triggers = {g1}
  Rebinds <- NoRebinds
  MaxQueue = 2
  MaxRevision = 1
  Env = {}
  MaxCrashes = 0
CHECK_DEADLOCK FALSE
PROPERTIES AttemptEnds PendingIsOffered
