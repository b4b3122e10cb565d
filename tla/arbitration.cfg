SPECIFICATION Spec
CONSTANTS
  None = None
  s1 = s1
  s2 = s2
  Sessions = {s1, s2}
  Dedicated = {s2}
  Direct = {}
  Prompts = {p1, p2}
  Tokens = {t1, t2}
  Callers = {c1, c2}
  Keys = {}
  Triggers = {}
  Rebinds <- NoRebinds
  MaxQueue = 2
  MaxRevision = 1
  Env = {"drain", "stop", "prune", "consume", "decide"}
  MaxCrashes = 0
CHECK_DEADLOCK FALSE
SYMMETRY Symmetry
INVARIANTS TypeOK OneAttemptPerSession UnsentClaimIsHeld UnresolvedClaimBlocksQueue
PROPERTIES DecisionAwaitsAttempt
