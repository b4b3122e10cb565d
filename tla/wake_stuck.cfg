SPECIFICATION FairSpec
CONSTANTS
  None = None
  s1 = s1
  s2 = s2
  Sessions = {s1}
  Dispatches = {d1}
  Callers = {c1}
  Triggers = {}
  Rebinds <- NoRebinds
  MaxAttempts = 2
  MaxSends = 2
  Env = {"missed"}
  MaxCrashes = 0
CHECK_DEADLOCK FALSE
PROPERTIES SubmittedIsEvaluated
