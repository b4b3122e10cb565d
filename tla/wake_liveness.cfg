SPECIFICATION FairSpec
CONSTANTS
  None = None
  s1 = s1
  s2 = s2
  Sessions = {s1}
  Dispatches = {d1, d2}
  Callers = {c1}
  Triggers = {}
  Rebinds <- NoRebinds
  MaxAttempts = 1
  MaxSends = 3
  Env = {}
  MaxCrashes = 0
CHECK_DEADLOCK FALSE
PROPERTIES CallbackIsOffered SubmittedIsEvaluated
