SPECIFICATION Spec
CONSTANTS
  None = None
  s1 = s1
  s2 = s2
  Sessions = {s1, s2}
  Dispatches = {d1, d2}
  Callers = {c1}
  Triggers = {}
  Rebinds <- OneRebind
  MaxAttempts = 1
  MaxSends = 2
  Env = {"retry"}
  MaxCrashes = 1
CHECK_DEADLOCK FALSE
SYMMETRY Symmetry
INVARIANTS SubmittedMeansAccepted
PROPERTIES WakeIsExact
