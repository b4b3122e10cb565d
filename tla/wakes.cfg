SPECIFICATION Spec
CONSTANTS
  None = None
  s1 = s1
  s2 = s2
  Sessions = {s1}
  Dispatches = {d1}
  Callers = {c1}
  Triggers = {g1}
  Rebinds <- NoRebinds
  MaxAttempts = 3
  MaxSends = 4
  Env = {"retry", "missed", "human"}
  MaxCrashes = 2
CHECK_DEADLOCK FALSE
SYMMETRY Symmetry
INVARIANTS TypeOK WakeBudget
PROPERTIES NoBlindResend CallbackLeavesOnlyHandledOrCaptured
