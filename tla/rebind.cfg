SPECIFICATION Spec
CONSTANTS
  None = None
  s1 = s1
  s2 = s2
  Sessions = {s1, s2}
  Dedicated = {}
  Direct = {s1}
  Prompts = {p1, p2}
  Tokens = {t1, t2}
  Callers = {c1}
  Keys = {k1}
  Triggers = {}
  Rebinds <- OneRebind
  MaxQueue = 1
  MaxRevision = 1
  Env = {"stop", "decide"}
  MaxCrashes = 0
CHECK_DEADLOCK FALSE
SYMMETRY Symmetry
INVARIANTS NoUndecidedReplay OneActivePerKey
