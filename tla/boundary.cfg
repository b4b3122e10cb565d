SPECIFICATION Spec
CONSTANTS
  None = None
  s1 = s1
  s2 = s2
  Sessions = {s1}
  Dedicated = {}
  Direct = {}
  Prompts = {p1, p2, p3}
  Tokens = {t1}
  Callers = {c1}
  Keys = {}
  Triggers = {g1}
  Rebinds <- NoRebinds
  MaxQueue = 3
  MaxRevision = 2
  Env = {"consume"}
  MaxCrashes = 1
CHECK_DEADLOCK FALSE
SYMMETRY Symmetry
INVARIANTS QueueOrderIsArrivalOrder
PROPERTIES BoundaryRetiresOnlyCaptured ConsumesOnlyWhatWasRead
