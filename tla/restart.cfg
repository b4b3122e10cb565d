SPECIFICATION FairSpec
CONSTANTS
  None = None
  Requests = {q1}
  Initial = {s1, s2}
  Automatic = {s2}
  Spares = {y1, y2, y3}
  Work = {w1, w2}
  MaxCrashes = 2
CHECK_DEADLOCK FALSE
INVARIANTS TypeOK WorkIsKept ReplacedOnce CompleteIsComplete
PROPERTIES GateReopens
