SPECIFICATION Spec
CONSTANTS
  None = None
  Wallets = {a, b}
  Transfers = {t1, t2}
  Procs = {p1, p2, p3, p4}
  Sends = {x1, x2}
  Receives = {r1, r2}
  Env = {}
CHECK_DEADLOCK FALSE
SYMMETRY Symmetry
INVARIANTS TypeOK WalletExclusive ResumeReuses TokenIsJournalled CompletedMeansReceived
