SPECIFICATION Spec
CONSTANTS
  None = None
  Hosts = {h1, h2}
  Receipts = {r1, r2}
  Text <- SameText
  Sessions = {x1, x2}
  Env = {"abandon", "delete", "stop", "missing"}
  MaxCrashes = 1
CHECK_DEADLOCK FALSE
SYMMETRY Symmetry
INVARIANTS TypeOK OneNativeConversation DeletedIsSettled
PROPERTIES KeepsConversation AbandonedWriterIsStopped
