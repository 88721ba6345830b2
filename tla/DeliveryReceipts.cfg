SPECIFICATION FairSpec
CONSTANTS
  Handlers = {h1, h2}
  Parts = 2
  MaxIds = 3
  MaxAttempts = 2
  MaxReceipts = 2
  Faults = {"attemptFails", "crash", "noId", "log", "handlerDies"}
INVARIANTS
  ReadMeansDelivered
  LogFollowsRow
  LogKeepsUp
CHECK_DEADLOCK FALSE
PROPERTIES
  LogOnlyAdvances
  ReadReceiptLands
  RowClimbs
