SPECIFICATION Spec
CONSTANTS
  Requests = {"r1", "r2", "r3"}
  Keys = {"k1", "k2"}
  Instances = {"i1"}
  NoInstance = NoInstance
  KeyOf <- MCKeyOf
  InstanceOf <- MCInstanceOf
  OwnDelay <- MCOwnDelay
  ExtraDelay <- MCExtraDelay
  GateEnabled = TRUE
  GapMin = 2
  GapMax = 2
  Slack = 1
  Backoff = 1
  MaxRetries = 1
  MaxLag = 1
  Faults = {}
INVARIANT ContactsAreSpaced
CHECK_DEADLOCK FALSE
