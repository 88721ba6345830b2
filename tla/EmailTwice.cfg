SPECIFICATION FairSpec
CONSTANTS
  wa = wa
  em = em
  w1 = w1
  w2 = w2
  Msgs = {em}
  Workers = {w1}
  NoMsg = NoMsg
  NoWorker = NoWorker
  Email = {em}
  TextParts <- TwoParts
  Media <- OnePart
  GateEnabled = TRUE
  MaxAttempts = 2
  MaxStalls = 1
  MaxAdds = 1
  Faults = {"log"}
INVARIANTS
  NeverDuplicates
CHECK_DEADLOCK FALSE
