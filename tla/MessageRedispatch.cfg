SPECIFICATION FairSpec
CONSTANTS
  wa = wa
  em = em
  w1 = w1
  w2 = w2
  Msgs = {wa}
  Workers = {w1}
  NoMsg = NoMsg
  NoWorker = NoWorker
  Email = {}
  TextParts <- TwoParts
  Media <- OnePart
  GateEnabled = TRUE
  MaxAttempts = 3
  MaxStalls = 1
  MaxAdds = 2
  Faults <- AllFaults
PROPERTIES
  SentIsNotReopened
  KeepsPromise
  JobsComeToRest
CHECK_DEADLOCK FALSE
