SPECIFICATION FairSpec
CONSTANTS
  DateRules = {"d"}
  DelayRules = {"e"}
  Regs = {"a"}
  Nobody = Nobody
  DateSweepers = {"s1", "s2"}
  DelaySweepers = {"t1"}
  Dates = {1, 2}
  Delays <- MCDelays
  MaxLateness = 1
  MaxTime = 3
  MaxFaults = 1
  MaxEdits = 1
INVARIANTS FiredMeansServed OncePerRule
PROPERTIES DueRulesSettle
CHECK_DEADLOCK FALSE
