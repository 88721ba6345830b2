SPECIFICATION Spec
CONSTANTS
  DateRules = {"d"}
  DelayRules = {}
  Regs = {"a"}
  Nobody = Nobody
  DateSweepers = {"s1"}
  DelaySweepers = {}
  Dates = {1, 2}
  Delays <- MCDelays
  MaxLateness = 1
  MaxTime = 3
  MaxFaults = 0
  MaxEdits = 1
INVARIANT RescheduledRuleFires
CHECK_DEADLOCK FALSE
