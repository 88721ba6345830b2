SPECIFICATION Spec
CONSTANTS
  Replicas = {p, q}
  p = p
  q = q
  Rules = {1}
  Regs = {1, 2}
  Answers = {2, 4}
  SendTimes = {0, 5}
  LastMonth = 1
  Start <- MCStart
  DayTicks = 7
  Tolerance = 6
  LastDay = 9
  RulesPerTick = 1
  PageSize = 1
  MaxSpan = 1
  MaxFaults = 1
  MaxEdits = 1
SYMMETRY Alike
INVARIANTS OncePerMonth RightDay NobodyMissesAMonth
CHECK_DEADLOCK FALSE
