SPECIFICATION SpecForms
CONSTANTS
  None = None
  Keep = Keep
  Forms = {"f", "g"}
  Fields = {x}
  Rules = {"w"}
  Slugs = {s, t}
  Labels = {l}
  Editors = {p, q}
  Visits = {"n"}
  MaxRequests = 2
INVARIANT ScopeIsKept
CHECK_DEADLOCK FALSE
