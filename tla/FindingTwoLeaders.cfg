SPECIFICATION Spec
CONSTANTS
  s1 = s1
  s2 = s2
  d1 = d1
  d2 = d2
  None = None
  Server = {s1, s2}
  Value = {}
  Bootstraps = {s1, s2}
  TimesOut = {s1, s2}
  Writers = {}
  Views = {{s1, s2}}
  MaxEntries = 2
  MaxTerm = 2
  MaxLog = 3
  MaxRestarts = 0
INVARIANT OneLeaderInTerm
CHECK_DEADLOCK FALSE
