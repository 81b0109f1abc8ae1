SPECIFICATION Spec
CONSTANTS
  s1 = s1
  s2 = s2
  d1 = d1
  d2 = d2
  None = None
  Server = {s1, s2}
  Value = {d1}
  Bootstraps = {s1, s2}
  TimesOut = {s1, s2}
  Writers = {s1}
  Views = {{s1, s2}}
  MaxEntries = 2
  MaxTerm = 3
  MaxLog = 3
  MaxRestarts = 0
PROPERTY SuccessMeansStored
CHECK_DEADLOCK FALSE
