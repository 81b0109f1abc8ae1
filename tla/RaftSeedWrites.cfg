SPECIFICATION Spec
CONSTANTS
  s1 = s1
  s2 = s2
  d1 = d1
  d2 = d2
  None = None
  Server = {s1, s2}
  Value = {d1, d2}
  Bootstraps = {s1}
  TimesOut = {s1}
  Writers = {s1}
  Views = {{s1, s2}}
  MaxEntries = 2
  MaxTerm = 2
  MaxLog = 3
  MaxRestarts = 0
  s3 = s3
  Seed = s1
INVARIANTS ReplicaFollowsLog
PROPERTIES SuccessMeansStored 
CHECK_DEADLOCK FALSE
