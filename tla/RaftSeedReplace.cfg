SPECIFICATION Spec
CONSTANTS
  s1 = s1
  s2 = s2
  d1 = d1
  d2 = d2
  None = None
  Server = {s1, s2, s3}
  Value = {}
  Bootstraps = {s1}
  TimesOut = {s1}
  Writers = {s1}
  Views = {{s1, s2}, {s1, s3}}
  MaxEntries = 1
  MaxTerm = 2
  MaxLog = 5
  MaxRestarts = 0
  s3 = s3
  Seed = s1
INVARIANTS NeverFails AgreementIsReal CommittedOnMajority
PROPERTY ImplementsReplicatedLog
SYMMETRY Joiners
CHECK_DEADLOCK FALSE
