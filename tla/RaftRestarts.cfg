SPECIFICATION Spec
CONSTANTS
  s1 = s1
  s2 = s2
  d1 = d1
  None = None
  Server = {s1, s2}
  Value = {}
  Bootstraps = {s1}
  TimesOut = {s1, s2}
  Writers = {}
  Views = {{s1, s2}, {s2}}
  MaxEntries = 2
  MaxTerm = 3
  MaxLog = 3
  MaxRestarts = 1
  d2 = d2
INVARIANTS TypeOK CommitWithinLog AgreementWithinLog NothingInFlightOvershoots SyncAccountedFor StagingHasOwner
PROPERTY CommittedPrefixStable
CHECK_DEADLOCK FALSE
