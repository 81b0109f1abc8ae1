SPECIFICATION FairSpec
CONSTANTS
  s1 = s1
  s2 = s2
  Server = {s1, s2}
  Interval = 2
  Expiry = 4
  MaxDelay = 0
  Lossy <- OneWayLossy
  Failing = {s1}
  MaxLives <- FirstRestarts
  MaxLosses = 1
  MaxPipe = 1
INVARIANTS TypeOK InitOnce OneSeed
PROPERTIES LoopSurvives ViewHasSelf LivePeersStay ViewsConverge
