SPECIFICATION Spec
CONSTANTS
  c1 = c1
  c2 = c2
  l1 = l1
  l2 = l2
  l3 = l3
  Sent1 = 3
  Sent2 = 1
  Client = {c1, c2}
  LockOwner = {l1, l2}
  ClientOf <- ClientOfOwner
  Shares <- ReadWriteShare
  LockType = {"WRITE"}
  MaxByte = 1
  SeqMod = 16
  MaxSent <- MaxSentBy
  MaxId = 6
  Expiring = {}
  MaxLives = 0
CHECK_DEADLOCK FALSE
INVARIANT ReplaysAreAnswered
