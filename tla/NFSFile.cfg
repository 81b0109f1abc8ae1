SPECIFICATION Spec
CONSTANTS
  o1 = o1
  o2 = o2
  k1 = k1
  k2 = k2
  OpenId = {o1, o2}
  LockId = {k1, k2}
  LockType = {"READ", "WRITE"}
  MaxByte = 2
INVARIANTS TypeOK ShareSummary NoShareConflict LocksCanonical NoConflictingLocks
PROPERTY ImplementsLockTable
SYMMETRY Alike
