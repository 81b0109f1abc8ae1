---------------------------- MODULE NFSFileState ----------------------------
(***************************************************************************)
(* The share reservations and byte-range locks of one file: NFSFileState   *)
(* of src/pynfs/nfs40/nfs4state.py, as NFSServerState calls it.            *)
(*                                                                         *)
(* A mode is a set of "READ" and "WRITE", the two bits of the wire.  The    *)
(* one-hot form in which shares remembers every combination asked for is a  *)
(* set of modes.  A list of LockInfo, which the code keeps sorted and free  *)
(* of overlaps (LocksCanonical), is the set of its members.                 *)
(***************************************************************************)
EXTENDS Integers, FiniteSets

CONSTANTS OpenId,    \* the ids of opens: one for an owner and a file
          LockId,    \* the ids of lock owners on a file
          LockType,  \* the nfs_lock_type4 values that clients use
          MaxByte    \* the last offset, 2^64 - 1

ASSUME NFSAssumption ==
  /\ LockType \subseteq {"READ", "WRITE", "READW", "WRITEW"}
  /\ MaxByte \in Nat

Bits == {"READ", "WRITE"}
Mode == SUBSET Bits
Byte == 0..MaxByte
LockInfo == [type : LockType, start : Byte, end : Byte]
Share == [access : SUBSET Mode, deny : SUBSET Mode]
File == [locks : [LockId -> SUBSET LockInfo], shares : [OpenId -> Share],
         access : Mode, deny : Mode]

VARIABLE file
-----------------------------------------------------------------------------
(* Shares *)

To3(mode) == {mode} \ {{}}   \* __2to3
To2(modes) == UNION modes    \* __3to2

\* An id that is not in shares: addshares always records some access.
NoShare == [access |-> {}, deny |-> {}]

NewFile == [locks |-> [i \in LockId |-> {}], shares |-> [i \in OpenId |-> NoShare],
            access |-> {}, deny |-> {}]

\* Faulty variant of Summary: shares overwrite each other instead of adding up.
SummaryOfOne(shares, part) ==
  IF \A i \in OpenId : shares[i] = NoShare THEN {}
  ELSE To2(shares[CHOOSE i \in OpenId : shares[i] # NoShare][part])
\* The file's overall values, recomputed by downshares.
Summary(shares, part) == To2(UNION {shares[i][part] : i \in OpenId})

\* Faulty variant of TestShares: an open that denies is not held against the
\* access that others have.
TestSharesOneWay(f, access, deny) == access # {} /\ access \cap f.deny = {}
\* testshares does not raise.
TestShares(f, access, deny) ==
  access # {} /\ access \cap f.deny = {} /\ deny \cap f.access = {}

AddShares(f, id, access, deny) ==
  [f EXCEPT !.access = @ \cup access, !.deny = @ \cup deny,
            !.shares[id] = [access |-> @.access \cup To3(access),
                            deny |-> @.deny \cup To3(deny)]]

\* downshares does not raise: only a combination that was asked for is left.
CanDownShares(f, id, access, deny) ==
  IF f.shares[id] = NoShare THEN access = {} /\ deny = {}
  ELSE /\ To3(access) \subseteq f.shares[id].access
       /\ To3(deny) \subseteq f.shares[id].deny
       /\ access = {} => deny = {}

DownShares(f, id, access, deny) ==
  IF f.shares[id] = NoShare THEN f
  ELSE LET shares == [f.shares EXCEPT ![id] = [access |-> To3(access),
                                               deny |-> To3(deny)]]
       IN [f EXCEPT !.shares = shares, !.access = Summary(shares, "access"),
                    !.deny = Summary(shares, "deny")]
-----------------------------------------------------------------------------
(* Byte-range locks *)

\* Faulty variant of LockEnd: a range to the end of the file runs past it.
LockEndPast(offset, length) == IF length = 0 THEN -1 ELSE offset + length - 1
\* __getlockend: the last byte of a range, or -1 for NFS4ERR_INVAL.
LockEnd(offset, length) ==
  IF length = 0 \/ (length # MaxByte /\ offset + length > MaxByte) THEN -1
  ELSE IF length = MaxByte THEN MaxByte
  ELSE offset + length - 1

IsRead(type) == type \in {"READ", "READW"}

Overlaps(l, start, end) ==
  \/ start <= l.start /\ l.start <= end
  \/ l.start <= start /\ start <= l.end

\* Faulty variant of Conflicts: a shared lock is granted whatever others hold.
ConflictsOfWriters(f, ids, type, start, end) ==
  {i \in LockId \ ids : \E l \in f.locks[i] :
     Overlaps(l, start, end) /\ ~IsRead(type)}
\* The owners for which testlock may return a conflicting lock: it returns the
\* first one the dict iterates.
Conflicts(f, ids, type, start, end) ==
  {i \in LockId \ ids : \E l \in f.locks[i] :
     Overlaps(l, start, end) /\ (~IsRead(type) \/ ~IsRead(l.type))}

\* The loops of __removerange that split the lock around a boundary: at most one
\* lock contains it, so the break after the first one found loses nothing.
SplitAt(list, b) ==
  LET cut == {l \in list : l.start < b /\ b <= l.end}
  IN (list \ cut) \cup {[l EXCEPT !.end = b - 1] : l \in cut}
                  \cup {[l EXCEPT !.start = b] : l \in cut}

\* Faulty variant of RemoveRange: a lock that reaches past the end goes as a whole.
RemoveRangeWhole(list, start, end) ==
  {l \in SplitAt(list, start) : ~Overlaps(l, start, end)}
RemoveRange(list, start, end) ==
  {l \in SplitAt(SplitAt(list, start), end + 1) : ~Overlaps(l, start, end)}

\* The list around a new lock: those of its type that end right before it or start
\* right after it.
Before(list, new) == {l \in list : l.type = new.type /\ l.end + 1 = new.start}
After(list, new) == {l \in list : l.type = new.type /\ l.start = new.end + 1}

\* Faulty variant of Merge: the loop stops at the first pair it merges.
MergeLeft(list, new) ==
  (list \ Before(list, new)) \cup
    {[new EXCEPT !.start = IF Before(list, new) = {} THEN @
                           ELSE (CHOOSE l \in Before(list, new) : TRUE).start]}
\* The merging loop of addposixlock, from the end of the sorted list to its start:
\* the rest of the list is already merged, so only the new lock's neighbours touch.
Merge(list, new) ==
  (list \ (Before(list, new) \cup After(list, new))) \cup
    {[new EXCEPT !.start = IF Before(list, new) = {} THEN @
                           ELSE (CHOOSE l \in Before(list, new) : TRUE).start,
                 !.end = IF After(list, new) = {} THEN @
                         ELSE (CHOOSE l \in After(list, new) : TRUE).end]}

AddLock(f, id, type, start, end) ==
  [f EXCEPT !.locks[id] =
     Merge(RemoveRange(@, start, end), [type |-> type, start |-> start, end |-> end])]

RemoveLock(f, id, start, end) ==
  [f EXCEPT !.locks[id] = RemoveRange(@, start, end)]

RemoveLocks(f, id) == [f EXCEPT !.locks[id] = {}]
-----------------------------------------------------------------------------
(* The calls that NFSServerState makes *)

Open(id, access, deny) ==
  /\ TestShares(file, access, deny)
  /\ file' = AddShares(file, id, access, deny)

\* downgrade refuses to give up all access.
Downgrade(id, access, deny) ==
  /\ access # {} /\ CanDownShares(file, id, access, deny)
  /\ file' = DownShares(file, id, access, deny)

CloseShares(id) == file' = DownShares(file, id, {}, {})

Lock(id, type, offset, length) ==
  LET end == LockEnd(offset, length)
  IN /\ end # -1
     /\ Conflicts(file, {id}, type, offset, end) = {}
     /\ file' = AddLock(file, id, type, offset, end)

Unlock(id, offset, length) ==
  LET end == LockEnd(offset, length)
  IN end # -1 /\ file' = RemoveLock(file, id, offset, end)

ReleaseLocks(id) == file' = RemoveLocks(file, id)

Init == file = NewFile
Next ==
  \/ \E id \in OpenId :
       \/ CloseShares(id)
       \/ \E access, deny \in Mode : \/ Open(id, access, deny)
                                     \/ Downgrade(id, access, deny)
  \/ \E id \in LockId :
       \/ ReleaseLocks(id)
       \/ \E offset, length \in Byte :
            \/ Unlock(id, offset, length)
            \/ \E type \in LockType : Lock(id, type, offset, length)
Spec == Init /\ [][Next]_file
-----------------------------------------------------------------------------
(* Properties *)

TypeOK == file \in File

\* The two summaries of nfs4state.py:705 that every later open is tested against
\* are what the remaining opens add up to, after any upgrades and downgrades.
ShareSummary ==
  /\ file.access = UNION {To2(file.shares[i].access) : i \in OpenId}
  /\ file.deny = UNION {To2(file.shares[i].deny) : i \in OpenId}

\* Nobody has an access to the file that another one's open denies.
NoShareConflict ==
  \A i, j \in OpenId : i # j =>
    To2(file.shares[i].access) \cap To2(file.shares[j].deny) = {}

Canonical(list) ==
  \A l, m \in list :
    /\ l.start <= l.end
    /\ l # m => /\ ~Overlaps(l, m.start, m.end)
                /\ l.type = m.type => l.end + 1 # m.start

\* After any splits and merges an owner's locks are disjoint and maximal: two of
\* one type neither overlap nor touch, so a list has the one lock that covers a byte.
LocksCanonical == \A i \in LockId : Canonical(file.locks[i])

\* No byte is locked by one owner for writing and by another at all.
NoConflictingLocks ==
  \A i, j \in LockId : i # j =>
    \A l \in file.locks[i], m \in file.locks[j] :
      Overlaps(l, m.start, m.end) => IsRead(l.type) /\ IsRead(m.type)

\* How an owner holds a byte.
Holding(list, b) ==
  IF \E l \in list : ~IsRead(l.type) /\ l.start <= b /\ b <= l.end THEN "write"
  ELSE IF \E l \in list : l.start <= b /\ b <= l.end THEN "read"
  ELSE "none"

Table == INSTANCE LockTable WITH
  Opener <- OpenId, Owner <- LockId, Bit <- Bits,
  held <- [i \in LockId |-> [b \in Byte |-> Holding(file.locks[i], b)]],
  opened <- [i \in OpenId |-> [access |-> To2(file.shares[i].access),
                               deny |-> To2(file.shares[i].deny)]]

\* Every call changes exactly the bytes and modes it names, and only where nobody
\* else is in the way: the lists and summaries implement the abstract table.
ImplementsLockTable == Table!Spec
=============================================================================
