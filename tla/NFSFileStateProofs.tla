------------------------- MODULE NFSFileStateProofs -------------------------
(***************************************************************************)
(* The share reservations and locks of a file keep what they promise, for   *)
(* any ids, lock types and size of the file, and implement LockTable.       *)
(***************************************************************************)
EXTENDS NFSFileState, TLAPS

\* How a lock l is left of a lock o when the range from start to end is removed.
Piece(l, o, start, end) ==
  \/ l = o /\ ~Overlaps(o, start, end)
  \/ o.start < start /\ start <= o.end /\ l = [o EXCEPT !.end = start - 1]
  \/ o.start <= end /\ end < o.end /\ l = [o EXCEPT !.start = end + 1]

Covers(l, b) == l.start <= b /\ b <= l.end
Covered(list, type, b) == \E l \in list : l.type = type /\ Covers(l, b)
-----------------------------------------------------------------------------
(* Lists of locks *)

\* What the splitting loops leave: each lock as it was, or its two parts.
LEMMA SplitAtMembers ==
  ASSUME NEW list \in SUBSET LockInfo, NEW b \in Int, NEW l
  PROVE  l \in SplitAt(list, b) <=>
           \E o \in list :
             \/ l = o /\ ~(o.start < b /\ b <= o.end)
             \/ /\ o.start < b /\ b <= o.end
                /\ l = [o EXCEPT !.end = b - 1] \/ l = [o EXCEPT !.start = b]
  BY DEF SplitAt

\* What __removerange leaves of a list is pieces of its locks.
LEMMA RemoveRangeMembers ==
  ASSUME NEW list \in SUBSET LockInfo, NEW s \in Byte, NEW e \in Byte, s <= e, NEW l,
         NFSAssumption, \A o \in list : o.start <= o.end
  PROVE  l \in RemoveRange(list, s, e) <=> \E o \in list : Piece(l, o, s, e)
  <1> DEFINE half == SplitAt(list, s)
  <1>1. s \in Int /\ e + 1 \in Int
    BY DEF Byte, NFSAssumption
  <1>2. half \in SUBSET LockInfo
    <2> SUFFICES ASSUME NEW m \in half PROVE m \in LockInfo
      OBVIOUS
    <2>1. PICK o \in list :
             \/ m = o /\ ~(o.start < s /\ s <= o.end)
             \/ /\ o.start < s /\ s <= o.end
                /\ m = [o EXCEPT !.end = s - 1] \/ m = [o EXCEPT !.start = s]
      BY <1>1, SplitAtMembers DEF Byte, NFSAssumption
    <2> QED BY <2>1 DEF LockInfo, Byte, NFSAssumption
  <1> HIDE DEF half
  <1>3. ASSUME l \in RemoveRange(list, s, e) PROVE \E o \in list : Piece(l, o, s, e)
    <2>1. l \in SplitAt(half, e + 1) /\ ~Overlaps(l, s, e)
      BY <1>3 DEF RemoveRange, half
    <2>2. PICK m \in half :
             \/ l = m /\ ~(m.start < e + 1 /\ e + 1 <= m.end)
             \/ /\ m.start < e + 1 /\ e + 1 <= m.end
                /\ l = [m EXCEPT !.end = (e + 1) - 1] \/ l = [m EXCEPT !.start = e + 1]
      BY <1>1, <1>2, <2>1, SplitAtMembers
    <2>3. PICK o \in list :
             \/ m = o /\ ~(o.start < s /\ s <= o.end)
             \/ /\ o.start < s /\ s <= o.end
                /\ m = [o EXCEPT !.end = s - 1] \/ m = [o EXCEPT !.start = s]
      BY <1>1, SplitAtMembers DEF half, Byte, NFSAssumption
    <2>4. o \in LockInfo /\ o.start <= o.end
      OBVIOUS
    <2>5. Piece(l, o, s, e)
      BY <2>1, <2>2, <2>3, <2>4 DEF Piece, Overlaps, LockInfo, Byte, NFSAssumption
    <2> QED BY <2>5
  <1>4. ASSUME NEW o \in list, Piece(l, o, s, e) PROVE l \in RemoveRange(list, s, e)
    <2>1. o \in LockInfo /\ o.start <= o.end
      OBVIOUS
    <2>2. ~Overlaps(l, s, e)
      BY <1>4, <2>1 DEF Piece, Overlaps, LockInfo, Byte, NFSAssumption
    <2>3. l \in SplitAt(half, e + 1)
      <3>1. CASE l = o /\ ~Overlaps(o, s, e)
        <4>1. l \in half
          BY <1>1, <3>1, <2>1, SplitAtMembers
             DEF half, Overlaps, LockInfo, Byte, NFSAssumption
        <4>2. ~(l.start < e + 1 /\ e + 1 <= l.end)
          BY <3>1, <2>1 DEF Overlaps, LockInfo, Byte, NFSAssumption
        <4> QED BY <1>1, <1>2, <4>1, <4>2, SplitAtMembers
      <3>2. CASE o.start < s /\ s <= o.end /\ l = [o EXCEPT !.end = s - 1]
        <4>1. l \in half
          BY <1>1, <3>2, SplitAtMembers DEF half
        <4>2. ~(l.start < e + 1 /\ e + 1 <= l.end)
          BY <3>2, <2>1 DEF LockInfo, Byte, NFSAssumption
        <4> QED BY <1>1, <1>2, <4>1, <4>2, SplitAtMembers
      <3>3. CASE o.start <= e /\ e < o.end /\ l = [o EXCEPT !.start = e + 1]
        <4>1. CASE o.start < s
          <5> DEFINE m == [o EXCEPT !.start = s]
          <5>1. m \in half
            BY <1>1, <3>3, <4>1, <2>1, SplitAtMembers
               DEF half, LockInfo, Byte, NFSAssumption
          <5>2. /\ m.start < e + 1 /\ e + 1 <= m.end
                /\ l = [m EXCEPT !.start = e + 1]
            <6>1. m.start < e + 1 /\ e + 1 <= m.end
              BY <3>3, <4>1, <2>1 DEF LockInfo, Byte, NFSAssumption
            <6>2. l = [m EXCEPT !.start = e + 1]
              BY <3>3, Zenon
            <6> QED BY <6>1, <6>2
          <5> HIDE DEF m
          <5> QED BY <1>1, <1>2, <5>1, <5>2, SplitAtMembers
        <4>2. CASE ~(o.start < s)
          <5>1. o \in half
            BY <1>1, <4>2, SplitAtMembers DEF half
          <5>2. o.start < e + 1 /\ e + 1 <= o.end
            BY <3>3, <2>1 DEF LockInfo, Byte, NFSAssumption
          <5> QED BY <1>1, <1>2, <3>3, <5>1, <5>2, SplitAtMembers
        <4> QED BY <4>1, <4>2
      <3> QED BY <1>4, <3>1, <3>2, <3>3 DEF Piece
    <2> QED BY <2>2, <2>3 DEF RemoveRange, half
  <1> QED BY <1>3, <1>4

\* What __removerange leaves is again a list, as disjoint and merged as before.
LEMMA RemoveRangeKeeps ==
  ASSUME NEW list \in SUBSET LockInfo, NEW s \in Byte, NEW e \in Byte, s <= e,
         NFSAssumption, Canonical(list)
  PROVE  /\ RemoveRange(list, s, e) \in SUBSET LockInfo
         /\ Canonical(RemoveRange(list, s, e))
         /\ \A l \in RemoveRange(list, s, e) : ~Overlaps(l, s, e)
  <1> DEFINE left == RemoveRange(list, s, e)
  <1>1. \A o \in list : o \in LockInfo /\ o.start <= o.end
    BY DEF Canonical
  <1>2. \A l : l \in left <=> \E o \in list : Piece(l, o, s, e)
    BY <1>1, RemoveRangeMembers
  <1> HIDE DEF left
  <1>3. ASSUME NEW l \in left
        PROVE  l \in LockInfo /\ l.start <= l.end /\ ~Overlaps(l, s, e)
    <2>1. PICK o \in list : Piece(l, o, s, e)
      BY <1>2
    <2> QED BY <1>1, <2>1 DEF Piece, Overlaps, LockInfo, Byte, NFSAssumption
  <1>4. ASSUME NEW l \in left, NEW m \in left, l # m
        PROVE  ~Overlaps(l, m.start, m.end) /\ (l.type = m.type => l.end + 1 # m.start)
    <2>1. PICK o \in list : Piece(l, o, s, e)
      BY <1>2
    <2>2. PICK p \in list : Piece(m, p, s, e)
      BY <1>2
    <2>3. CASE o = p
      BY <1>1, <1>4, <2>1, <2>2, <2>3
         DEF Piece, Overlaps, LockInfo, Byte, NFSAssumption
    <2>4. CASE o # p
      <3>1. /\ ~Overlaps(o, p.start, p.end)
            /\ o.type = p.type => o.end + 1 # p.start
        BY <2>4 DEF Canonical
      <3>2. /\ o.start <= l.start /\ l.end <= o.end /\ l.type = o.type
            /\ p.start <= m.start /\ m.end <= p.end /\ m.type = p.type
            /\ l.start <= l.end /\ m.start <= m.end
        BY <1>1, <1>3, <2>1, <2>2 DEF Piece, LockInfo, Byte, NFSAssumption
      <3> QED BY <1>1, <1>3, <3>1, <3>2 DEF Overlaps, LockInfo, Byte, NFSAssumption
    <2> QED BY <2>3, <2>4
  <1>5. left \in SUBSET LockInfo /\ Canonical(left)
    BY <1>3, <1>4 DEF Canonical
  <1> QED BY <1>3, <1>5 DEF left

\* __removerange frees the range and nothing else.
LEMMA RemoveRangeCovers ==
  ASSUME NEW list \in SUBSET LockInfo, NEW s \in Byte, NEW e \in Byte, s <= e,
         NFSAssumption, Canonical(list), NEW type, NEW b \in Byte
  PROVE  Covered(RemoveRange(list, s, e), type, b)
           <=> ~(s <= b /\ b <= e) /\ Covered(list, type, b)
  <1> DEFINE left == RemoveRange(list, s, e)
  <1>1. \A o \in list : o \in LockInfo /\ o.start <= o.end
    BY DEF Canonical
  <1>2. \A l : l \in left <=> \E o \in list : Piece(l, o, s, e)
    BY <1>1, RemoveRangeMembers
  <1> HIDE DEF left
  <1>3. ASSUME NEW l \in left, l.type = type, Covers(l, b)
        PROVE  ~(s <= b /\ b <= e) /\ Covered(list, type, b)
    <2>1. PICK o \in list : Piece(l, o, s, e)
      BY <1>2
    <2>2. ~(s <= b /\ b <= e) /\ o.type = type /\ Covers(o, b)
      BY <1>1, <1>3, <2>1 DEF Piece, Covers, Overlaps, LockInfo, Byte, NFSAssumption
    <2> QED BY <2>2 DEF Covered
  <1>4. ASSUME NEW o \in list, o.type = type, Covers(o, b), ~(s <= b /\ b <= e)
        PROVE  Covered(left, type, b)
    <2>0. o \in LockInfo /\ o.start <= o.end
      BY <1>1
    <2>1. CASE ~Overlaps(o, s, e)
      <3>1. Piece(o, o, s, e)
        BY <2>1 DEF Piece
      <3> QED BY <1>2, <1>4, <3>1 DEF Covered
    <2>2. CASE Overlaps(o, s, e) /\ b < s
      <3> DEFINE l == [o EXCEPT !.end = s - 1]
      <3>1. Piece(l, o, s, e)
        BY <1>4, <2>0, <2>2 DEF Piece, Overlaps, Covers, LockInfo, Byte, NFSAssumption
      <3>2. l.type = type /\ Covers(l, b)
        BY <1>4, <2>0, <2>2 DEF Covers, LockInfo, Byte, NFSAssumption
      <3> HIDE DEF l
      <3> QED BY <1>2, <3>1, <3>2 DEF Covered
    <2>3. CASE Overlaps(o, s, e) /\ e < b
      <3> DEFINE l == [o EXCEPT !.start = e + 1]
      <3>1. Piece(l, o, s, e)
        BY <1>4, <2>0, <2>3 DEF Piece, Overlaps, Covers, LockInfo, Byte, NFSAssumption
      <3>2. l.type = type /\ Covers(l, b)
        BY <1>4, <2>0, <2>3 DEF Covers, LockInfo, Byte, NFSAssumption
      <3> HIDE DEF l
      <3> QED BY <1>2, <3>1, <3>2 DEF Covered
    <2> QED BY <1>4, <2>1, <2>2, <2>3 DEF Byte, NFSAssumption
  <1> QED BY <1>3, <1>4 DEF Covered, left

\* The merging loop joins a new lock with the neighbours it touches and leaves the
\* list disjoint, merged, and covering what it covered and the new range.
LEMMA MergeKeeps ==
  ASSUME NEW list \in SUBSET LockInfo, NEW new \in LockInfo, NFSAssumption,
         Canonical(list), new.start <= new.end,
         \A l \in list : ~Overlaps(l, new.start, new.end)
  PROVE  /\ Merge(list, new) \in SUBSET LockInfo
         /\ Canonical(Merge(list, new))
         /\ \A type : \A b \in Byte :
              Covered(Merge(list, new), type, b)
                <=> Covered(list, type, b) \/ (type = new.type /\ Covers(new, b))
  <1> DEFINE before == Before(list, new)
             after == After(list, new)
             rest == list \ (before \cup after)
             first == IF before = {} THEN new.start
                      ELSE (CHOOSE l \in before : TRUE).start
             last == IF after = {} THEN new.end
                     ELSE (CHOOSE l \in after : TRUE).end
             joined == [new EXCEPT !.start = first, !.end = last]
  <1>1. Merge(list, new) = rest \cup {joined}
    BY DEF Merge
  <1>2. \A l \in list : l \in LockInfo /\ l.start <= l.end
    BY DEF Canonical
  <1>3. \A l \in before : /\ l \in list /\ l.type = new.type /\ l.end + 1 = new.start
                          /\ l.start = first
    <2> SUFFICES ASSUME NEW l \in before PROVE /\ l \in list /\ l.type = new.type
                                              /\ l.end + 1 = new.start /\ l.start = first
      OBVIOUS
    <2>1. \A m \in before : m \in list /\ m.type = new.type /\ m.end + 1 = new.start
      BY DEF Before
    <2>2. PICK m \in before : first = m.start
      <3> DEFINE m == CHOOSE x \in before : TRUE
      <3>1. m \in before /\ first = m.start
        OBVIOUS
      <3> QED BY <3>1
    <2>3. l = m
      <3>1. l \in LockInfo /\ m \in LockInfo /\ l.start <= l.end /\ m.start <= m.end
        BY <1>2, <2>1
      <3>2. l.end = m.end
        BY <2>1, <3>1 DEF LockInfo, Byte, NFSAssumption
      <3>3. Overlaps(l, m.start, m.end)
        BY <3>1, <3>2 DEF Overlaps, LockInfo, Byte, NFSAssumption
      <3> QED BY <2>1, <3>3 DEF Canonical
    <2> QED BY <2>1, <2>2, <2>3
  <1>4. \A l \in after : /\ l \in list /\ l.type = new.type /\ l.start = new.end + 1
                         /\ l.end = last
    <2> SUFFICES ASSUME NEW l \in after PROVE /\ l \in list /\ l.type = new.type
                                             /\ l.start = new.end + 1 /\ l.end = last
      OBVIOUS
    <2>1. \A m \in after : m \in list /\ m.type = new.type /\ m.start = new.end + 1
      BY DEF After
    <2>2. PICK m \in after : last = m.end
      <3> DEFINE m == CHOOSE x \in after : TRUE
      <3>1. m \in after /\ last = m.end
        OBVIOUS
      <3> QED BY <3>1
    <2>3. l = m
      <3>1. l \in LockInfo /\ m \in LockInfo /\ l.start <= l.end /\ m.start <= m.end
        BY <1>2, <2>1
      <3>2. l.start = m.start
        BY <2>1
      <3>3. Overlaps(l, m.start, m.end)
        BY <3>1, <3>2 DEF Overlaps, LockInfo, Byte, NFSAssumption
      <3> QED BY <2>1, <3>3 DEF Canonical
    <2> QED BY <2>1, <2>2, <2>3
  <1>5. /\ before = {} => first = new.start
        /\ after = {} => last = new.end
    OBVIOUS
  <1>6. \A l \in rest : /\ l \in list
                        /\ l.type = new.type => l.end + 1 # new.start /\ l.start # new.end + 1
    BY DEF Before, After
  <1> HIDE DEF before, after, rest, first, last
  <1>7. /\ first \in Byte /\ last \in Byte /\ first <= new.start /\ new.end <= last
    <2>1. first \in Byte /\ first <= new.start
      <3>1. CASE before = {}
        BY <1>5, <3>1 DEF LockInfo, Byte, NFSAssumption
      <3>2. CASE before # {}
        <4>1. PICK l \in before : TRUE
          BY <3>2
        <4> QED BY <1>2, <1>3, <4>1 DEF LockInfo, Byte, NFSAssumption
      <3> QED BY <3>1, <3>2
    <2>2. last \in Byte /\ new.end <= last
      <3>1. CASE after = {}
        BY <1>5, <3>1 DEF LockInfo, Byte, NFSAssumption
      <3>2. CASE after # {}
        <4>1. PICK l \in after : TRUE
          BY <3>2
        <4> QED BY <1>2, <1>4, <4>1 DEF LockInfo, Byte, NFSAssumption
      <3> QED BY <3>1, <3>2
    <2> QED BY <2>1, <2>2
  <1>8. /\ joined \in LockInfo /\ joined.type = new.type
        /\ joined.start = first /\ joined.end = last
    BY <1>7 DEF LockInfo
  <1> HIDE DEF joined
  <1>9. \A l \in rest : /\ ~Overlaps(l, first, last) /\ ~Overlaps(joined, l.start, l.end)
                        /\ l.type = new.type => l.end + 1 # first /\ last + 1 # l.start
    <2> SUFFICES ASSUME NEW l \in rest
                 PROVE  /\ ~Overlaps(l, first, last) /\ ~Overlaps(joined, l.start, l.end)
                        /\ l.type = new.type => l.end + 1 # first /\ last + 1 # l.start
      OBVIOUS
    <2>1. /\ l \in LockInfo /\ l.start <= l.end /\ l \in list
          /\ ~Overlaps(l, new.start, new.end) /\ l \notin before /\ l \notin after
      BY <1>2, <1>6 DEF rest
    <2>2. /\ l.end < first \/ l.end > new.end
          /\ l.type = new.type => l.end + 1 # first
      <3>1. CASE before = {}
        BY <1>5, <1>6, <2>1, <3>1 DEF Overlaps, LockInfo, Byte, NFSAssumption
      <3>2. CASE before # {}
        <4>1. PICK p \in before : TRUE
          BY <3>2
        <4>2. /\ p \in list /\ p.type = new.type /\ p.end + 1 = new.start
              /\ p.start = first /\ p \in LockInfo /\ p.start <= p.end
          BY <1>2, <1>3
        <4>3. /\ ~Overlaps(l, p.start, p.end)
              /\ l.type = p.type => l.end + 1 # p.start
          BY <2>1, <4>1, <4>2 DEF Canonical
        <4> QED BY <2>1, <4>2, <4>3 DEF Overlaps, LockInfo, Byte, NFSAssumption
      <3> QED BY <3>1, <3>2
    <2>3. /\ l.start > last \/ l.start < new.start
          /\ l.type = new.type => last + 1 # l.start
      <3>1. CASE after = {}
        BY <1>5, <1>6, <2>1, <3>1 DEF Overlaps, LockInfo, Byte, NFSAssumption
      <3>2. CASE after # {}
        <4>1. PICK p \in after : TRUE
          BY <3>2
        <4>2. /\ p \in list /\ p.type = new.type /\ p.start = new.end + 1
              /\ p.end = last /\ p \in LockInfo /\ p.start <= p.end
          BY <1>2, <1>4
        <4>3. /\ ~Overlaps(p, l.start, l.end)
              /\ p.type = l.type => p.end + 1 # l.start
          BY <2>1, <4>1, <4>2 DEF Canonical
        <4> QED BY <2>1, <4>2, <4>3 DEF Overlaps, LockInfo, Byte, NFSAssumption
      <3> QED BY <3>1, <3>2
    <2> QED BY <1>7, <1>8, <2>1, <2>2, <2>3 DEF Overlaps, LockInfo, Byte, NFSAssumption
  <1>10. Merge(list, new) \in SUBSET LockInfo
    BY <1>1, <1>6, <1>8
  <1>11. Canonical(Merge(list, new))
    <2>1. \A l \in rest \cup {joined} : l.start <= l.end
      BY <1>2, <1>6, <1>7, <1>8 DEF LockInfo, Byte, NFSAssumption
    <2>2. ASSUME NEW l \in rest \cup {joined}, NEW m \in rest \cup {joined}, l # m
          PROVE  ~Overlaps(l, m.start, m.end) /\ (l.type = m.type => l.end + 1 # m.start)
      <3>1. CASE l \in rest /\ m \in rest
        BY <1>6, <2>2, <3>1 DEF Canonical
      <3>2. CASE l \in rest /\ m = joined
        BY <1>8, <1>9, <3>2
      <3>3. CASE l = joined /\ m \in rest
        BY <1>8, <1>9, <3>3
      <3> QED BY <2>2, <3>1, <3>2, <3>3
    <2> QED BY <1>1, <2>1, <2>2 DEF Canonical
  <1>12. ASSUME NEW type, NEW b \in Byte
         PROVE  Covered(Merge(list, new), type, b)
                  <=> Covered(list, type, b) \/ (type = new.type /\ Covers(new, b))
    <2>1. Covers(joined, b) <=> \/ Covers(new, b)
                                \/ \E l \in before \cup after : Covers(l, b)
      <3>1. first <= b /\ b < new.start <=> \E l \in before : Covers(l, b)
        <4>1. CASE before = {}
          BY <1>5, <4>1 DEF LockInfo, Byte, NFSAssumption
        <4>2. CASE before # {}
          <5>1. PICK p \in before : TRUE
            BY <4>2
          <5>2. \A l \in before : /\ l.start = first /\ l.end + 1 = new.start
                                  /\ l \in LockInfo
            BY <1>2, <1>3
          <5> QED BY <5>1, <5>2 DEF Covers, LockInfo, Byte, NFSAssumption
        <4> QED BY <4>1, <4>2
      <3>2. new.end < b /\ b <= last <=> \E l \in after : Covers(l, b)
        <4>1. CASE after = {}
          BY <1>5, <4>1 DEF LockInfo, Byte, NFSAssumption
        <4>2. CASE after # {}
          <5>1. PICK p \in after : TRUE
            BY <4>2
          <5>2. \A l \in after : /\ l.end = last /\ l.start = new.end + 1
                                 /\ l \in LockInfo
            BY <1>2, <1>4
          <5> QED BY <5>1, <5>2 DEF Covers, LockInfo, Byte, NFSAssumption
        <4> QED BY <4>1, <4>2
      <3>3. Covers(joined, b) <=> \/ Covers(new, b)
                                  \/ first <= b /\ b < new.start
                                  \/ new.end < b /\ b <= last
        BY <1>7, <1>8 DEF Covers, LockInfo, Byte, NFSAssumption
      <3> QED BY <3>1, <3>2, <3>3
    <2>2. Covered(Merge(list, new), type, b)
            <=> \/ \E l \in rest : l.type = type /\ Covers(l, b)
                \/ new.type = type /\ Covers(joined, b)
      BY <1>1, <1>8 DEF Covered
    <2>3. \A l \in before \cup after : l \in list /\ l.type = new.type
      BY <1>3, <1>4
    <2>4. list = rest \cup before \cup after
      BY <1>3, <1>4 DEF rest
    <2> QED BY <2>1, <2>2, <2>3, <2>4 DEF Covered
  <1> QED BY <1>10, <1>11, <1>12
-----------------------------------------------------------------------------
(* The calls *)

LEMMA LockEndIsByte ==
  ASSUME NFSAssumption, NEW offset \in Byte, NEW length \in Byte,
         LockEnd(offset, length) # -1
  PROVE  LockEnd(offset, length) \in Byte /\ offset <= LockEnd(offset, length)
  BY DEF LockEnd, Byte, NFSAssumption

\* A lock leaves the owner's list canonical, with the range in it and nothing else
\* changed.
LEMMA AddLockList ==
  ASSUME NEW list \in SUBSET LockInfo, NEW type \in LockType, NEW s \in Byte,
         NEW e \in Byte, s <= e, NFSAssumption, Canonical(list),
         NEW new, new = [type |-> type, start |-> s, end |-> e]
  PROVE  LET after == Merge(RemoveRange(list, s, e), new)
         IN /\ after \in SUBSET LockInfo /\ Canonical(after)
            /\ \A t : \A b \in Byte :
                 Covered(after, t, b)
                   <=> IF s <= b /\ b <= e THEN t = type ELSE Covered(list, t, b)
  <1> DEFINE left == RemoveRange(list, s, e)
  <1>1. new \in LockInfo /\ new.type = type /\ new.start = s /\ new.end = e
    BY DEF LockInfo
  <1>2. /\ left \in SUBSET LockInfo /\ Canonical(left)
        /\ \A l \in left : ~Overlaps(l, new.start, new.end)
    BY <1>1, RemoveRangeKeeps
  <1>3. \A t : \A b \in Byte : Covered(left, t, b)
                             <=> ~(s <= b /\ b <= e) /\ Covered(list, t, b)
    BY RemoveRangeCovers
  <1> HIDE DEF left
  <1>4. /\ Merge(left, new) \in SUBSET LockInfo /\ Canonical(Merge(left, new))
        /\ \A t : \A b \in Byte :
             Covered(Merge(left, new), t, b)
               <=> Covered(left, t, b) \/ (t = new.type /\ Covers(new, b))
    BY <1>1, <1>2, MergeKeeps
  <1>5. \A b : Covers(new, b) <=> s <= b /\ b <= e
    BY <1>1 DEF Covers
  <1> QED BY <1>1, <1>3, <1>4, <1>5 DEF left

\* A byte that two locks share is in the range of both.
LEMMA OverlapIsAByte ==
  ASSUME NEW l \in LockInfo, NEW m \in LockInfo, NFSAssumption,
         l.start <= l.end, m.start <= m.end
  PROVE  Overlaps(l, m.start, m.end) <=> \E b \in Byte : Covers(l, b) /\ Covers(m, b)
  <1>1. ASSUME Overlaps(l, m.start, m.end)
        PROVE  \E b \in Byte : Covers(l, b) /\ Covers(m, b)
    <2>1. \/ Covers(l, m.start) /\ Covers(m, m.start)
          \/ Covers(l, l.start) /\ Covers(m, l.start)
      BY <1>1 DEF Overlaps, Covers, LockInfo, Byte, NFSAssumption
    <2>2. l.start \in Byte /\ m.start \in Byte
      BY DEF LockInfo
    <2> QED BY <2>1, <2>2
  <1>2. ASSUME NEW b \in Byte, Covers(l, b), Covers(m, b)
        PROVE  Overlaps(l, m.start, m.end)
    BY <1>2 DEF Overlaps, Covers, LockInfo, Byte, NFSAssumption
  <1> QED BY <1>1, <1>2

\* The inductive invariant: every property of the file's state, which need each
\* other: a split finds one lock because the list is canonical, and an open is
\* tested against summaries.
FileInv == /\ TypeOK /\ ShareSummary /\ NoShareConflict
           /\ LocksCanonical /\ NoConflictingLocks

LEMMA InitFile == Init => FileInv
  BY DEF Init, FileInv, NewFile, TypeOK, File, Share, Mode, NoShare, ShareSummary,
         NoShareConflict, LocksCanonical, Canonical, NoConflictingLocks, To2

\* A call that leaves the locks alone keeps what is said of them.
LEMMA SharesOnly ==
  ASSUME FileInv, NEW shares \in [OpenId -> Share], NEW access \in Mode, NEW deny \in Mode,
         file' = [file EXCEPT !.shares = shares, !.access = access, !.deny = deny],
         access = UNION {To2(shares[i].access) : i \in OpenId},
         deny = UNION {To2(shares[i].deny) : i \in OpenId},
         \A i, j \in OpenId : i # j =>
           To2(shares[i].access) \cap To2(shares[j].deny) = {}
  PROVE  FileInv'
  <1>1. /\ file'.locks = file.locks /\ file'.shares = shares
        /\ file'.access = access /\ file'.deny = deny /\ file' \in File
    BY DEF FileInv, TypeOK, File
  <1>2. TypeOK' /\ ShareSummary' /\ NoShareConflict'
    BY <1>1 DEF TypeOK, ShareSummary, NoShareConflict
  <1>3. LocksCanonical'
    BY <1>1 DEF FileInv, LocksCanonical
  <1>4. NoConflictingLocks'
    BY <1>1 DEF FileInv, NoConflictingLocks
  <1> QED BY <1>2, <1>3, <1>4 DEF FileInv

\* A call that changes one list of locks, to what nobody else's locks conflict with.
LEMMA LocksOnly ==
  ASSUME FileInv, NFSAssumption, NEW id \in LockId, NEW list \in SUBSET LockInfo,
         Canonical(list), file' = [file EXCEPT !.locks[id] = list],
         \A l \in list, j \in LockId \ {id} : \A m \in file.locks[j] :
           Overlaps(l, m.start, m.end) => IsRead(l.type) /\ IsRead(m.type)
  PROVE  FileInv'
  <1>1. /\ file'.locks = [file.locks EXCEPT ![id] = list]
        /\ file'.shares = file.shares /\ file'.access = file.access
        /\ file'.deny = file.deny /\ file' \in File
        /\ file.locks \in [LockId -> SUBSET LockInfo]
    BY DEF FileInv, TypeOK, File
  <1>2. TypeOK' /\ ShareSummary' /\ NoShareConflict'
    <2>1. TypeOK'
      BY <1>1 DEF TypeOK
    <2>2. ShareSummary'
      BY <1>1 DEF FileInv, ShareSummary
    <2>3. NoShareConflict'
      BY <1>1 DEF FileInv, NoShareConflict
    <2> QED BY <2>1, <2>2, <2>3
  <1>3. LocksCanonical'
    BY <1>1 DEF FileInv, LocksCanonical
  <1>4. NoConflictingLocks'
    <2> SUFFICES ASSUME NEW i \in LockId, NEW j \in LockId, i # j,
                        NEW l \in file'.locks[i], NEW m \in file'.locks[j],
                        Overlaps(l, m.start, m.end)
                 PROVE  IsRead(l.type) /\ IsRead(m.type)
      BY DEF NoConflictingLocks
    <2>1. CASE i # id /\ j # id
      BY <1>1, <2>1 DEF FileInv, NoConflictingLocks
    <2>2. CASE i = id
      BY <1>1, <2>2
    <2>3. CASE j = id
      <3>1. l \in file.locks[i] /\ m \in list
        BY <1>1, <2>3
      <3>2. /\ l \in LockInfo /\ m \in LockInfo
            /\ l.start <= l.end /\ m.start <= m.end
        BY <1>1, <3>1 DEF FileInv, LocksCanonical, Canonical
      <3>3. Overlaps(m, l.start, l.end)
        BY <3>2 DEF Overlaps, LockInfo, Byte, NFSAssumption
      <3> QED BY <2>3, <3>1, <3>3
    <2> QED BY <2>1, <2>2, <2>3
  <1> QED BY <1>2, <1>3, <1>4 DEF FileInv

LEMMA OpenKeeps ==
  ASSUME FileInv, NEW id \in OpenId, NEW access \in Mode, NEW deny \in Mode,
         Open(id, access, deny)
  PROVE  FileInv'
  <1> DEFINE share == [access |-> file.shares[id].access \cup To3(access),
                       deny |-> file.shares[id].deny \cup To3(deny)]
             shares == [file.shares EXCEPT ![id] = share]
  <1>1. /\ file.shares \in [OpenId -> Share] /\ file.access \in Mode /\ file.deny \in Mode
        /\ file \in File
    BY DEF FileInv, TypeOK, File
  <1>2. share \in Share /\ shares \in [OpenId -> Share]
    BY <1>1 DEF Share, To3
  <1>3. file' = [file EXCEPT !.shares = shares, !.access = file.access \cup access,
                             !.deny = file.deny \cup deny]
    BY <1>1 DEF Open, AddShares, File
  <1>4. \A i \in OpenId :
          /\ To2(shares[i].access) = To2(file.shares[i].access)
                                       \cup (IF i = id THEN access ELSE {})
          /\ To2(shares[i].deny) = To2(file.shares[i].deny)
                                     \cup (IF i = id THEN deny ELSE {})
    <2>1. \A modes : \A mode \in Mode : To2(modes \cup To3(mode)) = To2(modes) \cup mode
      BY DEF To2, To3, Mode
    <2> SUFFICES ASSUME NEW i \in OpenId
                 PROVE  /\ To2(shares[i].access) = To2(file.shares[i].access)
                             \cup (IF i = id THEN access ELSE {})
                        /\ To2(shares[i].deny) = To2(file.shares[i].deny)
                             \cup (IF i = id THEN deny ELSE {})
      OBVIOUS
    <2>2. CASE i = id
      <3>1. shares[i] = share
        BY <1>1, <2>2
      <3> QED BY <2>1, <2>2, <3>1
    <2>3. CASE i # id
      <3>1. shares[i] = file.shares[i]
        BY <1>1, <2>3
      <3> QED BY <2>3, <3>1
    <2> QED BY <2>2, <2>3
  <1>5. /\ file.access = UNION {To2(file.shares[i].access) : i \in OpenId}
        /\ file.deny = UNION {To2(file.shares[i].deny) : i \in OpenId}
        /\ access \cap file.deny = {} /\ deny \cap file.access = {}
    BY DEF FileInv, ShareSummary, Open, TestShares
  <1>6. \A i, j \in OpenId : i # j =>
          To2(file.shares[i].access) \cap To2(file.shares[j].deny) = {}
    BY DEF FileInv, NoShareConflict
  <1> HIDE DEF shares
  <1>7. /\ file.access \cup access = UNION {To2(shares[i].access) : i \in OpenId}
        /\ file.deny \cup deny = UNION {To2(shares[i].deny) : i \in OpenId}
    <2>1. \A x : x \in file.access \cup access
                  <=> x \in UNION {To2(shares[i].access) : i \in OpenId}
      BY <1>4, <1>5
    <2>2. \A x : x \in file.deny \cup deny
                  <=> x \in UNION {To2(shares[i].deny) : i \in OpenId}
      BY <1>4, <1>5
    <2> QED BY <2>1, <2>2
  <1>8. \A i, j \in OpenId : i # j =>
          To2(shares[i].access) \cap To2(shares[j].deny) = {}
    <2>1. \A i \in OpenId : /\ To2(file.shares[i].access) \cap deny = {}
                            /\ access \cap To2(file.shares[i].deny) = {}
      BY <1>5
    <2> QED BY <1>4, <1>6, <2>1
  <1>9. file.access \cup access \in Mode /\ file.deny \cup deny \in Mode
    BY <1>1 DEF Mode
  <1> QED BY <1>2, <1>3, <1>7, <1>8, <1>9, SharesOnly

\* Giving up shares: downgrade, and close, whose values are none at all.
LEMMA DownSharesKeeps ==
  ASSUME FileInv, NEW id \in OpenId, NEW access \in Mode, NEW deny \in Mode,
         file' = DownShares(file, id, access, deny),
         file.shares[id] # NoShare =>
           /\ access \subseteq To2(file.shares[id].access)
           /\ deny \subseteq To2(file.shares[id].deny)
  PROVE  FileInv'
  <1>1. CASE file.shares[id] = NoShare
    <2>1. file' = file
      BY <1>1 DEF DownShares
    <2> QED BY <2>1 DEF FileInv, TypeOK, ShareSummary, NoShareConflict, LocksCanonical,
                        NoConflictingLocks
  <1>2. CASE file.shares[id] # NoShare
    <2> DEFINE share == [access |-> To3(access), deny |-> To3(deny)]
               shares == [file.shares EXCEPT ![id] = share]
               a == UNION {To2(shares[i].access) : i \in OpenId}
               d == UNION {To2(shares[i].deny) : i \in OpenId}
    <2>1. file.shares \in [OpenId -> Share] /\ file \in File
      BY DEF FileInv, TypeOK, File
    <2>2. share \in Share /\ shares \in [OpenId -> Share]
      BY <2>1 DEF Share, To3
    <2>3. \A modes : To2(modes) = UNION modes
      BY DEF To2
    <2>4. /\ Summary(shares, "access") = a
          /\ Summary(shares, "deny") = d
      <3>1. \A part : Summary(shares, part) = UNION (UNION {shares[i][part] : i \in OpenId})
        BY DEF Summary, To2
      <3>2. /\ a = UNION {UNION shares[i].access : i \in OpenId}
            /\ d = UNION {UNION shares[i].deny : i \in OpenId}
        BY <2>3
      <3>3. UNION (UNION {shares[i].access : i \in OpenId}) = a
        BY <3>2 DEF a
      <3>4. UNION (UNION {shares[i].deny : i \in OpenId}) = d
        BY <3>2 DEF d
      <3> HIDE DEF shares, a, d
      <3> QED BY <3>1, <3>3, <3>4
    <2>5. file' = [file EXCEPT !.shares = shares, !.access = a, !.deny = d]
      <3>1. file' = [file EXCEPT !.shares = shares, !.access = Summary(shares, "access"),
                                 !.deny = Summary(shares, "deny")]
        BY <1>2, Zenon DEF DownShares
      <3> HIDE DEF shares, a, d
      <3> QED BY <2>4, <3>1, Zenon
    <2>6. \A i \in OpenId : /\ To2(shares[i].access) \subseteq To2(file.shares[i].access)
                            /\ To2(shares[i].deny) \subseteq To2(file.shares[i].deny)
      <3>1. To2(To3(access)) = access /\ To2(To3(deny)) = deny
        BY DEF To2, To3
      <3> SUFFICES ASSUME NEW i \in OpenId
                   PROVE  /\ To2(shares[i].access) \subseteq To2(file.shares[i].access)
                          /\ To2(shares[i].deny) \subseteq To2(file.shares[i].deny)
        OBVIOUS
      <3>2. CASE i = id
        BY <1>2, <2>1, <3>1, <3>2
      <3>3. CASE i # id
        <4>1. shares[i] = file.shares[i]
          BY <2>1, <3>3
        <4> QED BY <4>1
      <3> QED BY <3>2, <3>3
    <2>7. a \in Mode /\ d \in Mode
      BY <2>2, <2>3 DEF Share, Mode
    <2>8. \A i, j \in OpenId : i # j =>
            To2(shares[i].access) \cap To2(shares[j].deny) = {}
      <3>1. \A i, j \in OpenId : i # j =>
              To2(file.shares[i].access) \cap To2(file.shares[j].deny) = {}
        BY DEF FileInv, NoShareConflict
      <3> HIDE DEF shares
      <3> QED BY <2>6, <3>1
    <2>9. /\ a = UNION {To2(shares[i].access) : i \in OpenId}
          /\ d = UNION {To2(shares[i].deny) : i \in OpenId}
      OBVIOUS
    <2> HIDE DEF share, shares, a, d
    <2> QED BY <2>2, <2>5, <2>7, <2>8, <2>9, SharesOnly
  <1> QED BY <1>1, <1>2

LEMMA GivingUpShares ==
  ASSUME FileInv, NEW id \in OpenId, NEW access \in Mode, NEW deny \in Mode,
         \/ Downgrade(id, access, deny)
         \/ CloseShares(id) /\ access = {} /\ deny = {}
  PROVE  /\ file' = DownShares(file, id, access, deny)
         /\ access \subseteq To2(file.shares[id].access)
         /\ deny \subseteq To2(file.shares[id].deny)
  <1>1. CASE CloseShares(id) /\ access = {} /\ deny = {}
    BY <1>1 DEF CloseShares
  <1>2. CASE Downgrade(id, access, deny)
    <2>1. \A mode, modes : To3(mode) \subseteq modes => mode \subseteq To2(modes)
      BY DEF To3, To2
    <2>2. /\ access # {} /\ CanDownShares(file, id, access, deny)
          /\ file' = DownShares(file, id, access, deny)
      BY <1>2 DEF Downgrade
    <2>3. CASE file.shares[id] = NoShare
      BY <2>2, <2>3 DEF CanDownShares
    <2>4. CASE file.shares[id] # NoShare
      BY <2>1, <2>2, <2>4 DEF CanDownShares
    <2> QED BY <2>2, <2>3, <2>4
  <1> QED BY <1>1, <1>2

\* A call that changes one list of locks: every byte it covers was covered the same
\* way, or meets no conflicting lock of another owner.
LEMMA LockListKeeps ==
  ASSUME FileInv, NFSAssumption, NEW id \in LockId, NEW list \in SUBSET LockInfo,
         Canonical(list), file' = [file EXCEPT !.locks[id] = list],
         \A t : \A b \in Byte : Covered(list, t, b) =>
           \/ Covered(file.locks[id], t, b)
           \/ \A j \in LockId \ {id} : \A m \in file.locks[j] :
                Covers(m, b) => IsRead(t) /\ IsRead(m.type)
  PROVE  FileInv'
  <1>1. file.locks \in [LockId -> SUBSET LockInfo]
    BY DEF FileInv, TypeOK, File
  <1>2. \A i \in LockId : Canonical(file.locks[i])
    BY DEF FileInv, LocksCanonical
  <1>3. ASSUME NEW l \in list, NEW j \in LockId \ {id}, NEW m \in file.locks[j],
               Overlaps(l, m.start, m.end)
        PROVE  IsRead(l.type) /\ IsRead(m.type)
    <2>1. /\ l \in LockInfo /\ l.start <= l.end
          /\ m \in LockInfo /\ m.start <= m.end
      BY <1>1, <1>2 DEF Canonical
    <2>2. PICK b \in Byte : Covers(l, b) /\ Covers(m, b)
      BY <1>3, <2>1, OverlapIsAByte
    <2>3. Covered(list, l.type, b)
      BY <2>2 DEF Covered
    <2>4. CASE Covered(file.locks[id], l.type, b)
      <3>1. PICK o \in file.locks[id] : o.type = l.type /\ Covers(o, b)
        BY <2>4 DEF Covered
      <3>2. o \in LockInfo /\ o.start <= o.end
        BY <1>1, <1>2 DEF Canonical
      <3>3. Overlaps(o, m.start, m.end)
        BY <2>1, <2>2, <3>1, <3>2, OverlapIsAByte
      <3> QED BY <3>1, <3>3 DEF FileInv, NoConflictingLocks
    <2>5. CASE \A i \in LockId \ {id} : \A o \in file.locks[i] :
                 Covers(o, b) => IsRead(l.type) /\ IsRead(o.type)
      BY <2>2, <2>5
    <2> QED BY <2>3, <2>4, <2>5
  <1> QED BY <1>3, LocksOnly

\* An owner's list becomes one that has a range for a type, which no other owner's
\* lock conflicts with, or one that has the range no more.
Locked(id, type, offset, end, list) ==
  /\ offset <= end
  /\ file' = [file EXCEPT !.locks[id] = list] /\ Canonical(list)
  /\ \A t : \A b \in Byte :
       Covered(list, t, b) <=> IF offset <= b /\ b <= end THEN t = type
                               ELSE Covered(file.locks[id], t, b)
  /\ \A b \in Byte : offset <= b /\ b <= end =>
       \A j \in LockId \ {id} : \A m \in file.locks[j] :
         Covers(m, b) => IsRead(type) /\ IsRead(m.type)
Unlocked(id, offset, end, list) ==
  /\ file' = [file EXCEPT !.locks[id] = list] /\ Canonical(list)
  /\ \A t : \A b \in Byte :
       Covered(list, t, b) <=> /\ ~(offset <= b /\ b <= end)
                               /\ Covered(file.locks[id], t, b)

\* What a granted lock does to the owner's list, and why it is granted.
LEMMA LockList ==
  ASSUME FileInv, NFSAssumption, NEW id \in LockId, NEW type \in LockType,
         NEW offset \in Byte, NEW length \in Byte, Lock(id, type, offset, length)
  PROVE  \E list \in SUBSET LockInfo, end \in Byte :
           Locked(id, type, offset, end, list)
  <1> DEFINE end == LockEnd(offset, length)
             old == file.locks[id]
             new == [type |-> type, start |-> offset, end |-> end]
             list == Merge(RemoveRange(old, offset, end), new)
  <1>1. /\ end # -1 /\ Conflicts(file, {id}, type, offset, end) = {}
        /\ file' = AddLock(file, id, type, offset, end)
    BY DEF Lock
  <1>2. end \in Byte /\ offset <= end
    BY <1>1, LockEndIsByte
  <1> HIDE DEF end
  <1>3. /\ file.locks \in [LockId -> SUBSET LockInfo] /\ old \in SUBSET LockInfo
        /\ Canonical(old) /\ \A i \in LockId : Canonical(file.locks[i])
    BY DEF FileInv, TypeOK, File, LocksCanonical
  <1>4. file' = [file EXCEPT !.locks[id] = list]
    BY <1>1, Zenon DEF AddLock
  <1>5. /\ list \in SUBSET LockInfo /\ Canonical(list)
        /\ \A t : \A b \in Byte :
             Covered(list, t, b) <=> IF offset <= b /\ b <= end THEN t = type
                                     ELSE Covered(old, t, b)
    <2> HIDE DEF old, new
    <2>1. new = [type |-> type, start |-> offset, end |-> end]
      BY DEF new
    <2> QED BY <1>2, <1>3, <2>1, AddLockList
  <1>6. ASSUME NEW b \in Byte, offset <= b, b <= end, NEW j \in LockId \ {id},
               NEW m \in file.locks[j], Covers(m, b)
        PROVE  IsRead(type) /\ IsRead(m.type)
    <2>1. m \in LockInfo /\ m.start <= m.end
      BY <1>3 DEF Canonical
    <2>2. Overlaps(m, offset, end)
      BY <1>2, <1>6, <2>1 DEF Covers, Overlaps, LockInfo, Byte, NFSAssumption
    <2>3. j \notin Conflicts(file, {id}, type, offset, end)
      BY <1>1
    <2> QED BY <2>2, <2>3 DEF Conflicts
  <1> HIDE DEF list
  <1> QED BY <1>2, <1>4, <1>5, <1>6 DEF Locked

\* What unlocking does to the owner's list; releasing is unlocking the whole file.
LEMMA UnlockList ==
  ASSUME FileInv, NFSAssumption, NEW id \in LockId,
         \/ \E offset, length \in Byte : Unlock(id, offset, length)
         \/ ReleaseLocks(id)
  PROVE  \E list \in SUBSET LockInfo, offset, end \in Byte :
           Unlocked(id, offset, end, list)
  <1>1. CASE ReleaseLocks(id)
    <2>1. file' = [file EXCEPT !.locks[id] = {}]
      BY <1>1, Zenon DEF ReleaseLocks, RemoveLocks
    <2>2. 0 \in Byte /\ MaxByte \in Byte /\ \A b \in Byte : 0 <= b /\ b <= MaxByte
      BY DEF Byte, NFSAssumption
    <2>3. Canonical({}) /\ \A t, b : ~Covered({}, t, b)
      BY DEF Canonical, Covered
    <2> QED BY <2>1, <2>2, <2>3 DEF Unlocked
  <1>2. CASE \E offset, length \in Byte : Unlock(id, offset, length)
    <2>1. PICK offset \in Byte, length \in Byte : Unlock(id, offset, length)
      BY <1>2
    <2> DEFINE end == LockEnd(offset, length)
               list == RemoveRange(file.locks[id], offset, end)
    <2>2. end # -1 /\ file' = RemoveLock(file, id, offset, end)
      BY <2>1 DEF Unlock
    <2>3. end \in Byte /\ offset <= end
      BY <2>2, LockEndIsByte
    <2> HIDE DEF end
    <2>4. file.locks[id] \in SUBSET LockInfo /\ Canonical(file.locks[id])
      BY DEF FileInv, TypeOK, File, LocksCanonical
    <2>5. file' = [file EXCEPT !.locks[id] = list]
      BY <2>2, Zenon DEF RemoveLock
    <2>6. list \in SUBSET LockInfo /\ Canonical(list)
      BY <2>3, <2>4, RemoveRangeKeeps
    <2>7. \A t : \A b \in Byte :
            Covered(list, t, b) <=> /\ ~(offset <= b /\ b <= end)
                                    /\ Covered(file.locks[id], t, b)
      BY <2>3, <2>4, RemoveRangeCovers
    <2> HIDE DEF list
    <2> QED BY <2>3, <2>5, <2>6, <2>7 DEF Unlocked
  <1> QED BY <1>1, <1>2

\* No call breaks the invariant.
LEMMA NextFile ==
  ASSUME FileInv, NFSAssumption, [Next]_file
  PROVE  FileInv'
  <1>1. ASSUME NEW id \in OpenId, CloseShares(id)
        PROVE  FileInv'
    <2>1. {} \in Mode
      BY DEF Mode
    <2> QED BY <1>1, <2>1, GivingUpShares, DownSharesKeeps
  <1>2. ASSUME NEW id \in OpenId, NEW access \in Mode, NEW deny \in Mode,
               Downgrade(id, access, deny)
        PROVE  FileInv'
    BY <1>2, GivingUpShares, DownSharesKeeps
  <1>3. ASSUME NEW id \in OpenId, NEW access \in Mode, NEW deny \in Mode,
               Open(id, access, deny)
        PROVE  FileInv'
    BY <1>3, OpenKeeps
  <1>4. ASSUME NEW id \in LockId, NEW type \in LockType, NEW offset \in Byte,
               NEW length \in Byte, Lock(id, type, offset, length)
        PROVE  FileInv'
    <2>1. PICK list \in SUBSET LockInfo, end \in Byte :
             Locked(id, type, offset, end, list)
      BY <1>4, LockList
    <2>2. \A t : \A b \in Byte : Covered(list, t, b) =>
            \/ Covered(file.locks[id], t, b)
            \/ \A j \in LockId \ {id} : \A m \in file.locks[j] :
                 Covers(m, b) => IsRead(t) /\ IsRead(m.type)
      BY <2>1 DEF Locked
    <2> QED BY <2>1, <2>2, LockListKeeps DEF Locked
  <1>5. ASSUME NEW id \in LockId,
               \/ \E offset, length \in Byte : Unlock(id, offset, length)
               \/ ReleaseLocks(id)
        PROVE  FileInv'
    <2>1. PICK list \in SUBSET LockInfo, offset \in Byte, end \in Byte :
           Unlocked(id, offset, end, list)
      BY <1>5, UnlockList
    <2>2. \A t : \A b \in Byte : Covered(list, t, b) => Covered(file.locks[id], t, b)
      BY <2>1 DEF Unlocked
    <2> QED BY <2>1, <2>2, LockListKeeps DEF Unlocked
  <1>6. CASE UNCHANGED file
    BY <1>6 DEF FileInv, TypeOK, ShareSummary, NoShareConflict, LocksCanonical,
                NoConflictingLocks
  <1> QED BY <1>1, <1>2, <1>3, <1>4, <1>5, <1>6 DEF Next

LEMMA FileInvAlways == Spec => []FileInv
  BY InitFile, NextFile, NFSAssumption, PTL DEF Spec

\* The lock lists and share masks stay within their types.
THEOREM FileTypeCorrect == Spec => []TypeOK
  BY FileInvAlways, PTL DEF FileInv

\* Every open and downgrade leaves the two summaries what the opens add up to.
THEOREM FileShareSummary == Spec => []ShareSummary
  BY FileInvAlways, PTL DEF FileInv

\* No open and no downgrade gives an access that another open denies.
THEOREM FileNoShareConflict == Spec => []NoShareConflict
  BY FileInvAlways, PTL DEF FileInv

\* The splitting and merging of addposixlock and removelock keeps lists canonical.
THEOREM FileLocksCanonical == Spec => []LocksCanonical
  BY FileInvAlways, PTL DEF FileInv

\* Two owners never hold conflicting locks on a byte.
THEOREM FileNoConflictingLocks == Spec => []NoConflictingLocks
  BY FileInvAlways, PTL DEF FileInv
-----------------------------------------------------------------------------
(* The lists and summaries implement the table of LockTable *)

LEMMA HoldingIsCovered ==
  ASSUME NEW list, NEW b
  PROVE  Holding(list, b) = IF \E t : Covered(list, t, b) /\ ~IsRead(t) THEN "write"
                            ELSE IF \E t : Covered(list, t, b) THEN "read" ELSE "none"
  BY DEF Holding, Covered, Covers

held == [i \in LockId |-> [b \in Byte |-> Holding(file.locks[i], b)]]
opened == [i \in OpenId |-> [access |-> To2(file.shares[i].access),
                             deny |-> To2(file.shares[i].deny)]]

\* The owner holds a range in a new way, as in Take of the table.
TakesRow(id, h, first, last) ==
  /\ held' = [held EXCEPT ![id] = [b \in Byte |-> IF b \in first..last THEN h
                                                 ELSE @[b]]]
  /\ UNCHANGED opened

\* What the table sees of a call that changes one owner's list.
LEMMA ListIsRow ==
  ASSUME FileInv, NEW id \in LockId, NEW list, NEW h, NEW first \in Byte, NEW last \in Byte,
         NFSAssumption, file' = [file EXCEPT !.locks[id] = list],
         \A b \in Byte : Holding(list, b) = IF first <= b /\ b <= last THEN h
                                            ELSE Holding(file.locks[id], b)
  PROVE  TakesRow(id, h, first, last)
  <1>1. /\ file.locks \in [LockId -> SUBSET LockInfo]
        /\ file'.locks = [file.locks EXCEPT ![id] = list]
        /\ file'.shares = file.shares
    BY DEF FileInv, TypeOK, File
  <1> DEFINE row == [b \in Byte |-> IF b \in first..last THEN h ELSE held[id][b]]
  <1>2. ASSUME NEW i \in LockId PROVE held'[i] = [held EXCEPT ![id] = row][i]
    <2>1. held'[i] = [b \in Byte |-> Holding(file'.locks[i], b)]
      BY DEF held
    <2>2. CASE i = id
      <3>1. held'[i] = [b \in Byte |-> Holding(list, b)]
        BY <1>1, <2>1, <2>2
      <3>2. ASSUME NEW b \in Byte PROVE Holding(list, b) = row[b]
        <4>1. held[id][b] = Holding(file.locks[id], b)
          BY DEF held
        <4>2. b \in first..last <=> first <= b /\ b <= last
          BY DEF Byte, NFSAssumption
        <4> QED BY <4>1, <4>2
      <3>3. [held EXCEPT ![id] = row][i] = row
        BY <2>2 DEF held
      <3> QED BY <3>1, <3>2, <3>3
    <2>3. CASE i # id
      <3>1. held'[i] = [b \in Byte |-> Holding(file.locks[i], b)]
        BY <1>1, <2>1, <2>3
      <3> QED BY <2>3, <3>1 DEF held
    <2> QED BY <2>2, <2>3
  <1>3. held' = [held EXCEPT ![id] = row]
    <2>1. held' = [i \in LockId |-> held'[i]]
      BY DEF held
    <2>2. [held EXCEPT ![id] = row] = [i \in LockId |-> [held EXCEPT ![id] = row][i]]
      BY DEF held
    <2> HIDE DEF row
    <2> QED BY <1>2, <2>1, <2>2
  <1>4. UNCHANGED opened
    BY <1>1 DEF opened
  <1> QED BY <1>3, <1>4 DEF TakesRow

LEMMA InitIsTableInit == Init => Table!Init
  <1>1. \A b : Holding({}, b) = "none"
    BY DEF Holding
  <1>2. To2({}) = {}
    BY DEF To2
  <1> SUFFICES ASSUME Init PROVE Table!Init
    OBVIOUS
  <1>3. /\ \A i \in LockId : file.locks[i] = {}
        /\ \A i \in OpenId : file.shares[i].access = {} /\ file.shares[i].deny = {}
    BY DEF Init, NewFile, NoShare
  <1> QED BY <1>1, <1>2, <1>3 DEF Table!Init, Table!Closed

\* Locking and unlocking take rows, opening and closing columns of the table.
LEMMA StepIsTableStep ==
  ASSUME FileInv, NFSAssumption, [Next]_file
  PROVE  [Table!Next]_(Table!vars)
  <1> SUFFICES ASSUME Next PROVE Table!Next
    BY DEF Table!vars
  <1>1. ASSUME NEW id \in LockId, NEW h \in {"none", "read", "write"},
               NEW first \in Byte, NEW last \in Byte,
               TakesRow(id, h, first, last),
               \A b \in first..last, p \in LockId \ {id} :
                 ~Table!Conflict(h, held[p][b])
        PROVE  Table!Next
    <2>1. Table!Take(id, h, first..last) /\ h \in Table!Hold
      BY <1>1 DEF Table!Take, Table!Hold, TakesRow, held
    <2> QED BY <1>1, <2>1 DEF Table!Next, TakesRow, opened
  <1>2. ASSUME NEW id \in LockId, NEW type \in LockType, NEW offset \in Byte,
               NEW length \in Byte, Lock(id, type, offset, length)
        PROVE  Table!Next
    <2>1. PICK list \in SUBSET LockInfo, end \in Byte :
             Locked(id, type, offset, end, list)
      BY <1>2, LockList
    <2> DEFINE h == IF IsRead(type) THEN "read" ELSE "write"
    <2>2. \A b \in Byte : Holding(list, b) = IF offset <= b /\ b <= end THEN h
                                             ELSE Holding(file.locks[id], b)
      <3> SUFFICES ASSUME NEW b \in Byte
                   PROVE  Holding(list, b) = IF offset <= b /\ b <= end THEN h
                                             ELSE Holding(file.locks[id], b)
        OBVIOUS
      <3>1. \A t : Covered(list, t, b) <=> IF offset <= b /\ b <= end THEN t = type
                                          ELSE Covered(file.locks[id], t, b)
        BY <2>1 DEF Locked
      <3> HIDE DEF h
      <3>2. CASE offset <= b /\ b <= end
        <4>1. Covered(list, type, b) /\ \A t : Covered(list, t, b) => t = type
          BY <3>1, <3>2
        <4> QED BY <3>2, <4>1, HoldingIsCovered DEF h
      <3>3. CASE ~(offset <= b /\ b <= end)
        <4>1. \A t : Covered(list, t, b) <=> Covered(file.locks[id], t, b)
          BY <3>1, <3>3
        <4> QED BY <3>3, <4>1, HoldingIsCovered
      <3> QED BY <3>2, <3>3
    <2>3. ASSUME NEW b \in offset..end, NEW p \in LockId \ {id}
          PROVE  ~Table!Conflict(h, held[p][b])
      <3>1. b \in Byte /\ offset <= b /\ b <= end
        BY DEF Byte, NFSAssumption
      <3>2. held[p][b] = Holding(file.locks[p], b)
        BY <3>1 DEF held
      <3>3. \A m \in file.locks[p] : Covers(m, b) => IsRead(type) /\ IsRead(m.type)
        BY <2>1, <3>1 DEF Locked
      <3> QED BY <3>2, <3>3 DEF Holding, Covers, Table!Conflict
    <2> HIDE DEF h
    <2>4. h \in {"none", "read", "write"}
      BY DEF h
    <2>5. TakesRow(id, h, offset, end)
      BY <2>1, <2>2, ListIsRow DEF Locked
    <2> QED BY <1>1, <2>3, <2>4, <2>5
  <1>3. ASSUME NEW id \in LockId,
               \/ \E offset, length \in Byte : Unlock(id, offset, length)
               \/ ReleaseLocks(id)
        PROVE  Table!Next
    <2>1. PICK list \in SUBSET LockInfo, offset \in Byte, end \in Byte :
             Unlocked(id, offset, end, list)
      BY <1>3, UnlockList
    <2>2. \A b \in Byte : Holding(list, b) = IF offset <= b /\ b <= end THEN "none"
                                             ELSE Holding(file.locks[id], b)
      BY <2>1, HoldingIsCovered DEF Unlocked
    <2>3. \A b \in offset..end, p \in LockId \ {id} :
            ~Table!Conflict("none", held[p][b])
      BY DEF Table!Conflict
    <2>4. TakesRow(id, "none", offset, end)
      BY <2>1, <2>2, ListIsRow DEF Unlocked
    <2> QED BY <1>1, <2>3, <2>4
  <1>4. ASSUME NEW id \in OpenId, NEW access \in Mode, NEW deny \in Mode,
               Open(id, access, deny)
        PROVE  Table!Next
    <2> DEFINE new == [access |-> file.shares[id].access \cup To3(access),
                       deny |-> file.shares[id].deny \cup To3(deny)]
    <2>1. /\ file'.locks = file.locks /\ file'.shares = [file.shares EXCEPT ![id] = new]
          /\ file.shares \in [OpenId -> Share]
      BY <1>4 DEF Open, AddShares, FileInv, TypeOK, File
    <2>2. /\ To2(new.access) = To2(file.shares[id].access) \cup access
          /\ To2(new.deny) = To2(file.shares[id].deny) \cup deny
      BY DEF To2, To3, Mode
    <2> HIDE DEF new
    <2>3. opened' = [opened EXCEPT ![id] = [access |-> @.access \cup access,
                                            deny |-> @.deny \cup deny]]
      BY <2>1, <2>2 DEF opened
    <2>4. UNCHANGED held
      BY <2>1 DEF held
    <2>5. \A q \in OpenId : /\ access \cap opened[q].deny = {}
                            /\ deny \cap opened[q].access = {}
      BY <1>4 DEF Open, TestShares, FileInv, ShareSummary, opened
    <2>6. Table!Open(id, access, deny)
      BY <2>3, <2>5 DEF Table!Open, opened
    <2> QED BY <2>4, <2>6 DEF Table!Next, held, Mode
  <1>5. ASSUME NEW id \in OpenId, NEW access \in Mode, NEW deny \in Mode,
               \/ Downgrade(id, access, deny)
               \/ CloseShares(id) /\ access = {} /\ deny = {}
        PROVE  Table!Next
    <2>1. /\ file' = DownShares(file, id, access, deny)
          /\ access \subseteq To2(file.shares[id].access)
          /\ deny \subseteq To2(file.shares[id].deny)
      BY <1>5, GivingUpShares
    <2> DEFINE new == [access |-> To3(access), deny |-> To3(deny)]
    <2>2. To2(new.access) = access /\ To2(new.deny) = deny
      BY DEF To2, To3
    <2>3. file.shares \in [OpenId -> Share]
      BY DEF FileInv, TypeOK, File
    <2>4. /\ file'.locks = file.locks
          /\ \A i \in OpenId : /\ To2(file'.shares[i].access)
                                    = IF i = id THEN access ELSE To2(file.shares[i].access)
                               /\ To2(file'.shares[i].deny)
                                    = IF i = id THEN deny ELSE To2(file.shares[i].deny)
      <3>1. CASE file.shares[id] = NoShare
        <4>1. file' = file /\ access = {} /\ deny = {}
          BY <2>1, <3>1 DEF DownShares, NoShare, To2
        <4>2. To2({}) = {}
          BY DEF To2
        <4>3. file.shares[id].access = {} /\ file.shares[id].deny = {}
          BY <3>1 DEF NoShare
        <4> QED BY <4>1, <4>2, <4>3
      <3>2. CASE file.shares[id] # NoShare
        <4>1. /\ file'.locks = file.locks
              /\ file'.shares = [file.shares EXCEPT ![id] = new]
          BY <2>1, <3>2 DEF DownShares, FileInv, TypeOK, File
        <4> HIDE DEF new
        <4> QED BY <2>2, <2>3, <4>1
      <3> QED BY <3>1, <3>2
    <2>5. opened' = [opened EXCEPT ![id] = [access |-> access, deny |-> deny]]
      BY <2>4 DEF opened
    <2>6. UNCHANGED held
      BY <2>4 DEF held
    <2>7. access \subseteq opened[id].access /\ deny \subseteq opened[id].deny
      BY <2>1 DEF opened
    <2>8. Table!Reduce(id, access, deny)
      BY <2>5, <2>7 DEF Table!Reduce, opened
    <2> QED BY <2>6, <2>8 DEF Table!Next, held, Mode
  <1>6. {} \in Mode
    BY DEF Mode
  <1> QED BY <1>2, <1>3, <1>4, <1>5, <1>6 DEF Next

\* Every sequence of calls changes exactly the bytes and modes it names, as in the table.
THEOREM FileImplementsLockTable == Spec => ImplementsLockTable
  BY FileInvAlways, InitIsTableInit, StepIsTableStep, NFSAssumption, PTL
     DEF Spec, ImplementsLockTable, Table!Spec
=============================================================================
