------------------------ MODULE HistoryFiles_proofs -------------------------
(***************************************************************************)
(* What the proofs about both loaders need: ORDER BY puts the rows in      *)
(* order, the rows of the files are in the order of the files, for every   *)
(* period and delay of the rotation, and files only gain new rows.         *)
(***************************************************************************)
EXTENDS HistoryFiles, FiniteSetTheorems, TLAPS

(***************************************************************************)
(* ORDER BY.  The rank of a row, the number of rows before it, is another  *)
(* one for every row and less than their number, so there is one row of    *)
(* each rank.                                                              *)
(***************************************************************************)
Rank(rows, ts) == Cardinality({us \in rows : us < ts})

LEMMA RankType ==
  ASSUME NEW rows \in SUBSET Nat, IsFiniteSet(rows), NEW ts \in rows
  PROVE  /\ Rank(rows, ts) \in Nat /\ Rank(rows, ts) < Cardinality(rows)
         /\ IsFiniteSet({us \in rows : us < ts})
<1> DEFINE before == {us \in rows : us < ts}
<1>1. IsFiniteSet(rows \ {ts}) /\ Cardinality(rows \ {ts}) = Cardinality(rows) - 1
  BY FS_RemoveElement
<1>2. before \in SUBSET (rows \ {ts})  OBVIOUS
<1>3. IsFiniteSet(before) /\ Cardinality(before) <= Cardinality(rows) - 1
  BY <1>1, <1>2, FS_Subset
<1>4. Cardinality(before) \in Nat /\ Cardinality(rows) \in Nat
  BY <1>3, FS_CardinalityType
<1>5. QED  BY <1>3, <1>4 DEF Rank

LEMMA RankGrows ==
  ASSUME NEW rows \in SUBSET Nat, IsFiniteSet(rows), NEW ts \in rows, NEW us \in rows, ts < us
  PROVE  Rank(rows, ts) < Rank(rows, us)
<1> DEFINE before(t) == {u \in rows : u < t}
<1>1. IsFiniteSet(before(us)) /\ Rank(rows, us) \in Nat /\ Rank(rows, ts) \in Nat  BY RankType
<1>2. Cardinality(before(us) \ {ts}) = Cardinality(before(us)) - 1 /\ IsFiniteSet(before(us) \ {ts})
  <2>1. ts \in before(us)  OBVIOUS
  <2>2. QED  BY <1>1, <2>1, FS_RemoveElement
<1>3. before(ts) \in SUBSET (before(us) \ {ts})
  <2>1. \A u \in rows : u < ts => u < us /\ u # ts  OBVIOUS
  <2>2. QED  BY <2>1
<1>4. Cardinality(before(ts)) <= Cardinality(before(us) \ {ts})  BY <1>2, <1>3, FS_Subset
<1>5. QED  BY <1>1, <1>2, <1>4 DEF Rank

LEMMA RankReached ==
  ASSUME NEW rows \in SUBSET Nat, IsFiniteSet(rows), NEW i \in 1 .. Cardinality(rows)
  PROVE  \E ts \in rows : Rank(rows, ts) = i - 1
<1> DEFINE n == Cardinality(rows)
           place == [ts \in rows |-> Rank(rows, ts) + 1]
<1>1. n \in Nat  BY FS_CardinalityType
<1>2. place \in [rows -> 1 .. n]
  <2>1. ASSUME NEW ts \in rows PROVE Rank(rows, ts) + 1 \in 1 .. n
    <3>1. Rank(rows, ts) \in Nat /\ Rank(rows, ts) < n  BY RankType
    <3>2. QED  BY <1>1, <3>1
  <2>2. QED  BY <2>1
<1>3. \A ts, us \in rows : place[ts] = place[us] => ts = us
  <2> SUFFICES ASSUME NEW ts \in rows, NEW us \in rows, ts # us PROVE place[ts] # place[us]
    OBVIOUS
  <2>1. Rank(rows, ts) \in Nat /\ Rank(rows, us) \in Nat  BY RankType
  <2>2. CASE ts < us  BY <2>1, <2>2, RankGrows
  <2>3. CASE us < ts  BY <2>1, <2>3, RankGrows
  <2>4. QED  BY <2>2, <2>3
<1>4. place \in Injection(rows, 1 .. n)  BY <1>2, <1>3 DEF Injection, IsInjective
<1>5. IsFiniteSet(1 .. n) /\ Cardinality(1 .. n) = n  BY <1>1, FS_Interval
<1>6. place \in Surjection(rows, 1 .. n)  BY <1>4, <1>5, FS_Injection
<1>7. \E ts \in rows : place[ts] = i  BY <1>6 DEF Surjection
<1>8. PICK ts \in rows : place[ts] = i  BY <1>7
<1>9. Rank(rows, ts) \in Nat  BY RankType
<1>10. QED  BY <1>8, <1>9

LEMMA AscendingIs ==
  ASSUME NEW rows \in SUBSET Nat, IsFiniteSet(rows)
  PROVE  /\ Cardinality(rows) \in Nat
         /\ Ascending(rows) \in [1 .. Cardinality(rows) -> rows]
         /\ \A ts \in rows : \E i \in 1 .. Cardinality(rows) : Ascending(rows)[i] = ts
         /\ \A i, j \in 1 .. Cardinality(rows) : i < j => Ascending(rows)[i] < Ascending(rows)[j]
<1> DEFINE n == Cardinality(rows)
<1>1. n \in Nat  BY FS_CardinalityType
<1>2. ASSUME NEW i \in 1 .. n
      PROVE  Ascending(rows)[i] \in rows /\ Rank(rows, Ascending(rows)[i]) = i - 1
  <2>1. Ascending(rows)[i] = CHOOSE ts \in rows : Rank(rows, ts) = i - 1
    BY DEF Ascending, Rank
  <2>2. \E ts \in rows : Rank(rows, ts) = i - 1  BY RankReached
  <2>3. QED  BY <2>1, <2>2
<1>3. Ascending(rows) \in [1 .. n -> rows]  BY <1>2 DEF Ascending
<1>4. \A ts, us \in rows : Rank(rows, ts) <= Rank(rows, us) => ts <= us
  <2> SUFFICES ASSUME NEW ts \in rows, NEW us \in rows, us < ts
               PROVE  ~(Rank(rows, ts) <= Rank(rows, us))
    OBVIOUS
  <2>1. Rank(rows, us) \in Nat /\ Rank(rows, ts) \in Nat  BY RankType
  <2>2. Rank(rows, us) < Rank(rows, ts)  BY RankGrows
  <2>3. QED  BY <2>1, <2>2
<1>5. ASSUME NEW ts \in rows PROVE \E i \in 1 .. n : Ascending(rows)[i] = ts
  <2>0. Rank(rows, ts) \in Nat /\ Rank(rows, ts) < n  BY RankType
  <2>1. Rank(rows, ts) + 1 \in 1 .. n  BY <1>1, <2>0
  <2>2. PICK i \in 1 .. n : i = Rank(rows, ts) + 1  BY <2>1
  <2>3. PICK us \in rows : us = Ascending(rows)[i] /\ Rank(rows, us) = i - 1  BY <1>2
  <2>4. us <= ts /\ ts <= us
    <3>1. Rank(rows, us) <= Rank(rows, ts) /\ Rank(rows, ts) <= Rank(rows, us)
      BY <2>0, <2>2, <2>3
    <3>2. QED  BY <1>4, <3>1
  <2>5. us = ts  BY <2>4
  <2>6. QED  BY <2>3, <2>5
<1>6. ASSUME NEW i \in 1 .. n, NEW j \in 1 .. n, i < j
      PROVE  Ascending(rows)[i] < Ascending(rows)[j]
  <2>1. PICK ts \in rows : ts = Ascending(rows)[i] /\ Rank(rows, ts) = i - 1  BY <1>2
  <2>2. PICK us \in rows : us = Ascending(rows)[j] /\ Rank(rows, us) = j - 1  BY <1>2
  <2>3. ts # us  BY <1>6, <2>1, <2>2
  <2>4. ts <= us  BY <1>4, <1>6, <2>1, <2>2
  <2>5. QED  BY <2>1, <2>2, <2>3, <2>4
<1>7. QED  BY <1>1, <1>3, <1>5, <1>6

LEMMA DescendingIs ==
  ASSUME NEW rows \in SUBSET Nat, IsFiniteSet(rows)
  PROVE  /\ Cardinality(rows) \in Nat
         /\ Descending(rows) \in [1 .. Cardinality(rows) -> rows]
         /\ \A ts \in rows : \E i \in 1 .. Cardinality(rows) : Descending(rows)[i] = ts
         /\ \A i, j \in 1 .. Cardinality(rows) : i < j => Descending(rows)[i] > Descending(rows)[j]
<1> DEFINE n == Cardinality(rows)
           s == Ascending(rows)
<1>1. /\ n \in Nat /\ s \in [1 .. n -> rows]
      /\ \A ts \in rows : \E i \in 1 .. n : s[i] = ts
      /\ \A i, j \in 1 .. n : i < j => s[i] < s[j]
  BY AscendingIs
<1> HIDE DEF s
<1>2. Len(s) = n  BY <1>1
<1>3. Descending(rows) = [i \in 1 .. n |-> s[n - i + 1]]
  BY <1>2 DEF Descending, Reverse, s
<1>4. \A i \in 1 .. n : n - i + 1 \in 1 .. n /\ n - (n - i + 1) + 1 = i  BY <1>1
<1>5. Descending(rows) \in [1 .. n -> rows]  BY <1>1, <1>3, <1>4
<1>6. ASSUME NEW ts \in rows PROVE \E i \in 1 .. n : Descending(rows)[i] = ts
  <2>1. PICK i \in 1 .. n : s[i] = ts  BY <1>1
  <2>2. PICK j \in 1 .. n : j = n - i + 1  BY <1>4
  <2>3. Descending(rows)[j] = s[i]  BY <1>1, <1>3, <2>2
  <2>4. QED  BY <2>1, <2>3
<1>7. ASSUME NEW i \in 1 .. n, NEW j \in 1 .. n, i < j
      PROVE  Descending(rows)[i] > Descending(rows)[j]
  <2>1. n - j + 1 < n - i + 1  BY <1>1, <1>7
  <2>2. s[n - j + 1] < s[n - i + 1]  BY <1>1, <1>4, <2>1
  <2>3. s[n - j + 1] \in Nat /\ s[n - i + 1] \in Nat  BY <1>1, <1>4
  <2>4. QED  BY <1>3, <2>2, <2>3
<1>8. QED  BY <1>1, <1>5, <1>6, <1>7

-----------------------------------------------------------------------------
(***************************************************************************)
(* The timepoints at which a period begins, those before the epoch too: a  *)
(* load backwards may ask for one.                                         *)
(***************************************************************************)
Boundary(t) == \E k \in Int : t = k * Span

\* Boundaries are at least a period apart.
LEMMA BoundaryGap ==
  ASSUME NEW a, NEW b, Boundary(a), Boundary(b), a < b
  PROVE  a + Span <= b
<1>1. PICK i \in Int : a = i * Span  BY DEF Boundary
<1>2. PICK j \in Int : b = j * Span  BY DEF Boundary
<1>3. Span \in Nat /\ Span > 0       BY FilesAssumption, SMT
<1>4. i * Span < j * Span            BY <1>1, <1>2
<1>5. i + 1 <= j
  <2>1. CASE j <= i
    <3>1. j * Span <= i * Span  BY <2>1, <1>3, SMT
    <3>2. i * Span \in Int /\ j * Span \in Int  BY <1>3, SMT
    <3>3. QED  BY <3>1, <3>2, <1>4, SMT
  <2>2. QED  BY <2>1, SMT
<1>6. (i + 1) * Span <= j * Span        BY <1>5, <1>3, SMT
<1>7. (i + 1) * Span = i * Span + Span  BY <1>3, SMT
<1>8. QED  BY <1>1, <1>2, <1>6, <1>7, SMT

\* The periods next to one begin at boundaries.
LEMMA BoundaryNext ==
  ASSUME NEW a, Boundary(a)
  PROVE  a \in Int /\ Boundary(a + Span) /\ Boundary(a - Span)
<1>1. PICK i \in Int : a = i * Span  BY DEF Boundary
<1>2. Span \in Int  BY FilesAssumption
<1>3. a \in Int /\ a + Span = (i + 1) * Span /\ a - Span = (i - 1) * Span  BY <1>1, <1>2, SMT
<1>4. i + 1 \in Int /\ i - 1 \in Int  OBVIOUS
<1>5. QED  BY <1>3, <1>4 DEF Boundary

\* resolve_timepoint is the last boundary up to a timepoint.
LEMMA Resolve ==
  ASSUME NEW t \in Nat
  PROVE  /\ resolve_timepoint(t) \in Nat /\ Boundary(resolve_timepoint(t))
         /\ resolve_timepoint(t) <= t /\ t < resolve_timepoint(t) + Span
         /\ \A b : Boundary(b) /\ b <= t => b <= resolve_timepoint(t)
<1> DEFINE q == t \div Span
           r == (t % Span)
<1>1. q \in Nat /\ r \in 0 .. Span - 1 /\ t = q * Span + r  BY FilesAssumption, SMT
<1>2. Span \in Nat /\ Span > 0  BY FilesAssumption, SMT
<1>3. q * Span \in Nat  BY <1>1, <1>2, SMT
<1>4. resolve_timepoint(t) = q * Span  BY <1>1, <1>2, <1>3, SMT DEF resolve_timepoint
<1>5. Boundary(resolve_timepoint(t))  BY <1>1, <1>4 DEF Boundary
<1>6. /\ resolve_timepoint(t) \in Nat
      /\ resolve_timepoint(t) <= t /\ t < resolve_timepoint(t) + Span
  BY <1>1, <1>2, <1>3, <1>4, SMT
<1>7. ASSUME NEW b, Boundary(b), b <= t PROVE b <= resolve_timepoint(t)
  <2>1. b \in Int  BY <1>7, BoundaryNext
  <2>2. CASE resolve_timepoint(t) < b
    <3>1. resolve_timepoint(t) + Span <= b  BY <1>5, <1>7, <2>2, BoundaryGap
    <3>2. QED  BY <1>2, <1>6, <1>7, <2>1, <3>1, SMT
  <2>3. QED  BY <1>6, <2>1, <2>2, SMT
<1>8. QED  BY <1>5, <1>6, <1>7

\* A timepoint is in the period of the boundary that it is not before and less
\* than a period after.
LEMMA ResolveIs ==
  ASSUME NEW t \in Nat, NEW b, Boundary(b), b <= t, t < b + Span
  PROVE  resolve_timepoint(t) = b
<1>1. b \in Int /\ b <= resolve_timepoint(t)  BY Resolve, BoundaryNext
<1>2. resolve_timepoint(t) \in Nat /\ resolve_timepoint(t) <= t /\ Boundary(resolve_timepoint(t))
  BY Resolve
<1>3. CASE b < resolve_timepoint(t)
  <2>1. b + Span <= resolve_timepoint(t)  BY <1>2, <1>3, BoundaryGap
  <2>2. QED  BY <1>1, <1>2, <2>1, FilesAssumption, SMT
<1>4. QED  BY <1>1, <1>2, <1>3, SMT

-----------------------------------------------------------------------------
(***************************************************************************)
(* The files.  Their rows are in the order of the files, although a row    *)
(* saved after the end of a period, but before the rotation, or one whose  *)
(* timepoint was taken before it, is not in the file of its own period.    *)
(***************************************************************************)
CurrentIsRecent == current <= clock /\ clock <= current + Span + MaxLag

RowsAreInTime ==
  \A f \in DOMAIN disk :
    /\ f \in Nat /\ Boundary(f) /\ f <= current
    /\ \A ts \in disk[f] : ts <= clock /\ f <= ts + MaxDelay /\ ts <= f + Span + MaxLag

FilesAreInOrder ==
  \A f, g \in DOMAIN disk : f < g => \A ts \in disk[f], us \in disk[g] : ts < us

\* The data being handled are newer than all the rows saved so far.
NewestInHand ==
  /\ timepoint \in Nat
  /\ timepoint # 0 =>
       /\ timepoint <= clock /\ clock <= timepoint + MaxDelay
       /\ \A f \in DOMAIN disk : \A ts \in disk[f] : ts < timepoint

FilesInv ==
  /\ clock \in Nat
  /\ disk \in [DOMAIN disk -> SUBSET Nat]
  /\ current \in DOMAIN disk
  /\ CurrentIsRecent /\ RowsAreInTime /\ FilesAreInOrder /\ NewestInHand

\* What the steps of the loaders do to the files.
FilesNext ==
  \/ Signals \/ save \/ Rotate \/ ClockTick
  \/ \E now \in clock + 1 .. Horizon :
       clock' = now /\ timepoint' = 0 /\ \E t \in clock .. now : CurrentFile(t)
  \/ UNCHANGED fileVars

LEMMA ConstantTypes ==
  Span \in Nat /\ Span > 0 /\ MaxLag \in Nat /\ MaxDelay \in Nat /\ Horizon \in Nat
  BY FilesAssumption, SMT

\* At first there is one file, without rows.
LEMMA FilesInvInit == FilesInit => FilesInv
<1> SUFFICES ASSUME FilesInit PROVE FilesInv  OBVIOUS
<1>1. clock \in Nat  BY ConstantTypes, SMT DEF FilesInit
<1>2. /\ current = resolve_timepoint(clock) /\ current \in Nat /\ Boundary(current)
      /\ current <= clock /\ clock < current + Span
  BY <1>1, Resolve DEF FilesInit
<1>3. DOMAIN disk = {current} /\ disk = [f \in {current} |-> {}] /\ timepoint = 0
  BY DEF FilesInit
<1>4. RowsAreInTime /\ FilesAreInOrder
  BY <1>2, <1>3, SMT DEF RowsAreInTime, FilesAreInOrder
<1>5. CurrentIsRecent  BY <1>1, <1>2, ConstantTypes DEF CurrentIsRecent
<1>6. QED  BY <1>1, <1>2, <1>3, <1>4, <1>5 DEF FilesInv, NewestInHand

\* The current file is not that of a period after the clock's.
LEMMA CurrentPeriod ==
  ASSUME FilesInv
  PROVE  /\ clock \in Nat /\ current \in Nat /\ Boundary(current)
         /\ current <= clock /\ clock <= current + Span + MaxLag
         /\ resolve_timepoint(clock) \in Nat /\ Boundary(resolve_timepoint(clock))
         /\ current <= resolve_timepoint(clock)
<1>1. /\ current \in Nat /\ Boundary(current) /\ clock \in Nat
      /\ current <= clock /\ clock <= current + Span + MaxLag
  BY DEF FilesInv, RowsAreInTime, CurrentIsRecent
<1>2. QED  BY <1>1, Resolve

\* A new file is that of a later period than all the others and has no rows; a
\* file opened again is the current one.
LEMMA CurrentFileStep ==
  ASSUME FilesInv, clock' \in Nat, clock <= clock', NEW t \in Nat, current <= t, t <= clock',
         CurrentFile(t), timepoint' = 0 \/ (timepoint' = timepoint /\ clock' = clock)
  PROVE  FilesInv'
<1>0. /\ clock \in Nat /\ current \in Nat /\ Boundary(current)
  BY CurrentPeriod
<1>1. /\ current' = resolve_timepoint(t) /\ current' \in Nat /\ Boundary(current')
      /\ current <= current' /\ current' <= t /\ clock' <= current' + Span + MaxLag
  BY <1>0, Resolve DEF CurrentFile
<1>2. /\ DOMAIN disk' = DOMAIN disk \cup {current'}
      /\ \A f \in DOMAIN disk : disk'[f] = disk[f]
      /\ \A f \in DOMAIN disk' : f \notin DOMAIN disk => f = current' /\ disk'[f] = {}
      /\ disk' \in [DOMAIN disk' -> SUBSET Nat]
  BY DEF CurrentFile, FilesInv
<1>3. CurrentIsRecent'
  <2>1. current' <= clock'  BY <1>1
  <2>2. QED  BY <1>1, <2>1 DEF CurrentIsRecent
<1>4. RowsAreInTime'
  <2> SUFFICES ASSUME NEW f \in DOMAIN disk'
               PROVE  /\ f \in Nat /\ Boundary(f) /\ f <= current'
                      /\ \A ts \in disk'[f] : ts <= clock' /\ f <= ts + MaxDelay /\ ts <= f + Span + MaxLag
    BY DEF RowsAreInTime, Boundary
  <2>1. CASE f \notin DOMAIN disk  BY <1>1, <1>2, <2>1
  <2>2. CASE f \in DOMAIN disk
    <3>1. /\ f \in Nat /\ Boundary(f) /\ f <= current
          /\ \A ts \in disk[f] : ts \in Nat /\ ts <= clock /\ f <= ts + MaxDelay /\ ts <= f + Span + MaxLag
      BY <2>2 DEF FilesInv, RowsAreInTime
    <3>2. f <= current'  BY <1>0, <1>1, <3>1, SMT
    <3>3. \A ts \in disk[f] : ts <= clock'  BY <1>0, <3>1, SMT
    <3>4. QED  BY <1>2, <2>2, <3>1, <3>2, <3>3
  <2>3. QED  BY <2>1, <2>2
<1>5. FilesAreInOrder'
  <2> SUFFICES ASSUME NEW f \in DOMAIN disk', NEW g \in DOMAIN disk', f < g,
                      NEW ts \in disk'[f], NEW us \in disk'[g]
               PROVE  ts < us
    BY DEF FilesAreInOrder
  <2>1. f \in DOMAIN disk /\ g \in DOMAIN disk  BY <1>2
  <2>2. QED  BY <1>2, <2>1 DEF FilesInv, FilesAreInOrder
<1>6. NewestInHand'
  <2>1. \A f \in DOMAIN disk' : \A ts \in disk'[f] : f \in DOMAIN disk /\ ts \in disk[f]  BY <1>2
  <2>2. CASE timepoint' = 0  BY <2>2 DEF NewestInHand
  <2>3. CASE timepoint' = timepoint /\ clock' = clock
    BY <2>1, <2>3 DEF NewestInHand, FilesInv
  <2>4. QED  BY <2>2, <2>3
<1>7. QED  BY <1>2, <1>3, <1>4, <1>5, <1>6 DEF FilesInv

\* Each step of the files keeps their order.
LEMMA FilesInvStep == FilesInv /\ FilesNext => FilesInv'
<1> SUFFICES ASSUME FilesInv, FilesNext PROVE FilesInv'  OBVIOUS
<1>0. /\ clock \in Nat /\ current \in Nat /\ Boundary(current)
      /\ current <= clock /\ clock <= current + Span + MaxLag
      /\ disk \in [DOMAIN disk -> SUBSET Nat] /\ current \in DOMAIN disk
      /\ timepoint \in Nat
  BY CurrentPeriod DEF FilesInv, NewestInHand
<1>1. CASE Signals
  <2>1. /\ timepoint' = clock /\ clock' = clock /\ current' = current /\ disk' = disk
        /\ \A f \in DOMAIN disk : clock \notin disk[f]
    BY <1>1 DEF Signals, Saved
  <2>2. NewestInHand'
    <3>1. ASSUME NEW f \in DOMAIN disk, NEW ts \in disk[f] PROVE ts < clock
      <4>1. ts \in Nat /\ ts <= clock /\ ts # clock  BY <2>1, <3>1 DEF FilesInv, RowsAreInTime
      <4>2. QED  BY <1>0, <4>1
    <3>2. clock <= clock /\ clock <= clock + MaxDelay  BY <1>0, ConstantTypes
    <3>3. QED  BY <1>0, <2>1, <3>1, <3>2 DEF NewestInHand
  <2>3. CurrentIsRecent' /\ RowsAreInTime' /\ FilesAreInOrder'
    BY <2>1 DEF FilesInv, CurrentIsRecent, RowsAreInTime, FilesAreInOrder, Boundary
  <2>4. QED  BY <1>0, <2>1, <2>2, <2>3 DEF FilesInv
<1>2. CASE save
  <2>1. /\ disk' = [disk EXCEPT ![current] = @ \cup {timepoint}] /\ timepoint # 0
        /\ timepoint' = 0 /\ clock' = clock /\ current' = current
        /\ timepoint <= clock /\ clock <= timepoint + MaxDelay
        /\ \A f \in DOMAIN disk : \A ts \in disk[f] : ts < timepoint
    BY <1>2 DEF save, FilesInv, NewestInHand
  <2>2. \A f \in DOMAIN disk : disk'[f] = IF f = current THEN disk[f] \cup {timepoint} ELSE disk[f]
    BY <1>0, <2>1
  <2>3. /\ DOMAIN disk' = DOMAIN disk /\ disk' \in [DOMAIN disk' -> SUBSET Nat]
        /\ \A f \in DOMAIN disk : \A ts \in disk'[f] : ts \in disk[f] \/ (f = current /\ ts = timepoint)
    <3>1. disk[current] \cup {timepoint} \in SUBSET Nat  BY <1>0
    <3>2. disk' \in [DOMAIN disk -> SUBSET Nat]  BY <1>0, <2>1, <3>1
    <3>3. DOMAIN disk' = DOMAIN disk  BY <3>2
    <3>4. ASSUME NEW f \in DOMAIN disk, NEW ts \in disk'[f]
          PROVE  ts \in disk[f] \/ (f = current /\ ts = timepoint)
      BY <2>2
    <3>5. QED  BY <3>2, <3>3, <3>4, Zenon
  <2>4. RowsAreInTime'
    <3> SUFFICES ASSUME NEW f \in DOMAIN disk, NEW ts \in disk'[f]
                 PROVE  ts <= clock /\ f <= ts + MaxDelay /\ ts <= f + Span + MaxLag
      BY <2>1, <2>3 DEF RowsAreInTime, FilesInv, Boundary
    <3>1. CASE ts \in disk[f]  BY <3>1 DEF FilesInv, RowsAreInTime
    <3>2. CASE f = current /\ ts = timepoint
      <4>1. f <= ts + MaxDelay  BY <1>0, <2>1, <3>2, ConstantTypes
      <4>2. ts <= f + Span + MaxLag  BY <1>0, <2>1, <3>2, ConstantTypes
      <4>3. QED  BY <2>1, <3>2, <4>1, <4>2
    <3>3. QED  BY <2>3, <3>1, <3>2
  <2>5. FilesAreInOrder'
    <3> SUFFICES ASSUME NEW f \in DOMAIN disk, NEW g \in DOMAIN disk, f < g,
                        NEW ts \in disk'[f], NEW us \in disk'[g]
                 PROVE  ts < us
      BY <2>3 DEF FilesAreInOrder
    <3>1. f \in Nat /\ g \in Nat /\ f <= current /\ g <= current
      BY DEF FilesInv, RowsAreInTime
    <3>2. ts \in disk[f]  BY <1>0, <2>3, <3>1, SMT
    <3>3. CASE us \in disk[g]    BY <3>2, <3>3 DEF FilesInv, FilesAreInOrder
    <3>4. CASE us = timepoint  BY <2>1, <3>2, <3>4
    <3>5. QED  BY <2>3, <3>3, <3>4
  <2>6. CurrentIsRecent'  BY <2>1 DEF CurrentIsRecent, FilesInv
  <2>7. QED  BY <1>0, <2>1, <2>3, <2>4, <2>5, <2>6 DEF FilesInv, NewestInHand
<1>3. CASE Rotate
  <2>1. /\ clock' = clock /\ timepoint' = timepoint
        /\ \E t \in current + Span .. clock : CurrentFile(t)
    BY <1>3 DEF Rotate
  <2>2. PICK t \in current + Span .. clock : CurrentFile(t)  BY <2>1
  <2>3. t \in Nat /\ current <= t /\ t <= clock /\ clock <= clock  BY <1>0, <2>2, ConstantTypes
  <2>4. QED  BY <1>0, <2>1, <2>2, <2>3, CurrentFileStep
<1>4. CASE ClockTick
  <2>1. /\ clock' = clock + 1 /\ current' = current /\ disk' = disk /\ timepoint' = timepoint
        /\ clock < current + Span + MaxLag
        /\ timepoint # 0 => clock < timepoint + MaxDelay
    BY <1>4 DEF ClockTick
  <2>2. clock' \in Nat /\ clock <= clock' /\ clock' <= current + Span + MaxLag
    BY <1>0, <2>1, ConstantTypes
  <2>3. CurrentIsRecent'  BY <1>0, <2>1, <2>2 DEF CurrentIsRecent
  <2>4. RowsAreInTime'
    <3> SUFFICES ASSUME NEW f \in DOMAIN disk, NEW ts \in disk[f] PROVE ts <= clock'
      BY <2>1 DEF FilesInv, RowsAreInTime, Boundary
    <3>1. ts \in Nat /\ ts <= clock  BY DEF FilesInv, RowsAreInTime
    <3>2. QED  BY <1>0, <2>1, <3>1, SMT
  <2>5. NewestInHand'
    <3>1. ASSUME timepoint # 0 PROVE timepoint <= clock' /\ clock' <= timepoint + MaxDelay
      <4>1. timepoint <= clock  BY <3>1 DEF FilesInv, NewestInHand
      <4>2. QED  BY <1>0, <2>1, <3>1, <4>1, ConstantTypes
    <3>2. QED  BY <1>0, <2>1, <3>1 DEF FilesInv, NewestInHand
  <2>6. QED  BY <1>0, <2>1, <2>2, <2>3, <2>4, <2>5 DEF FilesInv, FilesAreInOrder
<1>5. ASSUME NEW now \in clock + 1 .. Horizon, clock' = now, timepoint' = 0,
             \E t \in clock .. now : CurrentFile(t)
      PROVE  FilesInv'
  <2>1. PICK t \in clock .. now : CurrentFile(t)  BY <1>5
  <2>2. /\ t \in Nat /\ now \in Nat /\ clock <= now /\ current <= t /\ t <= now
    BY <1>0, ConstantTypes
  <2>3. QED  BY <1>5, <2>1, <2>2, CurrentFileStep
<1>6. CASE UNCHANGED fileVars
  BY <1>6 DEF fileVars, FilesInv, CurrentIsRecent, RowsAreInTime, FilesAreInOrder, NewestInHand, Boundary
<1>7. QED  BY <1>1, <1>2, <1>3, <1>4, <1>5, <1>6 DEF FilesNext

\* Files are never lost and only gain rows.
LEMMA FilesGrow ==
  ASSUME FilesInv, FilesNext
  PROVE  \A f \in DOMAIN disk : f \in DOMAIN disk' /\ disk[f] \subseteq disk'[f]
<1>1. CASE Signals  BY <1>1 DEF Signals
<1>2. CASE save
  <2>1. disk' = [disk EXCEPT ![current] = @ \cup {timepoint}]  BY <1>2 DEF save
  <2>2. disk \in [DOMAIN disk -> SUBSET Nat]  BY DEF FilesInv
  <2>3. DOMAIN disk' = DOMAIN disk  BY <2>1, <2>2
  <2>4. \A f \in DOMAIN disk : disk'[f] = IF f = current THEN disk[f] \cup {timepoint} ELSE disk[f]
    BY <2>1, <2>2
  <2>5. QED  BY <2>3, <2>4
<1>3. ASSUME NEW t, CurrentFile(t)
      PROVE  \A f \in DOMAIN disk : f \in DOMAIN disk' /\ disk[f] \subseteq disk'[f]
  BY <1>3 DEF CurrentFile
<1>4. CASE Rotate
  <2>1. PICK t \in current + Span .. clock : CurrentFile(t)  BY <1>4 DEF Rotate
  <2>2. QED  BY <1>3, <2>1
<1>5. CASE ClockTick  BY <1>5 DEF ClockTick
<1>6. CASE \E now \in clock + 1 .. Horizon :
             clock' = now /\ timepoint' = 0 /\ \E t \in clock .. now : CurrentFile(t)
  <2>1. PICK now \in clock + 1 .. Horizon : \E t \in clock .. now : CurrentFile(t)  BY <1>6
  <2>2. PICK t \in clock .. now : CurrentFile(t)  BY <2>1
  <2>3. QED  BY <1>3, <2>2
<1>7. CASE UNCHANGED fileVars  BY <1>7 DEF fileVars
<1>8. QED  BY <1>1, <1>2, <1>4, <1>5, <1>6, <1>7 DEF FilesNext

\* The rows of a file can be counted.
LEMMA FileIsFinite ==
  ASSUME FilesInv, NEW f \in DOMAIN disk
  PROVE  disk[f] \in SUBSET Nat /\ IsFiniteSet(disk[f])
<1>1. clock \in Nat /\ disk[f] \in SUBSET Nat  BY DEF FilesInv
<1>2. disk[f] \in SUBSET (0 .. clock)  BY <1>1 DEF FilesInv, RowsAreInTime
<1>3. IsFiniteSet(0 .. clock)
  <2>1. 0 \in Int /\ clock \in Int  BY <1>1
  <2>2. QED  BY <2>1, FS_Interval
<1>4. QED  BY <1>1, <1>2, <1>3, FS_Subset

\* The rows that were in the files when the load was asked for are still in them,
\* and no row of theirs is in a file that was missing.
RowsStay ==
  /\ recorded \subseteq Saved
  /\ task = "found" => start \in DOMAIN disk
  /\ task = "missing" =>
       \A ts \in recorded : \E f \in DOMAIN disk : f # start /\ ts \in disk[f]

\* A row is in one file.
LEMMA OneFileEach ==
  ASSUME FilesInv, NEW f \in DOMAIN disk, NEW g \in DOMAIN disk, NEW ts, ts \in disk[f], ts \in disk[g]
  PROVE  f = g
<1>1. f \in Nat /\ g \in Nat /\ ts \in Nat  BY DEF FilesInv, RowsAreInTime
<1>2. ~(f < g) /\ ~(g < f)  BY <1>1 DEF FilesInv, FilesAreInOrder
<1>3. QED  BY <1>1, <1>2

LEMMA SavedGrows ==
  ASSUME FilesInv, FilesNext, recorded \subseteq Saved, recorded' = recorded
  PROVE  recorded' \subseteq Saved'
<1>1. \A f \in DOMAIN disk : f \in DOMAIN disk' /\ disk[f] \subseteq disk'[f]  BY FilesGrow
<1>2. ASSUME NEW ts \in recorded PROVE \E f \in DOMAIN disk' : ts \in disk'[f]
  <2>1. PICK f \in DOMAIN disk : ts \in disk[f]  BY DEF Saved
  <2>2. QED  BY <1>1, <2>1
<1>3. QED  BY <1>2 DEF Saved

LEMMA SavedStays ==
  ASSUME FilesInv, FilesNext, RowsStay, UNCHANGED <<task, start, recorded>>
  PROVE  RowsStay'
<1>1. \A f \in DOMAIN disk : f \in DOMAIN disk' /\ disk[f] \subseteq disk'[f]  BY FilesGrow
<1>3. recorded' \subseteq Saved'  BY SavedGrows DEF RowsStay
<1>4. ASSUME task = "missing", NEW ts \in recorded
      PROVE  \E f \in DOMAIN disk' : f # start /\ ts \in disk'[f]
  <2>1. PICK f \in DOMAIN disk : f # start /\ ts \in disk[f]  BY <1>4 DEF RowsStay
  <2>2. QED  BY <1>1, <2>1
<1>5. task = "found" => start \in DOMAIN disk'  BY <1>1 DEF RowsStay
<1>6. QED  BY <1>3, <1>4, <1>5 DEF RowsStay

=============================================================================
