---------------------- MODULE TimeSeriesLoader_proofs -----------------------
(***************************************************************************)
(* The receiver of a time series is given the rows of the interval in its  *)
(* order, and all of them but those that are in a file before or after     *)
(* those of its periods, for every period, delay of the rotation and of    *)
(* the rows and every interval, while rows are saved, files rotate and the *)
(* program restarts.                                                       *)
(***************************************************************************)
EXTENDS TimeSeriesLoader, HistoryFiles_proofs, SequenceTheorems

Before(a, b) == IF asc(open_timepoint, close_timepoint) THEN a < b ELSE b < a

\* While a load goes on, the receiver has been given the rows of the interval
\* that are in the files from that of its beginning up to the one before start.
SeriesLoad ==
  /\ open_timepoint \in Nat \ {0} /\ close_timepoint \in Nat
  /\ completed = FALSE
  /\ Boundary(start)
  /\ \A i \in DOMAIN delivered : \E f \in DOMAIN disk : Before(f, start) /\ delivered[i] \in disk[f]
  /\ \A i, j \in DOMAIN delivered : i < j => Before(delivered[i], delivered[j])
  /\ \A ts \in recorded : InInterval(ts) =>
       \/ \E i \in DOMAIN delivered : delivered[i] = ts
       \/ \E f \in DOMAIN disk :
            /\ ts \in disk[f]
            /\ Before(f, resolve_timepoint(open_timepoint)) \/ ~Before(f, start)

SeriesInv ==
  /\ FilesInv /\ RowsStay
  /\ open_timepoint \in Nat
  /\ delivered \in Seq(Nat)
  /\ task \in {"asking", "found", "missing"} => loading
  /\ loading => SeriesLoad

\* Each action of the loader does to the files what they allow.
LEMMA LoaderFiles == [Next]_vars => FilesNext
  BY DEF Next, vars, FilesNext, fileVars, FilesStep, SeriesRestart, Restart, load, do_loading_async,
         SeriesAnswer, TryGetItem, SeriesCancel, cancel, Continue

\* The rows handed over are those of the file that are in the interval, in its
\* order.
LEMMA SeriesRows ==
  ASSUME FilesInv, start \in DOMAIN disk
  PROVE  /\ Rows(start) \in Seq(disk[start])
         /\ \A i, j \in 1 .. Len(Rows(start)) :
              i < j => Before(Rows(start)[i], Rows(start)[j])
         /\ \A ts \in disk[start] : InInterval(ts) =>
              \E i \in 1 .. Len(Rows(start)) : Rows(start)[i] = ts
<1> DEFINE inside == {ts \in disk[start] : InInterval(ts)}
           n == Cardinality(inside)
<1>1. inside \in SUBSET Nat /\ IsFiniteSet(inside)
  <2>1. disk[start] \in SUBSET Nat /\ IsFiniteSet(disk[start])  BY FileIsFinite
  <2>2. inside \in SUBSET disk[start]  OBVIOUS
  <2>3. QED  BY <2>1, <2>2, FS_Subset
<1>2. inside \in SUBSET disk[start] /\ \A ts \in disk[start] : InInterval(ts) => ts \in inside
  OBVIOUS
<1>3. CASE asc(open_timepoint, close_timepoint)
  <2>1. Rows(start) = Ascending(inside)  BY <1>3 DEF Rows
  <2> HIDE DEF inside
  <2>2. /\ n \in Nat /\ Ascending(inside) \in [1 .. n -> inside]
        /\ \A ts \in inside : \E i \in 1 .. n : Ascending(inside)[i] = ts
        /\ \A i, j \in 1 .. n : i < j => Ascending(inside)[i] < Ascending(inside)[j]
    BY <1>1, AscendingIs
  <2> HIDE DEF n
  <2>3. Ascending(inside) \in [1 .. n -> disk[start]]  BY <1>2, <2>2
  <2>4. Ascending(inside) \in Seq(disk[start]) /\ Len(Ascending(inside)) = n  BY <2>2, <2>3
  <2>5. QED  BY <1>2, <1>3, <2>1, <2>2, <2>4 DEF Before
<1>4. CASE ~asc(open_timepoint, close_timepoint)
  <2>1. Rows(start) = Descending(inside)  BY <1>4 DEF Rows
  <2> HIDE DEF inside
  <2>2. /\ n \in Nat /\ Descending(inside) \in [1 .. n -> inside]
        /\ \A ts \in inside : \E i \in 1 .. n : Descending(inside)[i] = ts
        /\ \A i, j \in 1 .. n : i < j => Descending(inside)[i] > Descending(inside)[j]
    BY <1>1, DescendingIs
  <2> HIDE DEF n
  <2>3. Descending(inside) \in [1 .. n -> disk[start]]  BY <1>2, <2>2
  <2>4. Descending(inside) \in Seq(disk[start]) /\ Len(Descending(inside)) = n  BY <2>2, <2>3
  <2>5. ASSUME NEW i \in 1 .. n, NEW j \in 1 .. n, i < j
        PROVE  Descending(inside)[j] < Descending(inside)[i]
    <3>1. Descending(inside)[i] > Descending(inside)[j]  BY <2>2, <2>5
    <3>2. Descending(inside)[i] \in Nat /\ Descending(inside)[j] \in Nat  BY <1>1, <2>2
    <3>3. QED  BY <3>1, <3>2
  <2>6. QED  BY <1>2, <1>4, <2>1, <2>2, <2>4, <2>5 DEF Before
<1>5. QED  BY <1>3, <1>4

\* What the receiver has been given when the continuation is over: the rows of
\* the interval that are in the files up to start.
LEMMA SeriesDelivers ==
  ASSUME SeriesInv, Continue
  PROVE  /\ delivered' \in Seq(Nat)
         /\ \A i, j \in DOMAIN delivered' : i < j => Before(delivered'[i], delivered'[j])
         /\ \A i \in DOMAIN delivered' : \E f \in DOMAIN disk :
              ~Before(start, f) /\ delivered'[i] \in disk[f]
         /\ \A ts \in recorded : InInterval(ts) =>
              \/ \E i \in DOMAIN delivered' : delivered'[i] = ts
              \/ \E f \in DOMAIN disk :
                   /\ ts \in disk[f]
                   /\ Before(f, resolve_timepoint(open_timepoint)) \/ Before(start, f)
<1>0. /\ task \in {"found", "missing"} /\ SeriesLoad
      /\ delivered' = IF task = "found" THEN delivered \o Rows(start) ELSE delivered
  BY DEF Continue, SeriesInv
<1>1. /\ start \in Int /\ delivered \in Seq(Nat) /\ Len(delivered) \in Nat
      /\ DOMAIN delivered = 1 .. Len(delivered)
      /\ \A f \in DOMAIN disk : f \in Nat /\ disk[f] \in SUBSET Nat
  BY <1>0, BoundaryNext DEF SeriesInv, SeriesLoad, FilesInv, RowsAreInTime
<1>2. \A f \in DOMAIN disk : Before(f, start) \/ Before(start, f) \/ f = start  BY <1>1 DEF Before
<1>3. \A f \in DOMAIN disk : Before(f, start) => ~Before(start, f)  BY <1>1 DEF Before
<1>4. ~Before(start, start)  BY <1>1 DEF Before
<1>5. CASE task = "missing"
  <2>1. delivered' = delivered  BY <1>0, <1>5
  <2>2. ASSUME NEW ts \in recorded, InInterval(ts), ~\E i \in DOMAIN delivered : delivered[i] = ts
        PROVE  \E f \in DOMAIN disk :
                 /\ ts \in disk[f]
                 /\ Before(f, resolve_timepoint(open_timepoint)) \/ Before(start, f)
    <3>1. PICK f \in DOMAIN disk :
            ts \in disk[f] /\ (Before(f, resolve_timepoint(open_timepoint)) \/ ~Before(f, start))
      BY <1>0, <2>2 DEF SeriesLoad
    <3>2. PICK g \in DOMAIN disk : g # start /\ ts \in disk[g]
      BY <1>5 DEF SeriesInv, RowsStay
    <3>3. f = g  BY <1>1, <3>1, <3>2, OneFileEach DEF SeriesInv
    <3>4. QED  BY <1>2, <3>1, <3>2, <3>3
  <2>3. \A i \in DOMAIN delivered : \E f \in DOMAIN disk : ~Before(start, f) /\ delivered[i] \in disk[f]
    BY <1>0, <1>3 DEF SeriesLoad
  <2>4. \A i, j \in DOMAIN delivered : i < j => Before(delivered[i], delivered[j])
    BY <1>0 DEF SeriesLoad
  <2>5. QED  BY <1>1, <2>1, <2>2, <2>3, <2>4, Zenon
<1>6. CASE task = "found"
  <2> DEFINE rows == Rows(start)
             given == Len(delivered)
             n == Len(rows)
  <2>1. start \in DOMAIN disk  BY <1>6 DEF SeriesInv, RowsStay
  <2>2. /\ rows \in Seq(disk[start])
        /\ \A i, j \in 1 .. n : i < j => Before(rows[i], rows[j])
        /\ \A ts \in disk[start] : InInterval(ts) => \E i \in 1 .. n : rows[i] = ts
    BY <2>1, SeriesRows DEF SeriesInv
  <2> HIDE DEF rows
  <2>3. /\ n \in Nat /\ rows \in Seq(Nat) /\ \A i \in 1 .. n : rows[i] \in disk[start] /\ rows[i] \in Nat
    BY <1>1, <2>1, <2>2
  <2>4. /\ delivered' \in Seq(Nat) /\ Len(delivered') = given + n
        /\ \A i \in 1 .. given + n : delivered'[i] = IF i <= given THEN delivered[i] ELSE rows[i - given]
    BY <1>0, <1>1, <1>6, <2>3, ConcatProperties DEF rows
  <2> HIDE DEF n, given
  <2>5. /\ given \in Nat /\ n \in Nat /\ DOMAIN delivered' = 1 .. given + n
        /\ \A i \in 1 .. given : i \in 1 .. given + n /\ delivered'[i] = delivered[i]
                                 /\ delivered[i] \in Nat
        /\ \A i \in 1 .. n : given + i \in 1 .. given + n /\ delivered'[given + i] = rows[i]
        /\ \A i \in 1 .. given + n : i \in 1 .. given \/ (\E k \in 1 .. n : i = given + k)
    <3>1. given \in Nat /\ n \in Nat  BY <1>1, <2>3 DEF given
    <3>2. DOMAIN delivered' = 1 .. given + n  BY <2>4
    <3>3. \A i \in 1 .. given : delivered[i] \in Nat  BY <1>1 DEF given
    <3>4. \A i \in 1 .. given : i \in 1 .. given + n /\ i <= given  BY <3>1
    <3>5. \A i \in 1 .. n : given + i \in 1 .. given + n /\ ~(given + i <= given)
                            /\ given + i - given = i
      BY <3>1
    <3>6. ASSUME NEW i \in 1 .. given + n, i \notin 1 .. given
          PROVE  \E k \in 1 .. n : i = given + k
      <4>1. i - given \in 1 .. n /\ i = given + (i - given)  BY <3>1, <3>6
      <4>2. QED  BY <4>1
    <3>7. QED  BY <2>4, <3>1, <3>2, <3>3, <3>4, <3>5, <3>6
  \* A row given before is one of a file before start.
  <2>6. ASSUME NEW i \in 1 .. given
        PROVE  /\ \E f \in DOMAIN disk : Before(f, start) /\ delivered[i] \in disk[f]
               /\ \A ts \in disk[start] : Before(delivered[i], ts)
    <3>1. PICK f \in DOMAIN disk : Before(f, start) /\ delivered[i] \in disk[f]
      BY <1>0, <1>1, <2>6 DEF SeriesLoad, given
    <3>2. QED  BY <2>1, <3>1 DEF SeriesInv, FilesInv, FilesAreInOrder, Before
  <2>7. ASSUME NEW i \in 1 .. given + n, NEW j \in 1 .. given + n, i < j
        PROVE  Before(delivered'[i], delivered'[j])
    <3>1. CASE i \in 1 .. given /\ j \in 1 .. given
      BY <1>0, <1>1, <2>5, <2>7, <3>1 DEF SeriesLoad, given
    <3>2. CASE i \in 1 .. given /\ \E k \in 1 .. n : j = given + k
      <4>1. PICK k \in 1 .. n : j = given + k  BY <3>2
      <4>2. Before(delivered[i], rows[k])  BY <2>3, <2>6, <3>2
      <4>3. QED  BY <2>5, <3>2, <4>1, <4>2
    <3>3. CASE (\E k \in 1 .. n : i = given + k) /\ (\E k \in 1 .. n : j = given + k)
      <4>1. PICK k \in 1 .. n : i = given + k  BY <3>3
      <4>2. PICK l \in 1 .. n : j = given + l  BY <3>3
      <4>3. k < l  BY <2>5, <2>7, <4>1, <4>2
      <4>4. QED  BY <2>2, <2>5, <4>1, <4>2, <4>3
    <3>4. CASE (\E k \in 1 .. n : i = given + k) /\ j \in 1 .. given
      BY <2>5, <2>7, <3>4
    <3>5. QED  BY <2>5, <3>1, <3>2, <3>3, <3>4
  <2>8. ASSUME NEW i \in 1 .. given + n
        PROVE  \E f \in DOMAIN disk : ~Before(start, f) /\ delivered'[i] \in disk[f]
    <3>1. CASE i \in 1 .. given
      <4>1. PICK f \in DOMAIN disk : Before(f, start) /\ delivered[i] \in disk[f]  BY <2>6, <3>1
      <4>2. QED  BY <1>3, <2>5, <3>1, <4>1
    <3>2. CASE \E k \in 1 .. n : i = given + k
      <4>1. PICK k \in 1 .. n : i = given + k  BY <3>2
      <4>2. delivered'[i] \in disk[start]  BY <2>3, <2>5, <4>1
      <4>3. QED  BY <1>4, <2>1, <4>2
    <3>3. QED  BY <2>5, <3>1, <3>2
  <2>9. ASSUME NEW ts \in recorded, InInterval(ts)
        PROVE  \/ \E i \in 1 .. given + n : delivered'[i] = ts
               \/ \E f \in DOMAIN disk :
                    /\ ts \in disk[f]
                    /\ Before(f, resolve_timepoint(open_timepoint)) \/ Before(start, f)
    <3>1. CASE \E i \in DOMAIN delivered : delivered[i] = ts
      <4>1. PICK i \in 1 .. given : delivered[i] = ts  BY <1>1, <3>1 DEF given
      <4>2. QED  BY <2>5, <4>1
    <3>2. CASE ~\E i \in DOMAIN delivered : delivered[i] = ts
      <4>1. PICK f \in DOMAIN disk :
              ts \in disk[f] /\ (Before(f, resolve_timepoint(open_timepoint)) \/ ~Before(f, start))
        BY <1>0, <2>9, <3>2 DEF SeriesLoad
      <4>2. CASE f = start
        <5>1. PICK i \in 1 .. n : rows[i] = ts  BY <2>2, <2>9, <4>1, <4>2 DEF n
        <5>2. QED  BY <2>5, <5>1
      <4>3. CASE f # start  BY <1>2, <4>1, <4>3
      <4>4. QED  BY <4>2, <4>3
    <3>3. QED  BY <3>1, <3>2
  <2>10. QED  BY <2>4, <2>5, <2>7, <2>8, <2>9
<1>7. QED  BY <1>0, <1>5, <1>6

\* The next period is the first one beyond start, in the direction of the
\* interval.
LEMMA NextPeriod ==
  ASSUME FilesInv, Boundary(start)
  PROVE  /\ Boundary(start + interval)
         /\ \A f \in DOMAIN disk : Before(f, start + interval) <=> ~Before(start, f)
<1>1. start \in Int /\ Boundary(start + Span) /\ Boundary(start - Span)  BY BoundaryNext
<1>2. Span \in Nat /\ Span > 0  BY FilesAssumption, SMT
<1>3. ASSUME NEW f \in DOMAIN disk
      PROVE  /\ f \in Nat
             /\ start < f => start + Span <= f
             /\ f < start => f + Span <= start
  BY <1>3, BoundaryGap DEF FilesInv, RowsAreInTime
<1>4. CASE asc(open_timepoint, close_timepoint)
  <2>1. start + interval = start + Span  BY <1>4 DEF interval
  <2>2. \A f \in DOMAIN disk : f < start + Span <=> ~(start < f)  BY <1>1, <1>2, <1>3
  <2>3. QED  BY <1>1, <1>4, <2>1, <2>2 DEF Before
<1>5. CASE ~asc(open_timepoint, close_timepoint)
  <2>1. start + interval = start - Span  BY <1>1, <1>2, <1>5 DEF interval
  <2>2. \A f \in DOMAIN disk : start - Span < f <=> ~(f < start)  BY <1>1, <1>2, <1>3
  <2>3. QED  BY <1>1, <1>5, <2>1, <2>2 DEF Before
<1>6. QED  BY <1>4, <1>5

\* Whatever happens to the files while the file system or the UI thread is busy,
\* the load has lost no row.
LEMMA SeriesLoadStays ==
  ASSUME FilesInv, FilesNext, SeriesLoad,
         UNCHANGED <<recorded, start, completed, delivered, interval_s>>
  PROVE  SeriesLoad'
<1>1. \A f \in DOMAIN disk : f \in DOMAIN disk' /\ disk[f] \subseteq disk'[f]  BY FilesGrow
<1>2. open_timepoint' = open_timepoint /\ close_timepoint' = close_timepoint  BY DEF interval_s
<1>3. ASSUME NEW i \in DOMAIN delivered
      PROVE  \E f \in DOMAIN disk' : Before(f, start) /\ delivered[i] \in disk'[f]
  BY <1>1 DEF SeriesLoad
<1>4. ASSUME NEW ts \in recorded, InInterval(ts), ~\E i \in DOMAIN delivered : delivered[i] = ts
      PROVE  \E f \in DOMAIN disk' :
               /\ ts \in disk'[f]
               /\ Before(f, resolve_timepoint(open_timepoint)) \/ ~Before(f, start)
  <2>1. PICK f \in DOMAIN disk :
          ts \in disk[f] /\ (Before(f, resolve_timepoint(open_timepoint)) \/ ~Before(f, start))
    BY <1>4 DEF SeriesLoad
  <2>2. QED  BY <1>1, <2>1
<1>5. QED
  BY <1>2, <1>3, <1>4 DEF SeriesLoad, Boundary, Before, asc, InInterval, resolve_timepoint

LEMMA SeriesInvInit == Init => SeriesInv
<1> SUFFICES ASSUME Init PROVE SeriesInv  OBVIOUS
<1>1. FilesInv  BY FilesInvInit DEF Init
<1>2. task = "none" /\ delivered = <<>> /\ open_timepoint = 0 /\ recorded = {}
  BY DEF Init, TaskInit
<1>3. QED  BY <1>1, <1>2 DEF SeriesInv, RowsStay, loading

LEMMA SeriesInvStep ==
  ASSUME SeriesInv, [Next]_vars
  PROVE  SeriesInv'
<1>1. FilesNext /\ FilesInv'  BY LoaderFiles, FilesInvStep DEF SeriesInv
\* The steps that leave the load alone.
<1>2. ASSUME UNCHANGED <<recorded, start, completed, delivered, interval_s>>,
             task' = task \/ task' = "gone"
      PROVE  SeriesInv'
  <2>1. loading => SeriesLoad'  BY <1>1, <1>2, SeriesLoadStays DEF SeriesInv
  <2>2. RowsStay'
    <3>1. CASE task' = "gone"  BY <1>1, <1>2, <3>1, SavedGrows DEF SeriesInv, RowsStay
    <3>2. CASE task' = task  BY <1>1, <1>2, <3>2, SavedStays DEF SeriesInv
    <3>3. QED  BY <1>2, <3>1, <3>2
  <2>3. QED  BY <1>1, <1>2, <2>1, <2>2 DEF SeriesInv, loading, interval_s
<1>3. CASE FilesStep  BY <1>2, <1>3 DEF FilesStep, taskVars
<1>4. CASE SeriesRestart
  <2>1. task' = "none" /\ delivered' = <<>> /\ open_timepoint' = 0 /\ recorded' = {}
    BY <1>4 DEF SeriesRestart, Restart
  <2>2. QED  BY <1>1, <2>1 DEF SeriesInv, RowsStay, loading
<1>5. ASSUME NEW open \in Ends, NEW close \in Ends, load(open, close) PROVE SeriesInv'
  <2>1. /\ clock' = clock /\ disk' = disk
        /\ recorded' = Saved /\ delivered' = <<>> /\ start' = resolve_timepoint(open)
        /\ open \in Nat \ {0} /\ close \in Nat
    BY <1>5, EndsAssumption DEF load, do_loading_async, AskFor, fileVars
  <2>2. \/ task' = "none" /\ open_timepoint' = 0
        \/ /\ task' \in {"gone", "asking"} /\ completed' = FALSE
           /\ open_timepoint' = open /\ close_timepoint' = close
    BY <1>5 DEF load, do_loading_async, AskFor
  <2>3. RowsStay'  BY <2>1, <2>2 DEF RowsStay, Saved
  <2>4. CASE task' = "none" /\ open_timepoint' = 0
    BY <1>1, <2>1, <2>3, <2>4 DEF SeriesInv, loading
  <2>5. CASE /\ task' \in {"gone", "asking"} /\ completed' = FALSE
             /\ open_timepoint' = open /\ close_timepoint' = close
    <3>1. clock \in Nat /\ start' \in Nat /\ Boundary(start')
      BY <2>1, Resolve DEF SeriesInv, FilesInv
    <3>2. start' = resolve_timepoint(open_timepoint')  BY <2>1, <2>5
    <3>3. \A ts \in recorded' : \E f \in DOMAIN disk' : ts \in disk'[f]  BY <2>1 DEF Saved
    <3>4. DOMAIN delivered' = {}  BY <2>1
    <3>5. SeriesLoad'
      BY <2>1, <2>5, <3>1, <3>2, <3>3, <3>4 DEF SeriesLoad, Boundary, resolve_timepoint, Before
    <3>6. QED  BY <1>1, <2>1, <2>3, <2>5, <3>5 DEF SeriesInv, loading
  <2>6. QED  BY <2>2, <2>4, <2>5
<1>6. CASE SeriesAnswer
  <2>1. /\ task = "asking" /\ task' = IF start \in DOMAIN disk THEN "found" ELSE "missing"
        /\ UNCHANGED <<fileVars, recorded, start, completed, delivered, interval_s>>
    BY <1>6 DEF SeriesAnswer, TryGetItem
  <2>2. loading /\ SeriesLoad  BY <2>1 DEF SeriesInv
  <2>3. SeriesLoad'  BY <1>1, <2>1, <2>2, SeriesLoadStays DEF SeriesInv
  <2>4. RowsStay'
    <3>1. recorded \subseteq Saved  BY DEF SeriesInv, RowsStay
    <3>2. ASSUME start \notin DOMAIN disk, NEW ts \in recorded
          PROVE  \E f \in DOMAIN disk : f # start /\ ts \in disk[f]
      BY <3>1, <3>2 DEF Saved
    <3>3. QED  BY <2>1, <3>1, <3>2 DEF RowsStay, fileVars, Saved
  <2>5. QED  BY <1>1, <2>1, <2>2, <2>3, <2>4 DEF SeriesInv, loading, interval_s
<1>7. CASE SeriesCancel  BY <1>2, <1>7 DEF SeriesCancel, cancel
<1>8. CASE Continue
  <2>1. /\ delivered' \in Seq(Nat)
        /\ \A i, j \in DOMAIN delivered' : i < j => Before(delivered'[i], delivered'[j])
        /\ \A i \in DOMAIN delivered' : \E f \in DOMAIN disk :
             ~Before(start, f) /\ delivered'[i] \in disk[f]
        /\ \A ts \in recorded : InInterval(ts) =>
             \/ \E i \in DOMAIN delivered' : delivered'[i] = ts
             \/ \E f \in DOMAIN disk :
                  /\ ts \in disk[f]
                  /\ Before(f, resolve_timepoint(open_timepoint)) \/ Before(start, f)
    BY <1>8, SeriesDelivers
  <2>2. /\ clock' = clock /\ current' = current /\ disk' = disk /\ recorded' = recorded
        /\ task \in {"found", "missing"} /\ start' = start + interval
        /\ \/ task' = "none" /\ open_timepoint' = 0
           \/ /\ task' \in {"gone", "asking"} /\ completed' = FALSE
              /\ open_timepoint' = open_timepoint /\ close_timepoint' = close_timepoint
    BY <1>8 DEF Continue, do_loading_async, AskFor, fileVars
  <2>3. RowsStay'  BY <2>2 DEF RowsStay, Saved, SeriesInv
  <2>4. CASE task' = "none" /\ open_timepoint' = 0
    BY <1>1, <2>1, <2>3, <2>4 DEF SeriesInv, loading
  <2>5. CASE /\ task' \in {"gone", "asking"} /\ completed' = FALSE
             /\ open_timepoint' = open_timepoint /\ close_timepoint' = close_timepoint
    <3>1. SeriesLoad /\ loading  BY <2>2 DEF SeriesInv
    <3>2. Boundary(start') /\ \A f \in DOMAIN disk : Before(f, start') <=> ~Before(start, f)
      BY <2>2, <3>1, NextPeriod DEF SeriesInv, SeriesLoad
    <3>3. \A i \in DOMAIN delivered' : \E f \in DOMAIN disk' :
            Before(f, start') /\ delivered'[i] \in disk'[f]
      BY <2>1, <2>2, <3>2
    <3>4. \A ts \in recorded' : InInterval(ts) =>
            \/ \E i \in DOMAIN delivered' : delivered'[i] = ts
            \/ \E f \in DOMAIN disk' :
                 /\ ts \in disk'[f]
                 /\ Before(f, resolve_timepoint(open_timepoint)) \/ ~Before(f, start')
      BY <2>1, <2>2, <3>2
    <3>5. completed' = FALSE  BY <2>5
    <3>6. SeriesLoad'
      BY <2>1, <2>5, <3>1, <3>2, <3>3, <3>4, <3>5
      DEF SeriesLoad, Boundary, Before, asc, InInterval, resolve_timepoint
    <3>7. open_timepoint' \in Nat /\ loading'  BY <2>5, <3>1 DEF loading, SeriesInv
    <3>8. QED  BY <1>1, <2>1, <2>3, <3>6, <3>7 DEF SeriesInv
  <2>6. QED  BY <2>2, <2>4, <2>5
<1>9. CASE UNCHANGED vars  BY <1>2, <1>9 DEF vars, taskVars
<1>10. QED  BY <1>3, <1>4, <1>5, <1>6, <1>7, <1>8, <1>9 DEF Next

\* The receiver is given each row once and in the order of the interval, over
\* all the files, whichever end of the interval is the later one
\* (earthwork_ts.cpp:146-199).
THEOREM AlwaysInOrder == Spec => InOrder
<1> DEFINE Ordered ==
      loading =>
        \A i, j \in DOMAIN delivered' :
          i < j => IF asc(open_timepoint, close_timepoint)
                   THEN delivered'[i] < delivered'[j] ELSE delivered'[i] > delivered'[j]
<1>1. Init => SeriesInv  BY SeriesInvInit
<1>2. SeriesInv /\ [Next]_vars => SeriesInv'  BY SeriesInvStep
<1>3. SeriesInv /\ [Next]_vars => [Ordered]_vars
  <2> SUFFICES ASSUME SeriesInv, SeriesInv', [Next]_vars, loading PROVE Ordered
    BY <1>2
  <2>1. /\ delivered' \in Seq(Nat)
        /\ \A i, j \in DOMAIN delivered' : i < j => Before(delivered'[i], delivered'[j])
    <3>1. CASE Continue  BY <3>1, SeriesDelivers
    <3>2. CASE delivered' = delivered  BY <3>2 DEF SeriesInv, SeriesLoad
    <3>3. CASE SeriesRestart
      <4>1. delivered' = <<>>  BY <3>3 DEF SeriesRestart, Restart
      <4>2. QED  BY <4>1
    <3>4. QED
      BY <3>1, <3>2, <3>3 DEF Next, FilesStep, taskVars, load, SeriesAnswer, TryGetItem,
                              SeriesCancel, cancel, vars
  <2>2. \A i \in DOMAIN delivered' : delivered'[i] \in Nat  BY <2>1
  <2>3. QED  BY <2>1, <2>2 DEF Before
<1>4. QED  BY <1>1, <1>2, <1>3, PTL DEF Spec, InOrder

\* Of the rows of the interval a completed load has missed only some that were
\* saved in a file before or after those of its periods.
LEMMA SeriesMissesLittle ==
  ASSUME SeriesInv, loading, completed', [Next]_vars, NEW ts \in Missed
  PROVE  \/ ts <= resolve_timepoint(Earliest) + MaxLag
         \/ resolve_timepoint(Latest) + Span <= ts + MaxDelay
<1>1. completed = FALSE /\ SeriesLoad  BY DEF SeriesInv, SeriesLoad
<1>2. Continue
  <2>1. completed' # completed  BY <1>1
  <2>2. ~FilesStep /\ ~SeriesAnswer /\ ~SeriesCancel /\ ~UNCHANGED vars
    BY <2>1 DEF FilesStep, SeriesAnswer, TryGetItem, SeriesCancel, cancel, vars, taskVars
  <2>3. ~SeriesRestart  BY DEF SeriesRestart, Restart
  <2>4. \A open, close \in Ends : ~load(open, close)  BY DEF load
  <2>5. QED  BY <2>2, <2>3, <2>4 DEF Next
<1>3. Over(start + interval, open_timepoint, close_timepoint)
  BY <1>2 DEF Continue, do_loading_async, AskFor
<1>4. PICK f \in DOMAIN disk :
        ts \in disk[f] /\ (Before(f, resolve_timepoint(open_timepoint)) \/ Before(start, f))
  <2>1. ts \in recorded /\ InInterval(ts)  BY DEF Missed
  <2>2. \A i \in DOMAIN delivered' : delivered'[i] # ts  BY DEF Missed, Range
  <2>3. QED  BY <1>2, <2>1, <2>2, SeriesDelivers
<1>5. /\ f \in Nat /\ Boundary(f) /\ ts \in Nat
      /\ f <= ts + MaxDelay /\ ts <= f + Span + MaxLag
      /\ start \in Int /\ Boundary(start)
      /\ open_timepoint \in Nat /\ close_timepoint \in Nat
      /\ Span \in Nat /\ Span > 0 /\ MaxLag \in Nat /\ MaxDelay \in Nat
  BY <1>1, <1>4, ConstantTypes, BoundaryNext DEF SeriesInv, SeriesLoad, FilesInv, RowsAreInTime
<1> DEFINE first == resolve_timepoint(open_timepoint)
           last == resolve_timepoint(close_timepoint)
<1>6. first \in Nat /\ Boundary(first) /\ last \in Nat /\ Boundary(last)  BY <1>5, Resolve
<1> HIDE DEF first, last
\* Boundaries are a period apart.
<1>7. /\ f < first => f + Span <= first
      /\ f < last => f + Span <= last
      /\ first < f => first + Span <= f
      /\ last < f => last + Span <= f
      /\ start < f => start + Span <= f
      /\ f < start => f + Span <= start
  BY <1>5, <1>6, BoundaryGap
<1>8. CASE asc(open_timepoint, close_timepoint)
  <2>1. f < first \/ start < f  BY <1>4, <1>8 DEF Before, first
  <2>2. last < start + Span
    <3>1. start + Span > last  BY <1>3, <1>8 DEF Over, interval, last
    <3>2. QED  BY <1>5, <1>6, <3>1
  <2>3. Earliest = open_timepoint /\ Latest = close_timepoint  BY <1>8 DEF Earliest, Latest
  <2>4. CASE f < first
    <3>1. ts <= first + MaxLag  BY <1>5, <1>6, <1>7, <2>4
    <3>2. QED  BY <2>3, <3>1 DEF first
  <2>5. CASE start < f
    <3>1. last + Span <= f  BY <1>5, <1>6, <1>7, <2>2, <2>5
    <3>2. last + Span <= ts + MaxDelay  BY <1>5, <1>6, <3>1
    <3>3. QED  BY <2>3, <3>2 DEF last
  <2>6. QED  BY <2>1, <2>4, <2>5
<1>9. CASE ~asc(open_timepoint, close_timepoint)
  <2>1. first < f \/ f < start  BY <1>4, <1>9 DEF Before, first
  <2>2. start - Span < last
    <3>1. start + interval < last  BY <1>3, <1>9 DEF Over, last
    <3>2. start + interval = start - Span  BY <1>5, <1>9 DEF interval
    <3>3. QED  BY <3>1, <3>2
  <2>3. Earliest = close_timepoint /\ Latest = open_timepoint  BY <1>9 DEF Earliest, Latest
  <2>4. CASE first < f
    <3>1. first + Span <= ts + MaxDelay  BY <1>5, <1>6, <1>7, <2>4
    <3>2. QED  BY <2>3, <3>1 DEF first
  <2>5. CASE f < start
    <3>1. f + Span <= start  BY <1>7, <2>5
    <3>2. f < last  BY <1>5, <1>6, <2>2, <3>1
    <3>3. ts <= last + MaxLag  BY <1>5, <1>6, <1>7, <3>2
    <3>4. QED  BY <2>3, <3>3 DEF last
  <2>6. QED  BY <2>1, <2>4, <2>5
<1>10. QED  BY <1>8, <1>9

\* A load that completes has given the receiver every row of the interval that
\* was in the files when it was asked for, but for rows of the first MaxLag of
\* its first period, which may be in the file before, and of the last MaxDelay of
\* its last period, which may be in the file after (earthwork_ts.cpp:146-199).
THEOREM AlwaysComplete == Spec => Complete
<1>1. Init => SeriesInv  BY SeriesInvInit
<1>2. SeriesInv /\ [Next]_vars => SeriesInv'  BY SeriesInvStep
<1>3. SeriesInv /\ [Next]_vars =>
        [loading /\ completed' =>
           \A ts \in Missed :
             \/ ts <= resolve_timepoint(Earliest) + MaxLag
             \/ resolve_timepoint(Latest) + Span <= ts + MaxDelay]_vars
  BY SeriesMissesLittle
<1>4. QED  BY <1>1, <1>2, <1>3, PTL DEF Spec, Complete

=============================================================================
