------------------------- MODULE AlarmLoader_proofs -------------------------
(***************************************************************************)
(* The table of alarms is given the rows in order and without gaps, for    *)
(* every period, delay of the rotation, request and limit of the search,   *)
(* while rows are saved, files rotate and the program is started again.    *)
(***************************************************************************)
EXTENDS AlarmLoader, HistoryFiles_proofs, SequenceTheorems

\* While the search goes on, the table has less than it asked for, and all the
\* rows of the periods after the one the search is about.
TableSearch ==
  /\ completed = FALSE
  /\ Boundary(start)
  /\ Len(delivered) < request_count
  /\ \A i \in DOMAIN delivered : \E f \in DOMAIN disk : start < f /\ delivered[i] \in disk[f]
  /\ \A ts \in recorded :
       \/ \E i \in DOMAIN delivered : delivered[i] = ts
       \/ \E f \in DOMAIN disk : f <= start /\ ts \in disk[f]

TableInv ==
  /\ FilesInv /\ RowsStay
  /\ request_count \in Nat
  /\ delivered \in Seq(Nat)
  /\ NewestFirst
  /\ task \in {"asking", "found", "missing"} => loading
  /\ loading => TableSearch

\* Each action of the loader does to the files what they allow.
LEMMA LoaderFiles == [Next]_vars => FilesNext
  BY DEF Next, vars, FilesNext, fileVars, FilesStep, TableRestart, Restart, load, do_loading_async,
         TableAnswer, TryGetItem, TableCancel, cancel, Continue

\* LIMIT: the rows handed over are the newest of the file, and if any is left
\* out, as many as were still missing.
LEMMA TableRows ==
  ASSUME FilesInv, start \in DOMAIN disk, request_count \in Nat,
         delivered \in Seq(Nat), Len(delivered) < request_count
  PROVE  /\ Rows(start) \in Seq(disk[start])
         /\ Len(Rows(start)) <= request_count - Len(delivered)
         /\ \A i, j \in 1 .. Len(Rows(start)) : i < j => Rows(start)[i] > Rows(start)[j]
         /\ \A ts \in disk[start] :
              \/ \E i \in 1 .. Len(Rows(start)) : Rows(start)[i] = ts
              \/ /\ Len(Rows(start)) = request_count - Len(delivered)
                 /\ \A i \in 1 .. Len(Rows(start)) : ts < Rows(start)[i]
<1> DEFINE rows == Rows(start)
           newest == Descending(disk[start])
           n == Cardinality(disk[start])
           limit == request_count - Len(delivered)
           last == IF limit < n THEN limit ELSE n
<1>1. disk[start] \in SUBSET Nat /\ IsFiniteSet(disk[start])  BY FileIsFinite
<1>2. /\ n \in Nat /\ newest \in [1 .. n -> disk[start]]
      /\ \A ts \in disk[start] : \E i \in 1 .. n : newest[i] = ts
      /\ \A i, j \in 1 .. n : i < j => newest[i] > newest[j]
  BY <1>1, DescendingIs
<1>3. limit \in Nat  BY SMT
<1>4. rows = SubSeq(newest, 1, IF limit < Len(newest) THEN limit ELSE Len(newest))  BY DEF Rows
<1> HIDE DEF newest, n, limit
<1>5. Len(newest) = n  BY <1>2
<1>6. rows = SubSeq(newest, 1, last)  BY <1>4, <1>5
<1>7. last \in Nat /\ last <= n /\ last <= limit  BY <1>2, <1>3
<1>8. rows = [i \in 1 .. last |-> newest[i]]  BY <1>2, <1>6, <1>7
<1> HIDE DEF last, rows
<1>9. \A i \in 1 .. last : i \in 1 .. n  BY <1>2, <1>7
<1>10. rows \in [1 .. last -> disk[start]]  BY <1>2, <1>8, <1>9
<1>11. rows \in Seq(disk[start]) /\ Len(rows) = last  BY <1>7, <1>10
<1>12. \A i, j \in 1 .. last : i < j => rows[i] > rows[j]  BY <1>2, <1>8, <1>9
<1>13. ASSUME NEW ts \in disk[start]
       PROVE  \/ \E i \in 1 .. last : rows[i] = ts
              \/ last = limit /\ \A i \in 1 .. last : ts < rows[i]
  <2>1. PICK j \in 1 .. n : newest[j] = ts  BY <1>2
  <2>2. CASE j \in 1 .. last  BY <1>8, <2>1, <2>2
  <2>3. CASE j \notin 1 .. last
    <3>1. last < j  BY <1>2, <1>7, <2>3
    <3>2. last = limit  BY <1>2, <1>3, <1>7, <2>1, <3>1 DEF last
    <3>3. ASSUME NEW i \in 1 .. last PROVE ts < rows[i]
      <4>1. i < j /\ i \in 1 .. n  BY <1>7, <1>9, <3>1
      <4>2. newest[i] > newest[j]  BY <1>2, <2>1, <4>1
      <4>3. newest[i] \in Nat /\ newest[j] \in Nat  BY <1>1, <1>2, <2>1, <4>1
      <4>4. QED  BY <1>8, <2>1, <4>2, <4>3
    <3>4. QED  BY <3>2, <3>3
  <2>4. QED  BY <2>2, <2>3
<1>14. QED  BY <1>7, <1>11, <1>12, <1>13 DEF rows, limit

\* What the table has been given when the continuation is over: rows of the
\* period searched and of those after it, without gaps but for those that are
\* older than all the rows the table asked for.
LEMMA TableDelivers ==
  ASSUME TableInv, Continue
  PROVE  /\ delivered' \in Seq(Nat) /\ Len(delivered') <= request_count
         /\ NewestFirst'
         /\ \A i \in DOMAIN delivered' : \E f \in DOMAIN disk : start <= f /\ delivered'[i] \in disk[f]
         /\ \A ts \in recorded :
              \/ \E i \in DOMAIN delivered' : delivered'[i] = ts
              \/ \E f \in DOMAIN disk : f < start /\ ts \in disk[f]
              \/ /\ Len(delivered') = request_count
                 /\ \A i \in DOMAIN delivered' : ts < delivered'[i]
<1>0. /\ task \in {"found", "missing"} /\ TableSearch
      /\ delivered' = IF task = "found" THEN delivered \o Rows(start) ELSE delivered
  BY DEF Continue, TableInv
<1>1. /\ start \in Int /\ delivered \in Seq(Nat) /\ request_count \in Nat
      /\ Len(delivered) \in Nat /\ Len(delivered) < request_count
      /\ DOMAIN delivered = 1 .. Len(delivered)
      /\ \A f \in DOMAIN disk : f \in Nat /\ disk[f] \in SUBSET Nat
  BY <1>0, BoundaryNext DEF TableInv, TableSearch, FilesInv, RowsAreInTime
<1>2. CASE task = "missing"
  <2>1. delivered' = delivered  BY <1>0, <1>2
  <2>2. ASSUME NEW ts \in recorded, ~\E i \in DOMAIN delivered : delivered[i] = ts
        PROVE  \E f \in DOMAIN disk : f < start /\ ts \in disk[f]
    <3>1. PICK f \in DOMAIN disk : f <= start /\ ts \in disk[f]  BY <1>0, <2>2 DEF TableSearch
    <3>2. PICK g \in DOMAIN disk : g # start /\ ts \in disk[g]  BY <1>2 DEF TableInv, RowsStay
    <3>3. f = g  BY <3>1, <3>2, OneFileEach DEF TableInv
    <3>4. f < start  BY <1>1, <3>1, <3>2, <3>3
    <3>5. QED  BY <3>1, <3>4
  <2>3. \A i \in DOMAIN delivered : \E f \in DOMAIN disk : start <= f /\ delivered[i] \in disk[f]
    BY <1>0, <1>1 DEF TableSearch
  <2>4. NewestFirst'  BY <2>1 DEF TableInv, NewestFirst
  <2>5. Len(delivered) <= request_count  BY <1>1
  <2>6. QED  BY <1>1, <2>1, <2>2, <2>3, <2>4, <2>5, Zenon
<1>3. CASE task = "found"
  <2> DEFINE rows == Rows(start)
             given == Len(delivered)
             n == Len(rows)
  <2>1. start \in DOMAIN disk  BY <1>3 DEF TableInv, RowsStay
  <2>2. /\ rows \in Seq(disk[start]) /\ n <= request_count - given
        /\ \A i, j \in 1 .. n : i < j => rows[i] > rows[j]
        /\ \A ts \in disk[start] :
             \/ \E i \in 1 .. n : rows[i] = ts
             \/ n = request_count - given /\ \A i \in 1 .. n : ts < rows[i]
    BY <1>1, <2>1, TableRows DEF TableInv
  <2> HIDE DEF rows
  <2>3. /\ n \in Nat /\ rows \in Seq(Nat) /\ \A i \in 1 .. n : rows[i] \in disk[start] /\ rows[i] \in Nat
    BY <1>1, <2>1, <2>2
  <2>4. /\ delivered' \in Seq(Nat) /\ Len(delivered') = given + n
        /\ \A i \in 1 .. given + n : delivered'[i] = IF i <= given THEN delivered[i] ELSE rows[i - given]
    BY <1>0, <1>1, <1>3, <2>3, ConcatProperties DEF rows
  <2> HIDE DEF n, given
  <2>5. /\ given \in Nat /\ n \in Nat /\ DOMAIN delivered' = 1 .. given + n
        /\ \A i \in 1 .. given : i \in 1 .. given + n /\ delivered'[i] = delivered[i]
                                 /\ delivered[i] \in Nat
        /\ \A i \in 1 .. n : given + i \in 1 .. given + n /\ delivered'[given + i] = rows[i]
        /\ \A i \in 1 .. given + n : i \in 1 .. given \/ (\E k \in 1 .. n : i = given + k)
    <3>1. given \in Nat /\ n \in Nat  BY <1>1, <2>3 DEF given
    <3>2. DOMAIN delivered' = 1 .. given + n  BY <2>4
    <3>3. \A i \in 1 .. given : delivered[i] \in Nat  BY <1>1 DEF given
    <3>4. \A i \in 1 .. given : i \in 1 .. given + n /\ i <= given  BY <3>1
    <3>5. \A i \in 1 .. n : given + i \in 1 .. given + n /\ ~(given + i <= given)
                            /\ given + i - given = i
      BY <3>1
    <3>6. ASSUME NEW i \in 1 .. given + n, i \notin 1 .. given
          PROVE  \E k \in 1 .. n : i = given + k
      <4>1. i - given \in 1 .. n /\ i = given + (i - given)  BY <3>1, <3>6
      <4>2. QED  BY <4>1
    <3>7. QED  BY <2>4, <3>1, <3>2, <3>3, <3>4, <3>5, <3>6
  \* A row given before is one of a file after start, hence newer.
  <2>6. ASSUME NEW i \in 1 .. given
        PROVE  /\ \E f \in DOMAIN disk : start < f /\ delivered[i] \in disk[f]
               /\ \A ts \in disk[start] : ts < delivered[i]
    <3>1. PICK f \in DOMAIN disk : start < f /\ delivered[i] \in disk[f]
      BY <1>0, <1>1, <2>6 DEF TableSearch, given
    <3>2. QED  BY <2>1, <3>1 DEF TableInv, FilesInv, FilesAreInOrder
  <2>7. ASSUME NEW i \in 1 .. given + n, NEW j \in 1 .. given + n, i < j
        PROVE  delivered'[i] > delivered'[j]
    <3>1. CASE i \in 1 .. given /\ j \in 1 .. given
      BY <1>1, <2>5, <2>7, <3>1 DEF TableInv, NewestFirst, given
    <3>2. CASE i \in 1 .. given /\ \E k \in 1 .. n : j = given + k
      <4>1. PICK k \in 1 .. n : j = given + k  BY <3>2
      <4>2. rows[k] < delivered[i]  BY <2>3, <2>6, <3>2
      <4>3. delivered[i] \in Nat /\ rows[k] \in Nat  BY <2>3, <2>5, <3>2
      <4>4. QED  BY <2>5, <3>2, <4>1, <4>2, <4>3
    <3>3. CASE (\E k \in 1 .. n : i = given + k) /\ (\E k \in 1 .. n : j = given + k)
      <4>1. PICK k \in 1 .. n : i = given + k  BY <3>3
      <4>2. PICK l \in 1 .. n : j = given + l  BY <3>3
      <4>3. k < l  BY <2>5, <2>7, <4>1, <4>2
      <4>4. QED  BY <2>2, <2>5, <4>1, <4>2, <4>3
    <3>4. CASE (\E k \in 1 .. n : i = given + k) /\ j \in 1 .. given
      BY <2>5, <2>7, <3>4
    <3>5. QED  BY <2>5, <3>1, <3>2, <3>3, <3>4
  <2>8. ASSUME NEW i \in 1 .. given + n
        PROVE  \E f \in DOMAIN disk : start <= f /\ delivered'[i] \in disk[f]
    <3>1. CASE i \in 1 .. given
      <4>1. PICK f \in DOMAIN disk : start < f /\ delivered[i] \in disk[f]  BY <2>6, <3>1
      <4>2. QED  BY <1>1, <2>5, <3>1, <4>1
    <3>2. CASE \E k \in 1 .. n : i = given + k
      <4>1. PICK k \in 1 .. n : i = given + k  BY <3>2
      <4>2. delivered'[i] \in disk[start] /\ start <= start  BY <1>1, <2>3, <2>5, <4>1
      <4>3. QED  BY <2>1, <4>2
    <3>3. QED  BY <2>5, <3>1, <3>2
  <2>9. ASSUME NEW ts \in recorded
        PROVE  \/ \E i \in 1 .. given + n : delivered'[i] = ts
               \/ \E f \in DOMAIN disk : f < start /\ ts \in disk[f]
               \/ given + n = request_count /\ \A i \in 1 .. given + n : ts < delivered'[i]
    <3>1. CASE \E i \in DOMAIN delivered : delivered[i] = ts
      <4>1. PICK i \in 1 .. given : delivered[i] = ts  BY <1>1, <3>1 DEF given
      <4>2. QED  BY <2>5, <4>1
    <3>2. CASE \E f \in DOMAIN disk : f < start /\ ts \in disk[f]  BY <3>2
    <3>3. CASE ts \in disk[start]
      <4>1. CASE \E i \in 1 .. n : rows[i] = ts
        <5>1. PICK i \in 1 .. n : rows[i] = ts  BY <4>1
        <5>2. QED  BY <2>5, <5>1
      <4>2. CASE n = request_count - given /\ \A i \in 1 .. n : ts < rows[i]
        <5>1. given + n = request_count  BY <1>1, <2>5, <4>2
        <5>2. ASSUME NEW i \in 1 .. given + n PROVE ts < delivered'[i]
          <6>1. CASE i \in 1 .. given  BY <2>5, <2>6, <3>3, <6>1
          <6>2. CASE \E k \in 1 .. n : i = given + k
            <7>1. PICK k \in 1 .. n : i = given + k  BY <6>2
            <7>2. QED  BY <2>5, <4>2, <7>1
          <6>3. QED  BY <2>5, <6>1, <6>2
        <5>3. QED  BY <5>1, <5>2
      <4>3. QED  BY <2>2, <3>3, <4>1, <4>2 DEF n
    <3>4. CASE \E f \in DOMAIN disk : f <= start /\ ts \in disk[f]
      <4>1. PICK f \in DOMAIN disk : f <= start /\ ts \in disk[f]  BY <3>4
      <4>2. f < start \/ f = start  BY <1>1, <4>1
      <4>3. QED  BY <3>2, <3>3, <4>1, <4>2
    <3>5. QED  BY <1>0, <3>1, <3>4 DEF TableSearch
  <2>10. given + n <= request_count  BY <1>1, <2>2, <2>5 DEF n, given
  <2>11. QED  BY <2>4, <2>5, <2>7, <2>8, <2>9, <2>10 DEF NewestFirst
<1>4. QED  BY <1>0, <1>2, <1>3

\* Whatever happens to the files while the file system or the UI thread is busy,
\* the search has lost no row.
LEMMA TableSearchStays ==
  ASSUME FilesInv, FilesNext, TableSearch,
         UNCHANGED <<recorded, start, completed, delivered, request_count>>
  PROVE  TableSearch'
<1>1. \A f \in DOMAIN disk : f \in DOMAIN disk' /\ disk[f] \subseteq disk'[f]  BY FilesGrow
<1>2. ASSUME NEW i \in DOMAIN delivered
      PROVE  \E f \in DOMAIN disk' : start < f /\ delivered[i] \in disk'[f]
  BY <1>1 DEF TableSearch
<1>3. ASSUME NEW ts \in recorded, ~\E i \in DOMAIN delivered : delivered[i] = ts
      PROVE  \E f \in DOMAIN disk' : f <= start /\ ts \in disk'[f]
  <2>1. PICK f \in DOMAIN disk : f <= start /\ ts \in disk[f]  BY <1>3 DEF TableSearch
  <2>2. QED  BY <1>1, <2>1
<1>4. QED  BY <1>2, <1>3 DEF TableSearch, Boundary

LEMMA TableInvInit == Init => TableInv
<1> SUFFICES ASSUME Init PROVE TableInv  OBVIOUS
<1>1. FilesInv  BY FilesInvInit DEF Init
<1>2. task = "none" /\ delivered = <<>> /\ request_count = 0 /\ recorded = {}
  BY DEF Init, TaskInit
<1>3. QED  BY <1>1, <1>2 DEF TableInv, RowsStay, NewestFirst, loading

LEMMA TableInvStep ==
  ASSUME TableInv, [Next]_vars
  PROVE  TableInv'
<1>1. FilesNext /\ FilesInv'  BY LoaderFiles, FilesInvStep DEF TableInv
\* The steps that leave the search alone.
<1>2. ASSUME UNCHANGED <<recorded, start, completed, delivered, request_count>>,
             task' = task \/ task' = "gone"
      PROVE  TableInv'
  <2>1. loading => TableSearch'  BY <1>1, <1>2, TableSearchStays DEF TableInv
  <2>2. RowsStay'
    <3>1. CASE task' = "gone"  BY <1>1, <1>2, <3>1, SavedGrows DEF TableInv, RowsStay
    <3>2. CASE task' = task  BY <1>1, <1>2, <3>2, SavedStays DEF TableInv
    <3>3. QED  BY <1>2, <3>1, <3>2
  <2>3. QED  BY <1>1, <1>2, <2>1, <2>2 DEF TableInv, NewestFirst, loading
<1>3. CASE FilesStep  BY <1>2, <1>3 DEF FilesStep, taskVars, searchVars
<1>4. CASE TableRestart
  <2>1. task' = "none" /\ delivered' = <<>> /\ request_count' = 0 /\ recorded' = {}
    BY <1>4 DEF TableRestart, Restart
  <2>2. QED  BY <1>1, <2>1 DEF TableInv, RowsStay, NewestFirst, loading
<1>5. ASSUME NEW count \in Requests, load(count) PROVE TableInv'
  <2>1. /\ clock' = clock /\ current' = current /\ disk' = disk
        /\ recorded' = Saved /\ delivered' = <<>> /\ start' = resolve_timepoint(clock)
        /\ count \in Nat
    BY <1>5, SearchAssumption DEF load, do_loading_async, AskFor, fileVars
  <2>2. \/ task' = "none" /\ request_count' = 0
        \/ /\ task' \in {"gone", "asking"} /\ completed' = FALSE
           /\ request_count' = count /\ 0 < count
    BY <1>5, <2>1, SMT DEF load, do_loading_async, AskFor, Over
  <2>3. RowsStay'  BY <2>1, <2>2 DEF RowsStay, Saved
  <2>4. CASE task' = "none" /\ request_count' = 0
    BY <1>1, <2>1, <2>3, <2>4 DEF TableInv, NewestFirst, loading
  <2>5. CASE task' \in {"gone", "asking"} /\ completed' = FALSE /\ request_count' = count /\ 0 < count
    <3>1. /\ clock \in Nat /\ current \in Nat /\ start' \in Nat /\ current <= start'
          /\ Boundary(start')
      BY <2>1, CurrentPeriod DEF TableInv
    <3>2. \A f \in DOMAIN disk' : f <= start'
      BY <2>1, <3>1, SMT DEF TableInv, FilesInv, RowsAreInTime
    <3>3. \A ts \in recorded' : \E f \in DOMAIN disk' : f <= start' /\ ts \in disk'[f]
      BY <2>1, <3>2 DEF Saved
    <3>4. Len(delivered') < request_count' /\ DOMAIN delivered' = {}  BY <2>1, <2>5
    <3>5. TableSearch'  BY <2>5, <3>1, <3>3, <3>4 DEF TableSearch, Boundary
    <3>6. QED  BY <1>1, <2>1, <2>3, <2>5, <3>5 DEF TableInv, NewestFirst, loading
  <2>6. QED  BY <2>2, <2>4, <2>5
<1>6. CASE TableAnswer
  <2>1. /\ task = "asking" /\ task' = IF start \in DOMAIN disk THEN "found" ELSE "missing"
        /\ UNCHANGED <<fileVars, recorded, start, completed, delivered, request_count>>
    BY <1>6 DEF TableAnswer, TryGetItem, fileVars, searchVars
  <2>2. loading /\ TableSearch  BY <2>1 DEF TableInv
  <2>3. TableSearch'  BY <1>1, <2>1, <2>2, TableSearchStays DEF TableInv
  <2>4. RowsStay'
    <3>1. recorded \subseteq Saved  BY DEF TableInv, RowsStay
    <3>2. ASSUME start \notin DOMAIN disk, NEW ts \in recorded
          PROVE  \E f \in DOMAIN disk : f # start /\ ts \in disk[f]
      BY <3>1, <3>2 DEF Saved
    <3>3. QED  BY <2>1, <3>1, <3>2 DEF RowsStay, fileVars, Saved
  <2>5. QED  BY <1>1, <2>1, <2>2, <2>3, <2>4 DEF TableInv, NewestFirst, loading
<1>7. CASE TableCancel  BY <1>2, <1>7 DEF TableCancel, cancel, searchVars
<1>8. CASE Continue
  <2>1. /\ delivered' \in Seq(Nat) /\ Len(delivered') <= request_count
        /\ NewestFirst'
        /\ \A i \in DOMAIN delivered' : \E f \in DOMAIN disk : start <= f /\ delivered'[i] \in disk[f]
        /\ \A ts \in recorded :
             \/ \E i \in DOMAIN delivered' : delivered'[i] = ts
             \/ \E f \in DOMAIN disk : f < start /\ ts \in disk[f]
             \/ /\ Len(delivered') = request_count
                /\ \A i \in DOMAIN delivered' : ts < delivered'[i]
    BY <1>8, TableDelivers
  <2>2. /\ clock' = clock /\ current' = current /\ disk' = disk /\ recorded' = recorded
        /\ task \in {"found", "missing"} /\ start' = start - Span
        /\ \/ task' = "none" /\ request_count' = 0
           \/ /\ task' \in {"gone", "asking"} /\ completed' = FALSE
              /\ request_count' = request_count /\ ~(Len(delivered') >= request_count)
    BY <1>8 DEF Continue, do_loading_async, AskFor, fileVars, Over
  <2>3. RowsStay'  BY <2>2 DEF RowsStay, Saved, TableInv
  <2>4. CASE task' = "none" /\ request_count' = 0
    BY <1>1, <2>1, <2>3, <2>4 DEF TableInv, loading
  <2>5. CASE /\ task' \in {"gone", "asking"} /\ completed' = FALSE
             /\ request_count' = request_count /\ ~(Len(delivered') >= request_count)
    <3>1. TableSearch /\ loading /\ request_count \in Nat  BY <2>2 DEF TableInv
    <3>2. /\ start \in Int /\ Boundary(start) /\ Boundary(start') /\ start' \in Int
          /\ start' < start /\ start = start' + Span
      <4>1. start \in Int /\ Boundary(start) /\ Boundary(start - Span)
        BY <3>1, BoundaryNext DEF TableSearch
      <4>2. start - Span < start /\ start = (start - Span) + Span /\ start - Span \in Int
        BY <4>1, FilesAssumption, SMT
      <4>3. QED  BY <2>2, <4>1, <4>2
    <3>3. Len(delivered') \in Nat /\ Len(delivered') < request_count  BY <2>1, <2>5, <3>1
    <3>4. ASSUME NEW f \in DOMAIN disk
          PROVE  /\ start' < f <=> start <= f
                 /\ f < start => f <= start'
      <4>1. f \in Nat /\ Boundary(f)  BY DEF TableInv, FilesInv, RowsAreInTime
      <4>2. start' < f => start <= f  BY <3>2, <4>1, BoundaryGap
      <4>3. start <= f => start' < f  BY <3>2, <4>1
      <4>4. QED  BY <3>2, <4>1, <4>2, <4>3
    <3>5. \A i \in DOMAIN delivered' : \E f \in DOMAIN disk' : start' < f /\ delivered'[i] \in disk'[f]
      BY <2>1, <2>2, <3>4
    <3>6. \A ts \in recorded' :
            \/ \E i \in DOMAIN delivered' : delivered'[i] = ts
            \/ \E f \in DOMAIN disk' : f <= start' /\ ts \in disk'[f]
      BY <2>1, <2>2, <3>1, <3>3, <3>4
    <3>7. completed' = FALSE  BY <2>5
    <3>8. Len(delivered') < request_count'  BY <2>5, <3>3
    <3>9. TableSearch'  BY <3>2, <3>5, <3>6, <3>7, <3>8 DEF TableSearch, Boundary
    <3>10. request_count' \in Nat /\ loading'  BY <2>5, <3>1 DEF loading
    <3>11. QED  BY <1>1, <2>1, <2>3, <3>9, <3>10 DEF TableInv
  <2>6. QED  BY <2>2, <2>4, <2>5
<1>9. CASE UNCHANGED vars  BY <1>2, <1>9 DEF vars, taskVars, searchVars
<1>10. QED  BY <1>3, <1>4, <1>5, <1>6, <1>7, <1>8, <1>9 DEF Next

\* Each row comes once and the newest first, over all the files, for every
\* period, delay of the rotation, request and limit of the search
\* (alarm_tbl.cpp:218-262).
THEOREM AlwaysNewestFirst == Spec => []NewestFirst
<1>1. Init => TableInv  BY TableInvInit
<1>2. TableInv /\ [Next]_vars => TableInv'  BY TableInvStep
<1>3. TableInv => NewestFirst  BY DEF TableInv
<1>4. QED  BY <1>1, <1>2, <1>3, PTL DEF Spec

\* A completed load leaves out no row between those it gave the table, and if it
\* gave the table less than requested, only rows that are in older files.
LEMMA TableSkipsNothing ==
  ASSUME TableInv, loading, completed', [Next]_vars, NEW ts \in Missed
  PROVE  /\ \A i \in DOMAIN delivered' : ts < delivered'[i]
         /\ Len(delivered') < request_count => ts <= start + MaxLag
<1>1. completed = FALSE /\ TableSearch  BY DEF TableInv, TableSearch
<1>2. Continue
  <2>1. completed' # completed  BY <1>1
  <2>2. ~FilesStep /\ ~TableAnswer /\ ~TableCancel /\ ~UNCHANGED vars
    BY <2>1 DEF FilesStep, TableAnswer, TryGetItem, TableCancel, cancel, vars, taskVars
  <2>3. ~TableRestart  BY DEF TableRestart, Restart
  <2>4. \A count \in Requests : ~load(count)  BY DEF load
  <2>5. QED  BY <2>2, <2>3, <2>4 DEF Next
<1>3. ts \in recorded /\ \A i \in DOMAIN delivered' : delivered'[i] # ts  BY DEF Missed, Range
<1>4. /\ delivered' \in Seq(Nat)
      /\ \A i \in DOMAIN delivered' : \E g \in DOMAIN disk : start <= g /\ delivered'[i] \in disk[g]
      /\ \/ \E f \in DOMAIN disk : f < start /\ ts \in disk[f]
         \/ /\ Len(delivered') = request_count
            /\ \A i \in DOMAIN delivered' : ts < delivered'[i]
  BY <1>2, <1>3, TableDelivers
<1>5. start \in Int /\ Boundary(start) /\ request_count \in Nat /\ Len(delivered') \in Nat
  BY <1>1, <1>4, BoundaryNext DEF TableInv, TableSearch
<1>6. CASE Len(delivered') = request_count /\ \A i \in DOMAIN delivered' : ts < delivered'[i]
  <2>1. ~(Len(delivered') < request_count)  BY <1>5, <1>6
  <2>2. QED  BY <1>6, <2>1
<1>7. CASE \E f \in DOMAIN disk : f < start /\ ts \in disk[f]
  <2>1. PICK f \in DOMAIN disk : f < start /\ ts \in disk[f]  BY <1>7
  <2>2. f \in Nat /\ Boundary(f) /\ ts \in Nat /\ ts <= f + Span + MaxLag
    BY <2>1 DEF TableInv, FilesInv, RowsAreInTime
  <2>3. ASSUME NEW i \in DOMAIN delivered' PROVE ts < delivered'[i]
    <3>1. PICK g \in DOMAIN disk : start <= g /\ delivered'[i] \in disk[g]  BY <1>4
    <3>2. g \in Nat  BY DEF TableInv, FilesInv, RowsAreInTime
    <3>3. f < g  BY <1>5, <2>1, <2>2, <3>1, <3>2
    <3>4. QED  BY <2>1, <3>1, <3>3 DEF TableInv, FilesInv, FilesAreInOrder
  <2>4. f + Span <= start  BY <1>5, <2>1, <2>2, BoundaryGap
  <2>5. ts <= start + MaxLag  BY <1>5, <2>2, <2>4, ConstantTypes
  <2>6. QED  BY <2>3, <2>5
<1>8. QED  BY <1>4, <1>6, <1>7

\* The table never shows a gap: what a completed load has left out is older than
\* all it shows.  If the table is not full, it is older than the periods searched
\* or of the first MaxLag of the oldest one (alarm_tbl.cpp:218-262).
THEOREM NothingIsSkipped == Spec => NothingSkipped
<1>1. Init => TableInv  BY TableInvInit
<1>2. TableInv /\ [Next]_vars => TableInv'  BY TableInvStep
<1>3. TableInv /\ [Next]_vars =>
        [loading /\ completed' =>
           \A ts \in Missed :
             /\ \A i \in DOMAIN delivered' : ts < delivered'[i]
             /\ Len(delivered') < request_count => ts <= start + MaxLag]_vars
  BY TableSkipsNothing
<1>4. QED  BY <1>1, <1>2, <1>3, PTL DEF Spec, NothingSkipped

=============================================================================
