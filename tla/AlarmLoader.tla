---------------------------- MODULE AlarmLoader ----------------------------
(***************************************************************************)
(* The history of the alarms: AlarmDataSource::load (alarm_tbl.cpp) hands  *)
(* the newest request_count rows to the table, searching the files of the  *)
(* past periods for as long as it has not enough of them, but not for ever.*)
(***************************************************************************)
EXTENDS HistoryFiles

CONSTANTS
  Requests,                \* bound on the requests: the counts asked for
  search_file_count_max

ASSUME SearchAssumption == Requests \subseteq Nat \ {0} /\ search_file_count_max \in Nat

VARIABLES
  request_count,
  search_file_count        \* periods searched so far

searchVars == <<request_count, search_file_count>>
vars == <<fileVars, taskVars, searchVars>>

Init ==
  /\ FilesInit /\ TaskInit
  /\ request_count = 0 /\ search_file_count = 0

FilesStep ==
  /\ Signals \/ save \/ Rotate \/ ClockTick
  /\ UNCHANGED <<taskVars, searchVars>>

TableRestart ==
  /\ \E t \in clock + 1 .. Horizon : Restart(t)
  /\ request_count' = 0 /\ search_file_count' = 0

loading == request_count > 0

Over(count, searched, total) == total >= count \/ searched > search_file_count_max

do_loading_async(s, count, searched, total) ==
  /\ search_file_count' = searched
  /\ \/ /\ Over(count, searched, total)
        /\ task' = "none" /\ start' = s /\ completed' = TRUE
        /\ request_count' = 0
     \/ /\ ~Over(count, searched, total)
        /\ AskFor(s)
        /\ request_count' = count
  /\ UNCHANGED <<fileVars, cancelled>>

load(count) ==
  /\ ~loading
  /\ do_loading_async(resolve_timepoint(clock), count, 0, 0)
  /\ recorded' = Saved
  /\ delivered' = <<>>

TableCancel == loading /\ cancel /\ UNCHANGED searchVars

TableAnswer == TryGetItem /\ UNCHANGED searchVars

\* A bug: the newest rows of a file, but in the order of time.
Rows_ascending(file) ==
  LET oldest == Ascending(disk[file])
      limit == request_count - Len(delivered)
  IN  SubSeq(oldest, IF limit < Len(oldest) THEN Len(oldest) - limit + 1 ELSE 1, Len(oldest))

\* A bug: the rows are limited before they are in order.
Rows_oldest(file) ==
  LET oldest == Ascending(disk[file])
      limit == request_count - Len(delivered)
  IN  Reverse(SubSeq(oldest, 1, IF limit < Len(oldest) THEN limit ELSE Len(oldest)))

\* foreach_alarm: the newest rows of a file, no more than are still missing.
Rows(file) ==
  LET newest == Descending(disk[file])
      limit == request_count - Len(delivered)
  IN  SubSeq(newest, 1, IF limit < Len(newest) THEN limit ELSE Len(newest))

\* A bug: a missing file ends the search without a word.
Continue_found_only ==
  /\ task = "found"
  /\ delivered' = delivered \o Rows(start)
  /\ do_loading_async(start - Span, request_count, search_file_count + 1, Len(delivered'))
  /\ UNCHANGED recorded

\* The continuation of TryGetItemAsync, up to the next do_loading_async.
Continue ==
  /\ task \in {"found", "missing"}
  /\ delivered' = IF task = "found" THEN delivered \o Rows(start) ELSE delivered
  /\ do_loading_async(start - Span, request_count, search_file_count + 1, Len(delivered'))
  /\ UNCHANGED recorded

Next ==
  \/ FilesStep \/ TableRestart
  \/ \E count \in Requests : load(count)
  \/ TableAnswer \/ TableCancel \/ Continue

Spec == Init /\ [][Next]_vars

\* The file system answers and the UI thread runs the continuations.
FairSpec == Spec /\ WF_vars(TableAnswer) /\ WF_vars(Continue)

-----------------------------------------------------------------------------
\* Types of the variables.
TypeOK == FilesTypeOK /\ request_count \in Nat /\ search_file_count \in Nat

\* The rows come newest first and each one once, over all the files, although
\* alarms recorded just after the end of a period are in the file before theirs.
NewestFirst ==
  \A i, j \in DOMAIN delivered : i < j => delivered[i] > delivered[j]

\* A load that completes leaves out no row that is newer than one it has given
\* the table.  If it has given less than requested, it has left out no row of
\* the periods searched but for those of the first MaxLag of the oldest one,
\* which may be in the file before.
Missed == recorded \ Range(delivered')

NothingSkipped ==
  [][loading /\ completed' =>
       \A ts \in Missed :
         /\ \A i \in DOMAIN delivered' : ts < delivered'[i]
         /\ Len(delivered') < request_count => ts <= start + MaxLag]_vars

\* A load that is never cancelled comes to its end, even in an empty folder.
LoadingEnds == loading ~> (~loading \/ cancelled)

=============================================================================
