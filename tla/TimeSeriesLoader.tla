-------------------------- MODULE TimeSeriesLoader --------------------------
(***************************************************************************)
(* The history of a time series: EarthWorkDataSource (earthwork_ts.cpp),   *)
(* and TrackDataSource (track_ds.cpp), which has the same code.  The rows  *)
(* of an interval, which may be given backwards, are handed to a receiver. *)
(***************************************************************************)
EXTENDS HistoryFiles

CONSTANT Ends    \* bound on the intervals: where they may begin and end

ASSUME EndsAssumption == Ends \subseteq Nat \ {0}

VARIABLES open_timepoint, close_timepoint    \* the interval being loaded

interval_s == <<open_timepoint, close_timepoint>>
vars == <<fileVars, taskVars, interval_s>>

Init ==
  /\ FilesInit /\ TaskInit
  /\ open_timepoint = 0 /\ close_timepoint = 0

FilesStep ==
  /\ Signals \/ save \/ Rotate \/ ClockTick
  /\ UNCHANGED <<taskVars, interval_s>>

SeriesRestart ==
  /\ \E t \in clock + 1 .. Horizon : Restart(t)
  /\ open_timepoint' = 0 /\ close_timepoint' = 0

loading == open_timepoint > 0

\* do_loading_async decides on the sign of the interval.
asc(open, close) == open < close

\* A bug: the period of the end is left out.
Over_early(s, open, close) ==
  LET end == resolve_timepoint(close) IN IF asc(open, close) THEN s >= end ELSE s <= end

Over(s, open, close) ==
  LET end == resolve_timepoint(close) IN IF asc(open, close) THEN s > end ELSE s < end

do_loading_async(s, open, close) ==
  /\ close_timepoint' = close
  /\ \/ /\ Over(s, open, close)
        /\ task' = "none" /\ start' = s /\ completed' = TRUE
        /\ open_timepoint' = 0
     \/ /\ ~Over(s, open, close)
        /\ AskFor(s)
        /\ open_timepoint' = open
  /\ UNCHANGED <<fileVars, cancelled>>

load(open, close) ==
  /\ ~loading
  /\ do_loading_async(resolve_timepoint(open), open, close)
  /\ recorded' = Saved
  /\ delivered' = <<>>

SeriesCancel == loading /\ cancel /\ UNCHANGED interval_s

SeriesAnswer == TryGetItem /\ UNCHANGED interval_s

\* EarthWorkCursor: the interval in the order of time.
InInterval(ts) ==
  IF asc(open_timepoint, close_timepoint)
  THEN open_timepoint <= ts /\ ts <= close_timepoint
  ELSE close_timepoint <= ts /\ ts <= open_timepoint

\* A bug: the rows of a file always come in ascending order.
Rows_ascending(file) ==
  Ascending({ts \in disk[file] : InInterval(ts)})

\* foreach_earthwork: the rows of a file in the order of the interval; the
\* cursor leaves out those before it and stops at the first one beyond it.
\* The reader's lock keeps the PLC thread from committing meanwhile.
Rows(file) ==
  LET inside == {ts \in disk[file] : InInterval(ts)}
  IN  IF asc(open_timepoint, close_timepoint) THEN Ascending(inside) ELSE Descending(inside)

interval == IF asc(open_timepoint, close_timepoint) THEN Span ELSE -Span

\* A bug: a missing file ends the load.
Continue_found_only ==
  /\ task = "found"
  /\ delivered' = delivered \o Rows(start)
  /\ do_loading_async(start + interval, open_timepoint, close_timepoint)
  /\ UNCHANGED recorded

\* The continuation of TryGetItemAsync, up to the next do_loading_async.
Continue ==
  /\ task \in {"found", "missing"}
  /\ delivered' = IF task = "found" THEN delivered \o Rows(start) ELSE delivered
  /\ do_loading_async(start + interval, open_timepoint, close_timepoint)
  /\ UNCHANGED recorded

Next ==
  \/ FilesStep \/ SeriesRestart
  \/ \E open, close \in Ends : load(open, close)
  \/ SeriesAnswer \/ SeriesCancel \/ Continue

Spec == Init /\ [][Next]_vars

\* The file system answers and the UI thread runs the continuations.
FairSpec == Spec /\ WF_vars(SeriesAnswer) /\ WF_vars(Continue)

-----------------------------------------------------------------------------
\* Types of the variables.
TypeOK == FilesTypeOK /\ open_timepoint \in Nat /\ close_timepoint \in Nat

\* The receiver is given the rows in the order of the interval and each one
\* once, over all the files, although rows saved just after the end of a
\* period are in the file before theirs.
InOrder ==
  [][loading =>
       \A i, j \in DOMAIN delivered' :
         i < j => IF asc(open_timepoint, close_timepoint)
                  THEN delivered'[i] < delivered'[j] ELSE delivered'[i] > delivered'[j]]_vars

\* A load that completes has given the receiver every row of the interval that
\* was in the files when it was asked for, but two kinds, which are not in the
\* files of the periods of the interval: rows of the first MaxLag of its first
\* period, saved in the file before, and rows of the last MaxDelay of its last
\* period, saved when the file after was employed.
Earliest == IF asc(open_timepoint, close_timepoint) THEN open_timepoint ELSE close_timepoint
Latest == IF asc(open_timepoint, close_timepoint) THEN close_timepoint ELSE open_timepoint

Missed == {ts \in recorded : InInterval(ts)} \ Range(delivered')

Complete ==
  [][loading /\ completed' =>
       \A ts \in Missed :
         \/ ts <= resolve_timepoint(Earliest) + MaxLag
         \/ resolve_timepoint(Latest) + Span <= ts + MaxDelay]_vars

\* A load that is never cancelled comes to its end.
LoadingEnds == loading ~> (~loading \/ cancelled)

=============================================================================
