---------------------------- MODULE HistoryFiles ----------------------------
(***************************************************************************)
(* What the loaders of the histories have in common: EarthWorkDataSource   *)
(* (earthwork_ts.cpp), TrackDataSource (track_ds.cpp) and AlarmDataSource  *)
(* (alarm_tbl.cpp).  The PLC thread saves rows into the current file while *)
(* a load asks for the files one after another, asynchronously.            *)
(*                                                                         *)
(* A row is identified with its timepoint, which is taken when the data    *)
(* arrive and not when the row is saved.  The rotation of the files is     *)
(* abstracted to what RotativeDirectory shows of it: a file is employed    *)
(* for MaxLag after the end of its period, a few seconds as a rule and a   *)
(* whole period more when its creation was asked for just before the end   *)
(* of its period and was over after it.                                    *)
(***************************************************************************)
EXTENDS Integers, Sequences, FiniteSets, SequencesExt

CONSTANTS
  Span,       \* span_seconds()
  MaxLag,     \* how long after the end of its period a file is employed
  MaxDelay,   \* how long after its timepoint a row is saved
  Horizon     \* bound on the clock

ASSUME FilesAssumption ==
  Span \in Nat \ {0} /\ MaxLag \in Nat /\ MaxDelay \in Nat /\ Horizon \in Nat

VARIABLES
  clock,        \* seconds
  current,      \* the file the employee is open on
  disk,         \* the files in the folder and their rows
  timepoint,    \* that of the data the PLC thread is handling, 0 without any
  recorded,     \* the rows in the files when the load was asked for
  start,        \* the period the task of do_loading_async is about
  task,         \* how far this task is
  cancelled,    \* has the token source been cancelled
  delivered,    \* what the receiver was given since load, in order
  completed     \* was on_maniplation_complete called since then

fileVars == <<clock, current, disk, timepoint>>
taskVars == <<recorded, start, task, cancelled, delivered, completed>>

\* "none" before the first load and after the last file; "asking" until
\* TryGetItemAsync is over; "missing" or "found" until its continuation runs;
\* "gone" if it was cancelled.
Tasks == {"none", "asking", "missing", "found", "gone"}

resolve_timepoint(t) == t - (t % Span)

\* order_by: the i-th row is the one that i - 1 others come before.
Ascending(rows) ==
  [i \in 1 .. Cardinality(rows) |->
    CHOOSE ts \in rows : Cardinality({us \in rows : us < ts}) = i - 1]
Descending(rows) == Reverse(Ascending(rows))

Saved == UNION {disk[f] : f \in DOMAIN disk}

FilesInit ==
  /\ clock \in Span .. 2 * Span - 1
  /\ current = resolve_timepoint(clock)
  /\ disk = [f \in {current} |-> {}]
  /\ timepoint = 0

TaskInit ==
  /\ recorded = {} /\ start = 0
  /\ task = "none"
  /\ cancelled = FALSE
  /\ delivered = <<>>
  /\ completed = FALSE

(***************************************************************************)
(* The files.                                                              *)
(***************************************************************************)

\* The PLC's data arrive.  Rows have different timepoints: those of the signals.
Signals ==
  /\ timepoint = 0 /\ clock \notin Saved
  /\ timepoint' = clock
  /\ UNCHANGED <<clock, current, disk>>

\* save: the row gets into the file of the employee.
save ==
  /\ timepoint # 0
  /\ disk' = [disk EXCEPT ![current] = @ \cup {timepoint}]
  /\ timepoint' = 0
  /\ UNCHANGED <<clock, current>>

\* The file whose creation was asked for at t is created, or opened again.
CurrentFile(t) ==
  /\ current' = resolve_timepoint(t)
  /\ clock' <= current' + Span + MaxLag
  /\ disk' = [f \in DOMAIN disk \cup {current'} |-> IF f \in DOMAIN disk THEN disk[f] ELSE {}]

Rotate ==
  /\ UNCHANGED <<clock, timepoint>>
  /\ \E t \in current + Span .. clock : CurrentFile(t)

ClockTick ==
  /\ clock < Horizon
  /\ clock < current + Span + MaxLag
  /\ timepoint # 0 => clock < timepoint + MaxDelay
  /\ clock' = clock + 1
  /\ UNCHANGED <<current, disk, timepoint>>

\* The program ends and is started again, at once or periods later, and has a
\* file at the time now: the files of the periods in between are missing for good.
Restart(now) ==
  /\ clock' = now
  /\ \E t \in clock .. now : CurrentFile(t)
  /\ timepoint' = 0
  /\ recorded' = {} /\ start' = 0 /\ task' = "none" /\ cancelled' = FALSE
  /\ delivered' = <<>> /\ completed' = FALSE

(***************************************************************************)
(* The tasks.                                                              *)
(***************************************************************************)

\* A task created with a cancelled token is cancelled before it has begun.
AskFor(s) ==
  /\ task' = IF cancelled THEN "gone" ELSE "asking"
  /\ start' = s
  /\ completed' = FALSE

\* The file system's answer.
TryGetItem ==
  /\ task = "asking"
  /\ task' = IF start \in DOMAIN disk THEN "found" ELSE "missing"
  /\ UNCHANGED <<fileVars, recorded, start, cancelled, delivered, completed>>

\* Only a task that is not over yet takes notice of its token.
cancel ==
  /\ cancelled' = TRUE
  /\ task' = IF task = "asking" THEN "gone" ELSE task
  /\ UNCHANGED <<fileVars, recorded, start, delivered, completed>>

-----------------------------------------------------------------------------
FilesTypeOK ==
  /\ clock \in Nat /\ current \in DOMAIN disk
  /\ timepoint \in 0 .. clock /\ recorded \subseteq 1 .. clock
  /\ \A f \in DOMAIN disk : f % Span = 0 /\ disk[f] \subseteq 1 .. clock
  /\ start \in Int
  /\ task \in Tasks
  /\ cancelled \in BOOLEAN /\ completed \in BOOLEAN
  /\ \A i \in DOMAIN delivered : delivered[i] \in 1 .. clock

=============================================================================
