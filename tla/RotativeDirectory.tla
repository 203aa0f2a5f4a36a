------------------------- MODULE RotativeDirectory -------------------------
(***************************************************************************)
(* IRotativeDirectory (Base/dirotation.cpp): a folder in which one file    *)
(* per rotation period is created by asynchronous file operations, driven  *)
(* by a DispatcherTimer.  Everything except the file operations themselves *)
(* runs on the UI thread, one continuation or tick at a time; the thread   *)
(* is blocked while the timer handler sleeps.                              *)
(*                                                                         *)
(* A file is identified with the timepoint its name is made of: the        *)
(* prefix, the period and the suffix are the same for all of them.         *)
(***************************************************************************)
EXTENDS Integers, FiniteSets

CONSTANTS
  Span,         \* seconds of one period (day_span_s * count, ...)
  Early,        \* how much too early a DispatcherTimer may fire
  Latency,      \* the dispatcher runs a continuation or a due tick within it
  Horizon,      \* bound on the clock
  MaxCrashes,   \* bound on the number of crashes
  NoFile        \* nullptr

ASSUME SpanAssumption == Span \in Nat \ {0} /\ Early \in Nat /\ Latency \in Nat
ASSUME TimingAssumption == 3 * Latency + Early < Span
ASSUME BoundAssumption == Horizon \in Nat /\ MaxCrashes \in Nat
ASSUME NoFileAssumption == NoFile \notin Nat

VARIABLES
  clock,         \* seconds of the wall clock
  phase,         \* how far the constructor and its continuations have come
  ui,            \* what the UI thread is in the middle of
  folder,        \* does the folder exist on disk
  current_file,  \* this->current_file
  creating,      \* the CreateFileAsync operations under way
  interval,      \* this->timer->Interval
  due,           \* when the timer fires next
  wake,          \* when the sleep in the timer handler ends
  crashes        \* number of crashes so far

timerVars == <<interval, due, wake>>
dirVars == <<clock, phase, ui, folder, current_file, creating, timerVars, crashes>>

Phases == {"down", "getting", "making", "starting", "running"}
UIs == {"loop", "folder_ready", "rotated", "sleep"}

\* A CreateFileAsync operation: the file it creates, when it was issued, and
\* whether the file system has done its part.
Requests == [stamp : Nat, issued : Nat, done : BOOLEAN]

\* A bug: the remainder is returned.
floor_seconds_remainder(t) == t % Span

(***************************************************************************)
(* floor_seconds, ceiling_seconds: a ceiling is strictly in the future.    *)
(***************************************************************************)
floor_seconds(t) == t - (t % Span)
ceiling_seconds(t) == t + (Span - (t % Span))

Later(a, b) == IF a < b THEN b ELSE a

Request(t) == [stamp |-> floor_seconds(t), issued |-> t, done |-> FALSE]

Init ==
  /\ clock \in Span .. (2 * Span - 1)
  /\ phase = "down"
  /\ ui = "loop"
  /\ folder = FALSE
  /\ current_file = NoFile
  /\ creating = {}
  /\ interval = 0
  /\ due = 0
  /\ wake = 0
  /\ crashes = 0

(***************************************************************************)
(* The constructor asks for the folder, and creates it when there is none. *)
(* on_folder_ready is overridden by subclasses: ui = "folder_ready" until  *)
(* it returns and mission_start is called.                                 *)
(***************************************************************************)
Construct ==
  /\ phase = "down"
  /\ phase' = "getting"
  /\ UNCHANGED <<clock, ui, folder, current_file, creating, timerVars, crashes>>

FolderGot ==
  /\ phase = "getting" /\ ui = "loop" /\ folder
  /\ ui' = "folder_ready"
  /\ UNCHANGED <<clock, phase, folder, current_file, creating, timerVars, crashes>>

FolderNotFound ==
  /\ phase = "getting" /\ ui = "loop" /\ ~folder
  /\ phase' = "making"
  /\ UNCHANGED <<clock, ui, folder, current_file, creating, timerVars, crashes>>

FolderCreated ==
  /\ phase = "making" /\ ui = "loop"
  /\ folder' = TRUE
  /\ ui' = "folder_ready"
  /\ UNCHANGED <<clock, phase, current_file, creating, timerVars, crashes>>

\* mission_start: create or reuse the file of the current period.
MissionStart ==
  /\ ui = "folder_ready"
  /\ phase' = "starting"
  /\ ui' = "loop"
  /\ creating' = {Request(clock)}
  /\ UNCHANGED <<clock, folder, current_file, timerVars, crashes>>

(***************************************************************************)
(* CreateFileAsync: the file system does its part (OpenIfExists for the    *)
(* first request of a run, ReplaceExisting for the others), and some time  *)
(* later the continuation is run by the UI thread.                         *)
(***************************************************************************)
FileCreated(r) ==
  /\ r \in creating /\ ~r.done
  /\ creating' = (creating \ {r}) \cup {[r EXCEPT !.done = TRUE]}
  /\ UNCHANGED <<clock, phase, ui, folder, current_file, timerVars, crashes>>

\* A bug: this->current_file is assigned by the first creation only.
FileArrived_forgets(r) ==
  /\ r \in creating /\ r.done /\ ui = "loop"
  /\ current_file' = IF current_file = NoFile THEN r.stamp ELSE current_file
  /\ creating' = creating \ {r}
  /\ ui' = "rotated"
  /\ UNCHANGED <<clock, phase, folder, timerVars, crashes>>

\* The continuation up to on_file_rotated, which subclasses implement:
\* ui = "rotated" until it returns.
FileArrived(r) ==
  /\ r \in creating /\ r.done /\ ui = "loop"
  /\ current_file' = r.stamp
  /\ creating' = creating \ {r}
  /\ ui' = "rotated"
  /\ UNCHANGED <<clock, phase, folder, timerVars, crashes>>

\* A bug: the timer keeps the interval it was started with.
TimerArmed_keeps_interval ==
  /\ ui = "rotated"
  /\ IF phase = "starting"
     THEN interval' = ceiling_seconds(clock) - clock /\ due' = ceiling_seconds(clock)
     ELSE UNCHANGED <<interval, due>>
  /\ phase' = "running"
  /\ ui' = "loop"
  /\ UNCHANGED <<clock, folder, current_file, creating, wake, crashes>>

\* The rest of the continuation: resolve_interval and (re)start the timer.
TimerArmed ==
  /\ ui = "rotated"
  /\ interval' = ceiling_seconds(clock) - clock
  /\ due' = ceiling_seconds(clock)
  /\ phase' = "running"
  /\ ui' = "loop"
  /\ UNCHANGED <<clock, folder, current_file, creating, wake, crashes>>

(***************************************************************************)
(* The handler of the timer.  The timer is periodic: it stays armed with   *)
(* its old interval until the continuation gives it a new one.             *)
(***************************************************************************)
SleepOrRotate ==
  /\ IF current_file = floor_seconds(clock)
     THEN /\ ui' = "sleep"
          /\ wake' = ceiling_seconds(clock)
          /\ UNCHANGED creating
     ELSE /\ ui' = "loop"
          /\ creating' = creating \cup {Request(clock)}
          /\ UNCHANGED wake
  /\ UNCHANGED <<clock, phase, folder, current_file, crashes>>

Tick ==
  /\ phase = "running" /\ ui = "loop"
  /\ clock + Early >= due
  /\ due' = Later(clock, due) + interval
  /\ UNCHANGED interval
  /\ SleepOrRotate

Wake ==
  /\ ui = "sleep" /\ clock >= wake
  /\ UNCHANGED <<interval, due>>
  /\ SleepOrRotate

(***************************************************************************)
(* The process dies: a failed creation is rethrown by on_exception out of  *)
(* a continuation nobody waits for; a power cut may happen at any time.    *)
(***************************************************************************)
Die ==
  /\ phase' = "down"
  /\ ui' = "loop"
  /\ current_file' = NoFile
  /\ creating' = {}
  /\ interval' = 0 /\ due' = 0 /\ wake' = 0
  /\ UNCHANGED <<clock, folder>>

Crash ==
  /\ phase # "down" /\ crashes < MaxCrashes
  /\ crashes' = crashes + 1
  /\ Die

CreationFailed(r) ==
  /\ r \in creating /\ ~r.done /\ ui = "loop" /\ crashes < MaxCrashes
  /\ crashes' = crashes + 1
  /\ Die

\* Time passes, but never beyond the latency of a file operation or of a due
\* tick or wake, nor while on_file_rotated runs (it opens a database: a part of a
\* second).
ClockTick ==
  /\ clock < Horizon
  /\ ui # "rotated"
  /\ \A r \in creating : clock < r.issued + Latency
  /\ phase = "running" /\ ui = "loop" => clock < due + Latency
  /\ ui = "sleep" => clock < wake + Latency
  /\ clock' = clock + 1
  /\ UNCHANGED <<phase, ui, folder, current_file, creating, timerVars, crashes>>

Next ==
  \/ Construct \/ FolderGot \/ FolderNotFound \/ FolderCreated \/ MissionStart
  \/ \E r \in creating : FileCreated(r) \/ FileArrived(r) \/ CreationFailed(r)
  \/ TimerArmed \/ Tick \/ Wake \/ Crash \/ ClockTick

Spec == Init /\ [][Next]_dirVars

-----------------------------------------------------------------------------
\* Types of the variables.
TypeOK ==
  /\ clock \in Nat /\ crashes \in Nat
  /\ phase \in Phases
  /\ ui \in UIs
  /\ folder \in BOOLEAN
  /\ current_file \in Nat \cup {NoFile}
  /\ creating \subseteq Requests
  /\ interval \in Nat /\ due \in Nat /\ wake \in Nat

\* The handler of the timer sleeps on the UI thread when it was called too
\* early (dirotation.cpp:131-135).  It never sleeps longer than the timer was
\* early: in particular it is never called in the middle of a period, when it
\* would freeze the window until the end of the day.
FreezeIsShort == ui = "sleep" => wake <= clock + Early

\* Rotations are applied in the order of the periods, although several
\* CreateFileAsync may be under way (the timer is periodic and the first one
\* need not be over when it fires again).
NeverBackwards ==
  [][current_file # NoFile /\ current_file' # NoFile => current_file' >= current_file]_dirVars

\* A period started during the creation of the first file is recorded in the
\* file of the period before (dirotation.cpp:104-112: the name is resolved
\* when the creation is asked for, the interval when it is over), but never
\* more than that one: the timer is armed for the end of the clock's period.
LagsOnePeriod ==
  (phase = "running" /\ clock < due /\ creating = {})
    => floor_seconds(clock) <= current_file + Span

\* Once the timer is due the directory leaves the file it is on (or dies):
\* sleeping, creating and arming always lead to another rotation.
DueTimerRotates ==
  \A s \in {floor_seconds(t) : t \in 0 .. Horizon} :
    (phase = "running" /\ ui = "loop" /\ current_file = s /\ clock >= due)
      ~> (current_file # s \/ phase # "running")

=============================================================================
