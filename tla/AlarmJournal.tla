---------------------------- MODULE AlarmJournal ----------------------------
(***************************************************************************)
(* The recording of the alarms: AlarmMS (SCADA/widget/alarms.cpp) decides  *)
(* on the thread of the PLC what has begun or ceased to alert, and its     *)
(* AlarmDataSource (SCADA/schema/datalet/alarm_tbl.cpp), a RotativeSQLite3,*)
(* records it: the alerting alarms in alerts.db, every event in the file   *)
(* of the period.  The UI thread restores the alerting alarms from         *)
(* alerts.db when the folder is ready.                                     *)
(***************************************************************************)
EXTENDS RotativeSQLite3

CONSTANTS
  Index,        \* the alarms (Alarms::ToIndex)
  NoRow,        \* alerts.end()
  Delivering,   \* phases of the data source in which the PLC delivers data
  MaxFlips,     \* bound on the changes of the digital inputs
  MaxUuids      \* bound on the uuids, for those given while foreach_alarm runs

ASSUME JournalAssumption == Delivering \subseteq Phases /\ MaxFlips \in Nat /\ MaxUuids \in Nat

VARIABLES
  bits,        \* the digital inputs that are set, as the PLC sees them
  flips,       \* how often one changed
  alerts,      \* AlarmMS::alerts
  alerts_dbc,  \* has alerts.db been opened in this run
  ahead,       \* rows foreach_alarm has still to come to
  plc,         \* what the PLC thread is in the middle of
  uuids,       \* how many uuids pk64_timestamp has given
  alerts_db,   \* disk: the rows of alerts.db
  history,     \* disk: the rows of the files of the periods
  overlap,     \* have data been looked at while foreach_alarm was running
  unrecorded   \* rows that were inserted into the in-memory database

memoryVars == <<alerts, alerts_dbc, ahead, plc>>
diskVars == <<alerts_db, history>>
envVars == <<bits, flips>>
ghostVars == <<overlap, unrecorded>>
alarmVars == <<envVars, memoryVars, uuids, diskVars, ghostVars>>
vars == <<sqliteVars, alarmVars>>

(***************************************************************************)
(* A row of the table alarm; its type is not used here.  fixedtime = 0     *)
(* while the alarm is alerting; a response has fixedtime = alarmtime.      *)
(* uuids are only compared for equality: pk64_timestamp keeps 16 bits of   *)
(* the seconds, so that they do not grow with time.  That two made in the  *)
(* same microsecond of different 65536 seconds, with the same value of the *)
(* counter, would be equal is left out.                                    *)
(***************************************************************************)
Rows == [uuid : Nat, index : Index, alarmtime : Nat, fixedtime : Nat]

ASSUME NoRowAssumption == NoRow \notin Rows

Entry(file, row) == [file |-> file, row |-> row]

Idle == [pc |-> "idle"]

JournalInit ==
  /\ SQLiteInit
  /\ bits = {} /\ flips = 0
  /\ alerts = [i \in Index |-> NoRow]
  /\ alerts_dbc = FALSE
  /\ ahead = {}
  /\ plc = Idle
  /\ uuids = 0
  /\ alerts_db = {}
  /\ history = {}
  /\ overlap = FALSE
  /\ unrecorded = {}

(***************************************************************************)
(* The UI thread.  on_folder_ready opens alerts.db and steps through it in *)
(* the order of the keys, which is any order.  It does not enter the       *)
(* critical section of the PLC thread: data that are delivered meanwhile   *)
(* change the table it steps through and the std::map it inserts into.     *)
(***************************************************************************)
JournalConstruct == SQLiteConstruct /\ UNCHANGED alarmVars

\* A bug: the alerting alarms are not restored.
OnFolderReady_skips ==
  /\ FolderGot \/ FolderCreated
  /\ alerts_dbc' = TRUE
  /\ UNCHANGED <<connVars, useVars, envVars, alerts, ahead, plc, uuids, diskVars, ghostVars>>

OnFolderReady ==
  /\ FolderGot \/ FolderCreated
  /\ alerts_dbc' = TRUE
  /\ ahead' = alerts_db
  /\ UNCHANGED <<connVars, useVars, envVars, alerts, plc, uuids, diskVars, ghostVars>>

Restoring == ui = "folder_ready"

\* std::map::insert: it does nothing when the key is there.
Inserted(row) == IF alerts[row.index] = NoRow THEN [alerts EXCEPT ![row.index] = row] ELSE alerts

\* What two threads leave of a change that one of them makes: nothing is sure
\* of a std::map both are changing; here the change takes effect or is lost.
Raced(changed, racing) == IF racing THEN {changed, alerts} ELSE {changed}

\* AlarmMS::step.
step(row) ==
  /\ Restoring /\ row \in ahead
  /\ ahead' = ahead \ {row}
  /\ alerts' \in Raced(Inserted(row), plc.pc \in {"remember", "forget"})
  /\ UNCHANGED <<sqliteVars, envVars, alerts_dbc, plc, uuids, diskVars, ghostVars>>

\* A bug: mission_start does not wait for foreach_alarm.
JournalStart_early ==
  /\ MissionStart
  /\ UNCHANGED <<connVars, useVars, alarmVars>>

JournalStart ==
  /\ MissionStart
  /\ ahead = {}
  /\ UNCHANGED <<connVars, useVars, alarmVars>>

JournalDirectoryStep ==
  /\ FolderNotFound \/ Tick \/ Wake \/ ClockTick
  /\ UNCHANGED <<connVars, useVars, alarmVars>>

\* A bug: the first file is created like the others.
JournalFileCreated_replaces(r) ==
  /\ FileCreatedOnDisk(r)
  /\ history' = {e \in history : e.file # r.stamp}
  /\ UNCHANGED <<envVars, memoryVars, uuids, alerts_db, ghostVars>>

\* ReplaceExisting leaves nothing of an existing file, OpenIfExists all.
JournalFileCreated(r) ==
  /\ FileCreatedOnDisk(r)
  /\ history' = IF phase = "running" THEN {e \in history : e.file # r.stamp} ELSE history
  /\ UNCHANGED <<envVars, memoryVars, uuids, alerts_db, ghostVars>>

JournalRotation ==
  /\ (\E r \in creating : NewConnection(r)) \/ lockfree_previous_connection \/ EmployNew
  /\ UNCHANGED alarmVars

(***************************************************************************)
(* The digital inputs change as they like.                                 *)
(***************************************************************************)
Flip(i) ==
  /\ flips < MaxFlips
  /\ flips' = flips + 1
  /\ bits' = (bits \ {i}) \cup ({i} \ bits)
  /\ UNCHANGED <<sqliteVars, memoryVars, uuids, diskVars, ghostVars>>

(***************************************************************************)
(* The PLC thread: on_digital_input looks at the alarms one after another. *)
(* Nothing happens for one whose bit agrees with the map.  While the UI    *)
(* thread inserts, find may miss what is in the map.                       *)
(***************************************************************************)
Scanning ==
  phase \in Delivering /\ plc = Idle /\ (ui = "folder_ready" => uuids < MaxUuids)

NotFound(i) == alerts[i] = NoRow \/ Restoring

Overlaps == overlap' = (overlap \/ Restoring)

\* A bug: default_alarm is not called.
Alert_without_uuid(i) ==
  /\ Scanning /\ alerts_dbc
  /\ i \in bits /\ NotFound(i)
  /\ uuids' = uuids + 1 /\ Overlaps
  /\ plc' = [pc |-> "insert", time |-> clock,
             row |-> [uuid |-> NoRow, index |-> i, alarmtime |-> clock, fixedtime |-> 0]]
  /\ UNCHANGED <<sqliteVars, envVars, alerts, alerts_dbc, ahead, diskVars, unrecorded>>

\* save(timepoint, index, alarm): an alarm begins to alert.
Alert(i) ==
  /\ Scanning /\ alerts_dbc
  /\ i \in bits /\ NotFound(i)
  /\ uuids' = uuids + 1 /\ Overlaps
  /\ plc' = [pc |-> "insert", time |-> clock,
             row |-> [uuid |-> uuids', index |-> i, alarmtime |-> clock, fixedtime |-> 0]]
  /\ UNCHANGED <<sqliteVars, envVars, alerts, alerts_dbc, ahead, diskVars, unrecorded>>

\* foreach_alarm comes to the row if its key is greater than that it is at.
InsertAlert ==
  /\ plc.pc = "insert"
  /\ alerts_db' = alerts_db \cup {plc.row}
  /\ ahead' \in IF Restoring THEN {ahead, ahead \cup {plc.row}} ELSE {ahead}
  /\ plc' = [plc EXCEPT !.pc = "prepare"]
  /\ UNCHANGED <<sqliteVars, envVars, alerts, alerts_dbc, uuids, history, ghostVars>>

PrepareAlert ==
  /\ plc.pc = "prepare"
  /\ Prepare
  /\ plc' = [plc EXCEPT !.pc = "record"]
  /\ UNCHANGED <<envVars, alerts, alerts_dbc, ahead, uuids, diskVars, ghostVars>>

\* insert_alarm(this, alarm): there is no table alarm in the in-memory database.
Recorded(row) == IF busy.file = Memory THEN {} ELSE {Entry(busy.file, row)}
Unrecorded(row) == IF busy.file = Memory THEN {row} ELSE {}

RecordAlert ==
  /\ plc.pc = "record" /\ busy \in open
  /\ history' = history \cup Recorded(plc.row)
  /\ unrecorded' = unrecorded \cup Unrecorded(plc.row)
  /\ Finalize
  /\ plc' = [plc EXCEPT !.pc = "remember"]
  /\ UNCHANGED <<envVars, alerts, alerts_dbc, ahead, uuids, alerts_db, overlap>>

\* A bug: the alarm is not entered into the map.
RememberAlert_forgets ==
  /\ plc.pc = "remember"
  /\ plc' = Idle
  /\ UNCHANGED <<sqliteVars, envVars, alerts, alerts_dbc, ahead, uuids, diskVars, ghostVars>>

RememberAlert ==
  /\ plc.pc = "remember"
  /\ alerts' \in Raced(Inserted(plc.row), Restoring)
  /\ plc' = Idle
  /\ UNCHANGED <<sqliteVars, envVars, alerts_dbc, ahead, uuids, diskVars, ghostVars>>

\* save(timepoint, alerting_alarm, alarm): it ceases to.
Respond(i) ==
  /\ Scanning
  /\ i \notin bits /\ alerts[i] # NoRow
  /\ uuids' = uuids + 1 /\ Overlaps
  /\ plc' = [pc |-> "prepare_response", time |-> clock, row |-> alerts[i]]
  /\ UNCHANGED <<sqliteVars, envVars, alerts, alerts_dbc, ahead, diskVars, unrecorded>>

PrepareResponse ==
  /\ plc.pc = "prepare_response"
  /\ Prepare
  /\ plc' = [plc EXCEPT !.pc = "record_response"]
  /\ UNCHANGED <<envVars, alerts, alerts_dbc, ahead, uuids, diskVars, ghostVars>>

Response(time) == [uuid |-> uuids, index |-> plc.row.index, alarmtime |-> time, fixedtime |-> plc.time]

\* A bug: the response is recorded at the time of the alarm.
RecordResponse_backdated ==
  /\ plc.pc = "record_response" /\ busy \in open
  /\ history' = history \cup Recorded(Response(plc.row.alarmtime))
  /\ unrecorded' = unrecorded \cup Unrecorded(Response(plc.row.alarmtime))
  /\ Finalize
  /\ plc' = [plc EXCEPT !.pc = "update"]
  /\ UNCHANGED <<envVars, alerts, alerts_dbc, ahead, uuids, alerts_db, overlap>>

RecordResponse ==
  /\ plc.pc = "record_response" /\ busy \in open
  /\ history' = history \cup Recorded(Response(plc.time))
  /\ unrecorded' = unrecorded \cup Unrecorded(Response(plc.time))
  /\ Finalize
  /\ plc' = [plc EXCEPT !.pc = "update"]
  /\ UNCHANGED <<envVars, alerts, alerts_dbc, ahead, uuids, alerts_db, overlap>>

\* A bug: the file is named after the time of the response.
UpdateAlarm_in_current_file ==
  /\ plc.pc = "update"
  /\ history' =
       {IF e.file = floor_seconds(plc.time) /\ e.row.uuid = plc.row.uuid
        THEN [e EXCEPT !.row.fixedtime = plc.time] ELSE e : e \in history}
  /\ plc' = [plc EXCEPT !.pc = "delete"]
  /\ UNCHANGED <<sqliteVars, envVars, alerts, alerts_dbc, ahead, uuids, alerts_db, ghostVars>>

\* update_alarm in the file named after the time of the alarm.
UpdateAlarm ==
  /\ plc.pc = "update"
  /\ history' =
       {IF e.file = floor_seconds(plc.row.alarmtime) /\ e.row.uuid = plc.row.uuid
        THEN [e EXCEPT !.row.fixedtime = plc.time] ELSE e : e \in history}
  /\ plc' = [plc EXCEPT !.pc = "delete"]
  /\ UNCHANGED <<sqliteVars, envVars, alerts, alerts_dbc, ahead, uuids, alerts_db, ghostVars>>

Without(rows) == {row \in rows : row.uuid # plc.row.uuid}

\* foreach_alarm may have read the row already.
DeleteAlert ==
  /\ plc.pc = "delete"
  /\ alerts_db' = Without(alerts_db)
  /\ ahead' \in {ahead, Without(ahead)}
  /\ plc' = [plc EXCEPT !.pc = "forget"]
  /\ UNCHANGED <<sqliteVars, envVars, alerts, alerts_dbc, uuids, history, ghostVars>>

ForgetAlert ==
  /\ plc.pc = "forget"
  /\ alerts' \in Raced([alerts EXCEPT ![plc.row.index] = NoRow], Restoring)
  /\ plc' = Idle
  /\ UNCHANGED <<sqliteVars, envVars, alerts_dbc, ahead, uuids, diskVars, ghostVars>>

PLCStep ==
  \/ InsertAlert \/ PrepareAlert \/ RecordAlert \/ RememberAlert
  \/ PrepareResponse \/ RecordResponse \/ UpdateAlarm \/ DeleteAlert \/ ForgetAlert

(***************************************************************************)
(* The process dies: with the power, on an exception of the rotation, or   *)
(* in the undefined behaviours of the code: alerts_dbc is used before it   *)
(* is initialised or a statement is executed on a deleted connection, an   *)
(* access violation in every build, and two threads may meet in the map.   *)
(***************************************************************************)
ForgetAll ==
  /\ alerts' = [i \in Index |-> NoRow]
  /\ alerts_dbc' = FALSE
  /\ ahead' = {}
  /\ plc' = Idle
  /\ UNCHANGED <<envVars, uuids, diskVars, unrecorded>>

JournalCrash ==
  /\ SQLiteCrash \/ \E r \in creating : SQLiteCreationFailed(r)
  /\ ForgetAll /\ UNCHANGED overlap

Undefined ==
  \/ Scanning /\ ~alerts_dbc /\ \E i \in bits : alerts[i] = NoRow
  \/ Restoring /\ phase \in Delivering /\ ahead # {}
  \/ plc.pc \in {"record", "record_response"} /\ busy \notin open

AccessViolation ==
  /\ Undefined /\ phase # "down"
  /\ Die /\ UNCHANGED crashes
  /\ LoseConnections
  /\ ForgetAll /\ Overlaps

JournalNext ==
  \/ JournalConstruct \/ OnFolderReady \/ (\E row \in ahead : step(row)) \/ JournalStart
  \/ JournalDirectoryStep \/ (\E r \in creating : JournalFileCreated(r)) \/ JournalRotation
  \/ \E i \in Index : Flip(i) \/ Alert(i) \/ Respond(i)
  \/ PLCStep \/ JournalCrash \/ AccessViolation

JournalSpec == JournalInit /\ [][JournalNext]_vars

(***************************************************************************)
(* The UI thread and the PLC thread go on, and the operator restarts the   *)
(* program; the inputs need not change and the process need not die.       *)
(***************************************************************************)
JournalFairness ==
  /\ WF_vars(JournalConstruct) /\ WF_vars(OnFolderReady)
  /\ WF_vars(\E row \in ahead : step(row)) /\ WF_vars(JournalStart)
  /\ WF_vars(FolderNotFound /\ JournalDirectoryStep)
  /\ WF_vars(\E r \in creating : JournalFileCreated(r)) /\ WF_vars(JournalRotation)
  /\ \A i \in Index : WF_vars(Alert(i)) /\ WF_vars(Respond(i))
  /\ WF_vars(PLCStep) /\ WF_vars(AccessViolation)

FairJournalSpec == JournalSpec /\ JournalFairness

-----------------------------------------------------------------------------
\* Types of the variables.
JournalTypeOK ==
  /\ SQLiteTypeOK
  /\ bits \subseteq Index /\ flips \in Nat /\ uuids \in Nat
  /\ alerts \in [Index -> Rows \cup {NoRow}]
  /\ alerts_dbc \in BOOLEAN /\ overlap \in BOOLEAN
  /\ ahead \subseteq Rows /\ alerts_db \subseteq Rows /\ unrecorded \subseteq Rows
  /\ history \subseteq [file : Nat, row : Rows]
  /\ \/ plc = Idle
     \/ plc \in [pc : {"insert", "prepare", "record", "remember"}, time : Nat, row : Rows]
     \/ plc \in [pc : {"prepare_response", "record_response", "update", "delete", "forget"},
                 time : Nat, row : Rows]

\* The map in memory and alerts.db hold the same alarms whenever the data
\* source runs and the PLC thread is between two alarms, whatever the crashes
\* and whenever data are delivered, as long as no alarm has begun or ceased to
\* alert while foreach_alarm was running (alarm_tbl.cpp:162): then the two
\* threads meet in the map, and an alarm may be entered twice.
MapIsAlertsDB ==
  phase \in {"starting", "running"} /\ plc = Idle /\ ~overlap
    => {alerts[i] : i \in Index} \ {NoRow} = alerts_db

\* A row that is found under the time of its alarm and says that the alarm is
\* not fixed belongs to an alarm that alerts: after any crash, and even if the
\* threads have met in the map, it is still in alerts.db, and will be fixed.
UnfixedIsAlerting ==
  \A e \in history :
    (e.row.fixedtime = 0 /\ e.file = floor_seconds(e.row.alarmtime)) => e.row \in alerts_db

\* An alarm shown as fixed has been answered: the response is in the history,
\* at the time the alarm claims to be fixed at, unless it went to the in-memory
\* database, whose rows the TODO of on_database_rotated (alarm_tbl.cpp:166)
\* would have to move.
FixedIsAnswered ==
  \A e \in history : e.row.fixedtime > e.row.alarmtime =>
    \E answer \in {a.row : a \in history} \cup unrecorded :
      /\ answer.index = e.row.index
      /\ answer.alarmtime = e.row.fixedtime /\ answer.fixedtime = e.row.fixedtime

\* alarm_tbl.cpp:192, "update alarm state": an alarm that alerts no more is
\* not shown as alerting by the history.
StateIsUpdated ==
  \A e \in history : e.row.fixedtime = 0 => e.row \in alerts_db

\* No step of the program, no crash and no restart loses a recorded row.
HistoryIsKept ==
  [][\A e \in history : \E f \in history' : f.file = e.file /\ f.row.uuid = e.row.uuid]_vars

\* The rows of alerts.db are the alerting alarms of the ledger, through all
\* crashes and restarts; the ledger is disturbed when data are looked at while
\* it is read.
Ledger == INSTANCE AlarmLedger WITH Alarms <- Rows, alerting <- alerts_db, disturbed <- overlap
LedgerSpec == Ledger!Spec

\* An alarm whose input stays clear does not alert for ever, unless the ledger
\* has been disturbed.
ClearedIsFixed ==
  \A i \in Index :
    <>[](i \notin bits) => <>overlap \/ <>[](\A row \in alerts_db : row.index # i)

=============================================================================
