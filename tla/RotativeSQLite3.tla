-------------------------- MODULE RotativeSQLite3 --------------------------
(***************************************************************************)
(* RotativeSQLite3 (Schema/sqlite3/rotation.cpp): the database of a        *)
(* rotative directory.  The UI thread replaces the connection when the     *)
(* directory rotates; the thread of the PLC uses the connection (prepare,  *)
(* step, finalize) whenever it has something to record, without any lock.  *)
(* The replaced connection therefore stays open until the rotation after.  *)
(***************************************************************************)
EXTENDS RotativeDirectory

CONSTANTS
  Memory,       \* the in-memory database the constructor employs
  NoConn        \* a null SQLite3*

ASSUME ConnAssumption == Memory \notin Nat /\ Memory # NoFile

VARIABLES
  employee,       \* this->employee
  prev_employee,  \* this->prev_employee
  new_employee,   \* the local of on_file_rotated
  open,           \* the SQLite3 objects that are not deleted
  opened,         \* number of objects made in this run
  busy,           \* the connection of the statement the PLC thread executes
  swaps           \* rotations that statement has met, whole or in part

connVars == <<employee, prev_employee, new_employee, open, opened>>
useVars == <<busy, swaps>>
sqliteVars == <<dirVars, connVars, useVars>>

\* A connection: the address of the object and the file it is open on.
Conns == [id : Nat, file : Nat \cup {Memory}]

NullConn == [id |-> 0, file |-> NoConn]
MemoryConn == [id |-> 1, file |-> Memory]

SQLiteInit ==
  /\ Init
  /\ employee = NullConn /\ prev_employee = NullConn /\ new_employee = NullConn
  /\ open = {} /\ opened = 0
  /\ busy = NullConn /\ swaps = 0

(***************************************************************************)
(* The constructor employs an in-memory database until the first file is   *)
(* there.                                                                  *)
(***************************************************************************)
SQLiteConstruct ==
  /\ Construct
  /\ employee' = MemoryConn
  /\ open' = {MemoryConn}
  /\ opened' = 1
  /\ UNCHANGED <<prev_employee, new_employee, useVars>>

\* Steps of the directory that do not touch the connections.
DirectoryStep ==
  /\ \/ FolderGot \/ FolderNotFound \/ FolderCreated \/ MissionStart \/ Tick \/ Wake \/ ClockTick
  /\ UNCHANGED <<connVars, useVars>>

(***************************************************************************)
(* The file system's part of CreateFileAsync.  OpenIfExists is content     *)
(* with an existing file; ReplaceExisting fails on a file some SQLite      *)
(* connection is open on (it does not share the file for deletion).        *)
(***************************************************************************)
Employed(file) == \E c \in open : c.file = file

FileCreatedOnDisk(r) ==
  /\ FileCreated(r)
  /\ phase = "running" => ~Employed(r.stamp)
  /\ UNCHANGED <<connVars, useVars>>

\* A bug: the connection is opened on the file that was current.
NewConnection_stale(r) ==
  /\ FileArrived(r)
  /\ new_employee = NullConn
  /\ new_employee' = [id |-> opened + 1, file |-> current_file]
  /\ opened' = opened + 1
  /\ open' = open \cup {new_employee'}
  /\ swaps' = IF busy = NullConn THEN 0 ELSE swaps + 1
  /\ UNCHANGED <<employee, prev_employee, busy>>

(***************************************************************************)
(* on_file_rotated, cut where the PLC thread may see the difference: the   *)
(* new connection is opened; the one of the rotation before is deleted and *)
(* the current one kept in its place; the new one is employed.             *)
(***************************************************************************)
NewConnection(r) ==
  /\ FileArrived(r)
  /\ new_employee = NullConn
  /\ new_employee' = [id |-> opened + 1, file |-> r.stamp]
  /\ opened' = opened + 1
  /\ open' = open \cup {new_employee'}
  /\ swaps' = IF busy = NullConn THEN 0 ELSE swaps + 1
  /\ UNCHANGED <<employee, prev_employee, busy>>

\* A bug: the connection being replaced is deleted at once.
lockfree_previous_connection_at_once ==
  /\ ui = "rotated" /\ new_employee # NullConn /\ prev_employee # employee
  /\ open' = open \ {prev_employee, employee}
  /\ prev_employee' = employee
  /\ UNCHANGED <<dirVars, employee, new_employee, opened, useVars>>

\* A bug: nothing is deleted.
lockfree_previous_connection_never ==
  /\ ui = "rotated" /\ new_employee # NullConn /\ prev_employee # employee
  /\ prev_employee' = employee
  /\ UNCHANGED <<dirVars, employee, new_employee, open, opened, useVars>>

lockfree_previous_connection ==
  /\ ui = "rotated" /\ new_employee # NullConn /\ prev_employee # employee
  /\ open' = open \ {prev_employee}
  /\ prev_employee' = employee
  /\ UNCHANGED <<dirVars, employee, new_employee, opened, useVars>>

\* A bug: the new connection is never employed.
EmployNew_forgets ==
  /\ TimerArmed
  /\ prev_employee = employee
  /\ new_employee' = NullConn
  /\ UNCHANGED <<employee, prev_employee, open, opened, useVars>>

EmployNew ==
  /\ TimerArmed
  /\ prev_employee = employee
  /\ employee' = new_employee
  /\ new_employee' = NullConn
  /\ UNCHANGED <<prev_employee, open, opened, useVars>>

(***************************************************************************)
(* IDBSystem::prepare ... delete stmt on the thread of the PLC.            *)
(***************************************************************************)
Prepare ==
  /\ employee # NullConn /\ busy = NullConn
  /\ busy' = employee
  /\ swaps' = IF ui = "rotated" THEN 1 ELSE 0
  /\ UNCHANGED <<dirVars, connVars>>

Finalize ==
  /\ busy # NullConn
  /\ busy' = NullConn /\ swaps' = 0
  /\ UNCHANGED <<dirVars, connVars>>

LoseConnections ==
  /\ employee' = NullConn /\ prev_employee' = NullConn /\ new_employee' = NullConn
  /\ open' = {} /\ opened' = 0
  /\ busy' = NullConn /\ swaps' = 0

SQLiteCrash == Crash /\ LoseConnections

SQLiteCreationFailed(r) == CreationFailed(r) /\ LoseConnections

SQLiteNext ==
  \/ SQLiteConstruct \/ DirectoryStep
  \/ \E r \in creating : FileCreatedOnDisk(r) \/ NewConnection(r) \/ SQLiteCreationFailed(r)
  \/ lockfree_previous_connection \/ EmployNew
  \/ Prepare \/ Finalize \/ SQLiteCrash

SQLiteSpec == SQLiteInit /\ [][SQLiteNext]_sqliteVars

(***************************************************************************)
(* The dispatcher runs every continuation and every due tick in the end,   *)
(* the file system answers, the operator starts the program again.         *)
(***************************************************************************)
Directory(A) == A /\ UNCHANGED <<connVars, useVars>>

SQLiteFairness ==
  /\ WF_sqliteVars(SQLiteConstruct)
  /\ WF_sqliteVars(Directory(FolderGot)) /\ WF_sqliteVars(Directory(FolderNotFound))
  /\ WF_sqliteVars(Directory(FolderCreated)) /\ WF_sqliteVars(Directory(MissionStart))
  /\ WF_sqliteVars(\E r \in creating : FileCreatedOnDisk(r))
  /\ WF_sqliteVars(\E r \in creating : NewConnection(r))
  /\ WF_sqliteVars(lockfree_previous_connection) /\ WF_sqliteVars(EmployNew)
  /\ WF_sqliteVars(Directory(Tick /\ clock >= due)) /\ WF_sqliteVars(Directory(Wake))
  /\ WF_sqliteVars(Directory(ClockTick))

SQLiteFairSpec == SQLiteSpec /\ SQLiteFairness

\* The behaviours in which every statement is over within a second.
PromptSpec ==
  SQLiteInit /\ [][SQLiteNext /\ (clock' # clock => busy = NullConn)]_sqliteVars

-----------------------------------------------------------------------------
\* Types of the variables.
SQLiteTypeOK ==
  /\ TypeOK
  /\ {employee, prev_employee, new_employee, busy} \subseteq Conns \cup {NullConn}
  /\ open \subseteq Conns
  /\ opened \in Nat /\ swaps \in Nat

\* "destruct last connection until next rotation for lockfree purpose"
\* (rotation.cpp:46): a statement that meets at most one rotation, be it only
\* the end of one, never touches a deleted connection.
LockfreePurpose == busy # NullConn /\ swaps <= 1 => busy \in open

\* What that purpose requires: no statement ever touches a deleted connection.
StatementIsSafe == busy # NullConn => busy \in open

\* Every connection that is open is reachable from the object that will
\* delete it: rotations and lost races leak no database handle.
NoLostConnection == open \subseteq {employee, prev_employee, new_employee}

\* Between two rotations the PLC thread records in the file the directory
\* says is current: the connection and the file are replaced together.
EmployedOnCurrentFile ==
  phase = "running" /\ ui # "rotated" => employee.file = current_file

=============================================================================
