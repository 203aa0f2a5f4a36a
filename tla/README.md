# ChangJing9 in TLA+

ChangJing9 is the software of a trailing suction hopper dredger: a SCADA
program (`src/SCADA`), a monitor of the dredging process (`src/DTPM`), a design
program for the dredger's metrics (`src/DredgerConstruction`) and the C++/CX
libraries they stand on (`src/Base`, `src/Schema`, `src/Jargon`, `src/ENChart`).
Windows runs it as UWP applications: the user interface is one thread, with
`DispatcherTimer`s and the continuations of asynchronous file operations
(concurrency::task), and the data of the PLC, of GPS receivers and of peer
programs arrive on threads of the network. This directory has TLA+ models of the
parts in which these threads, the timer, the files on disk and a crash can meet,
TLC configurations that check them on small instances, and proofs of what
matters most for instances of every size.

1. [The system](#1-the-system)
2. [Modules and code](#2-modules-and-code)
3. [What is checked](#3-what-is-checked)
4. [What is proved](#4-what-is-proved)
5. [Disagreements between code and intent](#5-disagreements-between-code-and-intent)
6. [What is not modelled](#6-what-is-not-modelled)
7. [Plan](#7-plan)

To check a run: `tlc -config MCAlarmJournal.cfg MCAlarmJournal.tla`; to check the
proofs: `tlapm AlarmJournal_proofs.tla`. `PROJECT.json` maps every definition to
the lines it models and lists the hazards, runs, mutants and theorems.

## 1. The system

Not in the repository, but used all over it, are the submodules with the PLC
master (`PLCMaster`, `MRMaster`), the planets, graphlets and the universe they
are drawn in (`Planet`, `UniverseDisplay`, `Tablet`, `TimeSerieslet`,
`ISatellite`, `TimeMachine`), `iotables` and `configuration.hpp`. They appear in
the models as what the code here uses of them: a PLC thread that delivers
data between `pre_read_data` and `post_read_data`, a receiver of rows, a user
interface that enters the lock of a graphlet.

### Components, their state and their operations

| Component | State | Operations | What is hard | Correct when |
|---|---|---|---|---|
| **Rotative directory** `Base/dirotation.cpp`, `Base/datum/time.cpp` | the folder, the current file, creations under way, the timer and its interval | construction (get or create the folder), `mission_start`, the timer's handler (sleep until the boundary or ask for a new file), `resolve_interval` | a periodic timer that fires early, late, and again while a creation is under way; the handler sleeps on the UI thread; a creation that fails ends the process | the UI thread is not frozen, rotations are applied in order, none is left out for ever, rows are at most one period late |
| **Rotative database** `Schema/sqlite3/rotation.cpp` | the connection employed, the previous one | `on_file_rotated`, `prepare` | the UI thread replaces and deletes connections the PLC thread uses, without a lock | no statement runs on a deleted connection, no connection is lost, rows go to the current file |
| **Alarm recording** `SCADA/widget/alarms.cpp`, `SCADA/schema/datalet/alarm_tbl.cpp`, `SCADA/schema/alarm.cpp` | the map of alerting alarms, `alerts.db`, one database of history per period | `on_digital_input` (alert, respond), two `save`s of two and three writes, restoring on `on_folder_ready` | two threads, three stores, a crash between any two writes, a rotation between any two of them | after every crash the stores agree about what alerts; the history neither loses a row nor shows a fixed alarm as alerting |
| **History loading** `alarm_tbl.cpp`, `SCADA/schema/datalet/earthwork_ts.cpp`, `DTPM/schema/datalet/track_ds.cpp` | the request, the period the search is at, the token source | `load`, `do_loading_async`, `cancel`, `save` | files asked for asynchronously while rows are saved and files rotate; missing files; cancellation | the receiver gets each row once, in order, none left out, and the search ends |
| **TCP watchdog** `Base/network/tcp.{hpp,cpp}` | last heartbeat, timeout, timer | `set_suicide_timeout`, `suicide_if_timeout`, `notify_data_received` | the heartbeat is taken before the listeners are told and written after, also between the check, the suicide and the reset of a tick | working connections are spared, silent ones are killed in time |
| **Slang messaging** `Jargon/peer/slang.cpp`, `Jargon/checksum/ipv4.cpp` | the header, the peers, the current peer and its lock | cast, `on_message`, `dispatch_message`, `push_slang_local_peer`, `clear_if_peer_broken` | damaged datagrams, checksums, peers that throw inside their locks | what is cast is what the peers are told, damage is noticed, every lock is released |
| **ASN.1 DER** `Jargon/asn/der/*` | none | lengths, fixnums, sequences, reals, strings to octets and back | spans computed by code of their own, boundaries, signs | the fields return, the octets fit the room allocated for them |
| **SQLite binding** `Schema/sqlite3/ffi.cpp`, `Schema/dbsystem.cpp` | reference count of the library, statements | open, prepare, step, exec | errors, busy databases | rows are not lost, loops end |
| **Logging** `Jargon/syslog*`, `Base/datum/object.hpp` | chain of loggers, queue of drifting messages, reference counts | `log_message`, the remote receiver | a queue filled by one thread while another opens the stream | every message is sent once |
| **Natural numbers** `Jargon/datum/natural.cpp` | a memory of octets with the number in its last ones | arithmetic, bits, shifts, modular exponentiation, comparison, slices | carries and borrows in a memory that is reused: leftovers before the payload, operands that are the number itself, the estimate of the long division | it is the arithmetic of natural numbers, and payloads have no leading zero |
| **Application data files** `Base/filesystem/msappdata.hxx` | the maps `databases`, `filesystem`, `lists`, the tasks that read and write | `load`, `store`, `unload`, the destructor, `load_async`, `try_create`, `store_async` | tasks run outside the mutex, arrive after a store, end for graphlets that are gone, fail while others wait | those that are listed know what the cache holds; nobody waits for ever |
| **SCADA pages and diagnostics** `SCADA/page/**` | gauges, the selected device | load, reflow, data handlers between the locks of the page, commands to the PLC | pages are registered as receivers before they are loaded | no handler meets a null gauge; commands go out only when authorised |
| **SCADA widget and settings** `SCADA/widget*`, `SCADA/widget/*` | the mode of the PLC master, preferences | mode changes, brightness by Slang | the same | the same |
| **Time streams** `*/widget/timestream.cpp` | a rotative directory of snapshots | save on the time machine's timer | as for the rotative directory | every snapshot is found by its time |
| **DTPM, Dredger construction** `DTPM/**`, `DredgerConstruction/**` | metrics, frames, the timers of the dredging cycle | data handlers, drawing | the cycle's times across restarts | times are accumulated once |
| **Stream listener, electronic charts, MSSQL client, data utilities** | listeners, keys | – | – | – |

### How they interact

```
 network threads                      UI thread                             disk
 ---------------                      ---------                             ----
 PLC data -> AlarmMS.on_digital_input
               | save                 DispatcherTimer -> do_rotating
               v                         | CreateFileAsync ---------------> files
           AlarmDataSource               v                                  of the
             employee  <--------------- on_file_rotated                     periods
               | insert, update, delete                                       ^
               +--------------------------------------------------------------+
             alerts.db <--- restore --- on_folder_ready
                                      load, do_loading_async <-- TryGetItemAsync
 TCP data -> notify_data_received     TCPKiller -> suicide_if_timeout
 datagrams -> on_message -> peers     peers' user interfaces enter the same locks
                                      graphlets load, store, unload
 thread pool: continuations of          | maps, under the mutex of the file
 load_async, store_async -------------->+----------------------------------> file
```

A rotative directory is the superclass of a rotative database, which is that of
the data sources. The PLC thread and the UI thread share a data source without a
lock of its own: `AlarmMS` enters a critical section in `pre_read_data` and leaves
it in `post_read_data`, but the rotation, the restoring of the alarms and the
loaders do not enter it.

## 2. Modules and code

```
 RotativeDirectory  <-  RotativeSQLite3  <-  AlarmJournal  --- Ledger: INSTANCE AlarmLedger
        ^ shows its current file to           (refinement: alerting <- alerts_db)
 HistoryFiles  <-  TimeSeriesLoader, AlarmLoader
 TCPWatchdog                    MsAppdata
 AsnDer  <-  SlangMessage,      SlangDaemon
 Digits  <-  NaturalNumber  --- A: INSTANCE Arithmetic   (refinement: a <- Value(x), b <- Value(y))
```
(`A <- B`: module B extends module A.) `X_proofs` has the proofs about `X`, and
`MCX` instantiates `X` for TLC. `AlarmJournal_proofs` has the proofs about the directory and its database, too,
`Network_proofs` those about `SlangDaemon`, `AsnDer`, `SlangMessage` and `TCPWatchdog`; the proofs of the loaders extend
`HistoryFiles_proofs`, and those of `NaturalNumber_proofs` extend `NaturalArithmetic_proofs`, which has the digits,
sums, products and divisions of natural numbers. Operators and variables have the names of the
functions and members of the code where TLA+ allows it. An operator named
`f_something` after the comment *A bug:* is a mutated form of `f`: each property of
a run has one that must violate it.

### RotativeDirectory

The UI thread runs one continuation or timer tick at a time; `ui` says what it is
in the middle of: `"loop"` nothing, `"folder_ready"` and `"rotated"` a method that a
subclass implements, `"sleep"` the handler of the timer that has been called too
early. `Construct`, `FolderGot`, `FolderNotFound` and `FolderCreated` are the
constructor and its continuations, `MissionStart` is `mission_start`, `FileCreated`
the file system's part of `CreateFileAsync`, `FileArrived` and `TimerArmed` the
continuation before and after `on_file_rotated`, `Tick` and `Wake` the handler of the
timer from its beginning and after the sleep. A file is identified with the
timepoint its name is made of. `due` is when the DispatcherTimer fires next: it is
periodic, keeps its old interval until `TimerArmed`, and may fire `Early` too early. `Crash`
is a power cut at any point; `CreationFailed` is an exception that `on_exception`
rethrows out of a continuation nobody waits for. `ClockTick` bounds the delays of the
environment: `Latency` for a continuation or a due tick. `TimingAssumption` says
that latencies are short compared with a period, which is at least a minute in
the code.

### RotativeSQLite3

Adds the connections. `on_file_rotated` is cut where the PLC thread may see the
difference: `NewConnection`, `lockfree_previous_connection`, `EmployNew`. `Prepare` and
`Finalize` are the beginning and the end of a statement of the PLC thread, which may
meet any number of steps of the UI thread; `swaps` counts the rotations it has met.

### AlarmJournal and AlarmLedger

`Alert` and `Respond` are the decisions of `AlarmMS::on_digital_input`; then the PLC
thread takes one step per access to something shared: `InsertAlert` (alerts.db),
`PrepareAlert` and `RecordAlert` (the file employed), `RememberAlert` (the map), and
`PrepareResponse`, `RecordResponse`, `UpdateAlarm` (the file that the time of the alarm
resolves to), `DeleteAlert`, `ForgetAlert`. `OnFolderReady`, `step` and `JournalStart` are
the restoring of the map from alerts.db by the UI thread, one row at a time. `Delivering` says in
which phases of the data source the PLC delivers data; the code leaves it open, so that in the run
data are delivered before alerts.db is open, while it is read, and after. While it is read, rows inserted or deleted
meanwhile may be stepped through or not, `find` may miss an alarm that is in the map (`NotFound`),
and of what two threads change in the map at once one change may be lost (`Raced`). The ghost `overlap` says that
data have been looked at meanwhile, `unrecorded` keeps the rows that went to the in-memory
database. `AccessViolation` is what the other
undefined behaviours of the code come to (`alerts_dbc` used before it is assigned,
a statement executed on a deleted connection), and what the race in the map may come to: the process dies. A crash forgets
the memory and keeps the disk.

`AlarmLedger` is the abstract specification: a set of entries, at most one per
alarm, into which one is raised and from which it is fixed. A crash changes
nothing. Once the ledger is disturbed, written while it is read, an alarm may be entered twice. `LedgerSpec` says
that alerts.db is such a ledger: a restart may neither
lose an entry, nor raise the same alarm again.

### HistoryFiles, TimeSeriesLoader, AlarmLoader

`HistoryFiles` has the files, the saving of rows, the rotation, and the state of one
chain of tasks. Of `RotativeDirectory` it keeps what `LagsOnePeriod` says: a file is employed until `MaxLag`
after the end of its period. `MaxLag` may be a whole period and more, since a start across a boundary keeps a period
in the file of the one before (`dirotation.cpp:104-113`), and so may the program skip a file: `Rotate` and `Restart` employ
the file of any moment between the request and now. A row is saved up to `MaxDelay` after its `timepoint`, which
is taken when the data arrive.
`AskFor`, `TryGetItem` and the `Continue` of each loader are `do_loading_async` cut at the
asynchronous call. `EarthWorkDataSource` and `TrackDataSource` have the same code, so
`TimeSeriesLoader` stands for both. `Restart` leaves out periods, so that files are missing.
`Ascending` and `Descending` are the `ORDER BY` of the queries: the i-th row is the one that i - 1 others come before.

### TCPWatchdog

`notify_data_received` takes the time, `ListenersTold` writes it when the listeners
have returned, rounded to the same millisecond or the next while the clock is truncated. Between the two the timer may
tick or `set_suicide_timeout` be called. A tick `Passes`, or it `Expires`, and then `suicide` and `MadeAnew` are steps of their own: the
receiving thread may write the heartbeat between any two of them. Its definitions are called `WatchdogInit`, `WatchdogNext` and so on, since its
proofs are in a module with those of the other receivers of the network. `device` says whether the other side works: then it
sends within `MaxGap` of the last data.

### AsnDer, SlangMessage, SlangDaemon

`AsnDer` has the pure functions of the encoding over octets of `Base` values (256 in the
code), both directions and the spans that the code computes separately.
`SlangMessage` is a cast of one message (`slang_do_cast`: header, checksum, payload), the
network (`Damage` of one byte, `Truncate`, `ForeignCast`) and `on_message` up to the call
of the peers. The code looks at bytes behind the datagram before it checks
the size: these are the input `memory`, which has more octets than a header and a length. A length is a number in the model and
a `size_t` in the code, which keeps the last 8 octets of a longer one. What the peers are given is type, port and
payload: `ISlangDaemon::on_message` drops the transaction and the response port. `SlangDaemon` is the loop of
`on_message` over the peers: `Visit`, `pre_read_message`, `apply_message` or `Throw`,
`post_read_message`, `clear_if_peer_broken`, each a step, since `current_peer` is a member
shared by the threads, and the user interfaces that enter the same locks. After a `Throw` of a task exception
the lock is not left; `uncleared` keeps the peers to which that has happened.

### NaturalNumber and Arithmetic

`x` is the number an operator is called on, `y` another one, which may be the operand
and where `quotient_remainder` puts the remainder; either operator may also have
`x` itself as its operand, as `n *= n` has. A number is its memory and the length of its payload. The
octets are counted from the right, `mem[i]` is `natural[capacity - i]`, so that a payload
begins at 1 whatever the capacity is; what lies beyond it is left over from earlier
operations or was never written (`Fill`). Each operator of the code is an
operator of the module, computed digit by digit as the code does it: `PlusNatural`, `MinusNatural`, the products, the two divisions
with the estimate `q_hat` and the subtraction and addition of the divisor in
unsigned digits, exponentiation with and without a modulus, shifts, masks. Each overload is an action; results with more than `MaxOctets` octets are not followed.
`Digits` has what both modules say of digits: powers (`b ** n`), the value of digits, the carries of a sum of digits
(`Carries`, `Carried`), and the bits of two numbers combined by a table, which stand for `&`, `|` and `^`. All of them are
recursive functions, about which something can be proved. Numbers are made from one octet at least
(`Texts`): from none, `natural.cpp:1482-1499` leaves the memory a null pointer. Moduli are greater than 1.

`Arithmetic` is the abstract specification: two natural numbers and the operations of
`Nat`, with nothing of octets, memories and carries. `Arithmetical` says that `NaturalNumber`
implements it, where a number stands for its `Value`.

The code does not bear every use of its operators: the comment at `Bears` lists those after which the result is wrong. They are
steps like the others, with the result the code computes, but `borne` is false after them: `Arithmetic` allows them any result,
and the behaviour is not followed further. Section 5 says what goes wrong.

### MsAppdata

One file of the application data and the graphlets that share it. An operation that holds the mutex
is one step: `LoadFirst`, `LoadCached` and `LoadWaiting` are the branches of `load`, then `Store`, `unload`, `Destroy` (the
destructor), and `Loaded`, the continuation of `load_async`. `Read` and `Saved` are what the operating system does without
the mutex. `try_create` is a step of its own because the mutex is left between finding that
the file is missing and storing what has been made. `database`, `cache` and `lists` are the entries of the three maps.
What the graphlets do is not in the repository: they load, store, leave and are destroyed at any moment, whatever
tasks are under way and whether they are listed or not. To tell a destroyed graphlet is
undefined behaviour; the model follows the runs in which the call returns. Writes are not ordered among each other (`saving` has what is being written).

## 3. What is checked

All runs are exhaustive over their bounds. Bounded by constants are: the clock
(`Horizon`), crashes (`MaxCrashes`), changes of the inputs (`MaxFlips`), the alarms entered while alerts.db is read (`MaxUuids`), the
intervals and counts that are asked for (`Ends`, `Requests`), messages and damages
(`Types`, `Transactions`, `Ports`, `Payloads`, `Damages`, `Foreign`, `Memories`). Where the
clock ends, or the one datagram of `SlangMessage` has been answered, there is nothing left to
do: `CHECK_DEADLOCK FALSE` in these runs. So it is when `NaturalNumber` has made its
`MaxSteps` operations, and when all graphlets of `MsAppdata` have been destroyed.
`SlangDaemon` may stop, too: a lock that a task exception has kept is waited for by everyone who wants it.

| Run | Bounds | What it shows |
|---|---|---|
| `database` | periods of 5 s, ticks 1 s early, latencies of 1 s, four periods, 2 crashes, statements of any length; all starting times within a period; 76 000 states | the UI thread never sleeps longer than a tick was early (`FreezeIsShort`); the current file only moves forward (`NeverBackwards`) and is one period behind at most (`LagsOnePeriod`); a due timer always leads to a rotation (`DueTimerRotates`); a statement that meets one rotation never touches a deleted connection (`LockfreePurpose`); none is leaked (`NoLostConnection`); rows go into the file that is current (`EmployedOnCurrentFile`) |
| `statement` | statements shorter than a second | a counterexample, see section 5 |
| `alarms` | one alarm, 2 changes of its input, periods of 4 s, two boundaries, 1 crash at any point; data delivered in every phase, also while alerts.db is read, where 2 alarms may be entered; 1.5 million states | alerts.db is the ledger (`LedgerSpec`) and agrees with the map until the threads have met (`MapIsAlertsDB`); an unfixed row has its alert (`UnfixedIsAlerting`), a fixed one its answer (`FixedIsAnswered`), whatever the threads do to the map; the history loses no row (`HistoryIsKept`); what stays clear is fixed in the end, through crashes (`ClearedIsFixed`) |
| `alarm_state` | periods of 5 s, ticks 1 s early, 3 changes, data delivered when the data source runs | a counterexample, see section 5 |
| `series_load` | periods of 3 s, a file employed up to 4 s after the end of its period, rows saved up to 1 s late, intervals within one and over two or three periods in both directions, ending in the middle of a period and at a boundary, restarts that leave out a period; 1 million states | a step hands over rows only in the order of the interval and after all those before, so that each comes once (`InOrder`, an action property), none is left out but those that may be in the files before and after the interval's (`Complete`), loads end (`LoadingEnds`) |
| `alarm_load` | periods, late files and late rows as above, 1 or 3 rows asked for, the search ends after 2 files; 760 000 states | newest first (`NewestFirst`), what is left out is older than all that is shown and not after the beginning of the oldest period searched, but for `MaxLag` (`NothingSkipped`), the search ends (`LoadingEnds`) |
| `watchdog` | timeouts of 3, 5 and none, data 2 apart, listeners that take 1, heartbeats rounded up by 1, ticks 2 late; 24 000 states | none is found expired while it works, and if it is killed then, it has begun to about the tick (`WorkingIsSpared`); the silent ones are killed in time (`SilentIsKilled`) |
| `slang_message` | bytes of 16 values, messages of at most 16 words at every boundary of one, two and three octets, negatives that lose their sign among them, one damaged byte or any truncation; 92 000 states | type, port and payload are given as they were cast (`CastIsApplied`) and the fields return, or without their sign where the code loses it (`FieldsReturn`), from as many octets as room was allocated for (`SpanSuffices`); damage is noticed (`DamageIsNoticed`), whatever the byte says; the memory behind a datagram has no influence (`NothingBeyond`) |
| `slang_long` | messages of more than 30 words, where `Base` is 16 | a counterexample, see section 5 |
| `slang_daemon` | 3 peers, some absent, pushed at any time; one message at a time; peers that throw `Platform::Exception` or `task_discarded`, which stands for the three task exceptions; 1 100 states | every lock is released, but those of peers that have thrown a task exception (`LocksAreReleased`), and a peer is told inside its own (`ToldInsideLock`); the user interface waits for ever for no other lock (`UIEnters`) |
| `natural` | octets of 2 bits, fixnums of 3 octets, operands 0, 1, 3 and 13 and numbers of up to five octets, any two operations one after the other, whatever their use, results of at most 8 octets; 140 000 states | every operation computes what `Arithmetic` says until one is used in a way of `Bears` (`Arithmetical`), leaves payloads without leading zeros inside their memory (`Canonical`), and comparisons, lengths, bits and slices are those of the value, but for the bit just above the payload (`Observed`) |
| `appdata` | two graphlets, one of which creates the file when it is missing, two contents, two reads and any number of writes under way, any overlap; 400 000 states | those that are listed were last told what the cache holds (`ToldWhatIsCached`); who waits is told, or may load again (`WaitersAreTold`) |

### Why the bounds are enough

* A rotation is over before the next but one is due (`TimingAssumption`), so a state
  of the directory depends on two neighbouring periods; two to three boundaries make
  every pair of overlapping creations happen, before and after a crash. A period of 5 s is the
  smallest that satisfies the assumption with early ticks and latencies of 1 s.
* An alarm needs two changes of its input to be raised and fixed; it is raised again without a third by a
  restart or by the race of the threads; the boundary may fall between any two writes, or between
  the alert and its response; what a second boundary would add, that one more connection is deleted
  under a statement, is what `database` and `statement` are about. Alarms share nothing but the thread
  that looks at them one after another, and the theorems about the ledger hold for any set of them.
* The loaders look at one file at a time: first, middle and last file of an
  interval, found or missing, are three periods.
* With bytes of 16 values the long form of lengths, two-octet lengths, numbers of one to
  three octets and the carries of the checksum all happen in messages of a few
  octets. `AsnDer` never uses that `Base` is 256.
* `NaturalNumber` does not depend on the 8 bits of an octet or the 8 octets of a fixnum either. With
  2 and 3 the largest digit, a carry through all octets, and numbers
  below, of and above the size of a fixnum are frequent, and most long divisions estimate too
  much and add the divisor back. Two operations: the first leaves the leftovers and
  the capacity that the second meets.
* A file of application data has one entry in each map; a graphlet that creates and one that does not,
  each of which loads, stores, leaves or ends, are all the roles there are, two contents tell an older from a newer one,
  and a second task overtakes a first one. The theorems about it hold for any number of them.

### Fairness

* Directory and journal: the dispatcher runs each continuation and each tick that is
  due (`clock >= due`; that it may come early is not something to count on), the file system
  answers, the PLC thread finishes its statements, and the operator starts the program
  again. Neither failures nor changes of the inputs are fair. `ClearedIsFixed` needs no
  fairness of the clock. That the clock advances is needed for `DueTimerRotates`: a sleep ends.
* Loaders: `TryGetItemAsync` completes, and its continuation is run by the UI
  thread. Nothing forces a load or a cancellation.
* `SlangDaemon`: threads that can run do (weak fairness), and a lock that is left again
  and again is entered by all who wait for it (strong fairness of `pre_read_message`
  and `UIEnter`), as a critical section of Windows does. Peers return or throw; the
  user interface leaves a lock it has entered.
* `TCPWatchdog` has no liveness property: `SilentIsKilled` bounds the time instead, and
  the bound on the delay of ticks (`MaxLag`) takes the place of fairness.
* `MsAppdata`: the operating system completes every read, with or without an error, and the
  thread pool runs the continuations. Graphlets need do nothing, and writes need not end.

## 4. What is proved

The theorems hold for all values of the constants that satisfy the named
assumptions: any period, latency, number of crashes, alarms, timeouts, peers, graphlets and
contents. An assumption that a theorem makes beyond those is named in its row.

| Theorem | From | Inductive invariant and why it is needed |
|---|---|---|
| `DirectoryTypes`: `Spec => []TypeOK` | `SpanAssumption`, `NoFileAssumption` | itself, with lemmas on `floor_seconds` and `ceiling_seconds`: a ceiling is a natural number greater than its argument |
| `FreezeIsAlwaysShort`: `Spec => []FreezeIsShort` | the same | `TimerInv`: requests and the current file are those of periods that have begun (`RequestsBegun`, `CurrentBegun`); when the UI thread is idle the timer is due at a boundary after the current file, or the current file lags behind the clock (`TimerIsRight`); a sleep is one to such a boundary (`SleepIsRight`). `FreezeIsShort` alone says nothing of a tick that is still to come |
| `RotationsNeverGoBack`, `AlwaysLagsOnePeriod` | `TimingAssumption` | `PeriodInv`, with `TimerInv`: requests are answered within their latency (`RequestsInTime`), those under way are of one period, not before that of the current file (`OnePeriod`); either one is under way and will be over before the timer fires, or all were asked for so early in their period that they are over before the next one begins (`AloneOrTimely`); with none under way the timer is armed for the end of this period or, if armed at its very beginning, of the next (`ArmedForNext`); and where the clock can be (`InTime`). A latency of less than a third of a period keeps the answers of one period from meeting the requests of the next |
| `IsDirectory`: `SQLiteSpec => Spec` | – | each step of the database is a step of the directory or leaves it alone: what is proved of the directory holds of the database |
| `LockfreePurposeHolds`, `NoConnectionIsLost` | `ConnAssumption` and the above | `ConnInv`: addresses are numbered in the order of the connections (`Numbered`); the employee and its predecessor are open and different outside a rotation (`EmployeeIsOpen`); a statement that has met no rotation is on the employee, one that has met one on the employee or its predecessor, depending on the place in the rotation at which the UI thread is (`Met`) |
| `SQLiteTypes`, `AlwaysEmployedOnCurrentFile` | the same | `OnCurrentFile`: `EmployedOnCurrentFile`, and the connection that is being introduced is to the file that has just become current |
| `JournalIsLedger`: `JournalSpec => LedgerSpec` | `JournalAssumption`, `NoRowAssumption`, in whatever phase data are delivered | `RowsInv`, the rows are of the uuids given so far, and, while `~overlap`, `LedgerInv == OneRowEach /\ PLCRuns /\ MapAgrees`: alerts.db has one row per alarm; and at each step of the two threads the map and what has been restored of alerts.db differ by exactly the row the PLC thread is about. The refinement mapping is `alerting <- alerts_db`, `disturbed <- overlap`: `InsertAlert` raises, `DeleteAlert` fixes, looking at data while alerts.db is read disturbs, all other steps, crashes included, stutter |
| `MapIsAlwaysAlertsDB` | the same | a consequence of `LedgerInv` |
| `HistoryIsAlwaysKept` | `TimingAssumption`, whenever data are delivered | `FilesInv`: rows are in files of periods that are not after that of the current file (`Filed`), and so are the connections (`OnFiles`). Since `ReplaceExisting` leaves nothing of an existing file, no row is lost only because the file asked for is after all that have rows, or is the current one |
| `UnfixedIsAlwaysAlerting` | the same, whenever data are delivered | `EventsInv`: identities of rows are given once and name one alarm at one time (`Uuids`, `SameAlarm`), events do not lie in the future (`Begun`), and the row of an alarm that is about to be deleted from alerts.db shows it as fixed (`Updated`) |
| `FixedIsAlwaysAnswered` | the same, whenever data are delivered | `AnsweredInv`: rows of alerts.db are unfixed, and before `update` the response is in the history or among those lost with the in-memory database (`Answers`), where it is never taken for the row of an alarm |
| `JournalTypes` | the assumptions of the directory and the journal | the invariants of the directory and its database, with `AlarmTypes` |
| `LocksAreAlwaysReleased`, `AlwaysToldInsideLock` | `OneMessageAtATime` | `LockInv`: a lock that a thread owns is that of a peer that has thrown a task exception, or that of the current peer, and the thread is between its `pre_read_message` and its `post_read_message` (`InOneLock`); the peer visited is one of those pushed (`AtPushed`) |
| `AlwaysMapsAgree`, `AlwaysToldWhatIsCached` | `AppdataAssumption`, whatever the graphlets do | `ShareInv`: the maps of a file have an entry together, and tasks are those of graphlets |
| `SilentIsAlwaysKilled`, `WorkingIsAlwaysSpared` | `TimeoutsAssumption`, `TimesAssumption`, for the latter `MeantAssumption` | `WatchInv`: the next tick is due within two timeouts of the heartbeat, even if listeners have put it back since a reset; a connection that works although a check has found it expired has sent since, or no more than `MaxHandling` before the tick was due |
| `WatchdogTypes`: `WatchdogSpec => []WatchdogTypeOK` | the same | the same; the heartbeat is at most the rounding later than the clock |
| `FilesInvStep` | `FilesAssumption` | `FilesInv`: a row lies in no file that ended more than `MaxLag` before it or begins more than `MaxDelay` after it (`RowsAreInTime`), and all rows of a file are before those of the later ones (`FilesAreInOrder`), since rows only get into the current file, which is the latest, and the data in hand are newer than all that is saved (`NewestInHand`). That `Ascending` hands over every row of a file once and in order is shown with the ranks of the rows |
| `AlwaysNewestFirst`, `NothingIsSkipped` | `SearchAssumption` and the above | `TableInv`, with `FilesInv` and `RowsStay`: a file that was found stays, and one that was missing has, if it comes into being before the continuation runs, only rows saved after the load was asked for. While the search goes on, the table has all the rows of the files later than the one it is at, and fewer than it asked for (`TableSearch`) |
| `AlwaysInOrder`, `AlwaysComplete` | `EndsAssumption` and the above | `SeriesInv`, in the same way and in both directions: the receiver has all the rows of the interval that are in the files between its beginning and the one the search is at (`SeriesLoad`) |
| `SpanAlwaysSuffices` | `OctetAssumption`, `PayloadsAssumption` | `MessageInv`: a datagram is what the cast has made of `sent`, or that with one byte changed, or a beginning of it (`Arrived`), and what was applied is the `Outcome` of a datagram and a memory. The spans are shown to be the lengths of what is filled |
| `FieldsAlwaysReturn` | the same | `MessageInv`, with `FixnumReturns`, `LengthReturns` and `FieldsReturnFrom`: fixnums, lengths and sequences return from wherever their octets occur |
| `CastIsAlwaysApplied` | the same, the assumptions about the header and the memory, and `WordsFit` | `MessageInv`, with `Carry`: adding the carries keeps the value of the accumulators modulo `Whole`, which is `Base * Base - 1`, and ends with two octets that are 0 only if there was nothing to add; so the checksum, added to the words it was made of, comes to 0 |
| `DamageIsAlwaysNoticed` | the same | `MessageInv`: a byte that is changed changes the sum by less than `Whole`, and so does not come to 0 (`DamageFails`), unless the byte is one of the checksum and makes the field 0, when the rest is as it was cast; and where the payload of a truncated datagram seems to end, when its length is read from what is left or from the memory behind it, is beyond the datagram (`TruncatedIsDiscarded`) |
| `ComputesArithmetic`: `Spec => Arithmetical` | `NaturalAssumption` | `Kept`, which is `NumbersInv` while `borne`: both numbers have a payload of octets without leading zeros in a memory with room for it. The refinement mapping is `a <- Value(x)`, `b <- Value(y)`: each operation that the code bears is one step of `Arithmetic`. The argument is below |
| `AlwaysCanonical`, `AlwaysObserved` | the same | `NumbersInv`; a payload without leading zeros is longer exactly if its value is larger, so that lengths may be compared first; the highest octet gives the integer length, and octets from any place on are the quotient by a power of `Base` |
| `NothingBeyondMatters` | `MessageInv`, `ForeignAssumption`, `MemoriesAssumption` | `OfOctets`: a datagram, a foreign one too, is a sequence of octets. If a value ends with the datagram, the octets of its length are in the datagram, and so it ends there whatever is behind (`SameEnd`); with fewer than 8 octets none does |

`OneMessageAtATime` (in `Network_proofs`) excludes the case of
section 5 in which two threads share `current_peer`.
`WordsFit` says that a datagram with a checksum has at most `Base` words: the run `slang_long` shows that it is needed.
`PayloadsAssumption` and `MemoriesAssumption` are what the encoding itself needs, a length of lengths
that fits an octet and memory behind the datagram that can be read. Since a length is a number in the model, `DamageIsAlwaysNoticed` and `NothingBeyondMatters` say
nothing about datagrams where what is read as a length is one of more than 8 octets.
TLC checks each inductive invariant's consequences on the instances above.

### The arithmetic of natural numbers

Every operator of `NaturalNumber` has a lemma that says what it makes: `Means(n, v)`, a canonical number with value `v`,
from canonical operands, for every width of an octet (`Bits`), every fixnum of `W` octets, every
capacity and whatever the memory holds beyond the payload. `StepsRight` puts them together to one step of `Arithmetic`.

* *Sums, products by a digit.* `Telescope` is the idea of all loops: if `d[i] + c[i - 1]` is `e[i] + c[i] * Base` for
  each digit, the value of `d` and the first carry is the value of `e` and the last carry times the power of `Base` above
  them. `CarriedOut` and `ReplacedIs` are the cases of a carry that needs an octet more; `PlusFixnumIs` shows why the
  octets of a fixnum above the payload may only be added where the memory has been zeroed.
* *Differences.* Octets are subtracted modulo `Base`, with a borrow instead of a carry. If a borrow is left, either the difference
  would be negative and is 0, or there is a payload above to take it from, up to the first octet that is not 0 (`DecreaseIs`).
* *Products.* After row j the room holds the product with the lowest j octets of the operand, below octets that are
  still those of before (`RowIs`, `TimesIs`), also when the room is in the memory of the number itself.
* *Long division.* The divisor is scaled until its highest octet is at least half of `Base` (`ShiftingIs`). The estimate
  `q_hat` from the two highest octets of the divisor and the three highest of the dividend, all scaled, is the
  right octet or one too large (`EstimateIs`, `EstimateIsNear`, `HighestAreNear`). The product is subtracted in
  unsigned octets; if a borrow is left, the octet was too large, and adding the divisor once makes what is left of the dividend
  smaller than the divisor again (`SubtractProductIs`, `DivisionStepIs`). That it is so before each octet is the invariant of the loop
  (`DivisionGoesOn`), and makes quotient and remainder unique (`LongDivisionIs`).
* *Powers.* Before each bit the product so far times the square to the rest of the exponent is the power
  (`ExptIs`), modulo the modulus (`ModularExptIs`).
* *Bits.* A number is cut into octets, or an octet into two parts, and the tables of `&`, `|` and `^` do not mix them (`BitsSplit`,
  `BitsOfDigits`, `PartedIs`, `JoinedIs`); shifts are products and quotients by powers of 2.

The theorems have no hypothesis about how the numbers are used. Each action says for which uses the code bears it (`Bears`),
and the lemma of each operator is proved from that condition; without any one of them `Arithmetical` or `Canonical`
would be false.

What a recursive function of a model computes is proved without the library's induction theorems, which
the provers cannot use: `Recursion` and `LoopKeeps` in `Network_proofs` and `NaturalArithmetic_proofs` take the least argument for which a claim fails (from
`WFMin`, or the minimum of a set of numbers) and derive a contradiction. Thus the octets, spans, sums and carries
of `AsnDer` and `SlangMessage`, and the loops over the digits of `NaturalNumber`, are shown for every input. Their `RECURSIVE` forms would be out of reach; they are functions.

Only model-checked are the liveness properties (`DueTimerRotates`, `ClearedIsFixed`, `LoadingEnds`, `UIEnters`,
`WaitersAreTold`), since the prover has neither fairness nor ENABLED. All invariants and action properties that
passing runs check, and both refinements, are theorems.

## 5. Disagreements between code and intent

Recorded by runs that end in a counterexample:

* `statement`: *"destruct last connection until next rotation for lockfree purpose"*
  (`Schema/sqlite3/rotation.cpp:46`). After a start just before a boundary the first
  rotation is asked for twice, since the timer keeps its interval of a second until
  the first creation is over. Both creations are applied back to back, and the second deletes the
  connection that a statement of the PLC thread, begun before both, still uses.
* `alarm_state`: *"update alarm state"* (`SCADA/schema/datalet/alarm_tbl.cpp:192`)
  looks for the row in the file that the time of the alarm resolves to, while it was
  inserted into the file employed. Just after a boundary these are different files, and the
  history shows the alarm as alerting for ever.
* `slang_long`: *"checksum of entire message [algorithm is the same as that used in
  IP/UDP/TCP]"* (`Jargon/peer/slang.cpp:35`). The accumulators are unsigned shorts
  (`Jargon/checksum/ipv4.cpp:18`) that overflow beyond 256 words; sender and receiver add in
  different portions and lose different carries, so that a long undamaged message is discarded.

Seen in the same models, with other constants, but not recorded by a run:

* negative numbers in the lower half of the room of their octets, -129 to -256 among them, return
  as positive ones (`Jargon/asn/der/base.cpp:36`): they are shifted until they are -1, whatever the highest octet
  shows. `Returned` in `FieldsReturn` says which;
* `ISlangDaemon::on_message` (`peer/slang.cpp:412-418`) does not give the peers the transaction, so that they can not
  recopy it as `slang.cpp:40` says;
* `peer/slang.cpp:159` accepts any datagram of more than 6 bytes or with the magic number,
  where `slang.cpp:32` describes both; `Accepted` models the code;
* a peer that throws `task_discarded`, `task_terminated` or `task_canceled` leaves its lock entered
  (`slang.cpp:177`), against the comment at `slang.cpp:443`: `uncleared` in
  `LocksAreReleased` and `UIEnters` says which;
* if the platform raises two datagrams' events concurrently, the two threads share
  `current_peer`: with two `Threads`, `LocksAreReleased` and `ToldInsideLock` fail;
* `cancel` of a loader cancels a token source that is never renewed: loads after it are accepted,
  never answered, and `loading()` stays true. `LoadingEnds` therefore speaks of loads
  that are not cancelled;
* *"this should not happen"* (`SCADA/widget/alarms.cpp:127`) does happen when the PLC delivers data while the
  UI thread steps through alerts.db: an alarm that the PLC thread does not find in the map yet is entered a second time, and `step`
  comes upon it. `overlap` in `MapIsAlertsDB` and `LedgerSpec` says how far their claims reach;
* uses that natural numbers do not bear, the conditions of `Bears`; without any one of them
  `Canonical` or `Arithmetical` fails: *"the rhs may refer to (\*this)"*
  (`Jargon/datum/natural.cpp:442`), but `n += n` without a spare octet goes on reading from the memory it has just
  replaced; an octet that is added where a fixnum is longer than the payload meets the leftovers
  before it (`:412`), and `0 += 0` has a payload of a zero octet; division by a fixnum of all octets shifts beyond them;
  modular exponentiation takes the modulus for a fixnum because the exponent is one
  (`fixed_b || fixed_b` at `:974`); a long exponent that is the number itself is read while it is replaced by its squares
  (`:125-139`); a fixnum is put into a memory that has less room;
* `is_bit_set` has `<=` for `<` (`natural.cpp:1311`): the bit just above the payload is what is left over there,
  or lies before the memory;
* `unload` takes the graphlet off a copy of the list (`Base/filesystem/msappdata.hxx:120`), so that only
  `lists.erase`, when the copy becomes empty, has an effect: one of several graphlets stays listed and is told
  after its destruction. So it is with the continuation of a task whose
  graphlet is gone (`:153`). Tasks of a file that overlap are not ordered, and the cache keeps the content of the
  one that ends last, while the file may hold another.

## 6. What is not modelled

* **In modelled components.** The destructor of the directory (none is destroyed
  before the process ends) and calendar arithmetic of months and years; SQLite's locks
  and busy handlers: a read is atomic for a writer, so a row that meets
  `SQLITE_BUSY` and is lost (`Schema/dbsystem.cpp:81`) is outside the models; failing file operations
  other than `CreateFileAsync`; a clock that is set back; multicast groups, of which the
  code leaves the member `group` null; booleans, naturals, reals and strings in DER; the text of
  natural numbers and their constructors from strings of other widths; the races of the
  maps of application data between *different* files, which have a mutex each.
* **Not yet.** SQLite binding, logging with shared reference counts, pages,
  settings, time streams, the timers of the dredging cycle, stream listener, the other
  users of application data (`msappx.hxx`, `msappdatalogue.hxx`): see the plan.
* **Not worth a model.** Drawing and layout, formatting and parsing of display
  strings, thin wrappers of the Windows API, the cipher's tables, the MSSQL binding that no
  program uses.
* **Third-party.** 135 000 of the 171 000 lines below `src/` are the generated headers of two versions of
  Win2D (`packages/`). Of what remains most is drawing and layout, so the share of the
  lines that the models stand for stays small.

## 7. Plan

Done, in this order, the most important behaviour first: the rotative directory
(everything recorded depends on it), its database, the alarms with their ledger, the loaders,
the watchdog, Slang with the part of DER it uses, natural numbers against their arithmetic, application
data files; proofs of the directory and its rotations, the connections, the ledger, the history, the loaders, the watchdog,
application data, Slang's locks and its messages, natural numbers and their arithmetic.

Next, to extend the models:

1. `SharedLog` - the logger chain, the remote receiver with its queue (`rsyslog.cpp:53-106`), and
   `SharedObject`'s count, against an abstract channel that sends every message once.
2. `SQLiteStatement` - prepare, step, exec with `SQLITE_BUSY` and errors, under the loaders and the journal.
3. the rest of `AsnDer` on top of `NaturalNumber`, whose operators are proved: naturals, booleans, reals and strings.
4. `DredgingTimes` (`DTPM/metrics/times.cpp`) and the time streams as another subclass of the directory.
5. `Page` - construction, registration, `load` and data handlers of a SCADA page, with the commands of
   the draughts page and their authorisation; then the state machines of hopper doors, pumps and valves.
6. the ghosts of the stream listener; `msappx.hxx` and `msappdatalogue.hxx` beside `MsAppdata`.

A run per question: new modules are composed where they interact, so that one
run checks them together.

Next, to prove: the invariants of the modules above as they come; and `SlangMessage` with lengths of the width of a `size_t`.
