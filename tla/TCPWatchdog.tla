---------------------------- MODULE TCPWatchdog ----------------------------
(***************************************************************************)
(* The watchdog of a connection to a PLC or a GPS (network/tcp.cpp,        *)
(* network/tcp.hpp).  A periodic timer of the UI thread makes a connection *)
(* that has received no data for too long commit suicide, so that it is    *)
(* made again.                                                             *)
(*                                                                         *)
(* Data are received by another thread, which takes the time before it     *)
(* tells the listeners and writes it to last_heartbeat when all of them    *)
(* have returned: also while the UI thread is between the check of a tick, *)
(* the suicide and the reset of the heartbeat.                             *)
(***************************************************************************)
EXTENDS Integers

CONSTANTS
  Timeouts,     \* what set_suicide_timeout is called with; 0 stops the timer
  MaxGap,       \* a device that works sends within this time of the last data
  MaxHandling,  \* bound on the time the listeners take
  MaxLag,       \* bound on the delay of a tick and the time it takes
  Horizon       \* bound on the clock

ASSUME TimeoutsAssumption == Timeouts \subseteq Nat /\ Timeouts # {}
ASSUME TimesAssumption ==
  /\ MaxGap \in Nat \ {0} /\ MaxLag \in Nat /\ Horizon \in Nat
  /\ MaxHandling \in 0 .. MaxGap

\* The timeout is meant for devices that send and are listened to in time.
ASSUME MeantAssumption == \A ms \in Timeouts \ {0} : MaxGap + MaxHandling <= ms

VARIABLES
  now,             \* milliseconds, truncated
  last_heartbeat,
  timeout,         \* of the TCPKiller
  due,             \* when the timer's next tick is due, if it is started
  timestamp,       \* when the data being handled were received, or Idle
  device,          \* "works" if data have been handled and it has sent since
  check            \* where suicide_if_timeout of the UI thread is

watchdog_vars == <<now, last_heartbeat, timeout, due, timestamp, device, check>>

Idle == -1

reset_heartbeat == last_heartbeat' = now

\* make_gps and the constructor of PLCMaster set the timeout.
WatchdogInit ==
  /\ now = 0
  /\ last_heartbeat = 0
  /\ timeout \in Timeouts
  /\ due = timeout
  /\ timestamp = Idle
  /\ device = "silent"
  /\ check = "none"

\* A bug: the heartbeat is that of the first tick to come.
set_suicide_timeout_ahead(ms) ==
  /\ check = "none"
  /\ timeout' = ms
  /\ due' = now + ms
  /\ last_heartbeat' = due'
  /\ UNCHANGED <<now, timestamp, device, check>>

set_suicide_timeout(ms) ==
  /\ check = "none"
  /\ timeout' = ms
  /\ due' = now + ms
  /\ reset_heartbeat
  /\ UNCHANGED <<now, timestamp, device, check>>

Started == timeout > 0

TimerTick == check = "none" /\ Started /\ due <= now

\* The interval is counted from when the last tick was due or from when it was
\* handled.
TickHandled == due' \in {due + timeout, now + timeout}

Expired == now - last_heartbeat > timeout

Passes ==
  /\ TimerTick /\ ~Expired
  /\ TickHandled
  /\ UNCHANGED <<now, last_heartbeat, timeout, timestamp, device, check>>

Expires ==
  /\ TimerTick /\ Expired
  /\ check' = "expired"
  /\ UNCHANGED <<now, last_heartbeat, timeout, due, timestamp, device>>

\* It closes the stream, and the connection is made anew.
suicide ==
  /\ check = "expired"
  /\ check' = "killed"
  /\ device' = "silent"
  /\ UNCHANGED <<now, last_heartbeat, timeout, due, timestamp>>

\* A bug: the heartbeat of the dead connection is kept.
MadeAnew_keeps_heartbeat ==
  /\ check = "killed"
  /\ check' = "none"
  /\ TickHandled
  /\ UNCHANGED <<now, last_heartbeat, timeout, timestamp, device>>

MadeAnew ==
  /\ check = "killed"
  /\ check' = "none"
  /\ reset_heartbeat
  /\ TickHandled
  /\ UNCHANGED <<now, timeout, timestamp, device>>

notify_data_received ==
  /\ timestamp = Idle
  /\ timestamp' = now
  /\ UNCHANGED <<now, last_heartbeat, timeout, due, device, check>>

\* A bug: the heartbeat is that of the data before.
ListenersTold_late ==
  /\ timestamp # Idle
  /\ last_heartbeat' = last_heartbeat
  /\ timestamp' = Idle
  /\ device' = "works"
  /\ UNCHANGED <<now, timeout, due, check>>

\* The inexact time is rounded, to the truncated one or to the next.
ListenersTold ==
  /\ timestamp # Idle
  /\ last_heartbeat' \in {timestamp, timestamp + 1}
  /\ timestamp' = Idle
  /\ device' = "works"
  /\ UNCHANGED <<now, timeout, due, check>>

\* The device, the power of the device, or the network.
FallSilent ==
  /\ device = "works"
  /\ device' = "silent"
  /\ UNCHANGED <<now, last_heartbeat, timeout, due, timestamp, check>>

ClockTick ==
  /\ now < Horizon
  /\ Started => now < due + MaxLag
  /\ timestamp # Idle => now < timestamp + MaxHandling
  /\ device = "works" /\ timestamp = Idle => now < last_heartbeat + MaxGap
  /\ now' = now + 1
  /\ UNCHANGED <<last_heartbeat, timeout, due, timestamp, device, check>>

WatchdogNext ==
  \/ \E ms \in Timeouts : set_suicide_timeout(ms)
  \/ Passes \/ Expires \/ suicide \/ MadeAnew
  \/ notify_data_received \/ ListenersTold
  \/ FallSilent \/ ClockTick

WatchdogSpec == WatchdogInit /\ [][WatchdogNext]_watchdog_vars

-----------------------------------------------------------------------------
\* Types of the variables.  The heartbeat may be later than the clock, which is
\* truncated and it is not, by no more than a millisecond.
WatchdogTypeOK ==
  /\ now \in Nat /\ last_heartbeat \in 0 .. now + 1
  /\ timeout \in Timeouts /\ due \in Nat
  /\ timestamp \in {Idle} \cup 0 .. now
  /\ device \in {"works", "silent"}
  /\ check \in {"none", "expired", "killed"}

\* No connection whose device works is found to have expired, however late the
\* ticks are and however long the listeners take, although the heartbeat says
\* nothing of the data they are still being told of.  One that begins to work
\* again after it was found so is killed all the same, but it had not sent until
\* shortly before the tick was due, if then.
WorkingIsSpared ==
  [][/\ Expires => device = "silent"
     /\ suicide => device = "silent" \/ due <= last_heartbeat + MaxHandling]_watchdog_vars

\* A connection does not stay silent for more than two timeouts: by then it has
\* been killed, or the timeout set again, whatever was received when.
SilentIsKilled == Started => now - last_heartbeat <= 2 * timeout + MaxLag

\* Why it is so: a tick is due within two timeouts of the heartbeat, even if the
\* heartbeat was put back by listeners that returned after a reset; and a
\* connection can be found to have expired only while its device is silent.
WatchInv ==
  /\ WatchdogTypeOK
  /\ timestamp # Idle => now <= timestamp + MaxHandling
  /\ Started => /\ due <= now + timeout /\ now <= due + MaxLag
                /\ due <= last_heartbeat + 2 * timeout
  /\ device = "works" => IF timestamp = Idle THEN now <= last_heartbeat + MaxGap
                                  ELSE timestamp <= last_heartbeat + MaxGap
  /\ check # "none" => Started /\ due <= now
  /\ check = "expired" /\ device = "works" => due <= last_heartbeat + MaxHandling

=============================================================================
