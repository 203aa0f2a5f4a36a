---------------------------- MODULE AlarmLedger ----------------------------
(***************************************************************************)
(* What the alarm system promises of the alarms that are alerting: a set   *)
(* that survives every restart of the program, in which an alarm is        *)
(* entered when it begins to alert, at most once at a time, and from which *)
(* one entry is removed when it is fixed.  Once the ledger has been        *)
(* disturbed, written while it was read, an alarm may be entered again;    *)
(* entries still come and go one by one.                                   *)
(***************************************************************************)
CONSTANT Alarms     \* the possible entries, records with a field index

VARIABLES
  alerting,         \* the entries of the alarms that are alerting
  disturbed         \* has the ledger been written while it was read

Init == alerting = {} /\ disturbed = FALSE

Raise(alarm) ==
  /\ alarm \in Alarms \ alerting
  /\ disturbed \/ \A other \in alerting : other.index # alarm.index
  /\ alerting' = alerting \cup {alarm}
  /\ UNCHANGED disturbed

Fix(alarm) ==
  /\ alarm \in alerting
  /\ alerting' = alerting \ {alarm}
  /\ UNCHANGED disturbed

Disturb == disturbed' = TRUE /\ UNCHANGED alerting

\* A step enters or removes one of the entries before or after it.
Next == Disturb \/ \E alarm \in alerting \cup alerting' : Raise(alarm) \/ Fix(alarm)

Spec == Init /\ [][Next]_<<alerting, disturbed>>

=============================================================================
