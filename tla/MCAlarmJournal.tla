--------------------------- MODULE MCAlarmJournal ---------------------------
(* Instances of AlarmJournal small enough for TLC.                         *)
EXTENDS AlarmJournal

=============================================================================
