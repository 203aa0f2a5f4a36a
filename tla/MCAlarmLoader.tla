--------------------------- MODULE MCAlarmLoader ---------------------------
(* An instance of AlarmLoader small enough for TLC: three periods, and the *)
(* search goes on beyond the first one.                                    *)
EXTENDS AlarmLoader

=============================================================================
