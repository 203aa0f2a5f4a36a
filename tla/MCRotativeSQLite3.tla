------------------------ MODULE MCRotativeSQLite3 ------------------------
(* An instance of RotativeSQLite3 small enough for TLC: four periods.     *)
EXTENDS RotativeSQLite3

=============================================================================
