------------------------- MODULE MCTimeSeriesLoader -------------------------
(* An instance of TimeSeriesLoader small enough for TLC: three periods.    *)
EXTENDS TimeSeriesLoader

=============================================================================
