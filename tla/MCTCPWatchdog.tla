--------------------------- MODULE MCTCPWatchdog ---------------------------
(* An instance of TCPWatchdog small enough for TLC: two timeouts, a device *)
(* that uses all the time it has, and listeners that take a while.         *)
EXTENDS TCPWatchdog

=============================================================================
