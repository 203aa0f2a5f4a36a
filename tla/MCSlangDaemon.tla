--------------------------- MODULE MCSlangDaemon ---------------------------
(* An instance of SlangDaemon small enough for TLC.                        *)
EXTENDS SlangDaemon

CONSTANTS p1, p2, p3

ThreePeers == <<p1, p2, p3>>

=============================================================================
