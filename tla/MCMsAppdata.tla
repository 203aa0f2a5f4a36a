----------------------------- MODULE MCMsAppdata -----------------------------
(* One graphlet creates the file when it is missing, the other does not.     *)
EXTENDS MsAppdata

CONSTANTS a, b, d, e, t1, t2

MCGraphlets == {a, b}
MCCreators == {a}
MCContents == {d, e}
MCTasks == {t1, t2}
=============================================================================
