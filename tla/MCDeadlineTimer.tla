--------------------------- MODULE MCDeadlineTimer ---------------------------
(* Small instances of DeadlineTimer for TLC. *)
EXTENDS DeadlineTimer
CONSTANTS x, y, k1, k2
=============================================================================
