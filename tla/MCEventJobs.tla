---------------------------- MODULE MCEventJobs ----------------------------
(* Small instances of EventJobs for TLC. *)
EXTENDS EventJobs

CONSTANTS w1, w2, k1, k2

TwoWorkers == {w1, w2}
OneWorker == {w1}
TwoKeys == {k1, k2}
OneKey == {k1}
TwoJobs == {1, 2}

\* The worker's clock agrees with the database's, or is a second behind or ahead.
NoSkew == {0}
ClockSkew == {-1, 0, 1}
=============================================================================
