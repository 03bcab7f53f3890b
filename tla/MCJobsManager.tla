----------------------------- MODULE MCJobsManager -----------------------------
(* JobsManager on two threads, two ids and two jobs.                         *)
EXTENDS JobsManager, TLC

CONSTANTS t1, t2, i1, i2, d1, d2
=============================================================================
