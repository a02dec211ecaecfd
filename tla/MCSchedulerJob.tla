---------------------------- MODULE MCSchedulerJob ----------------------------
(* Small instances of SchedulerJob for TLC.                                *)
EXTENDS SchedulerJob, TLC

CONSTANTS r1, r2

=============================================================================
