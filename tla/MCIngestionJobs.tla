--------------------------- MODULE MCIngestionJobs ----------------------------
(* Small instances of IngestionJobs for TLC.                               *)
EXTENDS IngestionJobs, TLC

CONSTANTS b1, l1, h1

\* Each deployment runs the jobs that share tables, or one job.
SharedTables == {{"space-track", "celestrak"}, {"jpl-ssd", "nasa-neows"},
                 {"noaa-swpc"}, {Source[1], Source[2]}, {Source[2]}}

\* The jobs that write the same rows run once each.
Once == [j \in Job |-> IF j \in {"weather", "launches", "satcat"} THEN 2 ELSE 1]
=============================================================================
