-------------------------- MODULE MCRequestPipeline ---------------------------
(* Small instances of RequestPipeline for TLC.                             *)
EXTENDS RequestPipeline, TLC

CONSTANTS p1, p2, b1, b2

\* Enough for two writers to block each other, or for a quota to be used up
\* and its window to end.
TwoLoads == {[free |-> 4, limited |-> 0], [free |-> 0, limited |-> 3]}
=============================================================================
