----------------------------- MODULE MCJobRunner -----------------------------
(***************************************************************************)
(* Values of the constants of JobRunner for TLC.  One unit of time stands  *)
(* for about three minutes: a claim of 15 minutes is 5 units, the jitter   *)
(* of 5 minutes 1, a run 1: what LeaseOutlivesRun allows beside the delay  *)
(* and the skew of the clocks.                                             *)
(***************************************************************************)
EXTENDS JobRunner

CONSTANTS p1, p2, feed_poll

LongInterval == [j \in Jobs |-> 5]
ShortRunMax  == [j \in Jobs |-> 1]
SomeSkew     == [p \in Procs |-> IF p = p1 THEN 1 ELSE -1]

ASSUME LeaseOutlivesRun

=============================================================================
