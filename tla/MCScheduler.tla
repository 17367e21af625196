------------------------------- MODULE MCScheduler -------------------------------
(* Instances of Scheduler small enough for TLC. *)
EXTENDS SchedulerProperties, TLC

CONSTANTS i1, i2, j1, j2

OneOnBoth == i1 :> {j1, j2} @@ i2 :> {j1}
=============================================================================
