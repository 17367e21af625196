--------------------------- MODULE SchedulerProperties ---------------------------
(* What the scheduler promises of the jobs it runs. *)
EXTENDS Scheduler

RunRows ==
  [step: Steps, lock: {"none", "lease", "advisory"}, overrun: BOOLEAN, missed: BOOLEAN]

Under(i) == {t \in Runs : run[t].step # "none" /\ t.at = i}

(* Types, and: the jobs marked running at an instance are those of its runs. *)
TypeOK ==
  /\ running \in [Instances -> SUBSET Jobs]
  /\ active \in [Instances -> Nat]
  /\ waiting \in [Instances -> Seq(Runs)]
  /\ run \in [Runs -> RunRows]
  /\ lease \in [Jobs -> Runs \union {Free}] /\ advisory \in [Jobs -> Runs \union {Free}]
  /\ faults \in 0..MaxFaults /\ crashes \in 0..MaxCrashes
  /\ \A i \in Instances : running[i] = {t.job : t \in Under(i)}

HoldsSlot(t) == run[t].step \notin {"none", "waiting"} /\ ~run[t].overrun

(* No slot is lost, made up or left idle while a run waits, whatever hangs past its
   deadline and finishes after all. *)
SlotsAreKept ==
  \A i \in Instances :
    /\ active[i] = Cardinality({t \in Under(i) : HoldsSlot(t)})
    /\ active[i] <= MaxConcurrent
    /\ waiting[i] # <<>> => active[i] = MaxConcurrent

Sound(t) == run[t].step = "doing" /\ ~run[t].overrun /\ ~run[t].missed

(* A job that hangs is not started a second time beside itself; and of two instances
   that do the same job at once, one has run past its time, has lost its lease
   unnoticed, or has gone another way than the other, Redis failing it: a run that
   ends late takes nobody else's lease with it. *)
OneOfAKind ==
  \A t, u \in Runs :
    t # u /\ t.job = u.job =>
      /\ run[t].step # "none" /\ run[u].step # "none" => t.at # u.at
      /\ Sound(t) /\ Sound(u) => run[t].lock # run[u].lock

Waits(i, j) == \E t \in Under(i) : t.job = j /\ run[t].step = "waiting"

(* Runs that hang do not park the others, who wait for a slot and get it; and no job
   is left undone for good, whoever died or lost an answer with its lease. *)
JobsGoOn ==
  \A j \in Jobs :
    /\ \A i \in Instances : Waits(i, j) ~> ~Waits(i, j)
    /\ []<>(\E t \in Runs : t.job = j /\ run[t].step = "doing")

-----------------------------------------------------------------------------
(* "so only one instance does a given job at a time" (scheduler.ts). *)
OneInstanceAtATime ==
  \A t, u \in Runs : run[t].step = "doing" /\ run[u].step = "doing" /\ t.job = u.job
                       => t = u
=============================================================================
