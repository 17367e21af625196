-------------------------------- MODULE Scheduler --------------------------------
(* The scheduled jobs of several app instances: each run waits for one of its
   instance's slots, takes the job's lease in Redis, or an advisory lock of Postgres
   when Redis does not answer, does the job, and gives both back. A run may hang, an
   instance may crash, and Redis may fail a command or lose its answer.

   Production, where Redis is required; without it there is one instance only. *)
EXTENDS Integers, Sequences, FiniteSets

CONSTANTS Instances, Jobs,
          JobsOf,        \* the jobs each instance schedules: one may be switched off there
          MaxConcurrent, \* SCHEDULER_CONCURRENCY
          Tokens,        \* bound: the tokens a job's runs at an instance may have
          MaxFaults,     \* bound: commands Redis fails, renewals missed
          MaxCrashes     \* bound

ASSUME JobAssumption == JobsOf \in [Instances -> SUBSET Jobs]
ASSUME ConcurrencyAssumption == MaxConcurrent \in Nat \ {0}
ASSUME BoundAssumption == Tokens \in Nat /\ MaxFaults \in Nat /\ MaxCrashes \in Nat

(* A run, known by the token of its lease. *)
Runs == [at: Instances, job: Jobs, token: 1..Tokens]

Free == [token |-> 0]

VARIABLES
  running,  \* the jobs each instance has marked running
  active,   \* the slots it counts as taken
  waiting,  \* its runs that wait for one, in order
  run,      \* the runs
  lease,    \* lock:job:<name> in Redis
  advisory, \* pg_try_advisory_xact_lock
  faults, crashes

budget == <<faults, crashes>>
vars == <<running, active, waiting, run, lease, advisory, budget>>

Steps == {"none", "waiting", "locking", "fallback", "doing", "releasing"}

(* lock: what the run holds or held; overrun: its time is up; missed: its lease
   expired under it. *)
Unbegun == [step |-> "none", lock |-> "none", overrun |-> FALSE, missed |-> FALSE]

Init ==
  /\ running = [i \in Instances |-> {}]
  /\ active = [i \in Instances |-> 0]
  /\ waiting = [i \in Instances |-> <<>>]
  /\ run = [t \in Runs |-> Unbegun]
  /\ lease = [j \in Jobs |-> Free]
  /\ advisory = [j \in Jobs |-> Free]
  /\ faults = 0 /\ crashes = 0

Fault == faults < MaxFaults /\ faults' = faults + 1 /\ UNCHANGED crashes

-----------------------------------------------------------------------------
(* A token is not used again while a lease bears it; the smallest is as good as any. *)
Unused(t) == run[t].step = "none" /\ lease[t.job] # t

IsNew(t) == Unused(t) /\ \A n \in 1..(t.token - 1) : ~Unused([t EXCEPT !.token = n])

(* takeSlot, when the timer of job j fires at i. *)
Tick(i, j) ==
  /\ j \in JobsOf[i] \ running[i]
  /\ running' = [running EXCEPT ![i] = @ \union {j}]
  /\ \E t \in Runs :
       /\ t.at = i /\ t.job = j /\ IsNew(t)
       /\ IF active[i] < MaxConcurrent
          THEN /\ active' = [active EXCEPT ![i] = @ + 1]
               /\ run' = [run EXCEPT ![t].step = "locking"]
               /\ UNCHANGED waiting
          ELSE /\ waiting' = [waiting EXCEPT ![i] = Append(@, t)]
               /\ run' = [run EXCEPT ![t].step = "waiting"]
               /\ UNCHANGED active
  /\ UNCHANGED <<lease, advisory, budget>>

(* freeSlot: handed to the run that has waited longest. `rows` are the runs as they
   are but for that. *)
FreeSlot(i, rows) ==
  IF waiting[i] # <<>>
  THEN /\ waiting' = [waiting EXCEPT ![i] = Tail(@)]
       /\ run' = [rows EXCEPT ![Head(waiting[i])].step = "locking"]
       /\ UNCHANGED active
  ELSE /\ active' = [active EXCEPT ![i] = @ - 1]
       /\ run' = rows
       /\ UNCHANGED waiting

Settle_FreeAgain(t) ==   \* slip: a run that had given up its slot gives one up again
  /\ running' = [running EXCEPT ![t.at] = @ \ {t.job}]
  /\ FreeSlot(t.at, [run EXCEPT ![t] = Unbegun])

(* The run is over: the mark goes, and the slot, unless it was freed before. *)
Settle(t) ==
  /\ running' = [running EXCEPT ![t.at] = @ \ {t.job}]
  /\ IF run[t].overrun
     THEN run' = [run EXCEPT ![t] = Unbegun] /\ UNCHANGED <<active, waiting>>
     ELSE FreeSlot(t.at, [run EXCEPT ![t] = Unbegun])

Goes(t, row) ==
  /\ run' = [run EXCEPT ![t] = row]
  /\ UNCHANGED <<running, active, waiting>>

-----------------------------------------------------------------------------
(* withLock. *)

Doing(t, lock) == [run[t] EXCEPT !.step = "doing", !.lock = lock]

(* SET NX: the lease, or somebody else has it. *)
TakeLease(t) ==
  /\ run[t].step = "locking"
  /\ LET j == t.job
     IN  IF lease[j] = Free
         THEN lease' = [lease EXCEPT ![j] = t] /\ Goes(t, Doing(t, "lease"))
         ELSE UNCHANGED lease /\ Settle(t)
  /\ UNCHANGED <<advisory, budget>>

(* No answer to it; it may have been set all the same. *)
LeaseFails(t, set) ==
  /\ run[t].step = "locking"
  /\ set => lease[t.job] = Free
  /\ lease' = IF set THEN [lease EXCEPT ![t.job] = t] ELSE lease
  /\ Goes(t, [run[t] EXCEPT !.step = "fallback"])
  /\ Fault
  /\ UNCHANGED advisory

(* withAdvisoryLock. *)
TakeAdvisory(t) ==
  /\ run[t].step = "fallback"
  /\ LET j == t.job
     IN  IF advisory[j] = Free
         THEN advisory' = [advisory EXCEPT ![j] = t] /\ Goes(t, Doing(t, "advisory"))
         ELSE UNCHANGED advisory /\ Settle(t)
  /\ UNCHANGED <<lease, budget>>

(* No connection within maxWait; the fault that led here is spent already. *)
NoConnection(t) ==
  /\ run[t].step = "fallback"
  /\ Settle(t)
  /\ UNCHANGED <<lease, advisory, budget>>

(* The job ends, well or not. *)
FinishJob(t) ==
  /\ run[t].step = "doing"
  /\ Goes(t, [run[t] EXCEPT !.step = "releasing"])
  /\ UNCHANGED <<lease, advisory, budget>>

Renewing(t) == run[t].step = "doing" /\ run[t].lock = "lease" /\ ~run[t].overrun

Kept(holder, t) == IF holder = t THEN Free ELSE holder

ReleaseLock_Blind(t) ==   \* slip: the key is deleted whoever holds it by now
  /\ run[t].step = "releasing"
  /\ lease' = IF run[t].lock = "lease" THEN [lease EXCEPT ![t.job] = Free] ELSE lease
  /\ advisory' = [advisory EXCEPT ![t.job] = Kept(@, t)]
  /\ Settle(t)
  /\ UNCHANGED budget

(* RELEASE deletes the lease only if it is still this run's, and so with the
   transaction's lock when the transaction has not timed out. *)
ReleaseLock(t) ==
  /\ run[t].step = "releasing"
  /\ lease' = IF run[t].lock = "lease"
              THEN [lease EXCEPT ![t.job] = Kept(@, t)] ELSE lease
  /\ advisory' = [advisory EXCEPT ![t.job] = Kept(@, t)]
  /\ Settle(t)
  /\ UNCHANGED budget

(* It does not reach Redis. *)
ReleaseFails(t) ==
  /\ run[t].step = "releasing" /\ run[t].lock = "lease"
  /\ Settle(t)
  /\ Fault
  /\ UNCHANGED <<lease, advisory>>

-----------------------------------------------------------------------------
(* Time. *)

Deadline_SlotKept(t) ==   \* slip: a run that hangs keeps its slot
  /\ run[t].step \in {"doing", "releasing"} /\ ~run[t].overrun
  /\ Goes(t, [run[t] EXCEPT !.overrun = TRUE])
  /\ UNCHANGED <<lease, advisory, budget>>

(* maxMs: the run gives up its slot and stops renewing; its job stays marked. *)
Deadline(t) ==
  /\ run[t].step \in {"doing", "releasing"} /\ ~run[t].overrun
  /\ FreeSlot(t.at, [run EXCEPT ![t].overrun = TRUE])
  /\ UNCHANGED <<running, lease, advisory, budget>>

(* The transaction that holds the advisory lock is rolled back at maxMs too. *)
TransactionTimesOut(t) ==
  /\ run[t].overrun /\ run[t].step \in {"doing", "releasing"}
  /\ advisory[t.job] = t
  /\ advisory' = [advisory EXCEPT ![t.job] = Free]
  /\ UNCHANGED <<running, active, waiting, run, lease, budget>>

(* A lease that is no longer renewed. *)
Expire(j) ==
  /\ lease[j] # Free /\ ~Renewing(lease[j])
  /\ lease' = [lease EXCEPT ![j] = Free]
  /\ run' = IF run[lease[j]].lock = "lease" THEN [run EXCEPT ![lease[j]].missed = TRUE] ELSE run
  /\ UNCHANGED <<running, active, waiting, advisory, budget>>

(* A minute of failed renewals, or of an event loop that stands still. *)
MissRenewals(j) ==
  /\ lease[j] # Free /\ Renewing(lease[j])
  /\ lease' = [lease EXCEPT ![j] = Free]
  /\ Goes(lease[j], [run[lease[j]] EXCEPT !.missed = TRUE])
  /\ Fault
  /\ UNCHANGED advisory

(* What Redis keeps stays; Postgres drops the connection's locks. *)
Crash(i) ==
  /\ crashes < MaxCrashes /\ crashes' = crashes + 1
  /\ running' = [running EXCEPT ![i] = {}]
  /\ active' = [active EXCEPT ![i] = 0]
  /\ waiting' = [waiting EXCEPT ![i] = <<>>]
  /\ run' = [t \in Runs |-> IF t.at = i THEN Unbegun ELSE run[t]]
  /\ advisory' = [j \in Jobs |-> IF advisory[j] # Free /\ advisory[j].at = i
                                 THEN Free ELSE advisory[j]]
  /\ UNCHANGED <<lease, faults>>

-----------------------------------------------------------------------------
Locking(t) == TakeLease(t) \/ TakeAdvisory(t)

Faulty(t) ==
  \/ \E set \in BOOLEAN : LeaseFails(t, set)
  \/ NoConnection(t) \/ ReleaseFails(t)

Next ==
  \/ \E i \in Instances, j \in Jobs : Tick(i, j)
  \/ \E t \in Runs : \/ Locking(t) \/ FinishJob(t) \/ ReleaseLock(t)
                     \/ Deadline(t) \/ TransactionTimesOut(t) \/ Faulty(t)
  \/ \E j \in Jobs : Expire(j) \/ MissRenewals(j)
  \/ \E i \in Instances : Crash(i)

Spec == Init /\ [][Next]_vars

(* Timers fire, and Redis and Postgres answer or fail in time; a job may hang. *)
FairSpec ==
  /\ Spec
  /\ \A i \in Instances, j \in Jobs : WF_vars(Tick(i, j))
  /\ \A t \in Runs : /\ WF_vars(Locking(t)) /\ WF_vars(ReleaseLock(t))
                     /\ WF_vars(Deadline(t)) /\ WF_vars(TransactionTimesOut(t))
  /\ \A j \in Jobs : WF_vars(Expire(j))
=============================================================================
