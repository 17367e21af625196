----------------------------- MODULE SchedulerProofs -----------------------------
(* What SchedulerProperties says of slots and locks, proved for any instances and
   jobs, any number of runs, faults and crashes. *)
EXTENDS SchedulerProperties, FiniteSetTheorems, TLAPS

Early == {"none", "waiting", "locking", "fallback"}

(* A run that has no lock yet has nothing to show but its step. *)
EarlyRows ==
  \A t \in Runs : run[t].step \in Early => run[t] = [Unbegun EXCEPT !.step = run[t].step]

DeskTyped ==
  /\ running \in [Instances -> SUBSET Jobs] /\ active \in [Instances -> Nat]
  /\ waiting \in [Instances -> Seq(Runs)] /\ run \in [Runs -> RunRows]

Marked == \A i \in Instances : running[i] = {t.job : t \in Under(i)}

OneRunEach ==
  \A t, u \in Runs : t # u /\ t.job = u.job /\ run[t].step # "none" /\ run[u].step # "none"
                       => t.at # u.at

(* Who queues at an instance waits there, and once. *)
Queued ==
  \A i \in Instances :
    /\ \A n \in 1..Len(waiting[i]) : waiting[i][n].at = i /\ run[waiting[i][n]].step = "waiting"
    /\ \A m, n \in 1..Len(waiting[i]) : m # n => waiting[i][m] # waiting[i][n]

Holders(i) == {t \in Runs : t.at = i /\ HoldsSlot(t)}

SlotsCounted ==
  \A i \in Instances :
    /\ IsFiniteSet(Holders(i)) /\ active[i] = Cardinality(Holders(i))
    /\ active[i] <= MaxConcurrent
    /\ waiting[i] # <<>> => active[i] = MaxConcurrent

Desk == DeskTyped /\ EarlyRows /\ Marked /\ OneRunEach /\ Queued /\ SlotsCounted

LEMMA UnbegunIsRow ==
  /\ Unbegun \in RunRows /\ Unbegun.step = "none" /\ Unbegun.overrun = FALSE
  /\ Unbegun.lock = "none" /\ Unbegun.missed = FALSE
BY DEF Unbegun, RunRows, Steps

LEMMA RunsHave ==
  ASSUME NEW t \in Runs
  PROVE  t.at \in Instances /\ t.job \in Jobs
BY DEF Runs

LEMMA SlotsCountedSuffices == Desk => SlotsAreKept
<1> SUFFICES ASSUME Desk, NEW i \in Instances
             PROVE  /\ active[i] = Cardinality({t \in Under(i) : HoldsSlot(t)})
                    /\ active[i] <= MaxConcurrent
                    /\ waiting[i] # <<>> => active[i] = MaxConcurrent
  BY DEF SlotsAreKept
<1>1. {t \in Under(i) : HoldsSlot(t)} = Holders(i)
  BY DEF Under, Holders, HoldsSlot
<1> QED
  BY <1>1 DEF Desk, SlotsCounted

-----------------------------------------------------------------------------
(* A run under way that goes on, as Goes does it: it keeps its mark, and its slot if
   it had one. *)
LEMMA GoingOnKeepsDesk ==
  ASSUME Desk, NEW t \in Runs, NEW row \in RunRows,
         run[t].step \notin {"none", "waiting"}, row.step \notin {"none", "waiting"},
         row.overrun = run[t].overrun,
         row.step \in Early => row = [Unbegun EXCEPT !.step = row.step],
         Goes(t, row)
  PROVE  Desk'
<1>0. /\ run \in [Runs -> RunRows] /\ run' = [run EXCEPT ![t] = row]
      /\ running' = running /\ active' = active /\ waiting' = waiting
  BY DEF Desk, DeskTyped, Goes
<1>1. /\ run'[t] = row /\ \A u \in Runs \ {t} : run'[u] = run[u]
      /\ \A u \in Runs : run'[u].step = "none" <=> run[u].step = "none"
      /\ \A u \in Runs : run'[u].step = "waiting" <=> run[u].step = "waiting"
  BY <1>0
<1>2. DeskTyped'
  BY <1>0 DEF Desk, DeskTyped
<1>3. EarlyRows'
  BY <1>1 DEF Desk, EarlyRows
<1>4. Marked'
  <2>1. \A i \in Instances : Under(i)' = Under(i)
    BY <1>1 DEF Under
  <2> QED BY <1>0, <2>1 DEF Desk, Marked
<1>5. OneRunEach'
  BY <1>1 DEF Desk, OneRunEach
<1>6. Queued'
  <2>1. \A i \in Instances : \A n \in 1..Len(waiting[i]) : waiting[i][n] \in Runs
    BY DEF Desk, DeskTyped
  <2> QED BY <1>0, <1>1, <2>1 DEF Desk, Queued
<1>7. SlotsCounted'
  <2>1. \A i \in Instances : Holders(i)' = Holders(i)
    BY <1>1 DEF Holders, HoldsSlot
  <2> QED BY <1>0, <2>1 DEF Desk, SlotsCounted
<1> QED
  BY <1>2, <1>3, <1>4, <1>5, <1>6, <1>7 DEF Desk

-----------------------------------------------------------------------------
(* The marks follow the runs: that of a run that ends goes, the others stay. *)
LEMMA MarkGoes ==
  ASSUME Desk, NEW t \in Runs, run[t].step # "none",
         \A u \in Runs : run'[u].step # "none" <=> u # t /\ run[u].step # "none",
         running' = [running EXCEPT ![t.at] = @ \ {t.job}]
  PROVE  Marked' /\ OneRunEach'
<1>1. \A i \in Instances : Under(i)' = Under(i) \ {t}
  BY DEF Under
<1>2. OneRunEach'
  BY DEF Desk, OneRunEach
<1>3. ASSUME NEW i \in Instances PROVE running'[i] = {u.job : u \in Under(i) \ {t}}
  <2>1. /\ running[i] = {u.job : u \in Under(i)} /\ running \in [Instances -> SUBSET Jobs]
        /\ t.at \in Instances
    BY RunsHave DEF Desk, Marked, DeskTyped
  <2>2. CASE i # t.at
    BY <2>1, <2>2 DEF Under
  <2>3. CASE i = t.at
    <3>1. \A u \in Under(i) : u # t => u.job # t.job
      BY <2>3 DEF Desk, OneRunEach, Under
    <3>2. running'[i] = running[i] \ {t.job}
      BY <2>1, <2>3
    <3> QED BY <2>1, <2>3, <3>1, <3>2 DEF Under
  <2> QED BY <2>2, <2>3
<1> QED BY <1>1, <1>2, <1>3 DEF Marked

LEMMA MarksStay ==
  ASSUME Desk, \A u \in Runs : run'[u].step # "none" <=> run[u].step # "none",
         running' = running
  PROVE  Marked' /\ OneRunEach'
<1>1. \A i \in Instances : Under(i)' = Under(i)
  BY DEF Under
<1> QED BY <1>1 DEF Desk, Marked, OneRunEach

(* A slot given up, by a run that ends or runs out of time: the first in the queue
   has it, or nobody. *)
LEMMA FreeingKeepsDesk ==
  ASSUME Desk, NEW t \in Runs, NEW row \in RunRows, HoldsSlot(t),
         \/ row = Unbegun
         \/ row = [run[t] EXCEPT !.overrun = TRUE] /\ run[t].step \notin Early,
         FreeSlot(t.at, [run EXCEPT ![t] = row]),
         running' = IF row = Unbegun THEN [running EXCEPT ![t.at] = @ \ {t.job}] ELSE running
  PROVE  Desk'
<1> DEFINE i == t.at
<1>0. /\ run \in [Runs -> RunRows] /\ waiting \in [Instances -> Seq(Runs)]
      /\ running \in [Instances -> SUBSET Jobs]
      /\ active \in [Instances -> Nat] /\ i \in Instances /\ t.job \in Jobs
      /\ run[t] \in RunRows
      /\ run[t].step \notin {"none", "waiting"} /\ run[t].overrun = FALSE
  BY RunsHave DEF Desk, DeskTyped, HoldsSlot, RunRows
<1>1. /\ row.step \in {"none"} \union (Steps \ Early)
      /\ row.step = "none" <=> row = Unbegun
      /\ row.step # "none" => row.step = run[t].step /\ row.overrun = TRUE
      /\ row.step \in Early => row = [Unbegun EXCEPT !.step = row.step]
      /\ row.step # "waiting"
  BY <1>0, UnbegunIsRow DEF RunRows, Early, Unbegun, Steps
(* Who gets the slot. *)
<1>2. CASE waiting[i] # <<>>
  <2> DEFINE h == Head(waiting[i])
             next == [run[h] EXCEPT !.step = "locking"]
  <2>1. /\ Len(waiting[i]) >= 1 /\ h = waiting[i][1] /\ h \in Runs /\ waiting[i] \in Seq(Runs)
        /\ Len(waiting[i]) \in Nat
    BY <1>0, <1>2
  <2>2. h.at = i /\ run[h].step = "waiting"
    BY <1>0, <2>1 DEF Desk, Queued
  <2>3. h # t
    BY <1>0, <2>2
  <2> HIDE DEF h
  <2>4. /\ next \in RunRows /\ next.step = "locking" /\ next.overrun = FALSE
        /\ next = [Unbegun EXCEPT !.step = "locking"]
    BY <1>0, <2>1, <2>2, UnbegunIsRow DEF Desk, EarlyRows, Early, RunRows, Steps, Unbegun
  <2>5. /\ run' = [[run EXCEPT ![t] = row] EXCEPT ![h].step = "locking"]
        /\ waiting' = [waiting EXCEPT ![i] = Tail(@)] /\ active' = active
    BY <1>2 DEF FreeSlot, h
  <2>6. /\ run'[t] = row /\ run'[h] = next /\ \A u \in Runs \ {t, h} : run'[u] = run[u]
        /\ run' \in [Runs -> RunRows]
    BY <1>0, <2>1, <2>3, <2>4, <2>5
  <2> HIDE DEF next
  <2>7. DeskTyped'
    <3>1. waiting' \in [Instances -> Seq(Runs)]
      BY <1>0, <1>2, <2>5
    <3>2. running' \in [Instances -> SUBSET Jobs]
      BY <1>0
    <3> QED BY <1>0, <2>5, <2>6, <3>1, <3>2 DEF DeskTyped
  <2>8. EarlyRows'
    <3> SUFFICES ASSUME NEW u \in Runs, run'[u].step \in Early
                 PROVE  run'[u] = [Unbegun EXCEPT !.step = run'[u].step]
      BY DEF EarlyRows
    <3>1. CASE u = t
      BY <1>1, <2>6, <3>1
    <3>2. CASE u = h
      BY <2>4, <2>6, <3>2
    <3>3. CASE u \notin {t, h}
      BY <2>6, <3>3 DEF Desk, EarlyRows
    <3> QED BY <3>1, <3>2, <3>3
  <2>9. OneRunEach' /\ Marked'
    <3>1. \A u \in Runs : run'[u].step # "none" <=> run[u].step # "none" /\ (u # t \/ row # Unbegun)
      BY <1>0, <1>1, <2>2, <2>4, <2>6
    <3>2. CASE row = Unbegun
      BY <1>0, <3>1, <3>2, MarkGoes
    <3>3. CASE row # Unbegun
      BY <3>1, <3>3, MarksStay
    <3> QED BY <3>2, <3>3
  <2>10. Queued'
    <3> SUFFICES ASSUME NEW j \in Instances
                 PROVE  /\ \A n \in 1..Len(waiting'[j]) :
                             waiting'[j][n].at = j /\ run'[waiting'[j][n]].step = "waiting"
                        /\ \A m, n \in 1..Len(waiting'[j]) :
                             m # n => waiting'[j][m] # waiting'[j][n]
      BY DEF Queued
    <3>1. /\ waiting[j] \in Seq(Runs)
          /\ \A n \in 1..Len(waiting[j]) : /\ waiting[j][n].at = j /\ waiting[j][n] \in Runs
                                           /\ run[waiting[j][n]].step = "waiting"
          /\ \A m, n \in 1..Len(waiting[j]) : m # n => waiting[j][m] # waiting[j][n]
      BY <1>0 DEF Desk, Queued
    <3>2. CASE j # i
      <4>1. waiting'[j] = waiting[j]
        BY <2>5, <3>2
      <4>2. \A n \in 1..Len(waiting[j]) : waiting[j][n] # t /\ waiting[j][n] # h
        BY <1>0, <2>2, <3>1, <3>2
      <4> QED BY <2>6, <3>1, <4>1, <4>2
    <3>3. CASE j = i
      <4>1. /\ waiting'[i] = Tail(waiting[i]) /\ Len(waiting'[i]) = Len(waiting[i]) - 1
            /\ \A n \in 1..Len(waiting'[i]) : /\ waiting'[i][n] = waiting[i][n + 1]
                                              /\ n + 1 \in 1..Len(waiting[i])
        BY <1>0, <2>1, <2>5
      <4>2. \A n \in 1..Len(waiting'[i]) : waiting[i][n + 1] # waiting[i][1]
        BY <2>1, <3>1, <3>3, <4>1
      <4>3. \A n \in 1..Len(waiting'[i]) : waiting'[i][n] # h /\ waiting'[i][n] # t
        BY <1>0, <2>1, <3>1, <3>3, <4>1, <4>2
      <4>4. \A m, n \in 1..Len(waiting'[i]) : m # n => waiting'[i][m] # waiting'[i][n]
        BY <3>1, <3>3, <4>1
      <4> QED BY <2>6, <3>1, <3>3, <4>1, <4>3, <4>4
    <3> QED BY <3>2, <3>3
  <2>11. SlotsCounted'
    <3>0. \A u \in Runs : HoldsSlot(u)' <=> u # t /\ (HoldsSlot(u) \/ u = h)
      BY <1>0, <1>1, <2>1, <2>2, <2>3, <2>4, <2>6 DEF HoldsSlot
    <3>1. \A j \in Instances : Holders(j)' = IF j = i THEN (Holders(j) \ {t}) \union {h} ELSE Holders(j)
      BY <1>0, <2>1, <2>2, <2>3, <3>0 DEF Holders
    <3>2. t \in Holders(i) /\ h \notin Holders(i)
      BY <1>0, <2>2 DEF Holders, HoldsSlot
    <3>3. /\ IsFiniteSet((Holders(i) \ {t}) \union {h})
          /\ Cardinality((Holders(i) \ {t}) \union {h}) = Cardinality(Holders(i))
      <4>1. IsFiniteSet(Holders(i)) /\ Cardinality(Holders(i)) \in Nat
        BY <1>0, FS_CardinalityType DEF Desk, SlotsCounted
      <4>2. /\ IsFiniteSet(Holders(i) \ {t})
            /\ Cardinality(Holders(i) \ {t}) = Cardinality(Holders(i)) - 1
        BY <3>2, <4>1, FS_RemoveElement
      <4>3. /\ IsFiniteSet((Holders(i) \ {t}) \union {h})
            /\ Cardinality((Holders(i) \ {t}) \union {h}) = Cardinality(Holders(i) \ {t}) + 1
        BY <3>2, <4>2, FS_AddElement
      <4> HIDE DEF i
      <4> QED BY <4>1, <4>2, <4>3
    <3>4. ASSUME NEW j \in Instances
          PROVE  /\ IsFiniteSet(Holders(j)') /\ active'[j] = Cardinality(Holders(j)')
                 /\ active'[j] <= MaxConcurrent
                 /\ waiting'[j] # <<>> => active'[j] = MaxConcurrent
      <4>1. /\ IsFiniteSet(Holders(j)) /\ active[j] = Cardinality(Holders(j))
            /\ active[j] <= MaxConcurrent
            /\ waiting[j] # <<>> => active[j] = MaxConcurrent
        BY DEF Desk, SlotsCounted
      <4>2. CASE j = i
        <5>1. Holders(j)' = (Holders(i) \ {t}) \union {h}
          BY <1>0, <3>1, <4>2
        <5> QED BY <1>2, <2>5, <3>3, <4>1, <4>2, <5>1
      <4>3. CASE j # i
        BY <2>5, <3>1, <4>1, <4>3
      <4> QED BY <4>2, <4>3
    <3> QED BY <3>4 DEF SlotsCounted
  <2> QED BY <2>7, <2>8, <2>9, <2>10, <2>11 DEF Desk
(* Nobody waits: the instance has one slot more. *)
<1>3. CASE waiting[i] = <<>>
  <2>1. /\ run' = [run EXCEPT ![t] = row] /\ waiting' = waiting
        /\ active' = [active EXCEPT ![i] = @ - 1]
    BY <1>3 DEF FreeSlot
  <2>2. run'[t] = row /\ \A u \in Runs \ {t} : run'[u] = run[u]
    BY <1>0, <2>1
  <2>3. \A u \in Runs : HoldsSlot(u)' <=> u # t /\ HoldsSlot(u)
    BY <1>1, <2>2 DEF HoldsSlot
  <2>4. \A j \in Instances : Holders(j)' = IF j = i THEN Holders(j) \ {t} ELSE Holders(j)
    BY <2>3 DEF Holders
  <2>5. /\ IsFiniteSet(Holders(i)) /\ active[i] = Cardinality(Holders(i))
        /\ active[i] <= MaxConcurrent /\ t \in Holders(i)
    BY <1>0 DEF Desk, SlotsCounted, Holders
  <2>6. /\ IsFiniteSet(Holders(i) \ {t}) /\ Cardinality(Holders(i) \ {t}) = active[i] - 1
        /\ active[i] - 1 \in Nat
    <3> HIDE DEF i
    <3>1. /\ IsFiniteSet(Holders(i) \ {t})
          /\ Cardinality(Holders(i) \ {t}) = Cardinality(Holders(i)) - 1
      BY <2>5, FS_RemoveElement
    <3>2. Cardinality(Holders(i) \ {t}) \in Nat
      BY <3>1, FS_CardinalityType
    <3> QED BY <2>5, <3>1, <3>2
  <2>7. SlotsCounted'
    <3> SUFFICES ASSUME NEW j \in Instances
                 PROVE  /\ IsFiniteSet(Holders(j)') /\ active'[j] = Cardinality(Holders(j)')
                        /\ active'[j] <= MaxConcurrent
                        /\ waiting'[j] # <<>> => active'[j] = MaxConcurrent
      BY DEF SlotsCounted
    <3>1. CASE j = i
      <4>1. Holders(j)' = Holders(i) \ {t}
        BY <2>4, <3>1
      <4>2. active'[j] = active[i] - 1 /\ waiting'[j] = <<>>
        BY <1>0, <1>3, <2>1, <3>1
      <4>3. MaxConcurrent \in Nat /\ active[i] \in Nat
        BY <1>0, ConcurrencyAssumption
      <4> HIDE DEF i
      <4> QED BY <2>5, <2>6, <4>1, <4>2, <4>3
    <3>2. CASE j # i
      <4>1. Holders(j)' = Holders(j) /\ active'[j] = active[j] /\ waiting'[j] = waiting[j]
        BY <1>0, <2>1, <2>4, <3>2
      <4> QED BY <4>1 DEF Desk, SlotsCounted
    <3> QED BY <3>1, <3>2
  <2>8. DeskTyped'
    <3>1. running' \in [Instances -> SUBSET Jobs] /\ run' \in [Runs -> RunRows]
      BY <1>0, <2>1
    <3>2. active' \in [Instances -> Nat]
      BY <1>0, <2>1, <2>6
    <3> QED BY <1>0, <2>1, <3>1, <3>2 DEF DeskTyped
  <2>9. EarlyRows'
    BY <1>1, <2>2 DEF Desk, EarlyRows
  <2>10. OneRunEach' /\ Marked'
    <3>1. \A u \in Runs : run'[u].step # "none" <=> run[u].step # "none" /\ (u # t \/ row # Unbegun)
      BY <1>0, <1>1, <2>2
    <3>2. CASE row = Unbegun
      BY <1>0, <3>1, <3>2, MarkGoes
    <3>3. CASE row # Unbegun
      BY <3>1, <3>3, MarksStay
    <3> QED BY <3>2, <3>3
  <2>11. Queued'
    <3>1. \A j \in Instances : \A n \in 1..Len(waiting[j]) : waiting[j][n] \in Runs
      BY <1>0
    <3> QED BY <1>0, <2>1, <2>2, <3>1 DEF Desk, Queued
  <2> QED BY <2>7, <2>8, <2>9, <2>10, <2>11 DEF Desk
<1> QED BY <1>2, <1>3

-----------------------------------------------------------------------------
(* The steps. *)
LEMMA SettlingKeepsDesk ==
  ASSUME Desk, NEW t \in Runs, run[t].step \notin {"none", "waiting"}, Settle(t)
  PROVE  Desk'
<1>1. CASE ~run[t].overrun
  BY <1>1, FreeingKeepsDesk, UnbegunIsRow DEF Settle, HoldsSlot
<1>2. CASE run[t].overrun
  <2>0. /\ run \in [Runs -> RunRows] /\ waiting \in [Instances -> Seq(Runs)]
        /\ running \in [Instances -> SUBSET Jobs] /\ t.at \in Instances
        /\ run' = [run EXCEPT ![t] = Unbegun] /\ active' = active /\ waiting' = waiting
        /\ running' = [running EXCEPT ![t.at] = @ \ {t.job}]
    BY <1>2, RunsHave DEF Desk, DeskTyped, Settle
  <2>1. run'[t] = Unbegun /\ \A u \in Runs \ {t} : run'[u] = run[u]
    BY <2>0
  <2>2. \A u \in Runs : HoldsSlot(u)' <=> HoldsSlot(u)
    BY <1>2, <2>1, UnbegunIsRow DEF HoldsSlot
  <2>3. \A i \in Instances : Holders(i)' = Holders(i)
    BY <2>2 DEF Holders
  <2>4. SlotsCounted'
    BY <2>0, <2>3 DEF Desk, SlotsCounted
  <2>5. DeskTyped'
    <3>1. running' \in [Instances -> SUBSET Jobs] /\ run' \in [Runs -> RunRows]
      BY <2>0, UnbegunIsRow
    <3> QED BY <2>0, <3>1 DEF Desk, DeskTyped
  <2>6. EarlyRows'
    BY <2>1, UnbegunIsRow DEF Desk, EarlyRows, Unbegun
  <2>7. Marked' /\ OneRunEach'
    BY <2>0, <2>1, UnbegunIsRow, MarkGoes
  <2>8. Queued'
    <3>1. \A j \in Instances : \A n \in 1..Len(waiting[j]) : waiting[j][n] \in Runs
      BY <2>0
    <3> QED BY <2>0, <2>1, <3>1 DEF Desk, Queued
  <2> QED BY <2>4, <2>5, <2>6, <2>7, <2>8 DEF Desk
<1> QED BY <1>1, <1>2

LEMMA CrashKeepsDesk ==
  ASSUME Desk, NEW i \in Instances, Crash(i)
  PROVE  Desk'
<1>0. /\ run \in [Runs -> RunRows] /\ waiting \in [Instances -> Seq(Runs)]
      /\ running \in [Instances -> SUBSET Jobs] /\ active \in [Instances -> Nat]
      /\ running' = [running EXCEPT ![i] = {}] /\ active' = [active EXCEPT ![i] = 0]
      /\ waiting' = [waiting EXCEPT ![i] = <<>>]
      /\ run' = [t \in Runs |-> IF t.at = i THEN Unbegun ELSE run[t]]
  BY DEF Desk, DeskTyped, Crash
<1>1. \A u \in Runs : run'[u] = IF u.at = i THEN Unbegun ELSE run[u]
  BY <1>0
<1>2. DeskTyped'
  <2>1. run' \in [Runs -> RunRows]
    BY <1>0, UnbegunIsRow
  <2>2. waiting' \in [Instances -> Seq(Runs)]
    <3>1. <<>> \in Seq(Runs)
      OBVIOUS
    <3> QED BY <1>0, <3>1
  <2>3. running' \in [Instances -> SUBSET Jobs] /\ active' \in [Instances -> Nat]
    BY <1>0
  <2> QED BY <2>1, <2>2, <2>3 DEF DeskTyped
<1>3. EarlyRows'
  BY <1>1, UnbegunIsRow DEF Desk, EarlyRows, Unbegun
<1>4. Marked'
  <2>1. \A j \in Instances : Under(j)' = IF j = i THEN {} ELSE Under(j)
    BY <1>1, UnbegunIsRow DEF Under
  <2>2. \A j \in Instances : running'[j] = IF j = i THEN {} ELSE running[j]
    BY <1>0
  <2> QED BY <2>1, <2>2 DEF Desk, Marked
<1>5. OneRunEach'
  BY <1>1, UnbegunIsRow DEF Desk, OneRunEach
<1>6. Queued'
  <2> SUFFICES ASSUME NEW j \in Instances
               PROVE  /\ \A n \in 1..Len(waiting'[j]) :
                           waiting'[j][n].at = j /\ run'[waiting'[j][n]].step = "waiting"
                      /\ \A m, n \in 1..Len(waiting'[j]) :
                           m # n => waiting'[j][m] # waiting'[j][n]
    BY DEF Queued
  <2>1. CASE j = i
    <3>1. Len(waiting'[j]) = 0
      BY <1>0, <2>1
    <3> QED BY <3>1
  <2>2. CASE j # i
    <3>1. /\ waiting'[j] = waiting[j] /\ waiting[j] \in Seq(Runs)
          /\ \A n \in 1..Len(waiting[j]) : waiting[j][n] \in Runs /\ waiting[j][n].at = j
      BY <1>0, <2>2 DEF Desk, Queued
    <3> QED BY <1>1, <2>2, <3>1 DEF Desk, Queued
  <2> QED BY <2>1, <2>2
<1>7. SlotsCounted'
  <2>1. \A j \in Instances : Holders(j)' = IF j = i THEN {} ELSE Holders(j)
    BY <1>1, UnbegunIsRow DEF Holders, HoldsSlot
  <2>2. IsFiniteSet({}) /\ Cardinality({}) = 0
    BY FS_EmptySet
  <2> SUFFICES ASSUME NEW j \in Instances
               PROVE  /\ IsFiniteSet(Holders(j)') /\ active'[j] = Cardinality(Holders(j)')
                      /\ active'[j] <= MaxConcurrent
                      /\ waiting'[j] # <<>> => active'[j] = MaxConcurrent
    BY DEF SlotsCounted
  <2>3. CASE j = i
    <3>1. Holders(j)' = {} /\ active'[j] = 0 /\ waiting'[j] = <<>>
      BY <1>0, <2>1, <2>3
    <3> QED BY <2>2, <3>1, ConcurrencyAssumption
  <2>4. CASE j # i
    <3>1. Holders(j)' = Holders(j) /\ active'[j] = active[j] /\ waiting'[j] = waiting[j]
      BY <1>0, <2>1, <2>4
    <3> QED BY <3>1 DEF Desk, SlotsCounted
  <2> QED BY <2>3, <2>4
<1> QED BY <1>2, <1>3, <1>4, <1>5, <1>6, <1>7 DEF Desk

LEMMA TickKeepsDesk ==
  ASSUME Desk, NEW i \in Instances, NEW j \in Jobs, Tick(i, j)
  PROVE  Desk'
<1>0. /\ run \in [Runs -> RunRows] /\ waiting \in [Instances -> Seq(Runs)]
      /\ running \in [Instances -> SUBSET Jobs] /\ active \in [Instances -> Nat]
      /\ running' = [running EXCEPT ![i] = @ \union {j}] /\ j \notin running[i]
  BY DEF Desk, DeskTyped, Tick
<1>1. PICK t \in Runs :
        /\ t.at = i /\ t.job = j /\ IsNew(t)
        /\ IF active[i] < MaxConcurrent
           THEN /\ active' = [active EXCEPT ![i] = @ + 1]
                /\ run' = [run EXCEPT ![t].step = "locking"]
                /\ UNCHANGED waiting
           ELSE /\ waiting' = [waiting EXCEPT ![i] = Append(@, t)]
                /\ run' = [run EXCEPT ![t].step = "waiting"]
                /\ UNCHANGED active
  BY DEF Tick
<1>2. run[t].step = "none" /\ run[t] = Unbegun
  BY <1>1, UnbegunIsRow DEF IsNew, Unused, Desk, EarlyRows, Early, Unbegun
<1>3. /\ run'[t] = [Unbegun EXCEPT !.step = run'[t].step] /\ run'[t] \in RunRows
      /\ run'[t].step \in {"locking", "waiting"} /\ run'[t].overrun = FALSE
      /\ run'[t].step = "locking" <=> active[i] < MaxConcurrent
      /\ \A u \in Runs \ {t} : run'[u] = run[u]
      /\ run' \in [Runs -> RunRows]
  <2> DEFINE step == IF active[i] < MaxConcurrent THEN "locking" ELSE "waiting"
  <2>1. run' = [run EXCEPT ![t] = [Unbegun EXCEPT !.step = step]]
    BY <1>0, <1>1, <1>2
  <2>2. /\ [Unbegun EXCEPT !.step = step] \in RunRows
        /\ [Unbegun EXCEPT !.step = step].overrun = FALSE
        /\ [Unbegun EXCEPT !.step = step].step = step
    BY DEF Unbegun, RunRows, Steps
  <2>3. run'[t] = [Unbegun EXCEPT !.step = step] /\ \A u \in Runs \ {t} : run'[u] = run[u]
    BY <1>0, <2>1
  <2>4. run' \in [Runs -> RunRows]
    BY <1>0, <2>1, <2>2
  <2> QED BY <2>2, <2>3, <2>4
<1>4. EarlyRows'
  BY <1>3 DEF Desk, EarlyRows
<1>5. Marked' /\ OneRunEach'
  <2>1. \A k \in Instances : Under(k)' = IF k = i THEN Under(k) \union {t} ELSE Under(k)
    BY <1>1, <1>3 DEF Under
  <2>2. \A k \in Instances : running'[k] = IF k = i THEN running[k] \union {j} ELSE running[k]
    BY <1>0
  <2>3. ASSUME NEW k \in Instances PROVE running'[k] = {u.job : u \in Under(k)'}
    <3>1. running[k] = {u.job : u \in Under(k)}
      BY DEF Desk, Marked
    <3>2. CASE k = i
      <4>1. /\ Under(k)' = Under(k) \union {t} /\ running'[k] = running[k] \union {t.job}
        BY <1>1, <2>1, <2>2, <3>2
      <4> QED BY <3>1, <4>1
    <3>3. CASE k # i
      BY <2>1, <2>2, <3>1, <3>3
    <3> QED BY <3>2, <3>3
  <2>4. \A u \in Runs : u.at = i /\ run[u].step # "none" => u.job # j
    BY <1>0 DEF Desk, Marked, Under
  <2>5. OneRunEach'
    BY <1>1, <1>3, <2>4 DEF Desk, OneRunEach
  <2> QED BY <2>3, <2>5 DEF Marked
<1>6. CASE active[i] < MaxConcurrent
  <2>1. /\ active' = [active EXCEPT ![i] = @ + 1] /\ waiting' = waiting
        /\ run'[t].step = "locking"
    BY <1>1, <1>3, <1>6
  <2>2. \A u \in Runs : HoldsSlot(u)' <=> u = t \/ HoldsSlot(u)
    BY <1>3, <2>1 DEF HoldsSlot
  <2>3. \A k \in Instances : Holders(k)' = IF k = i THEN Holders(k) \union {t} ELSE Holders(k)
    BY <1>1, <2>2 DEF Holders
  <2>4. t \notin Holders(i) /\ IsFiniteSet(Holders(i)) /\ active[i] = Cardinality(Holders(i))
    BY <1>2 DEF Desk, SlotsCounted, Holders, HoldsSlot
  <2>5. /\ IsFiniteSet(Holders(i) \union {t})
        /\ Cardinality(Holders(i) \union {t}) = active[i] + 1
    BY <2>4, FS_AddElement
  <2>6. waiting[i] = <<>> /\ active[i] + 1 \in Nat /\ active[i] + 1 <= MaxConcurrent
    BY <1>0, <1>6, ConcurrencyAssumption DEF Desk, SlotsCounted
  <2>7. SlotsCounted'
    <3> SUFFICES ASSUME NEW k \in Instances
                 PROVE  /\ IsFiniteSet(Holders(k)') /\ active'[k] = Cardinality(Holders(k)')
                        /\ active'[k] <= MaxConcurrent
                        /\ waiting'[k] # <<>> => active'[k] = MaxConcurrent
      BY DEF SlotsCounted
    <3>1. CASE k = i
      <4>1. /\ Holders(k)' = Holders(i) \union {t} /\ active'[k] = active[i] + 1
            /\ waiting'[k] = <<>>
        BY <1>0, <2>1, <2>3, <2>6, <3>1
      <4> QED BY <2>5, <2>6, <4>1
    <3>2. CASE k # i
      <4>1. Holders(k)' = Holders(k) /\ active'[k] = active[k] /\ waiting'[k] = waiting[k]
        BY <1>0, <2>1, <2>3, <3>2
      <4> QED BY <4>1 DEF Desk, SlotsCounted
    <3> QED BY <3>1, <3>2
  <2>8. DeskTyped'
    <3>1. running' \in [Instances -> SUBSET Jobs] /\ active' \in [Instances -> Nat]
      BY <1>0, <2>1, <2>6
    <3> QED BY <1>0, <1>3, <2>1, <3>1 DEF DeskTyped
  <2>9. Queued'
    <3>1. \A k \in Instances : \A n \in 1..Len(waiting[k]) :
            waiting[k][n] \in Runs /\ waiting[k][n] # t
      BY <1>0, <1>2 DEF Desk, Queued
    <3> QED BY <1>3, <2>1, <3>1 DEF Desk, Queued
  <2> QED BY <1>4, <1>5, <2>7, <2>8, <2>9 DEF Desk
<1>7. CASE ~(active[i] < MaxConcurrent)
  <2>1. /\ waiting' = [waiting EXCEPT ![i] = Append(@, t)] /\ active' = active
        /\ run'[t].step = "waiting"
    BY <1>1, <1>3, <1>7
  <2>2. \A u \in Runs : HoldsSlot(u)' <=> HoldsSlot(u)
    BY <1>2, <1>3, <2>1 DEF HoldsSlot
  <2>3. \A k \in Instances : Holders(k)' = Holders(k)
    BY <2>2 DEF Holders
  <2>4. active[i] = MaxConcurrent
    BY <1>0, <1>7, ConcurrencyAssumption DEF Desk, SlotsCounted
  <2>5. \A k \in Instances : k # i => waiting'[k] = waiting[k]
    BY <1>0, <2>1
  <2>6. SlotsCounted'
    BY <2>1, <2>3, <2>4, <2>5 DEF Desk, SlotsCounted
  <2>7. DeskTyped'
    <3>1. running' \in [Instances -> SUBSET Jobs] /\ waiting' \in [Instances -> Seq(Runs)]
      BY <1>0, <2>1
    <3> QED BY <1>0, <1>3, <2>1, <3>1 DEF DeskTyped
  <2>8. Queued'
    <3> SUFFICES ASSUME NEW k \in Instances
                 PROVE  /\ \A n \in 1..Len(waiting'[k]) :
                             waiting'[k][n].at = k /\ run'[waiting'[k][n]].step = "waiting"
                        /\ \A m, n \in 1..Len(waiting'[k]) :
                             m # n => waiting'[k][m] # waiting'[k][n]
      BY DEF Queued
    <3>1. /\ waiting[k] \in Seq(Runs)
          /\ \A n \in 1..Len(waiting[k]) : /\ waiting[k][n] \in Runs /\ waiting[k][n] # t
                                           /\ waiting[k][n].at = k
                                           /\ run[waiting[k][n]].step = "waiting"
          /\ \A m, n \in 1..Len(waiting[k]) : m # n => waiting[k][m] # waiting[k][n]
      BY <1>0, <1>2 DEF Desk, Queued
    <3>2. CASE k = i
      <4>1. /\ Len(waiting'[k]) = Len(waiting[k]) + 1 /\ Len(waiting[k]) \in Nat
            /\ \A n \in 1..Len(waiting[k]) : waiting'[k][n] = waiting[k][n]
            /\ waiting'[k][Len(waiting[k]) + 1] = t
        BY <1>0, <2>1, <3>1, <3>2
      <4>2. ASSUME NEW n \in 1..Len(waiting'[k])
            PROVE  n \in 1..Len(waiting[k]) \/ n = Len(waiting[k]) + 1
        BY <4>1
      <4> QED BY <1>1, <1>3, <2>1, <3>1, <3>2, <4>1, <4>2
    <3>3. CASE k # i
      BY <1>3, <2>5, <3>1, <3>3
    <3> QED BY <3>2, <3>3
  <2> QED BY <1>4, <1>5, <2>6, <2>7, <2>8 DEF Desk
<1> QED BY <1>6, <1>7

-----------------------------------------------------------------------------
(* The locks: a run that is sound has the one it went for. *)
Holds(t) == \/ run[t].lock = "lease" /\ lease[t.job] = t
            \/ run[t].lock = "advisory" /\ advisory[t.job] = t

LocksHeld ==
  /\ lease \in [Jobs -> Runs \union {Free}] /\ advisory \in [Jobs -> Runs \union {Free}]
  /\ \A t \in Runs : Sound(t) => Holds(t)

Budgets == faults \in 0..MaxFaults /\ crashes \in 0..MaxCrashes

SchedulerInvariant == Desk /\ LocksHeld /\ Budgets

LEMMA FreeIsNoRun == Free \notin Runs
<1> SUFFICES ASSUME Free \in Runs PROVE FALSE
  OBVIOUS
<1>1. Free.token \in 1..Tokens
  BY DEF Runs
<1> QED BY <1>1, BoundAssumption DEF Free

(* Two sound runs of one job at one lock would both hold it. *)
LEMMA OneOfAKindFollows == SchedulerInvariant => OneOfAKind
BY DEF SchedulerInvariant, Desk, OneRunEach, LocksHeld, Holds, OneOfAKind

LEMMA TypesFollow == SchedulerInvariant => TypeOK
BY DEF SchedulerInvariant, Desk, DeskTyped, Marked, LocksHeld, Budgets, TypeOK

(* Giving up a slot makes no run sound. *)
LEMMA FreeingMakesNoneSound ==
  ASSUME Desk, NEW t \in Runs, NEW row \in RunRows, row.step = "none" \/ row.overrun = TRUE,
         FreeSlot(t.at, [run EXCEPT ![t] = row])
  PROVE  \A u \in Runs : Sound(u)' => Sound(u) /\ u # t /\ run'[u] = run[u]
<1>0. /\ run \in [Runs -> RunRows] /\ waiting \in [Instances -> Seq(Runs)] /\ t.at \in Instances
  BY RunsHave DEF Desk, DeskTyped
<1>1. CASE waiting[t.at] = <<>>
  <2>1. run'[t] = row /\ \A u \in Runs \ {t} : run'[u] = run[u]
    BY <1>0, <1>1 DEF FreeSlot
  <2> QED BY <2>1 DEF Sound
<1>2. CASE waiting[t.at] # <<>>
  <2> DEFINE h == Head(waiting[t.at])
  <2>1. h \in Runs
    BY <1>0, <1>2
  <2>2. run' = [[run EXCEPT ![t] = row] EXCEPT ![h].step = "locking"]
    BY <1>2 DEF FreeSlot
  <2> HIDE DEF h
  <2>3. /\ run'[h].step = "locking" /\ (h # t => run'[t] = row)
        /\ \A u \in Runs \ {t, h} : run'[u] = run[u]
    <3>1. row \in RunRows /\ run[h] \in RunRows
      BY <1>0, <2>1
    <3> QED BY <1>0, <2>1, <2>2, <3>1 DEF RunRows
  <2> QED BY <2>3 DEF Sound
<1> QED BY <1>1, <1>2

LEMMA SettlingMakesNoneSound ==
  ASSUME Desk, NEW t \in Runs, Settle(t)
  PROVE  \A u \in Runs : Sound(u)' => Sound(u) /\ u # t /\ run'[u] = run[u]
<1>1. CASE ~run[t].overrun
  BY <1>1, FreeingMakesNoneSound, UnbegunIsRow DEF Settle
<1>2. CASE run[t].overrun
  <2>1. run'[t] = Unbegun /\ \A u \in Runs \ {t} : run'[u] = run[u]
    BY <1>2 DEF Settle, Desk, DeskTyped
  <2> QED BY <2>1, UnbegunIsRow DEF Sound
<1> QED BY <1>1, <1>2

(* So the locks are kept by a step that takes none from a sound run. *)
LEMMA LocksStayHeld ==
  ASSUME LocksHeld,
         \A u \in Runs : Sound(u)' => Sound(u) /\ run'[u] = run[u],
         lease' \in [Jobs -> Runs \union {Free}], advisory' \in [Jobs -> Runs \union {Free}],
         \A u \in Runs : Sound(u)' /\ lease[u.job] = u => lease'[u.job] = u,
         \A u \in Runs : Sound(u)' /\ advisory[u.job] = u => advisory'[u.job] = u
  PROVE  LocksHeld'
BY DEF LocksHeld, Holds

LEMMA GoingOn ==
  ASSUME Desk, NEW t \in Runs, NEW row, Goes(t, row)
  PROVE  run'[t] = row /\ \A u \in Runs \ {t} : run'[u] = run[u]
BY DEF Goes, Desk, DeskTyped

-----------------------------------------------------------------------------
LEMMA LockingKeeps ==
  ASSUME SchedulerInvariant, NEW t \in Runs, Locking(t)
  PROVE  SchedulerInvariant'
<1>0. /\ Desk /\ LocksHeld /\ run[t] \in RunRows /\ t.job \in Jobs /\ UNCHANGED budget
      /\ lease \in [Jobs -> Runs \union {Free}] /\ advisory \in [Jobs -> Runs \union {Free}]
      /\ run[t].step \in {"locking", "fallback"}
  BY RunsHave DEF SchedulerInvariant, Desk, DeskTyped, LocksHeld, Locking, TakeLease, TakeAdvisory
<1>1. Budgets'
  BY <1>0 DEF SchedulerInvariant, Budgets, budget
<1>2. CASE UNCHANGED <<lease, advisory>> /\ Settle(t)
  <2>1. Desk'
    BY <1>0, <1>2, SettlingKeepsDesk
  <2>2. LocksHeld'
    BY <1>0, <1>2, SettlingMakesNoneSound, LocksStayHeld
  <2> QED BY <1>1, <2>1, <2>2 DEF SchedulerInvariant
<1>3. ASSUME NEW lock \in {"lease", "advisory"}, Goes(t, Doing(t, lock)),
             lock = "lease" => /\ lease[t.job] = Free /\ lease' = [lease EXCEPT ![t.job] = t]
                               /\ advisory' = advisory,
             lock = "advisory" => /\ advisory[t.job] = Free /\ lease' = lease
                                  /\ advisory' = [advisory EXCEPT ![t.job] = t]
      PROVE  SchedulerInvariant'
  <2>1. /\ Doing(t, lock) \in RunRows /\ Doing(t, lock).step = "doing"
        /\ Doing(t, lock).lock = lock /\ Doing(t, lock).overrun = run[t].overrun
    BY <1>0 DEF Doing, RunRows, Steps
  <2>2. Desk'
    <3> DEFINE row == Doing(t, lock)
    <3>1. /\ row \in RunRows /\ row.step \notin {"none", "waiting"} /\ row.step \notin Early
          /\ row.overrun = run[t].overrun /\ Goes(t, row)
          /\ run[t].step \notin {"none", "waiting"}
      BY <1>0, <1>3, <2>1 DEF Early
    <3> HIDE DEF row
    <3> QED BY <1>0, <3>1, GoingOnKeepsDesk
  <2>3. run'[t] = Doing(t, lock) /\ \A u \in Runs \ {t} : run'[u] = run[u]
    BY <1>0, <1>3, GoingOn
  <2>4. lease' \in [Jobs -> Runs \union {Free}] /\ advisory' \in [Jobs -> Runs \union {Free}]
    BY <1>0, <1>3
  <2>5. ASSUME NEW u \in Runs, Sound(u)' PROVE Holds(u)'
    <3>1. CASE u = t
      BY <1>0, <1>3, <2>1, <2>3, <3>1 DEF Holds
    <3>2. CASE u # t
      <4>1. Holds(u) /\ run'[u] = run[u] /\ u # Free
        BY <1>0, <2>3, <2>5, <3>2, FreeIsNoRun DEF LocksHeld, Sound
      <4> QED BY <1>0, <1>3, <4>1, RunsHave DEF Holds
    <3> QED BY <3>1, <3>2
  <2> QED BY <1>1, <2>2, <2>4, <2>5 DEF SchedulerInvariant, LocksHeld
<1>4. CASE TakeLease(t)
  BY <1>2, <1>3, <1>4 DEF TakeLease
<1>5. CASE TakeAdvisory(t)
  BY <1>2, <1>3, <1>5 DEF TakeAdvisory
<1> QED BY <1>4, <1>5 DEF Locking

LEMMA EndingKeeps ==
  ASSUME SchedulerInvariant, NEW t \in Runs,
         ReleaseLock(t) \/ ReleaseFails(t) \/ NoConnection(t)
  PROVE  SchedulerInvariant'
<1>0. /\ Desk /\ LocksHeld /\ t.job \in Jobs /\ Settle(t)
      /\ lease \in [Jobs -> Runs \union {Free}] /\ advisory \in [Jobs -> Runs \union {Free}]
      /\ run[t].step \in {"releasing", "fallback"}
  BY RunsHave DEF SchedulerInvariant, LocksHeld, ReleaseLock, ReleaseFails, NoConnection
<1>1. Budgets'
  BY BoundAssumption DEF SchedulerInvariant, Budgets, budget, ReleaseLock, ReleaseFails, NoConnection, Fault
<1>2. Desk'
  BY <1>0, SettlingKeepsDesk
<1>3. /\ lease' \in [Jobs -> Runs \union {Free}] /\ advisory' \in [Jobs -> Runs \union {Free}]
      /\ \A u \in Runs \ {t} : lease[u.job] = u => lease'[u.job] = u
      /\ \A u \in Runs \ {t} : advisory[u.job] = u => advisory'[u.job] = u
  BY <1>0, RunsHave DEF ReleaseLock, ReleaseFails, NoConnection, Kept
<1>4. LocksHeld'
  BY <1>0, <1>3, SettlingMakesNoneSound, LocksStayHeld
<1> QED BY <1>1, <1>2, <1>4 DEF SchedulerInvariant

LEMMA GoingOnKeeps ==
  ASSUME SchedulerInvariant, NEW t \in Runs,
         FinishJob(t) \/ \E set \in BOOLEAN : LeaseFails(t, set)
  PROVE  SchedulerInvariant'
<1> DEFINE next == IF run[t].step = "doing" THEN "releasing" ELSE "fallback"
           row == [run[t] EXCEPT !.step = next]
<1>0. /\ Desk /\ LocksHeld /\ run[t] \in RunRows /\ t.job \in Jobs
      /\ lease \in [Jobs -> Runs \union {Free}] /\ advisory \in [Jobs -> Runs \union {Free}]
      /\ run[t].step \in {"doing", "locking"} /\ Goes(t, row) /\ advisory' = advisory
      /\ \/ lease' = lease
         \/ lease[t.job] = Free /\ lease' = [lease EXCEPT ![t.job] = t]
  BY RunsHave DEF SchedulerInvariant, Desk, DeskTyped, LocksHeld, FinishJob, LeaseFails
<1>1. Budgets'
  BY BoundAssumption DEF SchedulerInvariant, Budgets, budget, FinishJob, LeaseFails, Fault
<1>2. /\ row \in RunRows /\ row.step = next /\ row.overrun = run[t].overrun
      /\ next \in {"releasing", "fallback"}
  BY <1>0 DEF RunRows, Steps
<1>3. next = "fallback" => row = [Unbegun EXCEPT !.step = "fallback"]
  BY <1>0 DEF Desk, EarlyRows, Early, Unbegun
<1> HIDE DEF next
<1>9. /\ row.step \notin {"none", "waiting"} /\ run[t].step \notin {"none", "waiting"}
      /\ row.step \in Early => row = [Unbegun EXCEPT !.step = row.step]
  BY <1>0, <1>2, <1>3 DEF Early
<1> HIDE DEF row
<1>4. Desk'
  BY <1>0, <1>2, <1>9, GoingOnKeepsDesk
<1>5. run'[t] = row /\ \A u \in Runs \ {t} : run'[u] = run[u]
  BY <1>0, GoingOn
<1>6. \A u \in Runs : Sound(u)' => Sound(u) /\ run'[u] = run[u]
  BY <1>2, <1>5 DEF Sound
<1>7. /\ lease' \in [Jobs -> Runs \union {Free}] /\ advisory' \in [Jobs -> Runs \union {Free}]
      /\ \A u \in Runs : lease[u.job] = u => lease'[u.job] = u
  BY <1>0, RunsHave, FreeIsNoRun
<1>8. LocksHeld'
  BY <1>0, <1>6, <1>7, LocksStayHeld
<1> QED BY <1>1, <1>4, <1>8 DEF SchedulerInvariant

LEMMA TimeKeeps ==
  ASSUME SchedulerInvariant, NEW t \in Runs, Deadline(t) \/ TransactionTimesOut(t)
  PROVE  SchedulerInvariant'
<1>0. /\ Desk /\ LocksHeld /\ run[t] \in RunRows /\ t.job \in Jobs
      /\ lease \in [Jobs -> Runs \union {Free}] /\ advisory \in [Jobs -> Runs \union {Free}]
  BY RunsHave DEF SchedulerInvariant, Desk, DeskTyped, LocksHeld
<1>1. CASE Deadline(t)
  <2> DEFINE row == [run[t] EXCEPT !.overrun = TRUE]
  <2>1. /\ row \in RunRows /\ row.overrun = TRUE /\ row # Unbegun
        /\ HoldsSlot(t) /\ run[t].step \notin Early
        /\ FreeSlot(t.at, [run EXCEPT ![t] = row])
        /\ UNCHANGED <<running, lease, advisory, budget>>
    <3>1. FreeSlot(t.at, [run EXCEPT ![t] = row])
      BY <1>1 DEF Deadline
    <3>2. row \in RunRows /\ row.overrun = TRUE
      BY <1>0 DEF RunRows
    <3>3. row # Unbegun
      BY <3>2, UnbegunIsRow
    <3> HIDE DEF row
    <3> QED BY <1>1, <3>1, <3>2, <3>3 DEF Deadline, HoldsSlot, Early
  <2>2. Desk'
    BY <1>0, <2>1, FreeingKeepsDesk
  <2>3. LocksHeld'
    BY <1>0, <2>1, FreeingMakesNoneSound, LocksStayHeld
  <2> QED BY <2>1, <2>2, <2>3 DEF SchedulerInvariant, Budgets, budget
<1>2. CASE TransactionTimesOut(t)
  <2>1. /\ UNCHANGED <<running, active, waiting, run, lease, budget>> /\ run[t].overrun
        /\ advisory' = [advisory EXCEPT ![t.job] = Free] /\ advisory[t.job] = t
    BY <1>2 DEF TransactionTimesOut
  <2>2. Desk'
    <3>1. \A i \in Instances : Under(i)' = Under(i) /\ Holders(i)' = Holders(i)
      BY <2>1 DEF Under, Holders, HoldsSlot
    <3>2. DeskTyped' /\ EarlyRows' /\ OneRunEach' /\ Queued'
      BY <1>0, <2>1 DEF Desk, DeskTyped, EarlyRows, OneRunEach, Queued
    <3>3. Marked' /\ SlotsCounted'
      BY <1>0, <2>1, <3>1 DEF Desk, Marked, SlotsCounted
    <3> QED BY <3>2, <3>3 DEF Desk
  <2>3. \A u \in Runs : Sound(u)' => Sound(u) /\ run'[u] = run[u] /\ u # t
    BY <2>1 DEF Sound
  <2>4. /\ advisory' \in [Jobs -> Runs \union {Free}]
        /\ \A u \in Runs \ {t} : advisory[u.job] = u => advisory'[u.job] = u
    BY <1>0, <2>1, RunsHave
  <2>5. LocksHeld'
    BY <1>0, <2>1, <2>3, <2>4, LocksStayHeld
  <2> QED BY <2>1, <2>2, <2>5 DEF SchedulerInvariant, Budgets, budget
<1> QED BY <1>1, <1>2

LEMMA ExpiringKeeps ==
  ASSUME SchedulerInvariant, NEW j \in Jobs, Expire(j) \/ MissRenewals(j)
  PROVE  SchedulerInvariant'
<1> DEFINE t == lease[j]
           row == [run[t] EXCEPT !.missed = TRUE]
<1>0. /\ Desk /\ LocksHeld /\ t \in Runs
      /\ lease \in [Jobs -> Runs \union {Free}] /\ advisory' = advisory
      /\ lease' = [lease EXCEPT ![j] = Free]
  BY DEF SchedulerInvariant, LocksHeld, Expire, MissRenewals, Goes
<1>1. Budgets'
  BY BoundAssumption DEF SchedulerInvariant, Budgets, budget, Expire, MissRenewals, Fault
<1>2. CASE run[t].lock # "lease"
  <2>1. UNCHANGED <<running, active, waiting, run>>
    BY <1>2 DEF Expire, MissRenewals, Renewing
  <2>2. Desk'
    <3>1. \A i \in Instances : Under(i)' = Under(i) /\ Holders(i)' = Holders(i)
      BY <2>1 DEF Under, Holders, HoldsSlot
    <3>2. DeskTyped' /\ EarlyRows' /\ OneRunEach' /\ Queued'
      BY <1>0, <2>1 DEF Desk, DeskTyped, EarlyRows, OneRunEach, Queued
    <3>3. Marked' /\ SlotsCounted'
      BY <1>0, <2>1, <3>1 DEF Desk, Marked, SlotsCounted
    <3> QED BY <3>2, <3>3 DEF Desk
  <2>3. ASSUME NEW u \in Runs, Sound(u)' PROVE Holds(u)'
    <3>1. Sound(u) /\ Holds(u) /\ run'[u] = run[u]
      BY <1>0, <2>1, <2>3 DEF Sound, LocksHeld
    <3>2. run[u].lock = "lease" => u # t
      BY <1>2
    <3> QED BY <1>0, <3>1, <3>2, RunsHave DEF Holds
  <2>4. lease' \in [Jobs -> Runs \union {Free}] /\ advisory' \in [Jobs -> Runs \union {Free}]
    BY <1>0 DEF LocksHeld
  <2> QED BY <1>1, <2>2, <2>3, <2>4 DEF SchedulerInvariant, LocksHeld
<1>3. CASE run[t].lock = "lease"
  <2>1. Goes(t, row)
    BY <1>0, <1>3 DEF Expire, MissRenewals, Goes
  <2>2. /\ run[t] \in RunRows /\ row \in RunRows /\ row.missed = TRUE
        /\ row.step = run[t].step /\ row.overrun = run[t].overrun
    <3>1. run[t] \in RunRows
      BY <1>0 DEF Desk, DeskTyped
    <3> HIDE DEF t
    <3> QED BY <3>1 DEF RunRows
  <2>3. run[t].step \notin Early
    BY <1>0, <1>3 DEF Desk, EarlyRows, Unbegun
  <2> HIDE DEF row, t
  <2>4. Desk'
    BY <1>0, <2>1, <2>2, <2>3, GoingOnKeepsDesk DEF Early
  <2>5. run'[t] = row /\ \A u \in Runs \ {t} : run'[u] = run[u]
    BY <1>0, <2>1, GoingOn
  <2>6. \A u \in Runs : Sound(u)' => Sound(u) /\ run'[u] = run[u] /\ u # t
    BY <2>2, <2>5 DEF Sound
  <2>7. /\ lease' \in [Jobs -> Runs \union {Free}] /\ advisory' \in [Jobs -> Runs \union {Free}]
        /\ \A u \in Runs \ {t} : lease[u.job] = u => lease'[u.job] = u
    BY <1>0, RunsHave DEF t, LocksHeld
  <2>8. LocksHeld'
    BY <1>0, <2>6, <2>7, LocksStayHeld
  <2> QED BY <1>1, <2>4, <2>8 DEF SchedulerInvariant
<1> QED BY <1>2, <1>3

LEMMA CrashKeeps ==
  ASSUME SchedulerInvariant, NEW i \in Instances, Crash(i)
  PROVE  SchedulerInvariant'
<1>0. /\ Desk /\ LocksHeld /\ lease' = lease /\ advisory \in [Jobs -> Runs \union {Free}]
      /\ run' = [t \in Runs |-> IF t.at = i THEN Unbegun ELSE run[t]]
      /\ advisory' = [j \in Jobs |-> IF advisory[j] # Free /\ advisory[j].at = i
                                     THEN Free ELSE advisory[j]]
  BY DEF SchedulerInvariant, LocksHeld, Crash
<1>1. Budgets'
  BY BoundAssumption DEF SchedulerInvariant, Budgets, Crash
<1>2. Desk'
  BY <1>0, CrashKeepsDesk
<1>3. \A u \in Runs : Sound(u)' => Sound(u) /\ run'[u] = run[u] /\ u.at # i
  BY <1>0, UnbegunIsRow DEF Sound
<1>4. /\ advisory' \in [Jobs -> Runs \union {Free}]
      /\ \A u \in Runs : u.at # i /\ advisory[u.job] = u => advisory'[u.job] = u
  BY <1>0, RunsHave
<1>5. LocksHeld'
  BY <1>0, <1>3, <1>4, LocksStayHeld DEF LocksHeld
<1> QED BY <1>1, <1>2, <1>5 DEF SchedulerInvariant

LEMMA TickKeeps ==
  ASSUME SchedulerInvariant, NEW i \in Instances, NEW j \in Jobs, Tick(i, j)
  PROVE  SchedulerInvariant'
<1>0. Desk /\ LocksHeld /\ UNCHANGED <<lease, advisory, budget>> /\ run \in [Runs -> RunRows]
  BY DEF SchedulerInvariant, Desk, DeskTyped, Tick
<1>1. Budgets'
  BY <1>0 DEF SchedulerInvariant, Budgets, budget
<1>2. Desk'
  BY <1>0, TickKeepsDesk
<1>3. PICK t \in Runs : \E step \in {"locking", "waiting"} : run' = [run EXCEPT ![t].step = step]
  BY DEF Tick
<1>4. \A u \in Runs : Sound(u)' => Sound(u) /\ run'[u] = run[u]
  <2>1. run'[t].step # "doing" /\ \A u \in Runs \ {t} : run'[u] = run[u]
    <3>1. run[t] \in RunRows
      BY <1>0
    <3> QED BY <1>0, <1>3, <3>1 DEF RunRows
  <2> QED BY <2>1 DEF Sound
<1>5. LocksHeld'
  BY <1>0, <1>4, LocksStayHeld DEF LocksHeld
<1> QED BY <1>1, <1>2, <1>5 DEF SchedulerInvariant

LEMMA StutterKeeps == SchedulerInvariant /\ UNCHANGED vars => SchedulerInvariant'
<1> SUFFICES ASSUME SchedulerInvariant, UNCHANGED vars PROVE SchedulerInvariant'
  OBVIOUS
<1>0. UNCHANGED <<running, active, waiting, run, lease, advisory, faults, crashes>>
  BY DEF vars, budget
<1>1. \A i \in Instances : Under(i)' = Under(i) /\ Holders(i)' = Holders(i)
  BY <1>0 DEF Under, Holders, HoldsSlot
<1>2. DeskTyped' /\ EarlyRows' /\ OneRunEach' /\ Queued'
  BY <1>0 DEF SchedulerInvariant, Desk, DeskTyped, EarlyRows, OneRunEach, Queued
<1>3. Marked' /\ SlotsCounted'
  BY <1>0, <1>1 DEF SchedulerInvariant, Desk, Marked, SlotsCounted
<1>4. LocksHeld' /\ Budgets'
  BY <1>0 DEF SchedulerInvariant, LocksHeld, Holds, Sound, Budgets
<1> QED BY <1>2, <1>3, <1>4 DEF SchedulerInvariant, Desk

LEMMA InitSchedules == Init => SchedulerInvariant
<1> SUFFICES ASSUME Init PROVE SchedulerInvariant
  OBVIOUS
<1>1. \A t \in Runs : run[t] = Unbegun
  BY DEF Init
<1>2. DeskTyped
  <2>1. <<>> \in Seq(Runs)
    OBVIOUS
  <2> QED BY <2>1, UnbegunIsRow DEF Init, DeskTyped
<1>3. EarlyRows
  BY <1>1 DEF EarlyRows, Unbegun
<1>4. Marked /\ OneRunEach
  <2>1. \A i \in Instances : Under(i) = {}
    BY <1>1, UnbegunIsRow DEF Under
  <2> QED BY <1>1, <2>1, UnbegunIsRow DEF Init, Marked, OneRunEach
<1>5. Queued
  BY DEF Init, Queued
<1>6. SlotsCounted
  <2>1. \A i \in Instances : Holders(i) = {}
    BY <1>1, UnbegunIsRow DEF Holders, HoldsSlot
  <2>2. IsFiniteSet({}) /\ Cardinality({}) = 0
    BY FS_EmptySet
  <2>3. MaxConcurrent \in Nat /\ MaxConcurrent >= 0
    BY ConcurrencyAssumption
  <2>4. \A i \in Instances : active[i] = 0 /\ waiting[i] = <<>>
    BY DEF Init
  <2> QED BY <2>1, <2>2, <2>3, <2>4 DEF SlotsCounted
<1>7. LocksHeld /\ Budgets
  BY <1>1, UnbegunIsRow, BoundAssumption DEF Init, LocksHeld, Sound, Budgets
<1> QED BY <1>2, <1>3, <1>4, <1>5, <1>6, <1>7 DEF SchedulerInvariant, Desk

LEMMA NextKeeps == SchedulerInvariant /\ [Next]_vars => SchedulerInvariant'
<1> SUFFICES ASSUME SchedulerInvariant, [Next]_vars PROVE SchedulerInvariant'
  OBVIOUS
<1>1. CASE \E i \in Instances, j \in Jobs : Tick(i, j)
  BY <1>1, TickKeeps
<1>2. ASSUME NEW t \in Runs,
             Locking(t) \/ FinishJob(t) \/ ReleaseLock(t) \/ Deadline(t)
               \/ TransactionTimesOut(t) \/ Faulty(t)
      PROVE  SchedulerInvariant'
  BY <1>2, LockingKeeps, GoingOnKeeps, EndingKeeps, TimeKeeps DEF Faulty
<1>3. CASE \E j \in Jobs : Expire(j) \/ MissRenewals(j)
  BY <1>3, ExpiringKeeps
<1>4. CASE \E i \in Instances : Crash(i)
  BY <1>4, CrashKeeps
<1>5. CASE UNCHANGED vars
  BY <1>5, StutterKeeps
<1> QED BY <1>1, <1>2, <1>3, <1>4, <1>5 DEF Next

-----------------------------------------------------------------------------
LEMMA InvariantHolds == Spec => []SchedulerInvariant
BY InitSchedules, NextKeeps, PTL DEF Spec

(* The rows of runs and locks keep their types, and a job is marked running exactly
   while a run of it is under way (JobScheduler.running). *)
THEOREM RunsStayTyped == Spec => []TypeOK
BY InvariantHolds, TypesFollow, PTL

(* takeSlot and freeSlot: the count is that of the runs that hold a slot, it keeps to
   its limit, and no slot is idle while a run waits. *)
THEOREM SlotsAreNeverLost == Spec => []SlotsAreKept
<1>1. SchedulerInvariant => SlotsAreKept
  BY SlotsCountedSuffices DEF SchedulerInvariant
<1> QED BY <1>1, InvariantHolds, PTL

(* withLock: two runs of one job that hold their time and their lease are not at one
   lock, and none is at the instance of another. *)
THEOREM JobsRunApart == Spec => []OneOfAKind
BY InvariantHolds, OneOfAKindFollows, PTL
=============================================================================
