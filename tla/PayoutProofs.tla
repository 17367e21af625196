------------------------------- MODULE PayoutProofs -------------------------------
(* What PayoutProperties says of the payouts a kitchen has been made and of what they
   are worth, proved for any orders, callers, calendar, amounts and number of payouts. *)
EXTENDS PayoutProperties, Sums

(* A transaction, whatever it has read. *)
CallRow(c) ==
  call[c] = [does |-> call[c].does, amount |-> call[c].amount, about |-> call[c].about,
             day |-> call[c].day, lines |-> call[c].lines, lost |-> call[c].lost]

CallsTyped ==
  /\ day \in 1..LastDay /\ lock \in Callers \union {Nobody}
  /\ call = [c \in Callers |-> call[c]]
  /\ \A c \in Callers : /\ CallRow(c) /\ call[c].does \in Doings
                        /\ call[c].does # "idle" => call[c].day \in 1..LastDay
                        /\ call[c].does # "idle" <=> lock = c

(* Payouts are made one after the other. *)
MadeInOrder ==
  /\ payout \in [Payouts -> PayoutRows]
  /\ \E n \in Nat : Made = 1..n
  /\ \A p \in Payouts : payout[p].status = "none" => payout[p] = NoPayout

(* A weekly run under way has found no payout in its way, and keeps the others from
   making one. *)
WeekIsClear ==
  \A c \in Callers : call[c].does = "weekly" => Waiters = {} /\ MadeFor(call[c].day) = {}

OnePerRun == \A p, q \in Automatic : payout[p].run = payout[q].run => p = q

PayoutInvariant == CallsTyped /\ MadeInOrder /\ WeekIsClear /\ OnePerRun /\ ListedOnce

RunsAreNew == \A p \in Payouts : payout'[p].run # payout[p].run => Waiters = {}

-----------------------------------------------------------------------------
(* The transactions that are under way, as orders move and time goes by. *)
LEMMA MovesKeepCalls ==
  ASSUME CallsTyped, LinesMove, UNCHANGED <<day, lock>>
  PROVE  /\ CallsTyped'
         /\ \A c \in Callers : call'[c].does = call[c].does /\ call'[c].day = call[c].day
<1>1. PICK lost : call' = [c \in Callers |->
            IF call[c].does = "idle" THEN call[c] ELSE [call[c] EXCEPT !.lost = @ + lost]]
  BY DEF LinesMove
<1>2. ASSUME NEW c \in Callers
      PROVE  /\ call'[c].does = call[c].does /\ call'[c].day = call[c].day /\ CallRow(c)'
  <2>1. call[c] = [does |-> call[c].does, amount |-> call[c].amount, about |-> call[c].about,
                   day |-> call[c].day, lines |-> call[c].lines, lost |-> call[c].lost]
    BY DEF CallsTyped, CallRow
  <2>2. CASE call[c].does = "idle"
    BY <1>1, <2>1, <2>2 DEF CallRow
  <2>3. CASE call[c].does # "idle"
    <3>1. call'[c] = [call[c] EXCEPT !.lost = @ + lost]
      BY <1>1, <2>3
    <3>2. call'[c] = [does |-> call[c].does, amount |-> call[c].amount, about |-> call[c].about,
                      day |-> call[c].day, lines |-> call[c].lines, lost |-> call[c].lost + lost]
      BY <2>1, <3>1
    <3> QED BY <3>2 DEF CallRow
  <2> QED BY <2>2, <2>3
<1>3. call' = [c \in Callers |-> call'[c]]
  BY <1>1
<1> QED BY <1>2, <1>3 DEF CallsTyped

LEMMA TakingKeepsCalls ==
  ASSUME CallsTyped, NEW c \in Callers, NEW does \in Doings \ {"idle"},
         NEW amount, NEW about, Take(c, does, amount, about)
  PROVE  /\ CallsTyped' /\ call'[c].does = does /\ call'[c].day = day
         /\ \A d \in Callers \ {c} : call'[d].does = "idle"
<1>1. PICK lines : call' = [call EXCEPT ![c] = [does |-> does, amount |-> amount, about |-> about,
                                                 day |-> day, lines |-> lines, lost |-> 0]]
  BY DEF Take
<1>2. /\ lock = Nobody /\ lock' = c /\ day' = day /\ Nobody \notin Callers
      /\ call = [d \in Callers |-> call[d]]
  BY NobodyAssumption DEF Take, CallsTyped
<1>3. /\ call'[c] = [does |-> does, amount |-> amount, about |-> about,
                     day |-> day, lines |-> lines, lost |-> 0]
      /\ \A d \in Callers \ {c} : call'[d] = call[d] /\ call[d].does = "idle"
      /\ call' = [d \in Callers |-> call'[d]]
  BY <1>1, <1>2 DEF CallsTyped
<1>4. CallRow(c)' /\ \A d \in Callers \ {c} : CallRow(d)'
  BY <1>3 DEF CallRow, CallsTyped
<1> QED BY <1>2, <1>3, <1>4 DEF CallsTyped

LEMMA ReleasingKeepsCalls ==
  ASSUME CallsTyped, NEW c \in Callers, call[c].does # "idle", Release(c), day' = day
  PROVE  CallsTyped' /\ \A d \in Callers : call'[d].does = "idle"
<1>1. /\ lock = c /\ lock' = Nobody /\ Nobody \notin Callers
      /\ call = [d \in Callers |-> call[d]] /\ call' = [call EXCEPT ![c] = Idle]
  BY NobodyAssumption DEF Release, CallsTyped
<1>2. /\ call'[c] = Idle /\ \A d \in Callers \ {c} : call'[d] = call[d] /\ call[d].does = "idle"
      /\ call' = [d \in Callers |-> call'[d]]
  BY <1>1 DEF CallsTyped
<1>3. Idle.does = "idle"
  BY DEF Idle
<1>4. CallRow(c)' /\ \A d \in Callers \ {c} : CallRow(d)'
  BY <1>2 DEF CallRow, CallsTyped, Idle
<1> QED BY <1>1, <1>2, <1>3, <1>4 DEF CallsTyped, Doings

(* A step that leaves payouts alone. *)
LEMMA SamePayouts ==
  ASSUME PayoutInvariant, payout' = payout, CallsTyped',
         \A c \in Callers : call'[c].does = "weekly" =>
           Waiters = {} /\ MadeFor(call'[c].day) = {}
  PROVE  PayoutInvariant' /\ RunsAreNew
<1>1. MadeInOrder'
  BY DEF PayoutInvariant, MadeInOrder, Made
<1>2. WeekIsClear'
  BY DEF WeekIsClear, Waiters, MadeFor, Automatic
<1>3. OnePerRun' /\ ListedOnce'
  BY DEF PayoutInvariant, OnePerRun, Automatic, ListedOnce, ToKitchen, Standing
<1> QED BY <1>1, <1>2, <1>3 DEF PayoutInvariant, RunsAreNew

-----------------------------------------------------------------------------
(* The next payout takes a row that none has had. *)
LEMMA CreatingIsNew ==
  ASSUME MadeInOrder, NEW p \in Payouts, NEW row \in PayoutRows, row.status # "none",
         NEW amount, Create(p, row, amount)
  PROVE  /\ payout[p] = NoPayout /\ payout'[p] = row /\ MadeInOrder'
         /\ \A q \in Payouts \ {p} : payout'[q] = payout[q]
<1>1. PICK n \in Nat : Made = 1..n
  BY DEF MadeInOrder
<1>2. Cardinality(Made) = n
  BY <1>1, FS_Interval
<1>3. p = n + 1 /\ payout' = [payout EXCEPT ![p] = row] /\ payout \in [Payouts -> PayoutRows]
  BY <1>2 DEF Create, MadeInOrder
<1>4. p \notin Made /\ payout[p] = NoPayout
  BY <1>1, <1>3 DEF Made, MadeInOrder
<1>5. /\ payout'[p] = row /\ \A q \in Payouts \ {p} : payout'[q] = payout[q]
      /\ payout' \in [Payouts -> PayoutRows]
  BY <1>3
<1>6. Made' = Made \union {p}
  BY <1>5 DEF Made
<1>7. Made' = 1..(n + 1) /\ n + 1 \in Nat
  BY <1>1, <1>3, <1>6
<1>8. MadeInOrder'
  BY <1>5, <1>7 DEF MadeInOrder
<1> QED BY <1>4, <1>5, <1>8

(* Its period starts after the last of those that stand. *)
LEMMA NextStartIsAfter ==
  ASSUME MadeInOrder, NEW start \in Nat, IsNextStart(start)
  PROVE  \A q \in ToKitchen : payout[q].end < start
<1> SUFFICES ASSUME NEW q \in ToKitchen PROVE payout[q].end < start
  OBVIOUS
<1>1. PICK p \in LastEnds(ToKitchen) : start = payout[p].end + 1
  BY DEF IsNextStart
<1>2. p \in Payouts /\ q \in Payouts /\ payout[q].end <= payout[p].end
  BY <1>1 DEF LastEnds, ToKitchen, Standing
<1>3. payout[p].end \in Nat /\ payout[q].end \in Nat
  BY <1>2 DEF MadeInOrder, PayoutRows
<1> QED BY <1>1, <1>2, <1>3

LEMMA NewPeriodIsApart ==
  ASSUME PayoutInvariant, NEW p \in Payouts, NEW start \in Nat, NEW end \in Nat, NEW run \in Nat,
         NEW amount, IsNextStart(start), CreatePayout(p, start, end, run, amount)
  PROVE  ListedOnce'
<1> DEFINE row == [status |-> "pending", to |-> "kitchen", start |-> start, end |-> end, run |-> run]
<1>1. /\ payout[p] = NoPayout /\ payout'[p] = row
      /\ \A q \in Payouts \ {p} : payout'[q] = payout[q]
  <2>1. row \in PayoutRows /\ row.status # "none" /\ Create(p, row, amount) /\ MadeInOrder
    BY DEF PayoutRows, CreatePayout, PayoutInvariant
  <2> HIDE DEF row
  <2> QED BY <2>1, CreatingIsNew
<1>2. ToKitchen' = ToKitchen \union {p} /\ p \notin ToKitchen /\ ToKitchen \subseteq Payouts
  BY <1>1 DEF ToKitchen, Standing, NoPayout
<1>3. \A q \in ToKitchen : /\ payout[q].end < start /\ payout[q].end \in Nat
                           /\ payout[q].start \in Nat /\ payout'[q] = payout[q]
  BY <1>1, <1>2, NextStartIsAfter DEF PayoutInvariant, MadeInOrder, PayoutRows
<1>4. \A q \in ToKitchen : (payout[q].start..payout[q].end) \intersect (start..end) = {}
  BY <1>3
<1>5. payout'[p].start = start /\ payout'[p].end = end
  BY <1>1
<1> QED BY <1>2, <1>3, <1>4, <1>5 DEF PayoutInvariant, ListedOnce

-----------------------------------------------------------------------------
(* The transactions that make a payout. *)
LEMMA RequestKeeps ==
  ASSUME PayoutInvariant, NEW c \in Callers, CommitRequest(c)
  PROVE  PayoutInvariant' /\ RunsAreNew
<1>0. CallsTyped' /\ \A d \in Callers : call'[d].does = "idle"
  BY ReleasingKeepsCalls DEF PayoutInvariant, CommitRequest
<1>1. CASE payout' = payout
  BY <1>0, <1>1, SamePayouts
<1>2. CASE payout' # payout
  <2>1. PICK p \in Payouts, start \in 1..(LastDay + 1) :
          IsNextStart(start) /\ CreatePayout(p, start, day, NoDay, call[c].amount)
    BY <1>2 DEF CommitRequest, payoutVars
  <2> DEFINE row == [status |-> "pending", to |-> "kitchen", start |-> start, end |-> day,
                     run |-> NoDay]
  <2>2. start \in Nat /\ day \in Nat /\ NoDay \in Nat
    BY DayAssumption DEF PayoutInvariant, CallsTyped, NoDay
  <2>3. ListedOnce'
    BY <2>1, <2>2, NewPeriodIsApart
  <2>4. /\ payout[p] = NoPayout /\ payout'[p] = row /\ MadeInOrder'
        /\ \A q \in Payouts \ {p} : payout'[q] = payout[q]
    <3>1. row \in PayoutRows /\ row.status # "none" /\ Create(p, row, call[c].amount) /\ MadeInOrder
      BY <2>1, <2>2 DEF PayoutRows, CreatePayout, PayoutInvariant
    <3> HIDE DEF row
    <3> QED BY <3>1, CreatingIsNew
  <2>5. Automatic' = Automatic /\ \A q \in Payouts : payout'[q].run = payout[q].run
    BY <2>4 DEF Automatic, NoPayout
  <2>6. OnePerRun' /\ RunsAreNew
    BY <2>5 DEF PayoutInvariant, OnePerRun, RunsAreNew, Automatic
  <2> QED BY <1>0, <2>3, <2>4, <2>6 DEF PayoutInvariant, WeekIsClear
<1> QED BY <1>1, <1>2

LEMMA WeeklyKeeps ==
  ASSUME PayoutInvariant, NEW c \in Callers, CommitWeekly(c)
  PROVE  PayoutInvariant' /\ RunsAreNew
<1>0. CallsTyped' /\ \A d \in Callers : call'[d].does = "idle"
  BY ReleasingKeepsCalls DEF PayoutInvariant, CommitWeekly
<1>1. CASE payout' = payout
  BY <1>0, <1>1, SamePayouts
<1>2. CASE payout' # payout
  <2>1. PICK p \in Payouts, start \in 1..(LastDay + 1) :
          IsNextStart(start)
          /\ CreatePayout(p, start, call[c].day - 1, call[c].day, Covers(c))
    BY <1>2 DEF CommitWeekly, payoutVars
  <2> DEFINE row == [status |-> "pending", to |-> "kitchen", start |-> start,
                     end |-> call[c].day - 1, run |-> call[c].day]
  <2>2. start \in Nat /\ call[c].day \in Nat /\ call[c].day - 1 \in Nat /\ call[c].day # NoDay
    <3>1. call[c].day \in 1..LastDay
      BY DEF PayoutInvariant, CallsTyped, CommitWeekly
    <3> QED BY <3>1, DayAssumption DEF NoDay
  <2>3. ListedOnce'
    BY <2>1, <2>2, NewPeriodIsApart
  <2>4. /\ payout[p] = NoPayout /\ payout'[p] = row /\ MadeInOrder'
        /\ \A q \in Payouts \ {p} : payout'[q] = payout[q]
    <3>1. row \in PayoutRows /\ row.status # "none" /\ Create(p, row, Covers(c)) /\ MadeInOrder
      BY <2>1, <2>2 DEF PayoutRows, CreatePayout, PayoutInvariant
    <3> HIDE DEF row
    <3> QED BY <3>1, CreatingIsNew
  <2>5. Waiters = {} /\ MadeFor(call[c].day) = {}
    BY DEF PayoutInvariant, WeekIsClear, CommitWeekly
  <2>6. /\ Automatic' = Automatic \union {p} /\ payout'[p].run = call[c].day
        /\ p \notin Automatic
    BY <2>2, <2>4 DEF Automatic, NoPayout
  <2>7. \A q \in Automatic : q \in Payouts \ {p} /\ payout[q].run # call[c].day
    BY <2>5, <2>6 DEF MadeFor, Automatic
  <2>8. OnePerRun'
    BY <2>4, <2>6, <2>7 DEF PayoutInvariant, OnePerRun
  <2> QED BY <1>0, <2>3, <2>4, <2>5, <2>8 DEF PayoutInvariant, WeekIsClear, RunsAreNew
<1> QED BY <1>1, <1>2

LEMMA PaymentKeeps ==
  ASSUME PayoutInvariant, NEW c \in Callers, CommitPayment(c)
  PROVE  PayoutInvariant' /\ RunsAreNew
<1>0. CallsTyped' /\ \A d \in Callers : call'[d].does = "idle"
  BY ReleasingKeepsCalls DEF PayoutInvariant, CommitPayment
<1>1. CASE payout' = payout
  BY <1>0, <1>1, SamePayouts
<1>2. CASE payout' # payout
  <2> DEFINE row == [status |-> "completed", to |-> "nuray", start |-> day, end |-> day,
                     run |-> NoDay]
  <2>1. PICK p \in Payouts : Create(p, row, call[c].amount)
    BY <1>2 DEF CommitPayment, payoutVars
  <2>2. row \in PayoutRows /\ row.status # "none" /\ MadeInOrder
    BY DayAssumption DEF PayoutRows, PayoutInvariant, CallsTyped, NoDay
  <2>3. row.to = "nuray" /\ row.run = NoDay
    OBVIOUS
  <2> HIDE DEF row
  <2>4. /\ payout[p] = NoPayout /\ payout'[p] = row /\ MadeInOrder'
        /\ \A q \in Payouts \ {p} : payout'[q] = payout[q]
    BY <2>1, <2>2, CreatingIsNew
  <2>5. /\ Automatic' = Automatic /\ \A q \in Payouts : payout'[q].run = payout[q].run
        /\ ToKitchen' = ToKitchen /\ p \notin ToKitchen
    BY <2>3, <2>4 DEF Automatic, NoPayout, ToKitchen, Standing
  <2>6. OnePerRun' /\ RunsAreNew
    BY <2>5 DEF PayoutInvariant, OnePerRun, RunsAreNew, Automatic
  <2>7. ListedOnce'
    BY <2>4, <2>5 DEF PayoutInvariant, ListedOnce, ToKitchen, Standing
  <2> QED BY <1>0, <2>4, <2>6, <2>7 DEF PayoutInvariant, WeekIsClear
<1> QED BY <1>1, <1>2

(* A payout sent, or failed, keeps its period; and one that failed is not revived. *)
LEMMA DecidingKeeps ==
  ASSUME PayoutInvariant, NEW p \in Waiters, NEW status \in {"completed", "failed"},
         payout' = [payout EXCEPT ![p].status = status], CallsTyped',
         \A c \in Callers : call'[c].does = "weekly" =>
           call[c].does = "weekly" /\ call'[c].day = call[c].day
  PROVE  PayoutInvariant' /\ RunsAreNew
<1>1. p \in Payouts /\ payout[p].status = "pending" /\ payout[p] \in PayoutRows
      /\ payout \in [Payouts -> PayoutRows]
  BY DEF Waiters, PayoutInvariant, MadeInOrder
<1>2. /\ payout' \in [Payouts -> PayoutRows]
      /\ payout'[p].status = status
      /\ \A q \in Payouts \ {p} : payout'[q] = payout[q]
      /\ \A q \in Payouts : /\ payout'[q].run = payout[q].run /\ payout'[q].to = payout[q].to
                            /\ payout'[q].start = payout[q].start /\ payout'[q].end = payout[q].end
  BY <1>1 DEF PayoutRows
<1>3. MadeInOrder'
  <2>1. Made' = Made
    BY <1>1, <1>2 DEF Made
  <2> QED BY <1>2, <2>1 DEF PayoutInvariant, MadeInOrder
<1>4. Automatic' = Automatic
  BY <1>2 DEF Automatic
<1>5. ToKitchen' \subseteq ToKitchen /\ ToKitchen \subseteq Payouts
  BY <1>1, <1>2 DEF ToKitchen, Standing
<1>6. ListedOnce'
  BY <1>2, <1>5 DEF PayoutInvariant, ListedOnce
<1>7. OnePerRun' /\ RunsAreNew
  BY <1>2, <1>4 DEF PayoutInvariant, OnePerRun, RunsAreNew, Automatic
<1>8. WeekIsClear'
  BY DEF PayoutInvariant, WeekIsClear
<1> QED BY <1>3, <1>6, <1>7, <1>8 DEF PayoutInvariant

-----------------------------------------------------------------------------
LEMMA OrdersKeepPayouts ==
  ASSUME PayoutInvariant,
         \/ \E o \in Orders :
              \/ Deliver(o) \/ Refund(o) \/ SendRefund(o) \/ DismissRefund(o)
              \/ \E confirmed \in BOOLEAN : CancelTransfer(o, confirmed)
         \/ \E amount \in Deposits : HandIn(amount)
  PROVE  PayoutInvariant' /\ RunsAreNew
<1>1. LinesMove /\ UNCHANGED <<day, lock, payout>>
  BY DEF Deliver, Refund, SendRefund, DismissRefund, CancelTransfer, OrderMoves, HandIn, payoutVars
<1>2. /\ CallsTyped'
      /\ \A c \in Callers : call'[c].does = call[c].does /\ call'[c].day = call[c].day
  BY <1>1, MovesKeepCalls DEF PayoutInvariant
<1> QED BY <1>1, <1>2, SamePayouts DEF PayoutInvariant, WeekIsClear

LEMMA TransactingKeeps ==
  ASSUME PayoutInvariant, NEW c \in Callers, Transacting(c)
  PROVE  PayoutInvariant' /\ RunsAreNew
<1>0. CallsTyped
  BY DEF PayoutInvariant
<1>1. ASSUME NEW does \in Doings \ {"idle"}, NEW amount, NEW about, Take(c, does, amount, about),
             does = "weekly" => Waiters = {} /\ MadeFor(day) = {}
      PROVE  PayoutInvariant' /\ RunsAreNew
  <2>1. /\ CallsTyped' /\ call'[c].does = does /\ call'[c].day = day
        /\ \A d \in Callers \ {c} : call'[d].does = "idle"
    BY <1>0, <1>1, TakingKeepsCalls
  <2>2. payout' = payout
    BY <1>1 DEF Take, payoutVars
  <2>3. \A d \in Callers : call'[d].does = "weekly" => Waiters = {} /\ MadeFor(call'[d].day) = {}
    BY <1>1, <2>1
  <2> QED BY <2>1, <2>2, <2>3, SamePayouts
<1>2. CASE \E amount \in Asked : BeginRequest(c, amount)
  BY <1>1, <1>2 DEF BeginRequest, Doings
<1>3. CASE BeginWeekly(c)
  BY <1>1, <1>3 DEF BeginWeekly, Doings
<1>4. CASE \E p \in Payouts : BeginComplete(c, p)
  BY <1>1, <1>4 DEF BeginComplete, Doings
<1>5. CASE \E amount \in Paid : BeginPayment(c, amount)
  BY <1>1, <1>5 DEF BeginPayment, Doings
<1>6. CASE CommitComplete(c)
  <2>1. CallsTyped' /\ \A d \in Callers : call'[d].does = "idle"
    BY <1>0, <1>6, ReleasingKeepsCalls DEF CommitComplete
  <2>2. CASE payout' = payout
    BY <2>1, <2>2, SamePayouts
  <2>3. CASE payout' # payout
    <3>1. PICK p \in Waiters : payout' = [payout EXCEPT ![p].status = "completed"]
      BY <1>6, <2>3 DEF CommitComplete, payoutVars
    <3> QED BY <2>1, <3>1, DecidingKeeps
  <2> QED BY <2>2, <2>3
<1>7. CASE Rollback(c)
  <2>1. CallsTyped' /\ \A d \in Callers : call'[d].does = "idle"
    BY <1>0, <1>7, ReleasingKeepsCalls DEF Rollback
  <2>2. payout' = payout
    BY <1>7 DEF Rollback, payoutVars
  <2> QED BY <2>1, <2>2, SamePayouts
<1> QED BY <1>2, <1>3, <1>4, <1>5, <1>6, <1>7, RequestKeeps, WeeklyKeeps, PaymentKeeps
        DEF Transacting

LEMMA PayoutStep == PayoutInvariant /\ [Next]_vars => PayoutInvariant' /\ RunsAreNew
<1> SUFFICES ASSUME PayoutInvariant, [Next]_vars PROVE PayoutInvariant' /\ RunsAreNew
  OBVIOUS
<1>1. CASE \/ \E o \in Orders :
                \/ Deliver(o) \/ Refund(o) \/ SendRefund(o) \/ DismissRefund(o)
                \/ \E confirmed \in BOOLEAN : CancelTransfer(o, confirmed)
           \/ \E amount \in Deposits : HandIn(amount)
  BY <1>1, OrdersKeepPayouts
<1>2. CASE \E c \in Callers : Transacting(c)
  BY <1>2, TransactingKeeps
<1>3. ASSUME UNCHANGED <<payout, lock, call>>, day' \in 1..LastDay
      PROVE  PayoutInvariant' /\ RunsAreNew
  <2>1. CallsTyped'
    BY <1>3 DEF PayoutInvariant, CallsTyped, CallRow
  <2> QED BY <1>3, <2>1, SamePayouts DEF PayoutInvariant, WeekIsClear
<1>4. CASE NextDay
  BY <1>3, <1>4, DayAssumption DEF NextDay, payoutVars, PayoutInvariant, CallsTyped
<1>5. CASE \E f \in Refreshers : Refreshing(f)
  BY <1>3, <1>5 DEF Refreshing, WorkOutBalance, ReadSince, WriteSince, Refreshes, payoutVars,
    PayoutInvariant, CallsTyped
<1>6. CASE UNCHANGED vars
  BY <1>3, <1>6 DEF vars, payoutVars, PayoutInvariant, CallsTyped
<1>7. CASE \E p \in Payouts : FailPayout(p)
  <2>1. PICK p \in Payouts : FailPayout(p)
    BY <1>7
  <2>2. p \in Waiters /\ payout' = [payout EXCEPT ![p].status = "failed"]
        /\ UNCHANGED <<day, lock, call>>
    BY <2>1 DEF FailPayout
  <2>3. CallsTyped'
    BY <2>2 DEF PayoutInvariant, CallsTyped, CallRow
  <2>4. \A q \in Payouts \ {p} : payout'[q] = payout[q]
    BY <2>2 DEF PayoutInvariant, MadeInOrder
  <2> QED BY <2>2, <2>3, DecidingKeeps
<1> QED BY <1>1, <1>2, <1>4, <1>5, <1>6, <1>7 DEF Next

LEMMA PayoutsBegin == Init => PayoutInvariant
<1> SUFFICES ASSUME Init PROVE PayoutInvariant
  OBVIOUS
<1>1. CallsTyped
  BY DayAssumption, NobodyAssumption DEF Init, CallsTyped, CallRow, Idle, Doings
<1>2. MadeInOrder
  <2>1. NoPayout \in PayoutRows /\ \A p \in Payouts : payout[p] = NoPayout
    BY DEF Init, NoPayout, PayoutRows, NoDay
  <2>2. Made = 1..0
    BY <2>1 DEF Made, NoPayout
  <2> QED BY <2>1, <2>2 DEF Init, MadeInOrder
<1>3. WeekIsClear
  BY DEF Init, WeekIsClear, Idle
<1>4. OnePerRun /\ ListedOnce
  BY DEF Init, OnePerRun, Automatic, ListedOnce, ToKitchen, Standing, NoPayout, NoDay
<1> QED BY <1>1, <1>2, <1>3, <1>4 DEF PayoutInvariant

-----------------------------------------------------------------------------
(* nextPeriodStart: whatever fails, waits or is made on one day, no day is on two
   statements that stand. *)
THEOREM DaysAreListedOnce == Spec => []ListedOnce
<1>1. PayoutInvariant => ListedOnce
  BY DEF PayoutInvariant
<1> QED BY <1>1, PayoutsBegin, PayoutStep, PTL DEF Spec

(* runWeeklyPayouts: one automatic payout for a Monday, and none beside one that
   waits, whatever runs, requests and decisions meet. *)
THEOREM WeeklyPayoutIsOne == Spec => OneAWeek
<1>1. PayoutInvariant => \A p, q \in Automatic : payout[p].run = payout[q].run => p = q
  BY DEF PayoutInvariant, OnePerRun
<1>2. PayoutInvariant /\ [Next]_vars =>
        [\A p \in Payouts : payout'[p].run # payout[p].run => Waiters = {}]_vars
  BY PayoutStep DEF RunsAreNew
<1> QED BY <1>1, <1>2, PayoutsBegin, PayoutStep, PTL DEF Spec, OneAWeek

-----------------------------------------------------------------------------
(* The money. *)
MoneyTyped ==
  /\ order \in [Orders -> OrderRows] /\ deposited \in Nat /\ clawed \in Nat
  /\ worth \in [Payouts -> Nat]
  /\ \A c \in Callers : /\ call[c].amount \in Nat /\ call[c].lines \in Int /\ call[c].lost \in Nat
                        /\ call[c].about \in Payouts \union {NoPayoutRow}

(* Only money that was confirmed is delivered for, and a rider's cash is in the ledger
   from the delivery on. *)
OrdersSound ==
  \A o \in Orders : order[o].delivered =>
    order[o].confirmed /\ (Kind[o] = "rider" => order[o].turn > 0)

(* What a transaction has read is out of date only by what orders took since, and the
   money it saw is there still. *)
ReadBehind ==
  \A c \in Callers : call[c].does # "idle" =>
    /\ call[c].lines - call[c].lost <= Lines
    /\ call[c].lines <= MoneyIn

(* What a kitchen pays is completed from the start. *)
WaitersToKitchen == \A p \in Waiters : payout[p].to = "kitchen"

BalanceInvariant ==
  /\ PayoutInvariant /\ WaitersToKitchen /\ MoneyTyped /\ OrdersSound /\ ReadBehind
  /\ Covered /\ PaidFromMoneyIn

Drawn == SumFunctionOnSet(worth, ToKitchen)
PaidBack == SumFunctionOnSet(worth, ToNuray)

Effects == [o \in Orders |-> Effect(o)]
Backings == [o \in Orders |-> Behind(o)]

LEMMA SumsAre ==
  /\ Lines = SumFunctionOnSet(Effects, Orders)
  /\ MoneyIn = SumFunctionOnSet(Backings, Orders) + deposited
  /\ Available = Lines - Drawn + PaidBack
  /\ PaidFromMoneyIn <=> Drawn <= MoneyIn + PaidBack
  /\ \A c : Covers(c) = call[c].lines - Drawn + PaidBack
BY DEF Lines, MoneyIn, Available, AvailableFrom, Covers, PaidFromMoneyIn, Drawn, PaidBack, Effects,
       Backings, SumFunction

LEMMA PayoutsFinite ==
  /\ IsFiniteSet(Payouts) /\ IsFiniteSet(ToKitchen) /\ IsFiniteSet(ToNuray)
  /\ ToKitchen \subseteq Payouts /\ ToNuray \subseteq Payouts
<1>1. IsFiniteSet(Payouts)
  BY NobodyAssumption, FS_Interval DEF Payouts
<1>2. ToKitchen \subseteq Payouts /\ ToNuray \subseteq Payouts
  BY DEF ToKitchen, ToNuray, Standing
<1> QED BY <1>1, <1>2, FS_Subset

(* A product with a natural number; the provers do no arithmetic beyond sums. *)
LEMMA TimesIsNat == \A m, n \in Nat : m * n \in Nat
OBVIOUS

LEMMA MoreTimes ==
  ASSUME NEW m \in Nat, NEW n \in Nat, NEW k \in Nat, m <= n
  PROVE  m * k <= n * k /\ m * k \in Nat /\ n * k \in Nat
OBVIOUS

LEMMA RowIs ==
  ASSUME MoneyTyped, NEW o \in Orders
  PROVE  /\ order[o].status \in {"waiting", "paid", "refunding", "refunded", "failed"}
         /\ order[o].delivered \in BOOLEAN /\ order[o].confirmed \in BOOLEAN
         /\ order[o].dismissed \in Nat /\ order[o].turn \in Nat
         /\ Total[o] \in Nat /\ Share[o] \in Nat /\ Kind[o] \in Kinds
         /\ order[o].dismissed * Total[o] \in Nat
<1>1. order[o] \in OrderRows
  BY DEF MoneyTyped
<1>2. order[o].dismissed \in Nat /\ Total[o] \in Nat
  BY <1>1, OrderAssumption DEF OrderRows
<1>3. order[o].dismissed * Total[o] \in Nat
  BY <1>2, TimesIsNat
<1> QED BY <1>1, <1>2, <1>3, OrderAssumption DEF OrderRows

LEMMA EffectIsInt == ASSUME MoneyTyped, NEW o \in Orders PROVE Effect(o) \in Int
<1>1. Entitlement(o) \in Nat
  BY RowIs DEF Entitlement
<1>2. Collected(o) \in Int
  <2> DEFINE d == order[o].dismissed * Total[o]
  <2>1. d \in Nat /\ Total[o] \in Nat
    BY RowIs
  <2>2. Collected(o) = IF order[o].confirmed THEN Total[o] - d
                       ELSE IF order[o].status = "refunded" THEN Total[o] ELSE 0
    BY DEF Collected
  <2> HIDE DEF d
  <2> QED BY <2>1, <2>2
<1> HIDE DEF Entitlement, Collected
<1> QED BY <1>1, <1>2 DEF Effect

LEMMA DropIsNat ==
  ASSUME NEW m \in Int, NEW n \in Int
  PROVE  Drop(m, n) \in Nat /\ m <= n + Drop(m, n)
BY DEF Drop

LEMMA BehindIsNat == ASSUME MoneyTyped, NEW o \in Orders PROVE Behind(o) \in Nat
<1> DEFINE d == order[o].dismissed * Total[o]
           f == Drop(Share[o], Total[o])
<1>1. d \in Nat /\ Total[o] \in Nat /\ f \in Nat
  <2>1. d \in Nat /\ Total[o] \in Nat /\ Share[o] \in Nat
    BY RowIs
  <2>2. Total[o] \in Int /\ Share[o] \in Int
    BY <2>1
  <2> HIDE DEF d, f
  <2>3. f \in Nat
    BY <2>2, DropIsNat DEF f
  <2> QED BY <2>1, <2>3
<1>2. Behind(o) = (IF Kind[o] \in {"wallet", "online"} /\ order[o].delivered THEN Total[o] ELSE 0)
                    + (IF order[o].delivered THEN f ELSE 0)
                    + (IF Kind[o] = "kitchen" /\ order[o].confirmed THEN d ELSE 0)
  BY DEF Behind
<1> HIDE DEF d, f
<1> QED BY <1>1, <1>2

LEMMA AmountsAre ==
  ASSUME MoneyTyped
  PROVE  Lines \in Int /\ MoneyIn \in Nat /\ Drawn \in Nat /\ PaidBack \in Nat
<1>1. \A o \in Orders : Effects[o] \in Int /\ Backings[o] \in Nat
  BY EffectIsInt, BehindIsNat DEF Effects, Backings
<1>2. SumFunctionOnSet(Effects, Orders) \in Int /\ SumFunctionOnSet(Backings, Orders) \in Nat
  BY <1>1, OrderAssumption, SumInt, SumNat
<1>3. \A q \in Payouts : worth[q] \in Nat
  BY DEF MoneyTyped
<1>4. Drawn \in Nat /\ PaidBack \in Nat
  <2>1. \A q \in ToKitchen : worth[q] \in Nat
    BY <1>3, PayoutsFinite
  <2>2. \A q \in ToNuray : worth[q] \in Nat
    BY <1>3, PayoutsFinite
  <2>3. SumFunctionOnSet(worth, ToKitchen) \in Nat
    BY <2>1, PayoutsFinite, SumNat
  <2>4. SumFunctionOnSet(worth, ToNuray) \in Nat
    BY <2>2, PayoutsFinite, SumNat
  <2> QED BY <2>3, <2>4 DEF Drawn, PaidBack
<1>5. deposited \in Nat
  BY DEF MoneyTyped
<1> QED BY <1>2, <1>4, <1>5, SumsAre

(* Cash counts against the oldest orders first: what the orders it covers are worth is
   no more than the cash. *)
InCash(o) == IF Kind[o] = "rider" /\ Earned(o) /\ HandedIn(o) THEN Total[o] ELSE 0

LEMMA CashCovers ==
  ASSUME MoneyTyped, OrdersSound
  PROVE  SumFunctionOnSet([o \in Orders |-> InCash(o)], Orders) <= deposited
<1> DEFINE f == [o \in Orders |-> InCash(o)]
           H == {o \in Orders : Kind[o] = "rider" /\ Earned(o) /\ HandedIn(o)}
           turn == [o \in Orders |-> order[o].turn]
<1>1. /\ IsFiniteSet(Orders) /\ IsFiniteSet(H) /\ IsFiniteSet(Orders \ H) /\ H \subseteq Orders
      /\ \A o \in Orders : Total[o] \in Nat /\ deposited \in Nat
      /\ deposited \in Nat
  <2>1. IsFiniteSet(Orders) /\ \A o \in Orders : Total[o] \in Nat
    BY OrderAssumption
  <2>2. H \subseteq Orders /\ Orders \ H \subseteq Orders
    OBVIOUS
  <2> HIDE DEF H
  <2> QED BY <2>1, <2>2, FS_Subset DEF MoneyTyped
<1>2. /\ \A o \in Orders : f[o] \in Int
      /\ \A o \in H : f[o] = Total[o]
      /\ \A o \in Orders \ H : f[o] = 0
  BY <1>1 DEF InCash
<1>3. \A o \in H : turn[o] \in Int /\ turn[o] = order[o].turn
  BY RowIs
<1>4. \A o \in H : o \in CashOrders /\ CashUpTo(o) <= deposited
  <2> SUFFICES ASSUME NEW o \in H PROVE o \in CashOrders /\ CashUpTo(o) <= deposited
    OBVIOUS
  <2>1. order[o].delivered /\ Kind[o] = "rider" /\ CashUpTo(o) <= deposited
    BY DEF Earned, HandedIn
  <2> QED BY <2>1 DEF OrdersSound, CashOrders
<1> HIDE DEF f, H, turn
<1>5. SumFunctionOnSet(f, Orders) = SumFunctionOnSet(f, H) + SumFunctionOnSet(f, Orders \ H)
  BY <1>1, <1>2, SumSplit
<1>6. SumFunctionOnSet(f, Orders \ H) = 0
  BY <1>1, <1>2, SumZero
<1>7. SumFunctionOnSet(f, H) = SumFunctionOnSet(Total, H)
  BY <1>1, <1>2, SumSame
<1>8. SumFunctionOnSet(Total, H) \in Nat /\ SumFunctionOnSet(Total, H) <= deposited
  <2>1. CASE H = {}
    BY <1>1, <2>1, SumOfNone
  <2>2. CASE H # {}
    <3>1. PICK last \in H : \A o \in H : turn[o] <= turn[last]
      BY <1>1, <1>3, <2>2, GreatestElement
    <3> DEFINE P == {p \in CashOrders : order[p].turn <= order[last].turn}
    <3>2. H \subseteq P
      BY <1>3, <1>4, <3>1
    <3>3. P \subseteq Orders /\ CashUpTo(last) = SumFunctionOnSet(Total, P)
      BY DEF CashOrders, CashUpTo
    <3> HIDE DEF P
    <3>4. IsFiniteSet(P) /\ \A p \in P : Total[p] \in Nat
      BY <1>1, <3>3, FS_Subset
    <3>5. SumFunctionOnSet(Total, H) \in Nat /\ SumFunctionOnSet(Total, H) <= SumFunctionOnSet(Total, P)
            /\ SumFunctionOnSet(Total, P) \in Nat
      BY <3>2, <3>4, SumPart, SumNat
    <3>6. SumFunctionOnSet(Total, P) <= deposited
      BY <1>4, <3>3
    <3> QED BY <1>1, <3>5, <3>6
  <2> QED BY <2>1, <2>2
<1>9. SumFunctionOnSet(f, Orders) <= deposited
  BY <1>1, <1>5, <1>6, <1>7, <1>8
<1> QED BY <1>9 DEF f

(* Nuray owes nothing on an order beyond what is behind it. *)
LEMMA EffectIsBacked ==
  ASSUME MoneyTyped, OrdersSound, NEW o \in Orders
  PROVE  InCash(o) \in Int /\ Effect(o) <= Behind(o) + InCash(o)
<1> DEFINE d == order[o].dismissed * Total[o]
           f == Drop(Share[o], Total[o])
           t == Total[o]
           s == Share[o]
<1>1. d \in Nat /\ t \in Nat /\ s \in Nat
  BY RowIs
<1>2. f \in Nat /\ s <= t + f
  <2>1. Share[o] \in Int /\ Total[o] \in Int
    BY <1>1
  <2> QED BY <2>1, DropIsNat
<1>3. Behind(o) = (IF Kind[o] \in {"wallet", "online"} /\ order[o].delivered THEN t ELSE 0)
                    + (IF order[o].delivered THEN f ELSE 0)
                    + (IF Kind[o] = "kitchen" /\ order[o].confirmed THEN d ELSE 0)
  BY DEF Behind
<1>4. Entitlement(o) = (IF Earned(o) THEN s ELSE 0) /\ (Earned(o) => order[o].delivered)
  BY DEF Entitlement, Earned
<1>5. Collected(o) = IF order[o].confirmed THEN t - d ELSE IF order[o].status = "refunded" THEN t ELSE 0
  BY DEF Collected
<1>6. InCash(o) = IF Kind[o] = "rider" /\ Earned(o) /\ HandedIn(o) THEN t ELSE 0
  BY DEF InCash
<1>7. Effect(o) = IF order[o].status = "waiting" \/ Kind[o] = "elsewhere" THEN 0
                  ELSE IF Kind[o] = "kitchen" THEN Entitlement(o) - Collected(o)
                  ELSE IF Kind[o] = "rider" /\ ~HandedIn(o) THEN 0
                  ELSE Entitlement(o)
  BY DEF Effect
<1>8. order[o].delivered => order[o].confirmed
  BY DEF OrdersSound
<1>9. Kind[o] \in {"wallet", "online", "rider", "kitchen", "elsewhere"}
  BY RowIs DEF Kinds
<1> HIDE DEF d, f, t, s
<1>10. Behind(o) \in Nat /\ InCash(o) \in Nat
  BY <1>1, <1>6, BehindIsNat
<1>11. CASE Kind[o] = "kitchen"
  <2>1. CASE Earned(o)
    BY <1>1, <1>2, <1>3, <1>4, <1>5, <1>6, <1>7, <1>8, <1>11, <2>1
  <2>2. CASE ~Earned(o)
    BY <1>1, <1>2, <1>3, <1>4, <1>5, <1>6, <1>7, <1>8, <1>10, <1>11, <2>2
  <2> QED BY <2>1, <2>2
<1>12. CASE Kind[o] = "rider"
  BY <1>1, <1>2, <1>3, <1>4, <1>6, <1>7, <1>10, <1>12
<1>13. CASE Kind[o] \in {"wallet", "online"}
  BY <1>1, <1>2, <1>3, <1>4, <1>6, <1>7, <1>10, <1>13
<1>14. CASE Kind[o] = "elsewhere"
  BY <1>7, <1>10, <1>14
<1> QED BY <1>9, <1>10, <1>11, <1>12, <1>13, <1>14

LEMMA LinesAreBacked ==
  ASSUME MoneyTyped, OrdersSound
  PROVE  Lines <= MoneyIn
<1> DEFINE c == [o \in Orders |-> InCash(o)]
           h == [o \in Orders |-> Behind(o) + InCash(o)]
<1>1. \A o \in Orders : /\ Effects[o] \in Int /\ Backings[o] \in Int /\ c[o] \in Int /\ h[o] \in Int
                        /\ h[o] = Backings[o] + c[o] /\ Effects[o] <= h[o]
  <2> SUFFICES ASSUME NEW o \in Orders
               PROVE  /\ Effects[o] \in Int /\ Backings[o] \in Int /\ c[o] \in Int /\ h[o] \in Int
                      /\ h[o] = Backings[o] + c[o] /\ Effects[o] <= h[o]
    OBVIOUS
  <2>1. Effects[o] = Effect(o) /\ Backings[o] = Behind(o) /\ c[o] = InCash(o) /\ h[o] = Behind(o) + InCash(o)
    BY DEF Effects, Backings
  <2>2. Effect(o) \in Int /\ Behind(o) \in Nat
    BY EffectIsInt, BehindIsNat
  <2>3. InCash(o) \in Int /\ Effect(o) <= Behind(o) + InCash(o)
    BY EffectIsBacked
  <2> HIDE DEF c, h
  <2> QED BY <2>1, <2>2, <2>3
<1>2. SumFunctionOnSet(c, Orders) <= deposited
  BY CashCovers
<1> HIDE DEF c, h
<1>3. SumFunctionOnSet(h, Orders) = SumFunctionOnSet(Backings, Orders) + SumFunctionOnSet(c, Orders)
  BY <1>1, OrderAssumption, SumPlus
<1>4. SumFunctionOnSet(Effects, Orders) <= SumFunctionOnSet(h, Orders)
  BY <1>1, OrderAssumption, SumMonotone
<1>5. /\ SumFunctionOnSet(h, Orders) \in Int /\ SumFunctionOnSet(Backings, Orders) \in Int
      /\ SumFunctionOnSet(c, Orders) \in Int /\ SumFunctionOnSet(Effects, Orders) \in Int
  BY <1>1, OrderAssumption, SumInt
<1>6. deposited \in Nat
  BY DEF MoneyTyped
<1> QED BY <1>2, <1>3, <1>4, <1>5, <1>6, SumsAre

-----------------------------------------------------------------------------
(* The same of the next state. *)
AmountsTyped ==
  /\ Lines \in Int /\ MoneyIn \in Nat /\ Drawn \in Nat /\ PaidBack \in Nat
  /\ \A o \in Orders : Behind(o) \in Nat

LEMMA AmountsGoOn == MoneyTyped' => AmountsTyped'
<1>1. MoneyTyped => AmountsTyped
  BY AmountsAre, BehindIsNat DEF AmountsTyped
<1> QED BY <1>1, PTL

LEMMA SumsGoOn ==
  /\ MoneyIn' = SumFunctionOnSet(Backings', Orders) + deposited'
  /\ Available' = Lines' - Drawn' + PaidBack'
  /\ PaidFromMoneyIn' <=> Drawn' <= MoneyIn' + PaidBack'
BY DEF Lines, MoneyIn, Available, AvailableFrom, PaidFromMoneyIn, Drawn, PaidBack, Backings, SumFunction

(* Orders move, or cash comes in: the drop of the balance is noted, and what is behind
   it only grows. *)
LEMMA MovesKeepBalance ==
  ASSUME BalanceInvariant, LinesMove, UNCHANGED payoutVars,
         order' \in [Orders -> OrderRows], deposited' \in Nat,
         OrdersSound', MoneyTyped' => MoneyIn <= MoneyIn'
  PROVE  MoneyTyped' /\ OrdersSound' /\ ReadBehind' /\ Covered' /\ PaidFromMoneyIn'
<1> DEFINE lost == Drop(Lines, Lines')
<1>1. /\ clawed' = clawed + lost
      /\ call' = [c \in Callers |->
                    IF call[c].does = "idle" THEN call[c] ELSE [call[c] EXCEPT !.lost = @ + lost]]
  BY DEF LinesMove
<1>2. Lines \in Int /\ Lines' \in Int
  <2>1. Lines \in Int
    BY AmountsAre DEF BalanceInvariant
  <2>2. Effects' = [o \in Orders |-> Effects'[o]] /\ Lines' = SumFunctionOnSet(Effects', Orders)
    BY DEF Effects, Lines, SumFunction
  <2>3. ASSUME NEW o \in Orders PROVE Effects'[o] \in Int
    <3> DEFINE d == order'[o].dismissed * Total[o]
    <3>1. order'[o] \in OrderRows /\ Total[o] \in Nat /\ Share[o] \in Nat
      BY OrderAssumption
    <3>2. order'[o].dismissed \in Nat
      BY <3>1 DEF OrderRows
    <3>3. d \in Nat
      BY <3>1, <3>2, TimesIsNat
    <3>4. Collected(o)' = IF order'[o].confirmed THEN Total[o] - d
                          ELSE IF order'[o].status = "refunded" THEN Total[o] ELSE 0
      BY DEF Collected
    <3> HIDE DEF d
    <3>5. Collected(o)' \in Int /\ Entitlement(o)' \in Int
      BY <3>1, <3>3, <3>4 DEF Entitlement
    <3>6. Effect(o)' \in Int
      BY <3>5 DEF Effect
    <3> QED BY <3>6 DEF Effects
  <2> QED BY <2>1, <2>2, <2>3, OrderAssumption, SumInt
<1>3. lost \in Nat /\ Lines <= Lines' + lost
  BY <1>2, DropIsNat
<1> HIDE DEF lost
<1>4. ASSUME NEW c \in Callers
      PROVE  /\ call'[c].does = call[c].does /\ call'[c].amount = call[c].amount
             /\ call'[c].lines = call[c].lines /\ call'[c].about = call[c].about
             /\ call'[c].lost = IF call[c].does = "idle" THEN call[c].lost ELSE call[c].lost + lost
  <2>1. call[c] = [does |-> call[c].does, amount |-> call[c].amount, about |-> call[c].about,
                   day |-> call[c].day, lines |-> call[c].lines, lost |-> call[c].lost]
    BY DEF BalanceInvariant, PayoutInvariant, CallsTyped, CallRow
  <2>2. CASE call[c].does = "idle"
    BY <1>1, <2>2
  <2>3. CASE call[c].does # "idle"
    <3>1. call'[c] = [call[c] EXCEPT !.lost = @ + lost]
      BY <1>1, <2>3
    <3>2. call'[c] = [does |-> call[c].does, amount |-> call[c].amount, about |-> call[c].about,
                      day |-> call[c].day, lines |-> call[c].lines, lost |-> call[c].lost + lost]
      BY <2>1, <3>1
    <3> QED BY <2>3, <3>2
  <2> QED BY <2>2, <2>3
<1>5. MoneyTyped'
  <2>1. clawed' \in Nat
    BY <1>1, <1>3 DEF BalanceInvariant, MoneyTyped
  <2>2. worth' \in [Payouts -> Nat]
    BY DEF BalanceInvariant, MoneyTyped, payoutVars
  <2>3. \A c \in Callers : /\ call'[c].amount \in Nat /\ call'[c].lines \in Int /\ call'[c].lost \in Nat
                           /\ call'[c].about \in Payouts \union {NoPayoutRow}
    BY <1>3, <1>4 DEF BalanceInvariant, MoneyTyped
  <2> QED BY <2>1, <2>2, <2>3 DEF MoneyTyped
<1>6. MoneyIn \in Nat /\ MoneyIn' \in Nat /\ MoneyIn <= MoneyIn'
  BY <1>5, AmountsAre, AmountsGoOn DEF BalanceInvariant, AmountsTyped
<1>7. Drawn' = Drawn /\ PaidBack' = PaidBack /\ Drawn \in Nat /\ PaidBack \in Nat
  <2>1. Drawn' = Drawn /\ PaidBack' = PaidBack
    BY DEF Drawn, PaidBack, ToKitchen, ToNuray, Standing, payoutVars
  <2> QED BY <2>1, AmountsAre DEF BalanceInvariant
<1>8. ReadBehind'
  <2> SUFFICES ASSUME NEW c \in Callers, call'[c].does # "idle"
               PROVE  call'[c].lines - call'[c].lost <= Lines' /\ call'[c].lines <= MoneyIn'
    BY DEF ReadBehind
  <2>1. call[c].lines - call[c].lost <= Lines /\ call[c].lines <= MoneyIn
    BY <1>4 DEF BalanceInvariant, ReadBehind
  <2>2. call[c].lines \in Int /\ call[c].lost \in Nat
    BY DEF BalanceInvariant, MoneyTyped
  <2>3. call'[c].lines = call[c].lines /\ call'[c].lost = call[c].lost + lost
    BY <1>4
  <2> DEFINE n == call[c].lines
             k == call[c].lost
  <2>4. n - k <= Lines /\ n <= MoneyIn /\ n \in Int /\ k \in Nat
    BY <2>1, <2>2
  <2> HIDE DEF n, k
  <2>5. n - (k + lost) <= Lines'
    <3> DEFINE before == Lines
               after == Lines'
    <3>1. /\ n \in Int /\ k \in Nat /\ lost \in Nat /\ before \in Int /\ after \in Int
          /\ n - k <= before /\ before <= after + lost
      BY <1>2, <1>3, <2>4
    <3> HIDE DEF before, after
    <3>2. n - (k + lost) <= after
      BY <3>1
    <3> QED BY <3>2 DEF after
  <2>6. n <= MoneyIn'
    BY <1>6, <2>4
  <2> QED BY <2>3, <2>5, <2>6 DEF n, k
<1>9. Covered'
  <2>1. Lines - Drawn + PaidBack >= -clawed /\ clawed \in Nat
    BY SumsAre DEF BalanceInvariant, Covered, MoneyTyped
  <2>2. Lines' - Drawn' + PaidBack' >= -clawed'
    BY <1>1, <1>2, <1>3, <1>7, <2>1
  <2> QED BY <2>2, SumsGoOn DEF Covered
<1>10. PaidFromMoneyIn'
  <2>1. Drawn <= MoneyIn + PaidBack
    BY SumsAre DEF BalanceInvariant
  <2> QED BY <1>6, <1>7, <2>1, SumsGoOn
<1> QED BY <1>5, <1>8, <1>9, <1>10

(* What is behind an order goes on being behind it. *)
LEMMA RowKeepsBehind ==
  ASSUME BalanceInvariant, NEW o \in Orders, NEW row \in OrderRows, order' = [order EXCEPT ![o] = row],
         order[o].delivered => row.delivered,
         order[o].confirmed => row.confirmed,
         order[o].dismissed <= row.dismissed,
         row.delivered => row.confirmed /\ (Kind[o] = "rider" => row.turn > 0),
         deposited' = deposited
  PROVE  /\ order' \in [Orders -> OrderRows] /\ OrdersSound'
         /\ MoneyTyped' => MoneyIn <= MoneyIn'
<1>1. /\ order \in [Orders -> OrderRows]
      /\ \A q \in Orders : order'[q] = IF q = o THEN row ELSE order[q]
      /\ order' \in [Orders -> OrderRows]
  BY DEF BalanceInvariant, MoneyTyped
<1>2. OrdersSound'
  <2>1. OrdersSound
    BY DEF BalanceInvariant
  <2> SUFFICES ASSUME NEW q \in Orders, order'[q].delivered
               PROVE  order'[q].confirmed /\ (Kind[q] = "rider" => order'[q].turn > 0)
    BY DEF OrdersSound
  <2>2. CASE q = o
    BY <1>1, <2>2
  <2>3. CASE q # o
    BY <1>1, <2>1, <2>3 DEF OrdersSound
  <2> QED BY <2>2, <2>3
<1>3. ASSUME MoneyTyped' PROVE MoneyIn <= MoneyIn'
  <2>1. AmountsTyped /\ AmountsTyped'
    BY <1>3, AmountsGoOn, AmountsAre, BehindIsNat DEF AmountsTyped, BalanceInvariant
  <2>2. ASSUME NEW q \in Orders PROVE Behind(q) <= Behind(q)'
    <3>1. CASE q # o
      <4>1. order'[q] = order[q]
        BY <1>1, <3>1
      <4>2. Behind(q)' = Behind(q)
        BY <4>1 DEF Behind
      <4>3. Behind(q) \in Nat
        BY <2>1 DEF AmountsTyped
      <4> QED BY <4>2, <4>3
    <3>2. CASE q = o
      <4> DEFINE m == order[o].dismissed * Total[o]
                 n == row.dismissed * Total[o]
                 f == Drop(Share[o], Total[o])
                 t == Total[o]
      <4>1. order[o].dismissed \in Nat /\ row.dismissed \in Nat /\ t \in Nat /\ Share[o] \in Nat
        BY <1>1, OrderAssumption DEF OrderRows
      <4>2. m <= n /\ m \in Nat /\ n \in Nat
        BY <4>1, MoreTimes
      <4>3. f \in Nat
        <5>1. Share[o] \in Int /\ Total[o] \in Int
          BY <4>1
        <5> QED BY <5>1, DropIsNat
      <4>4. Behind(o) = (IF Kind[o] \in {"wallet", "online"} /\ order[o].delivered THEN t ELSE 0)
                          + (IF order[o].delivered THEN f ELSE 0)
                          + (IF Kind[o] = "kitchen" /\ order[o].confirmed THEN m ELSE 0)
        BY DEF Behind
      <4>5. Behind(o)' = (IF Kind[o] \in {"wallet", "online"} /\ row.delivered THEN t ELSE 0)
                          + (IF row.delivered THEN f ELSE 0)
                          + (IF Kind[o] = "kitchen" /\ row.confirmed THEN n ELSE 0)
        <5>1. order'[o] = row
          BY <1>1
        <5> QED BY <5>1 DEF Behind
      <4>6. row.delivered \in BOOLEAN /\ row.confirmed \in BOOLEAN
              /\ order[o].delivered \in BOOLEAN /\ order[o].confirmed \in BOOLEAN
        BY <1>1 DEF OrderRows
      <4> DEFINE a == IF Kind[o] \in {"wallet", "online"} /\ order[o].delivered THEN t ELSE 0
                 b == IF order[o].delivered THEN f ELSE 0
                 c == IF Kind[o] = "kitchen" /\ order[o].confirmed THEN m ELSE 0
                 x == IF Kind[o] \in {"wallet", "online"} /\ row.delivered THEN t ELSE 0
                 y == IF row.delivered THEN f ELSE 0
                 z == IF Kind[o] = "kitchen" /\ row.confirmed THEN n ELSE 0
      <4> HIDE DEF m, n, f, t
      <4>7. a \in Nat /\ b \in Nat /\ c \in Nat /\ x \in Nat /\ y \in Nat /\ z \in Nat
        BY <4>1, <4>2, <4>3
      <4>8. a <= x /\ b <= y /\ c <= z
        BY <4>1, <4>2, <4>3, <4>6
      <4>9. Behind(o) = a + b + c /\ Behind(o)' = x + y + z
        BY <4>4, <4>5
      <4> HIDE DEF a, b, c, x, y, z
      <4>10. Behind(o) <= Behind(o)'
        BY <4>7, <4>8, <4>9
      <4> QED BY <3>2, <4>10
    <3> QED BY <3>1, <3>2
  <2>3. \A q \in Orders : /\ Backings[q] \in Int /\ Backings'[q] \in Int
                          /\ Backings[q] <= Backings'[q]
    <3> SUFFICES ASSUME NEW q \in Orders
                 PROVE  /\ Backings[q] \in Int /\ Backings'[q] \in Int
                        /\ Backings[q] <= Backings'[q]
      OBVIOUS
    <3>1. Backings[q] = Behind(q) /\ Backings'[q] = Behind(q)'
      BY DEF Backings
    <3>2. Behind(q) \in Nat /\ Behind(q)' \in Nat
      BY <2>1 DEF AmountsTyped
    <3> QED BY <2>2, <3>1, <3>2
  <2>4. SumFunctionOnSet(Backings, Orders) <= SumFunctionOnSet(Backings', Orders)
    BY <2>3, OrderAssumption, SumMonotone
  <2>5. SumFunctionOnSet(Backings, Orders) \in Int /\ SumFunctionOnSet(Backings', Orders) \in Int
    BY <2>3, OrderAssumption, SumInt
  <2>6. deposited \in Nat
    BY DEF BalanceInvariant, MoneyTyped
  <2> QED BY <2>4, <2>5, <2>6, SumsAre, SumsGoOn
<1> QED BY <1>1, <1>2, <1>3

LEMMA OrdersKeepBalance ==
  ASSUME BalanceInvariant,
         \/ \E o \in Orders :
              \/ Deliver(o) \/ Refund(o) \/ SendRefund(o) \/ DismissRefund(o)
              \/ \E confirmed \in BOOLEAN : CancelTransfer(o, confirmed)
         \/ \E amount \in Deposits : HandIn(amount)
  PROVE  MoneyTyped' /\ OrdersSound' /\ ReadBehind' /\ Covered' /\ PaidFromMoneyIn'
<1>1. ASSUME NEW o \in Orders, NEW row \in OrderRows, OrderMoves(o, row),
             order[o].delivered => row.delivered,
             order[o].confirmed => row.confirmed,
             order[o].dismissed <= row.dismissed,
             row.delivered => row.confirmed /\ (Kind[o] = "rider" => row.turn > 0)
      PROVE  MoneyTyped' /\ OrdersSound' /\ ReadBehind' /\ Covered' /\ PaidFromMoneyIn'
  <2>1. order' = [order EXCEPT ![o] = row] /\ deposited' = deposited /\ UNCHANGED payoutVars /\ LinesMove
    BY <1>1 DEF OrderMoves
  <2>2. /\ order' \in [Orders -> OrderRows] /\ OrdersSound'
        /\ MoneyTyped' => MoneyIn <= MoneyIn'
    BY <1>1, <2>1, RowKeepsBehind
  <2>3. deposited' \in Nat
    BY <2>1 DEF BalanceInvariant, MoneyTyped
  <2> QED BY <2>1, <2>2, <2>3, MovesKeepBalance
<1>2. ASSUME NEW o \in Orders
      PROVE  /\ order[o] \in OrderRows
             /\ order[o].delivered => order[o].confirmed /\ (Kind[o] = "rider" => order[o].turn > 0)
  BY DEF BalanceInvariant, MoneyTyped, OrdersSound
<1>3. CASE \E o \in Orders : Deliver(o)
  <2>1. PICK o \in Orders : Deliver(o)
    BY <1>3
  <2> DEFINE turn == IF Kind[o] \in {"rider", "elsewhere"} THEN Cardinality(CashOrders) + 1 ELSE 0
             row == [Waiting EXCEPT !.status = "paid", !.delivered = TRUE, !.confirmed = TRUE, !.turn = turn]
  <2>2. turn \in Nat /\ (Kind[o] = "rider" => turn > 0)
    <3>1. IsFiniteSet(CashOrders)
      BY OrderAssumption, FS_Subset DEF CashOrders
    <3>2. Cardinality(CashOrders) \in Nat
      BY <3>1, FS_CardinalityType
    <3> QED BY <3>2
  <2>3. OrderMoves(o, row) /\ order[o] = Waiting
    BY <2>1 DEF Deliver
  <2> HIDE DEF turn
  <2>4. row \in OrderRows /\ row.dismissed = 0 /\ row.delivered /\ row.confirmed /\ row.turn = turn
    BY <2>2 DEF OrderRows, Waiting
  <2>5. order[o].dismissed <= row.dismissed
    BY <2>3, <2>4 DEF Waiting
  <2> HIDE DEF row
  <2> QED BY <1>1, <2>2, <2>3, <2>4, <2>5
<1>4. CASE \E o \in Orders, confirmed \in BOOLEAN : CancelTransfer(o, confirmed)
  <2>1. PICK o \in Orders, confirmed \in BOOLEAN : CancelTransfer(o, confirmed)
    BY <1>4
  <2> DEFINE row == [Waiting EXCEPT !.status = "refunding", !.confirmed = confirmed]
  <2>2. OrderMoves(o, row) /\ order[o] = Waiting
    BY <2>1 DEF CancelTransfer
  <2>3. row \in OrderRows /\ row.dismissed = 0 /\ ~row.delivered
    BY DEF OrderRows, Waiting
  <2>4. ~order[o].delivered /\ ~order[o].confirmed /\ order[o].dismissed <= row.dismissed
    BY <2>2, <2>3 DEF Waiting
  <2> HIDE DEF row
  <2> QED BY <1>1, <2>2, <2>3, <2>4
<1>5. ASSUME NEW o \in Orders, NEW row \in OrderRows, OrderMoves(o, row),
             row.delivered = order[o].delivered, row.confirmed = order[o].confirmed,
             row.turn = order[o].turn, order[o].dismissed <= row.dismissed
      PROVE  MoneyTyped' /\ OrdersSound' /\ ReadBehind' /\ Covered' /\ PaidFromMoneyIn'
  BY <1>1, <1>2, <1>5
<1>6. ASSUME NEW o \in Orders, NEW status \in {"paid", "refunding", "refunded", "failed"},
             OrderMoves(o, [order[o] EXCEPT !.status = status])
      PROVE  MoneyTyped' /\ OrdersSound' /\ ReadBehind' /\ Covered' /\ PaidFromMoneyIn'
  <2> DEFINE row == [order[o] EXCEPT !.status = status]
  <2>1. /\ row \in OrderRows /\ row.delivered = order[o].delivered /\ row.confirmed = order[o].confirmed
        /\ row.turn = order[o].turn /\ row.dismissed = order[o].dismissed
        /\ order[o].dismissed \in Nat
    BY <1>2 DEF OrderRows
  <2>2. OrderMoves(o, row)
    BY <1>6
  <2> HIDE DEF row
  <2>3. order[o].dismissed <= row.dismissed
    BY <2>1
  <2> QED BY <1>5, <2>1, <2>2, <2>3
<1>7. CASE \E o \in Orders : Refund(o)
  BY <1>6, <1>7 DEF Refund
<1>8. CASE \E o \in Orders : SendRefund(o)
  BY <1>6, <1>8 DEF SendRefund
<1>9. CASE \E o \in Orders : DismissRefund(o)
  <2>1. PICK o \in Orders : DismissRefund(o)
    BY <1>9
  <2> DEFINE status == IF order[o].confirmed THEN "paid" ELSE "failed"
             row == [order[o] EXCEPT !.dismissed = @ + 1, !.status = status]
  <2>2. order[o].dismissed \in Nat /\ order[o].dismissed + 1 \in Nat
          /\ order[o].dismissed <= order[o].dismissed + 1
    BY <1>2 DEF OrderRows
  <2>3. OrderMoves(o, row)
    BY <2>1 DEF DismissRefund
  <2>4. status \in {"paid", "failed"}
    OBVIOUS
  <2> HIDE DEF status
  <2>5. /\ row \in OrderRows /\ row.delivered = order[o].delivered /\ row.confirmed = order[o].confirmed
        /\ row.turn = order[o].turn /\ row.dismissed = order[o].dismissed + 1
    BY <1>2, <2>2, <2>4 DEF OrderRows
  <2> HIDE DEF row
  <2>6. order[o].dismissed <= row.dismissed
    BY <2>2, <2>5
  <2> QED BY <1>5, <2>3, <2>5, <2>6
<1>10. CASE \E amount \in Deposits : HandIn(amount)
  <2>1. PICK amount \in Deposits : HandIn(amount)
    BY <1>10
  <2>2. deposited' = deposited + amount /\ UNCHANGED <<order, payoutVars>> /\ LinesMove
    BY <2>1 DEF HandIn
  <2>3. amount \in Nat /\ deposited \in Nat /\ deposited' \in Nat /\ deposited <= deposited'
    BY <2>2, SumAssumption DEF BalanceInvariant, MoneyTyped
  <2>4. order' \in [Orders -> OrderRows] /\ OrdersSound'
    BY <2>2 DEF BalanceInvariant, MoneyTyped, OrdersSound
  <2>5. Backings' = Backings
    BY <2>2 DEF Backings, Behind
  <2>6. MoneyIn <= MoneyIn'
    <3> DEFINE b == SumFunctionOnSet(Backings, Orders)
    <3>1. b \in Int
      <4>1. \A o \in Orders : Backings[o] \in Int
        BY BehindIsNat DEF Backings, BalanceInvariant
      <4> QED BY <4>1, OrderAssumption, SumInt
    <3> DEFINE d == deposited
               e == deposited'
    <3>2. MoneyIn = b + d /\ MoneyIn' = b + e /\ d \in Nat /\ e \in Nat /\ d <= e
      BY <2>3, <2>5, SumsAre, SumsGoOn
    <3> HIDE DEF b, d, e
    <3>3. b + d <= b + e
      BY <3>1, <3>2
    <3> QED BY <3>2, <3>3
  <2> QED BY <2>2, <2>3, <2>4, <2>6, MovesKeepBalance
<1> QED BY <1>3, <1>4, <1>7, <1>8, <1>9, <1>10

-----------------------------------------------------------------------------
(* The transactions, which leave orders alone. *)
LEMMA SameOrdersSameLines ==
  ASSUME UNCHANGED orderVars
  PROVE  Lines' = Lines /\ MoneyIn' = MoneyIn /\ Effects' = Effects /\ Backings' = Backings
BY DEF orderVars, Lines, MoneyIn, Effects, Backings, Effect, HandedIn, CashUpTo, CashOrders,
       Entitlement, Earned, Collected, Behind

Balanced == MoneyTyped /\ OrdersSound /\ ReadBehind /\ Covered /\ PaidFromMoneyIn

(* Payouts move, and no transaction under way reads anything new. *)
LEMMA PayoutsMove ==
  ASSUME BalanceInvariant, UNCHANGED orderVars, worth' \in [Payouts -> Nat],
         Drawn' \in Nat, PaidBack' \in Nat, clawed' \in Nat,
         Lines - Drawn' + PaidBack' >= -clawed', Drawn' <= MoneyIn + PaidBack',
         \A c \in Callers : call'[c] = call[c] \/ call'[c] = Idle
  PROVE  Balanced'
<1>1. MoneyTyped' /\ OrdersSound'
  <2>1. Idle.amount \in Nat /\ Idle.lines \in Int /\ Idle.lost \in Nat /\ Idle.about = NoPayoutRow
    BY DEF Idle
  <2> QED BY <2>1 DEF BalanceInvariant, MoneyTyped, OrdersSound, orderVars
<1>2. Lines' = Lines /\ MoneyIn' = MoneyIn
  BY SameOrdersSameLines
<1>3. ReadBehind'
  <2>1. Idle.does = "idle"
    BY DEF Idle
  <2> QED BY <1>2, <2>1 DEF BalanceInvariant, ReadBehind
<1>4. Covered' /\ PaidFromMoneyIn'
  BY <1>2, SumsGoOn DEF Covered
<1> QED BY <1>1, <1>3, <1>4 DEF Balanced

(* What BalanceInvariant says, in numbers. *)
LEMMA BalanceIs ==
  ASSUME BalanceInvariant
  PROVE  /\ Lines \in Int /\ MoneyIn \in Nat /\ Drawn \in Nat /\ PaidBack \in Nat /\ clawed \in Nat
         /\ Lines - Drawn + PaidBack >= -clawed /\ Drawn <= MoneyIn + PaidBack
         /\ worth \in [Payouts -> Nat]
BY SumsAre, AmountsAre DEF BalanceInvariant, MoneyTyped, Covered

LEMMA NothingDrawn ==
  ASSUME BalanceInvariant, UNCHANGED orderVars, worth' = worth,
         Drawn' <= Drawn, PaidBack' = PaidBack, Drawn' \in Nat, clawed' = clawed,
         \A c \in Callers : call'[c] = call[c] \/ call'[c] = Idle
  PROVE  Balanced'
<1> DEFINE l == Lines
           m == MoneyIn
           d == Drawn
           e == Drawn'
           b == PaidBack
           k == clawed
<1>1. /\ l \in Int /\ m \in Nat /\ d \in Nat /\ e \in Nat /\ b \in Nat /\ k \in Nat /\ e <= d
      /\ l - d + b >= -k /\ d <= m + b
  BY BalanceIs
<1> HIDE DEF l, m, d, e, b, k
<1>2. l - e + b >= -k /\ e <= m + b
  BY <1>1
<1>3. Lines - Drawn' + PaidBack' >= -clawed' /\ Drawn' <= MoneyIn + PaidBack'
  BY <1>2 DEF l, m, e, b, k
<1> QED BY <1>3, BalanceIs, PayoutsMove

LEMMA SamePayoutsNothingDrawn ==
  ASSUME BalanceInvariant, UNCHANGED <<orderVars, payoutVars, clawed>>,
         \A c \in Callers : call'[c] = call[c] \/ call'[c] = Idle
  PROVE  Balanced'
<1>1. Drawn' = Drawn /\ PaidBack' = PaidBack /\ worth' = worth
  BY DEF payoutVars, Drawn, PaidBack, ToKitchen, ToNuray, Standing
<1>2. Drawn <= Drawn
  BY BalanceIs
<1> QED BY <1>1, <1>2, BalanceIs, NothingDrawn

LEMMA TakingKeepsBalance ==
  ASSUME BalanceInvariant, NEW c \in Callers, NEW does \in Doings \ {"idle"},
         NEW amount \in Nat, NEW about \in Payouts \union {NoPayoutRow}, Take(c, does, amount, about)
  PROVE  Balanced'
<1>1. /\ call' = [call EXCEPT ![c] = [does |-> does, amount |-> amount, about |-> about,
                                      day |-> day, lines |-> Lines, lost |-> 0]]
      /\ UNCHANGED <<orderVars, payout, worth, clawed>>
  BY DEF Take, payoutVars
<1>2. call = [d \in Callers |-> call[d]]
  BY DEF BalanceInvariant, PayoutInvariant, CallsTyped
<1>3. /\ call'[c].does = does /\ call'[c].amount = amount /\ call'[c].about = about
      /\ call'[c].lines = Lines /\ call'[c].lost = 0
      /\ \A d \in Callers \ {c} : call'[d] = call[d]
  <2>1. call'[c] = [does |-> does, amount |-> amount, about |-> about,
                    day |-> day, lines |-> Lines, lost |-> 0]
    BY <1>1, <1>2
  <2> QED BY <1>1, <1>2, <2>1
<1>4. Lines' = Lines /\ MoneyIn' = MoneyIn /\ Lines \in Int /\ MoneyIn \in Nat
  BY <1>1, SameOrdersSameLines, AmountsAre DEF BalanceInvariant
<1>5. MoneyTyped' /\ OrdersSound'
  BY <1>1, <1>3, <1>4 DEF BalanceInvariant, MoneyTyped, OrdersSound, orderVars
<1>6. ReadBehind'
  <2>1. Lines <= MoneyIn
    BY LinesAreBacked DEF BalanceInvariant
  <2> SUFFICES ASSUME NEW d \in Callers, call'[d].does # "idle"
               PROVE  call'[d].lines - call'[d].lost <= Lines' /\ call'[d].lines <= MoneyIn'
    BY DEF ReadBehind
  <2>2. CASE d = c
    <3>1. Lines - 0 = Lines /\ Lines <= Lines
      BY <1>4
    <3> QED BY <1>3, <1>4, <2>1, <2>2, <3>1
  <2>3. CASE d # c
    BY <1>3, <1>4, <2>3 DEF BalanceInvariant, ReadBehind
  <2> QED BY <2>2, <2>3
<1>7. Covered' /\ PaidFromMoneyIn'
  <2>1. Drawn' = Drawn /\ PaidBack' = PaidBack
    BY <1>1 DEF Drawn, PaidBack, ToKitchen, ToNuray, Standing
  <2> QED BY <1>1, <1>4, <2>1, SumsAre, SumsGoOn DEF BalanceInvariant, Covered
<1> QED BY <1>5, <1>6, <1>7 DEF Balanced

(* A payout made, to the kitchen or to Nuray, adds its amount on its side. *)
LEMMA CreatingAdds ==
  ASSUME BalanceInvariant, NEW p \in Payouts, NEW row \in PayoutRows,
         row.status \in {"pending", "completed"}, NEW amount \in Nat, Create(p, row, amount)
  PROVE  /\ worth' \in [Payouts -> Nat]
         /\ Drawn' = Drawn + IF row.to = "kitchen" THEN amount ELSE 0
         /\ PaidBack' = PaidBack + IF row.to = "kitchen" THEN 0 ELSE amount
<1>1. /\ payout[p] = NoPayout /\ payout'[p] = row /\ MadeInOrder'
      /\ \A q \in Payouts \ {p} : payout'[q] = payout[q]
  BY CreatingIsNew DEF BalanceInvariant, PayoutInvariant
<1>2. worth \in [Payouts -> Nat] /\ worth' = [worth EXCEPT ![p] = amount]
  BY DEF BalanceInvariant, MoneyTyped, Create
<1>3. /\ worth' \in [Payouts -> Nat] /\ worth'[p] = amount
      /\ \A q \in Payouts : q # p => worth'[q] = worth[q]
  BY <1>2
<1>4. p \notin ToKitchen /\ p \notin ToNuray
  BY <1>1 DEF ToKitchen, ToNuray, Standing, NoPayout
<1>5. /\ ToKitchen' = IF row.to = "kitchen" THEN ToKitchen \union {p} ELSE ToKitchen
      /\ ToNuray' = IF row.to = "kitchen" THEN ToNuray ELSE ToNuray \union {p}
  BY <1>1, <1>4 DEF ToKitchen, ToNuray, Standing
<1>6. ASSUME NEW S, S \subseteq Payouts, p \notin S
      PROVE  /\ SumFunctionOnSet(worth', S) = SumFunctionOnSet(worth, S)
             /\ SumFunctionOnSet(worth', S \union {p}) = amount + SumFunctionOnSet(worth, S)
             /\ SumFunctionOnSet(worth, S) \in Nat
  <2>1. IsFiniteSet(S) /\ \A q \in S : worth[q] \in Nat
    BY <1>2, <1>6, PayoutsFinite, FS_Subset
  <2>2. \A q \in S : worth'[q] = worth[q] /\ worth'[q] \in Int
    BY <1>2, <1>3, <1>6
  <2>3. SumFunctionOnSet(worth', S) = SumFunctionOnSet(worth, S)
    BY <2>1, <2>2, SumSame
  <2>4. worth'[p] \in Int
    BY <1>3
  <2>5. SumFunctionOnSet(worth', S \union {p}) = worth'[p] + SumFunctionOnSet(worth', S)
    BY <1>6, <2>1, <2>2, <2>4, SumAdd
  <2> QED BY <1>3, <2>1, <2>3, <2>5, SumNat
<1>7. /\ SumFunctionOnSet(worth', ToKitchen) = Drawn
      /\ SumFunctionOnSet(worth', ToKitchen \union {p}) = amount + Drawn /\ Drawn \in Nat
  BY <1>4, <1>6, PayoutsFinite DEF Drawn
<1>8. /\ SumFunctionOnSet(worth', ToNuray) = PaidBack
      /\ SumFunctionOnSet(worth', ToNuray \union {p}) = amount + PaidBack /\ PaidBack \in Nat
  BY <1>4, <1>6, PayoutsFinite DEF PaidBack
<1>9. Drawn' = SumFunctionOnSet(worth', ToKitchen') /\ PaidBack' = SumFunctionOnSet(worth', ToNuray')
  BY DEF Drawn, PaidBack
<1> QED BY <1>3, <1>5, <1>7, <1>8, <1>9

(* What an authority to draw is worth: no more than the money that came in, and than
   the balance but for what orders took since it was read. *)
LEMMA MakingKeepsBalance ==
  ASSUME BalanceInvariant, NEW c \in Callers, call[c].does # "idle",
         NEW p \in Payouts, NEW start \in Nat, NEW end \in Nat, NEW run \in Nat,
         NEW amount \in Nat, amount <= Covers(c), CreatePayout(p, start, end, run, amount),
         Spent(c), Release(c), UNCHANGED orderVars
  PROVE  Balanced'
<1>1. /\ worth' \in [Payouts -> Nat] /\ Drawn' = Drawn + amount /\ PaidBack' = PaidBack
  <2> DEFINE row == [status |-> "pending", to |-> "kitchen", start |-> start, end |-> end, run |-> run]
  <2>1. row \in PayoutRows /\ row.status = "pending" /\ row.to = "kitchen" /\ Create(p, row, amount)
    BY DEF CreatePayout, PayoutRows
  <2> HIDE DEF row
  <2>2. /\ worth' \in [Payouts -> Nat]
        /\ Drawn' = Drawn + IF row.to = "kitchen" THEN amount ELSE 0
        /\ PaidBack' = PaidBack + IF row.to = "kitchen" THEN 0 ELSE amount
    BY <2>1, CreatingAdds
  <2> QED BY <2>1, <2>2, BalanceIs
<1> DEFINE l == Lines
           m == MoneyIn
           d == Drawn
           b == PaidBack
           n == call[c].lines
           k == call[c].lost
<1>2. /\ l \in Int /\ m \in Nat /\ d \in Nat /\ b \in Nat /\ n \in Int /\ k \in Nat
      /\ n - k <= l /\ n <= m /\ amount <= n - d + b
  <2>1. n \in Int /\ k \in Nat /\ n - k <= Lines /\ n <= MoneyIn
    BY DEF BalanceInvariant, MoneyTyped, ReadBehind
  <2> HIDE DEF n, k
  <2>2. amount <= n - Drawn + PaidBack
    BY SumsAre DEF n
  <2> QED BY <2>1, <2>2, BalanceIs
<1> HIDE DEF l, m, d, b, n, k
<1>3. /\ d + amount \in Nat /\ l - (d + amount) + b >= -k /\ d + amount <= m + b
  BY <1>2
<1>4. clawed' = k
  BY DEF Spent, k
<1>5. /\ Drawn' \in Nat /\ PaidBack' \in Nat /\ clawed' \in Nat
      /\ Lines - Drawn' + PaidBack' >= -clawed' /\ Drawn' <= MoneyIn + PaidBack'
  BY <1>1, <1>2, <1>3, <1>4 DEF l, m, d, b
<1>6. \A e \in Callers : call'[e] = call[e] \/ call'[e] = Idle
  BY DEF Release, BalanceInvariant, PayoutInvariant, CallsTyped
<1> QED BY <1>1, <1>5, <1>6, PayoutsMove

LEMMA RequestKeepsBalance ==
  ASSUME BalanceInvariant, NEW c \in Callers, CommitRequest(c)
  PROVE  Balanced'
<1>1. /\ call[c].does = "request" /\ Release(c) /\ UNCHANGED orderVars /\ call[c].amount \in Nat
      /\ \A e \in Callers : call'[e] = call[e] \/ call'[e] = Idle
  BY DEF CommitRequest, Release, BalanceInvariant, MoneyTyped, PayoutInvariant, CallsTyped
<1>2. CASE call[c].amount <= Covers(c)
  <2>1. PICK p \in Payouts, start \in 1..(LastDay + 1) :
          CreatePayout(p, start, day, NoDay, call[c].amount)
    BY <1>2 DEF CommitRequest
  <2>2. start \in Nat /\ day \in Nat /\ NoDay \in Nat /\ Spent(c)
    BY <1>2, DayAssumption DEF BalanceInvariant, PayoutInvariant, CallsTyped, NoDay, CommitRequest
  <2> QED BY <1>1, <1>2, <2>1, <2>2, MakingKeepsBalance
<1>3. CASE ~(call[c].amount <= Covers(c))
  BY <1>1, <1>3, SamePayoutsNothingDrawn DEF CommitRequest
<1> QED BY <1>2, <1>3

LEMMA WeeklyKeepsBalance ==
  ASSUME BalanceInvariant, NEW c \in Callers, CommitWeekly(c)
  PROVE  Balanced'
<1> DEFINE amount == Covers(c)
<1>1. /\ call[c].does = "weekly" /\ Release(c) /\ UNCHANGED orderVars
      /\ \A e \in Callers : call'[e] = call[e] \/ call'[e] = Idle
  BY DEF CommitWeekly, Release, BalanceInvariant, PayoutInvariant, CallsTyped
<1>2. CASE amount > 0 /\ amount >= Minimum
  <2>1. PICK p \in Payouts, start \in 1..(LastDay + 1) :
          CreatePayout(p, start, call[c].day - 1, call[c].day, amount)
    BY <1>2 DEF CommitWeekly
  <2>2. start \in Nat /\ call[c].day \in Nat /\ call[c].day - 1 \in Nat /\ Spent(c)
    <3>1. call[c].day \in 1..LastDay
      BY <1>1 DEF BalanceInvariant, PayoutInvariant, CallsTyped
    <3> QED BY <1>2, <3>1, DayAssumption DEF CommitWeekly
  <2>3. amount \in Nat /\ amount <= Covers(c)
    <3>1. call[c].lines \in Int
      BY DEF BalanceInvariant, MoneyTyped
    <3>2. amount \in Int
      BY <3>1, BalanceIs, SumsAre
    <3> HIDE DEF amount
    <3>3. amount \in Nat /\ amount <= amount
      BY <1>2, <3>2
    <3> QED BY <3>3 DEF amount
  <2> HIDE DEF amount
  <2> QED BY <1>1, <2>1, <2>2, <2>3, MakingKeepsBalance
<1>3. CASE ~(amount > 0 /\ amount >= Minimum)
  BY <1>1, <1>3, SamePayoutsNothingDrawn DEF CommitWeekly
<1> QED BY <1>2, <1>3

LEMMA PaymentKeepsBalance ==
  ASSUME BalanceInvariant, NEW c \in Callers, CommitPayment(c)
  PROVE  Balanced'
<1>1. /\ UNCHANGED orderVars /\ clawed' = clawed /\ call[c].amount \in Nat
      /\ \A e \in Callers : call'[e] = call[e] \/ call'[e] = Idle
  BY DEF CommitPayment, Release, BalanceInvariant, MoneyTyped, PayoutInvariant, CallsTyped
<1>2. CASE call[c].amount <= -Covers(c)
  <2> DEFINE row == [status |-> "completed", to |-> "nuray", start |-> day, end |-> day,
                     run |-> NoDay]
             a == call[c].amount
  <2>1. PICK p \in Payouts : Create(p, row, a)
    BY <1>2 DEF CommitPayment
  <2>2. row \in PayoutRows /\ row.status = "completed" /\ row.to = "nuray"
    BY DayAssumption DEF PayoutRows, BalanceInvariant, PayoutInvariant, CallsTyped, NoDay
  <2> HIDE DEF row
  <2>3. a \in Nat
    BY <1>1
  <2> HIDE DEF a
  <2>4. /\ worth' \in [Payouts -> Nat]
        /\ Drawn' = Drawn + IF row.to = "kitchen" THEN a ELSE 0
        /\ PaidBack' = PaidBack + IF row.to = "kitchen" THEN 0 ELSE a
    BY <2>1, <2>2, <2>3, CreatingAdds
  <2>5. Drawn' = Drawn /\ PaidBack' = PaidBack + a
    BY <2>2, <2>4, BalanceIs
  <2> DEFINE l == Lines
             m == MoneyIn
             d == Drawn
             b == PaidBack
             k == clawed
  <2>6. /\ l \in Int /\ m \in Nat /\ d \in Nat /\ b \in Nat /\ k \in Nat
        /\ l - d + b >= -k /\ d <= m + b
    BY BalanceIs
  <2> HIDE DEF l, m, d, b, k
  <2>7. l - d + (b + a) >= -k /\ d <= m + (b + a) /\ b + a \in Nat
    BY <2>3, <2>6
  <2>8. /\ Drawn' \in Nat /\ PaidBack' \in Nat /\ clawed' \in Nat
        /\ Lines - Drawn' + PaidBack' >= -clawed' /\ Drawn' <= MoneyIn + PaidBack'
    BY <1>1, <2>5, <2>6, <2>7 DEF l, m, d, b, k
  <2> QED BY <1>1, <2>4, <2>8, PayoutsMove
<1>3. CASE ~(call[c].amount <= -Covers(c))
  BY <1>1, <1>3, SamePayoutsNothingDrawn DEF CommitPayment
<1> QED BY <1>2, <1>3

(* A payout is sent only while what was read covers all that stand. *)
LEMMA CompleteKeepsBalance ==
  ASSUME BalanceInvariant, NEW c \in Callers, CommitComplete(c)
  PROVE  Balanced'
<1> DEFINE p == call[c].about
<1>1. /\ UNCHANGED orderVars /\ call[c].does # "idle"
      /\ \A e \in Callers : call'[e] = call[e] \/ call'[e] = Idle
  BY DEF CommitComplete, Release, BalanceInvariant, PayoutInvariant, CallsTyped
<1>2. CASE p \in Waiters /\ StillCovered(c)
  <2>1. /\ payout' = [payout EXCEPT ![p].status = "completed"] /\ worth' = worth
        /\ clawed' = call[c].lost /\ Covers(c) >= 0
    BY <1>2 DEF CommitComplete, Spent, StillCovered
  <2>2. Drawn' = Drawn /\ PaidBack' = PaidBack
    <3>1. /\ payout[p].status = "pending" /\ payout'[p].status = "completed"
          /\ payout'[p].to = payout[p].to
          /\ \A q \in Payouts \ {p} : payout'[q] = payout[q]
      BY <1>2, <2>1 DEF Waiters, BalanceInvariant, PayoutInvariant, MadeInOrder, PayoutRows
    <3>2. Standing' = Standing /\ \A q \in Payouts : payout'[q].to = payout[q].to
      BY <3>1 DEF Standing
    <3>3. ToKitchen' = ToKitchen /\ ToNuray' = ToNuray
      BY <3>2 DEF ToKitchen, ToNuray, Standing
    <3> QED BY <2>1, <3>3 DEF Drawn, PaidBack
  <2> DEFINE l == Lines
             d == Drawn
             b == PaidBack
             n == call[c].lines
             k == call[c].lost
  <2>3. l \in Int /\ d \in Nat /\ b \in Nat /\ n \in Int /\ k \in Nat /\ n - k <= l /\ n - d + b >= 0
    <3>1. n \in Int /\ k \in Nat /\ n - k <= Lines
      BY <1>1 DEF BalanceInvariant, MoneyTyped, ReadBehind
    <3>2. n - Drawn + PaidBack >= 0
      BY <2>1, SumsAre
    <3> HIDE DEF n, k
    <3> QED BY <3>1, <3>2, BalanceIs
  <2> HIDE DEF l, d, b, n, k
  <2>4. l - d + b >= -k
    BY <2>3
  <2>5. Lines - Drawn' + PaidBack' >= -clawed' /\ clawed' \in Nat
    BY <2>1, <2>2, <2>3, <2>4 DEF l, d, b, k
  <2> QED BY <1>1, <2>1, <2>2, <2>5, BalanceIs, PayoutsMove
<1>3. CASE ~(p \in Waiters /\ StillCovered(c))
  BY <1>1, <1>3, SamePayoutsNothingDrawn DEF CommitComplete
<1> QED BY <1>2, <1>3

(* A payout that fails is no longer drawn. *)
LEMMA FailingKeepsBalance ==
  ASSUME BalanceInvariant, NEW p \in Payouts, FailPayout(p)
  PROVE  Balanced'
<1>1. /\ p \in Waiters /\ payout' = [payout EXCEPT ![p].status = "failed"] /\ worth' = worth
      /\ UNCHANGED <<orderVars, clawed, call>>
  BY DEF FailPayout
<1>2. /\ payout[p].status = "pending" /\ payout[p].to = "kitchen" /\ payout'[p].status = "failed"
      /\ \A q \in Payouts \ {p} : payout'[q] = payout[q]
  BY <1>1 DEF Waiters, BalanceInvariant, WaitersToKitchen, PayoutInvariant, MadeInOrder, PayoutRows
<1>3. ToKitchen' = ToKitchen \ {p} /\ ToNuray' = ToNuray
  BY <1>2 DEF ToKitchen, ToNuray, Standing
<1>4. \A q \in ToKitchen : worth[q] \in Nat
  BY BalanceIs, PayoutsFinite
<1>5. SumFunctionOnSet(worth, ToKitchen \ {p}) \in Nat
        /\ SumFunctionOnSet(worth, ToKitchen \ {p}) <= SumFunctionOnSet(worth, ToKitchen)
  <2>1. ToKitchen \ {p} \subseteq ToKitchen /\ IsFiniteSet(ToKitchen)
    BY PayoutsFinite
  <2> QED BY <1>4, <2>1, SumPart
<1>6. Drawn' \in Nat /\ Drawn' <= Drawn /\ PaidBack' = PaidBack
  BY <1>1, <1>3, <1>5 DEF Drawn, PaidBack
<1> QED BY <1>1, <1>6, NothingDrawn

LEMMA TransactingKeepsBalance ==
  ASSUME BalanceInvariant, NEW c \in Callers, Transacting(c)
  PROVE  Balanced'
<1>1. CASE \E amount \in Asked : BeginRequest(c, amount)
  <2>1. PICK amount \in Asked : BeginRequest(c, amount)
    BY <1>1
  <2>2. Take(c, "request", amount, NoPayoutRow) /\ amount \in Nat /\ "request" \in Doings \ {"idle"}
    BY <2>1, SumAssumption DEF BeginRequest, Doings
  <2> QED BY <2>2, TakingKeepsBalance
<1>2. CASE BeginWeekly(c)
  <2>1. Take(c, "weekly", 0, NoPayoutRow) /\ 0 \in Nat /\ "weekly" \in Doings \ {"idle"}
    BY <1>2 DEF BeginWeekly, Doings
  <2> QED BY <2>1, TakingKeepsBalance
<1>3. CASE \E p \in Payouts : BeginComplete(c, p)
  <2>1. PICK p \in Payouts : BeginComplete(c, p)
    BY <1>3
  <2>2. Take(c, "complete", 0, p) /\ 0 \in Nat /\ "complete" \in Doings \ {"idle"}
    BY <2>1 DEF BeginComplete, Doings
  <2> QED BY <2>2, TakingKeepsBalance
<1>4. CASE \E amount \in Paid : BeginPayment(c, amount)
  <2>1. PICK amount \in Paid : BeginPayment(c, amount)
    BY <1>4
  <2>2. Take(c, "payment", amount, NoPayoutRow) /\ amount \in Nat /\ "payment" \in Doings \ {"idle"}
    BY <2>1, SumAssumption DEF BeginPayment, Doings
  <2> QED BY <2>2, TakingKeepsBalance
<1>5. CASE Rollback(c)
  <2>1. /\ UNCHANGED <<orderVars, payoutVars, clawed>>
        /\ \A e \in Callers : call'[e] = call[e] \/ call'[e] = Idle
    BY <1>5 DEF Rollback, Release, BalanceInvariant, PayoutInvariant, CallsTyped
  <2> QED BY <2>1, SamePayoutsNothingDrawn
<1> QED BY <1>1, <1>2, <1>3, <1>4, <1>5, RequestKeepsBalance, WeeklyKeepsBalance,
           CompleteKeepsBalance, PaymentKeepsBalance DEF Transacting

LEMMA WaitersStayToKitchen ==
  ASSUME PayoutInvariant, WaitersToKitchen, [Next]_vars
  PROVE  WaitersToKitchen'
<1>1. CASE payout' = payout
  BY <1>1 DEF WaitersToKitchen, Waiters
<1>2. ASSUME NEW p \in Payouts, NEW row, payout' = [payout EXCEPT ![p] = row],
             row.status = "pending" => row.to = "kitchen"
      PROVE  WaitersToKitchen'
  <2>1. payout'[p] = row /\ \A q \in Payouts \ {p} : payout'[q] = payout[q]
    BY <1>2 DEF PayoutInvariant, MadeInOrder
  <2> QED BY <1>2, <2>1 DEF WaitersToKitchen, Waiters
<1>3. ASSUME NEW p \in Payouts, NEW start, NEW end, NEW run, NEW amount,
             CreatePayout(p, start, end, run, amount)
      PROVE  WaitersToKitchen'
  <2> DEFINE row == [status |-> "pending", to |-> "kitchen", start |-> start, end |-> end, run |-> run]
  <2>1. row.to = "kitchen" /\ payout' = [payout EXCEPT ![p] = row]
    BY <1>3 DEF CreatePayout, Create
  <2> HIDE DEF row
  <2> QED BY <1>2, <2>1
<1>4. ASSUME NEW p \in Waiters, NEW status \in {"completed", "failed"},
             payout' = [payout EXCEPT ![p].status = status]
      PROVE  WaitersToKitchen'
  <2>1. payout[p] \in PayoutRows /\ p \in Payouts
    BY DEF PayoutInvariant, MadeInOrder, Waiters
  <2> DEFINE row == [payout[p] EXCEPT !.status = status]
  <2>2. payout' = [payout EXCEPT ![p] = row]
    BY <1>4
  <2>3. row.status # "pending"
    BY <2>1 DEF PayoutRows
  <2> HIDE DEF row
  <2> QED BY <1>2, <2>1, <2>2, <2>3
<1>5. CASE \E c \in Callers : CommitRequest(c)
  BY <1>1, <1>3, <1>5 DEF CommitRequest, payoutVars
<1>6. CASE \E c \in Callers : CommitWeekly(c)
  BY <1>1, <1>3, <1>6 DEF CommitWeekly, payoutVars
<1>7. CASE \E c \in Callers : CommitComplete(c)
  BY <1>1, <1>4, <1>7 DEF CommitComplete, payoutVars
<1>8. CASE \E c \in Callers : CommitPayment(c)
  <2>1. CASE payout' # payout
    <3> DEFINE row == [status |-> "completed", to |-> "nuray", start |-> day, end |-> day,
                       run |-> NoDay]
    <3>1. \E p \in Payouts : payout' = [payout EXCEPT ![p] = row]
      BY <1>8, <2>1 DEF CommitPayment, Create, payoutVars
    <3>2. row.status # "pending"
      OBVIOUS
    <3> HIDE DEF row
    <3> QED BY <1>2, <3>1, <3>2
  <2> QED BY <1>1, <2>1
<1>9. CASE \E p \in Payouts : FailPayout(p)
  BY <1>4, <1>9 DEF FailPayout
<1>10. CASE \/ \E o \in Orders :
                 \/ Deliver(o) \/ Refund(o) \/ SendRefund(o) \/ DismissRefund(o)
                 \/ \E confirmed \in BOOLEAN : CancelTransfer(o, confirmed)
            \/ \E amount \in Deposits : HandIn(amount)
  BY <1>1, <1>10 DEF Deliver, Refund, SendRefund, DismissRefund, CancelTransfer, OrderMoves, HandIn,
    payoutVars
<1>11. CASE \/ NextDay \/ \E f \in Refreshers : Refreshing(f)
            \/ \E c \in Callers : Rollback(c)
            \/ UNCHANGED vars
  BY <1>1, <1>11 DEF NextDay, Refreshing, WorkOutBalance, ReadSince, WriteSince, Refreshes, Rollback,
    vars, payoutVars
<1>12. CASE \E c \in Callers :
              \/ \E amount \in Asked : BeginRequest(c, amount)
              \/ BeginWeekly(c)
              \/ \E p \in Payouts : BeginComplete(c, p)
              \/ \E amount \in Paid : BeginPayment(c, amount)
  BY <1>1, <1>12 DEF BeginRequest, BeginWeekly, BeginComplete, BeginPayment, Take, payoutVars
<1> QED BY <1>5, <1>6, <1>7, <1>8, <1>9, <1>10, <1>11, <1>12 DEF Next, Transacting

LEMMA BalanceStep == BalanceInvariant /\ [Next]_vars => BalanceInvariant'
<1> SUFFICES ASSUME BalanceInvariant, [Next]_vars PROVE BalanceInvariant'
  OBVIOUS
<1>1. PayoutInvariant' /\ WaitersToKitchen'
  BY PayoutStep, WaitersStayToKitchen DEF BalanceInvariant
<1>2. Balanced'
  <2>1. CASE \/ \E o \in Orders :
                  \/ Deliver(o) \/ Refund(o) \/ SendRefund(o) \/ DismissRefund(o)
                  \/ \E confirmed \in BOOLEAN : CancelTransfer(o, confirmed)
             \/ \E amount \in Deposits : HandIn(amount)
    BY <2>1, OrdersKeepBalance DEF Balanced
  <2>2. CASE \E c \in Callers : Transacting(c)
    BY <2>2, TransactingKeepsBalance
  <2>3. CASE \E p \in Payouts : FailPayout(p)
    BY <2>3, FailingKeepsBalance
  <2>4. CASE UNCHANGED <<orderVars, payoutVars, clawed, call>>
    BY <2>4, SamePayoutsNothingDrawn
  <2>5. CASE NextDay \/ (\E f \in Refreshers : Refreshing(f)) \/ UNCHANGED vars
    BY <2>4, <2>5 DEF NextDay, Refreshing, WorkOutBalance, ReadSince, WriteSince, Refreshes, vars
  <2> QED BY <2>1, <2>2, <2>3, <2>5 DEF Next
<1> QED BY <1>1, <1>2 DEF Balanced, BalanceInvariant

LEMMA BalanceBegins == Init => BalanceInvariant
<1> SUFFICES ASSUME Init PROVE BalanceInvariant
  OBVIOUS
<1>1. PayoutInvariant
  BY PayoutsBegin
<1>2. Waiters = {} /\ Standing = {}
  BY DEF Init, Waiters, Standing, NoPayout
<1>3. WaitersToKitchen /\ ToKitchen = {} /\ ToNuray = {}
  BY <1>2 DEF WaitersToKitchen, ToKitchen, ToNuray
<1>4. MoneyTyped /\ OrdersSound
  BY DEF Init, MoneyTyped, OrdersSound, Waiting, OrderRows, Idle
<1>5. ReadBehind
  BY DEF Init, ReadBehind, Idle
<1>6. Lines = 0
  <2>1. \A o \in Orders : Effects[o] = 0
    BY DEF Init, Effects, Effect, Waiting
  <2> QED BY <2>1, OrderAssumption, SumZero, SumsAre
<1>7. Drawn = 0 /\ PaidBack = 0
  BY <1>3, SumOfNone DEF Drawn, PaidBack
<1>8. MoneyIn \in Nat /\ clawed = 0
  BY <1>4, AmountsAre DEF Init
<1>9. Covered /\ PaidFromMoneyIn
  BY <1>6, <1>7, <1>8, SumsAre DEF Covered
<1> QED BY <1>1, <1>3, <1>4, <1>5, <1>9 DEF BalanceInvariant

-----------------------------------------------------------------------------
(* requestPayout, runWeeklyPayouts, completePayout: whatever runs meets, no withdrawal
   draws more than the balance, but for what refunds took after it had looked. *)
THEOREM NothingIsOverdrawn == Spec => []Covered
<1>1. BalanceInvariant => Covered
  BY DEF BalanceInvariant
<1> QED BY <1>1, BalanceBegins, BalanceStep, PTL DEF Spec

(* sellerBalanceLines with the payouts: a kitchen is paid from money that came in, and
   a rider's cash counts only once it is handed in. *)
THEOREM PayoutsComeFromMoneyIn == Spec => []PaidFromMoneyIn
<1>1. BalanceInvariant => PaidFromMoneyIn
  BY DEF BalanceInvariant
<1> QED BY <1>1, BalanceBegins, BalanceStep, PTL DEF Spec
===================================================================================
