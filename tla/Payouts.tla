--------------------------------- MODULE Payouts ---------------------------------
(* What Nuray and one kitchen owe each other: the balance, computed from the orders
   and the payouts every time; withdrawals on request, the weekly run, an admin's
   completing and failing of payouts, payments of the kitchen to Nuray; and since
   when the kitchen owes. Orders are delivered, refunded and their cash handed in
   meanwhile, under other locks.

   Every transaction that spends the balance holds the kitchen's row lock. It reads
   the orders first and the payouts after them, each as committed by then. *)
EXTENDS Integers, FiniteSets, Functions

CONSTANTS Orders, Callers, Nobody,
          Refreshers, Scheduled, \* who refreshes owes_since; of these, the scheduled job
          Kind,       \* who takes an order's money, and by what means
          Total,      \* what the customer pays
          Share,      \* the kitchen's part of it: net of commission
          Asked,      \* what a kitchen may ask to withdraw
          Paid,       \* what a kitchen may pay to Nuray
          Deposits,   \* what a rider may hand in at once
          Minimum,    \* minPayoutAmount
          MaxPayouts, \* bound: payouts made
          LastDay,    \* bound: days the instance runs for
          Mondays,    \* those on which the weekly run is due
          Happens,    \* which of the optional events happen
          MaxDismissals \* bound: refunds of one order dismissed

Kinds == {"wallet", "online", "rider", "kitchen", "elsewhere"}

Events == {"request", "payment", "refund", "cancel", "rollback"}

ASSUME OrderAssumption  == /\ IsFiniteSet(Orders) /\ Kind \in [Orders -> Kinds]
                           /\ Total \in [Orders -> Nat] /\ Share \in [Orders -> Nat]
ASSUME SumAssumption    == /\ Asked \subseteq Nat /\ Paid \subseteq Nat /\ Deposits \subseteq Nat
                           /\ Minimum \in Nat
ASSUME DayAssumption    == LastDay \in Nat \ {0} /\ Mondays \subseteq 1..LastDay
ASSUME NobodyAssumption == Nobody \notin Callers /\ MaxPayouts \in Nat
ASSUME EventAssumption  == Happens \subseteq Events /\ MaxDismissals \in Nat
ASSUME RefreshAssumption == Scheduled \subseteq Refreshers

VARIABLES
  day,       \* the date
  order,     \* what the balance reads of each order
  deposited, \* cash the rider has handed in
  payout,    \* seller_payouts: status, period, and whom the money goes to
  worth,     \* their amounts
  lock,      \* who holds the kitchen's row
  call,      \* what each transaction under way does and has read
  since,     \* owes_since
  refresh,   \* what each refresh of owes_since has read
  clawed     \* history: what orders took from the balance since a payout was last made or sent

orderVars == <<order, deposited>>
payoutVars == <<payout, worth>>
owingVars == <<since, refresh>>
vars == <<day, orderVars, payoutVars, lock, call, owingVars, clawed>>

NoDay == 0

(* In the order they are made. *)
Payouts == 1..MaxPayouts

NoPayoutRow == 0

Waiting == [status |-> "waiting", delivered |-> FALSE, confirmed |-> FALSE,
            dismissed |-> 0, turn |-> 0]

NoPayout == [status |-> "none", to |-> "kitchen", start |-> 1, end |-> 0, run |-> NoDay]

Idle == [does |-> "idle", amount |-> 0, about |-> NoPayoutRow, day |-> NoDay, lines |-> 0, lost |-> 0]

Rest == [read |-> {}, owes |-> FALSE, since |-> NoDay]

Init ==
  /\ day = 1
  /\ order = [o \in Orders |-> Waiting]
  /\ deposited = 0
  /\ payout = [p \in Payouts |-> NoPayout]
  /\ worth = [p \in Payouts |-> 0]
  /\ lock = Nobody
  /\ call = [c \in Callers |-> Idle]
  /\ since = NoDay
  /\ refresh = [f \in Refreshers |-> Rest]
  /\ clawed = 0

-----------------------------------------------------------------------------
(* The balance. *)

(* The rider's cash orders, this kitchen's or another's, in the order of their
   ledger entries. *)
CashOrders == {o \in Orders : order[o].turn > 0}

CashUpTo(o) == SumFunctionOnSet(Total, {p \in CashOrders : order[p].turn <= order[o].turn})

CashHeld == SumFunctionOnSet(Total, CashOrders) - deposited

(* ordersWithCashHandedIn: deposits count against the oldest orders first. *)
HandedIn(o) == CashUpTo(o) <= deposited

Earned(o) == order[o].delivered /\ order[o].status = "paid"

Entitlement(o) == IF Earned(o) THEN Share[o] ELSE 0

(* What the kitchen holds of an order whose money went to it: a refund that was
   dismissed stays with it, one that Nuray sent for a payment it never confirmed
   does not. *)
Collected(o) ==
  IF order[o].confirmed THEN Total[o] - order[o].dismissed * Total[o]
  ELSE IF order[o].status = "refunded" THEN Total[o] ELSE 0

Effect_CashAtOnce(o) ==   \* slip: cash counts before the rider hands it in
  IF order[o].status = "waiting" \/ Kind[o] = "elsewhere" THEN 0
  ELSE IF Kind[o] = "kitchen" THEN Entitlement(o) - Collected(o)
  ELSE Entitlement(o)

(* sellerBalanceLines: what an order adds to what Nuray owes the kitchen. *)
Effect(o) ==
  IF order[o].status = "waiting" \/ Kind[o] = "elsewhere" THEN 0
  ELSE IF Kind[o] = "kitchen" THEN Entitlement(o) - Collected(o)
  ELSE IF Kind[o] = "rider" /\ ~HandedIn(o) THEN 0
  ELSE Entitlement(o)

Lines == SumFunction([o \in Orders |-> Effect(o)])

Made == {p \in Payouts : payout[p].status # "none"}

Standing == {p \in Payouts : payout[p].status \in {"pending", "completed"}}

ToKitchen == {p \in Standing : payout[p].to = "kitchen"}

ToNuray == Standing \ ToKitchen

AvailableFrom_Sent(lines) ==   \* slip: payouts that still wait are not counted
  lines - SumFunctionOnSet(worth, {p \in ToKitchen : payout[p].status = "completed"})
        + SumFunctionOnSet(worth, ToNuray)

(* computeSellerBalance, from orders read before and the payouts as they are now. *)
AvailableFrom(lines) ==
  lines - SumFunctionOnSet(worth, ToKitchen) + SumFunctionOnSet(worth, ToNuray)

Available == AvailableFrom(Lines)

-----------------------------------------------------------------------------
(* What happens to orders. The balance drops when a delivered order is refunded,
   and when the kitchen itself takes money that is not all its own. *)

Drop(before, after) == IF after < before THEN before - after ELSE 0

(* Every drop is noted, for the transactions that have read the orders too. *)
LinesMove ==
  LET lost == Drop(Lines, Lines')
  IN  /\ clawed' = clawed + lost
      /\ call' = [c \in Callers |->
                    IF call[c].does = "idle" THEN call[c] ELSE [call[c] EXCEPT !.lost = @ + lost]]

OrderMoves(o, row) ==
  /\ order' = [order EXCEPT ![o] = row]
  /\ UNCHANGED <<day, deposited, payoutVars, lock, owingVars>>
  /\ LinesMove

Deliver(o) ==
  /\ order[o] = Waiting
  /\ OrderMoves(o, [Waiting EXCEPT !.status = "paid", !.delivered = TRUE, !.confirmed = TRUE,
       !.turn = IF Kind[o] \in {"rider", "elsewhere"} THEN Cardinality(CashOrders) + 1 ELSE 0])

(* A transfer to the kitchen, confirmed by it or only reported, whose order is
   cancelled: its refund waits for an admin. *)
CancelTransfer(o, confirmed) ==
  /\ "cancel" \in Happens
  /\ order[o] = Waiting /\ Kind[o] = "kitchen"
  /\ OrderMoves(o, [Waiting EXCEPT !.status = "refunding", !.confirmed = confirmed])

(* issueRefund, of all of it: to the wallet at once, else it waits to be sent. *)
Refund(o) ==
  /\ "refund" \in Happens
  /\ order[o].status = "paid"
  /\ OrderMoves(o, [order[o] EXCEPT !.status =
       IF Kind[o] = "wallet" THEN "refunded" ELSE "refunding"])

SendRefund(o) ==
  /\ order[o].status = "refunding"
  /\ OrderMoves(o, [order[o] EXCEPT !.status = "refunded"])

(* dismissRefund: money that was confirmed is paid again. *)
DismissRefund(o) ==
  /\ order[o].status = "refunding" /\ order[o].dismissed < MaxDismissals
  /\ OrderMoves(o, [order[o] EXCEPT !.dismissed = @ + 1,
       !.status = IF order[o].confirmed THEN "paid" ELSE "failed"])

(* settleRider, the part that hands cash in. *)
HandIn(amount) ==
  /\ amount > 0 /\ amount <= CashHeld
  /\ deposited' = deposited + amount
  /\ UNCHANGED <<day, order, payoutVars, lock, owingVars>>
  /\ LinesMove

NextDay ==
  /\ day < LastDay
  /\ day' = day + 1
  /\ UNCHANGED <<orderVars, payoutVars, lock, call, owingVars, clawed>>

-----------------------------------------------------------------------------
(* The transactions. Each takes the lock, reads the orders, and then decides from
   the payouts. *)

Take(c, does, amount, about) ==
  /\ lock = Nobody
  /\ lock' = c
  /\ call' = [call EXCEPT ![c] = [does |-> does, amount |-> amount, about |-> about,
                                 day |-> day, lines |-> Lines, lost |-> 0]]
  /\ UNCHANGED <<day, orderVars, payoutVars, owingVars, clawed>>

(* requestPayout; what is asked is at least the minimum. *)
BeginRequest(c, amount) ==
  /\ "request" \in Happens
  /\ amount >= Minimum
  /\ Take(c, "request", amount, NoPayoutRow)

Automatic == {p \in Payouts : payout[p].run # NoDay}

Waiters == {p \in Payouts : payout[p].status = "pending"}

MadeFor_Standing(d) ==   \* slip: a payout that failed may be made again the same Monday
  {p \in Automatic \intersect Standing : payout[p].run = d}

(* The payouts the run of that Monday made, failed ones among them. *)
MadeFor(d) == {p \in Automatic : payout[p].run = d}

(* runWeeklyPayouts, for this kitchen, under the lock a request takes. *)
BeginWeekly(c) ==
  /\ day \in Mondays
  /\ Waiters = {} /\ MadeFor(day) = {}
  /\ Take(c, "weekly", 0, NoPayoutRow)

(* completePayout. *)
BeginComplete(c, p) ==
  /\ p \in Waiters
  /\ Take(c, "complete", 0, p)

(* recordPaymentToNuray. *)
BeginPayment(c, amount) ==
  /\ "payment" \in Happens
  /\ Take(c, "payment", amount, NoPayoutRow)

Release(c) == lock' = Nobody /\ call' = [call EXCEPT ![c] = Idle]

(* What the payouts leave of the orders read. *)
Covers(c) == AvailableFrom(call[c].lines)

(* nextPeriodStart: failed payouts and payments to Nuray aside. *)
LastEnds(S) == {p \in S : \A q \in S : payout[q].end <= payout[p].end}

IsNextStart_Sent(start) ==   \* slip: a payout that still waits has no period yet
  LET sent == {p \in ToKitchen : payout[p].status = "completed"}
  IN  IF sent = {} THEN start = 1
      ELSE \E p \in LastEnds(sent) : start = payout[p].end + 1

IsNextStart(start) ==
  IF ToKitchen = {} THEN start = 1
  ELSE \E p \in LastEnds(ToKitchen) : start = payout[p].end + 1

Create(p, row, amount) ==
  /\ p = Cardinality(Made) + 1
  /\ payout' = [payout EXCEPT ![p] = row]
  /\ worth' = [worth EXCEPT ![p] = amount]

(* What is drawn from the balance is covered by it, but for what orders took since
   it was read. *)
Spent(c) == clawed' = call[c].lost

CreatePayout(p, start, end, run, amount) ==
  Create(p, [status |-> "pending", to |-> "kitchen", start |-> start, end |-> end, run |-> run],
         amount)

CommitRequest(c) ==
  /\ call[c].does = "request"
  /\ IF call[c].amount <= Covers(c)
     THEN /\ \E p \in Payouts, start \in 1..(LastDay + 1) :
               IsNextStart(start) /\ CreatePayout(p, start, day, NoDay, call[c].amount)
          /\ Spent(c)
     ELSE UNCHANGED <<payoutVars, clawed>>
  /\ Release(c)
  /\ UNCHANGED <<day, orderVars, owingVars>>

(* All of the balance, for the week to the Sunday before. *)
CommitWeekly(c) ==
  /\ call[c].does = "weekly"
  /\ LET amount == Covers(c)
     IN  IF amount > 0 /\ amount >= Minimum
         THEN /\ \E p \in Payouts, start \in 1..(LastDay + 1) :
                   /\ IsNextStart(start)
                   /\ CreatePayout(p, start, call[c].day - 1, call[c].day, amount)
              /\ Spent(c)
         ELSE UNCHANGED <<payoutVars, clawed>>
  /\ Release(c)
  /\ UNCHANGED <<day, orderVars, owingVars>>

StillCovered(c) == Covers(c) >= 0

CommitComplete(c) ==
  /\ call[c].does = "complete"
  /\ LET p == call[c].about
     IN  IF p \in Waiters /\ StillCovered(c)
         THEN /\ payout' = [payout EXCEPT ![p].status = "completed"]
              /\ UNCHANGED worth
              /\ Spent(c)
         ELSE UNCHANGED <<payoutVars, clawed>>
  /\ Release(c)
  /\ UNCHANGED <<day, orderVars, owingVars>>

(* refreshOwing: set when the kitchen starts to owe, cleared when it owes no more. *)
SinceFrom(owes, was) == IF ~owes THEN NoDay ELSE IF was = NoDay THEN day ELSE was

(* A completed payout of the other sign; owes_since is brought up to date with it. *)
CommitPayment(c) ==
  /\ call[c].does = "payment"
  /\ IF call[c].amount <= -Covers(c)
     THEN /\ \E p \in Payouts :
               Create(p, [status |-> "completed", to |-> "nuray", start |-> day, end |-> day,
                          run |-> NoDay], call[c].amount)
          /\ since' = SinceFrom(Available + call[c].amount < 0, since)
     ELSE UNCHANGED <<payoutVars, since>>
  /\ Release(c)
  /\ UNCHANGED <<day, orderVars, refresh, clawed>>

(* The transaction fails and is rolled back. *)
Rollback(c) ==
  /\ "rollback" \in Happens
  /\ call[c].does # "idle"
  /\ Release(c)
  /\ UNCHANGED <<day, orderVars, payoutVars, owingVars, clawed>>

(* failPayout takes no lock of the kitchen. *)
FailPayout(p) ==
  /\ p \in Waiters
  /\ payout' = [payout EXCEPT ![p].status = "failed"]
  /\ UNCHANGED <<day, orderVars, worth, lock, call, owingVars, clawed>>

-----------------------------------------------------------------------------
(* owes_since, refreshed without a lock by the schedule, the kitchen's dashboard,
   the checkout and the admin's list. *)

Refreshes(f, row) ==
  /\ refresh' = [refresh EXCEPT ![f] = row]
  /\ UNCHANGED <<day, orderVars, payoutVars, lock, call, clawed>>

(* The two are read at once, in either order. *)
WorkOutBalance(f) ==
  /\ "balance" \notin refresh[f].read
  /\ Refreshes(f, [refresh[f] EXCEPT !.read = @ \union {"balance"}, !.owes = Available < 0])
  /\ UNCHANGED since

ReadSince(f) ==
  /\ "since" \notin refresh[f].read
  /\ Refreshes(f, [refresh[f] EXCEPT !.read = @ \union {"since"}, !.since = since])
  /\ UNCHANGED since

Read(f) == refresh[f].read = {"balance", "since"}

WriteSince_Once(f) ==   \* slip: the date is cleared, and never set again
  /\ Read(f)
  /\ since' = IF refresh[f].owes THEN since ELSE NoDay
  /\ Refreshes(f, Rest)

(* Written only when it changes what was read. *)
WriteSince(f) ==
  /\ Read(f)
  /\ since' = LET new == SinceFrom(refresh[f].owes, refresh[f].since)
              IN  IF new = refresh[f].since THEN since ELSE new
  /\ Refreshes(f, Rest)

-----------------------------------------------------------------------------
Refreshing(f) == WorkOutBalance(f) \/ ReadSince(f) \/ WriteSince(f)

Transacting(c) ==
  \/ \E amount \in Asked : BeginRequest(c, amount)
  \/ BeginWeekly(c)
  \/ \E p \in Payouts : BeginComplete(c, p)
  \/ \E amount \in Paid : BeginPayment(c, amount)
  \/ CommitRequest(c) \/ CommitWeekly(c) \/ CommitComplete(c) \/ CommitPayment(c)
  \/ Rollback(c)

Next ==
  \/ \E o \in Orders :
       \/ Deliver(o) \/ Refund(o) \/ SendRefund(o) \/ DismissRefund(o)
       \/ \E confirmed \in BOOLEAN : CancelTransfer(o, confirmed)
  \/ \E amount \in Deposits : HandIn(amount)
  \/ NextDay
  \/ \E c \in Callers : Transacting(c)
  \/ \E p \in Payouts : FailPayout(p)
  \/ \E f \in Refreshers : Refreshing(f)

Spec == Init /\ [][Next]_vars

(* scheduleJob('kitchen-owing', 6 h): refreshed again and again; a dashboard or a
   checkout need not finish what it began. *)
FairSpec == Spec /\ \A f \in Scheduled : WF_vars(Refreshing(f))
=============================================================================
