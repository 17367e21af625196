# Nuray Food & Frost in TLA+

Nuray Food & Frost is a marketplace of home kitchens: customers order dishes
from one kitchen, pay in cash, from a wallet, by transfer or through a payment
gateway, and a platform rider, the kitchen itself or a hub hands the food over.
The rules live in `src/backend/src/services` (Node, Prisma, PostgreSQL at Read
Committed). This directory holds a model of those rules, what TLC checks of it
and what TLAPS proves of it.

## The system

| Part | State it keeps | Operations | Talks to |
|---|---|---|---|
| Placement (`order-placement`, `checkout-key`) | order, items, stock, hub units, promotion use; a key per visit on the page | place, with a repeated-request guard | cart, pricing, wallet, promotions, hub |
| Kitchen (`seller-order`) | item and order status | accept, reject, cancel item, move item, ready, hand over | refunds, rider jobs, ledger |
| Customer cancel (`order-cancel`) | order status | cancel while pending | restock, refunds, jobs |
| Admin (`admin-order`) | order status, refunds | step, cancel, retry, refund | jobs, rider ledger, ledger |
| Sweep (`order-maintenance`) | none | cancel stale orders every two minutes | admin cancel |
| Payments (`payment`, `order-payment`, `online-payment`) | payment status and method, attempts | cash, wallet, transfer and its verdicts, checkout, settle, expire | wallet, refunds, gateway |
| Refund desk (`refund`) | refund rows | issue, complete, dismiss | wallet |
| Rider jobs (`rider`, `dispatch`) | delivery rows, rider availability | post, assign, claim, move, release | order status, rider ledger |
| Rider ledger (`rider-ledger`) | entries per rider, cash limit | deliver, settle, pay out, correct | rider jobs |
| Seller balance, payouts (`seller-balance`, `payout`, `weekly-payout`, `kitchen-owing`) | payouts, payments to Nuray, since when a kitchen owes | request, weekly run, complete, fail, record a payment, refresh | orders, refunds, rider cash |
| Hub (`hub`, `hub-allocation`) | batches, allocations | take in, pick first-expiring, put back, take off sale, expire | placement, cancels |
| Sign-in (`session`, `otp`, ...) | refresh tokens, codes | rotate, verify | every request |
| Queue and scheduler (`jobs`) | slots, leases, queued jobs | run once per period on one instance | sweeps, payouts |
| The rest | catalogue, reviews, support, chat, notifications, media | row edits and messages | |

Nothing holds a lock across requests. A handler reads the order, decides, and
then writes in a transaction; in between, any other request may commit. Most
handlers repeat the decision in the transaction, with `SELECT ... FOR UPDATE`
or an update guarded on the value they read; a few do not. What must follow a
commit (posting the rider job, the ledger) is a call after it, which a stopped
server never makes. Those gaps are what the model is about:

* **interleaving**: customer, kitchen, admins, rider, gateway and sweep on one order;
* **stale reads**: a status, a total or a payment method read before the lock;
* **follow-up calls** lost to a restart, or made after the order moved on;
* **duplicated and late messages**: the gateway reports a session on its return
  page and by webhook, twice, after it expired or after the order was called off;
* **partial steps that add up**: item cancels, partial refunds, dismissals;
* **limits shared by many**: the last portion, the last use of a code, the balance of
  a wallet or of a kitchen, a hub's batch, a slot of the scheduler;
* **retries**: a page that lost its answer presses again, a job whose lease was lost;
* **something must happen**: an order no one accepts, or pays, must end; expired stock
  comes down; a job that hangs does not stop the others.

PROJECT.json lists each of these at its line, with the properties that watch it.

## Modules

| Module | What it is |
|---|---|
| `OrderTables` | the statuses and the transition tables of items, orders and jobs (`lifecycle.ts`, `deliveryStatus.ts`) |
| `OrderMoney` | operators from one payment record to the next: refunds, settlement, repricing (`refund`, `online-payment`, `payment`, `seller-order`) |
| `OrderLifecycle` | the state machine of one order with everybody who acts on it |
| `OrderProperties` | the type invariant, safety, action and liveness properties |
| `OrderClaims` | statements of the documents and comments that the code does not keep |
| `OrderProofs` | theorems about `OrderLifecycle`: of its control, its money, the cash, the food and the ledger |
| `MCOrder` | prices and symmetry for TLC |
| `RiderSlots` | the abstract board: a job is held by one rider or nobody, changes hands through the pool, and only a rider with a slot takes one |
| `RiderJobs` | the pool, the dispatcher, claims, limits, duty, suspension and the rider ledger, for many riders and jobs (`rider`, `dispatch`, `rider-ledger`, `admin-people`) |
| `RiderProperties` | their properties, the mapping to `RiderSlots`, and a claim |
| `RiderSlotsProofs`, `RiderProofs` | theorems about the board, and about `RiderJobs` |
| `MCRider` | amounts, methods and symmetry for TLC |
| `Placement` | the checkout page with its key, the request, the one transaction, and the cancels that undo it (`checkout-key.ts`, `order-placement`, `promotion`, `wallet`) |
| `PlacementProperties`, `MCPlacement` | what it promises; an instance |
| `PlacementProofs` | theorems: of the charge, the stock, the promotions and the wallet; of the page's key |
| `HubStock`, `HubProofs`, `MCHub` | batches and allocations at one hub, with their properties; theorems; an instance (`hub`, `hub-allocation`) |
| `Payouts` | one kitchen's balance, its payouts and its debt (`seller-balance`, `payout`, `weekly-payout`, `kitchen-owing`) |
| `PayoutProperties`, `PayoutProofs`, `MCPayouts` | what they promise; theorems; instances |
| `Scheduler` | slots, leases and their fallback on several instances (`scheduler.ts`) |
| `SchedulerProperties`, `SchedulerProofs`, `MCScheduler` | what it promises; theorems; an instance |
| `Sums` | lemmas about sums over finite sets, for the proofs about amounts and units |

### How OrderLifecycle corresponds to the code

The variables are columns: `orderStatus` and `items` are the statuses of the
order and its items; `money` the payment columns, the refund rows and what the
order did to the customer's wallet; `attempts` the payment sessions; `job`
the delivery row; `riderPaid` and `riderCash` the two rider-ledger entries;
`posted` the platform ledger. `returned` is a history: how often an item's
stock and hub units were put back. `after` holds the calls a handler still has
to make after its commit. `call[c]` is what request `c` read and decided;
`selected` says the sweep listed the order.

A handler that decides again under the order's lock is one action
(`CustomerCancel`, `AdminCancel`, `CancelItem`, `RejectOrder`, `AcceptOrder`,
`MoveJob`, `SettleAttempt`...). A handler that acts on an earlier read is two:
`BeginX(c)` reads and decides, the second action commits under the condition the
code's guarded update has, or the request gives up (`Refuse`). `RetryDelivery`
has no condition, because `retryDelivery` writes without one. Which handlers may
be in flight in an instance is the constant `Racing`; how many at once, `Callers`.

Restocking, closing the job, freeing the promotion and refunding are part of the
cancel that does them, as in the transaction. The rider's push of a job status
to the order and its items is part of `MoveJob`.

Placement takes an order to "pending", unpaid unless it is paid from the wallet;
that is `Init`. An order has one kitchen, as placement requires. Prices are what
the customer pays per item, discount and GST shared out as the code shares them.

### How RiderJobs corresponds to the code

`OrderLifecycle` follows one order through every stale read; `RiderJobs` follows
what many orders share, the riders, and keeps of an order only what a job sees
of it: `live`, `failed`, `delivered` or `cancelled`, and whether its money is
cash to take at the door, unpaid by another method, or paid. The statuses before
the pickup are `assigned`, those after it `carried`.

`job` has the columns of the delivery row, `rider` those of the rider's. `entry`
holds the ledger entries of a delivery and `desk` what admins record, so
`CashHeld`, `Unpaid` and `Balance` are `riderMoney`. `call[c]` is what a claim or
a dispatcher run has read: `BeginClaim` and `BeginDispatch` read without a lock,
`ClaimJob` and `AssignJob` repeat under the rider's row lock exactly what the
code repeats, or give up. The claim keeps the limit it read and does not look at
duty or standing again; the dispatcher looks at both again, and not at who
handed the job back. Which eligible rider `chooseRider` ranks first is left open.

Reopening a row (`reopenDeliveryData`) is the same operator for a release, a
suspension and a retry. Every other transaction about one job or one rider is
one step. The kitchen's progress is left open, so a rider may arrive too early or
too late. `Happens` names the events of an instance; `Slots` is `MAX_ACTIVE_JOBS`.

`KeepsTheBoard` is the refinement: with `Holder` mapping each job to the rider who
has it, `RiderJobs` implements `RiderSlots`.

### How Placement corresponds to the code

`page[t]` is what the checkout page has in its session storage: the key, the order it
was drawn for (`signed`), and what the button shows (`offer`); `visit` numbers the
trays a customer fills at it. The button shows the whole total, or, as long as the page
does not know what delivery costs (`deliveryKnown`), the dishes alone with "plus
delivery". What is sent is `OrderData`: the code, and `expectedTotal` only when the total
is whole; the key is drawn for just that. `Press` is `handleCreateOrder` with
`checkoutKeyFor`; an answer of success forgets the key, a refusal too, a server error or
a lost answer does not. `request[r]` is a call of `POST /orders`: `LookUpKey` is the
replay, `ReadAndPrice` all the unlocked reads up to `QuotedTotalProblem`, which compares
a total that was sent and lets an order without one pass at any price, `Commit` the
transaction, which writes and debits the price worked out then (`Charge`): each of its conditional updates keeps the row it wrote, so that it
decides as if alone. A key of an order committed meanwhile is met by the unique index.

An order is told apart by the customer, the dishes and the money only; `agreed` is a
history, the offer its customer pressed. Cancels are
whole-order and one-item, with restock, release of the promotions and the wallet's
refund. `SaveForm` writes the stock number of a form opened earlier, as
`updateProduct` does. `made`, `overwritten`, `highest` and `renewed` are histories.
`HubStock` refines the taking of units at a hub, and `OrderLifecycle` says when an
order may be cancelled; here `RollBack` and the cancels leave that open.

### How HubStock corresponds to the code

`batch` has the columns of `hub_inventory`, `taken` the allocation rows. An allocation
is two steps: `ReadBatches` is the ordering read, `Allocate` the row locks: PostgreSQL
checks each row again, in the order of the first reading. `CancelLine` is
`releaseHubAllocations`; `RecordIntake` covers a new batch, one merged and one kept
apart after a breach of the cold chain. `off` notes what staff took off sale.

### How Payouts corresponds to the code

Nothing stores a balance. `Available` is `computeSellerBalance`: `Effect` of each
order, less the payouts that stand, plus what the kitchen paid. Each transaction that
spends it is two steps, `BeginX` (the kitchen's row lock and the reading of the orders)
and `CommitX` (the payouts, the decision, the row). Orders are delivered, refunded and
dismissed and cash is handed in between them, under other locks. `FailPayout` locks
only its row. `refresh` is `refreshOwing`, which locks nothing. Payouts are numbered as
they are made. A kitchen that opted out or has no account is left out by the weekly
run: a run that does not happen. A refresh computes the balance in one step.

### How Scheduler corresponds to the code

`running`, `active` and `waiting` are the variables of `scheduler.ts` on each
instance, `lease` the keys in Redis, `advisory` the locks of PostgreSQL, `run[t]` a run
under way, known by its token. `Settle` is the end of `runExclusive`, `Deadline` its
race against `maxMs`. Redis may fail a command before or after it took effect.

## What is checked

TLC, each run within its bounds (below):

| Run | Setting | Shows |
|---|---|---|
| `PaidRider` | cash or wallet, platform rider | types; a ready order has its job; cash is charged to exactly the rider who took it; a cancelled order is closed everywhere; only a retry brings back an order that is closed or delivered |
| `TransferKitchen` | transfer, kitchen delivers | stock back once; a delivered order is complete; unpaid food stays in; the ledger has paid deliveries; with the sweep fair, no order waits for ever for acceptance or for money |
| `OnlineRider` | two checkout sessions, changes of method | every rupee is on the order or in the wallet; refunds stay within the total; refunded means settled; a cancelled order's money is owed back |
| `RiderPool` | 2 riders, 2 cash jobs and one paid otherwise, a dispatcher run and a claim at once | the jobs keep the board; no rider is committed to more cash than their limit ever allowed |
| `RiderDesk` | 2 riders, 2 jobs of different price and method, one slot each | a delivery is booked once, for who has it; books are never overdrawn; the dispatcher empties the pool |
| `Placement` | two tabs of one customer, two dishes, a deal and a code | portions, uses and wallet money are neither lost nor spent twice; a whole total shown is the charge, and every order costs what the promotions it uses leave; an answer is of this visit; a visit orders twice only after the key was given up |
| `HubStock` | two orders, two batches, deliveries, staff and the expiry sweep | units are kept; what was taken off sale stays off; first expired goes first; expired stock comes down |
| `Payouts` | an order by rider, one collected by the kitchen, one of another kitchen | the balance is never overdrawn but by later refunds; an order is on one statement; one automatic payout a week; kitchens are paid from money that came in |
| `Owing` | a kitchen that collects, two refreshers | a kitchen that goes on owing is noted as owing |
| `Scheduler` | two instances, two jobs, one slot, a crash and a failing Redis | no slot is lost; two runs of one job at once have a reason; no job is left undone for good |

Two more runs each refute a sentence of the repository (`findings` in
PROJECT.json quotes it):

| Run | What happens |
|---|---|
| `ClaimRetryFailed` | a retry judged on a failed delivery commits after a cancel and revives the order |
| `ClaimKeepsOnce` | a kitchen that collected a transfer keeps its refund once for every dismissal, so that two of them leave it more than it took |

The properties that hold are stated so as not to hide these: `OnlyRetryRevives`
names the retry as the one exception, `CashIsCharged` speaks of riders that hold
the job, `DeliveredPaidIsPosted` excepts restarts, which do lose the call,
`CashWithinLimit` excepts a customer's change to cash after the job was given away,
`PaidFromMoneyIn` the dismissals, `StockIsKept` a dish saved from a stale form,
`ChargedAsShown` holds an order to its button only where the button showed the whole
total (of any other it says what the price is made of),
`OneOfAKind` a run past its time or one whose lease was lost.

### Bounds, and why they are enough

Two items, of different prices (2 and 1) with a fee of 1: enough for one item
to be cancelled while another is cooked, and for a partial refund, a cancel and
a shrunk total to differ. Two checkout sessions, enough for a double payment,
one of them late. One request in flight, which races every atomic handler. With two
in flight `ReadyHasJob` and `CashIsCharged` fail in `PaidRider`, because a late retry
meets another request ("Seen while modelling"); what holds for any number, and that one
at a time is enough with a retry, is proved instead. `RefundAmounts` holds the total and a
part of it; `MaxDismissals` and `MaxCrashes` are 1. Deadlock is not checked: an order that ended may have no step left.

Two riders compete for a job, and three jobs compete for the two slots of one
(in `RiderPool`, where riders, and the two cash jobs, are symmetric). One claim and one
dispatcher run suffice to race: they are the two kinds of caller, and each also
races every release, suspension, correction and delivery. The limit of cash is one
job's worth and may be raised to two, so that both limits decide: the third job
of a rider is prepaid. Hand-ins, which only lower what a rider holds, are in
`RiderDesk`, which has one slot per rider, a dear cash job and a cheap one paid
otherwise, so that a settlement can take a part. `MaxChanges` bounds the
changes of standing, limit and duty and the corrections: 1 and 2.

`Placement`: two requests race for one portion of a dish (of the other there are two),
one use of each promotion is left to the customer and two to all, and the wallet pays
for one order and a part of another. The first tab may press twice, enough for a retry,
a repeat after success and a new visit; the second once. The first always shows the
code and the whole total; the second that, or no code and delivery still to be added, so
that one request with a total and one without race for the same deal. The kitchen acts
once. `HubStock`: two lines, the larger of which empties two batches or
a part of one; three deliveries, so that a batch is merged and another is opened;
three ticks, so that a batch is fresh, too short-lived to sell, and expired.
`Payouts`: two days, the second a Monday; two payouts, so that a failed one is
followed, or a request meets the weekly run; one transaction at a time, because each
holds the kitchen's lock throughout. `Owing`: the scheduled refresher and one other,
each with an old reading, three days, one dismissal. `Scheduler`: one slot for two
jobs on one instance, the other has one job; two tokens, so that a run is followed by
another while its lease still stands; a fault of Redis and a crash.
Orders and requests are symmetric in `Placement`. Deadlock is not checked in these: a
day that is over, stock that is gone or a press that is used up ends them.

### Fairness

`FairSpec` of `OrderLifecycle` assumes that the sweep lists and cancels
(`scheduleJob('stale-orders', 2 min)` in `index.ts`) and that a server that stays up
makes its follow-up calls. No person, rider or gateway is assumed to act. How long an
order has waited is not modelled; an order that stays pending becomes overdue at some
point, so the sweep is always allowed to list it.

In `RiderJobs`, `FairSpec` assumes that the dispatcher tries each job again and
again (`scheduleJob('dispatch-waiting', 60 s)`, which walks the open jobs) and
ends what it began. The fairness is strong, per job, because a run busy with
another job is no refusal: the next sweep comes to this one. `PoolIsEmptied`
says what follows once everybody else pauses. It does not follow for more than
fifty open jobs, the sweep's batch.

`HubStock` assumes the `hub-expiry` job, `Payouts` the `kitchen-owing` job
(`index.ts`) and nothing of the dashboards and checkouts that refresh too.
`Scheduler` assumes that timers fire, that Redis and PostgreSQL answer or fail in time,
that leases run out and deadlines strike. It does not assume that a job ever ends.

## What is proved

Every safety invariant and action property that a run checks is a theorem, for every
value of the constants; the hypotheses a theorem needs beyond the named assumptions of
its modules are in its statement and in the tables.

`OrderProofs`, the control of an order: for any finite set of items, any callers,
any subset of two-step requests, any handover, methods and amounts, and any number of
restarts.

| Theorem | Property |
|---|---|
| `ControlInvariant` | the inductive invariant `IInv` |
| `ControlTyped` | `ControlTypeOK`, the typing of order, items, job and follow-up calls |
| `StockRestockedOnce` | `RestockedOnce` |
| `CancelledOrderIsClosed` | `CancelledIsClosed` |
| `DeliveredOrderIsComplete` | `DeliveredIsComplete` |
| `OnlyARetryRevives` | `OnlyRetryRevives` |
| `ReadyOrdersHaveJobs` | `ReadyHasJob`, under `RetriesApart` (below) |

None of the first three safety properties is inductive alone. They support each other
(an item move must not touch a cancelled order, a job must not be claimed on
one), and all need to know something of the requests in flight: an item move was
begun on an item neither cancelled nor delivered, an admin's step goes between
open statuses and completes only delivered orders. `CallOK` states that, and
`IInv` is its conjunction with the three properties and the typing. The proof
has one lemma per handler; the handlers that touch only money share
`ControlKept`. An order that is over stays so because no job travels with one
(`RoadInv`), and because a request begun before finds what it read changed. `ReadyHasJob`
needs that a job is closed only with its order (`JobInv`).

`OrderProofs`, the money of an order, under the same parameters and these hypotheses:

| Theorem | Property | Hypothesis |
|---|---|---|
| `MoneyInvariant` | the inductive invariant `MoneyInv` | |
| `OrderTyped` | `TypeOK` | |
| `RefundedMoneyIsSettled` | `RefundedIsSettled` | |
| `RefundsStayWithinTotal` | `RefundWithinTotal` | no `dispute`, or no `submit` |
| `MoneyInIsKept` | `MoneyIsKept` | no `advance`, no `move` |
| `CancelledMoneyIsOwed` | `CancelledOwesRefund` | no `submit`; `RetriesApart`, or no `advance` and no `move` |
| `RidersAreCharged` | `CashIsCharged` | `RetriesApart` |
| `FoodIsPaidFor` | `FoodLeavesPaid` | no `advance`; `CheckoutsApart` |
| `DeliveriesArePosted` | `DeliveredPaidIsPosted` | no `advance`; `CheckoutsApart` |

`RetriesApart` says that no failed delivery is retried or that requests are handled one
at a time, besides the atomic handlers and with any of them between reading and writing;
`CheckoutsApart` says the same of checkouts. The hypotheses are the code's: without them
TLC breaks the property ("Seen while modelling"); only for `CancelledOwesRefund` with
`move` and retries that overlap is it open. The argument goes in three stages.
First, what each operator of `OrderMoney` makes of a record (a refund issued, sent or
dismissed, a payment taken, settled or repriced), as facts about the sums of its
refunds. Then, which operator each handler applies and under which guard
(`EveryStepMovesMoney`), so that the handlers are gone through once. On both rest the
invariants, each for its property:

* `MoneyInv`: refunds stand only on money received or reported; a payment that counts
  as refunded is covered by them, and none waits once it is `refunded`. Of requests in
  flight it needs the types only, because refunds are counted under the lock.
* `WithinInv`: without a disputed report, no total is lowered while a refund stands.
* `KeptInv`: a payment recorded has its time and its collector, and keeps them
  (`PaidStays`), or a session that settles could not be told from a double payment.
* `CashInv`: cash a rider took is charged, or the order is over, its job is not on the
  road and no retry is under way; and nobody is about to take the cash again.
* `JobInv`: a job is closed with its order; a retry under way finds the job of the order
  it read, or an order cancelled since of which nothing is kept.
* `OwesInv`: a payment not given back is not covered by its refunds, so that the cancel
  that comes has something to refund. Cash recorded by hand over a payment given back
  breaks that; the order is delivered then and nobody can call it off.
* `FoodInv`: an order is for cash or paid, or it is early: nothing of it is ready or
  further, no rider travels with it, and no request in flight would take it there. A
  checkout under way finds the order on online payment (`CheckoutsRead`).
* `PostedInv`: a finished order was paid, so that only a dismissal makes it paid later,
  and a kitchen's delivery without cash was begun on a payment received.

`Sums` is what these and the next modules know of `SumFunctionOnSet`: what an element
that comes, goes or changes does to a sum, that sums of sums and of parts add up, and
bounds. The operator recurses over an element that `CHOOSE` picks, and the library's
induction rule cannot be instantiated here; the lemmas take instead a smallest subset
for which a claim fails, which well-foundedness of the strict subsets provides.

`RiderSlotsProofs` and `RiderProofs` prove, for any riders, any finite set of
jobs, any slots, amounts, limits, events, and any number of claims and runs:

| Theorem | Property |
|---|---|
| `BoardKeepsSlots` | on the abstract board, no rider holds more than the slots |
| `JobsStayTyped` | `TypeOK` of `RiderProperties` |
| `JobsKeepTheBoard` | `KeepsTheBoard`: `RiderJobs` implements `RiderSlots` |
| `NoRiderIsOverloaded` | no rider has more active jobs than the slots, from the two above |
| `EachDeliveryIsPaidOnce` | `DeliveryIsPaid` |
| `RiderBooksStayEven` | `BooksStayEven` |
| `CashStaysWithinLimit` | `CashWithinLimit` |

The types need to know that a call under way names a job and a rider
(`CallsTyped`). The refinement needs the types: a step
about one job leaves it with its rider or lets go of it, a suspension lets go of
several, and a commit takes one from the pool under the count. Pay needs that the
order of a delivered job stays delivered (`DeliveredIsOver`), or a retry could
reopen a paid job. The books follow the ledger: a delivery adds its cash and fee to
one rider's sums, the desk records no more than the figures it reads in its
transaction. For the limit, every limit in force or remembered by a call is at most
the rider's highest (`LimitsKnown`, `ReadLimits`), and a payment remembered as not cash
is cash now only by the change that `switched` notes (`ReadCash`). Used are the
named assumptions of `RiderJobs`: types of its constants, finitely many jobs, and that
nobody is no rider.

`PlacementProofs` proves, for any customers, tabs, dishes, limits,
prices, and any number of requests, presses and lost answers:

| Theorem | Property |
|---|---|
| `Typing` | `TypeOK` of `PlacementProperties`; stock never goes below nothing |
| `ChargeIsAsShown` | `ChargedAsShown` |
| `PortionsAreKept` | `StockIsKept` |
| `PromotionsAreCounted` | `UsesAreCounted` |
| `WalletMoneyIsKept` | `WalletIsKept` |
| `AnswersAreOfTheVisit` | `AnswerIsThisVisit` |
| `RepeatsNeedANewKey` | `RepeatNeedsNewKey` |

The charge needs the comparison of the totals (`PricedAsSent`): a request that sent one
and passed it carries the price of its own promotions; and it needs the promotions'
invariant, for the uses of an order to be those it was priced by as long as it stands.
The counts of portions and uses follow the
cardinality of the orders that have them, one transaction at a time; `UsesParts`
adds that a limit never exceeds the highest it was given. The wallet needs only that its
debit is the order's total and that no order gave back more than it took (`WalletParts`). The page needs
`KeysAgree`: a key is of one visit, the key a page holds of the visit it is in, and a
visit that sent two keys is noted as renewed; the unique index (`OneOrderOfKey`) does
the rest. Used are the assumptions of `Placement`: types, finitely many orders, and
that a tray is not empty.

`HubProofs` proves, for any finite set of lines, any number of batches, quantities,
shelf lives and deliveries:

| Theorem | Property |
|---|---|
| `NoUnitIsLostOrSoldTwice` | `UnitsAreKept` |
| `HeldBackStays` | `OffSaleStays` |
| `BatchesGoOutInOrder` | `FirstExpiredFirst` |
| `NothingStaleGoesOnSale` | the action part of `StaleIsTakenDown` |

The invariant says, beside the property, that a line holds units only while it is
placed, that what staff took off sale has units (an empty batch is told apart from one
sold out by its quantity alone), and that a batch not opened yet has nothing. An
allocation walks the batches in the order it read: what it takes from each is
what is left to find and what the batch has under its lock.

`PayoutProofs` proves, for any finite set of orders, any callers, amounts, calendar
and number of payouts:

| Theorem | Property |
|---|---|
| `DaysAreListedOnce` | `ListedOnce` |
| `WeeklyPayoutIsOne` | `OneAWeek`, its invariant and its action part |
| `NothingIsOverdrawn` | `Covered` |
| `PayoutsComeFromMoneyIn` | `PaidFromMoneyIn` |

The invariant (`PayoutInvariant`) has the lock (`CallsTyped`: a transaction is under
way exactly for who holds the kitchen's row), rows used in order (`MadeInOrder`, or a
new payout could take a row that has a past), and `WeekIsClear`: what a weekly
run saw under the lock, no payout waiting and none of its Monday, is so until it commits.
A failed payout keeps its Monday and gives up its period. For the balance
(`BalanceInvariant`), what a transaction read of the orders may be more than they are
worth at its commit, but by no more than what orders took since (`ReadBehind`); `clawed`
adds that up over the transactions.

`SchedulerProofs` proves, for any instances, jobs, slots, tokens, faults and crashes:

| Theorem | Property |
|---|---|
| `RunsStayTyped` | `TypeOK` of `SchedulerProperties`, and that marks follow the runs |
| `SlotsAreNeverLost` | `SlotsAreKept` |
| `JobsRunApart` | `OneOfAKind` |

`Desk` is what an instance knows: its counter is the number of runs that hold a slot,
who queues waits there and once (or a slot could be handed to a run that has one), and a
run with no lock yet is not past its time. Every way a slot is given up, the end of a
run or its deadline, is one lemma (`FreeingKeepsDesk`). `LocksHeld` says that a sound
run has the lock it went for; no step takes it away, because a release and a timeout
touch only their own.

## Only model-checked

Liveness under fairness (`PendingIsSettled`, `UnpaidIsSettled`, `PoolIsEmptied`,
`OwingIsNoticed`, `JobsGoOn`, the second half of `StaleIsTakenDown`): the prover has no
rule for it. Every safety property a run checks is a theorem under the settings of that
run. The two findings are counterexamples.

## Seen while modelling

Behaviour the models have because the code has it, and no run states:

* The sweep cancels every order it listed that is still cancellable, also one
  paid or accepted since; the customer is refunded.
* `cancelOrderItem` looks at the item only, so an item still preparing can be
  cancelled when its order is already out.
* An online payment settled after the delivery marks the order paid, and nothing
  posts it to the ledger.
* Dismissing the last pending refund of an order with another already completed
  leaves the payment in `refund_pending`.
* `adminConfirmManualPayment` decides from the status it read first whether to
  post the ledger; a delivery in between is missed.
* `startOrderCheckout` puts the order on online payment whatever it is on by then.
* An admin who delivers a cash order that no rider holds records its money as
  rider cash, and no rider is charged (`BUSINESS_RULES.md:210` has a rider owe it).
* A dispatcher run that chose a rider before they claimed and handed back the
  same job gives it to them again (`rider.service.ts:678` says never).
* `dispatchDelivery` does not look at the order again: a job whose order an admin
  delivered meanwhile can still be assigned, and keeps a slot until it is ended.
* A customer may change to cash after a rider took the job, past the rider's limit.
* Suspending the account (`setUserStatus`) leaves the rider's jobs with them;
  `setRiderStatus` gives back those not picked up.
* The rider's table allows at-the-kitchen to in-transit, a move that never asks whether
  the food is paid: `FoodLeavesPaid` (`PlacedWith = {"online"}`, rider,
  `Racing = {"advance", "claim"}`).
* A customer pays a cash order from the wallet while an admin who read it unpaid marks
  it delivered; the wallet's money is recorded as cash a rider holds: `DoorMoneyIsCash`
  (`PlacedWith = {"cod"}`, two callers, `Racing = {"advance", "walletPay"}`).
* A wallet payment debits the total it read, though a cancelled item has lowered it:
  `PaidIsTotal` (online, `Racing = {"walletPay"}`).
* A transfer reported while the order is being cancelled is never refunded:
  `CancelledOwesRefund` (transfer, `Racing = {"submit"}`).
* A kitchen cancels an item of a reported transfer (its refund is recorded), then
  disputes the transfer, then cancels another item: the order is priced as unpaid, below
  the refund that stands: `RefundWithinTotal` (transfer, three items for 3, 1 and 1,
  `Racing = {"submit", "dispute"}`).
* A delivery recorded by hand, begun when the cash order was unpaid, writes cash over a
  session that settled meanwhile: `MoneyIsKept` (online, kitchen, one session,
  `Racing = {"checkout", "cash", "move", "ready"}`, or with `"advance"`).
* `startOrderCheckout` can put an order back on online payment while its food leaves
  for cash; it goes out unpaid, and a payment made later is posted by nothing:
  `FoodLeavesPaid`, `DeliveredPaidIsPosted` (online, rider, two callers,
  `Racing = {"checkout", "cash", "ready", "claim"}`).
* An unpaid order an admin moved to ready goes out and is delivered unpaid; its
  late payment is not posted: `DeliveredPaidIsPosted` (online, rider, one session,
  `Racing = {"advance", "claim", "checkout"}`).
* A claim that read its rider as active commits after the suspension; the suspended
  rider keeps a job they may neither move nor release, and no dispatcher run sees it:
  `SuspendedHasNoPickup` (one rider, one job, suspension).
* An admin's "delivered", begun on an unpaid cash order, commits after that order failed,
  was paid by a session, refunded and sent out again: it is paid once more in the books,
  and a late second retry makes it an order to cancel, with nothing left to refund:
  `CancelledOwesRefund` (three callers, `Racing = {"advance", "refund", "retry"}`, from a
  failed cash order with an open session).
* Two retries of one failed order judged at the same time both commit, the second after
  an admin moved the order on to delivered; it is sent out again: `CashIsCharged`,
  `ReadyHasJob` (cash, two callers, `Racing = {"ready", "claim", "retry", "advance"}`).
* An order placed before the page knew what delivery costs carries no total, so nothing
  is compared: a deal lost between the button and the commit is charged for in silence,
  although the comment at `order-placement.service.ts:62` promises a refusal:
  `ShownIsCharged` (in `Placement.cfg`). What the order uses up it is priced by all the same.
* A key is given up by a refusal, by its ten minutes, or when the order sent changed: the
  code, the total, or that delivery is known now. A total not sent is no part of it.
  An earlier press that still runs, or was lost after its commit, then has a second
  order beside it: `OneOrderPerVisit` (with "lose").
* The menu deal is bounded in total under the lock, but per customer only as read:
  `DealPerCustomer`. So is the daily limit of the kitchen: `WithinDailyCap`.
* Saving a dish's form writes back the stock it was opened with: what was sold
  meanwhile is on sale again.
* A batch without stock that staff hold looks like one that was sold out; a unit that
  comes back puts it on sale.
* "Withdraw now" covers the day it is asked on, so that a delivery later that day is in
  no statement; the period of a failed payout that another followed is in none either.
* A refresh that worked with an older balance can clear `owes_since`; the next one sets
  it anew, and the kitchen's days of grace start over.
* A scheduled job may run on two instances: past its time, after a lost lease, or when
  one of them found Redis failing and the other did not: `OneInstanceAtATime`.

## Not modelled, and why

Listings, reports, notifications, audit, media and the desks for support, reviews and
communities write no state the rules above read. The HTTP layer, the frontends (but
for the checkout's key) and the mobile shell hold no rule that the services do not
enforce again. Elapsed time is a choice, not a clock, but for the dates of a hub and
the days of the payouts. Two refunds completed at the same instant are one step after
the other here; races of single statements inside a transaction are not modelled,
except for the row locks of a hub. Sign-in, sessions and one-time codes are left out so far:
the tokens they compare are data of another kind, and nothing above depends on them.
Configured gateways are modelled by the answers `online-payment` accepts from them.

## Plan

1. The order module: done, with the proofs of its control and of its money.
2. `RiderSlots` and `RiderJobs`: done, with the refinement, the limit on jobs and
   the pay proved. Left: a history of assignments, for the handed-back job.
3. `Placement`: done, with proofs.
4. `Payouts`: done, with proofs, the balance included.
5. `HubStock`: done, with proofs.
6. `Scheduler`: done for leases and slots, with proofs. Left: a queue job's retries.
7. Left: `RefundDesk`, complete and dismiss at the level of statements; `Sessions`,
   refresh rotation, codes and their guesses; pricing as operators against a
   reference definition.
