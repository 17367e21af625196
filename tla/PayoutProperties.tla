----------------------------- MODULE PayoutProperties -----------------------------
(* What the balance and the payouts of a kitchen promise. *)
EXTENDS Payouts

OrderRows == [status: {"waiting", "paid", "refunding", "refunded", "failed"},
              delivered: BOOLEAN, confirmed: BOOLEAN, dismissed: Nat, turn: Nat]

PayoutRows == [status: {"none", "pending", "completed", "failed"}, to: {"kitchen", "nuray"},
               start: Nat, end: Nat, run: Nat]

Doings == {"idle", "request", "weekly", "complete", "payment"}

(* Types, and: the kitchen's row is locked by the one transaction under way. *)
TypeOK ==
  /\ day \in 1..LastDay /\ deposited \in Nat /\ since \in Nat
  /\ order \in [Orders -> OrderRows]
  /\ payout \in [Payouts -> PayoutRows] /\ worth \in [Payouts -> Nat]
  /\ lock \in Callers \union {Nobody}
  /\ \A c \in Callers : /\ call[c].does \in Doings /\ call[c].day \in Nat
                        /\ call[c].about \in Payouts \union {NoPayoutRow}
                        /\ call[c].does # "idle" <=> lock = c
  /\ refresh \in [Refreshers -> [read: SUBSET {"balance", "since"}, owes: BOOLEAN, since: Nat]]

(* Requests, weekly runs, completions, failures and payments in any order never
   draw more than the balance: it is below nothing only by what orders took from it
   after the last of them had looked. *)
Covered == Available >= -clawed

(* A delivered order is never on two statements: the periods of payouts that stand
   do not overlap, whatever failed, was asked for twice or crossed the weekly run. *)
ListedOnce ==
  \A p, q \in ToKitchen :
    p # q => (payout[p].start..payout[p].end) \intersect (payout[q].start..payout[q].end) = {}

(* One automatic payout for a kitchen and Monday, also when two servers run the job
   at once or an admin failed the first, and none beside a payout that still waits
   to be sent to it. *)
OneAWeek ==
  /\ [](\A p, q \in Automatic : payout[p].run = payout[q].run => p = q)
  /\ [][\A p \in Payouts : payout'[p].run # payout[p].run => Waiters = {}]_vars

(* What there is behind an order's part of the balance, apart from the cash riders
   hand in: what the customer paid Nuray for a delivered order; the discount Nuray
   funds, by which the kitchen's share may be more than the customer pays; and what
   each refund dismissed on an order the kitchen collected adds, which
   KitchenKeepsOnce is about. *)
Behind(o) ==
  (IF Kind[o] \in {"wallet", "online"} /\ order[o].delivered THEN Total[o] ELSE 0)
    + (IF order[o].delivered THEN Drop(Share[o], Total[o]) ELSE 0)
    + (IF Kind[o] = "kitchen" /\ order[o].confirmed THEN order[o].dismissed * Total[o] ELSE 0)

MoneyIn == SumFunction([o \in Orders |-> Behind(o)]) + deposited

(* A kitchen is paid from money that reached Nuray: what was paid online, what a
   rider has handed in, what kitchens paid, and the discounts Nuray funds. *)
PaidFromMoneyIn ==
  SumFunctionOnSet(worth, ToKitchen) <= MoneyIn + SumFunctionOnSet(worth, ToNuray)

(* A kitchen that owes and goes on owing is noted as owing, however refreshes that
   read an older balance end. *)
OwingIsNoticed == <>[](Available < 0) => <>[](since # NoDay)

-----------------------------------------------------------------------------
(* "A refund the admin dismissed (not owed) stays with the seller"
   (seller-balance.service.ts), and the kitchen then owes what it always did of an
   order it collected: the total without its share. *)
KitchenKeepsOnce ==
  \A o \in Orders :
    Kind[o] = "kitchen" /\ Earned(o) => Effect(o) = Share[o] - Total[o]
=============================================================================
