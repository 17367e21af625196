-------------------------- MODULE PlacementProperties --------------------------
(* What placing an order promises, and four things the documents and comments say
   of it that the code does not keep. *)
EXTENDS Placement, Functions

Offers == [total: Nat, code: BOOLEAN, deliveryKnown: BOOLEAN] \union {NoOffer}

Signatures == [expectedTotal: Nat \union {NoTotal}, code: BOOLEAN]

Pages == [visit: Nat, key: Nat, signed: Signatures, offer: Offers,
          waits: Requests \union {Nobody}]

Steps == {"idle", "received", "checked", "priced", "refused", "answered"}

RequestRows == [by: Tabs \union {Nobody}, key: Nat, offer: Offers, visit: Nat,
                step: Steps, deal: BOOLEAN, answer: Orders \union {Nobody}]

OrderRows == [by: Tabs \union {Nobody}, key: Nat, visit: Nat, total: Int, agreed: Offers,
              live: SUBSET Dishes, wallet: BOOLEAN, refunded: Int]

TypeOK ==
  /\ page \in [Tabs -> Pages]
  /\ request \in [Requests -> RequestRows]
  /\ \A r \in Requests : request[r].by = Nobody <=> request[r].step = "idle"
  /\ order \in [Orders -> OrderRows]
  /\ \A o \in Orders : order[o].live # {} => order[o].by # Nobody
  /\ stock \in [Dishes -> Nat]
  /\ promotion \in [Promotions -> [used: Nat, limit: Nat, active: BOOLEAN]]
  /\ usage \subseteq Promotions \X Orders
  /\ wallet \in [Customers -> Int]
  /\ kitchen \in [open: BOOLEAN, form: [Dishes -> Nat \union {NoTotal}]]
  /\ pressed \in [Tabs -> Nat] /\ edits \in Nat
  /\ made \in [Dishes -> Nat] /\ overwritten \subseteq Dishes
  /\ highest \in [Promotions -> Nat]
  /\ renewed \subseteq Tabs \X Nat

LiveOrders(d) == {o \in Orders : d \in order[o].live}

(* The last portions: racing checkouts, item cancels and order cancels never sell a
   portion twice or lose one. The exception is a dish whose stock a kitchen saved
   from a form that orders had overtaken. *)
StockIsKept ==
  \A d \in Dishes \ overwritten : stock[d] + Cardinality(LiveOrders(d)) = made[d]

(* A promotion's count is its usage rows, of orders that stand, and it never passes
   a limit it was given, however many checkouts apply it at once; nor does one
   customer use the code more often than a customer may. *)
UsesAreCounted ==
  \A p \in Promotions :
    /\ promotion[p].used = Cardinality({o \in Orders : <<p, o>> \in usage})
    /\ promotion[p].used <= highest[p]
    /\ \A o \in Orders : <<p, o>> \in usage => order[o].live # {}
    /\ p = "code" => \A u \in Customers : Cardinality(UsesBy(p, u)) <= PerCustomer

(* Wallet money: a balance and what the wallet's orders keep of it are what was put
   in, and no pair of debits overdraws it. *)
WalletIsKept ==
  \A u \in Customers :
    /\ wallet[u] >= 0
    /\ wallet[u] + SumFunctionOnSet([o \in Orders |-> Owed(o)], OrdersOf(u)) = TopUp[u]

(* A customer who pressed a button with the whole total on it is charged that: no deal
   that ran out, limit or price between the press and the commit changes it. Where the
   button left delivery to be added nothing is compared, and a deal lost meanwhile is
   charged for; what holds of such an order, as of every one that stands, is that it
   costs the dishes less exactly the promotions it uses up, and delivery. *)
ChargedAsShown ==
  \A o \in Placed :
    /\ order[o].agreed.deliveryKnown => order[o].total = order[o].agreed.total
    /\ order[o].live # {} =>
         order[o].total = TotalFor(Owner[order[o].by], <<"deal", o>> \in usage,
                                                       <<"code", o>> \in usage)

(* A press is answered with an order of the same visit: never with one placed from
   a tray the customer has since emptied. *)
AnswerIsThisVisit ==
  \A r \in Requests : request[r].step = "answered" =>
    /\ request[r].answer \in Placed
    /\ order[request[r].answer].by = request[r].by
    /\ order[request[r].answer].visit = request[r].visit

Repeated(t, visit) ==
  \E o, p \in Placed : /\ o # p
                       /\ order[o].by = t /\ order[p].by = t
                       /\ order[o].visit = visit /\ order[p].visit = visit

(* However presses, timeouts, server errors and retries follow each other, a visit
   to the checkout places two orders only if the page gave its key up on the way. *)
RepeatNeedsNewKey ==
  \A t \in Tabs : \A visit \in 1..(MaxPresses[t] + 1) :
    Repeated(t, visit) => <<t, visit>> \in renewed

-----------------------------------------------------------------------------
(* "the same key while the order (the signature) is unchanged, so a retry after a
   timeout, reload or double press returns the order already placed instead of
   creating a second one" (checkout-key.ts:49). *)
OneOrderPerVisit ==
  \A t \in Tabs : \A visit \in 1..(MaxPresses[t] + 1) : ~Repeated(t, visit)

(* "the limits are re-read under a row lock, so two simultaneous orders cannot both
   pass a count that neither has yet incremented" (order-placement.service.ts:740),
   for the menu deal as for the code. *)
DealPerCustomer ==
  \A u \in Customers : Cardinality(UsesBy("deal", u)) <= PerCustomer

(* "The total the checkout showed on its button must be the total charged [...] the
   order is refused with the new total instead of being placed at an amount the
   customer did not agree to" (order-placement.service.ts:62), of a button that showed
   the dishes and left delivery to be added, too. *)
ShownIsCharged ==
  \A o \in Placed :
    order[o].total = order[o].agreed.total + IF order[o].agreed.deliveryKnown THEN 0 ELSE Fee

(* The kitchen's daily limit, enforced at checkout. *)
WithinDailyCap ==
  ItemsToday <= DailyCap
=============================================================================
