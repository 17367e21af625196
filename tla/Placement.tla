------------------------------- MODULE Placement -------------------------------
(* Placing an order of one kitchen's dishes: the checkout page and its
   idempotency key, the request on the server, the one transaction that writes the
   order, takes stock, uses up promotions and debits the wallet, and the cancels
   that undo it; with the kitchen editing stock, the promotion and its opening
   meanwhile.

   The page adds delivery to the total once the server has said what it costs. Until
   then the button shows the dishes alone, "plus delivery", and no total is sent.

   A request looks its key up, reads everything else it decides on without a lock,
   and then commits. The transaction is one step: each of its conditional updates
   holds the row it wrote until the commit. Each dish of a tray is one portion. *)
EXTENDS Integers, FiniteSets, FiniteSetsExt

CONSTANTS Customers, Dishes, Orders, Requests, Nobody,
          Tabs,       \* open checkout pages
          Owner,      \* the customer at each
          Tray,       \* the dishes each customer orders
          Buttons,    \* what each page may show on it: see ButtonKinds
          ByWallet,   \* the customers who pay from the wallet
          ListPrice,  \* of each customer's tray, tax included
          Fee,        \* delivery
          DealOff,    \* what the kitchen's menu deal takes off an order
          CodeOff,    \* what the code takes off
          PerCustomer, \* usageLimitPerUser of both
          UseLimit,   \* usageLimitTotal of each when the day begins
          Changing,   \* the promotions whose owner may change them during the day
          Edited,     \* the dishes whose form the kitchen opens
          UseLimits,  \* limits they may be given
          Stock,      \* portions of each dish when the day begins
          Shares,     \* what one item's refund may come to
          TopUp,      \* what is in each wallet
          DailyCap,   \* maxDailyOrders
          Happens,    \* which of the optional events happen
          MaxPresses, \* bound: presses of the button on each page
          MaxEdits    \* bound: things the kitchen changes

Events == {"lose", "fail", "expireKey", "cancel", "cancelDish", "edit", "close", "limit"}

Promotions == {"deal", "code"}

(* With the code typed or without, and what delivery costs known or not. *)
ButtonKinds == [code: BOOLEAN, deliveryKnown: BOOLEAN]

ASSUME TabAssumption    == Owner \in [Tabs -> Customers]
ASSUME TrayAssumption   == Tray \in [Customers -> (SUBSET Dishes) \ {{}}]
ASSUME ButtonAssumption == Buttons \in [Tabs -> SUBSET ButtonKinds]
ASSUME PriceAssumption  == ListPrice \in [Customers -> Nat] /\ {Fee, DealOff, CodeOff} \subseteq Nat
                           /\ Shares \subseteq Nat
ASSUME StockAssumption  == Stock \in [Dishes -> Nat] /\ TopUp \in [Customers -> Nat]
ASSUME LimitAssumption  == /\ UseLimit \in [Promotions -> Nat] /\ UseLimits \subseteq Nat
                           /\ Changing \subseteq Promotions /\ Edited \subseteq Dishes
                           /\ PerCustomer \in Nat /\ DailyCap \in Nat
ASSUME OrderAssumption  == IsFiniteSet(Orders) /\ Nobody \notin Tabs \union Orders \union Requests
ASSUME EventAssumption  == Happens \subseteq Events
ASSUME BoundAssumption  == MaxPresses \in [Tabs -> Nat] /\ MaxEdits \in Nat

VARIABLES
  page,      \* each checkout page: the visit, the key held, the offer shown
  request,   \* what each request under way has asked and read
  order,     \* the orders and their items
  stock,     \* stockQuantity of each dish
  promotion, \* used, limit and active of each
  usage,     \* PromotionUsage rows, as pairs of promotion and order
  wallet,    \* balances
  kitchen,   \* accepting or not, and the stock an open edit form shows
  pressed, edits, \* how often pages and the kitchen have acted
  made,      \* history: portions the kitchen says it has put on sale
  overwritten, \* history: dishes saved from a form that was out of date
  highest,   \* history: the highest limit each promotion has had
  renewed    \* history: visits in which the key was given up before an answer of success

kitchenVars == <<kitchen, edits, made, overwritten, highest>>
customerVars == <<page, pressed, renewed>>
rowVars == <<order, stock, promotion, usage, wallet>>
vars == <<customerVars, request, rowVars, kitchenVars>>

NoTotal == -1
NoKey   == 0

NoOffer == [total |-> NoTotal, code |-> FALSE, deliveryKnown |-> FALSE]

(* orderData: expectedTotal is undefined while the total shown lacks delivery. *)
OrderData(offer) ==
  [expectedTotal |-> IF offer.deliveryKnown THEN offer.total ELSE NoTotal, code |-> offer.code]

Fresh == [visit |-> 1, key |-> NoKey, signed |-> OrderData(NoOffer), offer |-> NoOffer,
          waits |-> Nobody]

Idle == [by |-> Nobody, key |-> NoKey, offer |-> NoOffer, visit |-> 0,
         step |-> "idle", deal |-> FALSE, answer |-> Nobody]

NoOrder == [by |-> Nobody, key |-> NoKey, visit |-> 0, total |-> 0, agreed |-> NoOffer,
            live |-> {}, wallet |-> FALSE, refunded |-> 0]

Init ==
  /\ page = [t \in Tabs |-> Fresh]
  /\ request = [r \in Requests |-> Idle]
  /\ order = [o \in Orders |-> NoOrder]
  /\ stock = Stock
  /\ promotion = [p \in Promotions |-> [used |-> 0, limit |-> UseLimit[p], active |-> TRUE]]
  /\ usage = {}
  /\ wallet = TopUp
  /\ kitchen = [open |-> TRUE, form |-> [d \in Dishes |-> NoTotal]]
  /\ pressed = [t \in Tabs |-> 0]
  /\ edits = 0
  /\ made = Stock
  /\ overwritten = {}
  /\ highest = UseLimit
  /\ renewed = {}

-----------------------------------------------------------------------------
(* What is computed from the rows. *)

Placed == {o \in Orders : order[o].by # Nobody}

OrdersOf(u) == {o \in Placed : Owner[order[o].by] = u}

UsesBy(p, u) == {o \in OrdersOf(u) : <<p, o>> \in usage}

Usable(p, u) ==
  /\ promotion[p].active
  /\ promotion[p].used < promotion[p].limit
  /\ Cardinality(UsesBy(p, u)) < PerCustomer

(* The deal by itself when the customer may have it, the code when it was typed; the
   goods never cost less than nothing. *)
GoodsFor(u, deal, code) ==
  LET goods == ListPrice[u] - (IF deal THEN DealOff ELSE 0) - (IF code THEN CodeOff ELSE 0)
  IN  IF goods > 0 THEN goods ELSE 0

(* priceOrder. *)
TotalFor(u, deal, code) == Fee + GoodsFor(u, deal, code)

(* maxDailyOrders is compared with the items of the day, cancelled ones left out. *)
ItemsToday == MapThenSumSet(LAMBDA o : Cardinality(order[o].live), Orders)

(* A key is drawn at random by a page, so it is a page's own. *)
KeyHolder(t, key) == {o \in Placed : order[o].by = t /\ order[o].key = key}

-----------------------------------------------------------------------------
(* The checkout page. *)

(* What the button shows: "pay this", or "this, plus delivery" when the estimate of
   the fee did not come. *)
Offer(u, kind) ==
  LET deal == Usable("deal", u)
  IN  [total |-> IF kind.deliveryKnown THEN TotalFor(u, deal, kind.code)
                                       ELSE GoodsFor(u, deal, kind.code),
       code |-> kind.code, deliveryKnown |-> kind.deliveryKnown]

(* The page is opened or reloaded, or told that prices moved: it works the total
   out again. The key survives a reload. *)
ShowTotal(t, kind) ==
  /\ page[t].waits = Nobody
  /\ page[t].offer # Offer(Owner[t], kind)
  /\ page' = [page EXCEPT ![t].offer = Offer(Owner[t], kind)]
  /\ UNCHANGED <<pressed, renewed, request, rowVars, kitchenVars>>

(* checkoutKeyFor: the key held is for this very order, of which a total that was not
   sent is no part. *)
HoldsKey(t) == page[t].key # NoKey /\ page[t].signed = OrderData(page[t].offer)

NewKey(t) == pressed[t] + 1

Signed(t, r, key) ==
  [page[t] EXCEPT !.key = key, !.signed = OrderData(page[t].offer), !.waits = r]

(* handleCreateOrder: one press at a time, the button waits for its answer. The
   request keeps the whole offer, of which the server is sent OrderData. *)
Press(t, r) ==
  /\ pressed[t] < MaxPresses[t]
  /\ page[t].waits = Nobody /\ page[t].offer # NoOffer
  /\ request[r] = Idle
  /\ LET key == IF HoldsKey(t) THEN page[t].key ELSE NewKey(t)
     IN  /\ page' = [page EXCEPT ![t] = Signed(t, r, key)]
         /\ request' = [request EXCEPT ![r] =
              [Idle EXCEPT !.by = t, !.key = key, !.offer = page[t].offer,
                           !.visit = page[t].visit, !.step = "received"]]
  /\ renewed' = IF page[t].key # NoKey /\ ~HoldsKey(t)
                THEN renewed \union {<<t, page[t].visit>>} ELSE renewed
  /\ pressed' = [pressed EXCEPT ![t] = @ + 1]
  /\ UNCHANGED <<rowVars, kitchenVars>>

(* No answer comes: a timeout or a lost connection. The request goes on. *)
LoseAnswer(t) ==
  /\ "lose" \in Happens
  /\ page[t].waits # Nobody
  /\ page' = [page EXCEPT ![t].waits = Nobody]
  /\ UNCHANGED <<pressed, renewed, request, rowVars, kitchenVars>>

(* ATTEMPT_TTL_MS: after ten minutes the same order is meant as a new one. *)
ExpireKey(t) ==
  /\ "expireKey" \in Happens
  /\ page[t].waits = Nobody /\ page[t].key # NoKey
  /\ \A r \in Requests : request[r].by # t
  /\ page' = [page EXCEPT ![t].key = NoKey, ![t].visit = @ + 1]
  /\ UNCHANGED <<pressed, renewed, request, rowVars, kitchenVars>>

Waits(r) == request[r].by # Nobody /\ page[request[r].by].waits = r

AfterSuccess_KeyKept(t) ==   \* slip: the key is not forgotten with the tray
  [Fresh EXCEPT !.visit = page[t].visit + 1, !.key = page[t].key, !.signed = page[t].signed]

(* The answer of success: the key is forgotten and the tray emptied. *)
AfterSuccess(t) == [Fresh EXCEPT !.visit = page[t].visit + 1]

Settle(r, page1) ==
  /\ page' = IF Waits(r) THEN [page EXCEPT ![request[r].by] = page1] ELSE page
  /\ request' = [request EXCEPT ![r] = Idle]

(* The answer, if the page still waits for it. *)
ReceiveOrder(r) ==
  /\ request[r].step = "answered"
  /\ Settle(r, AfterSuccess(request[r].by))
  /\ UNCHANGED <<pressed, renewed, rowVars, kitchenVars>>

(* A 4xx: attemptMayExist says no, and the key is forgotten. *)
ReceiveRefusal(r) ==
  /\ request[r].step = "refused"
  /\ LET t == request[r].by
     IN  /\ Settle(r, [page[t] EXCEPT !.waits = Nobody, !.key = NoKey])
         /\ renewed' = IF Waits(r) THEN renewed \union {<<t, page[t].visit>>} ELSE renewed
  /\ UNCHANGED <<pressed, rowVars, kitchenVars>>

(* A 5xx before the commit: the key is kept. *)
FailRequest(r) ==
  /\ "fail" \in Happens
  /\ request[r].step \in {"received", "checked", "priced"}
  /\ Settle(r, [page[request[r].by] EXCEPT !.waits = Nobody])
  /\ UNCHANGED <<pressed, renewed, rowVars, kitchenVars>>

-----------------------------------------------------------------------------
(* The request. *)

GoOn(r, step) == request' = [request EXCEPT ![r].step = step]

AnswerWith(r, o) ==
  request' = [request EXCEPT ![r].step = "answered", ![r].answer = o]

(* replay, before anything else is looked at. *)
LookUpKey(r) ==
  /\ request[r].step = "received"
  /\ LET found == KeyHolder(request[r].by, request[r].key)
     IN  IF found = {} THEN GoOn(r, "checked")
         ELSE \E o \in found : AnswerWith(r, o)
  /\ UNCHANGED <<customerVars, rowVars, kitchenVars>>

MayOrder(u, code) ==
  /\ kitchen.open
  /\ \A d \in Tray[u] : stock[d] > 0
  /\ ItemsToday < DailyCap
  /\ code => Usable("code", u)

ReadAndPrice_AnyTotal(r) ==   \* slip: a total that was sent is not compared
  /\ request[r].step = "checked"
  /\ LET u == Owner[request[r].by]
     IN  IF MayOrder(u, request[r].offer.code)
         THEN request' = [request EXCEPT ![r].step = "priced", ![r].deal = Usable("deal", u)]
         ELSE GoOn(r, "refused")
  /\ UNCHANGED <<customerVars, rowVars, kitchenVars>>

(* A total that came with the order must be the one worked out now; an order without
   one is placed at whatever that is. *)
QuotedTotalProblem(expectedTotal, total) == expectedTotal # NoTotal /\ expectedTotal # total

(* All the reads between the key and the transaction, as one: the kitchen and its
   daily limit, the dishes, deals and code, and the total against the one sent. *)
ReadAndPrice(r) ==
  /\ request[r].step = "checked"
  /\ LET u == Owner[request[r].by]
         deal == Usable("deal", u)
         sent == OrderData(request[r].offer)
     IN  IF /\ MayOrder(u, sent.code)
            /\ ~QuotedTotalProblem(sent.expectedTotal, TotalFor(u, deal, sent.code))
         THEN request' = [request EXCEPT ![r].step = "priced", ![r].deal = deal]
         ELSE GoOn(r, "refused")
  /\ UNCHANGED <<customerVars, rowVars, kitchenVars>>

Applied(r) == (IF request[r].deal THEN {"deal"} ELSE {})
                \union (IF request[r].offer.code THEN {"code"} ELSE {})

StockLeft_Read(r) == TRUE   \* slip: the portions seen are taken to be there still

StockLeft(r) == \A d \in Tray[Owner[request[r].by]] : stock[d] > 0

(* The total limit of each promotion, and the customer's uses of the code; not
   theirs of the deal. *)
UsesLeft(r) ==
  \A p \in Applied(r) :
    /\ promotion[p].used < promotion[p].limit
    /\ p = "code" => Cardinality(UsesBy(p, Owner[request[r].by])) < PerCustomer

MoneyLeft_Read(r) == TRUE   \* slip: the balance is not a condition of the debit

(* totalAmount. *)
Charge(r) == TotalFor(Owner[request[r].by], request[r].deal, request[r].offer.code)

MoneyLeft(r) ==
  LET u == Owner[request[r].by]
  IN  u \in ByWallet => wallet[u] >= Charge(r)

(* What the transaction looks at again. *)
MayCommit(r) == StockLeft(r) /\ UsesLeft(r) /\ MoneyLeft(r)

OrderOf(r) ==
  LET u == Owner[request[r].by]
  IN  [by |-> request[r].by, key |-> request[r].key, visit |-> request[r].visit,
       total |-> Charge(r), agreed |-> request[r].offer,
       live |-> Tray[u], wallet |-> u \in ByWallet, refunded |-> 0]

WriteOrder(r, o) ==
  LET u == Owner[request[r].by]
  IN  /\ order' = [order EXCEPT ![o] = OrderOf(r)]
      /\ stock' = [d \in Dishes |-> IF d \in Tray[u] THEN stock[d] - 1 ELSE stock[d]]
      /\ promotion' = [p \in Promotions |->
           IF p \in Applied(r) THEN [promotion[p] EXCEPT !.used = @ + 1] ELSE promotion[p]]
      /\ usage' = usage \union (Applied(r) \X {o})
      /\ wallet' = IF u \in ByWallet
                   THEN [wallet EXCEPT ![u] = @ - Charge(r)] ELSE wallet

Commit_Twice(r) ==   \* slip: the key is not unique
  /\ request[r].step = "priced"
  /\ \/ /\ MayCommit(r)
        /\ \E o \in Orders \ Placed : WriteOrder(r, o) /\ AnswerWith(r, o)
     \/ /\ ~MayCommit(r)
        /\ GoOn(r, "refused")
        /\ UNCHANGED rowVars
  /\ UNCHANGED <<customerVars, kitchenVars>>

(* placeOrder: the insert meets the unique key first, and then the order placed
   meanwhile is the answer. *)
Commit(r) ==
  /\ request[r].step = "priced"
  /\ \/ /\ \E o \in KeyHolder(request[r].by, request[r].key) : AnswerWith(r, o)
        /\ UNCHANGED rowVars
     \/ /\ KeyHolder(request[r].by, request[r].key) = {}
        /\ MayCommit(r)
        /\ \E o \in Orders \ Placed : WriteOrder(r, o) /\ AnswerWith(r, o)
     \/ /\ KeyHolder(request[r].by, request[r].key) = {}
        /\ ~MayCommit(r)
        /\ GoOn(r, "refused")
        /\ UNCHANGED rowVars
  /\ UNCHANGED <<customerVars, kitchenVars>>

(* The hub is short of the dish (HubStock), or the wallet is locked. *)
RollBack(r) ==
  /\ request[r].step = "priced"
  /\ KeyHolder(request[r].by, request[r].key) = {}
  /\ GoOn(r, "refused")
  /\ UNCHANGED <<customerVars, rowVars, kitchenVars>>

-----------------------------------------------------------------------------
(* Cancels. How far an order may be for each is OrderLifecycle's subject. *)

Restock(S) == stock' = [d \in Dishes |-> IF d \in S THEN stock[d] + 1 ELSE stock[d]]

UsedBy(o) == {p \in Promotions : <<p, o>> \in usage}

ReleaseUsage_Kept(o) ==   \* slip: the count goes down, the rows stay
  /\ promotion' = [p \in Promotions |->
       IF p \in UsedBy(o) THEN [promotion[p] EXCEPT !.used = @ - 1] ELSE promotion[p]]
  /\ UNCHANGED usage

(* releasePromotionUsage. *)
ReleaseUsage(o) ==
  /\ usage' = usage \ (Promotions \X {o})
  /\ promotion' = [p \in Promotions |->
       IF p \in UsedBy(o) /\ promotion[p].used >= 1
       THEN [promotion[p] EXCEPT !.used = @ - 1] ELSE promotion[p]]

(* issueRefund: what an order paid from the wallet is owed goes back at once. *)
Refund(o, live, amount) ==
  /\ order' = [order EXCEPT ![o].live = live, ![o].refunded = @ + amount]
  /\ wallet' = [wallet EXCEPT ![Owner[order[o].by]] = @ + amount]

Owed(o) == IF order[o].wallet THEN order[o].total - order[o].refunded ELSE 0

CancelOrder_All(o) ==   \* slip: items cancelled before are restocked again
  /\ "cancel" \in Happens
  /\ order[o].live # {}
  /\ Restock(Tray[Owner[order[o].by]])
  /\ Refund(o, {}, Owed(o))
  /\ ReleaseUsage(o)
  /\ UNCHANGED <<customerVars, request, kitchenVars>>

CancelOrder(o) ==
  /\ "cancel" \in Happens
  /\ order[o].live # {}
  /\ Restock(order[o].live)
  /\ Refund(o, {}, Owed(o))
  /\ ReleaseUsage(o)
  /\ UNCHANGED <<customerVars, request, kitchenVars>>

(* The kitchen cancels one item of several: its share is refunded, and what the
   share comes to is OrderMoney's subject. *)
CancelDish(o, d) ==
  /\ "cancelDish" \in Happens
  /\ d \in order[o].live /\ order[o].live # {d}
  /\ Restock({d})
  /\ \E share \in Shares : share <= Owed(o) /\ Refund(o, order[o].live \ {d}, share)
  /\ UNCHANGED <<customerVars, request, promotion, usage, kitchenVars>>

-----------------------------------------------------------------------------
(* The kitchen. *)

Edit(event) ==
  /\ event \in Happens /\ edits < MaxEdits
  /\ edits' = edits + 1
  /\ UNCHANGED <<customerVars, request, order, usage, wallet>>

(* The edit form is filled with the stock of the moment. *)
OpenForm(d) ==
  /\ Edit("edit")
  /\ kitchen.form[d] = NoTotal
  /\ kitchen' = [kitchen EXCEPT !.form[d] = stock[d]]
  /\ UNCHANGED <<stock, promotion, made, overwritten, highest>>

(* updateProduct writes the number in the form, here one portion more than it
   showed, whatever was sold since. *)
SaveForm(d) ==
  /\ "edit" \in Happens
  /\ kitchen.form[d] # NoTotal
  /\ stock' = [stock EXCEPT ![d] = kitchen.form[d] + 1]
  /\ made' = [made EXCEPT ![d] = @ + 1]
  /\ overwritten' = IF kitchen.form[d] = stock[d] THEN overwritten
                    ELSE overwritten \union {d}
  /\ kitchen' = [kitchen EXCEPT !.form[d] = NoTotal]
  /\ UNCHANGED <<customerVars, request, order, promotion, usage, wallet, edits, highest>>

OpenOrClose ==
  /\ Edit("close")
  /\ kitchen' = [kitchen EXCEPT !.open = ~@]
  /\ UNCHANGED <<stock, promotion, made, overwritten, highest>>

(* updateForSeller: switched on or off, or given another limit. *)
SwitchPromotion(p) ==
  /\ Edit("limit")
  /\ promotion' = [promotion EXCEPT ![p].active = ~@]
  /\ UNCHANGED <<stock, kitchen, made, overwritten, highest>>

SetLimit(p, limit) ==
  /\ Edit("limit")
  /\ promotion' = [promotion EXCEPT ![p].limit = limit]
  /\ highest' = [highest EXCEPT ![p] = IF limit > @ THEN limit ELSE @]
  /\ UNCHANGED <<stock, kitchen, made, overwritten>>

-----------------------------------------------------------------------------
Next ==
  \/ \E t \in Tabs : LoseAnswer(t) \/ ExpireKey(t) \/ \E kind \in Buttons[t] : ShowTotal(t, kind)
  \/ \E t \in Tabs, r \in Requests : Press(t, r)
  \/ \E r \in Requests :
       \/ LookUpKey(r) \/ ReadAndPrice(r) \/ Commit(r) \/ RollBack(r)
       \/ ReceiveOrder(r) \/ ReceiveRefusal(r) \/ FailRequest(r)
  \/ \E o \in Orders : CancelOrder(o)
  \/ \E o \in Orders, d \in Dishes : CancelDish(o, d)
  \/ \E d \in Edited : OpenForm(d) \/ SaveForm(d)
  \/ OpenOrClose
  \/ \E p \in Changing : SwitchPromotion(p) \/ \E limit \in UseLimits : SetLimit(p, limit)

Spec == Init /\ [][Next]_vars
=============================================================================
