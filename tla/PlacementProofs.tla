---------------------------- MODULE PlacementProofs ----------------------------
(* What PlacementProperties says of placing an order, proved for any customers,
   pages, dishes, orders and limits. *)
EXTENDS PlacementProperties, Sums

(* What the typing needs of prices, offers and what is sent of them. *)
LEMMA GoodsAreNat ==
  ASSUME NEW u \in Customers, NEW deal, NEW code
  PROVE  GoodsFor(u, deal, code) \in Nat
<1> DEFINE goods == ListPrice[u] - (IF deal THEN DealOff ELSE 0) - (IF code THEN CodeOff ELSE 0)
<1>1. goods \in Int
  BY PriceAssumption
<1>2. GoodsFor(u, deal, code) = IF goods > 0 THEN goods ELSE 0
  BY DEF GoodsFor
<1> HIDE DEF goods
<1> QED BY <1>1, <1>2

LEMMA ChargeIsNat ==
  ASSUME NEW u \in Customers, NEW deal, NEW code
  PROVE  TotalFor(u, deal, code) \in Nat
BY GoodsAreNat, PriceAssumption DEF TotalFor

LEMMA OfferIsTyped ==
  ASSUME NEW u \in Customers, NEW kind \in ButtonKinds
  PROVE  Offer(u, kind) \in Offers
<1> DEFINE deal == Usable("deal", u)
<1>1. deal \in BOOLEAN /\ kind.code \in BOOLEAN /\ kind.deliveryKnown \in BOOLEAN
  BY DEF Usable, ButtonKinds
<1>2. TotalFor(u, deal, kind.code) \in Nat /\ GoodsFor(u, deal, kind.code) \in Nat
  BY ChargeIsNat, GoodsAreNat
<1> HIDE DEF deal
<1> QED BY <1>1, <1>2 DEF Offers, Offer, deal

LEMMA OfferFields ==
  ASSUME NEW offer \in Offers
  PROVE  /\ offer.code \in BOOLEAN
         /\ offer.deliveryKnown => offer.total \in Nat
<1>1. CASE offer = NoOffer
  <2>1. offer.code = FALSE /\ offer.deliveryKnown = FALSE
    BY <1>1 DEF NoOffer
  <2> QED BY <2>1
<1>2. CASE offer \in [total: Nat, code: BOOLEAN, deliveryKnown: BOOLEAN]
  BY <1>2
<1> QED BY <1>1, <1>2 DEF Offers

LEMMA OrderDataIsTyped ==
  ASSUME NEW offer \in Offers
  PROVE  OrderData(offer) \in Signatures
<1>1. /\ offer.code \in BOOLEAN
      /\ offer.deliveryKnown => offer.total \in Nat
  BY OfferFields
<1> DEFINE expected == IF offer.deliveryKnown THEN offer.total ELSE NoTotal
<1>2. expected \in Nat \union {NoTotal}
  BY <1>1
<1>3. OrderData(offer) = [expectedTotal |-> expected, code |-> offer.code]
  BY DEF OrderData
<1> HIDE DEF expected
<1> QED BY <1>1, <1>2, <1>3 DEF Signatures

LEMMA FreshIsTyped == Fresh \in Pages /\ Idle \in RequestRows /\ NoOrder \in OrderRows
<1>1. NoOffer \in Offers
  BY DEF Offers
<1> QED
  BY <1>1, OrderDataIsTyped
  DEF Fresh, Pages, NoKey, Idle, RequestRows, Steps, NoOrder, OrderRows

LEMMA InitIsTyped == Init => TypeOK
<1> SUFFICES ASSUME Init PROVE TypeOK
  OBVIOUS
<1> USE DEF Init, TypeOK
<1>1. page \in [Tabs -> Pages] /\ request \in [Requests -> RequestRows]
      /\ order \in [Orders -> OrderRows]
  BY FreshIsTyped
<1>2. \A r \in Requests : request[r].by = Nobody <=> request[r].step = "idle"
  BY DEF Idle
<1>3. \A o \in Orders : order[o].live # {} => order[o].by # Nobody
  BY DEF NoOrder
<1>4. promotion \in [Promotions -> [used: Nat, limit: Nat, active: BOOLEAN]]
      /\ highest \in [Promotions -> Nat]
  BY LimitAssumption
<1>5. stock \in [Dishes -> Nat] /\ made \in [Dishes -> Nat]
      /\ wallet \in [Customers -> Int]
  BY StockAssumption
<1> QED
  BY <1>1, <1>2, <1>3, <1>4, <1>5 DEF NoTotal

(* What the steps of a page and of a request leave as it was. *)
LEMMA PageStepIsTyped ==
  ASSUME TypeOK, NEW t \in Tabs,
         LoseAnswer(t) \/ ExpireKey(t) \/ \E kind \in Buttons[t] : ShowTotal(t, kind)
  PROVE  TypeOK'
<1> USE DEF TypeOK
<1>0. page[t] \in Pages
  OBVIOUS
<1>1. page' \in [Tabs -> Pages]
  <2>1. CASE LoseAnswer(t)
    <3>1. [page[t] EXCEPT !.waits = Nobody] \in Pages
      BY <1>0 DEF Pages
    <3> QED BY <2>1, <3>1 DEF LoseAnswer
  <2>2. CASE ExpireKey(t)
    <3>0. NoKey \in Nat /\ page[t].visit + 1 \in Nat
      BY <1>0 DEF Pages, NoKey
    <3>1. [page[t] EXCEPT !.key = NoKey, !.visit = @ + 1] \in Pages
      BY <1>0, <3>0 DEF Pages
    <3> QED BY <2>2, <3>1 DEF ExpireKey
  <2>3. CASE \E kind \in Buttons[t] : ShowTotal(t, kind)
    <3>1. PICK kind \in Buttons[t] : ShowTotal(t, kind)
      BY <2>3
    <3>2. kind \in ButtonKinds /\ Owner[t] \in Customers
      BY ButtonAssumption, TabAssumption
    <3>3. [page[t] EXCEPT !.offer = Offer(Owner[t], kind)] \in Pages
      BY <1>0, <3>2, OfferIsTyped DEF Pages
    <3> QED BY <3>1, <3>3 DEF ShowTotal
  <2> QED BY <2>1, <2>2, <2>3
<1> QED
  BY <1>1 DEF LoseAnswer, ExpireKey, ShowTotal, rowVars, kitchenVars

LEMMA PressIsTyped ==
  ASSUME TypeOK, NEW t \in Tabs, NEW r \in Requests, Press(t, r)
  PROVE  TypeOK'
<1> USE DEF TypeOK
<1> DEFINE key == IF HoldsKey(t) THEN page[t].key ELSE NewKey(t)
           asked == [Idle EXCEPT !.by = t, !.key = key, !.offer = page[t].offer,
                                 !.visit = page[t].visit, !.step = "received"]
<1>1. page[t] \in Pages /\ pressed[t] + 1 \in Nat
  OBVIOUS
<1>2. key \in Nat
  BY <1>1 DEF Pages, NewKey
<1>3. Signed(t, r, key) \in Pages
  <2>1. OrderData(page[t].offer) \in Signatures
    BY <1>1, OrderDataIsTyped DEF Pages
  <2> HIDE DEF key
  <2> QED BY <1>1, <1>2, <2>1 DEF Pages, Signed
<1>4. page' \in [Tabs -> Pages]
  BY <1>3 DEF Press
<1>5. asked \in RequestRows /\ asked.by = t /\ asked.step = "received"
  <2> HIDE DEF key
  <2>1. /\ page[t].offer \in Offers /\ page[t].visit \in Nat
        /\ Idle.deal \in BOOLEAN /\ Idle.answer = Nobody
    BY <1>1 DEF Pages, Idle
  <2> QED BY <2>1, <1>2 DEF RequestRows, Steps, Idle
<1>6. request' = [request EXCEPT ![r] = asked]
  BY DEF Press
<1>7. request' \in [Requests -> RequestRows]
  BY <1>5, <1>6
<1>8. \A q \in Requests : request'[q].by = Nobody <=> request'[q].step = "idle"
  BY <1>5, <1>6, OrderAssumption
<1>9. renewed' \subseteq Tabs \X Nat /\ pressed' \in [Tabs -> Nat]
  BY <1>1 DEF Press, Pages
<1> QED
  BY <1>4, <1>7, <1>8, <1>9 DEF Press, rowVars, kitchenVars

LEMMA SettleIsTyped ==
  ASSUME TypeOK, NEW r \in Requests, request[r].by # Nobody,
         NEW page1 \in Pages, Settle(r, page1)
  PROVE  /\ page' \in [Tabs -> Pages]
         /\ request' \in [Requests -> RequestRows]
         /\ \A q \in Requests : request'[q].by = Nobody <=> request'[q].step = "idle"
<1>1. request[r].by \in Tabs
  BY DEF TypeOK, RequestRows
<1>2. Idle.by = Nobody /\ Idle.step = "idle"
  BY DEF Idle
<1> QED
  BY <1>1, <1>2, FreshIsTyped DEF TypeOK, Settle

LEMMA AnswersAreTyped ==
  ASSUME TypeOK, NEW r \in Requests,
         ReceiveOrder(r) \/ ReceiveRefusal(r) \/ FailRequest(r)
  PROVE  TypeOK'
<1> DEFINE t == request[r].by
<1>1. t \in Tabs /\ t # Nobody
  BY DEF TypeOK, RequestRows, ReceiveOrder, ReceiveRefusal, FailRequest
<1>2. page[t] \in Pages
  BY <1>1 DEF TypeOK
<1>3. CASE ReceiveOrder(r)
  <2>1. AfterSuccess(t) \in Pages
    <3>1. page[t].visit + 1 \in Nat
      BY <1>2 DEF Pages
    <3> QED BY <3>1, FreshIsTyped DEF AfterSuccess, Pages
  <2> QED
    BY <1>1, <1>3, <2>1, SettleIsTyped DEF ReceiveOrder, TypeOK, rowVars, kitchenVars
<1>4. CASE ReceiveRefusal(r)
  <2>1. [page[t] EXCEPT !.waits = Nobody, !.key = NoKey] \in Pages
    BY <1>2 DEF Pages, NoKey
  <2>2. renewed' \subseteq Tabs \X Nat
    BY <1>1, <1>2, <1>4 DEF ReceiveRefusal, TypeOK, Pages
  <2> QED
    BY <1>1, <1>4, <2>1, <2>2, SettleIsTyped
    DEF ReceiveRefusal, TypeOK, rowVars, kitchenVars
<1>5. CASE FailRequest(r)
  <2>1. [page[t] EXCEPT !.waits = Nobody] \in Pages
    BY <1>2 DEF Pages
  <2> QED
    BY <1>1, <1>5, <2>1, SettleIsTyped DEF FailRequest, TypeOK, rowVars, kitchenVars
<1> QED
  BY <1>3, <1>4, <1>5

(* A request that goes on, or is answered, stays its page's. *)
LEMMA StepOnly ==
  ASSUME TypeOK, NEW r \in Requests, request[r].step # "idle",
         \/ \E step \in Steps \ {"idle"} : GoOn(r, step)
         \/ \E o \in Orders : AnswerWith(r, o)
  PROVE  /\ request' \in [Requests -> RequestRows]
         /\ \A q \in Requests : request'[q].by = Nobody <=> request'[q].step = "idle"
<1>1. request[r] \in RequestRows /\ request[r].by # Nobody
  BY DEF TypeOK
<1>2. CASE \E step \in Steps \ {"idle"} : GoOn(r, step)
  <2>1. PICK step \in Steps \ {"idle"} : GoOn(r, step)
    BY <1>2
  <2> DEFINE row == [request[r] EXCEPT !.step = step]
  <2>2. row \in RequestRows /\ row.by = request[r].by /\ row.step = step
    BY <1>1 DEF RequestRows
  <2> QED BY <1>1, <2>1, <2>2 DEF TypeOK, GoOn
<1>3. CASE \E o \in Orders : AnswerWith(r, o)
  <2>1. PICK o \in Orders : AnswerWith(r, o)
    BY <1>3
  <2> DEFINE row == [request[r] EXCEPT !.step = "answered", !.answer = o]
  <2>2. row \in RequestRows /\ row.by = request[r].by /\ row.step = "answered"
    BY <1>1 DEF RequestRows, Steps
  <2> QED BY <1>1, <2>1, <2>2 DEF TypeOK, AnswerWith
<1> QED
  BY <1>2, <1>3

LEMMA ReadsAreTyped ==
  ASSUME TypeOK, NEW r \in Requests, LookUpKey(r) \/ ReadAndPrice(r) \/ RollBack(r)
  PROVE  TypeOK'
<1>1. CASE LookUpKey(r)
  <2>1. request[r].step # "idle" /\ (GoOn(r, "checked") \/ \E o \in Orders : AnswerWith(r, o))
    BY <1>1 DEF LookUpKey, KeyHolder, Placed
  <2> QED
    BY <1>1, <2>1, StepOnly DEF LookUpKey, TypeOK, customerVars, rowVars, kitchenVars, Steps
<1>2. CASE ReadAndPrice(r)
  <2> DEFINE deal == Usable("deal", Owner[request[r].by])
             row == [request[r] EXCEPT !.step = "priced", !.deal = deal]
  <2>1. CASE GoOn(r, "refused")
    BY <1>2, <2>1, StepOnly
    DEF ReadAndPrice, TypeOK, customerVars, rowVars, kitchenVars, Steps
  <2>2. CASE request' = [request EXCEPT ![r].step = "priced", ![r].deal = deal]
    <3>1. request[r] \in RequestRows /\ request[r].by # Nobody
      BY <1>2 DEF TypeOK, ReadAndPrice
    <3>2. deal \in BOOLEAN
      BY DEF Usable, Promotions, TypeOK
    <3>3. row \in RequestRows /\ row.by = request[r].by /\ row.step = "priced"
      BY <3>1, <3>2 DEF RequestRows, Steps
    <3>4. request' = [request EXCEPT ![r] = row]
      BY <2>2
    <3> QED
      BY <1>2, <3>1, <3>3, <3>4 DEF ReadAndPrice, TypeOK, customerVars, rowVars, kitchenVars
  <2> QED BY <1>2, <2>1, <2>2 DEF ReadAndPrice
<1>3. CASE RollBack(r)
  BY <1>3, StepOnly DEF RollBack, TypeOK, customerVars, rowVars, kitchenVars, Steps
<1> QED
  BY <1>1, <1>2, <1>3

LEMMA CommitIsTyped ==
  ASSUME TypeOK, NEW r \in Requests, Commit(r)
  PROVE  TypeOK'
<1> DEFINE t == request[r].by
           u == Owner[t]
<1>1. request[r] \in RequestRows /\ t \in Tabs /\ t # Nobody /\ u \in Customers
  BY TabAssumption DEF Commit, TypeOK, RequestRows
<1>2. CASE UNCHANGED rowVars
  <2>1. GoOn(r, "refused") \/ \E o \in Orders : AnswerWith(r, o)
    BY <1>2 DEF Commit, KeyHolder, Placed
  <2> QED
    BY <1>2, <2>1, StepOnly DEF Commit, TypeOK, customerVars, rowVars, kitchenVars, Steps
<1>3. ASSUME NEW o \in Orders, MayCommit(r), WriteOrder(r, o), AnswerWith(r, o)
      PROVE  TypeOK'
  <2>1. OrderOf(r) \in OrderRows /\ OrderOf(r).by = t
    <3>1. request[r].offer \in Offers /\ request[r].deal \in BOOLEAN
      BY <1>1 DEF RequestRows
    <3>2. Charge(r) \in Int
      BY <1>1, ChargeIsNat DEF Charge
    <3>3. Tray[u] \in SUBSET Dishes /\ (u \in ByWallet) \in BOOLEAN
      BY <1>1, TrayAssumption
    <3> QED BY <1>1, <3>1, <3>2, <3>3 DEF OrderOf, OrderRows, RequestRows
  <2>2. order' \in [Orders -> OrderRows]
    BY <1>3, <2>1 DEF WriteOrder, TypeOK
  <2>3. \A p \in Orders : order'[p].live # {} => order'[p].by # Nobody
    BY <1>1, <1>3, <2>1 DEF WriteOrder, TypeOK
  <2>4. stock' \in [Dishes -> Nat]
    <3>1. \A d \in Dishes : d \in Tray[u] => stock[d] - 1 \in Nat
      BY <1>3 DEF MayCommit, StockLeft, TypeOK
    <3> QED BY <1>3, <3>1 DEF WriteOrder, TypeOK
  <2>5. promotion' \in [Promotions -> [used: Nat, limit: Nat, active: BOOLEAN]]
    <3>1. \A p \in Promotions :
            [promotion[p] EXCEPT !.used = @ + 1] \in [used: Nat, limit: Nat, active: BOOLEAN]
      BY DEF TypeOK
    <3> QED BY <1>3, <3>1 DEF WriteOrder, TypeOK
  <2>6. usage' \subseteq Promotions \X Orders
    BY <1>3 DEF WriteOrder, TypeOK, Applied, Promotions
  <2>7. wallet' \in [Customers -> Int]
    <3>1. Charge(r) \in Int
      BY <1>1, ChargeIsNat DEF Charge
    <3> QED BY <1>1, <1>3, <3>1 DEF WriteOrder, TypeOK
  <2>8. /\ request' \in [Requests -> RequestRows]
        /\ \A q \in Requests : request'[q].by = Nobody <=> request'[q].step = "idle"
    BY <1>3, StepOnly DEF Commit
  <2> QED
    BY <2>2, <2>3, <2>4, <2>5, <2>6, <2>7, <2>8 DEF Commit, TypeOK, customerVars, kitchenVars
<1>4. \/ UNCHANGED rowVars
      \/ MayCommit(r) /\ \E o \in Orders : WriteOrder(r, o) /\ AnswerWith(r, o)
  BY DEF Commit
<1> QED
  BY <1>2, <1>3, <1>4

LEMMA RefundIsTyped ==
  ASSUME TypeOK, NEW o \in Orders, order[o].live # {}, NEW live \in SUBSET order[o].live,
         NEW amount \in Int, Refund(o, live, amount)
  PROVE  /\ order' \in [Orders -> OrderRows]
         /\ \A p \in Orders : order'[p].live # {} => order'[p].by # Nobody
         /\ wallet' \in [Customers -> Int]
<1>1. order[o] \in OrderRows /\ order[o].by \in Tabs /\ Owner[order[o].by] \in Customers
  BY TabAssumption DEF TypeOK, OrderRows
<1> DEFINE row == [order[o] EXCEPT !.live = live, !.refunded = @ + amount]
<1>2. row \in OrderRows /\ row.by = order[o].by
  <2>1. order[o].refunded + amount \in Int /\ live \in SUBSET Dishes
    BY <1>1 DEF OrderRows
  <2> QED BY <1>1, <2>1 DEF OrderRows
<1>3. order' = [order EXCEPT ![o] = row]
  BY DEF Refund
<1>4. wallet[Owner[order[o].by]] + amount \in Int
  BY <1>1 DEF TypeOK
<1> QED
  BY <1>1, <1>2, <1>3, <1>4 DEF TypeOK, Refund

LEMMA OwedIsInteger ==
  ASSUME TypeOK, NEW o \in Orders
  PROVE  Owed(o) \in Int
BY DEF TypeOK, Owed, OrderRows

LEMMA CancelIsTyped ==
  ASSUME TypeOK, NEW o \in Orders, CancelOrder(o) \/ \E d \in Dishes : CancelDish(o, d)
  PROVE  TypeOK'
<1>1. ASSUME NEW S, Restock(S) PROVE stock' \in [Dishes -> Nat]
  BY <1>1 DEF Restock, TypeOK
<1>2. CASE CancelOrder(o)
  <2>1. /\ order' \in [Orders -> OrderRows]
        /\ \A p \in Orders : order'[p].live # {} => order'[p].by # Nobody
        /\ wallet' \in [Customers -> Int]
    BY <1>2, RefundIsTyped, OwedIsInteger DEF CancelOrder
  <2>2. usage' \subseteq Promotions \X Orders
    BY <1>2 DEF CancelOrder, ReleaseUsage, TypeOK
  <2>3. promotion' \in [Promotions -> [used: Nat, limit: Nat, active: BOOLEAN]]
    <3>1. \A p \in Promotions : promotion[p].used >= 1 =>
            [promotion[p] EXCEPT !.used = @ - 1] \in [used: Nat, limit: Nat, active: BOOLEAN]
      BY DEF TypeOK
    <3> QED BY <1>2, <3>1 DEF CancelOrder, ReleaseUsage, TypeOK
  <2>4. stock' \in [Dishes -> Nat]
    BY <1>1, <1>2 DEF CancelOrder
  <2> QED
    BY <1>2, <2>1, <2>2, <2>3, <2>4 DEF CancelOrder, TypeOK, customerVars, kitchenVars
<1>3. CASE \E d \in Dishes : CancelDish(o, d)
  <2>1. PICK d \in Dishes : CancelDish(o, d)
    BY <1>3
  <2>2. PICK share \in Shares : Refund(o, order[o].live \ {d}, share)
    BY <2>1 DEF CancelDish
  <2>3. share \in Int /\ order[o].live # {} /\ order[o].live \ {d} \in SUBSET order[o].live
    BY <2>1, PriceAssumption DEF CancelDish
  <2>4. /\ order' \in [Orders -> OrderRows]
        /\ \A p \in Orders : order'[p].live # {} => order'[p].by # Nobody
        /\ wallet' \in [Customers -> Int]
    BY <2>2, <2>3, RefundIsTyped
  <2>5. stock' \in [Dishes -> Nat]
    BY <1>1, <2>1 DEF CancelDish
  <2> QED
    BY <2>1, <2>4, <2>5 DEF CancelDish, TypeOK, customerVars, kitchenVars
<1> QED
  BY <1>2, <1>3

LEMMA KitchenIsTyped ==
  ASSUME TypeOK,
         \/ \E d \in Edited : OpenForm(d) \/ SaveForm(d)
         \/ OpenOrClose
         \/ \E p \in Changing : SwitchPromotion(p) \/ \E limit \in UseLimits : SetLimit(p, limit)
  PROVE  TypeOK'
<1>0. /\ kitchen \in [open: BOOLEAN, form: [Dishes -> Nat \union {NoTotal}]]
      /\ Edited \subseteq Dishes /\ Changing \subseteq Promotions /\ UseLimits \subseteq Nat
  BY LimitAssumption DEF TypeOK
<1>1. ASSUME NEW d \in Edited, OpenForm(d) PROVE TypeOK'
  <2>1. [kitchen EXCEPT !.form[d] = stock[d]]
          \in [open: BOOLEAN, form: [Dishes -> Nat \union {NoTotal}]]
    <3>1. [kitchen.form EXCEPT ![d] = stock[d]] \in [Dishes -> Nat \union {NoTotal}]
      BY <1>0 DEF TypeOK
    <3> QED BY <1>0, <3>1
  <2> QED BY <1>1, <2>1 DEF OpenForm, Edit, TypeOK, customerVars
<1>2. ASSUME NEW d \in Edited, SaveForm(d) PROVE TypeOK'
  <2>1. [kitchen EXCEPT !.form[d] = NoTotal]
          \in [open: BOOLEAN, form: [Dishes -> Nat \union {NoTotal}]]
    <3>1. [kitchen.form EXCEPT ![d] = NoTotal] \in [Dishes -> Nat \union {NoTotal}]
      BY <1>0
    <3> QED BY <1>0, <3>1
  <2>2. kitchen.form[d] \in Nat
    BY <1>0, <1>2 DEF SaveForm
  <2>3. stock' \in [Dishes -> Nat] /\ made' \in [Dishes -> Nat]
    BY <1>0, <1>2, <2>2 DEF SaveForm, TypeOK
  <2>4. overwritten' \subseteq Dishes
    BY <1>0, <1>2 DEF SaveForm, TypeOK
  <2> QED BY <1>2, <2>1, <2>3, <2>4 DEF SaveForm, TypeOK, customerVars
<1>3. CASE OpenOrClose
  <2>1. [kitchen EXCEPT !.open = ~@] \in [open: BOOLEAN, form: [Dishes -> Nat \union {NoTotal}]]
    BY <1>0
  <2> QED BY <1>3, <2>1 DEF OpenOrClose, Edit, TypeOK, customerVars
<1>4. ASSUME NEW p \in Changing, SwitchPromotion(p) PROVE TypeOK'
  <2>1. [promotion[p] EXCEPT !.active = ~@] \in [used: Nat, limit: Nat, active: BOOLEAN]
    BY <1>0 DEF TypeOK
  <2> QED BY <1>0, <1>4, <2>1 DEF SwitchPromotion, Edit, TypeOK, customerVars
<1>5. ASSUME NEW p \in Changing, NEW limit \in UseLimits, SetLimit(p, limit) PROVE TypeOK'
  <2>1. [promotion[p] EXCEPT !.limit = limit] \in [used: Nat, limit: Nat, active: BOOLEAN]
    BY <1>0 DEF TypeOK
  <2>2. highest' \in [Promotions -> Nat]
    BY <1>0, <1>5 DEF SetLimit, TypeOK
  <2> QED BY <1>0, <1>5, <2>1, <2>2 DEF SetLimit, Edit, TypeOK, customerVars
<1> QED
  BY <1>1, <1>2, <1>3, <1>4, <1>5

LEMMA NextKeepsTypes == ASSUME TypeOK, Next PROVE TypeOK'
BY PageStepIsTyped, PressIsTyped, AnswersAreTyped, ReadsAreTyped, CommitIsTyped,
   CancelIsTyped, KitchenIsTyped DEF Next

LEMMA StutterKeepsTypes == ASSUME TypeOK, UNCHANGED vars PROVE TypeOK'
BY DEF TypeOK, vars, customerVars, rowVars, kitchenVars

(* Stock never goes below nothing, and the rows of pages, requests and orders stay
   what their handlers take them to be. *)
THEOREM Typing == Spec => []TypeOK
<1>1. TypeOK /\ [Next]_vars => TypeOK'
  BY NextKeepsTypes, StutterKeepsTypes
<1> QED
  BY <1>1, InitIsTyped, PTL DEF Spec

-----------------------------------------------------------------------------
(* Portions. Orders are counted, so the counts below need only know how one order's
   joining or leaving a set changes its size. *)

LEMMA CountAdds ==
  ASSUME NEW S \in SUBSET Orders, NEW o \in Orders, o \notin S
  PROVE  /\ Cardinality(S) \in Nat
         /\ Cardinality(S \union {o}) = Cardinality(S) + 1
BY OrderAssumption, FS_Subset, FS_CardinalityType, FS_AddElement

LEMMA CountDrops ==
  ASSUME NEW S \in SUBSET Orders, NEW o \in S
  PROVE  /\ Cardinality(S) \in Nat \ {0}
         /\ Cardinality(S \ {o}) = Cardinality(S) - 1
<1>1. IsFiniteSet(S) /\ Cardinality(S) \in Nat
  BY OrderAssumption, FS_Subset, FS_CardinalityType
<1>2. Cardinality(S \ {o}) = Cardinality(S) - 1
  BY <1>1, FS_RemoveElement
<1>3. IsFiniteSet(S \ {o}) /\ Cardinality(S \ {o}) \in Nat
  BY <1>1, FS_Subset, FS_CardinalityType
<1> QED
  BY <1>1, <1>2, <1>3

StockInv == TypeOK /\ StockIsKept

(* A dish none of whose orders moved, and whose stock nobody saved. *)
LEMMA SameOrdersSameStock ==
  ASSUME StockInv, stock' = stock, made' = made, overwritten' = overwritten,
         \A o \in Orders : order'[o].live = order[o].live
  PROVE  StockIsKept'
BY DEF StockInv, StockIsKept, LiveOrders

(* What restocking `back` does when order o keeps `live` of its dishes. *)
LEMMA RestockKeepsStock ==
  ASSUME StockInv, NEW o \in Orders, NEW back \in SUBSET order[o].live,
         Restock(back), NEW amount, Refund(o, order[o].live \ back, amount),
         UNCHANGED kitchenVars
  PROVE  StockIsKept'
<1>0. /\ order \in [Orders -> OrderRows] /\ stock \in [Dishes -> Nat]
      /\ made \in [Dishes -> Nat]
  BY DEF StockInv, TypeOK
<1>1. /\ order'[o].live = order[o].live \ back
      /\ \A p \in Orders \ {o} : order'[p] = order[p]
  BY <1>0 DEF Refund, OrderRows
<1> SUFFICES ASSUME NEW d \in Dishes \ overwritten
             PROVE  stock'[d] + Cardinality(LiveOrders(d)') = made[d]
  BY DEF StockIsKept, kitchenVars
<1>2. stock[d] + Cardinality(LiveOrders(d)) = made[d]
  BY DEF StockInv, StockIsKept
<1>3. CASE d \in back
  <2>1. o \in LiveOrders(d) /\ LiveOrders(d)' = LiveOrders(d) \ {o}
    BY <1>1, <1>3 DEF LiveOrders
  <2>2. /\ Cardinality(LiveOrders(d)) \in Nat
        /\ Cardinality(LiveOrders(d)') = Cardinality(LiveOrders(d)) - 1
    BY <2>1, CountDrops DEF LiveOrders
  <2>3. stock'[d] = stock[d] + 1
    BY <1>3 DEF Restock
  <2> QED BY <1>0, <1>2, <2>2, <2>3
<1>4. CASE d \notin back
  <2>1. LiveOrders(d)' = LiveOrders(d)
    BY <1>1, <1>4 DEF LiveOrders
  <2> QED BY <1>2, <1>4, <2>1 DEF Restock
<1> QED
  BY <1>3, <1>4

LEMMA CommitKeepsStock ==
  ASSUME StockInv, NEW r \in Requests, Commit(r)
  PROVE  StockIsKept'
<1>0. /\ order \in [Orders -> OrderRows] /\ stock \in [Dishes -> Nat]
      /\ made \in [Dishes -> Nat]
      /\ \A o \in Orders \ Placed : order[o].live = {}
  BY DEF StockInv, TypeOK, Placed
<1>1. CASE UNCHANGED rowVars
  BY <1>1, SameOrdersSameStock DEF Commit, rowVars, kitchenVars
<1>2. ASSUME NEW o \in Orders \ Placed, MayCommit(r), WriteOrder(r, o)
      PROVE  StockIsKept'
  <2> DEFINE tray == Tray[Owner[request[r].by]]
  <2>1. /\ order'[o].live = tray
        /\ \A p \in Orders \ {o} : order'[p] = order[p]
    BY <1>0, <1>2 DEF WriteOrder, OrderOf
  <2> SUFFICES ASSUME NEW d \in Dishes \ overwritten
               PROVE  stock'[d] + Cardinality(LiveOrders(d)') = made[d]
    BY DEF StockIsKept, kitchenVars, Commit
  <2>2. stock[d] + Cardinality(LiveOrders(d)) = made[d]
    BY DEF StockInv, StockIsKept
  <2>3. CASE d \in tray
    <3>1. o \notin LiveOrders(d) /\ LiveOrders(d)' = LiveOrders(d) \union {o}
      BY <1>0, <1>2, <2>1, <2>3 DEF LiveOrders
    <3>2. /\ Cardinality(LiveOrders(d)) \in Nat
          /\ Cardinality(LiveOrders(d)') = Cardinality(LiveOrders(d)) + 1
      BY <3>1, CountAdds DEF LiveOrders
    <3>3. stock'[d] = stock[d] - 1
      BY <1>2, <2>3 DEF WriteOrder
    <3> QED BY <1>0, <2>2, <3>2, <3>3
  <2>4. CASE d \notin tray
    <3>1. LiveOrders(d)' = LiveOrders(d)
      BY <1>0, <1>2, <2>1, <2>4 DEF LiveOrders
    <3> QED BY <1>2, <2>2, <2>4, <3>1 DEF WriteOrder
  <2> QED BY <2>3, <2>4
<1> QED
  BY <1>1, <1>2 DEF Commit

(* The form adds its portion, or overwrites what was sold and is noted. *)
LEMMA SaveFormKeepsStock ==
  ASSUME StockInv, NEW d \in Edited, SaveForm(d)
  PROVE  StockIsKept'
<1>0. /\ d \in Dishes /\ stock \in [Dishes -> Nat] /\ made \in [Dishes -> Nat]
  BY LimitAssumption DEF StockInv, TypeOK
<1> SUFFICES ASSUME NEW e \in Dishes \ overwritten'
             PROVE  stock'[e] + Cardinality(LiveOrders(e)) = made'[e]
  BY DEF StockIsKept, SaveForm, LiveOrders
<1>1. e \notin overwritten /\ stock[e] + Cardinality(LiveOrders(e)) = made[e]
  BY DEF SaveForm, StockInv, StockIsKept
<1>2. Cardinality(LiveOrders(e)) \in Nat
  BY OrderAssumption, FS_Subset, FS_CardinalityType DEF LiveOrders
<1>3. CASE e = d
  <2>1. kitchen.form[d] = stock[d]
    BY <1>3 DEF SaveForm
  <2>2. stock'[e] = stock[e] + 1 /\ made'[e] = made[e] + 1
    BY <1>0, <1>3, <2>1 DEF SaveForm
  <2> QED BY <1>0, <1>1, <1>2, <2>2
<1>4. CASE e # d
  BY <1>1, <1>4 DEF SaveForm
<1> QED
  BY <1>3, <1>4

LEMMA StockStep == ASSUME StockInv, Next PROVE StockIsKept'
<1>1. CASE \/ \E t \in Tabs : \/ LoseAnswer(t) \/ ExpireKey(t)
                              \/ \E kind \in Buttons[t] : ShowTotal(t, kind)
           \/ \E t \in Tabs, r \in Requests : Press(t, r)
           \/ \E r \in Requests :
                \/ LookUpKey(r) \/ ReadAndPrice(r) \/ RollBack(r)
                \/ ReceiveOrder(r) \/ ReceiveRefusal(r) \/ FailRequest(r)
           \/ \E d \in Edited : OpenForm(d)
           \/ OpenOrClose
           \/ \E p \in Changing : SwitchPromotion(p) \/ \E limit \in UseLimits : SetLimit(p, limit)
  BY <1>1, SameOrdersSameStock
  DEF LoseAnswer, ExpireKey, ShowTotal, Press, LookUpKey, ReadAndPrice, RollBack, ReceiveOrder,
      ReceiveRefusal, FailRequest, OpenForm, OpenOrClose, SwitchPromotion, SetLimit, Edit,
      rowVars, kitchenVars
<1>2. ASSUME NEW o \in Orders, CancelOrder(o) PROVE StockIsKept'
  <2>1. order[o].live \ order[o].live = {}
    OBVIOUS
  <2>2. Refund(o, order[o].live \ order[o].live, Owed(o))
    BY <1>2, <2>1 DEF CancelOrder
  <2> QED BY <1>2, <2>2, RestockKeepsStock DEF CancelOrder
<1>3. ASSUME NEW o \in Orders, NEW d \in Dishes, CancelDish(o, d) PROVE StockIsKept'
  BY <1>3, RestockKeepsStock DEF CancelDish
<1>4. ASSUME NEW r \in Requests, Commit(r) PROVE StockIsKept'
  BY <1>4, CommitKeepsStock
<1>5. ASSUME NEW d \in Edited, SaveForm(d) PROVE StockIsKept'
  BY <1>5, SaveFormKeepsStock
<1> QED
  BY <1>1, <1>2, <1>3, <1>4, <1>5 DEF Next

(* No portion is sold twice or lost, for any dishes, orders and pages. *)
THEOREM PortionsAreKept == Spec => []StockIsKept
<1>1. Init => StockInv
  <2> SUFFICES ASSUME Init PROVE StockInv
    OBVIOUS
  <2>1. \A d \in Dishes : LiveOrders(d) = {}
    BY DEF Init, LiveOrders, NoOrder
  <2>2. \A d \in Dishes : stock[d] \in Nat /\ made[d] = stock[d] /\ Cardinality(LiveOrders(d)) = 0
    BY <2>1, FS_EmptySet, StockAssumption DEF Init
  <2>3. StockIsKept
    BY <2>2 DEF StockIsKept
  <2> QED BY <2>3, InitIsTyped DEF StockInv
<1>2. StockInv /\ [Next]_vars => StockInv'
  <2>1. ASSUME StockInv, UNCHANGED vars PROVE StockIsKept'
    BY <2>1, SameOrdersSameStock DEF vars, rowVars, kitchenVars
  <2> QED BY <2>1, StockStep, NextKeepsTypes, StutterKeepsTypes DEF StockInv
<1> QED
  BY <1>1, <1>2, PTL DEF Spec, StockInv

-----------------------------------------------------------------------------
(* Promotions: the count of each is its usage rows, and the limit in force is never
   above the highest there was. *)

Uses(p) == {o \in Orders : <<p, o>> \in usage}

CountsAgree ==
  \A p \in Promotions : /\ promotion[p].used = Cardinality(Uses(p))
                        /\ promotion[p].used <= highest[p]
                        /\ promotion[p].limit <= highest[p]

UsersStand == \A p \in Promotions, o \in Orders : <<p, o>> \in usage => order[o].live # {}

CodeIsRationed == \A u \in Customers : Cardinality(UsesBy("code", u)) <= PerCustomer

UsesParts == CountsAgree /\ UsersStand /\ CodeIsRationed

UsesInv == TypeOK /\ UsesParts

LEMMA UsesPartsSuffice == UsesParts => UsesAreCounted
BY DEF UsesParts, CountsAgree, UsersStand, CodeIsRationed, UsesAreCounted, Uses

LEMMA UsesMaySame ==
  ASSUME UsesInv, usage' = usage, highest' = highest,
         \A p \in Promotions : /\ promotion'[p].used = promotion[p].used
                               /\ promotion'[p].limit = promotion[p].limit,
         \A o \in Orders : /\ order'[o].by = order[o].by
                           /\ order[o].live # {} => order'[o].live # {}
  PROVE  UsesParts'
<1>1. ASSUME NEW u \in Customers PROVE UsesBy("code", u)' = UsesBy("code", u)
  <2>1. Placed' = Placed /\ Placed \subseteq Orders
    BY DEF Placed
  <2>2. OrdersOf(u)' = OrdersOf(u)
    BY <2>1 DEF OrdersOf
  <2> QED BY <2>2 DEF UsesBy
<1>2. CodeIsRationed'
  BY <1>1 DEF UsesInv, UsesParts, CodeIsRationed
<1>3. \A p \in Promotions : Uses(p)' = Uses(p)
  BY DEF Uses
<1>4. CountsAgree'
  BY <1>3 DEF UsesInv, UsesParts, CountsAgree
<1>5. UsersStand'
  BY DEF UsesInv, UsesParts, UsersStand
<1> QED
  BY <1>2, <1>4, <1>5 DEF UsesParts

LEMMA CommitCountsUses ==
  ASSUME UsesInv, NEW r \in Requests, NEW o \in Orders \ Placed,
         request[r].step = "priced", MayCommit(r), WriteOrder(r, o), UNCHANGED kitchenVars
  PROVE  UsesParts'
<1> DEFINE t == request[r].by
           u == Owner[t]
<1>0. /\ t \in Tabs /\ t # Nobody /\ u \in Customers /\ Tray[u] # {}
      /\ Applied(r) \subseteq Promotions
      /\ order \in [Orders -> OrderRows] /\ highest \in [Promotions -> Nat]
      /\ promotion \in [Promotions -> [used: Nat, limit: Nat, active: BOOLEAN]]
      /\ usage \subseteq Promotions \X Orders
  BY TabAssumption, TrayAssumption DEF UsesInv, TypeOK, RequestRows, Applied, Promotions
<1>1. /\ order'[o].by = t /\ order'[o].live = Tray[u]
      /\ \A q \in Orders \ {o} : order'[q] = order[q]
      /\ highest' = highest
  BY <1>0 DEF WriteOrder, OrderOf, kitchenVars
<1>2. \A p \in Promotions : <<p, o>> \notin usage
  BY DEF UsesInv, UsesParts, UsersStand, TypeOK, Placed
<1>3. \A p \in Promotions, q \in Orders :
        <<p, q>> \in usage' <=> <<p, q>> \in usage \/ (p \in Applied(r) /\ q = o)
  BY DEF WriteOrder
<1>4. ASSUME NEW p \in Promotions
      PROVE  /\ promotion'[p].used = Cardinality(Uses(p)')
             /\ promotion'[p].used <= highest[p]
             /\ promotion'[p].limit <= highest[p]
  <2>0. /\ promotion[p].used = Cardinality(Uses(p)) /\ promotion[p].used <= highest[p]
        /\ promotion[p].limit <= highest[p] /\ promotion[p].used \in Nat
        /\ promotion[p].limit \in Nat /\ highest[p] \in Nat
    BY <1>0 DEF UsesInv, UsesParts, CountsAgree
  <2>1. CASE p \in Applied(r)
    <3>1. o \notin Uses(p) /\ Uses(p)' = Uses(p) \union {o}
      BY <1>2, <1>3, <2>1 DEF Uses
    <3>2. Cardinality(Uses(p)') = Cardinality(Uses(p)) + 1
      BY <3>1, CountAdds DEF Uses
    <3>3. /\ promotion'[p].used = promotion[p].used + 1
          /\ promotion'[p].limit = promotion[p].limit
      BY <1>0, <2>1 DEF WriteOrder
    <3>4. promotion[p].used < promotion[p].limit
      BY <2>1 DEF MayCommit, UsesLeft
    <3> QED BY <2>0, <3>2, <3>3, <3>4
  <2>2. CASE p \notin Applied(r)
    <3>1. Uses(p)' = Uses(p)
      BY <1>3, <2>2 DEF Uses
    <3>2. promotion'[p] = promotion[p]
      BY <2>2 DEF WriteOrder
    <3> QED BY <2>0, <3>1, <3>2
  <2> QED BY <2>1, <2>2
<1>5. ASSUME NEW p \in Promotions, NEW q \in Orders, <<p, q>> \in usage'
      PROVE  order'[q].live # {}
  BY <1>0, <1>1, <1>3, <1>5 DEF UsesInv, UsesParts, UsersStand
<1>6. ASSUME NEW w \in Customers PROVE Cardinality(UsesBy("code", w)') <= PerCustomer
  <2>0. "code" \in Promotions /\ Cardinality(UsesBy("code", w)) <= PerCustomer
    BY DEF UsesInv, UsesParts, CodeIsRationed, Promotions
  <2>1. OrdersOf(w)' = IF w = u THEN OrdersOf(w) \union {o} ELSE OrdersOf(w)
    BY <1>0, <1>1 DEF OrdersOf, Placed
  <2>2. CASE w = u /\ "code" \in Applied(r)
    <3>1. o \notin UsesBy("code", w) /\ UsesBy("code", w)' = UsesBy("code", w) \union {o}
      BY <1>2, <1>3, <2>0, <2>1, <2>2 DEF UsesBy, OrdersOf, Placed
    <3>2. Cardinality(UsesBy("code", w)) < PerCustomer
      BY <2>2 DEF MayCommit, UsesLeft
    <3>3. /\ Cardinality(UsesBy("code", w)) \in Nat
          /\ Cardinality(UsesBy("code", w)') = Cardinality(UsesBy("code", w)) + 1
      BY <3>1, CountAdds DEF UsesBy, OrdersOf, Placed
    <3> QED BY <3>2, <3>3, LimitAssumption
  <2>3. CASE ~(w = u /\ "code" \in Applied(r))
    <3>1. UsesBy("code", w)' = UsesBy("code", w)
      BY <1>2, <1>3, <2>0, <2>1, <2>3 DEF UsesBy, OrdersOf, Placed
    <3> QED BY <2>0, <3>1
  <2> QED BY <2>2, <2>3
<1> QED
  BY <1>1, <1>4, <1>5, <1>6 DEF UsesParts, CountsAgree, UsersStand, CodeIsRationed

(* A cancelled order gives back what it used, and it used each promotion once. *)
LEMMA CancelCountsUses ==
  ASSUME UsesInv, NEW o \in Orders, CancelOrder(o)
  PROVE  UsesParts'
<1>0. /\ order \in [Orders -> OrderRows] /\ highest \in [Promotions -> Nat]
      /\ promotion \in [Promotions -> [used: Nat, limit: Nat, active: BOOLEAN]]
      /\ usage \subseteq Promotions \X Orders
  BY DEF UsesInv, TypeOK
<1>1. /\ order'[o].by = order[o].by
      /\ \A q \in Orders \ {o} : order'[q] = order[q]
      /\ highest' = highest
  BY <1>0 DEF CancelOrder, Refund, OrderRows, kitchenVars
<1>2. \A p \in Promotions, q \in Orders :
        <<p, q>> \in usage' <=> <<p, q>> \in usage /\ q # o
  BY DEF CancelOrder, ReleaseUsage
<1>3. ASSUME NEW p \in Promotions
      PROVE  /\ promotion'[p].used = Cardinality(Uses(p)')
             /\ promotion'[p].used <= highest[p]
             /\ promotion'[p].limit <= highest[p]
  <2>0. /\ promotion[p].used = Cardinality(Uses(p)) /\ promotion[p].used <= highest[p]
        /\ promotion[p].limit <= highest[p] /\ promotion[p].used \in Nat
        /\ promotion[p].limit \in Nat /\ highest[p] \in Nat
    BY <1>0 DEF UsesInv, UsesParts, CountsAgree
  <2>1. Uses(p)' = Uses(p) \ {o}
    BY <1>2 DEF Uses
  <2>2. CASE <<p, o>> \in usage
    <3>1. /\ Cardinality(Uses(p)) \in Nat \ {0}
          /\ Cardinality(Uses(p)') = Cardinality(Uses(p)) - 1
      BY <2>1, <2>2, CountDrops DEF Uses
    <3>2. promotion[p].used >= 1 /\ p \in UsedBy(o)
      BY <2>0, <2>2, <3>1 DEF UsedBy
    <3>3. /\ promotion'[p].used = promotion[p].used - 1
          /\ promotion'[p].limit = promotion[p].limit
      BY <1>0, <3>2 DEF CancelOrder, ReleaseUsage
    <3> QED BY <2>0, <3>1, <3>3
  <2>3. CASE <<p, o>> \notin usage
    <3>1. Uses(p)' = Uses(p)
      BY <2>1, <2>3 DEF Uses
    <3>2. promotion'[p] = promotion[p]
      BY <2>3 DEF CancelOrder, ReleaseUsage, UsedBy
    <3> QED BY <2>0, <3>1, <3>2
  <2> QED BY <2>2, <2>3
<1>4. ASSUME NEW p \in Promotions, NEW q \in Orders, <<p, q>> \in usage'
      PROVE  order'[q].live # {}
  BY <1>1, <1>2, <1>4 DEF UsesInv, UsesParts, UsersStand
<1>5. ASSUME NEW w \in Customers PROVE Cardinality(UsesBy("code", w)') <= PerCustomer
  <2>1. UsesBy("code", w)' \subseteq UsesBy("code", w)
    BY <1>1, <1>2 DEF UsesBy, OrdersOf, Placed, Promotions
  <2>2. IsFiniteSet(UsesBy("code", w))
    BY OrderAssumption, FS_Subset DEF UsesBy, OrdersOf, Placed
  <2>3. Cardinality(UsesBy("code", w)) <= PerCustomer
    BY DEF UsesInv, UsesParts, CodeIsRationed, Promotions
  <2>4. /\ Cardinality(UsesBy("code", w)') <= Cardinality(UsesBy("code", w))
        /\ Cardinality(UsesBy("code", w)') \in Nat /\ Cardinality(UsesBy("code", w)) \in Nat
    BY <2>1, <2>2, FS_Subset, FS_CardinalityType
  <2> QED BY <2>3, <2>4, LimitAssumption
<1> QED
  BY <1>1, <1>3, <1>4, <1>5 DEF UsesParts, CountsAgree, UsersStand, CodeIsRationed

LEMMA UsesStep ==
  ASSUME UsesInv, Next
  PROVE  UsesParts'
<1>0. /\ order \in [Orders -> OrderRows] /\ highest \in [Promotions -> Nat]
      /\ promotion \in [Promotions -> [used: Nat, limit: Nat, active: BOOLEAN]]
      /\ Changing \subseteq Promotions /\ UseLimits \subseteq Nat
  BY LimitAssumption DEF UsesInv, TypeOK
<1>1. CASE \/ \E t \in Tabs : \/ LoseAnswer(t) \/ ExpireKey(t)
                              \/ \E kind \in Buttons[t] : ShowTotal(t, kind)
           \/ \E t \in Tabs, r \in Requests : Press(t, r)
           \/ \E r \in Requests :
                \/ LookUpKey(r) \/ ReadAndPrice(r) \/ RollBack(r)
                \/ ReceiveOrder(r) \/ ReceiveRefusal(r) \/ FailRequest(r)
           \/ \E d \in Edited : OpenForm(d) \/ SaveForm(d)
           \/ OpenOrClose
  BY <1>1, UsesMaySame
  DEF LoseAnswer, ExpireKey, ShowTotal, Press, LookUpKey, ReadAndPrice, RollBack, ReceiveOrder,
      ReceiveRefusal, FailRequest, OpenForm, SaveForm, OpenOrClose, Edit, rowVars, kitchenVars
<1>2. ASSUME NEW r \in Requests, Commit(r)
      PROVE  UsesParts'
  <2>1. CASE UNCHANGED rowVars
    BY <1>2, <2>1, UsesMaySame DEF Commit, rowVars, kitchenVars
  <2>2. CASE MayCommit(r) /\ \E o \in Orders \ Placed : WriteOrder(r, o)
    BY <1>2, <2>2, CommitCountsUses DEF Commit
  <2> QED BY <1>2, <2>1, <2>2 DEF Commit
<1>3. ASSUME NEW o \in Orders, CancelOrder(o)
      PROVE  UsesParts'
  BY <1>3, CancelCountsUses
<1>4. ASSUME NEW o \in Orders, NEW d \in Dishes, CancelDish(o, d)
      PROVE  UsesParts'
  <2>1. \A q \in Orders : /\ order'[q].by = order[q].by
                          /\ order[q].live # {} => order'[q].live # {}
    BY <1>0, <1>4 DEF CancelDish, Refund, OrderRows
  <2> QED BY <1>4, <2>1, UsesMaySame DEF CancelDish, kitchenVars
<1>5. ASSUME NEW p \in Changing, SwitchPromotion(p)
      PROVE  UsesParts'
  <2>1. \A q \in Promotions : /\ promotion'[q].used = promotion[q].used
                              /\ promotion'[q].limit = promotion[q].limit
    BY <1>0, <1>5 DEF SwitchPromotion
  <2> QED BY <1>5, <2>1, UsesMaySame DEF SwitchPromotion, Edit
<1>6. ASSUME NEW p \in Changing, NEW limit \in UseLimits, SetLimit(p, limit)
      PROVE  UsesParts'
  <2>1. \A q \in Promotions : /\ promotion'[q].used = promotion[q].used
                              /\ promotion'[q].used <= highest'[q]
                              /\ promotion'[q].limit <= highest'[q]
    <3> SUFFICES ASSUME NEW q \in Promotions
                 PROVE  /\ promotion'[q].used = promotion[q].used
                        /\ promotion'[q].used <= highest'[q]
                        /\ promotion'[q].limit <= highest'[q]
      OBVIOUS
    <3>1. /\ promotion[q].used <= highest[q] /\ promotion[q].limit <= highest[q]
          /\ promotion[q].used \in Nat /\ promotion[q].limit \in Nat /\ highest[q] \in Nat
          /\ limit \in Nat
      BY <1>0 DEF UsesInv, UsesParts, CountsAgree
    <3>2. CASE q = p
      BY <1>0, <1>6, <3>1, <3>2 DEF SetLimit
    <3>3. CASE q # p
      BY <1>0, <1>6, <3>1, <3>3 DEF SetLimit
    <3> QED BY <3>2, <3>3
  <2>2. order' = order /\ usage' = usage
    BY <1>6 DEF SetLimit, Edit
  <2>3. CountsAgree'
    BY <2>1, <2>2 DEF UsesInv, UsesParts, CountsAgree, Uses
  <2>4. UsersStand' /\ CodeIsRationed'
    BY <2>2 DEF UsesInv, UsesParts, UsersStand, CodeIsRationed, UsesBy, OrdersOf, Placed
  <2> QED BY <2>3, <2>4 DEF UsesParts
<1> QED
  BY <1>1, <1>2, <1>3, <1>4, <1>5, <1>6 DEF Next

LEMMA UsesInit == Init => UsesInv
<1> SUFFICES ASSUME Init PROVE UsesInv
  OBVIOUS
<1>1. \A p \in Promotions : Uses(p) = {}
  BY DEF Init, Uses
<1>2. \A u \in Customers : UsesBy("code", u) = {}
  BY DEF Init, UsesBy
<1>3. \A p \in Promotions : /\ promotion[p].used = 0 /\ promotion[p].limit = highest[p]
                            /\ highest[p] \in Nat
  BY LimitAssumption DEF Init
<1>4. CountsAgree
  BY <1>1, <1>3, FS_EmptySet DEF CountsAgree
<1>5. CodeIsRationed
  BY <1>2, FS_EmptySet, LimitAssumption DEF CodeIsRationed
<1>6. UsersStand
  BY DEF Init, UsersStand
<1> QED BY <1>4, <1>5, <1>6, InitIsTyped DEF UsesInv, UsesParts

LEMMA UsesStutter == ASSUME UsesInv, UNCHANGED vars PROVE UsesInv'
BY UsesMaySame, StutterKeepsTypes DEF UsesInv, vars, rowVars, kitchenVars

(* A promotion is used no oftener than a limit it had, and counted as often as it
   is used, for any number of racing checkouts and cancels. *)
THEOREM PromotionsAreCounted == Spec => []UsesAreCounted
<1>1. UsesInv /\ [Next]_vars => UsesInv'
  BY UsesStep, UsesStutter, NextKeepsTypes DEF UsesInv
<1> QED
  BY <1>1, UsesInit, UsesPartsSuffice, PTL DEF Spec, UsesInv

-----------------------------------------------------------------------------
(* The charge: a request that was let through has the total its page sent, if it sent
   one, by the deals it was priced with; and an order that stands has the uses of the
   promotions it was priced with. *)

PricedAsSent ==
  \A r \in Requests :
    request[r].step = "priced" =>
      ~QuotedTotalProblem(OrderData(request[r].offer).expectedTotal, Charge(r))

ChargeInv == UsesInv /\ PricedAsSent /\ ChargedAsShown

(* Only ReadAndPrice lets a request through; no other step gives a request a step of
   "priced", and none changes what a priced one asked. *)
LEMMA OnlyPricingPrices ==
  ASSUME TypeOK, Next, NEW r \in Requests, request'[r].step = "priced"
  PROVE  \/ request'[r] = request[r]
         \/ ReadAndPrice(r)
<1>1. ASSUME NEW q \in Requests, request' = [request EXCEPT ![q] = Idle]
      PROVE  request'[r] = request[r]
  BY <1>1 DEF TypeOK, Idle
<1>2. ASSUME NEW q \in Requests, NEW step \in {"checked", "refused"}, GoOn(q, step)
      PROVE  request'[r] = request[r]
  BY <1>2 DEF TypeOK, GoOn, RequestRows
<1>3. ASSUME NEW q \in Requests, NEW o, AnswerWith(q, o)
      PROVE  request'[r] = request[r]
  BY <1>3 DEF TypeOK, AnswerWith, RequestRows
<1>4. ASSUME NEW t \in Tabs, NEW q \in Requests, Press(t, q)
      PROVE  request'[r] = request[r]
  BY <1>4 DEF TypeOK, Press, Idle
<1>5. ASSUME NEW q \in Requests, LookUpKey(q) \/ Commit(q) \/ RollBack(q)
      PROVE  request'[r] = request[r]
  BY <1>2, <1>3, <1>5 DEF LookUpKey, Commit, RollBack
<1>6. ASSUME NEW q \in Requests, ReceiveOrder(q) \/ ReceiveRefusal(q) \/ FailRequest(q)
      PROVE  request'[r] = request[r]
  BY <1>1, <1>6 DEF ReceiveOrder, ReceiveRefusal, FailRequest, Settle
<1>7. ASSUME NEW q \in Requests, ReadAndPrice(q), q # r
      PROVE  request'[r] = request[r]
  BY <1>7 DEF ReadAndPrice, TypeOK, GoOn
<1>8. CASE \/ \E t \in Tabs : \/ LoseAnswer(t) \/ ExpireKey(t)
                              \/ \E kind \in Buttons[t] : ShowTotal(t, kind)
           \/ \E o \in Orders : CancelOrder(o)
           \/ \E o \in Orders, d \in Dishes : CancelDish(o, d)
           \/ \E d \in Edited : OpenForm(d) \/ SaveForm(d)
           \/ OpenOrClose
           \/ \E p \in Changing : SwitchPromotion(p) \/ \E limit \in UseLimits : SetLimit(p, limit)
  BY <1>8 DEF LoseAnswer, ExpireKey, ShowTotal, CancelOrder, CancelDish, OpenForm, SaveForm,
              OpenOrClose, SwitchPromotion, SetLimit, Edit
<1> QED
  BY <1>4, <1>5, <1>6, <1>7, <1>8 DEF Next

(* Orders are written by a commit, and afterwards only their items and refunds move. *)
LEMMA OnlyCommitWrites ==
  ASSUME TypeOK, Next, NEW o \in Orders
  PROVE  \/ order'[o] = [order[o] EXCEPT !.live = order'[o].live, !.refunded = order'[o].refunded]
         \/ \E r \in Requests : /\ request[r].step = "priced" /\ o \notin Placed
                                /\ MayCommit(r) /\ KeyHolder(request[r].by, request[r].key) = {}
                                /\ AnswerWith(r, o) /\ WriteOrder(r, o)
<1>0. order[o] \in OrderRows
  BY DEF TypeOK
<1>1. ASSUME order'[o] = order[o]
      PROVE  order'[o] = [order[o] EXCEPT !.live = order'[o].live, !.refunded = order'[o].refunded]
  BY <1>0, <1>1 DEF OrderRows
<1>2. ASSUME NEW r \in Requests, Commit(r) PROVE \/ order'[o] = order[o]
         \/ /\ request[r].step = "priced" /\ o \notin Placed
            /\ MayCommit(r) /\ KeyHolder(request[r].by, request[r].key) = {}
            /\ AnswerWith(r, o) /\ WriteOrder(r, o)
  BY <1>2 DEF Commit, WriteOrder, TypeOK, rowVars
<1>3. ASSUME NEW p \in Orders, NEW live, NEW amount, Refund(p, live, amount)
      PROVE  order'[o] = [order[o] EXCEPT !.live = order'[o].live, !.refunded = order'[o].refunded]
  BY <1>0, <1>3 DEF Refund, TypeOK, OrderRows
<1>4. CASE \E p \in Orders : CancelOrder(p) \/ \E d \in Dishes : CancelDish(p, d)
  BY <1>3, <1>4 DEF CancelOrder, CancelDish
<1>5. CASE \/ \E t \in Tabs : \/ LoseAnswer(t) \/ ExpireKey(t)
                              \/ \E kind \in Buttons[t] : ShowTotal(t, kind)
           \/ \E t \in Tabs, r \in Requests : Press(t, r)
           \/ \E r \in Requests :
                \/ LookUpKey(r) \/ ReadAndPrice(r) \/ RollBack(r)
                \/ ReceiveOrder(r) \/ ReceiveRefusal(r) \/ FailRequest(r)
           \/ \E d \in Edited : OpenForm(d) \/ SaveForm(d)
           \/ OpenOrClose
           \/ \E p \in Changing : SwitchPromotion(p) \/ \E limit \in UseLimits : SetLimit(p, limit)
  BY <1>1, <1>5 DEF LoseAnswer, ExpireKey, ShowTotal, Press, LookUpKey, ReadAndPrice, RollBack,
       ReceiveOrder, ReceiveRefusal, FailRequest, OpenForm, SaveForm,
       OpenOrClose, SwitchPromotion, SetLimit, Edit, rowVars
<1> QED
  BY <1>1, <1>2, <1>4, <1>5 DEF Next

(* An order that stands gains or loses no use, after the commit that wrote it. *)
LEMMA StandingKeepsUses ==
  ASSUME TypeOK, Next, NEW o \in Orders, order'[o].live # {}
  PROVE  \/ /\ order[o].live # {}
            /\ \A p \in Promotions : <<p, o>> \in usage' <=> <<p, o>> \in usage
         \/ \E r \in Requests : o \notin Placed /\ WriteOrder(r, o)
<1>0. order \in [Orders -> OrderRows]
  BY DEF TypeOK
<1>1. CASE order' = order /\ usage' = usage
  BY <1>1
<1>2. ASSUME NEW r \in Requests, NEW q \in Orders \ Placed, WriteOrder(r, q), q # o
      PROVE  /\ order[o].live # {}
             /\ \A p \in Promotions : <<p, o>> \in usage' <=> <<p, o>> \in usage
  BY <1>0, <1>2 DEF WriteOrder
<1>3. CASE \E r \in Requests : Commit(r)
  BY <1>1, <1>2, <1>3 DEF Commit, rowVars
<1>4. ASSUME NEW q \in Orders, CancelOrder(q)
      PROVE  /\ order[o].live # {}
             /\ \A p \in Promotions : <<p, o>> \in usage' <=> <<p, o>> \in usage
  <2>1. order' = [order EXCEPT ![q].live = {}, ![q].refunded = @ + Owed(q)]
    BY <1>4 DEF CancelOrder, Refund
  <2>2. q # o
    BY <1>0, <2>1 DEF OrderRows
  <2> QED BY <1>0, <1>4, <2>1, <2>2 DEF CancelOrder, ReleaseUsage
<1>5. ASSUME NEW q \in Orders, NEW d \in Dishes, CancelDish(q, d)
      PROVE  /\ order[o].live # {}
             /\ \A p \in Promotions : <<p, o>> \in usage' <=> <<p, o>> \in usage
  <2>1. order[q].live # {} /\ usage' = usage
    BY <1>5 DEF CancelDish
  <2>2. o # q => order'[o] = order[o]
    BY <1>0, <1>5 DEF CancelDish, Refund
  <2> QED BY <2>1, <2>2
<1>6. CASE \/ \E t \in Tabs : \/ LoseAnswer(t) \/ ExpireKey(t)
                              \/ \E kind \in Buttons[t] : ShowTotal(t, kind)
           \/ \E t \in Tabs, r \in Requests : Press(t, r)
           \/ \E r \in Requests :
                \/ LookUpKey(r) \/ ReadAndPrice(r) \/ RollBack(r)
                \/ ReceiveOrder(r) \/ ReceiveRefusal(r) \/ FailRequest(r)
           \/ \E d \in Edited : OpenForm(d) \/ SaveForm(d)
           \/ OpenOrClose
           \/ \E p \in Changing : SwitchPromotion(p) \/ \E limit \in UseLimits : SetLimit(p, limit)
  BY <1>1, <1>6 DEF LoseAnswer, ExpireKey, ShowTotal, Press, LookUpKey, ReadAndPrice, RollBack,
       ReceiveOrder, ReceiveRefusal, FailRequest, OpenForm, SaveForm,
       OpenOrClose, SwitchPromotion, SetLimit, Edit, rowVars
<1> QED
  BY <1>3, <1>4, <1>5, <1>6 DEF Next

(* The order a commit writes, its charge and its uses. *)
LEMMA WrittenAsPriced ==
  ASSUME ChargeInv, NEW o \in Orders \ Placed, NEW r \in Requests, request[r].by \in Tabs,
         WriteOrder(r, o)
  PROVE  /\ order'[o] = OrderOf(r)
         /\ order'[o].total = TotalFor(Owner[order'[o].by], <<"deal", o>> \in usage',
                                                            <<"code", o>> \in usage')
<1>0. /\ request[r].offer \in Offers /\ request[r].deal \in BOOLEAN
      /\ request[r].offer.code \in BOOLEAN
  <2>1. request[r] \in RequestRows
    BY DEF ChargeInv, UsesInv, TypeOK
  <2>2. request[r].offer \in Offers /\ request[r].deal \in BOOLEAN
    BY <2>1 DEF RequestRows
  <2> QED BY <2>2, OfferFields
<1>1. order'[o] = OrderOf(r)
  BY DEF ChargeInv, UsesInv, TypeOK, WriteOrder
<1>2. \A p \in Promotions : <<p, o>> \notin usage
  BY DEF ChargeInv, UsesInv, UsesParts, UsersStand, TypeOK, Placed
<1>3. \A p \in Promotions : <<p, o>> \in usage' <=> p \in Applied(r)
  BY <1>2 DEF WriteOrder
<1>4. (<<"deal", o>> \in usage') = request[r].deal
  BY <1>0, <1>3 DEF Applied, Promotions
<1>5. (<<"code", o>> \in usage') = request[r].offer.code
  BY <1>0, <1>3 DEF Applied, Promotions
<1>6. order'[o].total = Charge(r) /\ order'[o].by = request[r].by
  BY <1>1 DEF OrderOf
<1> QED
  BY <1>1, <1>4, <1>5, <1>6 DEF Charge

LEMMA ChargeIsKept == ASSUME ChargeInv, Next PROVE ChargeInv'
<1>0. /\ TypeOK /\ UsesInv /\ order \in [Orders -> OrderRows]
      /\ Placed \subseteq Orders /\ Nobody \notin Tabs
  BY OrderAssumption DEF ChargeInv, UsesInv, TypeOK, Placed
<1>1. UsesInv'
  BY <1>0, NextKeepsTypes, UsesStep DEF UsesInv
<1>2. ASSUME NEW r \in Requests, request'[r].step = "priced"
      PROVE  ~QuotedTotalProblem(OrderData(request'[r].offer).expectedTotal, Charge(r)')
  <2>1. CASE request'[r] = request[r]
    <3>1. Charge(r)' = Charge(r)
      BY <2>1 DEF Charge
    <3> QED BY <1>2, <2>1, <3>1 DEF ChargeInv, PricedAsSent
  <2>2. CASE ReadAndPrice(r)
    <3> DEFINE deal == Usable("deal", Owner[request[r].by])
    <3>1. /\ request' = [request EXCEPT ![r].step = "priced", ![r].deal = deal]
          /\ ~QuotedTotalProblem(OrderData(request[r].offer).expectedTotal,
                TotalFor(Owner[request[r].by], deal, OrderData(request[r].offer).code))
      BY <1>0, <1>2, <2>2 DEF ReadAndPrice, GoOn, TypeOK, RequestRows
    <3>2. /\ request'[r].offer = request[r].offer /\ request'[r].by = request[r].by
          /\ request'[r].deal = deal
      BY <1>0, <3>1 DEF TypeOK, RequestRows
    <3>3. OrderData(request[r].offer).code = request[r].offer.code
      BY DEF OrderData
    <3> HIDE DEF deal
    <3>4. Charge(r)' = TotalFor(Owner[request[r].by], deal, OrderData(request[r].offer).code)
      BY <3>2, <3>3 DEF Charge
    <3> QED BY <3>1, <3>2, <3>4
  <2> QED BY <1>0, <1>2, <2>1, <2>2, OnlyPricingPrices
<1>3. ASSUME NEW o \in Orders, order'[o].by # Nobody, order'[o].agreed.deliveryKnown
      PROVE  order'[o].total = order'[o].agreed.total
  <2>1. order[o] \in OrderRows
    BY <1>0
  <2>2. CASE order'[o] = [order[o] EXCEPT !.live = order'[o].live, !.refunded = order'[o].refunded]
    <3>1. /\ order'[o].by = order[o].by /\ order'[o].total = order[o].total
          /\ order'[o].agreed = order[o].agreed
      BY <2>1, <2>2 DEF OrderRows
    <3> QED BY <1>3, <3>1 DEF ChargeInv, ChargedAsShown, Placed
  <2>3. ASSUME NEW r \in Requests, request[r].step = "priced", WriteOrder(r, o)
        PROVE  order'[o].total = order'[o].agreed.total
    <3>1. order'[o] = OrderOf(r)
      BY <1>0, <2>3 DEF WriteOrder
    <3>2. order'[o].total = Charge(r) /\ order'[o].agreed = request[r].offer
      BY <3>1 DEF OrderOf
    <3>3. ~QuotedTotalProblem(OrderData(request[r].offer).expectedTotal, Charge(r))
      BY <2>3 DEF ChargeInv, PricedAsSent
    <3>4. OrderData(request[r].offer).expectedTotal = request[r].offer.total
      BY <1>3, <3>2 DEF OrderData
    <3>6. request[r].offer.total # NoTotal
      BY <1>0, <1>3, <3>2 DEF TypeOK, RequestRows, Offers, NoOffer, NoTotal
    <3> QED BY <3>2, <3>3, <3>4, <3>6 DEF QuotedTotalProblem
  <2> QED BY <1>0, <2>2, <2>3, OnlyCommitWrites
<1>4. ASSUME NEW o \in Orders, order'[o].by # Nobody, order'[o].live # {}
      PROVE  order'[o].total = TotalFor(Owner[order'[o].by], <<"deal", o>> \in usage',
                                                             <<"code", o>> \in usage')
  <2>1. CASE /\ order[o].live # {}
             /\ \A p \in Promotions : <<p, o>> \in usage' <=> <<p, o>> \in usage
    <3>1. o \in Placed
      BY <1>0, <2>1 DEF TypeOK, Placed
    <3>2. order'[o].by = order[o].by /\ order'[o].total = order[o].total
      BY <1>0, <3>1, OnlyCommitWrites DEF OrderRows
    <3>3. /\ (<<"deal", o>> \in usage') = (<<"deal", o>> \in usage)
          /\ (<<"code", o>> \in usage') = (<<"code", o>> \in usage)
      BY <2>1 DEF Promotions
    <3>4. order[o].total = TotalFor(Owner[order[o].by], <<"deal", o>> \in usage,
                                                        <<"code", o>> \in usage)
      BY <2>1, <3>1 DEF ChargeInv, ChargedAsShown
    <3> QED BY <3>2, <3>3, <3>4
  <2>2. ASSUME NEW r \in Requests, o \notin Placed, WriteOrder(r, o)
        PROVE  order'[o].total = TotalFor(Owner[order'[o].by], <<"deal", o>> \in usage',
                                                               <<"code", o>> \in usage')
    <3>1. order'[o].by = request[r].by
      BY <1>0, <2>2 DEF WriteOrder, OrderOf
    <3>2. request[r].by \in Tabs
      BY <1>0, <1>4, <3>1 DEF TypeOK, RequestRows
    <3> QED BY <2>2, <3>2, WrittenAsPriced
  <2> QED BY <1>0, <1>4, <2>1, <2>2, StandingKeepsUses
<1>5. ChargedAsShown'
  BY <1>3, <1>4 DEF ChargedAsShown, Placed
<1> QED
  BY <1>1, <1>2, <1>5 DEF ChargeInv, PricedAsSent

(* A customer shown the whole total is charged it, whatever deals and limits did
   between the press and the commit; and every order that stands, the one whose
   delivery was still to be added as well, costs what the promotions it uses leave. *)
THEOREM ChargeIsAsShown == Spec => []ChargedAsShown
<1>1. Init => ChargeInv
  <2> SUFFICES ASSUME Init PROVE ChargeInv
    OBVIOUS
  <2>1. PricedAsSent
    BY DEF Init, PricedAsSent, Idle
  <2>2. ChargedAsShown
    BY DEF Init, ChargedAsShown, Placed, NoOrder
  <2> QED BY <2>1, <2>2, UsesInit DEF ChargeInv
<1>2. ChargeInv /\ UNCHANGED vars => ChargeInv'
  <2> SUFFICES ASSUME ChargeInv, UNCHANGED vars PROVE ChargeInv'
    OBVIOUS
  <2>1. UsesInv'
    BY UsesStutter DEF ChargeInv
  <2>2. request' = request /\ order' = order /\ usage' = usage
    BY DEF vars, rowVars
  <2> QED
    BY <2>1, <2>2
    DEF ChargeInv, PricedAsSent, ChargedAsShown, Placed, Charge, TotalFor, GoodsFor
<1> QED
  BY <1>1, <1>2, ChargeIsKept, PTL DEF Spec, ChargeInv

-----------------------------------------------------------------------------
(* The key a checkout page sends with its order: an answer is of the visit that asked,
   and a visit places two orders only if its page gave the key up in between. *)
(* The keys that requests and orders bear, with the page and the visit they are of. *)
Sent ==
  {<<request[r].by, request[r].key, request[r].visit>> : r \in Requests}
    \union {<<order[o].by, order[o].key, order[o].visit>> : o \in Orders}

(* Keys and visits are numbered as they come. *)
SentBefore ==
  \A t \in Tabs : \A k, v \in Nat :
    <<t, k, v>> \in Sent => k >= 1 /\ k <= pressed[t] /\ v <= page[t].visit

(* The key a page holds is of the visit it is in. *)
HeldIsOfVisit ==
  \A t \in Tabs : page[t].key # NoKey =>
    /\ page[t].key <= pressed[t]
    /\ \A v \in Nat : <<t, page[t].key, v>> \in Sent => v = page[t].visit

OneVisitOfKey ==
  \A t \in Tabs : \A k, v, w \in Nat : <<t, k, v>> \in Sent /\ <<t, k, w>> \in Sent => v = w

TwoKeysRenewed ==
  \A t \in Tabs : \A k, l, v \in Nat :
    <<t, k, v>> \in Sent /\ <<t, l, v>> \in Sent /\ k # l => <<t, v>> \in renewed

(* A key sent earlier in this visit is the one held, unless that was given up. *)
OtherKeyRenewed ==
  \A t \in Tabs : \A k \in Nat :
    <<t, k, page[t].visit>> \in Sent /\ k # page[t].key => <<t, page[t].visit>> \in renewed

KeysAgree == /\ SentBefore /\ HeldIsOfVisit /\ OneVisitOfKey
             /\ TwoKeysRenewed /\ OtherKeyRenewed

KeysInv == TypeOK /\ KeysAgree

(* How a step may leave a page whose key it does not draw. *)
PageGoesOn(t) ==
  \/ page'[t].key = page[t].key /\ page'[t].visit = page[t].visit
  \/ page'[t].key = NoKey /\ page'[t].visit = page[t].visit + 1
  \/ /\ page'[t].key = NoKey /\ page'[t].visit = page[t].visit
     /\ <<t, page[t].visit>> \in renewed'

NothingSent == \A t \in Tabs : \A k, v \in Nat : <<t, k, v>> \in Sent' => <<t, k, v>> \in Sent

LEMMA QuietStepKeepsKeys ==
  ASSUME KeysInv, NothingSent, \A t \in Tabs : PageGoesOn(t),
         pressed' = pressed, renewed \subseteq renewed'
  PROVE  KeysAgree'
<1>0. \A t \in Tabs : page[t].visit \in Nat /\ page[t].key \in Nat /\ pressed[t] \in Nat
  BY DEF KeysInv, TypeOK, Pages
<1>a. ASSUME NEW t \in Tabs
      PROVE  /\ page'[t].visit \in Nat /\ page[t].visit <= page'[t].visit
             /\ \/ page'[t].key = page[t].key /\ page'[t].visit = page[t].visit
                \/ page'[t].key = NoKey /\ page'[t].visit = page[t].visit + 1
                \/ /\ page'[t].key = NoKey /\ page'[t].visit = page[t].visit
                   /\ <<t, page[t].visit>> \in renewed'
  <2>1. page[t].visit \in Nat /\ page[t].visit + 1 \in Nat
    BY <1>0
  <2>2. PageGoesOn(t)
    OBVIOUS
  <2> QED BY <2>1, <2>2 DEF PageGoesOn
<1>1. SentBefore'
  <2> SUFFICES ASSUME NEW t \in Tabs, NEW k \in Nat, NEW v \in Nat, <<t, k, v>> \in Sent'
               PROVE  k >= 1 /\ k <= pressed'[t] /\ v <= page'[t].visit
    BY DEF SentBefore
  <2>1. k >= 1 /\ k <= pressed[t] /\ v <= page[t].visit
    BY DEF NothingSent, KeysInv, KeysAgree, SentBefore
  <2>2. /\ page[t].visit \in Nat /\ page'[t].visit \in Nat
        /\ page[t].visit <= page'[t].visit
    BY <1>0, <1>a
  <2> QED BY <2>1, <2>2
<1>2. HeldIsOfVisit'
  <2> SUFFICES ASSUME NEW t \in Tabs, page'[t].key # NoKey
               PROVE  /\ page'[t].key <= pressed'[t]
                      /\ \A v \in Nat : <<t, page'[t].key, v>> \in Sent' => v = page'[t].visit
    BY DEF HeldIsOfVisit
  <2>1. page'[t].key = page[t].key /\ page'[t].visit = page[t].visit
    BY <1>a
  <2> QED BY <1>0, <2>1 DEF NothingSent, KeysInv, KeysAgree, HeldIsOfVisit
<1>3. OneVisitOfKey'
  BY DEF NothingSent, KeysInv, KeysAgree, OneVisitOfKey
<1>4. TwoKeysRenewed'
  BY DEF NothingSent, KeysInv, KeysAgree, TwoKeysRenewed
<1>5. OtherKeyRenewed'
  <2> SUFFICES ASSUME NEW t \in Tabs, NEW k \in Nat,
                      <<t, k, page'[t].visit>> \in Sent', k # page'[t].key
               PROVE  <<t, page'[t].visit>> \in renewed'
    BY DEF OtherKeyRenewed
  <2>0. page'[t].visit \in Nat
    BY <1>a
  <2>1. <<t, k, page'[t].visit>> \in Sent
    BY <2>0 DEF NothingSent
  <2>2. page'[t].visit <= page[t].visit
    BY <2>0, <2>1 DEF KeysInv, KeysAgree, SentBefore
  <2>3. page'[t].visit = page[t].visit
    <3>1. page[t].visit \in Nat /\ page[t].visit <= page'[t].visit
      BY <1>0, <1>a
    <3> QED BY <2>0, <2>2, <3>1
  <2>4. CASE page'[t].key = page[t].key
    BY <1>0, <2>1, <2>3, <2>4 DEF KeysInv, KeysAgree, OtherKeyRenewed
  <2>5. CASE <<t, page[t].visit>> \in renewed'
    BY <2>3, <2>5
  <2>6. page[t].visit # page[t].visit + 1
    BY <1>0
  <2>7. page'[t].key = page[t].key \/ <<t, page[t].visit>> \in renewed'
    BY <1>a, <2>3, <2>6
  <2> QED BY <2>4, <2>5, <2>7
<1> QED
  BY <1>1, <1>2, <1>3, <1>4, <1>5 DEF KeysAgree

(* A press: with the key held, or with one no request or order has borne. *)
LEMMA PressKeepsKeys ==
  ASSUME KeysInv, NEW t \in Tabs, NEW r \in Requests, Press(t, r)
  PROVE  KeysAgree'
<1> DEFINE key == IF HoldsKey(t) THEN page[t].key ELSE NewKey(t)
           visit == page[t].visit
<1>0. /\ \A u \in Tabs : page[u].visit \in Nat /\ page[u].key \in Nat /\ pressed[u] \in Nat
      /\ page \in [Tabs -> Pages] /\ pressed \in [Tabs -> Nat]
      /\ request \in [Requests -> RequestRows] /\ Nobody \notin Tabs
  BY OrderAssumption DEF KeysInv, TypeOK, Pages
<1>1. /\ page'[t].key = key /\ page'[t].visit = visit
      /\ pressed'[t] = pressed[t] + 1
      /\ \A u \in Tabs \ {t} : page'[u] = page[u] /\ pressed'[u] = pressed[u]
      /\ renewed \subseteq renewed'
  BY <1>0 DEF Press, Signed, Pages
<1>2. /\ request'[r].by = t /\ request'[r].key = key /\ request'[r].visit = visit
      /\ request[r].by = Nobody
      /\ \A q \in Requests \ {r} : request'[q] = request[q]
      /\ order' = order
  BY <1>0 DEF Press, Idle, rowVars
<1>3. key \in Nat /\ key >= 1 /\ key <= pressed[t] + 1
  BY <1>0 DEF HoldsKey, NewKey, NoKey, KeysInv, KeysAgree, HeldIsOfVisit
<1> HIDE DEF key
<1>4. ASSUME NEW u \in Tabs, NEW k \in Nat, NEW v \in Nat, <<u, k, v>> \in Sent'
      PROVE  <<u, k, v>> \in Sent \/ (u = t /\ k = key /\ v = visit)
  BY <1>2, <1>4 DEF Sent
(* What was sent in this visit with another key. *)
<1>5. ASSUME NEW l \in Nat, <<t, l, visit>> \in Sent, l # key
      PROVE  <<t, visit>> \in renewed'
  <2>1. CASE l # page[t].key
    BY <1>0, <1>1, <1>5, <2>1 DEF KeysInv, KeysAgree, OtherKeyRenewed
  <2>2. CASE l = page[t].key
    <3>1. l >= 1
      BY <1>0, <1>5 DEF KeysInv, KeysAgree, SentBefore
    <3>2. page[t].key # NoKey /\ ~HoldsKey(t)
      BY <1>5, <2>2, <3>1 DEF NoKey, key
    <3> QED BY <3>2 DEF Press
  <2> QED BY <2>1, <2>2
(* Nothing was sent with this key in another visit. *)
<1>6. ASSUME NEW v \in Nat, <<t, key, v>> \in Sent PROVE v = visit
  <2>1. CASE HoldsKey(t)
    BY <1>0, <1>6, <2>1 DEF key, HoldsKey, KeysInv, KeysAgree, HeldIsOfVisit
  <2>2. CASE ~HoldsKey(t)
    <3>1. key = pressed[t] + 1
      BY <2>2 DEF key, NewKey
    <3>2. key <= pressed[t]
      BY <1>3, <1>6 DEF KeysInv, KeysAgree, SentBefore
    <3> QED BY <1>0, <3>1, <3>2
  <2> QED BY <2>1, <2>2
<1>7. SentBefore'
  <2> SUFFICES ASSUME NEW u \in Tabs, NEW k \in Nat, NEW v \in Nat, <<u, k, v>> \in Sent'
               PROVE  k >= 1 /\ k <= pressed'[u] /\ v <= page'[u].visit
    BY DEF SentBefore
  <2>1. CASE <<u, k, v>> \in Sent
    <3>1. k >= 1 /\ k <= pressed[u] /\ v <= page[u].visit
      BY <2>1 DEF KeysInv, KeysAgree, SentBefore
    <3> QED BY <1>0, <1>1, <3>1
  <2>2. CASE u = t /\ k = key /\ v = visit
    BY <1>0, <1>1, <1>3, <2>2
  <2> QED BY <1>4, <2>1, <2>2
<1>8. HeldIsOfVisit'
  <2> SUFFICES ASSUME NEW u \in Tabs, page'[u].key # NoKey
               PROVE  /\ page'[u].key <= pressed'[u]
                      /\ \A v \in Nat : <<u, page'[u].key, v>> \in Sent' => v = page'[u].visit
    BY DEF HeldIsOfVisit
  <2>1. CASE u = t
    BY <1>1, <1>3, <1>4, <1>6, <2>1
  <2>2. CASE u # t
    BY <1>0, <1>1, <1>4, <2>2 DEF KeysInv, KeysAgree, HeldIsOfVisit
  <2> QED BY <2>1, <2>2
<1>9. OneVisitOfKey'
  <2> SUFFICES ASSUME NEW u \in Tabs, NEW k \in Nat, NEW v \in Nat, NEW w \in Nat,
                      <<u, k, v>> \in Sent', <<u, k, w>> \in Sent'
               PROVE  v = w
    BY DEF OneVisitOfKey
  <2>1. CASE <<u, k, v>> \in Sent /\ <<u, k, w>> \in Sent
    BY <2>1 DEF KeysInv, KeysAgree, OneVisitOfKey
  <2>2. CASE u = t /\ k = key
    BY <1>4, <1>6, <2>2
  <2> QED BY <1>4, <2>1, <2>2
<1>10. TwoKeysRenewed'
  <2> SUFFICES ASSUME NEW u \in Tabs, NEW k \in Nat, NEW l \in Nat, NEW v \in Nat,
                      <<u, k, v>> \in Sent', <<u, l, v>> \in Sent', k # l
               PROVE  <<u, v>> \in renewed'
    BY DEF TwoKeysRenewed
  <2>1. CASE <<u, k, v>> \in Sent /\ <<u, l, v>> \in Sent
    BY <1>1, <2>1 DEF KeysInv, KeysAgree, TwoKeysRenewed
  <2>2. CASE u = t /\ v = visit
    BY <1>4, <1>5, <2>2
  <2> QED BY <1>4, <2>1, <2>2
<1>11. OtherKeyRenewed'
  <2> SUFFICES ASSUME NEW u \in Tabs, NEW k \in Nat,
                      <<u, k, page'[u].visit>> \in Sent', k # page'[u].key
               PROVE  <<u, page'[u].visit>> \in renewed'
    BY DEF OtherKeyRenewed
  <2>1. CASE u = t
    BY <1>0, <1>1, <1>4, <1>5, <2>1
  <2>2. CASE u # t
    BY <1>0, <1>1, <1>4, <2>2 DEF KeysInv, KeysAgree, OtherKeyRenewed
  <2> QED BY <2>1, <2>2
<1> QED
  BY <1>7, <1>8, <1>9, <1>10, <1>11 DEF KeysAgree

-----------------------------------------------------------------------------
(* The other steps send nothing, and end a page's key as the page is meant to. *)

LEMMA SentIs ==
  ASSUME NEW x
  PROVE  x \in Sent <=>
           \/ \E r \in Requests : x = <<request[r].by, request[r].key, request[r].visit>>
           \/ \E o \in Orders : x = <<order[o].by, order[o].key, order[o].visit>>
BY DEF Sent

(* A request that goes on, or is over, bears no other key. *)
LEMMA RequestsGoOn ==
  ASSUME TypeOK, order' = order,
         \A r \in Requests :
           \/ request'[r].by = Nobody
           \/ /\ request'[r].by = request[r].by /\ request'[r].key = request[r].key
              /\ request'[r].visit = request[r].visit
  PROVE  NothingSent
BY OrderAssumption DEF NothingSent, Sent

LEMMA StepsGoOn ==
  ASSUME TypeOK, NEW r \in Requests,
         \/ \E step \in Steps : GoOn(r, step)
         \/ \E o \in Orders : AnswerWith(r, o)
         \/ request' = [request EXCEPT ![r] = Idle]
         \/ \E deal \in BOOLEAN :
              request' = [request EXCEPT ![r].step = "priced", ![r].deal = deal]
  PROVE  \A q \in Requests :
           \/ request'[q].by = Nobody
           \/ /\ request'[q].by = request[q].by /\ request'[q].key = request[q].key
              /\ request'[q].visit = request[q].visit
<1>1. request \in [Requests -> RequestRows]
  BY DEF TypeOK
<1>2. ASSUME NEW row, request' = [request EXCEPT ![r] = row],
             row.by = request[r].by, row.key = request[r].key, row.visit = request[r].visit
      PROVE  \A q \in Requests :
               /\ request'[q].by = request[q].by /\ request'[q].key = request[q].key
               /\ request'[q].visit = request[q].visit
  BY <1>1, <1>2
<1>3. CASE request' = [request EXCEPT ![r] = Idle]
  BY <1>1, <1>3 DEF Idle
<1>4. ASSUME NEW step \in Steps, GoOn(r, step)
      PROVE  request' = [request EXCEPT ![r] = [request[r] EXCEPT !.step = step]]
  BY <1>4 DEF GoOn
<1>5. ASSUME NEW o \in Orders, AnswerWith(r, o)
      PROVE  request' = [request EXCEPT ![r] = [request[r] EXCEPT !.step = "answered", !.answer = o]]
  BY <1>1, <1>5 DEF AnswerWith
<1>6. ASSUME NEW deal \in BOOLEAN,
             request' = [request EXCEPT ![r].step = "priced", ![r].deal = deal]
      PROVE  request' = [request EXCEPT ![r] = [request[r] EXCEPT !.step = "priced", !.deal = deal]]
  BY <1>1, <1>6
<1>7. /\ \A step \in Steps :
             LET row == [request[r] EXCEPT !.step = step]
             IN  row.by = request[r].by /\ row.key = request[r].key /\ row.visit = request[r].visit
      /\ \A o \in Orders :
             LET row == [request[r] EXCEPT !.step = "answered", !.answer = o]
             IN  row.by = request[r].by /\ row.key = request[r].key /\ row.visit = request[r].visit
      /\ \A deal \in BOOLEAN :
             LET row == [request[r] EXCEPT !.step = "priced", !.deal = deal]
             IN  row.by = request[r].by /\ row.key = request[r].key /\ row.visit = request[r].visit
  BY <1>1 DEF RequestRows
<1>8. CASE \E step \in Steps : GoOn(r, step)
  BY <1>2, <1>4, <1>7, <1>8
<1>9. CASE \E o \in Orders : AnswerWith(r, o)
  BY <1>2, <1>5, <1>7, <1>9
<1>10. CASE \E deal \in BOOLEAN :
              request' = [request EXCEPT ![r].step = "priced", ![r].deal = deal]
  BY <1>2, <1>6, <1>7, <1>10
<1> QED
  BY <1>3, <1>8, <1>9, <1>10

LEMMA AnswersKeepKeys ==
  ASSUME KeysInv, NEW r \in Requests,
         ReceiveOrder(r) \/ ReceiveRefusal(r) \/ FailRequest(r)
  PROVE  KeysAgree'
<1> DEFINE t == request[r].by
<1>0. /\ page \in [Tabs -> Pages] /\ request \in [Requests -> RequestRows]
      /\ t \in Tabs /\ Nobody \notin Tabs
  BY OrderAssumption DEF KeysInv, TypeOK, RequestRows, ReceiveOrder, ReceiveRefusal, FailRequest
<1>1. /\ request' = [request EXCEPT ![r] = Idle] /\ order' = order
      /\ pressed' = pressed /\ renewed \subseteq renewed'
  BY DEF ReceiveOrder, ReceiveRefusal, FailRequest, Settle, rowVars
<1>2. NothingSent
  BY <1>1, StepsGoOn, RequestsGoOn DEF KeysInv
<1>3. ASSUME NEW u \in Tabs PROVE PageGoesOn(u)
  <2>1. CASE page' = page
    BY <2>1 DEF PageGoesOn
  <2>2. CASE Waits(r)
    <3>1. page[t] \in Pages /\ page[t].visit + 1 \in Nat
      BY <1>0 DEF Pages
    <3>2. CASE u # t
      BY <1>0, <2>2, <3>2 DEF ReceiveOrder, ReceiveRefusal, FailRequest, Settle, PageGoesOn
    <3>3. CASE u = t /\ ReceiveOrder(r)
      <4>1. page'[t] = AfterSuccess(t)
        BY <1>0, <2>2, <3>3 DEF ReceiveOrder, Settle
      <4>2. AfterSuccess(t).key = NoKey /\ AfterSuccess(t).visit = page[t].visit + 1
        BY DEF AfterSuccess, Fresh
      <4> QED BY <3>3, <4>1, <4>2 DEF PageGoesOn
    <3>4. CASE u = t /\ ReceiveRefusal(r)
      <4>1. /\ page'[t] = [page[t] EXCEPT !.waits = Nobody, !.key = NoKey]
            /\ <<t, page[t].visit>> \in renewed'
        BY <1>0, <2>2, <3>4 DEF ReceiveRefusal, Settle
      <4>2. page'[t].key = NoKey /\ page'[t].visit = page[t].visit
        BY <3>1, <4>1 DEF Pages
      <4> QED BY <3>4, <4>1, <4>2 DEF PageGoesOn
    <3>5. CASE u = t /\ FailRequest(r)
      <4>1. page'[t] = [page[t] EXCEPT !.waits = Nobody]
        BY <1>0, <2>2, <3>5 DEF FailRequest, Settle
      <4>2. page'[t].key = page[t].key /\ page'[t].visit = page[t].visit
        BY <3>1, <4>1 DEF Pages
      <4> QED BY <3>5, <4>2 DEF PageGoesOn
    <3> QED BY <3>2, <3>3, <3>4, <3>5
  <2> QED BY <2>1, <2>2 DEF ReceiveOrder, ReceiveRefusal, FailRequest, Settle
<1> QED
  BY <1>1, <1>2, <1>3, QuietStepKeepsKeys

LEMMA PagesKeepKeys ==
  ASSUME KeysInv, NEW t \in Tabs,
         LoseAnswer(t) \/ ExpireKey(t) \/ \E kind \in Buttons[t] : ShowTotal(t, kind)
  PROVE  KeysAgree'
<1>0. page \in [Tabs -> Pages] /\ page[t] \in Pages
  BY DEF KeysInv, TypeOK
<1>1. request' = request /\ order' = order /\ pressed' = pressed /\ renewed' = renewed
  BY DEF LoseAnswer, ExpireKey, ShowTotal, rowVars
<1>2. NothingSent
  BY <1>1 DEF NothingSent, Sent
<1>3. ASSUME NEW u \in Tabs PROVE PageGoesOn(u)
  <2>1. CASE u # t
    BY <1>0, <2>1 DEF LoseAnswer, ExpireKey, ShowTotal, PageGoesOn
  <2>2. CASE u = t /\ ~ExpireKey(t)
    BY <1>0, <2>2 DEF LoseAnswer, ShowTotal, PageGoesOn, Pages
  <2>3. CASE u = t /\ ExpireKey(t)
    <3>1. page'[t] = [page[t] EXCEPT !.key = NoKey, !.visit = @ + 1]
      BY <1>0, <2>3 DEF ExpireKey
    <3>2. page'[t].key = NoKey /\ page'[t].visit = page[t].visit + 1
      BY <1>0, <3>1 DEF Pages
    <3> QED BY <2>3, <3>2 DEF PageGoesOn
  <2> QED BY <2>1, <2>2, <2>3
<1> QED
  BY <1>1, <1>2, <1>3, QuietStepKeepsKeys

(* An order takes its key from the request that places it. *)
LEMMA ServerKeepsKeys ==
  ASSUME KeysInv, NEW r \in Requests,
         LookUpKey(r) \/ ReadAndPrice(r) \/ Commit(r) \/ RollBack(r)
  PROVE  KeysAgree'
<1>0. /\ page' = page /\ pressed' = pressed /\ renewed' = renewed
      /\ TypeOK /\ request \in [Requests -> RequestRows] /\ order \in [Orders -> OrderRows]
  BY DEF LookUpKey, ReadAndPrice, Commit, RollBack, customerVars, KeysInv, TypeOK
<1>1. \A q \in Requests :
        \/ request'[q].by = Nobody
        \/ /\ request'[q].by = request[q].by /\ request'[q].key = request[q].key
           /\ request'[q].visit = request[q].visit
  <2>1. Usable("deal", Owner[request[r].by]) \in BOOLEAN
    BY <1>0 DEF Usable, TypeOK, Promotions
  <2>2. \/ \E step \in Steps : GoOn(r, step)
        \/ \E o \in Orders : AnswerWith(r, o)
        \/ \E deal \in BOOLEAN :
             request' = [request EXCEPT ![r].step = "priced", ![r].deal = deal]
    BY <2>1 DEF LookUpKey, ReadAndPrice, Commit, RollBack, KeyHolder, Placed, Steps
  <2> QED BY <1>0, <2>2, StepsGoOn
<1>2. NothingSent
  <2>1. CASE order' = order
    BY <1>0, <1>1, <2>1, RequestsGoOn
  <2>2. ASSUME NEW o \in Orders, WriteOrder(r, o) PROVE NothingSent
    <3>1. /\ order'[o].by = request[r].by /\ order'[o].key = request[r].key
          /\ order'[o].visit = request[r].visit
          /\ \A p \in Orders \ {o} : order'[p] = order[p]
      BY <1>0, <2>2 DEF WriteOrder, OrderOf
    <3> SUFFICES ASSUME NEW t \in Tabs, NEW k \in Nat, NEW v \in Nat, <<t, k, v>> \in Sent'
                 PROVE  <<t, k, v>> \in Sent
      BY DEF NothingSent
    <3>2. CASE \E q \in Requests :
                 <<t, k, v>> = <<request'[q].by, request'[q].key, request'[q].visit>>
      BY <1>1, <3>2, OrderAssumption DEF Sent
    <3>3. CASE \E p \in Orders : <<t, k, v>> = <<order'[p].by, order'[p].key, order'[p].visit>>
      BY <3>1, <3>3 DEF Sent
    <3> QED BY <3>2, <3>3 DEF Sent
  <2> QED
    BY <2>1, <2>2 DEF LookUpKey, ReadAndPrice, Commit, RollBack, rowVars
<1> QED
  BY <1>0, <1>2, QuietStepKeepsKeys DEF PageGoesOn

LEMMA KeysStep == ASSUME KeysInv, Next PROVE KeysAgree'
<1>1. CASE \/ \E o \in Orders : CancelOrder(o)
           \/ \E o \in Orders, d \in Dishes : CancelDish(o, d)
  <2>1. /\ page' = page /\ pressed' = pressed /\ renewed' = renewed /\ request' = request
    BY <1>1 DEF CancelOrder, CancelDish, customerVars
  <2>2. \A p \in Orders : /\ order'[p].by = order[p].by /\ order'[p].key = order[p].key
                          /\ order'[p].visit = order[p].visit
    <3>0. order \in [Orders -> OrderRows]
      BY DEF KeysInv, TypeOK
    <3>1. ASSUME NEW o \in Orders, NEW live, NEW amount, Refund(o, live, amount)
          PROVE  \A p \in Orders : /\ order'[p].by = order[p].by /\ order'[p].key = order[p].key
                                   /\ order'[p].visit = order[p].visit
      <4>1. order' = [order EXCEPT ![o] =
                        [order[o] EXCEPT !.live = live, !.refunded = @ + amount]]
        BY <3>0, <3>1 DEF Refund
      <4> QED BY <3>0, <4>1 DEF OrderRows
    <3> QED BY <1>1, <3>1 DEF CancelOrder, CancelDish
  <2>3. NothingSent
    BY <2>1, <2>2 DEF NothingSent, Sent
  <2> QED BY <2>1, <2>3, QuietStepKeepsKeys DEF PageGoesOn
<1>2. CASE \/ \E d \in Edited : OpenForm(d) \/ SaveForm(d)
           \/ OpenOrClose
           \/ \E p \in Changing : SwitchPromotion(p) \/ \E limit \in UseLimits : SetLimit(p, limit)
  <2>1. /\ page' = page /\ pressed' = pressed /\ renewed' = renewed
        /\ request' = request /\ order' = order
    BY <1>2 DEF OpenForm, SaveForm, OpenOrClose, SwitchPromotion, SetLimit, Edit, customerVars
  <2>2. NothingSent
    BY <2>1 DEF NothingSent, Sent
  <2> QED BY <2>1, <2>2, QuietStepKeepsKeys DEF PageGoesOn
<1> QED
  BY <1>1, <1>2, PressKeepsKeys, AnswersKeepKeys, PagesKeepKeys, ServerKeepsKeys DEF Next

-----------------------------------------------------------------------------
(* A key is on one order of its page, and an answer is of the visit that asked. *)

OneOrderOfKey ==
  \A o, p \in Placed : o # p /\ order[o].by = order[p].by => order[o].key # order[p].key

CheckoutInv == KeysInv /\ OneOrderOfKey /\ AnswerIsThisVisit

LEMMA OneOrderStep == ASSUME CheckoutInv, Next PROVE OneOrderOfKey'
<1> SUFFICES ASSUME NEW o \in Placed', NEW p \in Placed', o # p, order'[o].by = order'[p].by
             PROVE  order'[o].key # order'[p].key
  BY DEF OneOrderOfKey
<1>0. TypeOK /\ o \in Orders /\ p \in Orders /\ order \in [Orders -> OrderRows]
  BY DEF CheckoutInv, KeysInv, TypeOK, Placed
<1>1. ASSUME NEW q \in Orders,
             order'[q] = [order[q] EXCEPT !.live = order'[q].live, !.refunded = order'[q].refunded]
      PROVE  order'[q].by = order[q].by /\ order'[q].key = order[q].key
  BY <1>0, <1>1 DEF OrderRows
<1>2. ASSUME NEW q \in Orders, NEW other \in Orders, other # q, order'[other].by = order'[q].by,
             other \in Placed', NEW r \in Requests, q \notin Placed,
             KeyHolder(request[r].by, request[r].key) = {}, WriteOrder(r, q)
      PROVE  order'[q].key # order'[other].key
  <2>1. /\ order'[q].by = request[r].by /\ order'[q].key = request[r].key
        /\ order'[other] = order[other]
    BY <1>0, <1>2 DEF WriteOrder, OrderOf
  <2>2. other \in Placed
    BY <1>2, <2>1 DEF Placed
  <2> QED BY <1>2, <2>1, <2>2 DEF KeyHolder
<1>3. CASE /\ order'[o] = [order[o] EXCEPT !.live = order'[o].live, !.refunded = order'[o].refunded]
           /\ order'[p] = [order[p] EXCEPT !.live = order'[p].live, !.refunded = order'[p].refunded]
  <2>1. o \in Placed /\ p \in Placed
    BY <1>0, <1>1, <1>3 DEF Placed
  <2> QED BY <1>0, <1>1, <1>3, <2>1 DEF CheckoutInv, OneOrderOfKey
<1> QED
  BY <1>0, <1>2, <1>3, OnlyCommitWrites

(* Who is answered was so before, or is answered now by the key or by the order placed. *)
LEMMA HowAnswered ==
  ASSUME TypeOK, Next, NEW r \in Requests, request'[r].step = "answered"
  PROVE  \/ request'[r] = request[r]
         \/ \E o \in KeyHolder(request[r].by, request[r].key) : AnswerWith(r, o) /\ UNCHANGED rowVars
         \/ \E o \in Orders : AnswerWith(r, o) /\ WriteOrder(r, o)
<1>1. ASSUME NEW q \in Requests, request' = [request EXCEPT ![q] = Idle]
      PROVE  request'[r] = request[r]
  BY <1>1 DEF TypeOK, Idle
<1>2. ASSUME NEW q \in Requests, NEW step \in {"checked", "refused"}, GoOn(q, step)
      PROVE  request'[r] = request[r]
  BY <1>2 DEF TypeOK, GoOn, RequestRows
<1>3. ASSUME NEW q \in Requests, NEW o, AnswerWith(q, o), q # r
      PROVE  request'[r] = request[r]
  BY <1>3 DEF TypeOK, AnswerWith
<1>4. ASSUME NEW t \in Tabs, NEW q \in Requests, Press(t, q)
      PROVE  request'[r] = request[r]
  BY <1>4 DEF TypeOK, Press, Idle
<1>5. ASSUME NEW q \in Requests, LookUpKey(q) \/ Commit(q) \/ RollBack(q)
      PROVE  \/ request'[r] = request[r]
             \/ \E o \in KeyHolder(request[r].by, request[r].key) : AnswerWith(r, o) /\ UNCHANGED rowVars
             \/ \E o \in Orders : AnswerWith(r, o) /\ WriteOrder(r, o)
  BY <1>2, <1>3, <1>5 DEF LookUpKey, Commit, RollBack
<1>6. ASSUME NEW q \in Requests, ReceiveOrder(q) \/ ReceiveRefusal(q) \/ FailRequest(q)
      PROVE  request'[r] = request[r]
  BY <1>1, <1>6 DEF ReceiveOrder, ReceiveRefusal, FailRequest, Settle
<1>7. ASSUME NEW q \in Requests, ReadAndPrice(q) PROVE request'[r] = request[r]
  BY <1>7 DEF ReadAndPrice, TypeOK, GoOn, RequestRows
<1>8. CASE \/ \E t \in Tabs : \/ LoseAnswer(t) \/ ExpireKey(t)
                              \/ \E kind \in Buttons[t] : ShowTotal(t, kind)
           \/ \E o \in Orders : CancelOrder(o)
           \/ \E o \in Orders, d \in Dishes : CancelDish(o, d)
           \/ \E d \in Edited : OpenForm(d) \/ SaveForm(d)
           \/ OpenOrClose
           \/ \E p \in Changing : SwitchPromotion(p) \/ \E limit \in UseLimits : SetLimit(p, limit)
  BY <1>8 DEF LoseAnswer, ExpireKey, ShowTotal, CancelOrder, CancelDish, OpenForm, SaveForm,
              OpenOrClose, SwitchPromotion, SetLimit, Edit
<1> QED
  BY <1>4, <1>5, <1>6, <1>7, <1>8 DEF Next

LEMMA AnswerStep == ASSUME CheckoutInv, Next PROVE AnswerIsThisVisit'
<1> SUFFICES ASSUME NEW r \in Requests, request'[r].step = "answered"
             PROVE  /\ request'[r].answer \in Placed'
                    /\ order'[request'[r].answer].by = request'[r].by
                    /\ order'[request'[r].answer].visit = request'[r].visit
  BY DEF AnswerIsThisVisit
<1>0. /\ TypeOK /\ request \in [Requests -> RequestRows] /\ order \in [Orders -> OrderRows]
  BY DEF CheckoutInv, KeysInv, TypeOK
<1>1. CASE request'[r] = request[r]
  <2> DEFINE o == request[r].answer
  <2>1. o \in Placed /\ order[o].by = request[r].by /\ order[o].visit = request[r].visit
    BY <1>1 DEF CheckoutInv, AnswerIsThisVisit
  <2>2. o \in Orders /\ order[o].by # Nobody
    BY <2>1 DEF Placed
  <2>3. order'[o] = [order[o] EXCEPT !.live = order'[o].live, !.refunded = order'[o].refunded]
    <3> HIDE DEF o
    <3> QED BY <1>0, <2>1, <2>2, OnlyCommitWrites
  <2>4. order'[o].by = order[o].by /\ order'[o].visit = order[o].visit
    <3> HIDE DEF o
    <3>1. order[o] \in OrderRows
      BY <1>0, <2>2
    <3> QED BY <2>3, <3>1 DEF OrderRows
  <2> QED BY <1>1, <2>1, <2>2, <2>4 DEF Placed
<1>2. ASSUME NEW o \in KeyHolder(request[r].by, request[r].key),
             AnswerWith(r, o), UNCHANGED rowVars
      PROVE  /\ request'[r].answer \in Placed'
             /\ order'[request'[r].answer].by = request'[r].by
             /\ order'[request'[r].answer].visit = request'[r].visit
  <2>1. /\ request'[r].answer = o /\ request'[r].by = request[r].by
        /\ request'[r].visit = request[r].visit /\ order' = order
    BY <1>0, <1>2 DEF AnswerWith, RequestRows, rowVars
  <2>2. o \in Placed /\ order[o].by = request[r].by /\ order[o].key = request[r].key
    BY DEF KeyHolder
  <2>3. /\ request[r].by \in Tabs /\ request[r].key \in Nat /\ request[r].visit \in Nat
        /\ order[o].visit \in Nat /\ o \in Orders
    BY <1>0, <2>2 DEF Placed, RequestRows, OrderRows
  <2>4. /\ <<request[r].by, request[r].key, request[r].visit>> \in Sent
        /\ <<request[r].by, request[r].key, order[o].visit>> \in Sent
    BY <2>2, <2>3 DEF Sent
  <2>5. order[o].visit = request[r].visit
    BY <2>3, <2>4 DEF CheckoutInv, KeysInv, KeysAgree, OneVisitOfKey
  <2> QED BY <2>1, <2>2, <2>3, <2>5 DEF Placed
<1>3. ASSUME NEW o \in Orders, AnswerWith(r, o), WriteOrder(r, o), request[r].by \in Tabs
      PROVE  /\ request'[r].answer \in Placed'
             /\ order'[request'[r].answer].by = request'[r].by
             /\ order'[request'[r].answer].visit = request'[r].visit
  <2>1. /\ request'[r].answer = o /\ request'[r].by = request[r].by
        /\ request'[r].visit = request[r].visit
    BY <1>0, <1>3 DEF AnswerWith, RequestRows
  <2>2. order'[o].by = request[r].by /\ order'[o].visit = request[r].visit
    BY <1>0, <1>3 DEF WriteOrder, OrderOf
  <2> QED BY <1>3, <2>1, <2>2, OrderAssumption DEF Placed
<1>4. request'[r].by \in Tabs
  BY NextKeepsTypes, <1>0 DEF TypeOK, RequestRows
<1>5. ASSUME NEW o \in Orders, AnswerWith(r, o) PROVE request[r].by \in Tabs
  BY <1>0, <1>4, <1>5 DEF AnswerWith, RequestRows
<1> QED
  BY <1>0, <1>1, <1>2, <1>3, <1>5, HowAnswered

LEMMA CheckoutStep == CheckoutInv /\ [Next]_vars => CheckoutInv'
<1>1. ASSUME CheckoutInv, Next PROVE CheckoutInv'
  BY <1>1, KeysStep, OneOrderStep, AnswerStep, NextKeepsTypes DEF CheckoutInv, KeysInv
<1>2. ASSUME CheckoutInv, UNCHANGED vars PROVE CheckoutInv'
  <2>1. /\ page' = page /\ pressed' = pressed /\ renewed' = renewed
        /\ request' = request /\ order' = order
    BY <1>2 DEF vars, customerVars, rowVars
  <2>2. KeysAgree'
    BY <1>2, <2>1 DEF CheckoutInv, KeysInv, KeysAgree, SentBefore, HeldIsOfVisit, OneVisitOfKey,
                      TwoKeysRenewed, OtherKeyRenewed, Sent
  <2>3. OneOrderOfKey' /\ AnswerIsThisVisit'
    BY <1>2, <2>1 DEF CheckoutInv, OneOrderOfKey, AnswerIsThisVisit, Placed
  <2> QED BY <1>2, <2>2, <2>3, StutterKeepsTypes DEF CheckoutInv, KeysInv
<1> QED
  BY <1>1, <1>2

LEMMA CheckoutInit == Init => CheckoutInv
<1> SUFFICES ASSUME Init PROVE CheckoutInv
  OBVIOUS
<1>1. \A r \in Requests : request[r].by = Nobody /\ request[r].step = "idle"
  BY DEF Init, Idle
<1>2. \A o \in Orders : order[o].by = Nobody
  BY DEF Init, NoOrder
<1>3. \A t \in Tabs : \A k, v \in Nat : <<t, k, v>> \notin Sent
  BY <1>1, <1>2, OrderAssumption DEF Sent
<1>4. \A t \in Tabs : page[t].key = NoKey /\ page[t].visit = 1
  BY DEF Init, Fresh
<1>5. KeysAgree
  BY <1>3, <1>4 DEF KeysAgree, SentBefore, HeldIsOfVisit, OneVisitOfKey, TwoKeysRenewed,
                    OtherKeyRenewed
<1> QED
  BY <1>1, <1>2, <1>5, InitIsTyped
  DEF CheckoutInv, KeysInv, OneOrderOfKey, AnswerIsThisVisit, Placed

(* A press is answered with an order of its own visit, whichever of the requests for
   its key came first. *)
THEOREM AnswersAreOfTheVisit == Spec => []AnswerIsThisVisit
BY CheckoutInit, CheckoutStep, PTL DEF Spec, CheckoutInv

(* Retries of any kind place a second order only after the key was given up. *)
THEOREM RepeatsNeedANewKey == Spec => []RepeatNeedsNewKey
<1>1. CheckoutInv => RepeatNeedsNewKey
  <2> SUFFICES ASSUME CheckoutInv, NEW t \in Tabs, NEW visit \in Nat, Repeated(t, visit)
               PROVE  <<t, visit>> \in renewed
    BY BoundAssumption DEF RepeatNeedsNewKey
  <2>1. PICK o, p \in Placed : /\ o # p
                               /\ order[o].by = t /\ order[p].by = t
                               /\ order[o].visit = visit /\ order[p].visit = visit
    BY DEF Repeated
  <2>2. order[o].key # order[p].key
    BY <2>1 DEF CheckoutInv, OneOrderOfKey
  <2>3. /\ order[o].key \in Nat /\ order[p].key \in Nat
        /\ <<t, order[o].key, visit>> \in Sent /\ <<t, order[p].key, visit>> \in Sent
    BY <2>1 DEF Sent, Placed, CheckoutInv, KeysInv, TypeOK, OrderRows
  <2> QED BY <2>2, <2>3 DEF CheckoutInv, KeysInv, KeysAgree, TwoKeysRenewed
<1> QED
  BY <1>1, CheckoutInit, CheckoutStep, PTL DEF Spec

-----------------------------------------------------------------------------
(* The wallet: what each of its orders keeps is taken from the balance when it is
   placed, and put back as it is refunded. *)

Kept == [o \in Orders |-> Owed(o)]

KeptOf(u) == SumFunctionOnSet(Kept, OrdersOf(u))

WalletParts == WalletIsKept /\ \A o \in Orders : Owed(o) \in Nat

WalletInv == TypeOK /\ WalletParts

LEMMA OrdersFinite ==
  ASSUME NEW u \in Customers
  PROVE  OrdersOf(u) \subseteq Orders /\ IsFiniteSet(OrdersOf(u))
<1>1. OrdersOf(u) \subseteq Orders
  BY DEF OrdersOf, Placed
<1> QED BY <1>1, OrderAssumption, FS_Subset

LEMMA KeptIs ==
  ASSUME WalletInv, NEW u \in Customers
  PROVE  /\ KeptOf(u) \in Int /\ wallet[u] \in Int /\ wallet[u] >= 0
         /\ wallet[u] + KeptOf(u) = TopUp[u]
         /\ \A o \in Orders : Kept[o] \in Int
<1>1. \A o \in Orders : Kept[o] \in Int
  BY DEF WalletInv, WalletParts, Kept
<1>2. KeptOf(u) \in Int
  <2>1. \A o \in OrdersOf(u) : Kept[o] \in Int
    BY <1>1, OrdersFinite
  <2> QED BY <2>1, OrdersFinite, SumInt DEF KeptOf
<1>3. wallet[u] \in Int
  BY DEF WalletInv, TypeOK
<1>4. wallet[u] >= 0 /\ wallet[u] + KeptOf(u) = TopUp[u]
  BY DEF WalletInv, WalletParts, WalletIsKept, KeptOf, Kept
<1> QED BY <1>1, <1>2, <1>3, <1>4

(* One customer's orders and balance, after a step. *)
LEMMA WalletAfter ==
  ASSUME \A o \in Orders : Owed(o)' \in Nat,
         \A u \in Customers : wallet'[u] >= 0 /\ wallet'[u] + KeptOf(u)' = TopUp[u]
  PROVE  WalletParts'
BY DEF WalletParts, WalletIsKept, KeptOf, Kept

LEMMA WalletSame ==
  ASSUME WalletInv, wallet' = wallet, order' = order
  PROVE  WalletParts'
<1>1. \A o \in Orders : Owed(o)' = Owed(o)
  BY DEF Owed
<1>2. WalletIsKept'
  BY DEF WalletInv, WalletParts, WalletIsKept, Owed, OrdersOf, Placed
<1> QED BY <1>1, <1>2 DEF WalletInv, WalletParts

(* What one customer's orders keep is unchanged while none of them moves. *)
LEMMA OthersKeep ==
  ASSUME WalletInv, NEW u \in Customers, wallet'[u] = wallet[u],
         OrdersOf(u)' = OrdersOf(u), \A o \in OrdersOf(u) : Owed(o)' = Owed(o)
  PROVE  wallet'[u] >= 0 /\ wallet'[u] + KeptOf(u)' = TopUp[u]
<1>1. \A o \in OrdersOf(u) : Kept'[o] = Kept[o]
  <2>1. \A o \in OrdersOf(u) : o \in Orders
    BY OrdersFinite
  <2> QED BY <2>1 DEF Kept
<1>2. SumFunctionOnSet(Kept', OrdersOf(u)) = SumFunctionOnSet(Kept, OrdersOf(u))
  BY <1>1, OrdersFinite, SumSame
<1>3. KeptOf(u)' = KeptOf(u)
  <2>1. KeptOf(u)' = SumFunctionOnSet(Kept', OrdersOf(u)')
    BY DEF KeptOf
  <2> QED BY <1>2, <2>1 DEF KeptOf
<1> QED BY <1>3, KeptIs

LEMMA RefundKeepsWallet ==
  ASSUME WalletInv, NEW o \in Orders, order[o].live # {}, NEW live, NEW amount \in Nat,
         amount <= Owed(o), Refund(o, live, amount)
  PROVE  WalletParts'
<1> DEFINE owner == Owner[order[o].by]
<1>0. /\ TypeOK /\ order \in [Orders -> OrderRows] /\ order[o].by \in Tabs /\ order[o].by # Nobody
      /\ owner \in Customers /\ wallet \in [Customers -> Int] /\ Owed(o) \in Nat
  BY TabAssumption DEF WalletInv, TypeOK, OrderRows, WalletParts
<1>1. /\ order'[o].by = order[o].by /\ order'[o].total = order[o].total
      /\ order'[o].wallet = order[o].wallet /\ order'[o].refunded = order[o].refunded + amount
      /\ \A p \in Orders \ {o} : order'[p] = order[p]
      /\ \A p \in Orders : order'[p].by = order[p].by
  <2>1. order' = [order EXCEPT ![o] = [order[o] EXCEPT !.live = live, !.refunded = @ + amount]]
    BY <1>0 DEF Refund
  <2> QED BY <1>0, <2>1 DEF OrderRows
<1>2. Owed(o)' = Owed(o) - amount /\ Owed(o)' \in Nat
  <2>1. order[o].total \in Int /\ order[o].refunded \in Int /\ order[o].wallet \in BOOLEAN
    BY <1>0 DEF OrderRows
  <2>2. CASE order[o].wallet
    <3>1. Owed(o) = order[o].total - order[o].refunded
          /\ Owed(o)' = order[o].total - (order[o].refunded + amount)
      BY <1>1, <2>2 DEF Owed
    <3> QED BY <1>0, <2>1, <3>1
  <2>3. CASE ~order[o].wallet
    <3>1. Owed(o) = 0 /\ Owed(o)' = 0
      BY <1>1, <2>3 DEF Owed
    <3> QED BY <3>1
  <2> QED BY <2>2, <2>3
<1>3. \A p \in Orders \ {o} : Owed(p)' = Owed(p)
  BY <1>1 DEF Owed
<1>4. \A p \in Orders : Owed(p)' \in Nat
  BY <1>2, <1>3 DEF WalletInv, WalletParts
<1>5. \A u \in Customers : OrdersOf(u)' = OrdersOf(u)
  BY <1>1 DEF OrdersOf, Placed
<1>6. /\ wallet'[owner] = wallet[owner] + amount
      /\ \A u \in Customers \ {owner} : wallet'[u] = wallet[u]
  BY <1>0 DEF Refund
<1>7. ASSUME NEW u \in Customers PROVE wallet'[u] >= 0 /\ wallet'[u] + KeptOf(u)' = TopUp[u]
  <2>1. CASE u # owner
    <3>1. o \notin OrdersOf(u) /\ OrdersOf(u) \subseteq Orders
      BY <2>1, OrdersFinite DEF OrdersOf
    <3>2. \A p \in OrdersOf(u) : Owed(p)' = Owed(p)
      BY <1>3, <3>1
    <3> QED BY <1>5, <1>6, <2>1, <3>2, OthersKeep
  <2>2. CASE u = owner
    <3>1. o \in OrdersOf(u)
      BY <1>0, <2>2 DEF OrdersOf, Placed
    <3>2. /\ \A p \in OrdersOf(u) : Kept[p] \in Int
          /\ Kept'[o] = Kept[o] - amount /\ Kept'[o] \in Int /\ Kept[o] \in Int
          /\ \A p \in OrdersOf(u) \ {o} : Kept'[p] = Kept[p]
      <4>1. OrdersOf(u) \subseteq Orders
        BY OrdersFinite
      <4>2. \A p \in Orders : Kept[p] = Owed(p) /\ Kept'[p] = Owed(p)'
        BY DEF Kept
      <4>3. \A p \in Orders : Owed(p) \in Nat
        BY DEF WalletInv, WalletParts
      <4> QED BY <1>2, <1>3, <4>1, <4>2, <4>3
    <3>3. SumFunctionOnSet(Kept', OrdersOf(u)) =
            SumFunctionOnSet(Kept, OrdersOf(u)) - Kept[o] + Kept'[o]
      BY <3>1, <3>2, OrdersFinite, SumUpdate
    <3>4. KeptOf(u)' = SumFunctionOnSet(Kept', OrdersOf(u))
      BY <1>5 DEF KeptOf
    <3>5. KeptOf(u)' = KeptOf(u) - Kept[o] + Kept'[o]
      BY <3>3, <3>4 DEF KeptOf
    <3> DEFINE w == wallet[u]
               k == KeptOf(u)
               a == Kept[o]
               b == Kept'[o]
    <3>6. w \in Int /\ k \in Int /\ a \in Int /\ b \in Int /\ w >= 0 /\ w + k = TopUp[u] /\ b = a - amount
      BY <3>2, KeptIs
    <3>7. wallet'[u] = w + amount /\ KeptOf(u)' = k - a + b
      BY <1>6, <2>2, <3>5
    <3> HIDE DEF w, k, a, b
    <3>8. w + amount >= 0 /\ (w + amount) + (k - a + b) = w + k
      BY <3>6
    <3> QED BY <3>6, <3>7, <3>8
  <2> QED BY <2>1, <2>2
<1> QED BY <1>4, <1>7, WalletAfter

LEMMA CommitKeepsWallet ==
  ASSUME WalletInv, NEW r \in Requests, Commit(r)
  PROVE  WalletParts'
<1> DEFINE t == request[r].by
           owner == Owner[t]
           price == Charge(r)
<1>0. /\ TypeOK /\ order \in [Orders -> OrderRows] /\ t \in Tabs /\ t # Nobody
      /\ owner \in Customers /\ wallet \in [Customers -> Int] /\ request[r].step = "priced"
  BY TabAssumption DEF WalletInv, TypeOK, RequestRows, Commit
<1>1. CASE UNCHANGED rowVars
  BY <1>1, WalletSame DEF rowVars
<1>2. ASSUME NEW o \in Orders \ Placed, MayCommit(r), WriteOrder(r, o)
      PROVE  WalletParts'
  <2>1. price \in Nat
    BY <1>0, ChargeIsNat DEF Charge
  <2>2. /\ order'[o].by = t /\ order'[o].total = price
        /\ order'[o].wallet = (owner \in ByWallet) /\ order'[o].refunded = 0
        /\ \A p \in Orders \ {o} : order'[p] = order[p]
    BY <1>0, <1>2, <2>1 DEF WriteOrder, OrderOf
  <2>3. /\ Owed(o)' = IF owner \in ByWallet THEN price ELSE 0
        /\ \A p \in Orders \ {o} : Owed(p)' = Owed(p)
    <3> HIDE DEF price, owner
    <3>1. CASE owner \in ByWallet
      <4>1. Owed(o)' = price - 0
        BY <2>2, <3>1 DEF Owed
      <4>2. price - 0 = price
        BY <2>1
      <4> QED BY <2>2, <3>1, <4>1, <4>2 DEF Owed
    <3>2. CASE owner \notin ByWallet
      BY <2>2, <3>2 DEF Owed
    <3> QED BY <3>1, <3>2
  <2>4. \A p \in Orders : Owed(p)' \in Nat
    BY <2>1, <2>3 DEF WalletInv, WalletParts
  <2>5. \A u \in Customers :
          /\ o \notin OrdersOf(u)
          /\ OrdersOf(u)' = IF u = owner THEN OrdersOf(u) \union {o} ELSE OrdersOf(u)
    <3>1. Placed' = Placed \union {o} /\ o \notin Placed
      BY <1>0, <2>2 DEF Placed
    <3>2. /\ \A p \in Placed : order'[p].by = order[p].by
          /\ order'[o].by = t
      BY <2>2, <3>1 DEF Placed
    <3> SUFFICES ASSUME NEW u \in Customers
                 PROVE  /\ o \notin OrdersOf(u)
                        /\ OrdersOf(u)' = IF u = owner THEN OrdersOf(u) \union {o} ELSE OrdersOf(u)
      OBVIOUS
    <3>3. OrdersOf(u)' = {p \in Placed' : Owner[order'[p].by] = u}
      BY DEF OrdersOf
    <3>4. OrdersOf(u) = {p \in Placed : Owner[order[p].by] = u}
      BY DEF OrdersOf
    <3> QED BY <3>1, <3>2, <3>3, <3>4
  <2>6. \A u \in Customers :
          wallet'[u] = IF u = owner /\ owner \in ByWallet THEN wallet[u] - price ELSE wallet[u]
    BY <1>0, <1>2 DEF WriteOrder
  <2>7. owner \in ByWallet => wallet[owner] >= price
    BY <1>2 DEF MayCommit, MoneyLeft
  <2> HIDE DEF price
  <2>8. ASSUME NEW u \in Customers PROVE wallet'[u] >= 0 /\ wallet'[u] + KeptOf(u)' = TopUp[u]
    <3>0. \A p \in OrdersOf(u) : p \in Orders \ {o}
      BY <2>5, OrdersFinite
    <3>1. CASE u # owner
      <4>1. \A p \in OrdersOf(u) : Owed(p)' = Owed(p)
        BY <2>3, <3>0
      <4> QED BY <2>5, <2>6, <3>1, <4>1, OthersKeep
    <3>2. CASE u = owner
      <4>1. /\ \A p \in OrdersOf(u) : Kept'[p] = Kept[p] /\ Kept'[p] \in Int
            /\ Kept'[o] = Owed(o)' /\ Kept'[o] \in Int
        <5>1. \A p \in Orders : Kept[p] = Owed(p) /\ Kept'[p] = Owed(p)'
          BY DEF Kept
        <5> QED BY <2>3, <2>4, <3>0, <5>1
      <4>2. SumFunctionOnSet(Kept', OrdersOf(u)) = SumFunctionOnSet(Kept, OrdersOf(u))
        BY <4>1, OrdersFinite, SumSame
      <4>3. SumFunctionOnSet(Kept', OrdersOf(u) \cup {o}) =
              Kept'[o] + SumFunctionOnSet(Kept', OrdersOf(u))
        BY <2>5, <4>1, OrdersFinite, SumAdd
      <4>4. KeptOf(u)' = SumFunctionOnSet(Kept', OrdersOf(u)')
        BY DEF KeptOf
      <4>5. KeptOf(u)' = Owed(o)' + KeptOf(u)
        <5>1. OrdersOf(u)' = OrdersOf(u) \cup {o}
          BY <2>5, <3>2
        <5>2. KeptOf(u)' = Kept'[o] + SumFunctionOnSet(Kept, OrdersOf(u))
          BY <4>2, <4>3, <4>4, <5>1
        <5> QED BY <4>1, <5>2 DEF KeptOf
      <4> DEFINE w == wallet[u]
                 k == KeptOf(u)
                 p == IF owner \in ByWallet THEN price ELSE 0
      <4>6. w \in Int /\ k \in Int /\ p \in Nat /\ w >= p /\ w + k = TopUp[u]
        BY <2>1, <2>7, <3>2, KeptIs
      <4>7. wallet'[u] = w - p /\ KeptOf(u)' = p + k
        BY <2>3, <2>6, <3>2, <4>5, <4>6
      <4> HIDE DEF w, k, p
      <4>8. w - p >= 0 /\ (w - p) + (p + k) = w + k
        BY <4>6
      <4> QED BY <4>6, <4>7, <4>8
    <3> QED BY <3>1, <3>2
  <2> QED BY <2>4, <2>8, WalletAfter
<1> QED BY <1>1, <1>2 DEF Commit

LEMMA WalletStep == WalletInv /\ [Next]_vars => WalletInv'
<1>1. ASSUME WalletInv, UNCHANGED vars PROVE WalletInv'
  <2>1. TypeOK'
    BY <1>1, StutterKeepsTypes DEF WalletInv
  <2> QED BY <1>1, <2>1, WalletSame DEF WalletInv, vars, rowVars
<1>2. ASSUME WalletInv, Next PROVE WalletInv'
  <2>1. TypeOK'
    BY <1>2, NextKeepsTypes DEF WalletInv
  <2>2. CASE \E o \in Orders : CancelOrder(o)
    <3>1. PICK o \in Orders : CancelOrder(o)
      BY <2>2
    <3>2. order[o].live # {} /\ Refund(o, {}, Owed(o)) /\ Owed(o) \in Nat /\ Owed(o) <= Owed(o)
      BY <1>2, <3>1 DEF CancelOrder, WalletInv, WalletParts
    <3> QED BY <1>2, <2>1, <3>2, RefundKeepsWallet DEF WalletInv
  <2>3. CASE \E o \in Orders, d \in Dishes : CancelDish(o, d)
    <3>1. PICK o \in Orders, d \in Dishes : CancelDish(o, d)
      BY <2>3
    <3>2. PICK share \in Shares : share <= Owed(o) /\ Refund(o, order[o].live \ {d}, share)
      BY <3>1 DEF CancelDish
    <3>3. order[o].live # {} /\ share \in Nat
      BY <3>1, PriceAssumption DEF CancelDish
    <3> QED BY <1>2, <2>1, <3>2, <3>3, RefundKeepsWallet DEF WalletInv
  <2>4. CASE \E r \in Requests : Commit(r)
    BY <1>2, <2>1, <2>4, CommitKeepsWallet DEF WalletInv
  <2>5. CASE \/ \E t \in Tabs : \/ LoseAnswer(t) \/ ExpireKey(t)
                                \/ \E kind \in Buttons[t] : ShowTotal(t, kind)
             \/ \E t \in Tabs, r \in Requests : Press(t, r)
             \/ \E r \in Requests :
                  \/ LookUpKey(r) \/ ReadAndPrice(r) \/ RollBack(r)
                  \/ ReceiveOrder(r) \/ ReceiveRefusal(r) \/ FailRequest(r)
             \/ \E d \in Edited : OpenForm(d) \/ SaveForm(d)
             \/ OpenOrClose
             \/ \E p \in Changing : SwitchPromotion(p) \/ \E limit \in UseLimits : SetLimit(p, limit)
    <3>1. wallet' = wallet /\ order' = order
      BY <2>5 DEF LoseAnswer, ExpireKey, ShowTotal, Press, LookUpKey, ReadAndPrice, RollBack,
           ReceiveOrder, ReceiveRefusal, FailRequest, OpenForm, SaveForm,
           OpenOrClose, SwitchPromotion, SetLimit, Edit, rowVars
    <3> QED BY <1>2, <2>1, <3>1, WalletSame DEF WalletInv
  <2> QED BY <1>2, <2>2, <2>3, <2>4, <2>5 DEF Next
<1> QED BY <1>1, <1>2

(* Debits, item refunds and cancels in any order: the balance and what the wallet's
   orders keep are what was put in, and no debits together overdraw it. *)
THEOREM WalletMoneyIsKept == Spec => []WalletIsKept
<1>1. Init => WalletInv
  <2> SUFFICES ASSUME Init PROVE WalletInv
    OBVIOUS
  <2>1. TypeOK
    BY InitIsTyped
  <2>2. \A o \in Orders : Owed(o) = 0 /\ order[o].by = Nobody
    BY DEF Init, Owed, NoOrder
  <2>3. \A u \in Customers : OrdersOf(u) = {}
    BY <2>2 DEF OrdersOf, Placed
  <2>4. ASSUME NEW u \in Customers PROVE wallet[u] >= 0 /\ wallet[u] + KeptOf(u) = TopUp[u]
    <3>1. KeptOf(u) = 0
      BY <2>3, SumOfNone DEF KeptOf
    <3>2. wallet[u] = TopUp[u] /\ TopUp[u] \in Nat
      BY StockAssumption DEF Init
    <3> QED BY <3>1, <3>2
  <2> QED BY <2>1, <2>2, <2>4 DEF WalletInv, WalletParts, WalletIsKept, KeptOf, Kept
<1>2. WalletInv => WalletIsKept
  BY DEF WalletInv, WalletParts
<1> QED BY <1>1, <1>2, WalletStep, PTL DEF Spec
=============================================================================
