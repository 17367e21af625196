SPECIFICATION Spec
CONSTANTS
  u1 = u1
  u2 = u2
  t1 = t1
  t2 = t2
  t3 = t3
  d1 = d1
  d2 = d2
  o1 = o1
  o2 = o2
  o3 = o3
  q1 = q1
  q2 = q2
  Nobody = Nobody
  Customers = {u1}
  Tabs = {t1, t2}
  Owner <- Owners
  Dishes = {d1, d2}
  Orders = {o1, o2}
  Requests = {q1, q2}
  Tray <- BothDishes
  Buttons <- WholeOrPart
  ByWallet = {u1}
  ListPrice <- Prices
  Fee = 1
  DealOff = 1
  CodeOff = 1
  PerCustomer = 1
  UseLimit <- Limits
  UseLimits = {1}
  Shares = {1}
  Edited = {d1}
  Changing = {"deal"}
  Stock <- Portions
  TopUp <- Balances
  DailyCap = 3
  Happens = {"lose", "fail", "expireKey", "cancel", "cancelDish", "edit", "close", "limit"}
  MaxPresses <- TwoThenOne
  MaxEdits = 1
INVARIANTS TypeOK StockIsKept UsesAreCounted WalletIsKept ChargedAsShown AnswerIsThisVisit RepeatNeedsNewKey
SYMMETRY Sym
CHECK_DEADLOCK FALSE
