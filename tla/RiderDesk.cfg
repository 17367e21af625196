SPECIFICATION FairSpec
CONSTANTS
  r1 = r1
  r2 = r2
  j1 = j1
  j2 = j2
  j3 = j3
  d1 = d1
  d2 = d2
  p1 = p1
  Riders = {r1, r2}
  Jobs = {j1, j2}
  Slots = 1
  Nobody = Nobody
  Amount <- TwoThenOne
  PlacedPaying <- CashFirst
  Fee = 1
  DefaultLimit = 2
  Limits = {0}
  Sums = {1}
  Corrections = {1}
  Dispatchers = {d1}
  Claims = {}
  Happens = {"fail", "retry", "cancel", "adminDeliver", "cash", "pay", "suspendUser", "reactivate", "settle", "payout"}
  MaxChanges = 2
INVARIANTS DeliveryIsPaid BooksStayEven
PROPERTIES PoolIsEmptied
CHECK_DEADLOCK FALSE
