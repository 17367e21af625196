SPECIFICATION Spec
CONSTANTS
  o1 = o1
  o2 = o2
  o3 = o3
  o4 = o4
  c1 = c1
  f1 = f1
  f2 = f2
  Orders = {o1, o2, o4}
  MaxPayouts = 2
  Callers = {c1}
  Refreshers = {}
  Scheduled = {}
  Nobody = Nobody
  Kind <- KindOf
  Total <- TotalOf
  Share <- ShareOf
  Asked = {1}
  Paid = {1}
  Deposits = {2, 3}
  Minimum = 1
  LastDay = 2
  Mondays = {2}
  Happens = {"request", "payment", "refund", "rollback"}
  MaxDismissals = 0
INVARIANTS Covered ListedOnce PaidFromMoneyIn
PROPERTIES OneAWeek
CHECK_DEADLOCK FALSE
