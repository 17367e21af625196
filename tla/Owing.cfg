SPECIFICATION FairSpec
CONSTANTS
  o1 = o1
  o2 = o2
  o3 = o3
  o4 = o4
  c1 = c1
  f1 = f1
  f2 = f2
  Orders = {o2}
  MaxPayouts = 2
  Callers = {c1}
  Refreshers = {f1, f2}
  Scheduled = {f1}
  Nobody = Nobody
  Kind <- KindOf
  Total <- TotalOf
  Share <- ShareOf
  Asked = {1}
  Paid = {1}
  Deposits = {3}
  Minimum = 1
  LastDay = 3
  Mondays = {}
  Happens = {"payment", "refund", "cancel", "rollback"}
  MaxDismissals = 1
PROPERTIES OwingIsNoticed
CHECK_DEADLOCK FALSE
