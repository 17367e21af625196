SPECIFICATION FairSpec
CONSTANTS
  i1 = i1
  i2 = i2
  c1 = c1
  c2 = c2
  Items = {i1, i2}
  Price <- TwoPrices
  Fee = 1
  PlacedWith = {"transfer"}
  Handover = "kitchen"
  Callers = {c1}
  Racing = {"move", "submit", "confirm", "dispute", "adminConfirm", "refund", "retry", "cash"}
  Attempts = {}
  RefundAmounts = {1}
  MaxDismissals = 1
  MaxCrashes = 1
INVARIANTS RestockedOnce DeliveredIsComplete DeliveredPaidIsPosted
PROPERTIES FoodLeavesPaid PendingIsSettled UnpaidIsSettled
CHECK_DEADLOCK FALSE
