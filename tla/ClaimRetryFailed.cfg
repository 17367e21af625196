SPECIFICATION Spec
CONSTANTS
  i1 = i1
  i2 = i2
  c1 = c1
  c2 = c2
  Items = {i1, i2}
  Price <- TwoPrices
  Fee = 1
  PlacedWith = {"wallet"}
  Handover = "rider"
  Callers = {c1}
  Racing = {"advance", "retry"}
  Attempts = {}
  RefundAmounts = {}
  MaxDismissals = 0
  MaxCrashes = 0
PROPERTIES OnlyFailedIsRetried
CHECK_DEADLOCK FALSE
