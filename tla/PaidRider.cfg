SPECIFICATION Spec
CONSTANTS
  i1 = i1
  i2 = i2
  c1 = c1
  c2 = c2
  Items = {i1, i2}
  Price <- TwoPrices
  Fee = 1
  PlacedWith = {"cod", "wallet"}
  Handover = "rider"
  Callers = {c1}
  Racing = {"ready", "advance", "refund", "retry", "claim", "walletPay"}
  Attempts = {}
  RefundAmounts = {1, 4}
  MaxDismissals = 1
  MaxCrashes = 1
INVARIANTS TypeOK ReadyHasJob CashIsCharged CancelledIsClosed
PROPERTIES OnlyRetryRevives
CHECK_DEADLOCK FALSE
