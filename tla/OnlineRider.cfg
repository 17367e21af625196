SPECIFICATION Spec
CONSTANTS
  i1 = i1
  i2 = i2
  c1 = c1
  c2 = c2
  Items = {i1, i2}
  Price <- TwoPrices
  Fee = 1
  PlacedWith = {"online"}
  Handover = "rider"
  Callers = {c1}
  Racing = {"ready", "checkout", "refund", "claim", "retry", "cash", "walletPay"}
  Attempts = {a1, a2}
  RefundAmounts = {1, 4}
  MaxDismissals = 1
  MaxCrashes = 0
INVARIANTS MoneyIsKept RefundWithinTotal RefundedIsSettled CancelledOwesRefund
CHECK_DEADLOCK FALSE
