SPECIFICATION Spec
CONSTANTS
  l1 = l1
  l2 = l2
  l3 = l3
  Lines = {l1, l2}
  Want <- Wants
  LastBatch = 2
  Deliveries = {1, 2}
  ShelfLife = {2, 3}
  MinLife = 1
  MaxTime = 3
  MaxIntakes = 3
INVARIANTS UnitsAreKept
PROPERTIES OffSaleStays FirstExpiredFirst StaleIsTakenDown
CHECK_DEADLOCK FALSE
