SPECIFICATION Spec
CONSTANTS
  r1 = r1
  r2 = r2
  j1 = j1
  j2 = j2
  j3 = j3
  d1 = d1
  d2 = d2
  p1 = p1
  Riders = {r1, r2}
  Jobs = {j1, j2, j3}
  Slots = 2
  Nobody = Nobody
  Amount <- OneEach
  PlacedPaying <- TwoCash
  Fee = 1
  DefaultLimit = 1
  Limits = {2}
  Sums = {1}
  Corrections = {1}
  Dispatchers = {d1}
  Claims = {p1}
  Happens = {"release", "suspendRider", "limit", "duty", "correct"}
  MaxChanges = 1
INVARIANTS TypeOK CashWithinLimit
PROPERTIES KeepsTheBoard
SYMMETRY RiderSymmetry
CHECK_DEADLOCK FALSE
