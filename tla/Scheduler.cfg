SPECIFICATION FairSpec
CONSTANTS
  i1 = i1
  i2 = i2
  j1 = j1
  j2 = j2
  Instances = {i1, i2}
  Jobs = {j1, j2}
  JobsOf <- OneOnBoth
  MaxConcurrent = 1
  Tokens = 2
  MaxFaults = 1
  MaxCrashes = 1
INVARIANTS SlotsAreKept OneOfAKind
PROPERTIES JobsGoOn
CHECK_DEADLOCK FALSE
