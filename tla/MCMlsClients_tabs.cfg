CONSTANTS
  d1 = d1  d2 = d2
  t1 = t1  t2 = t2
  Devices = {d1, d2}
  Tabs = {t1, t2}
  DeviceOf <- TabOwners
  MaxEpoch = 3
  MaxBuilt = 4
  MaxTasks = 3
  MaxSends = 2
  MaxFaults = 2
SPECIFICATION Spec
CHECK_DEADLOCK FALSE
INVARIANTS SavedStateIsOnTheLog OwnCommitCanBeSettled GenerationsUsedOnce
SYMMETRY TwoTabs
