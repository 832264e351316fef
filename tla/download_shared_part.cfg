\* Operations on two InstallKeys share one cache entry.
SPECIFICATION Spec
CONSTANTS
  o1 = o1
  o2 = o2
  o3 = o3
  l1 = l1
  l2 = l2
  Ops = {o1, o2, o3}
  Locks = {l1, l2}
  LockOf <- OtherKey
  Faults = FALSE
  Crashes = FALSE
  Rot = FALSE
INVARIANTS
  CacheHoldsVerified
CHECK_DEADLOCK FALSE
