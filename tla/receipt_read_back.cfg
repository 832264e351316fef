\* The accepted definitions as they are: an install, and its receipt read back.
SPECIFICATION ToolSpec
CONSTANTS
  Absent = Absent
  Inputs <- BaseInputs
  Operations <- MCOperations
  o1 = o1
  o2 = o2
  o3 = o3
  d1 = d1
  d2 = d2
  NoCatalog = NoCatalog
  NoDef = NoDef
  Defs = {d1, d2}
  DefOf <- OwnDef
  Ops = {}
  Exact = {}
  Forced = {}
  Ttl = 1
  Faults = TRUE
  MaxClock = 2
  MaxContent = 2
INVARIANTS
  RoundTripAgrees
CHECK_DEADLOCK FALSE
