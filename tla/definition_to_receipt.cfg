\* Every definition of MCInputs on its way to two receipts.  Beside it three refreshes
\* of one catalog without a lock: one exact, one listing, one that names no definition.
SPECIFICATION ToolSpec
CONSTANTS
  Absent = Absent
  Inputs <- MCInputs
  Operations <- MCOperations
  o1 = o1
  o2 = o2
  o3 = o3
  d1 = d1
  d2 = d2
  NoCatalog = NoCatalog
  NoDef = NoDef
  Defs = {d1, d2}
  DefOf <- OwnDef
  Ops = {o1, o2, o3}
  Exact = {o1}
  Forced = {}
  Ttl = 1
  Faults = TRUE
  MaxClock = 2
  MaxContent = 2
INVARIANTS
  LicenseParsed
  NothingDroppedSilently
  LatestIsGreatest
  AcceptedInstalls
  TwinInstallsAgree
  AnswerMatchesDefinition
  OfflineExactServed
PROPERTIES
  LatestIsCurrent
\* an install stops, or ends with two receipts
CHECK_DEADLOCK FALSE
