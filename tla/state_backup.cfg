\* A state file with a backup, any fault or crash, and one damage.
SPECIFICATION Spec
CONSTANTS
  Backup = TRUE
  Faults = TRUE
  Crashes = TRUE
  MaxWrites = 4
  MaxDamage = 1
INVARIANTS
  Recoverable
  NothingCommittedLost
  OnlyOwnState
PROPERTIES
  RollbackIsPrevious
CHECK_DEADLOCK FALSE
