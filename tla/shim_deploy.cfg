\* Linux and Windows: deployments, faults, crashes, a user at work, new clients.
SPECIFICATION Spec
CONSTANTS
  Last = 2
  Strategies = {"symlink", "hardlink"}
  Faults = TRUE
  Crashes = TRUE
  MaxMoves = 3
  MaxInodes = 6
INVARIANTS
  DeployedIsComplete
  DeployIsIdempotent
  RefusesOnlyForeign
PROPERTIES
  ContentKept
