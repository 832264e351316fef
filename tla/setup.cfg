\* Setups repeated through failures, failed undos and crashes; the backup is not undone.
SPECIFICATION FairSpec
CONSTANTS
  Plans <- AllPlans
  ReadOnly = {5}
  NoApply <- ThirdMissing
  NoUndo = {3}
  MaxFaults = 3
  MaxCrashes = 2
INVARIANTS
  FailureUndone
  NothingDangles
  StateIsTrue
PROPERTIES
  RerunConverges
