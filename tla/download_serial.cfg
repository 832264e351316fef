\* Three downloads under one install lock, one after the other.  Beside them one
\* extraction: every archive of at most two entries, some of three or four.
SPECIFICATION ArtifactSpec
CONSTANTS
  o1 = o1
  o2 = o2
  o3 = o3
  l1 = l1
  l2 = l2
  Ops = {o1, o2, o3}
  Locks = {l1, l2}
  LockOf <- SameLock
  Faults = TRUE
  Crashes = TRUE
  Rot = TRUE
  Archives <- MCArchives
  Replacements <- MCReplacements
  Requests <- MCRequests
  ArchiveEntryMax = 3
  ArchiveFileMaxBytes = 4
  ArchiveTotalMaxBytes = 6
  ArchiveRatioMax = 3
INVARIANTS
  CacheHoldsVerified
  ExtractedIsVerified
  AllOrNothing
  StopsForCause
PROPERTIES
  GoodEntryStays
CHECK_DEADLOCK FALSE
