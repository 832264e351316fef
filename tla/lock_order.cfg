\* Three processes; one may time out, be cancelled and meet a faulty manager, all may die.
SPECIFICATION FairSpec
CONSTANTS
  p1 = p1
  p2 = p2
  p3 = p3
  t1 = t1
  t2 = t2
  t3 = t3
  NoKey = NoKey
  Procs = {p1, p2, p3}
  Threads = {t1, t2, t3}
  ProcOf <- OneEach
  Keys <- FourKeys
  Cancellable = {t1}
  Impatient = {t1}
  Unlucky = {t1}
  Crashes = TRUE
INVARIANTS
  MutualExclusion
  EndReleasesAll
PROPERTIES
  EveryWaitEnds
