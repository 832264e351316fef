\* Two operations on one key, with any fault, crash, cancellation or intruder.
SPECIFICATION Spec
CONSTANTS
  o1 = o1
  o2 = o2
  o3 = o3
  k1 = k1
  k2 = k2
  c1 = c1
  c2 = c2
  NoOp = NoOp
  NoContent = NoContent
  Ops = {o1, o2}
  Keys = {k1}
  KeyOf <- OneKey
  Contents = {c1, c2}
  ContentsOf <- Probing
  RoundTrip = {c1}
  Approved = {o1, o2}
  Unencodable = {}
  Cancellable = {o1}
  Crashable = {o1, o2}
  Faults = TRUE
  MaxInputRev = 1
  Intruders = {k1}
INVARIANTS
  PublishedIsComplete
  SuccessIsOnDisk
  FailureLeavesNothing
  IndexNamesPublished
PROPERTIES
  ImplementsStore
CHECK_DEADLOCK FALSE
