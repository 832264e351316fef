\* Two keys at once: the index update of one install is lost.
SPECIFICATION Spec
CONSTANTS
  o1 = o1
  o2 = o2
  o3 = o3
  k1 = k1
  k2 = k2
  c1 = c1
  c2 = c2
  NoOp = NoOp
  NoContent = NoContent
  Ops = {o1, o2}
  Keys = {k1, k2}
  KeyOf <- Apart
  Contents = {c1, c2}
  ContentsOf <- SameContent
  RoundTrip = {c1}
  Approved = {o1, o2}
  Unencodable = {}
  Cancellable = {}
  Crashable = {}
  Faults = FALSE
  MaxInputRev = 0
  Intruders = {}
INVARIANTS
  SuccessIsIndexed
CHECK_DEADLOCK FALSE
