\* A release message left in the queue and the worker that has it, two calls about two
\* releases, one fault, no delivery that outlasts the lease.
CONSTANTS
  m1 = m1  m2 = m2  k1 = k1  k2 = k2
  c1 = c1  c2 = c2  c3 = c3  a1 = a1  a2 = a2  x1 = x1  x2 = x2
  None = None
  Msg = {m1}
  Release = {m1}
  Invalid = {}
  Key = {k1, k2}
  KeyOf <- FirstKey
  Copy = {c1}
  Worker = {a1}
  MAX_RETRIES = 1
  FaultPoint = {"crash", "smtp", "claim", "release", "confirm"}
  MaxFaults = 1
  SlowDelivery = FALSE
  Call = {x1, x2}
  Tag = {k1, k2}
  CallFault = {"deadline", "tag", "scanner"}
  MaxTags = 1
SPECIFICATION CallSpec
INVARIANTS
  CallTypeOK
  NothingVanishes
  OneMailOverBoth
  OneSenderPerKey
  TagWasMailed
PROPERTIES
  EveryMessageEnds
  TagCatchesUp
CHECK_DEADLOCK FALSE
