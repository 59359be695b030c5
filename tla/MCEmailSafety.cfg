\* Two confirmations with the same key and a message that does not parse, two faults of
\* any kind, deliveries that may outlast the lease.
CONSTANTS
  m1 = m1  m2 = m2  m3 = m3  k1 = k1  k2 = k2
  c1 = c1  c2 = c2  c3 = c3  c4 = c4  a1 = a1  a2 = a2
  None = None
  Msg = {m1, m2, m3}
  Release = {}
  Invalid = {m3}
  Key = {k1}
  KeyOf <- OneKey
  Copy = {c1, c2, c3}
  Worker = {a1, a2}
  MAX_RETRIES = 1
  FaultPoint = {"crash", "channel", "settle", "smtp", "claim", "release", "confirm", "report"}
  MaxFaults = 2
  SlowDelivery = TRUE
SPECIFICATION SafeSpec
SYMMETRY Symmetry
INVARIANTS
  TypeOK
  NothingVanishes
  FailedIsFinal
  OneMailPerFault
  SendingExclusive
PROPERTIES
  KeepsContract
\* All messages may have ended.
CHECK_DEADLOCK FALSE
