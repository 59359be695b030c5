\* One message; the process dies once; all the retries of the code.
CONSTANTS
  m1 = m1  m2 = m2  m3 = m3  k1 = k1  k2 = k2
  c1 = c1  c2 = c2  c3 = c3  c4 = c4  a1 = a1  a2 = a2
  None = None
  Msg = {m1}
  Release = {}
  Invalid = {}
  Key = {k1}
  KeyOf <- OneKey
  Copy = {c1}
  Worker = {a1}
  MAX_RETRIES = 3
  FaultPoint = {"crash"}
  MaxFaults = 1
  SlowDelivery = FALSE
SPECIFICATION SafeSpec
INVARIANTS
  GivenUpOnlyIfRefused
\* All messages may have ended.
CHECK_DEADLOCK FALSE
