\* One subscriber, no faults; a release is withdrawn a day after the mail about the last.
CONSTANTS
  s1 = s1  s2 = s2  v1 = v1  v2 = v2  t1 = t1  t2 = t2  t3 = t3
  c1 = c1  c2 = c2  c3 = c3  w1 = w1  w2 = w2  p1 = p1
  None = None
  RepoOf <- OwnRepo
  Cron = {p1}
  Repo = {1}
  Sub = {s1}
  Tag = {v1, v2}
  Token = {t1}
  Copy = {c1, c2}
  Worker = {w1}
  SCAN_BATCH_SIZE = 2
  MAX_RETRIES = 1
  MaxQueued = 1
  FaultPoint = {}
  MaxFaults = 0
  Change = {"release", "day"}
  MaxChanges = 4
SPECIFICATION SafeSpec
INVARIANTS
  NoRepeatedMail
\* With nobody left subscribed, the scan may stop.
CHECK_DEADLOCK FALSE
