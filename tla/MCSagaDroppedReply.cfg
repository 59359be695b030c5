\* One saga; the one fault strikes the last update of compensate().
CONSTANTS
  r1 = r1  r2 = r2  s1 = s1  s2 = s2  p1 = p1  p2 = p2  h1 = h1  w1 = w1  w2 = w2
  None = None
  Pair = {p1}
  SubId = {s1}
  Key = {s1}
  Request = {r1}
  Handler = {h1}
  Sweeper = {w1}
  FaultPoint = {"finish"}
  MaxFaults = 1
  SlowStart = FALSE
SPECIFICATION Spec
PROPERTIES
  DroppedReplyRecovers
\* Every request may have been answered and every saga settled.
CHECK_DEADLOCK FALSE
