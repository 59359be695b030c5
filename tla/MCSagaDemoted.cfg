\* No faults: two requests for the same pair and a confirmation are enough.
CONSTANTS
  r1 = r1  r2 = r2  s1 = s1  s2 = s2  p1 = p1  p2 = p2  h1 = h1  w1 = w1  w2 = w2
  None = None
  Pair = {p1}
  SubId = {s1, s2}
  Key = {s1, s2}
  Request = {r1, r2}
  Handler = {h1}
  Sweeper = {w1}
  FaultPoint = {}
  MaxFaults = 0
  SlowStart = FALSE
SPECIFICATION SafeSpec
SYMMETRY Symmetry
PROPERTIES
  ActiveIsNotDemoted
\* Every request may have been answered and every saga settled.
CHECK_DEADLOCK FALSE
