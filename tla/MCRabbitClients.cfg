\* Each of the three processes, two faults of any kind.
CONSTANTS
  MaxConn = 4
  FaultPoint = {"connect", "break", "protocol", "channel"}
  MaxFaults = 2
  MaxWork = 1
  None = None
SPECIFICATION Spec
INVARIANTS
  TypeOK
  NoStalePromise
  OneConnection
  OneSubscription
  NoWorkCutOff
PROPERTIES
  EveryClientReturns
  ShutdownEnds
\* A process that has been stopped takes no further step.
CHECK_DEADLOCK FALSE
