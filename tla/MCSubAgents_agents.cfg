CONSTANTS
  Proc = {p1, p2}
  Agent = {a1}
  Nobody = nobody
  Caller = {c1}
  Listening = {p1}
  Capacity = 1
  MaxAgents = 1
  MaxTerminal = 0
  MaxRuns = 2
  MaxFaults = 1
  MaxStops = 1
SPECIFICATION Spec
INVARIANTS
  TypeOK
  OneExecutor
  EndsOnce
  NoLostWakeup
  ConsumerLearns
  CancelledRunsEnd
PROPERTIES
  OutcomeIsKept
CHECK_DEADLOCK FALSE
