CONSTANTS
  Task = {c1, c2}
  Cron = {c1, c2}
  Worker = {w1, w2}
  Nobody = nobody
  MaxTerminal = 2
  MaxFaults = 1
  MaxStops = 1
  MaxResumes = 0
SPECIFICATION FairSpec
INVARIANTS OneCronExecutes
PROPERTIES QueuedSettles
