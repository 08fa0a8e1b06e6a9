CONSTANTS
  Task = {t1, t2, t3}
  Cron = {}
  Worker = {w1}
  Nobody = nobody
  MaxTerminal = 1
  MaxFaults = 1
  MaxStops = 0
  MaxResumes = 1
SPECIFICATION Spec
PROPERTIES EvictedLivesOnDisk
