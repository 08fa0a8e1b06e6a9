CONSTANTS
  Task = {c1, t1}
  Cron = {c1}
  Worker = {w1, w2}
  Nobody = nobody
  MaxTerminal = 1
  MaxFaults = 2
  MaxStops = 2
  MaxResumes = 1
SPECIFICATION Spec
SYMMETRY Symmetry
INVARIANTS
  TypeOK
  OneExecutionPerTask
  ExecutionIsDurable
  QueueIsExact
  RecordsAreCoherent
PROPERTIES
  RecordedTurnIsNotRerun
  CompletedIsFinal
  CanceledOnRequest
  FollowsLifecycle
