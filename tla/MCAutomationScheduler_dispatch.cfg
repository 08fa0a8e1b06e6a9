CONSTANTS
  Job = {j1}
  Delivering = {}
  FromChat = {}
  Grace = 0
  Keep = 1
  MaxAttempts = 1
  Ends = {}
  MaxTime = 2
  MaxEdits = 1
  MaxDiscussions = 0
  MaxResumes = 0
  MaxStops = 1
  MaxFaults = 1
SPECIFICATION FairSpec
INVARIANTS
  TypeOK
  SlotDispatchedOnce
PROPERTIES
  EditsWin
  NoSlotLost
  PausedJobsRest
  OneShotFires
CHECK_DEADLOCK FALSE
