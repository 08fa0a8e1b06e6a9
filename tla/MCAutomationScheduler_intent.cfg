CONSTANTS
  Job = {j1}
  Delivering = {}
  FromChat = {}
  Grace = 1
  Keep = 1
  MaxAttempts = 2
  Ends = {}
  MaxTime = 3
  MaxEdits = 0
  MaxDiscussions = 0
  MaxResumes = 0
  MaxStops = 1
  MaxFaults = 0
SPECIFICATION FairSpec
PROPERTIES IntentsAreDispatched
CHECK_DEADLOCK FALSE
