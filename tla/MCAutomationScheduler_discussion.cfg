CONSTANTS
  Job = {j1}
  Delivering = {}
  FromChat = {}
  Grace = 0
  Keep = 1
  MaxAttempts = 2
  Ends = {"completed"}
  MaxTime = 1
  MaxEdits = 1
  MaxDiscussions = 1
  MaxResumes = 0
  MaxStops = 0
  MaxFaults = 0
SPECIFICATION Spec
PROPERTIES ChangedIsNotRestored
CHECK_DEADLOCK FALSE
