CONSTANTS
  Job = {j1}
  Delivering = {j1}
  FromChat = {}
  Grace = 1
  Keep = 1
  MaxAttempts = 2
  Ends = {"completed","failed"}
  MaxTime = 1
  MaxEdits = 0
  MaxDiscussions = 1
  MaxResumes = 1
  MaxStops = 1
  MaxFaults = 1
SPECIFICATION FairSpec
PROPERTIES
  LinkIsKept
  NothingSentTwiceKnowingly
  EveryEndIsDelivered
CHECK_DEADLOCK FALSE
