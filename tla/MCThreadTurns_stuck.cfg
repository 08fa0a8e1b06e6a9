CONSTANTS
  Client = {c1}
  MaxTurns = 2
  MaxGoals = 0
  MaxCommands = 2
  MaxFaults = 1
  Faults = {"error"}
  Commands = {"message", "interrupt"}
  Items <- NoItems
  Restored = {0}
  Limits = {1}
SPECIFICATION FairSpec
PROPERTIES
  ErrorsEndTurns
CHECK_DEADLOCK FALSE
