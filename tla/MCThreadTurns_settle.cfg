CONSTANTS
  Client = {c1, c2}
  MaxTurns = 2
  MaxGoals = 0
  MaxCommands = 3
  MaxFaults = 2
  Faults = {"crash", "start", "timeout"}
  Commands = {"message", "interrupt", "compact"}
  Items <- NoItems
  Restored = {0}
  Limits = {1}
SPECIFICATION FairSpec
INVARIANTS
  TurnOwnsThread
PROPERTIES
  TurnsSettle
CHECK_DEADLOCK FALSE
