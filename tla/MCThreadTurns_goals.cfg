CONSTANTS
  Client = {c1}
  MaxTurns = 3
  MaxGoals = 2
  MaxCommands = 3
  MaxFaults = 1
  Faults = {"error", "late", "start"}
  Commands = {"create", "next", "resume", "reopen", "pause", "cancel", "budget", "queue"}
  Items <- TwoItems
  Restored = {1}
  Limits = {1}
SPECIFICATION Spec
INVARIANTS
  TypeOK
  ActiveHasTurns
  NoIdleLoop
  PromotedOnce
PROPERTIES
  UserResumeSticks
CHECK_DEADLOCK FALSE
