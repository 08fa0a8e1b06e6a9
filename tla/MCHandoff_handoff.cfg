CONSTANTS
  Human = {h1, h2}
  MaxTurns = 2
  MaxAsks = 3
SPECIFICATION Spec
SYMMETRY Symmetry
INVARIANTS
  TypeOK
  OneActor
  PausedIsHeld
  ApprovalsEnd
PROPERTIES
  TakeoversAreTold
  TakeoverLasts
CHECK_DEADLOCK FALSE
