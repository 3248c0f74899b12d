SPECIFICATION Spec
CONSTANTS
  SpringAt = 380
  AutumnAt = 714
  Instants = {351, 352, 832}
  MaxEvents = 3
INVARIANTS StatusSound BoundaryArmed PageIsCoherent
CHECK_DEADLOCK FALSE
