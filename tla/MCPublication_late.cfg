SPECIFICATION Spec
CONSTANTS
  Actors = {a1, a2}
  NoActor = NoActor
  OpenWindows = {}
  MaxAttempts = 1
  MaxSends = 2
SYMMETRY MCSymmetry
PROPERTIES
  LostLeaseWritesNothing
CHECK_DEADLOCK FALSE
