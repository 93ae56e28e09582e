SPECIFICATION Spec
CONSTANTS
  Actors = {a1, a2}
  NoActor = NoActor
  OpenWindows = {"now"}
  MaxAttempts = 1
  MaxSends = 3
SYMMETRY MCSymmetry
INVARIANTS
  NoUnintendedDuplicate
CHECK_DEADLOCK FALSE
