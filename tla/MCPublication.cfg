SPECIFICATION Spec
CONSTANTS
  Actors = {a1, a2}
  NoActor = NoActor
  OpenWindows = {"approve", "reopen", "schedule", "mark"}
  MaxAttempts = 2
  MaxSends = 2
SYMMETRY MCSymmetry
INVARIANTS
  TypeOK
  NoUnintendedDuplicate
  MessageIsRecorded
  PublishedAgree
PROPERTIES
  PublishedIsFinal
CHECK_DEADLOCK FALSE
