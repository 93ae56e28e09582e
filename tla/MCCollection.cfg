SPECIFICATION MCSpec
CONSTANTS
  t1 = t1
  e1 = e1
  e2 = e2
  Sources = {1, 2}
  Unsteady <- MCUnsteady
  Targets = {t1}
  Executors = {e1, e2}
  Nobody = Nobody
  Blank <- MCBlank
  MaxPosts <- MCMaxPosts
  PageSize = 1
  MaxAttempts = 2
  MaxFaults = 1
INVARIANTS
  TypeOK
  NoPostSkipped
  DeletedStaysDeleted
PROPERTIES
  SuccessIsComplete
  CatchesUp
CHECK_DEADLOCK FALSE
