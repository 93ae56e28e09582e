SPECIFICATION FairSpec
CONSTANTS
  f1 = f1
  v2 = v2
  v1 = v1
  p1 = p1
  p2 = p2
  Photos = {f1}
  Videos = {v1, v2}
  SourcePhotos = {}
  Processes = {p1, p2}
  Nobody = Nobody
  MaxAttachments = 1
  MaxMessage = 2
  PartAge = 1
  OrphanAge = 1
INVARIANTS
  FilesWithinLimit
PROPERTIES
  OnlyWholeFilesAreSent
  CleanupSparesLiving
  DeletedLeavesNothing
CHECK_DEADLOCK FALSE
