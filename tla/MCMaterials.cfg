SPECIFICATION MCSpec
CONSTANTS
  r1 = r1
  r2 = r2
  d1 = d1
  Requests = {r1, r2}
  Drafts = {d1}
  s1 = s1
  t1 = t1
  t2 = t2
  x1 = x1
  x2 = x2
  Sources = {s1}
  Channels = {t1, t2}
  Deletions = {x1, x2}
  u1 = u1
  Uploads = {u1}
  NoRow = NoRow
  MaxVersion = 4
SYMMETRY MCSymmetry
INVARIANTS
  TypeOK
  TaskRewriteKeepsEdits
  ScheduledHasTime
  NothingOrphaned
PROPERTIES
  TextAndStatusApart
CHECK_DEADLOCK FALSE
