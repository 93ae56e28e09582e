SPECIFICATION MCSpec
CONSTANTS
  u1 = u1
  u2 = u2
  r1 = r1
  r2 = r2
  Users = {u1, u2}
  First = u1
  Calls = {r1, r2}
  NoCall = NoCall
  MaxSessions = 1
  MaxPassword = 2
  MaxCreated = 3
  Names = {n1, n2}
  n1 = n1
  n2 = n2
  a1 = a1
  Addresses = {a1}
  Origins = {{n1, a1}, {n2, a1}, {n1}}
  Logins = {l1, l2}
  l1 = l1
  l2 = l2
  Free = Free
  q1 = q1
  q2 = q2
  q3 = q3
  Requests = {q1, q2, q3}
  NoFile = NoFile
  MaxBroken = 2
  Day = 10
  Schedules <- MCSchedules
  Poll = 2
  Retry = 6
  LastTime = 31
  MaxChanges = 1
  MaxErrors = 1
  NameThreshold = 2
  AddressThreshold = 3
  Window = 2
  Block = 3
  MaxWait = 1
  MaxClock = 4
  MaxFailures = 4
SYMMETRY MCSymmetry
INVARIANTS
  AccountsTypeOK
  DisabledHasNoSession
  SessionsFollowPassword
  GuessesAreBounded
  AvatarAccounted
  AsksAtEveryMoment
PROPERTIES
  ResetStands
CHECK_DEADLOCK FALSE
