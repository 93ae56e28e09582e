SPECIFICATION Spec
CONSTANTS
  pub1 = pub1
  pub2 = pub2
  rew1 = rew1
  item = item
  w1 = w1
  w2 = w2
  NoKey = NoKey
  Keys <- MCKeys
  QueueOf <- MCQueueOf
  SubjectOf <- MCSubjectOf
  Subjects = {item}
  Workers = {w1, w2}
  Serves <- MCServes
  MaxAttempts <- MCMaxAttempts
  Lease = 2
  Backoff = 1
SYMMETRY MCSymmetry
INVARIANTS
  TypeOK
  RetryBudget
  AtMostOneEffect
  NoFalseFailure
  SuccessIsBacked
  ActiveSubjectUnique
PROPERTIES
  OwnershipFenced
  ImplementsLifecycle
CHECK_DEADLOCK FALSE
