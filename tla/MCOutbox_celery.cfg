SPECIFICATION FairOutboxSpec
CONSTANTS
  rew1 = rew1
  pub1 = pub1
  item = item
  NoKey = NoKey
  Keys = {rew1}
  QueueOf <- MCQueueOf
  SubjectOf <- MCSubjectOf
  Subjects = {item}
  Workers = {w1, w2}
  Serves <- MCServes
  MaxAttempts <- MCMaxAttempts
  Lease = 1
  Backoff = 1
  Transport = "celery"
  Dispatchers = {d1, d2}
  DispatchLease = 1
  DispatchDelay = 1
  StaleAge = 1
  MaxCopies = 2
  MaxFaults = 2
INVARIANTS
  OutboxTypeOK
  AtMostOneEffect
PROPERTIES
  DispatchFenced
  StartsDespiteLoss
CHECK_DEADLOCK FALSE
