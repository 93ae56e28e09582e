SPECIFICATION FairOutboxSpec
CONSTANTS
  rew1 = rew1
  pub1 = pub1
  item = item
  NoKey = NoKey
  Keys = {pub1}
  QueueOf <- MCQueueOf
  SubjectOf <- MCSubjectOf
  Subjects = {item}
  Workers = {w1, w2}
  Serves <- MCServes
  MaxAttempts <- MCMaxAttempts
  Lease = 2
  Backoff = 1
  Transport = "postgres"
  Dispatchers = {d1}
  DispatchLease = 1
  DispatchDelay = 1
  StaleAge = 1
  MaxCopies = 2
  MaxFaults = 2
INVARIANTS
  ReceiptBacksDelivery
PROPERTIES
  EventuallySettled
CHECK_DEADLOCK FALSE
