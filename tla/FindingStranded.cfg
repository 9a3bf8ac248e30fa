SPECIFICATION Spec
CONSTANTS
  Reward = {1, 2}
  Publisher = {p1}
  RetryWorker = {w1}
  createdAt <- MCCreatedAt
  Unreadable = {}
  BatchSize = 2
  MaxAttempts = 1
  MayTimeOut = FALSE
  MaxFaults = 1
INVARIANT NothingStranded
\* Once every reward has settled the pollers find nothing to do.
CHECK_DEADLOCK FALSE
