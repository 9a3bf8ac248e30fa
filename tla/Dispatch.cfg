SPECIFICATION FairSpec
CONSTANTS
  Reward = {1, 2}
  Publisher = {p1, p2}
  RetryWorker = {w1}
  createdAt <- MCCreatedAt
  Unreadable = {2}
  BatchSize = 2
  MaxAttempts = 2
  MayTimeOut = TRUE
  MaxFaults = 1
INVARIANTS MarkedMeansDelivered RetryOnlyAfterBothTiers NeverDeliveredTwice StatusesAgree
PROPERTY EveryRewardSettles
\* Once every reward has settled the pollers find nothing to do.
CHECK_DEADLOCK FALSE
