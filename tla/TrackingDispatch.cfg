SPECIFICATION FairSpec
CONSTANTS
  e1 = e1
  e2 = e2
  e3 = e3
  g1 = g1
  s1 = s1
  Entry = {e1, e2, e3}
  Grain = {g1}
  Shard = {s1}
  grainOf <- OneGrain
  shardOf <- OneShard
  Announced <- InOrder
  Channels <- SomeChannels
  Unreadable = {e1, e2}
  BatchSize = 2
  Budget = 2
  MaxUnsent = 3
  RetryMax = 2
  MaxFaults = 2
INVARIANTS NothingForgotten
PROPERTIES SettledStays EveryEntrySettles
CHECK_DEADLOCK FALSE
