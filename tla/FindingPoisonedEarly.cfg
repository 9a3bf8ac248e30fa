SPECIFICATION Spec
CONSTANTS
  e1 = e1
  e2 = e2
  e3 = e3
  g1 = g1
  s1 = s1
  Entry = {e1, e2, e3}
  Grain = {g1}
  Shard = {s1}
  grainOf <- OneGrain
  shardOf <- OneShard
  Announced <- OneEntry
  Channels <- SomeChannels
  Unreadable = {}
  BatchSize = 2
  Budget = 3
  MaxUnsent = 5
  RetryMax = 5
  MaxFaults = 3
CHECK_DEADLOCK FALSE
INVARIANT PoisonedAfterThrows
