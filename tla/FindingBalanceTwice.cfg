SPECIFICATION Spec
CONSTANTS
  e1 = e1
  e2 = e2
  e3 = e3
  e4 = e4
  g1 = g1
  g2 = g2
  s1 = s1
  Entry = {e1, e2, e3, e4}
  NoEntry = NoEntry
  Grain = {g1, g2}
  Shard = {s1}
  grainOf <- GrainOf
  shardOf <- ShardOf
  Handler = {h1}
  Consumer = consumer
  Reader = {r1, r2}
  Typed = {g1}
  Expiring = {e1}
  Malformed = {e4}
  MaxMessages = 2
  MaxFaults = 1
INVARIANT OneBalanceEach
